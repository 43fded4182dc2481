SPECIFICATION Spec
CONSTANTS
  Requests <- PastedRequests
  NoIP = NoIP
  NoMatrix = NoMatrix
INVARIANT TierViewIsTheGraph
CHECK_DEADLOCK FALSE
