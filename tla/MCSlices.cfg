SPECIFICATION Spec
CONSTANTS
  Requests <- SlicedRequests
  NoIP = NoIP
  NoMatrix = NoMatrix
INVARIANT SlicesResolve
CHECK_DEADLOCK FALSE
