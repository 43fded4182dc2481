SPECIFICATION Spec
CONSTANTS
  Requests <- YamlRequests
  NoIP = NoIP
  NoMatrix = NoMatrix
INVARIANT YamlHepsAreActors
CHECK_DEADLOCK FALSE
