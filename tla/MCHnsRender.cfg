SPECIFICATION Spec
CONSTANTS
  Endpoints <- MCEndpoints
  Packets <- MCPackets
  Protocols = {6, 17}
  Addresses = {1, 2, 3, 7, 8}
  Any = Any
  MaxPort = 3
  BasePriority = 10
  MaxPriority = 15
INVARIANT TypeOK
INVARIANT FaithfulOrWarned
INVARIANT OrderKept
PROPERTY Terminates
CHECK_DEADLOCK FALSE
