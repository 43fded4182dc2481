SPECIFICATION Spec
CONSTANTS
  Requests <- MCRequests
  NoSelector = NoSelector
  NoPort = NoPort
  NoOwner = NoOwner
  AnySubject = AnySubject
  NoActors = NoActors
  NoAnswer = NoAnswer
INVARIANT TypeOK
INVARIANT IndexExact
PROPERTY ImplementsMatrixSpec
PROPERTY AnsweredWhole
CHECK_DEADLOCK FALSE
