SPECIFICATION Spec
CONSTANTS
  Requests <- MCRequests
  NoIP = NoIP
  NoMatrix = NoMatrix
INVARIANTS
  TypeOK
  MemoSound
  OneLinePerPair
  InternetPosture
  MatrixAsWritten
  ProgramsAgree
  ChainsClosed
  AdviceIsSafe
PROPERTIES
  ImplementsMatrixSpec
  Terminates
CHECK_DEADLOCK FALSE
