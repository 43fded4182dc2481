SPECIFICATION Spec
CONSTANTS
  Cases <- MCCases
  NoCase = NoCase
  Protected <- MCProtected
  Keep <- NeverKeep
  IncludeHEP = TRUE
  NoNodePool = FALSE
  Faulty <- NoFaults
  MaxFaults = 0
  MaxCrashes = 1
  MaxCases = 2
INVARIANT PoolNeverLingers
CHECK_DEADLOCK FALSE
