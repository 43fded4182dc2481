SPECIFICATION Spec
CONSTANTS
  Cases <- MCCases
  NoCase = NoCase
  Protected <- MCProtected
  Keep <- NeverKeep
  IncludeHEP = TRUE
  NoNodePool = FALSE
  Faulty <- ListFaulty
  MaxFaults = 1
  MaxCrashes = 1
  MaxCases = 2
INVARIANT HepNeverStranded
CHECK_DEADLOCK FALSE
