SPECIFICATION FairSpec
CONSTANTS
  Cases <- MCCases
  NoCase = NoCase
  Protected <- MCProtected
  Keep <- EitherKeep
  IncludeHEP = TRUE
  NoNodePool = FALSE
  Faulty <- MCFaulty
  MaxFaults = 2
  MaxCrashes = 1
  MaxCases = 3
INVARIANT TypeOK
INVARIANT HepNeverStranded
INVARIANT CleanSlate
INVARIANT ProbedAsPredicted
INVARIANT ProtectedKept
INVARIANT GreenCaseGone
PROPERTY CaseEnds
CHECK_DEADLOCK FALSE
