SPECIFICATION FairSpec
CONSTANTS
  Workflows <- MCWorkflows
  Revisions <- MCRevisions
  Jobs = {j1, j2}
  NoFile = NoFile
  None = None
  MaxFaults = 1
INVARIANT TypeOK
INVARIANT ResultsExact
INVARIANT OutcomeExact
INVARIANT DiffExact
INVARIANT ErrorsSurfacedOnce
INVARIANT StickyWhenSerial
INVARIANT FileRouteAgrees
PROPERTY JobEnds
CHECK_DEADLOCK FALSE
