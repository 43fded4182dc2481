SPECIFICATION Spec
CONSTANTS
  Cases <- MCCases
  Concurrencies <- MCConcurrencies
  Faults = {"loss", "stall", "vanish"}
  MaxFaults = 3
INVARIANTS TypeOK RowsSound SettledReported PoolBounded OneFlowAtATime GreenMeansAgreed
PROPERTY AllProbesEnd
