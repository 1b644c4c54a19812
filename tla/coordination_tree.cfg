SPECIFICATION FairSpec
CONSTANTS
  MaxAgents = 3
  MaxParallel = 2
  MaxIterations = 1
  Shapes <- DeepAndBatched
  MaxRuns = 9
  MaxFaults = 1
INVARIANTS TypeOK DepthBounded Charged OvershootBounded Awaited
PROPERTIES DrivenRunsSettle
CHECK_DEADLOCK FALSE
