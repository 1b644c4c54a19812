SPECIFICATION FairSpec
CONSTANTS
  MaxAgents = 3
  MaxParallel = 2
  MaxIterations = 1
  Shapes <- OnePair
  MaxRuns = 4
  MaxFaults = 0
PROPERTIES EveryRunSettles
CHECK_DEADLOCK FALSE
