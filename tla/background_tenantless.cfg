SPECIFICATION Spec
CONSTANTS
  Jobs = 2
  Worker = {w1, w2}
  NoJob = nojob
  Nobody = nobody
  Queues = {"workflow-run"}
  MaxAttempts = 2
  MaxStalled = 1
  MaxFaults = 1
  Endpoint = {e1}
  NoEndpoint = noendpoint
  Stories <- StoriesOfTwo
INVARIANT FailedRunSaysSo
CHECK_DEADLOCK FALSE
