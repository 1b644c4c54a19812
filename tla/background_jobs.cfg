SPECIFICATION Spec
CONSTANTS
  Jobs = 2
  Worker = {w1, w2}
  NoJob = nojob
  Nobody = nobody
  Queues = {"webhook-delivery", "stripe-webhook", "workflow-run"}
  MaxAttempts = 2
  MaxStalled = 1
  MaxFaults = 1
  Endpoint = {e1}
  NoEndpoint = noendpoint
  Stories <- StoriesOfTwo
INVARIANTS
  TypeOK
  DeadLettersAccountedFor
  RepeatsAccountedFor
  MirrorsStripe
PROPERTIES
  VerdictStands
  DeliverySettles
  ExhaustedIsRecorded
CHECK_DEADLOCK FALSE
