SPECIFICATION FairSpec
CONSTANTS
  a = a
  b = b
  c = c
  d1 = d1
  d2 = d2
  p1 = p1
  Step = {a, b, c}
  DependsOn <- Branch
  ApprovalStep = {b}
  ConditionalStep = {c}
  CompensatedStep = {a, b}
  MaxAttempts = 2
  Driver = {d1}
  Instance = {p1}
  Home <- OneProcess
  NoDriver = NoDriver
  Inline = FALSE
  Requests = {"runStream", "resumeStream", "pause", "cancel", "retry", "approve", "disconnect"}
  Clock = {1, 2}
  MaxRequests = 5
  MaxCrashes = 0
  MaxFaults = 1
INVARIANTS CompletedRunIsWhole RollbackInReverse OnlyAbortsDeadlock
PROPERTIES RunSettles LifecycleImplemented
CHECK_DEADLOCK FALSE
