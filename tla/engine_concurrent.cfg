SPECIFICATION Spec
CONSTANTS
  a = a
  b = b
  c = c
  d1 = d1
  d2 = d2
  p1 = p1
  Step = {a, b}
  DependsOn <- Pair
  ApprovalStep = {a}
  ConditionalStep = {b}
  CompensatedStep = {a}
  MaxAttempts = 1
  Driver = {d1, d2}
  Instance = {p1}
  Home <- OneProcess
  NoDriver = NoDriver
  Inline = TRUE
  Requests = {"run", "runStream", "resume", "pause", "cancel", "retry", "approve", "reject", "disconnect"}
  Clock = {1}
  MaxRequests = 3
  MaxCrashes = 1
  MaxFaults = 1
INVARIANTS TypeOK CopiesAreCurrent DependenciesRespected ApprovalGate OnlySucceededIsCompensated
PROPERTIES OutputsNeverLost CancelledNeverResumes ClaimedOnce
SYMMETRY DriverSymmetry
CHECK_DEADLOCK FALSE
