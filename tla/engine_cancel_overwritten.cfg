SPECIFICATION Spec
CONSTANTS
  a = a
  b = b
  c = c
  d1 = d1
  d2 = d2
  p1 = p1
  Step = {a, b}
  DependsOn <- Fork
  ApprovalStep = {}
  ConditionalStep = {}
  CompensatedStep = {}
  MaxAttempts = 1
  Driver = {d1}
  Instance = {p1}
  Home <- OneProcess
  NoDriver = NoDriver
  Inline = FALSE
  Requests = {"runStream", "resumeStream", "pause", "cancel", "retry", "approve"}
  Clock = {1}
  MaxRequests = 2
  MaxCrashes = 0
  MaxFaults = 0

PROPERTIES CancelledIsFinal
CHECK_DEADLOCK FALSE
