SPECIFICATION FairSpec
CONSTANTS
  n1 = n1
  n2 = n2
  n3 = n3
  t1 = t1
  t2 = t2
  e1 = e1
  e2 = e2
  e3 = e3
  Approval = {n1, n2}
  Tool = {t1}
  Executor = {e1, e2, e3}
  Starter = e1
  Nobody = Nobody
  NoApproval = NoApproval
  Modes = {"loop", "plain"}
  MaxRedeliveries = 1
  MaxFaults = 1
INVARIANTS TypeOK OneDriver OnlyApprovedIsExecuted RepeatsAreRedeliveries
PROPERTIES EndIsFinal RunProgresses
CHECK_DEADLOCK FALSE
