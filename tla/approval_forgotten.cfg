SPECIFICATION Spec
CONSTANTS
  n1 = n1
  n2 = n2
  n3 = n3
  t1 = t1
  t2 = t2
  e1 = e1
  e2 = e2
  e3 = e3
  Approval = {n1, n2}
  Tool = {t1, t2}
  Executor = {e1, e2, e3}
  Starter = e1
  Nobody = Nobody
  NoApproval = NoApproval
  Modes = {"loop"}
  MaxRedeliveries = 0
  MaxFaults = 0
INVARIANTS WaitsForSomething
CHECK_DEADLOCK FALSE
