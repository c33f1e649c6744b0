SPECIFICATION Spec

CONSTANTS
  t1 = t1
  None = None
  Nodes = {n1}
  Tasks = {t1}
  Subs = {s1}
  TaskOf <- OneTask
  Timeouts = {s1}
  Deletable = {}
  MaxRetry = 3
  MaxCrash = 1

INVARIANTS
  Resumed

CHECK_DEADLOCK FALSE
