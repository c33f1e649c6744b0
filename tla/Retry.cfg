SPECIFICATION Spec

CONSTANTS
  n1 = n1
  n2 = n2
  s1 = s1
  s2 = s2
  t1 = t1
  t2 = t2
  Check = Check
  None = None
  Nodes = {n1}
  Subs = {s1}
  Tasks = {t1}
  TaskOf <- OneTask
  Designated <- Anywhere
  Deployed <- Everywhere
  SlotSize <- OneSlot
  MeasureCount = 2
  MaxRetry = 3
  MaxGen = 2
  MaxDrops = 0
  Timeouts = {s1}
  Misbehaving = {s1}
  Operated = {n1}
  Remeasured = {}
  Preempted = {t1, Check}

INVARIANTS
  SlotExclusive

CHECK_DEADLOCK FALSE
