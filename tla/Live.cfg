SPECIFICATION LiveSpec

CONSTANTS
  n1 = n1
  n2 = n2
  s1 = s1
  s2 = s2
  t1 = t1
  t2 = t2
  Check = Check
  None = None
  Nodes = {n1}
  Subs = {s1, s2}
  Tasks = {t1, t2}
  TaskOf <- TwoTasks
  Designated <- Anywhere
  Deployed <- Everywhere
  SlotSize <- OneSlot
  MeasureCount = 1
  MaxRetry = 3
  MaxGen = 2
  MaxDrops = 1
  Timeouts = {}
  Misbehaving = {}
  Operated = {}
  Remeasured = {}
  Preempted = {}

PROPERTIES
  
  CheckReturns

CHECK_DEADLOCK FALSE
