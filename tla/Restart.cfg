SPECIFICATION Spec

CONSTANTS
  t1 = t1
  None = None
  Nodes = {n1}
  Tasks = {t1}
  Subs = {s1, s2}
  TaskOf <- OneTask
  Timeouts = {s1, s2}
  Deletable = {t1}
  MaxRetry = 3
  MaxCrash = 2

INVARIANTS
  TypeOK
  
PROPERTIES
  EndedAfterVerdicts
  

CHECK_DEADLOCK FALSE
