SPECIFICATION LiveSpec

CONSTANTS
  n1 = n1
  w1 = w1
  Nodes = {n1}
  WorkSpaces = {w1}
  Want <- One
  Fits <- OnFirst
  Rows = {"None","Pulling","StartupSuccess"}
  Retirable = {w1}
  Exiting = {w1}
  Operated = {w1}
  MaxEvents = 1
  MaxDispenses = 1
  MaxStarts = 2
  MaxCMDs = 2
  MaxReports = 2

INVARIANTS
  TypeOK
  Usable
  RowsAgree

  

CHECK_DEADLOCK FALSE
