SPECIFICATION LiveSpec

CONSTANTS
  u1 = u1
  u2 = u2
  l1 = l1
  l2 = l2
  Nobody = Nobody
  Sessions = {u1}
  Links = {l1, l2}
  SessionOf <- First
  Chatty = {l1}
  Capacity = 0
  MaxEvents = 1

INVARIANTS
  TypeOK
  Rendezvous
PROPERTIES
  LockFree
  UserReleased

CHECK_DEADLOCK FALSE
