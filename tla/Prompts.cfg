SPECIFICATION LiveSpec

CONSTANTS
  s1 = s1
  m1 = m1
  Nil = Nil
  Subs = {s1, m1}
  Measures = {m1}
  Times <- Twice
  Mute = {s1}
  MaxPrompts = 2
  Links = {l1, l2}
  MaxDrops = 1
  Stoppable = TRUE

INVARIANTS
  TypeOK
  AcceptedKept
  TrueAnswers
PROPERTIES
  Heard
  LinkBack

CHECK_DEADLOCK FALSE
