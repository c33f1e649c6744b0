SPECIFICATION LiveSpec

CONSTANTS
  u1 = u1
  f1 = f1
  f2 = f2
  o1 = o1
  o2 = o2
  Nil = Nil
  Names = {u1}
  Forms = {f1, f2}
  NameOf <- SameName
  OrderIds = {o1, o2}
  Wechat = {o1}
  Plans = {"primary", "premium"}
  Keyed = TRUE
  Scored <- Levels
  MaxHandlers = 2
  MaxOutages = 1

INVARIANTS
  TypeOK
  Earned
  Settled
  CanLogin
PROPERTIES
  Reconnects

CHECK_DEADLOCK FALSE
