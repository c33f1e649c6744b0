--------------------------- MODULE OrdersProofs ----------------------------
(***************************************************************************)
(* Proofs about Orders: the types, that levels are paid for, that a paid   *)
(* order gives its level, and that who registered can log in.              *)
(***************************************************************************)
EXTENDS Orders, SequenceTheorems, TLAPS

\* What a statement leaves of the row it updates.
LEMMA RowUpdated ==
    ASSUME NEW r \in Rows, NEW s \in RowStates
    PROVE  /\ [r EXCEPT !.state = s] \in Rows
           /\ [r EXCEPT !.state = s].user = r.user
           /\ [r EXCEPT !.state = s].plan = r.plan
           /\ [r EXCEPT !.state = s].state = s
BY DEF Rows

\* Every plan has one of the four levels; an unknown one has level 0.
LEMMA LevelTyped == ASSUME NEW p PROVE LevelOf(p) \in 0..3
BY DEF LevelOf

\* A level written to some of the accounts leaves them accounts.
LEMMA LevelsWritten ==
    ASSUME NEW us \in Seq(Accounts), NEW l \in 0..3, NEW n
    PROVE  [i \in DOMAIN us |-> IF us[i].name = n THEN [us[i] EXCEPT !.level = l]
                                ELSE us[i]] \in Seq(Accounts)
<1> DEFINE new == [i \in 1..Len(us) |-> IF us[i].name = n THEN [us[i] EXCEPT !.level = l]
                                        ELSE us[i]]
<1>1. DOMAIN us = 1..Len(us) /\ Len(us) \in Nat
  OBVIOUS
<1>2. \A i \in 1..Len(us) : us[i] \in Accounts
  OBVIOUS
<1>3. \A i \in 1..Len(us) : new[i] \in Accounts
  BY <1>2 DEF Accounts
<1>4. new \in Seq(Accounts)
  BY <1>1, <1>3, IsASeq
<1> QED BY <1>1, <1>4

\* The steps of a handler keep it a handler.
LEMMA HandlerGoes ==
    ASSUME NEW h \in Handlers, NEW pc \in {"update", "select", "write"}
    PROVE  /\ [h EXCEPT !.pc = pc] \in Handlers
           /\ [h EXCEPT !.pc = pc].order = h.order
           /\ [h EXCEPT !.pc = pc].state = h.state
           /\ [h EXCEPT !.pc = pc].pc = pc
BY DEF Handlers

\* After a statement, the handlers are handlers there were, or the one that goes on.
LEMMA HandlersMove ==
    ASSUME handlers \subseteq Handlers, NEW h \in handlers,
           NEW pc \in {"update", "select", "write"}, Goes(h, pc) \/ Ends(h)
    PROVE  /\ handlers' \subseteq Handlers
           /\ \A g \in handlers' :
                 g \in handlers \/ (g.order = h.order /\ g.state = h.state /\ g.pc = pc)
<1>1. CASE Goes(h, pc)
  <2> DEFINE g == [h EXCEPT !.pc = pc]
  <2>1. h \in Handlers
    OBVIOUS
  <2>2. g \in Handlers /\ g.order = h.order /\ g.state = h.state /\ g.pc = pc
    BY <2>1, HandlerGoes
  <2>3. handlers' = (handlers \ {h}) \cup {g}
    BY <1>1 DEF Goes
  <2> HIDE DEF g
  <2> QED BY <2>2, <2>3
<1>2. CASE Ends(h)
  BY <1>2 DEF Ends
<1> QED BY <1>1, <1>2

-----------------------------------------------------------------------------
\* TypeOK holds when ng-backend starts.
LEMMA InitType == Init => TypeOK
<1> SUFFICES ASSUME Init PROVE TypeOK
  OBVIOUS
<1>1. users \in Seq(Accounts)
  BY DEF Init
<1>2. outages \in 0..MaxOutages
  BY OrdersAssumption DEF Init
<1> QED BY <1>1, <1>2 DEF Init, TypeOK

\* Every request, notice and outage keeps the types.
LEMMA TypeStep == TypeOK /\ [Next]_vars => TypeOK'
<1> SUFFICES ASSUME TypeOK, [Next]_vars PROVE TypeOK'
  OBVIOUS
<1> USE DEF TypeOK, accountVars, orderVars, dbVars
<1>1. ASSUME NEW f \in Forms, RegisterSelect(f) PROVE TypeOK'
  BY <1>1 DEF RegisterSelect, Step
<1>2. ASSUME NEW f \in Forms, RegisterInsert(f) PROVE TypeOK'
  <2>1. [name |-> NameOf[f], form |-> f, level |-> 0] \in Accounts
    BY OrdersAssumption DEF Accounts
  <2>2. users' \in Seq(Accounts)
    BY <1>2, <2>1 DEF RegisterInsert
  <2> QED BY <1>2, <2>2 DEF RegisterInsert, Step
<1>3. ASSUME NEW o \in OrderIds, NEW u \in Names, NEW p \in Plans, NativePay(o, u, p)
      PROVE  TypeOK'
  <2>1. [user |-> u, plan |-> p, pc |-> "insert"] \in Requests
    BY DEF Requests
  <2> QED BY <1>3, <2>1 DEF NativePay, TradeStates
<1>4. ASSUME NEW o \in OrderIds, InsertSubscription(o) PROVE TypeOK'
  <2>1. request[o] \in Requests
    BY <1>4 DEF InsertSubscription
  <2>2. \A pc \in {"answered", "refused"} : [request[o] EXCEPT !.pc = pc] \in Requests
    BY <2>1 DEF Requests
  <2>3. [user |-> request[o].user, plan |-> request[o].plan, state |-> "Scaning"] \in Rows
    BY <2>1 DEF Requests, Rows, RowStates
  <2>4. request' \in [OrderIds -> {Nil} \cup Requests]
    BY <1>4, <2>2 DEF InsertSubscription, Answer
  <2>5. row' \in [OrderIds -> {Nil} \cup Rows]
    BY <1>4, <2>3 DEF InsertSubscription
  <2> QED BY <1>4, <2>4, <2>5 DEF InsertSubscription
<1>5. ASSUME NEW o \in OrderIds, Paid(o) \/ Closed(o) \/ Refunded(o) PROVE TypeOK'
  BY <1>5 DEF Paid, Closed, Refunded, Trades, TradeStates
<1>6. ASSUME NEW o \in OrderIds, NEW t \in RowStates, NotifyHandler(o, t) PROVE TypeOK'
  <2>1. [order |-> o, state |-> t, pc |-> "update"] \in Handlers
    BY DEF Handlers
  <2> QED BY <1>6, <2>1 DEF NotifyHandler
<1>7. ASSUME NEW h \in handlers, UpdateSubscription(h) PROVE TypeOK'
  <2>1. h \in Handlers /\ h.order \in OrderIds /\ h.state \in RowStates
    BY DEF Handlers
  <2>2. row' \in [OrderIds -> {Nil} \cup Rows]
    BY <1>7, <2>1, RowUpdated DEF UpdateSubscription
  <2>3. handlers' \subseteq Handlers
    <3>1. Goes(h, "select") \/ Ends(h)
      BY <1>7 DEF UpdateSubscription
    <3> QED BY <3>1, HandlersMove
  <2> QED BY <1>7, <2>2, <2>3 DEF UpdateSubscription
<1>8. ASSUME NEW h \in handlers, SetUserVip(h) PROVE TypeOK'
  <2>1. handlers' \subseteq Handlers
    <3>1. Goes(h, "write") \/ Ends(h)
      BY <1>8 DEF SetUserVip
    <3> QED BY <3>1, HandlersMove
  <2> QED BY <1>8, <2>1 DEF SetUserVip
<1>9. ASSUME NEW h \in handlers, WriteLevel(h) PROVE TypeOK'
  <2>1. h \in Handlers /\ h.order \in OrderIds
    BY DEF Handlers
  <2>2. handlers' \subseteq Handlers
    BY <1>9 DEF WriteLevel, Ends
  <2>3. users' \in Seq(Accounts)
    <3> DEFINE l == LevelOf(row[h.order].plan)
               n == row[h.order].user
    <3>1. l \in 0..3
      BY LevelTyped
    <3>2. [i \in DOMAIN users |-> IF users[i].name = n THEN [users[i] EXCEPT !.level = l]
                                ELSE users[i]] \in Seq(Accounts)
      <4> HIDE DEF l, n
      <4> QED BY <3>1, LevelsWritten
    <3> QED BY <1>9, <3>2 DEF WriteLevel
  <2>4. given' \subseteq OrderIds
    BY <1>9, <2>1 DEF WriteLevel
  <2> QED BY <1>9, <2>2, <2>3, <2>4 DEF WriteLevel
<1>10. ASSUME DbDown PROVE TypeOK'
  <2>1. outages' \in 0..MaxOutages
    BY <1>10, OrdersAssumption DEF DbDown
  <2> QED BY <1>10, <2>1 DEF DbDown
<1>11. ASSUME DbBack \/ Elapse PROVE TypeOK'
  BY <1>11 DEF DbBack, Elapse
<1>12. ASSUME PollMysql PROVE TypeOK'
  BY <1>12 DEF PollMysql, ConnectMysql
<1>13. ASSUME UNCHANGED vars PROVE TypeOK'
  BY <1>13 DEF vars
<1> QED
  BY <1>1, <1>2, <1>3, <1>4, <1>5, <1>6, <1>7, <1>8, <1>9, <1>10, <1>11, <1>12, <1>13
  DEF Next, WechatPayment, AliPayment, WxPayNotify, AliPayNotify

\* Every variable keeps its type, for any number of names, orders and notices.
THEOREM OrdersTypeCorrect == Spec => []TypeOK
BY InitType, TypeStep, PTL DEF Spec

-----------------------------------------------------------------------------
(***************************************************************************)
(* Why levels are paid for. A goroutine that goes on to SetUserVip handles *)
(* a SUCCESS that was posted, and a row says SUCCESS only if one was; once *)
(* an order is paid it stays paid, and a row keeps its user and its plan.  *)
(***************************************************************************)
PostedHandled ==
    \A h \in handlers : /\ h.state = "SUCCESS" => WasPaid(h.order)
                        /\ h.pc # "update" => h.state = "SUCCESS"
                        /\ h.pc = "write" => row[h.order] # Nil

PaidRows == \A o \in OrderIds : row[o] # Nil /\ row[o].state = "SUCCESS" => WasPaid(o)

AnsweredRows ==
    \A o \in OrderIds : /\ row[o] # Nil => request[o] # Nil /\ request[o].pc = "answered"
                        /\ WasPaid(o) => request[o] # Nil

EarnedLevels ==
    \A i \in DOMAIN users : users[i].level # 0 =>
       \E o \in OrderIds : /\ row[o] # Nil /\ row[o].user = users[i].name
                           /\ LevelOf(row[o].plan) = users[i].level
                           /\ WasPaid(o)

EarnedInv == PostedHandled /\ PaidRows /\ AnsweredRows /\ EarnedLevels

\* A step that keeps the rows' users and plans, and what was paid, keeps the levels that it
\* does not touch.
LEMMA LevelsStay ==
    ASSUME EarnedLevels, users' = users,
           \A o \in OrderIds : row[o] # Nil =>
              row'[o] # Nil /\ row'[o].user = row[o].user /\ row'[o].plan = row[o].plan,
           \A o \in OrderIds : WasPaid(o) => WasPaid(o)'
    PROVE  EarnedLevels'
BY DEF EarnedLevels

\* No step of a request, a notice or the provider gives a level that was not paid for.
LEMMA EarnedStep == TypeOK /\ EarnedInv /\ [Next]_vars => EarnedInv'
<1> SUFFICES ASSUME TypeOK, EarnedInv, [Next]_vars PROVE EarnedInv'
  OBVIOUS
<1> USE DEF EarnedInv
<1>1. ASSUME NEW f \in Forms, RegisterSelect(f) PROVE EarnedInv'
  BY <1>1 DEF RegisterSelect, orderVars, PostedHandled, PaidRows, AnsweredRows,
              EarnedLevels, WasPaid
<1>2. ASSUME NEW f \in Forms, RegisterInsert(f) PROVE EarnedInv'
  <2>1. UNCHANGED <<request, row, trade, handlers>>
    BY <1>2 DEF RegisterInsert, orderVars
  <2>2. EarnedLevels'
    <3>1. CASE UNCHANGED users
      BY <2>1, <3>1, LevelsStay DEF WasPaid
    <3>2. CASE users' = Append(users, [name |-> NameOf[f], form |-> f, level |-> 0])
      <4>1. users \in Seq(Accounts)
        BY DEF TypeOK
      <4>2. DOMAIN users' = DOMAIN users \cup {Len(users) + 1}
            /\ \A i \in DOMAIN users : users'[i] = users[i]
        BY <3>2, <4>1
      <4>3. users'[Len(users) + 1].level = 0
        BY <3>2, <4>1
      <4>4. \A i \in DOMAIN users' : users'[i].level # 0 =>
               i \in DOMAIN users /\ users'[i] = users[i]
        BY <4>2, <4>3
      <4> QED BY <2>1, <4>4 DEF EarnedLevels, WasPaid
    <3> QED BY <1>2, <3>1, <3>2 DEF RegisterInsert
  <2> QED BY <2>1, <2>2 DEF PostedHandled, PaidRows, AnsweredRows, WasPaid
<1>3. ASSUME NEW o \in OrderIds, NEW u \in Names, NEW p \in Plans, NativePay(o, u, p)
      PROVE  EarnedInv'
  <2>1. UNCHANGED <<row, handlers, users>>
    BY <1>3 DEF NativePay, accountVars
  <2>2. row[o] = Nil /\ ~WasPaid(o)
    BY <1>3 DEF NativePay, AnsweredRows
  <2>3. \A x \in OrderIds : x # o => trade'[x] = trade[x] /\ request'[x] = request[x]
    BY <1>3 DEF NativePay, TypeOK
  <2>4. request'[o] # Nil
    <3>1. [user |-> u, plan |-> p, pc |-> "insert"] \in Requests
      BY DEF Requests
    <3> QED BY <1>3, <3>1, NilAssumption DEF NativePay, TypeOK
  <2>5. \A x \in OrderIds : WasPaid(x) => WasPaid(x)'
    BY <2>2, <2>3 DEF WasPaid
  <2>6. EarnedLevels'
    BY <2>1, <2>5, LevelsStay
  <2>7. PostedHandled'
    <3>1. \A h \in handlers : h.order \in OrderIds
      BY DEF TypeOK, Handlers
    <3> QED BY <2>1, <2>5, <3>1 DEF PostedHandled
  <2>8. PaidRows'
    BY <2>1, <2>5 DEF PaidRows
  <2>9. AnsweredRows'
    BY <2>1, <2>2, <2>3, <2>4 DEF AnsweredRows, WasPaid
  <2> QED BY <2>6, <2>7, <2>8, <2>9
<1>4. ASSUME NEW o \in OrderIds, InsertSubscription(o) PROVE EarnedInv'
  <2>1. /\ UNCHANGED <<trade, handlers, users>>
        /\ request[o] # Nil /\ request[o].pc = "insert" /\ row[o] = Nil
    BY <1>4 DEF InsertSubscription, accountVars, AnsweredRows
  <2>2. request[o] \in Requests
    BY <2>1 DEF TypeOK
  <2>3. \A pc \in {"answered", "refused"} :
           [request[o] EXCEPT !.pc = pc] \in Requests /\ [request[o] EXCEPT !.pc = pc].pc = pc
    BY <2>2 DEF Requests
  <2>4. \A x \in OrderIds : x # o => row'[x] = row[x] /\ request'[x] = request[x]
    BY <1>4 DEF InsertSubscription, Answer, TypeOK
  <2>5. request'[o] # Nil
    BY <1>4, <2>3, NilAssumption DEF InsertSubscription, Answer, TypeOK
  <2>6. \/ row'[o] = Nil
        \/ row'[o].state = "Scaning" /\ request'[o].pc = "answered"
    <3>1. CASE UNCHANGED row
      BY <2>1, <3>1
    <3>2. CASE /\ Answer(o, "answered")
               /\ row' = [row EXCEPT ![o] = [user |-> request[o].user,
                                  plan |-> request[o].plan, state |-> "Scaning"]]
      <4>1. row'[o].state = "Scaning"
        BY <3>2 DEF TypeOK
      <4>2. request'[o] = [request[o] EXCEPT !.pc = "answered"]
        BY <3>2 DEF TypeOK, Answer
      <4> QED BY <2>3, <4>1, <4>2
    <3> QED BY <1>4, <3>1, <3>2 DEF InsertSubscription
  <2>7. EarnedLevels'
    BY <2>1, <2>4, LevelsStay DEF WasPaid
  <2>8. PostedHandled'
    <3>1. \A h \in handlers : h.order \in OrderIds
      BY DEF TypeOK, Handlers
    <3>2. \A h \in handlers : h.pc = "write" => row'[h.order] # Nil
      BY <2>1, <2>4, <3>1 DEF PostedHandled
    <3> QED BY <2>1, <3>2 DEF PostedHandled, WasPaid
  <2>9. PaidRows'
    BY <2>1, <2>4, <2>6 DEF PaidRows, WasPaid
  <2>10. AnsweredRows'
    BY <2>1, <2>4, <2>5, <2>6 DEF AnsweredRows, WasPaid
  <2> QED BY <2>7, <2>8, <2>9, <2>10
<1>5. ASSUME NEW o \in OrderIds, Paid(o) \/ Closed(o) \/ Refunded(o) PROVE EarnedInv'
  <2>1. UNCHANGED <<request, row, handlers, users>>
    BY <1>5 DEF Paid, Closed, Refunded, Trades, accountVars, orderVars
  <2>2. \A x \in OrderIds : WasPaid(x) => WasPaid(x)'
    BY <1>5 DEF Paid, Closed, Refunded, Trades, WasPaid, TypeOK
  <2>3. \A x \in OrderIds : WasPaid(x)' => WasPaid(x) \/ request[x] # Nil
    BY <1>5 DEF Paid, Closed, Refunded, Trades, WasPaid, TypeOK
  <2>4. \A h \in handlers : h.order \in OrderIds
    BY DEF TypeOK, Handlers
  <2>5. EarnedLevels'
    BY <2>1, <2>2, LevelsStay
  <2> QED BY <2>1, <2>2, <2>3, <2>4, <2>5 DEF PostedHandled, PaidRows, AnsweredRows
<1>6. ASSUME NEW o \in OrderIds, NEW t \in RowStates, NotifyHandler(o, t) PROVE EarnedInv'
  <2>1. UNCHANGED <<request, row, trade, users>>
    BY <1>6 DEF NotifyHandler, accountVars, orderVars
  <2>2. t = "SUCCESS" => WasPaid(o)
    BY <1>6 DEF NotifyHandler, Posted, WasPaid
  <2>3. PostedHandled'
    BY <1>6, <2>1, <2>2 DEF NotifyHandler, PostedHandled, WasPaid
  <2> QED BY <2>1, <2>3, LevelsStay DEF PaidRows, AnsweredRows, WasPaid
<1>7. ASSUME NEW h \in handlers, UpdateSubscription(h) PROVE EarnedInv'
  <2>1. h \in Handlers /\ h.order \in OrderIds /\ h.state \in RowStates
    BY DEF Handlers, TypeOK
  <2>2. UNCHANGED <<request, trade, users>>
    BY <1>7 DEF UpdateSubscription, accountVars
  <2>3. \A x \in OrderIds :
           \/ row'[x] = row[x]
           \/ /\ x = h.order /\ row[x] # Nil /\ row'[x] # Nil
              /\ row'[x].user = row[x].user /\ row'[x].plan = row[x].plan
              /\ row'[x].state = h.state
    <3>1. CASE row' = row
      BY <3>1
    <3>2. CASE row[h.order] # Nil /\ row' = [row EXCEPT ![h.order].state = h.state]
      <4>1. row[h.order] \in Rows
        BY <2>1, <3>2 DEF TypeOK
      <4>2. row'[h.order] = [row[h.order] EXCEPT !.state = h.state]
            /\ \A x \in OrderIds : x # h.order => row'[x] = row[x]
        BY <2>1, <3>2 DEF TypeOK
      <4> QED BY <2>1, <3>2, <4>1, <4>2, RowUpdated, NilAssumption
    <3> QED BY <1>7, <3>1, <3>2 DEF UpdateSubscription
  <2>4. h.state = "SUCCESS" => WasPaid(h.order)
    BY DEF PostedHandled
  <2>5. \A x \in OrderIds : row'[x] = Nil <=> row[x] = Nil
    BY <2>3
  <2>6. PaidRows' /\ AnsweredRows'
    BY <2>2, <2>3, <2>4, <2>5 DEF PaidRows, AnsweredRows, WasPaid
  <2>7. EarnedLevels'
    BY <2>2, <2>3, LevelsStay DEF WasPaid
  <2>8. PostedHandled'
    <3>1. handlers \subseteq Handlers
      BY DEF TypeOK
    <3>2. CASE h.state = "SUCCESS"
      <4>1. \A g \in handlers' :
               g \in handlers \/ (g.order = h.order /\ g.state = h.state /\ g.pc = "select")
        <5>1. Goes(h, "select") \/ Ends(h)
          BY <1>7 DEF UpdateSubscription
        <5> QED BY <3>1, <5>1, HandlersMove
      <4>2. \A g \in handlers : g.order \in OrderIds
        BY <3>1 DEF Handlers
      <4> QED BY <2>2, <2>4, <2>5, <3>2, <4>1, <4>2 DEF PostedHandled, WasPaid
    <3>3. CASE h.state # "SUCCESS"
      <4>1. handlers' \subseteq handlers
        BY <1>7, <3>3 DEF UpdateSubscription, Ends
      <4>2. \A g \in handlers : g.order \in OrderIds
        BY <3>1 DEF Handlers
      <4> QED BY <2>2, <2>5, <4>1, <4>2 DEF PostedHandled, WasPaid
    <3> QED BY <3>2, <3>3
  <2> QED BY <2>6, <2>7, <2>8
<1>8. ASSUME NEW h \in handlers, SetUserVip(h) PROVE EarnedInv'
  <2>1. UNCHANGED <<request, row, trade, users>>
    BY <1>8 DEF SetUserVip, accountVars, orderVars
  <2>2. PostedHandled'
    <3>1. CASE row[h.order] # Nil
      <4>1. Goes(h, "write") \/ Ends(h)
        BY <1>8 DEF SetUserVip
      <4>2. \A g \in handlers' :
               g \in handlers \/ (g.order = h.order /\ g.state = h.state /\ g.pc = "write")
        BY <4>1, HandlersMove DEF TypeOK
      <4>3. h.pc = "select"
        BY <1>8 DEF SetUserVip
      <4> QED BY <2>1, <3>1, <4>2, <4>3 DEF PostedHandled, WasPaid
    <3>2. CASE row[h.order] = Nil
      BY <1>8, <2>1, <3>2 DEF SetUserVip, Ends, PostedHandled, WasPaid
    <3> QED BY <3>1, <3>2
  <2> QED BY <2>1, <2>2, LevelsStay DEF PaidRows, AnsweredRows, WasPaid
<1>9. ASSUME NEW h \in handlers, WriteLevel(h) PROVE EarnedInv'
  <2>1. UNCHANGED <<request, row, trade>> /\ handlers' \subseteq handlers
    BY <1>9 DEF WriteLevel, Ends
  <2>2. h.order \in OrderIds /\ row[h.order] # Nil /\ WasPaid(h.order)
    BY <1>9 DEF WriteLevel, TypeOK, Handlers, PostedHandled
  <2>3. EarnedLevels'
    <3>1. CASE UNCHANGED users
      BY <2>1, <3>1, LevelsStay DEF WasPaid
    <3>2. CASE users' = [i \in DOMAIN users |->
                          IF users[i].name = row[h.order].user
                          THEN [users[i] EXCEPT !.level = LevelOf(row[h.order].plan)]
                          ELSE users[i]]
      <4>1. \A i \in DOMAIN users : users[i] \in Accounts
        BY DEF TypeOK
      <4>2. \A i \in DOMAIN users :
               \/ users'[i] = users[i]
               \/ users'[i].name = row[h.order].user
                  /\ users'[i].level = LevelOf(row[h.order].plan)
        BY <3>2, <4>1 DEF Accounts
      <4>3. DOMAIN users' = DOMAIN users
        BY <3>2
      <4> QED BY <2>1, <2>2, <4>2, <4>3 DEF EarnedLevels, WasPaid
    <3> QED BY <1>9, <3>1, <3>2 DEF WriteLevel
  <2> QED BY <2>1, <2>3 DEF PostedHandled, PaidRows, AnsweredRows, WasPaid
<1>10. ASSUME DbDown \/ DbBack \/ Elapse \/ PollMysql \/ UNCHANGED vars PROVE EarnedInv'
  <2>1. UNCHANGED <<request, row, trade, handlers, users>>
    BY <1>10 DEF DbDown, DbBack, Elapse, PollMysql, vars, accountVars, orderVars
  <2> QED BY <2>1 DEF PostedHandled, PaidRows, AnsweredRows, EarnedLevels, WasPaid
<1> QED
  BY <1>1, <1>2, <1>3, <1>4, <1>5, <1>6, <1>7, <1>8, <1>9, <1>10
  DEF Next, WechatPayment, AliPayment, WxPayNotify, AliPayNotify

\* Levels and the statuses that clients are told were paid for (wxPayNotify, aliPayNotify).
THEOREM LevelsEarned == Spec => []Earned
<1>1. Init => EarnedInv
  BY DEF Init, EarnedInv, PostedHandled, PaidRows, AnsweredRows, EarnedLevels, WasPaid
<1>2. EarnedInv => Earned
  BY DEF EarnedInv, EarnedLevels, PaidRows, Earned, CheckOrderStatus
<1> QED BY <1>1, <1>2, EarnedStep, OrdersTypeCorrect, PTL DEF Spec

-----------------------------------------------------------------------------
(***************************************************************************)
(* Why a paid order gives its level. Until the database first goes away    *)
(* pollMysql has no reason to take it for lost, so the statements of a     *)
(* goroutine that passed the first of them find it connected.              *)
(***************************************************************************)
Reached == outages = 0 => dbup /\ ((\E h \in handlers : h.pc # "update") => connected)

SettledInv == Reached /\ Settled

\* What a goroutine that goes on or ends leaves of the others.
LEMMA OthersStay ==
    ASSUME NEW h \in handlers, NEW pc, Goes(h, pc) \/ Ends(h)
    PROVE  \A g \in handlers : g # h => g \in handlers'
BY DEF Goes, Ends

\* An order stays settled when its row and level do, and no goroutine that is past the
\* update of an order that has not given its level ends.
LEMMA SettledStays ==
    ASSUME Settled, given \subseteq given', outages' = 0 => outages = 0,
           \A o \in OrderIds : row'[o] # Nil /\ row'[o].state = "SUCCESS" =>
              row[o] # Nil /\ row[o].state = "SUCCESS" /\ row'[o].plan = row[o].plan,
           \A h \in handlers : h.pc # "update" =>
              \/ \E g \in handlers' : g.order = h.order /\ g.pc # "update"
              \/ h.order \in given' \/ row[h.order] = Nil \/ outages # 0
              \/ ~GetLevelScore(LevelOf(row[h.order].plan))
    PROVE  Settled'
<1> SUFFICES ASSUME NEW o \in OrderIds, row'[o] # Nil, row'[o].state = "SUCCESS", outages' = 0
             PROVE  \/ o \in given'
                    \/ \E h \in handlers' : h.order = o /\ h.pc # "update"
                    \/ ~GetLevelScore(LevelOf(row'[o].plan))
  BY DEF Settled, GetLevelScore
<1>1. row[o] # Nil /\ row[o].state = "SUCCESS" /\ outages = 0 /\ row'[o].plan = row[o].plan
  OBVIOUS
<1>2. \/ o \in given
      \/ \E h \in handlers : h.order = o /\ h.pc # "update"
      \/ ~GetLevelScore(LevelOf(row[o].plan))
  BY <1>1 DEF Settled
<1> QED BY <1>1, <1>2

\* Every statement of a notice leaves the order settled, and only an outage disconnects.
LEMMA SettledStep == TypeOK /\ SettledInv /\ [Next]_vars => SettledInv'
<1> SUFFICES ASSUME TypeOK, SettledInv, [Next]_vars PROVE SettledInv'
  OBVIOUS
<1> USE DEF SettledInv
<1>1. ASSUME UNCHANGED <<row, given, outages, dbup, connected>>,
             \A h \in handlers : h.pc # "update" => h \in handlers',
             \A h \in handlers' : h.pc # "update" => h \in handlers
      PROVE  SettledInv'
  <2>1. Reached'
    BY <1>1 DEF Reached
  <2>2. Settled'
    BY <1>1, SettledStays
  <2> QED BY <2>1, <2>2
<1>2. ASSUME NEW f \in Forms, RegisterSelect(f) \/ RegisterInsert(f) PROVE SettledInv'
  BY <1>1, <1>2 DEF RegisterSelect, RegisterInsert, orderVars, dbVars
<1>3. ASSUME NEW o \in OrderIds, NEW u \in Names, NEW p \in Plans, NativePay(o, u, p)
      PROVE  SettledInv'
  BY <1>1, <1>3 DEF NativePay, dbVars
<1>4. ASSUME NEW o \in OrderIds, InsertSubscription(o) PROVE SettledInv'
  <2>1. UNCHANGED <<given, handlers, outages, dbup, connected>>
    BY <1>4 DEF InsertSubscription, dbVars
  <2>2. Reached'
    BY <2>1 DEF Reached
  <2>3. \A x \in OrderIds : row'[x] = row[x] \/ row'[x].state = "Scaning"
    BY <1>4 DEF InsertSubscription, TypeOK
  <2>4. Settled'
    BY <2>1, <2>3, SettledStays
  <2> QED BY <2>2, <2>4
<1>5. ASSUME NEW o \in OrderIds, Paid(o) \/ Closed(o) \/ Refunded(o) PROVE SettledInv'
  BY <1>1, <1>5 DEF Paid, Closed, Refunded, Trades, orderVars, dbVars
<1>6. ASSUME NEW o \in OrderIds, NEW t \in RowStates, NotifyHandler(o, t) PROVE SettledInv'
  BY <1>1, <1>6 DEF NotifyHandler, orderVars, dbVars
<1>7. ASSUME NEW h \in handlers, UpdateSubscription(h) PROVE SettledInv'
  <2>1. h \in Handlers /\ h.order \in OrderIds /\ h.state \in RowStates /\ h.pc = "update"
    BY <1>7 DEF UpdateSubscription, Handlers, TypeOK
  <2>2. UNCHANGED <<given, outages, dbup, connected>> /\ (Goes(h, "select") \/ Ends(h))
    BY <1>7 DEF UpdateSubscription, dbVars
  <2>3. \A g \in handlers : g.pc # "update" => g \in handlers'
    BY <2>1, <2>2, OthersStay
  <2>4. CASE Answers /\ h.state = "SUCCESS"
    <3> DEFINE next == [h EXCEPT !.pc = "select"]
    <3>1. next.order = h.order /\ next.pc = "select"
      BY <2>1, HandlerGoes
    <3>2. next \in handlers'
      BY <1>7, <2>4 DEF UpdateSubscription, Goes
    <3> HIDE DEF next
    <3>3. Reached'
      BY <2>2, <2>4 DEF Reached, Answers
    <3>4. SUFFICES ASSUME NEW o \in OrderIds, row'[o] # Nil, row'[o].state = "SUCCESS",
                          outages' = 0
                   PROVE  \/ o \in given'
                          \/ \E g \in handlers' : g.order = o /\ g.pc # "update"
                          \/ ~GetLevelScore(LevelOf(row'[o].plan))
      BY <3>3 DEF Settled, GetLevelScore
    <3>5. CASE o = h.order
      BY <3>1, <3>2, <3>5
    <3>6. CASE o # h.order
      <4>1. row'[o] = row[o]
        BY <1>7, <3>6 DEF UpdateSubscription, TypeOK
      <4> QED BY <2>2, <2>3, <3>4, <4>1 DEF Settled
    <3> QED BY <3>5, <3>6
  <2>5. CASE ~(Answers /\ h.state = "SUCCESS")
    <3>1. handlers' \subseteq handlers
      BY <1>7, <2>5 DEF UpdateSubscription, Ends
    <3>2. Reached'
      BY <2>2, <3>1 DEF Reached
    <3>3. \A o \in OrderIds : row'[o] = row[o] \/ (row'[o] # Nil /\ row'[o].state # "SUCCESS")
      <4>1. CASE row' = row
        BY <4>1
      <4>2. CASE /\ h.state # "SUCCESS" /\ row[h.order] # Nil
                 /\ row' = [row EXCEPT ![h.order].state = h.state]
        <5>1. row[h.order] \in Rows
          BY <2>1, <4>2 DEF TypeOK
        <5>2. row'[h.order] = [row[h.order] EXCEPT !.state = h.state]
              /\ \A x \in OrderIds : x # h.order => row'[x] = row[x]
          BY <2>1, <4>2 DEF TypeOK
        <5>3. row'[h.order].state = h.state /\ row'[h.order] \in Rows
          BY <2>1, <5>1, <5>2, RowUpdated
        <5> QED BY <4>2, <5>2, <5>3, NilAssumption
      <4> QED BY <1>7, <2>5, <4>1, <4>2 DEF UpdateSubscription
    <3>4. Settled'
      BY <2>2, <2>3, <3>3, SettledStays
    <3> QED BY <3>2, <3>4
  <2> QED BY <2>4, <2>5
<1>8. ASSUME NEW h \in handlers, SetUserVip(h) PROVE SettledInv'
  <2>1. h \in Handlers /\ h.order \in OrderIds /\ h.pc = "select"
    BY <1>8 DEF SetUserVip, Handlers, TypeOK
  <2>2. UNCHANGED <<row, given, outages, dbup, connected>> /\ (Goes(h, "write") \/ Ends(h))
    BY <1>8 DEF SetUserVip, orderVars, dbVars
  <2>3. \A g \in handlers : g # h => g \in handlers'
    BY <2>2, OthersStay
  <2>4. Reached'
    BY <2>1, <2>2 DEF Reached
  <2>5. outages = 0 => Answers
    BY <2>1 DEF Reached, Answers
  <2>6. \/ \E g \in handlers' : g.order = h.order /\ g.pc # "update"
        \/ row[h.order] = Nil \/ outages # 0 \/ ~GetLevelScore(LevelOf(row[h.order].plan))
    <3>1. CASE Goes(h, "write")
      <4>1. [h EXCEPT !.pc = "write"].order = h.order /\ [h EXCEPT !.pc = "write"].pc = "write"
        BY <2>1, HandlerGoes
      <4> QED BY <3>1, <4>1 DEF Goes
    <3>2. CASE ~Goes(h, "write")
      BY <1>8, <2>5, <3>2 DEF SetUserVip
    <3> QED BY <3>1, <3>2
  <2>7. Settled'
    <3>1. \A g \in handlers : g.pc # "update" =>
             \/ \E x \in handlers' : x.order = g.order /\ x.pc # "update"
             \/ g.order \in given' \/ row[g.order] = Nil \/ outages # 0
             \/ ~GetLevelScore(LevelOf(row[g.order].plan))
      BY <2>3, <2>6
    <3> QED BY <2>2, <3>1, SettledStays
  <2> QED BY <2>4, <2>7
<1>9. ASSUME NEW h \in handlers, WriteLevel(h) PROVE SettledInv'
  <2>1. h.order \in OrderIds /\ h.pc = "write"
    BY <1>9 DEF WriteLevel, Handlers, TypeOK
  <2>2. UNCHANGED <<row, outages, dbup, connected>> /\ given \subseteq given' /\ Ends(h)
    BY <1>9 DEF WriteLevel, dbVars
  <2>3. \A g \in handlers : g # h => g \in handlers'
    BY <2>2, OthersStay
  <2>4. Reached'
    BY <2>2 DEF Reached, Ends
  <2>5. outages = 0 => h.order \in given'
    BY <1>9, <2>1 DEF WriteLevel, Reached, Answers
  <2>6. Settled'
    <3>1. \A g \in handlers : g.pc # "update" =>
             \/ \E x \in handlers' : x.order = g.order /\ x.pc # "update"
             \/ g.order \in given' \/ row[g.order] = Nil \/ outages # 0
             \/ ~GetLevelScore(LevelOf(row[g.order].plan))
      BY <2>3, <2>5
    <3> QED BY <2>2, <3>1, SettledStays
  <2> QED BY <2>4, <2>6
<1>10. ASSUME DbDown PROVE SettledInv'
  <2>1. outages' # 0
    BY <1>10, OrdersAssumption DEF DbDown, TypeOK
  <2> QED BY <2>1 DEF Reached, Settled
<1>11. ASSUME DbBack \/ Elapse PROVE SettledInv'
  <2>1. UNCHANGED <<row, given, handlers, outages, connected>> /\ (dbup => dbup')
    BY <1>11 DEF DbBack, Elapse, orderVars
  <2> QED BY <2>1, SettledStays DEF Reached
<1>12. ASSUME PollMysql PROVE SettledInv'
  <2>1. UNCHANGED <<row, given, handlers, outages, dbup>>
    BY <1>12 DEF PollMysql, orderVars
  <2>2. connected /\ dbup => connected'
    BY <1>12 DEF PollMysql, ConnectMysql
  <2> QED BY <2>1, <2>2, SettledStays DEF Reached
<1>13. ASSUME UNCHANGED vars PROVE SettledInv'
  BY <1>1, <1>13 DEF vars, orderVars, dbVars
<1> QED
  BY <1>2, <1>3, <1>4, <1>5, <1>6, <1>7, <1>8, <1>9, <1>10, <1>11, <1>12, <1>13
  DEF Next, WechatPayment, AliPayment, WxPayNotify, AliPayNotify

\* An order that clients are told is paid has given its level or is about to, however its
\* notices interleave, as long as the database does not go away (wxPayNotify, SetUserVip).
THEOREM OrdersSettled == Spec => []Settled
<1>1. Init => SettledInv
  BY DEF Init, SettledInv, Reached, Settled
<1>2. SettledInv => Settled
  BY DEF SettledInv
<1> QED BY <1>1, <1>2, SettledStep, OrdersTypeCorrect, PTL DEF Spec

-----------------------------------------------------------------------------
(***************************************************************************)
(* Why who registered can log in. With a unique key a name has one row, so *)
(* the first row of a name is that of the form which was answered success. *)
(***************************************************************************)
OneRow == Keyed => \A i, j \in DOMAIN users : users[i].name = users[j].name => i = j

Inserted ==
    \A f \in Forms : form[f] = "success" =>
       \E i \in DOMAIN users : users[i].name = NameOf[f] /\ users[i].form = f

NamesInv == OneRow /\ Inserted

\* Only the levels of accounts change (SetUserVip).
LEMMA NamesStay ==
    ASSUME NamesInv, DOMAIN users' = DOMAIN users,
           \A i \in DOMAIN users : users'[i].name = users[i].name /\ users'[i].form = users[i].form,
           \A f \in Forms : form'[f] = "success" => form[f] = "success"
    PROVE  NamesInv'
BY DEF NamesInv, OneRow, Inserted

\* No request makes a second row of a name, nor answers success without a row.
LEMMA NamesStep == TypeOK /\ NamesInv /\ [Next]_vars => NamesInv'
<1> SUFFICES ASSUME TypeOK, NamesInv, [Next]_vars PROVE NamesInv'
  OBVIOUS
<1>1. ASSUME UNCHANGED <<users, form>> PROVE NamesInv'
  BY <1>1, NamesStay
<1>2. ASSUME NEW f \in Forms, RegisterSelect(f) PROVE NamesInv'
  <2>1. users' = users /\ \A g \in Forms : form'[g] = "success" => form[g] = "success"
    BY <1>2 DEF RegisterSelect, Step, TypeOK
  <2> QED BY <2>1, NamesStay
<1>3. ASSUME NEW f \in Forms, RegisterInsert(f) PROVE NamesInv'
  <2> DEFINE new == [name |-> NameOf[f], form |-> f, level |-> 0]
  <2>1. CASE users' = users /\ Step(f, "error")
    <3>1. \A g \in Forms : form'[g] = "success" => form[g] = "success"
      BY <2>1 DEF Step, TypeOK
    <3> QED BY <2>1, <3>1, NamesStay
  <2>2. CASE /\ Keyed => RowsOf(NameOf[f]) = {}
             /\ users' = Append(users, new) /\ Step(f, "success")
    <3>1. new.name = NameOf[f] /\ new.form = f /\ new \in Accounts
      BY OrdersAssumption DEF Accounts
    <3> HIDE DEF new
    <3>2. users \in Seq(Accounts) /\ Len(users) \in Nat /\ DOMAIN users = 1..Len(users)
      BY DEF TypeOK
    <3>3. /\ DOMAIN users' = 1..Len(users) + 1 /\ users'[Len(users) + 1] = new
          /\ \A i \in DOMAIN users : users'[i] = users[i]
      BY <2>2, <3>1, <3>2, AppendProperties
    <3>4. Keyed => \A i \in DOMAIN users : users[i].name # new.name
      BY <2>2, <3>1 DEF RowsOf
    <3>5. OneRow'
      BY <3>2, <3>3, <3>4 DEF OneRow, NamesInv
    <3>6. \A g \in Forms : g # f => form'[g] = form[g]
      BY <2>2 DEF Step, TypeOK
    <3>7. DOMAIN users \subseteq DOMAIN users' /\ Len(users) + 1 \in DOMAIN users'
      BY <3>2, <3>3
    <3>8. Inserted'
      <4> SUFFICES ASSUME NEW g \in Forms, form'[g] = "success"
                   PROVE  \E i \in DOMAIN users' : users'[i].name = NameOf[g] /\ users'[i].form = g
        BY DEF Inserted
      <4>1. CASE g = f
        BY <3>1, <3>3, <3>7, <4>1
      <4>2. CASE g # f
        BY <3>3, <3>6, <3>7, <4>2 DEF Inserted, NamesInv
      <4> QED BY <4>1, <4>2
    <3> QED BY <3>5, <3>8 DEF NamesInv
  <2> QED BY <1>3, <2>1, <2>2 DEF RegisterInsert
<1>4. ASSUME NEW h \in handlers, WriteLevel(h) PROVE NamesInv'
  <2>1. CASE UNCHANGED users
    BY <1>1, <1>4, <2>1 DEF WriteLevel
  <2>2. CASE users' = [i \in DOMAIN users |->
                        IF users[i].name = row[h.order].user
                        THEN [users[i] EXCEPT !.level = LevelOf(row[h.order].plan)]
                        ELSE users[i]]
    <3>1. \A i \in DOMAIN users : users[i] \in Accounts
      BY DEF TypeOK
    <3>2. DOMAIN users' = DOMAIN users
          /\ \A i \in DOMAIN users : users'[i].name = users[i].name /\ users'[i].form = users[i].form
      BY <2>2, <3>1 DEF Accounts
    <3> QED BY <1>4, <3>2, NamesStay DEF WriteLevel
  <2> QED BY <1>4, <2>1, <2>2 DEF WriteLevel
<1>5. ASSUME NEW o \in OrderIds, NEW u \in Names, NEW p \in Plans, NativePay(o, u, p)
      PROVE  NamesInv'
  BY <1>1, <1>5 DEF NativePay, accountVars
<1>6. ASSUME NEW o \in OrderIds, NEW t \in RowStates, NotifyHandler(o, t) PROVE NamesInv'
  BY <1>1, <1>6 DEF NotifyHandler, accountVars
<1>7. ASSUME NEW o \in OrderIds, InsertSubscription(o) \/ Paid(o) \/ Closed(o) \/ Refunded(o)
      PROVE  NamesInv'
  BY <1>1, <1>7 DEF InsertSubscription, Paid, Closed, Refunded, Trades, accountVars
<1>8. ASSUME NEW h \in handlers, UpdateSubscription(h) \/ SetUserVip(h) PROVE NamesInv'
  BY <1>1, <1>8 DEF UpdateSubscription, SetUserVip, accountVars
<1>9. ASSUME DbDown \/ DbBack \/ Elapse \/ PollMysql \/ UNCHANGED vars PROVE NamesInv'
  BY <1>1, <1>9 DEF DbDown, DbBack, Elapse, PollMysql, vars, accountVars
<1> QED
  BY <1>2, <1>3, <1>4, <1>5, <1>6, <1>7, <1>8, <1>9
  DEF Next, WechatPayment, AliPayment, WxPayNotify, AliPayNotify

\* Where names have one row, the first row of a name is its only one.
LEMMA LoginFinds ==
    ASSUME TypeOK, OneRow, Keyed, NEW f \in Forms, NEW i \in DOMAIN users,
           users[i].name = NameOf[f], users[i].form = f
    PROVE  Login(NameOf[f], f) # Nil
<1>1. DOMAIN users \subseteq Nat
  BY DEF TypeOK
<1>2. RowsOf(NameOf[f]) = {i}
  BY DEF RowsOf, OneRow
<1>3. FirstRow(NameOf[f]) = i
  BY <1>1, <1>2 DEF FirstRow
<1>4. users[i] \in Accounts
  BY DEF TypeOK
<1> QED BY <1>2, <1>3, <1>4, NilAssumption DEF Login, UserBase

\* With a unique key, who was told that the registration succeeded can log in, however two
\* requests for a name interleave (Register, Login).
THEOREM RegisteredCanLogin == Spec => []CanLogin
<1>1. Init => NamesInv
  BY DEF Init, NamesInv, OneRow, Inserted
<1>2. TypeOK /\ NamesInv => CanLogin
  BY LoginFinds DEF NamesInv, Inserted, CanLogin
<1> QED BY <1>1, <1>2, NamesStep, OrdersTypeCorrect, PTL DEF Spec
=============================================================================
