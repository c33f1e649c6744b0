------------------------------- MODULE Orders -------------------------------
(***************************************************************************)
(* ng-backend: accounts, subscriptions and payments. An HTTP request is a  *)
(* goroutine of its own, so every statement it sends to the database is a  *)
(* step that others interleave with. The providers (WeChat, Alipay) are    *)
(* environment: they create orders, take the money and post notices, which *)
(* may be lost, repeated and overtaken by later ones. pollMysql watches    *)
(* the connection that IsConnect reports.                                  *)
(***************************************************************************)
EXTENDS Naturals, Sequences, FiniteSets

CONSTANTS
    Names,      \* user names
    Forms,      \* requests to register, each with a password of its own
    NameOf,     \* the name each of them asks for
    OrderIds,   \* orders the providers may create
    Wechat,     \* those of WeChat; the others are Alipay's
    Plans,      \* subscription ids a client may send
    Keyed,      \* t_users has a unique key on f_user_name (no schema is kept)
    Scored,     \* levels that t_levels holds
    MaxHandlers, \* bound: notices handled at a time
    MaxOutages, \* bound: times the database goes away
    Nil         \* no row

ASSUME OrdersAssumption ==
    /\ NameOf \in [Forms -> Names]
    /\ Wechat \subseteq OrderIds /\ Keyed \in BOOLEAN
    /\ Scored \subseteq 0..3
    /\ MaxHandlers \in Nat /\ MaxOutages \in Nat

VARIABLES
    users,      \* t_users in the order of insertion
    form,       \* progress of each request to register
    request,    \* progress of each payment request
    row,        \* t_subscription
    trade,      \* provider: state of each order
    handlers,   \* goroutines of wxPayNotify and aliPayNotify
    given,      \* history: orders whose level was written to t_users
    dbup,       \* the database answers
    pool,       \* MysqlManager.Mysqldb is not nil
    connected,  \* MysqlManager.connected
    waited,     \* 300 s have passed since disconnectTimer
    outages     \* times the database went away so far

accountVars == <<users, form>>
orderVars   == <<request, row, given>>
dbVars      == <<dbup, pool, connected, waited, outages>>
vars == <<accountVars, orderVars, handlers, trade, dbVars>>

TradeStates == {"NOTPAY", "SUCCESS", "CLOSED", "REFUND"}
RowStates   == {"Scaning", "SUCCESS", "CLOSED", "REFUND"}
Requests    == [user : Names, plan : Plans, pc : {"insert", "answered", "refused"}]
Rows        == [user : Names, plan : Plans, state : RowStates]
Handlers    == [order : OrderIds, state : RowStates, pc : {"update", "select", "write"}]
Accounts    == [name : Names, form : Forms, level : 0..3]

ASSUME NilAssumption == Nil \notin Requests /\ Nil \notin Rows /\ Nil \notin Accounts

LevelOf(plan) == CASE plan = "primary"      -> 1
                   [] plan = "intermediate" -> 2
                   [] plan = "premium"      -> 3
                   [] OTHER                 -> 0

\* A statement of SubscriptionDB runs.
Answers == connected /\ dbup

\* The rows with a name, and the one that a query for it returns first.
RowsOf(name)   == {i \in DOMAIN users : users[i].name = name}
FirstRow(name) == CHOOSE i \in RowsOf(name) : \A j \in RowsOf(name) : i <= j

(***************************************************************************)
(* Reading an account: the answer of a request, Nil for an error.          *)
(***************************************************************************)
UserBase(name) == IF RowsOf(name) = {} THEN Nil ELSE users[FirstRow(name)]
SSOLogin(name) == UserBase(name)

\* Login compares the password with the first row only.
Login(name, f) == IF RowsOf(name) # {} /\ users[FirstRow(name)].form = f
                  THEN UserBase(name) ELSE Nil

\* wechatPayStatus and aliPayStatus: no row and no database are the same error.
CheckOrderStatus(o) == IF Answers /\ row[o] # Nil THEN row[o].state ELSE "error"

-----------------------------------------------------------------------------
Init ==
    /\ users = <<>>
    /\ form = [f \in Forms |-> "new"]
    /\ request = [o \in OrderIds |-> Nil]
    /\ row = [o \in OrderIds |-> Nil]
    /\ trade = [o \in OrderIds |-> "none"]
    /\ handlers = {} /\ given = {}
    /\ dbup = TRUE /\ pool = FALSE /\ connected = FALSE /\ waited = TRUE
    /\ outages = 0

(***************************************************************************)
(* Accounts. Register looks for the name, then inserts it; either          *)
(* statement may fail.                                                     *)
(***************************************************************************)
Step(f, pc) == form' = [form EXCEPT ![f] = pc]

\* Mutant: a name that exists is answered like one that was inserted.
RegisterAgain(f) ==
    /\ form[f] = "new"
    /\ \/ RowsOf(NameOf[f]) # {} /\ Step(f, "success")
       \/ RowsOf(NameOf[f]) = {} /\ Step(f, "insert")
    /\ UNCHANGED <<users, orderVars, handlers, trade, dbVars>>

RegisterSelect(f) ==
    /\ form[f] = "new"
    /\ \/ Step(f, "error")
       \/ RowsOf(NameOf[f]) # {} /\ Step(f, "exists")
       \/ RowsOf(NameOf[f]) = {} /\ Step(f, "insert")
    /\ UNCHANGED <<users, orderVars, handlers, trade, dbVars>>

RegisterInsert(f) ==
    /\ form[f] = "insert"
    /\ \/ /\ Step(f, "error")
          /\ UNCHANGED users
       \/ /\ Keyed => RowsOf(NameOf[f]) = {}
          /\ users' = Append(users, [name |-> NameOf[f], form |-> f, level |-> 0])
          /\ Step(f, "success")
    /\ UNCHANGED <<orderVars, handlers, trade, dbVars>>

(***************************************************************************)
(* A payment request: NativePay creates the order at the provider, then    *)
(* its row is inserted and the code to scan is answered. `user' and `plan' *)
(* come from the client; the account is not looked up.                     *)
(***************************************************************************)
NativePay(o, u, p) ==
    /\ request[o] = Nil
    /\ request' = [request EXCEPT ![o] = [user |-> u, plan |-> p, pc |-> "insert"]]
    /\ trade' = [trade EXCEPT ![o] = "NOTPAY"]
    /\ UNCHANGED <<row, given, handlers, accountVars, dbVars>>

WechatPayment(o, u, p) == o \in Wechat /\ NativePay(o, u, p)
AliPayment(o, u, p)    == o \notin Wechat /\ NativePay(o, u, p)

Answer(o, pc) == request' = [request EXCEPT ![o].pc = pc]

\* Mutant: the row starts with the state of the provider.
InsertTradeState(o) ==
    /\ request[o] # Nil /\ request[o].pc = "insert" /\ Answers
    /\ Answer(o, "answered")
    /\ row' = [row EXCEPT ![o] = [user |-> request[o].user,
                                  plan |-> request[o].plan, state |-> trade[o]]]
    /\ UNCHANGED <<given, handlers, accountVars, trade, dbVars>>

InsertSubscription(o) ==
    /\ request[o] # Nil /\ request[o].pc = "insert"
    /\ \/ /\ Answers
          /\ Answer(o, "answered")
          /\ row' = [row EXCEPT ![o] = [user |-> request[o].user,
                                        plan |-> request[o].plan, state |-> "Scaning"]]
       \/ /\ ~Answers
          /\ Answer(o, "refused")
          /\ UNCHANGED row
    /\ UNCHANGED <<given, handlers, accountVars, trade, dbVars>>

(***************************************************************************)
(* The provider. Only a code that was answered can be paid; any order may  *)
(* be closed while it is unpaid.                                           *)
(***************************************************************************)
Trades(o, from, to) ==
    /\ trade[o] = from
    /\ trade' = [trade EXCEPT ![o] = to]
    /\ UNCHANGED <<accountVars, orderVars, handlers, dbVars>>

Paid(o) ==
    /\ request[o] # Nil /\ request[o].pc = "answered"
    /\ Trades(o, "NOTPAY", "SUCCESS")

Closed(o)   == Trades(o, "NOTPAY", "CLOSED")
Refunded(o) == Trades(o, "SUCCESS", "REFUND")

WasPaid(o) == trade[o] \in {"SUCCESS", "REFUND"}

\* The notices of an order: each state it reached was posted, and any of them may arrive
\* now, late or again (SendError answers HTTP 200, and whether the provider repeats a
\* notice is not known), or never.
Posted(o) == {t \in RowStates : t = trade[o] \/ (t = "SUCCESS" /\ WasPaid(o))}

(***************************************************************************)
(* A notice, from NotifyHandler to the answer. Handlers of one order at    *)
(* the same statement behave alike and count as one.                       *)
(***************************************************************************)
NotifyHandler(o, state) ==
    /\ state \in Posted(o)
    /\ Cardinality(handlers) < MaxHandlers
    /\ handlers' = handlers \cup {[order |-> o, state |-> state, pc |-> "update"]}
    /\ UNCHANGED <<trade, accountVars, orderVars, dbVars>>

WxPayNotify(o, state)  == o \in Wechat /\ NotifyHandler(o, state)
AliPayNotify(o, state) == o \notin Wechat /\ NotifyHandler(o, state)

Goes(h, pc) == handlers' = (handlers \ {h}) \cup {[h EXCEPT !.pc = pc]}
Ends(h)     == handlers' = handlers \ {h}

\* Mutant: every notice makes the user a member.
UpdateAnyState(h) ==
    /\ h \in handlers /\ h.pc = "update"
    /\ row' = IF Answers /\ row[h.order] # Nil
              THEN [row EXCEPT ![h.order].state = h.state] ELSE row
    /\ IF Answers THEN Goes(h, "select") ELSE Ends(h)
    /\ UNCHANGED <<request, given, accountVars, trade, dbVars>>

\* Mutant: only the first notice of an order may make the user a member.
UpdateFirst(h) ==
    /\ h \in handlers /\ h.pc = "update"
    /\ row' = IF Answers /\ row[h.order] # Nil
              THEN [row EXCEPT ![h.order].state = h.state] ELSE row
    /\ IF Answers /\ h.state = "SUCCESS" /\ row[h.order] # Nil /\ row[h.order].state = "Scaning"
       THEN Goes(h, "select") ELSE Ends(h)
    /\ UNCHANGED <<request, given, accountVars, trade, dbVars>>

\* An order without a row updates nothing, and that is no error.
UpdateSubscription(h) ==
    /\ h \in handlers /\ h.pc = "update"
    /\ row' = IF Answers /\ row[h.order] # Nil
              THEN [row EXCEPT ![h.order].state = h.state] ELSE row
    /\ IF Answers /\ h.state = "SUCCESS" THEN Goes(h, "select") ELSE Ends(h)
    /\ UNCHANGED <<request, given, accountVars, trade, dbVars>>

GetLevelScore(level) == level \in Scored

\* The two SELECTs of SetUserVip. The error of getLevelScore, like that of the UPDATE that
\* follows, is not returned.
SetUserVip(h) ==
    /\ h \in handlers /\ h.pc = "select"
    /\ IF Answers /\ row[h.order] # Nil /\ GetLevelScore(LevelOf(row[h.order].plan))
       THEN Goes(h, "write") ELSE Ends(h)
    /\ UNCHANGED <<orderVars, accountVars, trade, dbVars>>

WriteLevel(h) ==
    /\ h \in handlers /\ h.pc = "write"
    /\ IF Answers
       THEN /\ users' = [i \in DOMAIN users |->
                          IF users[i].name = row[h.order].user
                          THEN [users[i] EXCEPT !.level = LevelOf(row[h.order].plan)]
                          ELSE users[i]]
            /\ given' = given \cup {h.order}
       ELSE UNCHANGED <<users, given>>
    /\ Ends(h)
    /\ UNCHANGED <<form, request, row, trade, dbVars>>

-----------------------------------------------------------------------------
(***************************************************************************)
(* The database goes away and comes back (environment); 300 s pass; and    *)
(* one turn of pollMysql, every 30 s.                                      *)
(***************************************************************************)
DbDown ==
    /\ dbup /\ outages < MaxOutages
    /\ dbup' = FALSE /\ outages' = outages + 1
    /\ UNCHANGED <<pool, connected, waited, accountVars, orderVars, handlers, trade>>

DbBack ==
    /\ ~dbup
    /\ dbup' = TRUE
    /\ UNCHANGED <<outages, pool, connected, waited, accountVars, orderVars, handlers,
                   trade>>

Elapse ==
    /\ ~waited
    /\ waited' = TRUE
    /\ UNCHANGED <<dbup, pool, connected, outages, accountVars, orderVars, handlers,
                   trade>>

\* Mutant: the flag is not raised when the pool is opened again.
ReopenOnly ==
    /\ connected' = (dbup /\ ~pool)
    /\ pool' = (pool \/ dbup)
    /\ waited' = (waited /\ dbup)

\* Without a pool it is opened, with one that was lost it is closed and opened again.
ConnectMysql ==
    /\ connected' = dbup
    /\ pool' = (pool \/ dbup)
    /\ waited' = (waited /\ dbup)

PollMysql ==
    /\ \/ /\ ~pool
          /\ ConnectMysql
       \/ /\ pool /\ ~dbup
          /\ connected' = FALSE /\ waited' = FALSE
          /\ UNCHANGED pool
       \/ /\ pool /\ dbup /\ ~connected /\ waited
          /\ ConnectMysql
    /\ UNCHANGED <<dbup, outages, accountVars, orderVars, handlers, trade>>

Next ==
    \/ \E f \in Forms : RegisterSelect(f) \/ RegisterInsert(f)
    \/ \E o \in OrderIds :
          \/ \E u \in Names, p \in Plans : WechatPayment(o, u, p) \/ AliPayment(o, u, p)
          \/ \E state \in RowStates : WxPayNotify(o, state) \/ AliPayNotify(o, state)
          \/ InsertSubscription(o) \/ Paid(o) \/ Closed(o) \/ Refunded(o)
    \/ \E h \in handlers :
          UpdateSubscription(h) \/ SetUserVip(h) \/ WriteLevel(h)
    \/ DbDown \/ DbBack \/ Elapse \/ PollMysql

Spec == Init /\ [][Next]_vars

\* pollMysql is a goroutine that never ends; outages end (environment).
LiveSpec == Spec /\ WF_vars(PollMysql) /\ WF_vars(Elapse) /\ WF_vars(DbBack)

-----------------------------------------------------------------------------
(* Types of the variables. *)
TypeOK ==
    /\ users \in Seq(Accounts)
    /\ form \in [Forms -> {"new", "insert", "exists", "success", "error"}]
    /\ request \in [OrderIds -> {Nil} \cup Requests]
    /\ row \in [OrderIds -> {Nil} \cup Rows]
    /\ trade \in [OrderIds -> {"none"} \cup TradeStates]
    /\ handlers \subseteq Handlers
    /\ given \subseteq OrderIds
    /\ dbup \in BOOLEAN /\ pool \in BOOLEAN /\ connected \in BOOLEAN /\ waited \in BOOLEAN
    /\ outages \in 0..MaxOutages

\* A member's level was paid for: it is that of the plan of an order of that user the
\* provider received the money for, however notices are lost, repeated or overtaken, and no
\* client is ever told SUCCESS for an order that was not paid (wxPayNotify,
\* aliPayNotify, SetUserVip, CheckOrderStatus).
Earned ==
    /\ \A i \in DOMAIN users : users[i].level # 0 =>
          \E o \in OrderIds : /\ row[o] # Nil /\ row[o].user = users[i].name
                              /\ LevelOf(row[o].plan) = users[i].level
                              /\ WasPaid(o)
    /\ \A o \in OrderIds : CheckOrderStatus(o) = "SUCCESS" => WasPaid(o)

\* An order that clients are told is paid has given its level, or a goroutine is about
\* to: the two statements of a notice come apart only when the database goes away
\* between them or t_levels lacks the level (UpdateSubscription, SetUserVip).
Settled ==
    \A o \in OrderIds : (row[o] # Nil /\ row[o].state = "SUCCESS" /\ outages = 0) =>
       \/ o \in given
       \/ \E h \in handlers : h.order = o /\ h.pc # "update"
       \/ ~GetLevelScore(LevelOf(row[o].plan))

\* When names are a unique key, a user who was told that the registration succeeded can log
\* in with the password given, though another request for the same name ran between the SELECT
\* and the INSERT of Register (Register, Login).
CanLogin ==
    Keyed => \A f \in Forms : form[f] = "success" => Login(NameOf[f], f) # Nil

\* Once outages end, SubscriptionDB is connected for good: no sequence of failed
\* queries, failed attempts and 300 s waits leaves pollMysql believing the database
\* away (pollMysql, connectMysql).
Reconnects == <>[]connected
=============================================================================
