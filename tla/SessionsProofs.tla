--------------------------- MODULE SessionsProofs ---------------------------
(***************************************************************************)
(* Theorems about the sessions of users, for any number of sessions and    *)
(* links: the types, and that nobody waits on the CloseCh of a goroutine   *)
(* that has ended.                                                         *)
(***************************************************************************)
EXTENDS Sessions, SequenceTheorems, TLAPS

\* What a user is told of a task is a view.
LEMMA ViewType == ASSUME NEW s PROVE View(s) \in Views
BY DEF View, Views

\* The queue of a session after a message was added or taken.
LEMMA QueueTypes ==
    ASSUME NEW q \in Seq(Views), NEW v \in Views
    PROVE  Append(q, v) \in Seq(Views) /\ (q # <<>> => Tail(q) \in Seq(Views))
OBVIOUS

\* Going on with the users that are left keeps the types of the loop.
LEMMA GoOnType ==
    ASSUME TypeOK, NEW a \in Actors, NEW tos \in SUBSET Sessions, GoOn(a, tos),
           a \in Sessions /\ tos = {} => work[a] \in Gathering
    PROVE  /\ sync' \in [Actors -> SyncType]
           /\ work' \in [Sessions -> {"rest", "sort", "close", "wait"} \cup Gathering]
<1>1. To(tos) \in SyncType
  BY DEF To, SyncType
<1>2. \A g \in Gathering : After[g] \in {"rest", "sort", "close"}
  BY DEF Gathering, After
<1> QED
  BY <1>1, <1>2 DEF TypeOK, GoOn

\* Writing to the links of a session keeps the type of its goroutine.
LEMMA WritingType ==
    ASSUME TypeOK, NEW s \in Sessions, NEW ls \in SUBSET Links, Writing(s, ls)
    PROVE  /\ pump' \in [Sessions -> {Silent, Gone}
                            \cup [pc : {"write"}, left : (SUBSET Links) \ {{}}]]
           /\ pump'[s] # Gone
           /\ \A t \in Sessions \ {s} : pump'[t] = pump[t]
BY DEF TypeOK, Writing, Silent, Gone, To

\* A worker that has deleted its session is in a step of its type.
LEMMA ClosedType ==
    ASSUME TypeOK, NEW s \in Sessions
    PROVE  Closed(s) \in [Sessions -> {"rest", "sort", "close", "wait"} \cup Gathering]
BY DEF TypeOK, Closed, Gathering

\* Closing links leaves a function of connections.
LEMMA ShutType ==
    ASSUME TypeOK, NEW ls
    PROVE  Shut(ls) \in [Links -> {"none", "open", "lost", "closed"}]
BY DEF TypeOK, Shut

-----------------------------------------------------------------------------
\* A goroutine in the middle of telling users is there for a Gathering reason.
Busy == \A s \in Sessions : sync[s] # Quiet => work[s] \in Gathering

\* A worker that holds the lock waits with it, and does nothing else.
Holder == lock \in Sessions => work[lock] = "wait"

\* The inductive invariant.
Inv == TypeOK /\ Busy /\ Holder /\ Rendezvous

WorkType == {"rest", "sort", "close", "wait"} \cup Gathering

\* Without sessions and links the invariant holds.
LEMMA InitInv == Init => Inv
<1> SUFFICES ASSUME Init PROVE Inv
  OBVIOUS
<1>1. Quiet \in SyncType
  BY DEF Quiet, To, SyncType
<1>2. Nobody \in {Nobody} /\ Nobody \notin Sessions
  BY SessionsAssumption DEF SessionsAssumption
<1>3. <<>> \in Seq(Views)
  OBVIOUS
<1>4. TypeOK
  BY <1>1, <1>3, SessionsAssumption DEF TypeOK, Init, Actors
<1>5. Busy /\ Holder /\ Rendezvous
  BY <1>2 DEF Init, Busy, Holder, Rendezvous, Actors
<1> QED
  BY <1>4, <1>5 DEF Inv

-----------------------------------------------------------------------------
(***************************************************************************)
(* Requests and the work on tasks.                                         *)
(***************************************************************************)
LEMMA RequestStep ==
    ASSUME Inv, NEW s \in Sessions, NewSession(s) \/ UserPublish(s)
    PROVE  Inv'
<1>1. CASE NewSession(s)
  <2>1. TypeOK'
    BY <1>1 DEF Inv, TypeOK, NewSession, linkVars
  <2>2. Busy' /\ Holder'
    BY <1>1 DEF Inv, Busy, Holder, NewSession
  <2>3. Rendezvous'
    BY <1>1 DEF Inv, TypeOK, Rendezvous, Awaited, NewSession, Silent, Gone
  <2> QED
    BY <2>1, <2>2, <2>3 DEF Inv
<1>2. CASE UserPublish(s)
  <2>1. TypeOK'
    BY <1>2 DEF Inv, TypeOK, UserPublish, mapVars, pumpVars, linkVars
  <2>2. Busy' /\ Holder' /\ Rendezvous'
    BY <1>2 DEF Inv, Busy, Holder, Rendezvous, Awaited, UserPublish, mapVars, pumpVars
  <2> QED
    BY <2>1, <2>2 DEF Inv
<1> QED
  BY <1>1, <1>2

\* What the goroutines of nodes do to a task leaves its session alone.
LEMMA TaskStep ==
    ASSUME Inv, NEW s \in Sessions,
           Change(s) \/ CompletedSubTask(s) \/ FailedSubTask(s) \/ DeleteTask(s)
    PROVE  Inv'
<1>1. work[s] \in {"rest", "sort"} /\ sync[s] = Quiet
  BY DEF Inv, Busy, Change, CompletedSubTask, FailedSubTask, DeleteTask, Gathering
<1>2. TypeOK'
  <2>1. CASE Change(s)
    <3>1. events[s] + 1 \in 0..MaxEvents
      BY <2>1, SessionsAssumption DEF SessionsAssumption, Inv, TypeOK, Change
    <3>2. "event" \in Gathering
      BY DEF Gathering
    <3> QED
      BY <2>1, <3>1, <3>2 DEF Inv, TypeOK, Change, mapVars, pumpVars, linkVars
  <2>2. CASE CompletedSubTask(s)
    BY <2>2 DEF Inv, TypeOK, CompletedSubTask, Gathering, Outcomes, mapVars, pumpVars, linkVars
  <2>3. CASE FailedSubTask(s)
    BY <2>3 DEF Inv, TypeOK, FailedSubTask, Outcomes, mapVars, pumpVars, linkVars
  <2>4. CASE DeleteTask(s)
    <3>1. (IF task[s] = "success" THEN "resync" ELSE "close")
             \in {"rest", "sort", "close", "wait"} \cup Gathering
      BY DEF Gathering
    <3> QED
      BY <2>4, <3>1 DEF Inv, TypeOK, DeleteTask, mapVars, pumpVars, linkVars
  <2> QED
    BY <2>1, <2>2, <2>3, <2>4
<1>3. /\ UNCHANGED <<sync, lock, sessions, pump>>
      /\ \A t \in Sessions \ {s} : work'[t] = work[t]
  BY DEF Inv, TypeOK, Change, CompletedSubTask, FailedSubTask, DeleteTask, mapVars, pumpVars
<1>4. Busy' /\ Holder'
  BY <1>1, <1>3 DEF Inv, Busy, Holder
<1>5. Rendezvous'
  BY <1>3 DEF Inv, Rendezvous, Awaited
<1> QED
  BY <1>2, <1>4, <1>5 DEF Inv

(***************************************************************************)
(* Telling the users.                                                      *)
(***************************************************************************)
LEMMA GoOnStep ==
    ASSUME Inv, NEW a \in Actors, NEW tos \in SUBSET Sessions, GoOn(a, tos),
           a \in Sessions => work[a] \in Gathering, UNCHANGED lock
    PROVE  Busy' /\ Holder'
<1>1. \A s \in Sessions \ {a} : sync'[s] = sync[s] /\ work'[s] = work[s]
  BY DEF Inv, TypeOK, GoOn, Actors
<1>2. a \in Sessions => (tos = {} /\ sync'[a] = Quiet) \/ (tos # {} /\ work'[a] = work[a])
  BY DEF Inv, TypeOK, GoOn, Actors, Quiet
<1>3. "wait" \notin Gathering
  BY DEF Gathering
<1> QED
  BY <1>1, <1>2, <1>3 DEF Inv, Busy, Holder

\* sendSyncs starts its loop.
LEMMA GetSessionsStep ==
    ASSUME Inv, NEW s \in Sessions, GetSessions(s) PROVE Inv'
<1>1. /\ s \in Actors /\ sessions \in SUBSET Sessions
      /\ GoOn(s, sessions) /\ work[s] \in Gathering
  BY DEF Inv, TypeOK, GetSessions, Actors
<1>2. TypeOK'
  BY <1>1, GoOnType DEF Inv, TypeOK, GetSessions, mapVars, pumpVars, linkVars
<1>3. Busy' /\ Holder'
  BY <1>1, GoOnStep DEF GetSessions, mapVars
<1>4. Rendezvous'
  BY DEF Inv, Rendezvous, Awaited, GetSessions, mapVars, pumpVars
<1> QED
  BY <1>2, <1>3, <1>4 DEF Inv

\* sendSyncs looks at the task of a user.
LEMMA GetSyncTasksStep ==
    ASSUME Inv, NEW a \in Actors, NEW s \in Sessions, GetSyncTasks(a, s) PROVE Inv'
<1> DEFINE rest == sync[a].tos \ {s}
           e == [tos |-> rest, to |-> s, view |-> View(s)]
<1>1. /\ sync[a] \in SyncType /\ sync[a] # Quiet
      /\ rest \in SUBSET Sessions
      /\ UNCHANGED lock
  BY DEF Inv, TypeOK, SyncType, Quiet, To, GetSyncTasks, mapVars
<1>2. a \in Sessions => work[a] \in Gathering
  BY <1>1 DEF Inv, Busy
<1>3. Rendezvous'
  BY DEF Inv, Rendezvous, Awaited, GetSyncTasks, mapVars, pumpVars
<1>4. CASE s \in listed
  <2>1. e \in SyncType
    BY <1>1, ViewType DEF SyncType
  <2>2. sync' = [sync EXCEPT ![a] = e] /\ UNCHANGED work
    BY <1>4 DEF GetSyncTasks
  <2>3. TypeOK'
    BY <2>1, <2>2 DEF Inv, TypeOK, GetSyncTasks, mapVars, pumpVars, linkVars
  <2>4. Busy' /\ Holder'
    BY <1>1, <1>2, <2>2 DEF Inv, TypeOK, Busy, Holder
  <2> QED
    BY <1>3, <2>3, <2>4 DEF Inv
<1>5. CASE s \notin listed
  <2>1. GoOn(a, rest)
    BY <1>5 DEF GetSyncTasks
  <2>2. TypeOK'
    BY <1>1, <1>2, <2>1, GoOnType DEF Inv, TypeOK, GetSyncTasks, mapVars, pumpVars, linkVars
  <2>3. Busy' /\ Holder'
    BY <1>1, <1>2, <2>1, GoOnStep
  <2> QED
    BY <1>3, <2>2, <2>3 DEF Inv
<1> QED
  BY <1>4, <1>5

\* sendSyncs queues its message and goes on.
LEMMA SendSyncStep ==
    ASSUME Inv, NEW a \in Actors, SendSync(a) PROVE Inv'
<1> DEFINE t == sync[a].to
<1>1. /\ sync[a] \in SyncType /\ sync[a] # Quiet
      /\ sync[a].tos \in SUBSET Sessions
      /\ t \in Sessions /\ sync[a].view \in Views
      /\ UNCHANGED lock
  BY DEF Inv, TypeOK, SyncType, Quiet, To, SendSync, mapVars
<1>2. a \in Sessions => work[a] \in Gathering
  BY <1>1 DEF Inv, Busy
<1>3. GoOn(a, sync[a].tos)
  BY DEF SendSync
<1>4. outbox' \in [Sessions -> Seq(Views)]
  <2>1. outbox[t] \in Seq(Views)
    BY <1>1 DEF Inv, TypeOK
  <2>2. Append(outbox[t], sync[a].view) \in Seq(Views)
    BY <1>1, <2>1, QueueTypes
  <2> QED
    BY <1>1, <2>2 DEF Inv, TypeOK, SendSync
<1>5. TypeOK'
  BY <1>1, <1>2, <1>3, <1>4, GoOnType DEF Inv, TypeOK, SendSync, mapVars, linkVars
<1>6. Busy' /\ Holder'
  BY <1>1, <1>2, <1>3, GoOnStep
<1>7. Rendezvous'
  BY DEF Inv, Rendezvous, Awaited, SendSync, mapVars
<1> QED
  BY <1>5, <1>6, <1>7 DEF Inv

(***************************************************************************)
(* The goroutine of a session and its end.                                 *)
(***************************************************************************)
LEMMA LeftType ==
    ASSUME Inv, NEW s \in Sessions PROVE pump[s].left \in SUBSET Links
<1>1. CASE pump[s] = Silent
  BY <1>1 DEF Silent
<1>2. CASE pump[s] = Gone
  BY <1>2 DEF Gone
<1>3. CASE pump[s] \in [pc : {"write"}, left : (SUBSET Links) \ {{}}]
  BY <1>3
<1> QED
  BY <1>1, <1>2, <1>3 DEF Inv, TypeOK

\* The goroutine of a session takes a message and writes it: it is not gone.
LEMMA TransferStep ==
    ASSUME Inv, NEW s \in Sessions, Transfer(s) PROVE Inv'
<1>1. CASE Take(s)
  <2>1. net[s] \in SUBSET Links /\ Writing(s, net[s])
    BY <1>1 DEF Inv, TypeOK, Take
  <2>2. outbox' \in [Sessions -> Seq(Views)]
    <3>1. outbox[s] \in Seq(Views) /\ outbox[s] # <<>>
      BY <1>1 DEF Inv, TypeOK, Take
    <3>2. Tail(outbox[s]) \in Seq(Views)
      BY <3>1
    <3> QED
      BY <1>1, <3>2 DEF Inv, TypeOK, Take
  <2>3. TypeOK'
    BY <1>1, <2>1, <2>2, WritingType DEF Inv, TypeOK, Take, mapVars, taskVars, linkVars
  <2>4. Busy' /\ Holder'
    BY <1>1 DEF Inv, Busy, Holder, Take, mapVars, taskVars
  <2>5. Rendezvous'
    BY <1>1, <2>1, WritingType DEF Inv, TypeOK, Rendezvous, Awaited, Take, mapVars
  <2> QED
    BY <2>3, <2>4, <2>5 DEF Inv
<1>2. ASSUME NEW l \in Links, Write(s, l) PROVE Inv'
  <2>1. pump[s].left \ {l} \in SUBSET Links
    BY LeftType
  <2>2. TypeOK'
    BY <1>2, <2>1, WritingType DEF Inv, TypeOK, Write, mapVars, taskVars, linkVars
  <2>3. Busy' /\ Holder'
    BY <1>2 DEF Inv, Busy, Holder, Write, mapVars, taskVars
  <2>4. Rendezvous'
    BY <1>2, <2>1, WritingType DEF Inv, TypeOK, Rendezvous, Awaited, Write, mapVars
  <2> QED
    BY <2>2, <2>3, <2>4 DEF Inv
<1> QED
  BY <1>1, <1>2 DEF Transfer

\* Who takes the lock to delete a session finds its goroutine there.
LEMMA DeleteSessionStep ==
    ASSUME Inv, NEW s \in Sessions, DeleteSession(s) PROVE Inv'
<1>1. /\ sync[s] = Quiet /\ lock = Nobody /\ work[s] = "close"
      /\ s # Nobody /\ s \notin Links /\ UNCHANGED <<sync, sessions, pump>>
  BY SessionsAssumption
  DEF SessionsAssumption, Inv, Busy, DeleteSession, Gathering, pumpVars
<1>2. CASE s \in sessions
  <2>1. work' = [work EXCEPT ![s] = "wait"] /\ lock' = s
    BY <1>2 DEF DeleteSession
  <2>2. TypeOK'
    <3>1. net' = [net EXCEPT ![s] = {}] /\ conn' = Shut(net[s])
      BY <1>2 DEF DeleteSession
    <3>2. conn' \in [Links -> {"none", "open", "lost", "closed"}]
      BY <3>1, ShutType DEF Inv
    <3>3. /\ net' \in [Sessions -> SUBSET Links] /\ lock' \in Actors
          /\ work' \in [Sessions -> {"rest", "sort", "close", "wait"} \cup Gathering]
      BY <2>1, <3>1 DEF Inv, TypeOK, Actors
    <3> QED
      BY <3>2, <3>3 DEF Inv, TypeOK, DeleteSession, pumpVars
  <2>3. Busy' /\ Holder' /\ Rendezvous'
    BY <1>1, <1>2, <2>1 DEF Inv, TypeOK, Busy, Holder, Rendezvous, Awaited
  <2> QED
    BY <2>2, <2>3 DEF Inv
<1>3. CASE s \notin sessions
  <2>1. work' = Closed(s) /\ UNCHANGED lock
    BY <1>3 DEF DeleteSession
  <2>2. TypeOK'
    BY <1>3, ClosedType DEF Inv, TypeOK, DeleteSession, pumpVars
  <2>3. \A t \in Sessions \ {s} : work'[t] = work[t]
    BY <2>1 DEF Inv, TypeOK, Closed
  <2>4. Busy' /\ Holder' /\ Rendezvous'
    BY <1>1, <2>1, <2>3, SessionsAssumption
    DEF SessionsAssumption, Inv, Busy, Holder, Rendezvous, Awaited
  <2> QED
    BY <2>2, <2>4 DEF Inv
<1> QED
  BY <1>2, <1>3

\* Handing CloseCh over takes the session off the map with its goroutine.
LEMMA CloseStep ==
    ASSUME Inv, NEW s \in Sessions, CloseCh(s)
    PROVE  /\ Rendezvous'
           /\ pump' \in [Sessions -> {Silent, Gone}
                           \cup [pc : {"write"}, left : (SUBSET Links) \ {{}}]]
<1>1. \A t \in Sessions \ {s} : pump'[t] = pump[t]
  BY DEF Inv, TypeOK, CloseCh
<1> QED
  BY <1>1, SessionsAssumption
  DEF SessionsAssumption, Inv, TypeOK, Rendezvous, Awaited, CloseCh

\* The deletion after the end of a task keeps the invariant.
LEMMA SessionDeletedStep ==
    ASSUME Inv, NEW s \in Sessions, SessionDeleted(s) PROVE Inv'
<1>1. lock = s /\ CloseCh(s) /\ work' = Closed(s) /\ UNCHANGED sync
  BY DEF SessionDeleted
<1>2. sync[s] = Quiet
  BY <1>1 DEF Inv, Holder, Busy, Gathering
<1>3. TypeOK'
  BY <1>1, CloseStep, ClosedType
  DEF Inv, TypeOK, SessionDeleted, CloseCh, linkVars
<1>4. lock' = Nobody /\ \A t \in Sessions \ {s} : work'[t] = work[t]
  BY <1>1 DEF Inv, TypeOK, CloseCh, Closed
<1>5. Busy' /\ Holder'
  BY <1>1, <1>2, <1>4, SessionsAssumption DEF SessionsAssumption, Inv, Busy, Holder
<1> QED
  BY <1>1, <1>3, <1>5, CloseStep DEF Inv

(***************************************************************************)
(* Links.                                                                  *)
(***************************************************************************)
LEMMA LinkQuiet ==
    ASSUME Inv, UNCHANGED <<work, lock>>, \A s \in Sessions : sync'[s] = sync[s]
    PROVE  Busy' /\ Holder'
BY DEF Inv, Busy, Holder

\* Accepting a link neither locks nor deletes.
LEMMA AcceptStep ==
    ASSUME Inv, NEW l \in Links, Handle(l) \/ FindSession(l) \/ OnConnect(l)
    PROVE  Inv'
<1>1. SessionOf[l] \in Sessions
  BY SessionsAssumption DEF SessionsAssumption
<1>2. UNCHANGED <<work, lock, sessions, pump>>
  BY DEF Handle, FindSession, OnConnect, mapVars, pumpVars, taskVars
<1>3. \A s \in Sessions : sync'[s] = sync[s]
  BY SessionsAssumption
  DEF SessionsAssumption, Inv, TypeOK, Handle, FindSession, OnConnect, Actors
<1>4. Rendezvous'
  BY <1>2 DEF Inv, Rendezvous, Awaited
<1>5. CASE Handle(l)
  <2>1. TypeOK'
    BY <1>5 DEF Inv, TypeOK, Handle, mapVars, pumpVars, taskVars
  <2> QED
    BY <1>2, <1>3, <1>4, <2>1, LinkQuiet DEF Inv
<1>6. CASE FindSession(l)
  <2>1. TypeOK'
    BY <1>1, <1>6 DEF Inv, TypeOK, FindSession, mapVars, pumpVars, taskVars
  <2> QED
    BY <1>2, <1>3, <1>4, <2>1, LinkQuiet DEF Inv
<1>7. CASE OnConnect(l)
  <2>1. \A ls \in Appended(l) : ls \in SUBSET Links
    BY <1>1 DEF Inv, TypeOK, Appended
  <2>2. net' \in [Sessions -> SUBSET Links]
    <3>1. PICK ls \in Appended(l) : net' = [net EXCEPT ![SessionOf[l]] = ls]
      BY <1>7 DEF OnConnect
    <3> QED
      BY <2>1, <3>1 DEF Inv, TypeOK
  <2>3. To({SessionOf[l]}) \in SyncType
    BY <1>1 DEF To, SyncType
  <2>4. TypeOK'
    BY <1>7, <2>2, <2>3 DEF Inv, TypeOK, OnConnect, pumpVars, taskVars
  <2> QED
    BY <1>2, <1>3, <1>4, <2>4, LinkQuiet DEF Inv
<1> QED
  BY <1>5, <1>6, <1>7

\* Reading from a link, and its end, neither lock nor delete.
LEMMA ReadStep ==
    ASSUME Inv, NEW l \in Links, OnRead(l) \/ Disconnect(l) PROVE Inv'
<1>1. SessionOf[l] \in Sessions /\ Capacity \in Nat
  BY SessionsAssumption DEF SessionsAssumption
<1>2. UNCHANGED <<work, lock, sessions, pump, sync>>
  BY DEF OnRead, Disconnect, mapVars, pumpVars, taskVars
<1>3. TypeOK'
  <2>1. CASE OnRead(l)
    <3>1. /\ unread' \in [Sessions -> 0..Capacity]
          /\ reader' \in [Links -> {"none", "read", "stuck", "wait", "done"}]
      <4>1. CASE unread[SessionOf[l]] < Capacity
        <5>1. unread[SessionOf[l]] + 1 \in 0..Capacity
          BY <1>1, <4>1 DEF Inv, TypeOK
        <5>2. unread' = [unread EXCEPT ![SessionOf[l]] = unread[SessionOf[l]] + 1]
          BY <2>1, <4>1 DEF OnRead
        <5>3. UNCHANGED reader
          BY <2>1, <4>1 DEF OnRead
        <5> QED
          BY <5>1, <5>2, <5>3 DEF Inv, TypeOK
      <4>2. CASE ~(unread[SessionOf[l]] < Capacity)
        BY <2>1, <4>2 DEF Inv, TypeOK, OnRead
      <4> QED
        BY <4>1, <4>2
    <3> QED
      BY <2>1, <3>1 DEF Inv, TypeOK, OnRead, pumpVars, taskVars
  <2>2. CASE Disconnect(l)
    BY <2>2 DEF Inv, TypeOK, Disconnect, mapVars, pumpVars, taskVars
  <2> QED
    BY <2>1, <2>2
<1>4. Rendezvous'
  BY <1>2 DEF Inv, Rendezvous, Awaited
<1> QED
  BY <1>2, <1>3, <1>4, LinkQuiet DEF Inv

\* Who takes the lock for the last link of a session finds its goroutine there.
LEMMA DeleteLinkerStep ==
    ASSUME Inv, NEW l \in Links, DeleteSessionLinker(l) PROVE Inv'
<1> DEFINE s == SessionOf[l]
           ls == net[s] \ {l}
<1>1. s \in Sessions /\ l \notin Sessions /\ l # Nobody /\ l \in Actors
  BY SessionsAssumption DEF SessionsAssumption, Actors
<1>2. lock = Nobody /\ UNCHANGED <<sessions, work, sync>>
  BY DEF DeleteSessionLinker, taskVars
<1>3. CASE s \notin sessions
  <2>1. UNCHANGED <<net, pump, lock>> /\ reader' = [reader EXCEPT ![l] = "done"]
    BY <1>3 DEF DeleteSessionLinker
  <2>2. TypeOK'
    BY <2>1 DEF Inv, TypeOK, DeleteSessionLinker, taskVars
  <2>3. Rendezvous'
    BY <1>2, <2>1 DEF Inv, Rendezvous, Awaited
  <2> QED
    BY <1>2, <2>1, <2>2, <2>3, LinkQuiet DEF Inv
<1>4. CASE s \in sessions
  <2>1. /\ net' = [net EXCEPT ![s] = ls]
        /\ lock' = IF ls = {} THEN l ELSE Nobody
        /\ reader' = [reader EXCEPT ![l] = IF ls = {} THEN "wait" ELSE "done"]
    BY <1>4 DEF DeleteSessionLinker
  <2>2. /\ pump' \in [Sessions -> {Silent, Gone}
                        \cup [pc : {"write"}, left : (SUBSET Links) \ {{}}]]
        /\ \A t \in sessions : pump'[t] # Gone
    <3>1. CASE UNCHANGED pump
      BY <3>1 DEF Inv, TypeOK, Rendezvous
    <3>2. ASSUME NEW m, Writing(s, pump[s].left \ {m})
          PROVE  /\ pump' \in [Sessions -> {Silent, Gone}
                                 \cup [pc : {"write"}, left : (SUBSET Links) \ {{}}]]
                 /\ \A t \in sessions : pump'[t] # Gone
      <4>1. pump[s].left \ {m} \in SUBSET Links
        BY <1>1, LeftType
      <4> QED
        BY <1>1, <3>2, <4>1, WritingType DEF Inv, TypeOK, Rendezvous
    <3> QED
      BY <1>4, <3>1, <3>2 DEF DeleteSessionLinker
  <2>3. TypeOK'
    <3>1. lock' \in Actors \cup {Nobody}
      BY <1>1, <2>1
    <3>2. net' \in [Sessions -> SUBSET Links]
      BY <1>1, <2>1 DEF Inv, TypeOK
    <3>3. reader' \in [Links -> {"none", "read", "stuck", "wait", "done"}]
      BY <2>1 DEF Inv, TypeOK
    <3> QED
      BY <2>2, <3>1, <3>2, <3>3 DEF Inv, TypeOK, DeleteSessionLinker, taskVars
  <2>4. Busy' /\ Holder'
    BY <1>1, <1>2, <2>1, SessionsAssumption DEF SessionsAssumption, Inv, Busy, Holder
  <2>5. Rendezvous'
    BY <1>1, <1>2, <1>4, <2>1, <2>2 DEF Rendezvous, Awaited
  <2> QED
    BY <2>3, <2>4, <2>5 DEF Inv
<1> QED
  BY <1>3, <1>4

\* The deletion after the loss of the last link keeps the invariant.
LEMMA LinkerDeletedStep ==
    ASSUME Inv, NEW l \in Links, LinkerDeleted(l) PROVE Inv'
<1>1. SessionOf[l] \in Sessions /\ CloseCh(SessionOf[l])
  BY SessionsAssumption DEF SessionsAssumption, LinkerDeleted
<1>2. TypeOK'
  BY <1>1, CloseStep DEF Inv, TypeOK, LinkerDeleted, CloseCh, taskVars
<1>3. Busy' /\ Holder'
  BY <1>1, SessionsAssumption
  DEF SessionsAssumption, Inv, Busy, Holder, LinkerDeleted, CloseCh, taskVars
<1> QED
  BY <1>1, <1>2, <1>3, CloseStep DEF Inv

-----------------------------------------------------------------------------
\* Every step keeps the invariant.
LEMMA Invariance == Inv /\ [Next]_vars => Inv'
<1> SUFFICES ASSUME Inv, [Next]_vars PROVE Inv'
  OBVIOUS
<1>1. CASE UNCHANGED vars
  <2>1. TypeOK'
    BY <1>1 DEF Inv, TypeOK, vars, mapVars, pumpVars, taskVars, linkVars
  <2>2. Busy' /\ Holder' /\ Rendezvous'
    BY <1>1 DEF Inv, Busy, Holder, Rendezvous, Awaited, vars, mapVars, pumpVars, taskVars
  <2> QED
    BY <2>1, <2>2 DEF Inv
<1>2. ASSUME NEW a \in Actors, Telling(a) PROVE Inv'
  BY <1>2, GetSyncTasksStep, SendSyncStep DEF Telling
<1>3. ASSUME NEW s \in Sessions, Working(s) PROVE Inv'
  BY <1>2, <1>3, GetSessionsStep, TaskStep, DeleteSessionStep, SessionDeletedStep
  DEF Working, Actors
<1>4. ASSUME NEW s \in Sessions,
             \/ NewSession(s) \/ UserPublish(s)
             \/ Change(s) \/ CompletedSubTask(s) \/ FailedSubTask(s)
             \/ Transfer(s)
      PROVE  Inv'
  BY <1>4, RequestStep, TaskStep, TransferStep
<1>5. ASSUME NEW l \in Links,
             Handle(l) \/ Accepting(l) \/ OnRead(l) \/ Disconnect(l) \/ Closing(l)
      PROVE  Inv'
  BY <1>2, <1>5, AcceptStep, ReadStep, DeleteLinkerStep, LinkerDeletedStep
  DEF Accepting, Closing, Actors
<1> QED
  BY <1>1, <1>3, <1>4, <1>5 DEF Next

\* The variables of the sessions keep their types.
THEOREM SessionsTypeCorrect == Spec => []TypeOK
<1>1. Init => Inv
  BY InitInv
<1>2. Inv /\ [Next]_vars => Inv'
  BY Invariance
<1>3. Inv => TypeOK
  BY DEF Inv
<1> QED
  BY <1>1, <1>2, <1>3, PTL DEF Spec

\* Every session in the map has its goroutine, and the lock is only held for
\* the sake of such a session: DeleteSession and DeleteSessionLinker never
\* wait for a goroutine that has returned, however links and answers race.
THEOREM NoLostRendezvous == Spec => []Rendezvous
<1>1. Init => Inv
  BY InitInv
<1>2. Inv /\ [Next]_vars => Inv'
  BY Invariance
<1>3. Inv => Rendezvous
  BY DEF Inv
<1> QED
  BY <1>1, <1>2, <1>3, PTL DEF Spec
=============================================================================
