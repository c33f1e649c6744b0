------------------------------ MODULE Sessions ------------------------------
(***************************************************************************)
(* The sessions of users in ng-cloud: one session, one task and one        *)
(* goroutine (UserMatch.transfer) per request, and any number of websocket *)
(* links, on which the user follows the task. A link has two goroutines:   *)
(* the one that accepted it (handle, OnConnect) and its reader (recv,      *)
(* OnRead, OnDisconnect). The goroutines of nodes work on the tasks, tell  *)
(* all users of every change and delete the session of a task that ended.  *)
(*                                                                         *)
(* UserSessions.lock guards the map of sessions. Whoever deletes a session *)
(* waits, with the lock, for the goroutine of that session.                *)
(***************************************************************************)
EXTENDS Naturals, Sequences, FiniteSets

CONSTANTS
    Sessions,   \* the requests of users
    Links,      \* the websocket links that users open
    SessionOf,  \* the session that a link names
    Chatty,     \* links on which the user sends messages
    Capacity,   \* capacity of RecvMessageCh
    MaxEvents,  \* bound: changes of a task before its end
    Nobody      \* nobody holds the lock

ASSUME SessionsAssumption ==
    /\ SessionOf \in [Links -> Sessions]
    /\ Chatty \subseteq Links /\ Capacity \in Nat /\ MaxEvents \in Nat
    /\ Nobody \notin Sessions \cup Links
    /\ Sessions \cap Links = {}

VARIABLES
    sessions,   \* UserSessions.sessions
    lock,       \* who holds UserSessions.lock while it waits on a CloseCh
    net,        \* UserSession.Net, without its order
    pump,       \* the goroutine transfer of a session
    outbox,     \* UserMatch.SendMessageCh
    unread,     \* messages in UserMatch.RecvMessageCh, which nobody takes
    task,       \* the task of a session
    listed,     \* sessions whose task is in UserSessions.tasks
    events,     \* changes of the task so far
    work,       \* what the goroutine that deals with the task of a session does
    sync,       \* the call of sendSyncs or sendSyncs2 that an actor is in
    accept,     \* what the goroutine that accepted a link does
    copy,       \* the Net that it appends to
    conn,       \* the connection of a link
    reader      \* what the reader of a link does

mapVars  == <<sessions, lock, net, unread>>
pumpVars == <<pump, outbox>>
taskVars == <<task, listed, events, work>>
linkVars == <<accept, copy, conn, reader>>
vars     == <<mapVars, pumpVars, taskVars, sync, linkVars>>

Actors     == Sessions \cup Links   \* a worker by its session, a link
Outcomes   == {"success", "failure"}
Views      == {"progress", "final"}
LinksOf(s) == {l \in Links : SessionOf[l] = s}

To(tos) == [tos |-> tos, to |-> Nobody, view |-> "none"]
Quiet   == To({})
Silent  == [pc |-> "idle", left |-> {}]
Gone    == [pc |-> "gone", left |-> {}]

\* The goroutine of s is in its select; the one that is gone never is.
Selecting(s) == pump[s] = Silent

-----------------------------------------------------------------------------
Init ==
    /\ sessions = {} /\ lock = Nobody
    /\ net = [s \in Sessions |-> {}] /\ unread = [s \in Sessions |-> 0]
    /\ pump = [s \in Sessions |-> Gone] /\ outbox = [s \in Sessions |-> <<>>]
    /\ task = [s \in Sessions |-> "none"] /\ listed = {}
    /\ events = [s \in Sessions |-> 0] /\ work = [s \in Sessions |-> "rest"]
    /\ sync = [a \in Actors |-> Quiet]
    /\ accept = [l \in Links |-> "new"] /\ copy = [l \in Links |-> {}]
    /\ conn = [l \in Links |-> "none"] /\ reader = [l \in Links |-> "none"]

(***************************************************************************)
(* A request: publish makes the session, its goroutine and then the task.  *)
(***************************************************************************)
NewSession(s) ==
    /\ lock = Nobody /\ task[s] = "none"
    /\ sessions' = sessions \cup {s}
    /\ pump' = [pump EXCEPT ![s] = Silent]
    /\ task' = [task EXCEPT ![s] = "asked"]
    /\ UNCHANGED <<lock, net, unread, outbox, listed, events, work, sync, linkVars>>

\* userTaskPublish: the task is made, or refused and the session stays.
UserPublish(s) ==
    /\ lock = Nobody /\ task[s] = "asked" /\ s \in sessions
    /\ \/ task' = [task EXCEPT ![s] = "live"] /\ listed' = listed \cup {s}
       \/ task' = [task EXCEPT ![s] = "refused"] /\ UNCHANGED listed
    /\ UNCHANGED <<mapVars, pumpVars, events, work, sync, linkVars>>

(***************************************************************************)
(* Telling the users: sendSyncs to all, sendSyncs2 to one session.         *)
(***************************************************************************)
Gathering == {"event", "tell", "resync", "resort"}

\* What comes after sendSyncs, for each reason to call it.
After == [event |-> "rest", tell |-> "sort", resync |-> "close", resort |-> "rest"]

\* The actor goes on with these users, or returns.
GoOn(a, tos) ==
    /\ sync' = [sync EXCEPT ![a] = To(tos)]
    /\ work' = IF a \in Sessions /\ tos = {} THEN [work EXCEPT ![a] = After[@]] ELSE work

\* GetSessions, the first thing that sendSyncs does.
GetSessions(s) ==
    /\ lock = Nobody /\ work[s] \in Gathering /\ sync[s] = Quiet
    /\ GoOn(s, sessions)
    /\ UNCHANGED <<mapVars, pumpVars, task, listed, events, linkVars>>

\* Mutation: the state is sent under the name it has in memory.
RawView(s) == task[s]

\* GetSyncTasks: the task of a session as it is now, if it is on the list.
View(s) == IF task[s] \in Outcomes THEN "final" ELSE "progress"

GetSyncTasks(a, s) ==
    /\ s \in sync[a].tos /\ sync[a].to = Nobody
    /\ IF s \in listed
       THEN /\ sync' = [sync EXCEPT ![a] = [tos |-> @.tos \ {s}, to |-> s, view |-> View(s)]]
            /\ UNCHANGED work
       ELSE GoOn(a, sync[a].tos \ {s})
    /\ UNCHANGED <<mapVars, pumpVars, task, listed, events, linkVars>>

\* FindSession and SendMessageCh <- data.
SendSync(a) ==
    /\ lock = Nobody /\ sync[a].to # Nobody
    /\ GoOn(a, sync[a].tos)
    /\ outbox' = IF sync[a].to \in sessions
                 THEN [outbox EXCEPT ![sync[a].to] = Append(@, sync[a].view)] ELSE outbox
    /\ UNCHANGED <<mapVars, pump, task, listed, events, linkVars>>

(***************************************************************************)
(* The goroutine of a node, at work on the task of s.                      *)
(***************************************************************************)
\* Published, started, requeued, one of several subtasks ended.
Change(s) ==
    /\ task[s] = "live" /\ work[s] = "rest" /\ events[s] < MaxEvents
    /\ events' = [events EXCEPT ![s] = @ + 1]
    /\ work' = [work EXCEPT ![s] = "event"]
    /\ UNCHANGED <<mapVars, pumpVars, task, listed, sync, linkVars>>

\* The last subtask: CompletedSubTask tells the users, then takes the task off
\* the list; taskCompleted sorts, tells again and deletes the session.
CompletedSubTask(s) ==
    /\ task[s] = "live" /\ work[s] = "rest"
    /\ task' = [task EXCEPT ![s] = "success"]
    /\ work' = [work EXCEPT ![s] = "tell"]
    /\ UNCHANGED <<mapVars, pumpVars, listed, events, sync, linkVars>>

\* FailedSubTask takes it off the list and deletes the session; taskFailed
\* sorts and tells afterwards.
FailedSubTask(s) ==
    /\ task[s] = "live" /\ work[s] = "rest"
    /\ task' = [task EXCEPT ![s] = "failure"]
    /\ work' = [work EXCEPT ![s] = "sort"]
    /\ UNCHANGED <<mapVars, pumpVars, listed, events, sync, linkVars>>

\* checkSortTask.
DeleteTask(s) ==
    /\ work[s] = "sort"
    /\ listed' = listed \ {s}
    /\ work' = [work EXCEPT ![s] = IF task[s] = "success" THEN "resync" ELSE "close"]
    /\ UNCHANGED <<mapVars, pumpVars, task, events, sync, linkVars>>

\* What follows DeleteSession.
Closed(s) == [work EXCEPT ![s] = IF task[s] = "success" THEN "rest" ELSE "resort"]

Shut(ls) == [l \in Links |-> IF l \in ls /\ conn[l] = "open" THEN "closed" ELSE conn[l]]

\* Mutation: the links are left to their users.
DeleteNoLink(s) ==
    /\ lock = Nobody /\ work[s] = "close"
    /\ IF s \in sessions
       THEN /\ net' = [net EXCEPT ![s] = {}]
            /\ lock' = s /\ work' = [work EXCEPT ![s] = "wait"]
       ELSE work' = Closed(s) /\ UNCHANGED <<lock, net>>
    /\ UNCHANGED <<sessions, unread, pumpVars, task, listed, events, sync, linkVars>>

\* DeleteSession up to CloseCh <- true: the links are closed.
DeleteSession(s) ==
    /\ lock = Nobody /\ work[s] = "close"
    /\ IF s \in sessions
       THEN /\ conn' = Shut(net[s]) /\ net' = [net EXCEPT ![s] = {}]
            /\ lock' = s /\ work' = [work EXCEPT ![s] = "wait"]
       ELSE work' = Closed(s) /\ UNCHANGED <<conn, lock, net>>
    /\ UNCHANGED <<sessions, unread, pumpVars, task, listed, events, sync, accept, copy,
                   reader>>

\* Mutation: the session is left in the map.
KeepSession(s) ==
    /\ Selecting(s)
    /\ pump' = [pump EXCEPT ![s] = Gone]
    /\ lock' = Nobody
    /\ UNCHANGED <<sessions, net, unread, outbox>>

\* The goroutine of the session takes CloseCh, and the session is deleted.
CloseCh(s) ==
    /\ Selecting(s)
    /\ pump' = [pump EXCEPT ![s] = Gone]
    /\ sessions' = sessions \ {s} /\ lock' = Nobody
    /\ UNCHANGED <<net, unread, outbox>>

SessionDeleted(s) ==
    /\ lock = s /\ CloseCh(s)
    /\ work' = Closed(s)
    /\ UNCHANGED <<task, listed, events, sync, linkVars>>

(***************************************************************************)
(* The goroutine of a session: transfer.                                   *)
(***************************************************************************)
\* Mutation: after the last link the goroutine does not select again.
WritingOn(s, ls) == pump' = [pump EXCEPT ![s] = [pc |-> "write", left |-> ls]]

Writing(s, ls) ==
    pump' = [pump EXCEPT ![s] = IF ls = {} THEN Silent ELSE [pc |-> "write", left |-> ls]]

Take(s) ==
    /\ Selecting(s) /\ outbox[s] # <<>>
    /\ Writing(s, net[s])
    /\ outbox' = [outbox EXCEPT ![s] = Tail(@)]
    /\ UNCHANGED <<mapVars, taskVars, sync, linkVars>>

\* WriteMessage returns, with an error when the link is closed.
Write(s, l) ==
    /\ l \in pump[s].left
    /\ Writing(s, pump[s].left \ {l})
    /\ UNCHANGED <<mapVars, outbox, taskVars, sync, linkVars>>

(***************************************************************************)
(* The goroutine that accepted a link: handle, NewLinker, OnConnect.       *)
(***************************************************************************)
\* The session exists: the link is upgraded and its reader started. The user
\* learns of the session from the response, which follows the task.
Handle(l) ==
    /\ lock = Nobody /\ accept[l] = "new"
    /\ SessionOf[l] \in sessions /\ task[SessionOf[l]] \notin {"asked", "refused"}
    /\ accept' = [accept EXCEPT ![l] = "upgraded"]
    /\ conn' = [conn EXCEPT ![l] = "open"]
    /\ reader' = [reader EXCEPT ![l] = "read"]
    /\ UNCHANGED <<mapVars, pumpVars, taskVars, sync, copy>>

\* FindSession, and the list read for append. A link whose session has gone
\* meanwhile stays open.
FindSession(l) ==
    /\ lock = Nobody /\ accept[l] = "upgraded"
    /\ accept' = [accept EXCEPT ![l] = IF SessionOf[l] \in sessions THEN "found" ELSE "done"]
    /\ copy' = [copy EXCEPT ![l] = net[SessionOf[l]]]
    /\ UNCHANGED <<mapVars, pumpVars, taskVars, sync, conn, reader>>

\* Links of the same session whose goroutines write Net at the same time.
Racing(l) == {m \in LinksOf(SessionOf[l]) \ {l} :
                  \/ accept[m] = "found"
                  \/ reader[m] = "read" /\ conn[m] = "lost"}

\* append(session.Net, linker), without the lock: a data race. The list that
\* was read is written, or the elements of the one of now, or a concurrent
\* write survives alone.
Appended(l) ==
    {copy[l] \cup {l}, net[SessionOf[l]] \cup {l}}
    \cup {net[SessionOf[l]] : m \in Racing(l)}

\* Then sendSyncs2 to the session.
OnConnect(l) ==
    /\ accept[l] = "found"
    /\ \E ls \in Appended(l) : net' = [net EXCEPT ![SessionOf[l]] = ls]
    /\ accept' = [accept EXCEPT ![l] = "done"]
    /\ copy' = [copy EXCEPT ![l] = {}]
    /\ sync' = [sync EXCEPT ![l] = To({SessionOf[l]})]
    /\ UNCHANGED <<sessions, lock, unread, pumpVars, taskVars, conn, reader>>

(***************************************************************************)
(* The reader of a link.                                                   *)
(***************************************************************************)
\* OnRead: RecvMessageCh has no receiver, so the reader of a full one waits
\* for ever.
OnRead(l) ==
    /\ lock = Nobody /\ l \in Chatty /\ reader[l] = "read" /\ conn[l] = "open"
    /\ SessionOf[l] \in sessions
    /\ IF unread[SessionOf[l]] < Capacity
       THEN unread' = [unread EXCEPT ![SessionOf[l]] = @ + 1] /\ UNCHANGED reader
       ELSE reader' = [reader EXCEPT ![l] = "stuck"] /\ UNCHANGED unread
    /\ UNCHANGED <<sessions, lock, net, pumpVars, taskVars, sync, accept, copy, conn>>

\* The user goes away.
Disconnect(l) ==
    /\ conn[l] = "open"
    /\ conn' = [conn EXCEPT ![l] = "lost"]
    /\ UNCHANGED <<mapVars, pumpVars, taskVars, sync, accept, copy, reader>>

\* ReadMessage fails and OnDisconnect calls DeleteSessionLinker. Removing an
\* element shifts the others under the goroutine that writes to them, which
\* may miss one. Without links the session is deleted.
DeleteSessionLinker(l) ==
    LET s == SessionOf[l]
        ls == net[s] \ {l}
    IN  /\ lock = Nobody /\ reader[l] = "read" /\ conn[l] \in {"lost", "closed"}
        /\ IF s \notin sessions
           THEN UNCHANGED <<net, pump, lock>> /\ reader' = [reader EXCEPT ![l] = "done"]
           ELSE /\ net' = [net EXCEPT ![s] = ls]
                /\ IF l \in net[s] /\ pump[s].left # {}
                   THEN \E m \in pump[s].left \cup {Nobody} :
                           Writing(s, pump[s].left \ {m})
                   ELSE UNCHANGED pump
                /\ lock' = IF ls = {} THEN l ELSE Nobody
                /\ reader' = [reader EXCEPT ![l] = IF ls = {} THEN "wait" ELSE "done"]
        /\ UNCHANGED <<sessions, unread, outbox, taskVars, sync, accept, copy, conn>>

LinkerDeleted(l) ==
    /\ lock = l /\ CloseCh(SessionOf[l])
    /\ reader' = [reader EXCEPT ![l] = "done"]
    /\ UNCHANGED <<taskVars, sync, accept, copy, conn>>

-----------------------------------------------------------------------------
Telling(a) == (\E s \in Sessions : GetSyncTasks(a, s)) \/ SendSync(a)

Working(s) ==
    \/ GetSessions(s) \/ Telling(s)
    \/ DeleteTask(s) \/ DeleteSession(s) \/ SessionDeleted(s)

Transfer(s) == Take(s) \/ \E l \in Links : Write(s, l)

Accepting(l) == FindSession(l) \/ OnConnect(l) \/ Telling(l)

Closing(l) == DeleteSessionLinker(l) \/ LinkerDeleted(l)

Next ==
    \/ \E s \in Sessions :
          \/ NewSession(s) \/ UserPublish(s)
          \/ Change(s) \/ CompletedSubTask(s) \/ FailedSubTask(s)
          \/ Working(s) \/ Transfer(s)
    \/ \E l \in Links :
          Handle(l) \/ Accepting(l) \/ OnRead(l) \/ Disconnect(l) \/ Closing(l)

Spec == Init /\ [][Next]_vars

\* Every goroutine that can go on does; a write to a user who does not read
\* ends when the connection does. Nothing is assumed of the users or the nodes.
LiveSpec ==
    /\ Spec
    /\ \A s \in Sessions : WF_vars(Working(s)) /\ WF_vars(Transfer(s))
    /\ \A l \in Links : WF_vars(Accepting(l)) /\ WF_vars(Closing(l))

(***************************************************************************)
(* Properties.                                                             *)
(***************************************************************************)
SyncType == [tos : SUBSET Sessions, to : {Nobody}, view : {"none"}]
            \cup [tos : SUBSET Sessions, to : Sessions, view : Views]

\* What every variable may hold.
TypeOK ==
    /\ sessions \subseteq Sessions
    /\ lock \in Actors \cup {Nobody}
    /\ net \in [Sessions -> SUBSET Links]
    /\ unread \in [Sessions -> 0..Capacity]
    /\ pump \in [Sessions -> {Silent, Gone}
                    \cup [pc : {"write"}, left : (SUBSET Links) \ {{}}]]
    /\ outbox \in [Sessions -> Seq(Views)]
    /\ task \in [Sessions -> {"none", "asked", "refused", "live"} \cup Outcomes]
    /\ listed \subseteq Sessions
    /\ events \in [Sessions -> 0..MaxEvents]
    /\ work \in [Sessions -> {"rest", "sort", "close", "wait"} \cup Gathering]
    /\ sync \in [Actors -> SyncType]
    /\ accept \in [Links -> {"new", "upgraded", "found", "done"}]
    /\ copy \in [Links -> SUBSET Links]
    /\ conn \in [Links -> {"none", "open", "lost", "closed"}]
    /\ reader \in [Links -> {"none", "read", "stuck", "wait", "done"}]

\* The session for whose goroutine the holder of the lock waits.
Awaited == IF lock \in Links THEN SessionOf[lock] ELSE lock

\* A session that is in the map has a goroutine, and only such a goroutine is
\* waited for with the lock: CloseCh is unbuffered, and waiting for one that
\* is gone would stop every request, link and answer of the cloud.
Rendezvous ==
    /\ \A s \in sessions : pump[s] # Gone
    /\ lock # Nobody => Awaited \in sessions

\* Whatever the users and the links do, the lock is free again and again.
LockFree == []<>(lock = Nobody)

\* When the task has ended the user's link is closed, unless it or another link
\* of the session is being added to the list at that very time.
UserReleased ==
    \A l \in Links :
       (/\ task[SessionOf[l]] \in Outcomes /\ SessionOf[l] \in sessions
        /\ l \in net[SessionOf[l]] /\ Awaited # SessionOf[l]
        /\ \A m \in LinksOf(SessionOf[l]) \ {l} : accept[m] \in {"new", "done"})
       ~> (conn[l] # "open")
=============================================================================
