------------------------------ MODULE Scheduler ------------------------------
(***************************************************************************)
(* The scheduler of ng-cloud (package process): how subtasks of user tasks *)
(* move between the waiting and the processing queue, how the slots of the *)
(* computing nodes move between the idle and the running list, and what    *)
(* the replies of the nodes, the estimate timers, the benchmark            *)
(* ("measurement") of a node and the loss of a node do to both.            *)
(*                                                                         *)
(* The goroutines of the program are the processes of the model:           *)
(*   - the one of Nodes.check, called Check here, which dispatches, starts *)
(*     measurements and takes nodes off line;                              *)
(*   - one per user request, named by its task, which pushes the subtasks  *)
(*     of the task and dispatches after each of them;                      *)
(*   - one per node (NodeMatch.transfer), which handles its messages;      *)
(*   - one per fired estimate timer (time.AfterFunc), named by its subtask.*)
(* A step is what a goroutine does between two points where it takes a     *)
(* lock again after the steps of others could have mattered.               *)
(***************************************************************************)
EXTENDS Naturals, FiniteSets

CONSTANTS
    Nodes,        \* systemUUIDs of the computing nodes
    Subs,         \* subIDs of the subtasks
    Tasks,        \* taskIDs of the user tasks
    TaskOf,       \* the task a subtask belongs to
    Designated,   \* the node the request of a task names, or None
    Deployed,     \* Deployed[n]: the tasks whose workspace n has a docker for
    SlotSize,     \* slots of a node that passed its benchmark (from the DB)
    MeasureCount, \* configuration: generations of one benchmark
    MaxRetry,     \* configuration: aiTask.maxRetryCount
    MaxGen,       \* bound: sets of slots made for one node
    MaxDrops,     \* bound: connections lost, over all nodes
    Timeouts,     \* bound: the subtasks whose estimate may elapse
    Misbehaving,  \* bound: the subtasks a node may answer badly
    Operated,     \* bound: the nodes an operator disqualifies by hand
    Remeasured,   \* bound: the nodes whose benchmark gets old enough to redo
    Preempted,    \* bound: the dispatching goroutines that an answer may overtake
    Check,        \* the goroutine of Nodes.check
    None

ASSUME ConstantsAssumption ==
    /\ IsFiniteSet(Subs)
    /\ TaskOf \in [Subs -> Tasks]
    /\ Designated \in [Tasks -> Nodes \cup {None}]
    /\ Deployed \in [Nodes -> SUBSET Tasks]
    /\ SlotSize \in [Nodes -> Nat \ {0}]
    /\ MeasureCount \in Nat \ {0}
    /\ MaxRetry \in Nat \ {0}
    /\ MaxGen \in Nat /\ MaxDrops \in Nat
    /\ Timeouts \subseteq Subs /\ Misbehaving \subseteq Subs
    /\ Operated \subseteq Nodes /\ Remeasured \subseteq Nodes
    /\ Preempted \subseteq Tasks \cup {Check}

ASSUME NamesAssumption ==
    /\ Check \notin Tasks
    /\ None \notin Nodes \cup Subs \cup Tasks
    /\ Nodes \cap Subs = {}

VARIABLES
    pos,        \* WaitingSlots: place of a subtask in the queue, 0: not queued
    processing, \* ProcessingSlots: the subtasks in it
    state,      \* TaskSlot.State
    uuid,       \* TaskSlot.SystemUUID
    errs,       \* TaskSlot.ErrorNodes; a blank name in it is None
    timer,      \* the subtasks whose EstimateTime timer is armed
    retry,      \* f_retry_count of a subtask in the DB, up to MaxRetry
    dberrs,     \* f_error_nodes of a subtask in the DB
    pending,    \* the subtasks AddTask has created and not pushed yet
    task,       \* UserSessions.tasks and the f_state of a task in the DB
    verdict,    \* history: the subtasks that were ever completed or failed
    node,       \* Nodes.nodes and Node.State
    docker,     \* DockerArray.State of the docker of a node
    match,      \* NodeMatch.tasks
    idle,       \* IdleSlots: the slots in it
    running,    \* RunningSlots: the slots in it, each with its SubID
    gen,        \* sets of slots made for a node so far
    unanswered, \* DockerArray.MeasureSubTasks without an outcome
    bad,        \* nodes with a failed or slow one in MeasureSubTasks
    wake,       \* NodeSlotCh or TaskSlotCh holds a signal
    disp,       \* where each dispatching goroutine is in TaskDispense
    job,        \* the answer or timeout each goroutine is concluding
    off,        \* the node Check is taking off line, its tasks to requeue
    offlineCh,  \* OfflineCh
    linked,     \* the websocket of a node is up
    client,     \* how far a node (ng-client) is with a subtask
    probes,     \* benchmark generations a node has yet to answer
    drops       \* connections lost so far

queueVars == <<pos, processing, state, uuid, errs, timer>>
dbVars    == <<retry, dberrs>>
taskVars  == <<pending, task, verdict>>
nodeVars  == <<node, docker, match>>
slotVars  == <<idle, running, gen>>
probeVars == <<unanswered, bad, probes>>
netVars   == <<offlineCh, linked, client, drops>>
vars == <<queueVars, dbVars, taskVars, nodeVars, slotVars, probeVars, netVars,
          wake, disp, job, off>>

Dispatchers == Tasks \cup {Check}
Agents      == Nodes \cup Subs     \* handler of a node, timer of a subtask

States       == {"New", "Waiting", "Publishing", "Published", "Running",
                 "Completed", "Failed"}
Final        == {"Completed", "Failed"}
NodeStates   == {"Absent", "Connected", "Measuring", "Complete", "Disconnect"}
DockerStates == {"PullCompleted", "StartupCompleted", "StartupSuccess", "Passed", "UnPassed"}
Stages       == {"none", "sent", "queued", "running", "inferred"}

Slot    == [node : Nodes, id : Nat, gen : Nat, probe : Nat]
Holding == [slot : Slot, sub : Subs \cup (Nat \X Nat)]

NotDispensing == [pc |-> "off", left |-> {}, node |-> None, sub |-> None,
                  dead |-> FALSE]
Ready == [pc |-> "ready", sub |-> None, kind |-> "none"]
NoOff == [node |-> None, todo |-> {}]

SubsOf(t)  == {s \in Subs : TaskOf[s] = t}

\* The idle slots of a node: what IdleSlots.CleanSlot drops.
SlotsOf(n) == {x \in idle : x.node = n}
Present(n) == node[n] # "Absent"
InService(n) == node[n] = "Complete" /\ docker[n] = "Passed" /\ linked[n]
CheckFree  == disp[Check].pc = "off" /\ off = NoOff

\* The goroutine of n is free to take a message. It takes none between the
\* last two steps of a dispatch to n, unless that dispatch is preempted.
Handling(n) ==
    /\ Present(n) /\ job[n].pc = "ready"
    /\ \A d \in Dispatchers \ Preempted : ~(disp[d].pc = "mark" /\ disp[d].node = n)

(***************************************************************************)
(* The waiting queue.                                                      *)
(***************************************************************************)
Waiting == {s \in Subs : pos[s] # 0}

\* WaitingSlots.CleanSlot, for every subtask of S: the others move up.
CleanWaiting(S) ==
    [s \in Subs |-> IF s \in S \/ pos[s] = 0 THEN 0
                    ELSE 1 + Cardinality({u \in Waiting \ S : pos[u] < pos[s]})]

\* WaitingSlots.PushSlot without the dispatch and the sort.
AppendWaiting(s) == [pos EXCEPT ![s] = 1 + Cardinality(Waiting)]

\* Mutation: the subtask is cleaned out after it was put at the head.
PushHeadThenClean(s) == CleanWaiting({s})

\* WaitingSlots.PushHead. The Go slice may hold s twice; only its first
\* place counts, because lookups stop there and CleanSlot removes both.
PushHead(s) ==
    [u \in Subs |-> IF u = s THEN 1
                    ELSE IF pos[u] = 0 THEN 0
                    ELSE IF pos[s] # 0 /\ pos[s] < pos[u] THEN pos[u]
                    ELSE pos[u] + 1]

FirstOf(S) == {s \in S : \A u \in S : pos[s] <= pos[u]}

\* What PopSlotFromSystemUUID looks for: the subtasks given to n before.
GivenTo(n) == {s \in Waiting : uuid[s] = n}

\* PopSlotFromSystemUUID, and PopSlot for the workspaces of n: the subtask
\* found, which stays queued; empty when there is none.
PopSlot(n) ==
    IF GivenTo(n) # {} THEN FirstOf(GivenTo(n))
    ELSE FirstOf({s \in Waiting : TaskOf[s] \in Deployed[n] /\ n \notin errs[s]})

(***************************************************************************)
(* The slots.                                                              *)
(***************************************************************************)
Holders(n, s) == {r \in running : r.slot.node = n /\ r.sub = s}

\* RunningSlots.CleanSlot keeps the slots of the node it is called for and
\* drops those of every other node.
CleanRunning(R, n) == {r \in R : r.slot.node = n}

\* Mutation: IdleSlots.PushSlot does not blank the subtask of the slot.
PushIdleLoaded(n, s) ==
    IF Holders(n, s) = {}
    THEN UNCHANGED <<idle, running, wake>>
    ELSE running' = running \ Holders(n, s) /\ idle' = idle \cup Holders(n, s) /\ wake' = TRUE

\* Mutation: RunningSlots.PopSlot returns the slot and keeps it.
PushIdleKept(n, s) ==
    /\ idle' = idle \cup {r.slot : r \in Holders(n, s)}
    /\ wake' = (wake \/ Holders(n, s) # {})
    /\ UNCHANGED running

\* Mutation: IdleSlots.PushSlot does not signal NodeSlotCh.
PushIdleSilent(n, s) ==
    /\ running' = running \ Holders(n, s)
    /\ idle' = idle \cup {r.slot : r \in Holders(n, s)}
    /\ UNCHANGED wake

\* PushIdle(n, s): the slot running s on n becomes idle and wakes Check.
PushIdle(n, s) ==
    IF Holders(n, s) = {}
    THEN UNCHANGED <<idle, running, wake>>
    ELSE \E r \in Holders(n, s) :
            /\ running' = running \ {r}
            /\ idle' = idle \cup {r.slot}
            /\ wake' = TRUE

\* ClearIdle(n, s): the slot running s on n is dropped, with the idle ones.
ClearIdle(n, s) ==
    IF Holders(n, s) = {}
    THEN UNCHANGED <<idle, running>>
    ELSE \E r \in Holders(n, s) :
            /\ running' = running \ {r}
            /\ idle' = idle \ SlotsOf(n)

FreshSlots(n) ==
    {[node |-> n, id |-> i, gen |-> gen[n] + 1, probe |-> 0] : i \in 1..SlotSize[n]}

\* GetPassNodes: the nodes in service for the workflow of s.
PassNodes(nd, dk, s) ==
    {n \in Nodes : nd[n] = "Complete" /\ dk[n] = "Passed" /\ TaskOf[s] \in Deployed[n]}

\* ExistOtherNodes: some node in service differs from some error node of s.
ExistOtherNodes(nd, dk, s) ==
    \E n \in PassNodes(nd, dk, s), e \in errs[s] : n # e

-----------------------------------------------------------------------------
Init ==
    /\ pos = [s \in Subs |-> 0]
    /\ processing = {}
    /\ state = [s \in Subs |-> "New"]
    /\ uuid = [s \in Subs |-> None]
    /\ errs = [s \in Subs |-> {}]
    /\ timer = {}
    /\ retry = [s \in Subs |-> 0]
    /\ dberrs = [s \in Subs |-> {}]
    /\ pending = {}
    /\ task = [t \in Tasks |-> "None"]
    /\ verdict = {}
    /\ node = [n \in Nodes |-> "Absent"]
    /\ docker = [n \in Nodes |-> "PullCompleted"]
    /\ match = [n \in Nodes |-> {}]
    /\ idle = {}
    /\ running = {}
    /\ gen = [n \in Nodes |-> 0]
    /\ unanswered = [n \in Nodes |-> {}]
    /\ bad = {}
    /\ probes = [n \in Nodes |-> {}]
    /\ wake = FALSE
    /\ disp = [d \in Dispatchers |-> NotDispensing]
    /\ job = [a \in Agents |-> Ready]
    /\ off = NoOff
    /\ offlineCh = {}
    /\ linked = [n \in Nodes |-> FALSE]
    /\ client = [n \in Nodes |-> [s \in Subs |-> "none"]]
    /\ drops = 0

(***************************************************************************)
(* A user request: NewTask and AddTask, then PushSlot for each subtask.    *)
(***************************************************************************)
NewTask(t) ==
    /\ task[t] = "None"
    /\ task' = [task EXCEPT ![t] = "Live"]
    /\ pending' = pending \cup SubsOf(t)
    /\ state' = [s \in Subs |-> IF s \in SubsOf(t) THEN "Waiting" ELSE state[s]]
    /\ uuid' = [s \in Subs |-> IF s \in SubsOf(t) THEN Designated[t] ELSE uuid[s]]
    /\ UNCHANGED <<pos, processing, errs, timer, dbVars, verdict, nodeVars, slotVars,
                   probeVars, netVars, wake, disp, job, off>>

\* WaitingSlots.PushSlot, which blanks the node of the subtask.
PushSlot(t) ==
    /\ disp[t].pc = "off"
    /\ \E s \in pending \cap SubsOf(t) :
          /\ pending' = pending \ {s}
          /\ pos' = AppendWaiting(s)
          /\ state' = [state EXCEPT ![s] = "Waiting"]
          /\ uuid' = [uuid EXCEPT ![s] = None]
    /\ disp' = [disp EXCEPT ![t].pc = "snapshot"]
    /\ UNCHANGED <<processing, errs, timer, dbVars, task, verdict, nodeVars, slotVars,
                   probeVars, netVars, wake, job, off>>

(***************************************************************************)
(* TaskDispense, by the request of a task or by Check on a signal.         *)
(***************************************************************************)
\* PopAllWait copies the idle slots; without any the dispatch is over.
PopAllWait == IF idle = {} THEN NotDispensing
              ELSE [NotDispensing EXCEPT !.pc = "pick", !.left = idle]

\* Check takes a signal; there may have been more than one in the channels.
ReceiveSignal ==
    /\ CheckFree /\ wake
    /\ wake' \in BOOLEAN
    /\ disp' = [disp EXCEPT ![Check] = PopAllWait]
    /\ UNCHANGED <<queueVars, dbVars, taskVars, nodeVars, slotVars, probeVars, netVars,
                   job, off>>

\* A request dispatches by itself after each subtask it pushed.
DispenseOwn(t) ==
    /\ disp[t].pc = "snapshot"
    /\ disp' = [disp EXCEPT ![t] = PopAllWait]
    /\ UNCHANGED <<queueVars, dbVars, taskVars, nodeVars, slotVars, probeVars, netVars,
                   wake, job, off>>

\* On to the next slot of the copy.
Continue(rest) == IF rest = {} THEN NotDispensing
                  ELSE [NotDispensing EXCEPT !.pc = "pick", !.left = rest]

\* Mutation: PushRunning uses the copy without looking the slot up.
CopiedSlot(x) == {x}

\* The slots IdleSlots.PopSlot may take for a slot of the copy.
IdleSlot(x) == {y \in idle : y.node = x.node /\ y.id = x.id}

\* The next slot of the copy, in whatever order slotSort left them, and the
\* first subtask it may serve; without one the whole dispatch returns. A node
\* that is gone serves no workspace, or is skipped when it goes just then.
\* PushRunning takes the slot; when another goroutine took it since the copy,
\* the dispatch returns too.
PushRunning(d) ==
    \E x \in disp[d].left :
        LET n    == x.node
            rest == disp[d].left \ {x}
        IN  /\ disp[d].pc = "pick"
            /\ \/ /\ \/ PopSlot(n) = {}
                     \/ Present(n) /\ IdleSlot(x) = {}
                     \/ ~Present(n) /\ GivenTo(n) = {}
                  /\ disp' = [disp EXCEPT ![d] = NotDispensing]
                  /\ UNCHANGED <<idle, running>>
               \/ /\ PopSlot(n) # {} /\ ~Present(n)
                  /\ disp' = [disp EXCEPT ![d] = Continue(rest)]
                  /\ UNCHANGED <<idle, running>>
               \/ /\ Present(n)
                  /\ \E s \in PopSlot(n), y \in IdleSlot(x) :
                        /\ idle' = idle \ {y}
                        /\ running' = running \cup {[slot |-> y, sub |-> s]}
                        /\ disp' = [disp EXCEPT ![d] =
                                      [pc |-> "enqueue", left |-> rest, node |-> n,
                                       sub |-> s, dead |-> FALSE]]
            /\ UNCHANGED <<queueVars, dbVars, taskVars, nodeVars, gen, probeVars, netVars,
                           wake, job, off>>

\* PushProcessing: out of the waiting queue, into the processing one.
PushProcessing(d) ==
    LET s == disp[d].sub
    IN  /\ disp[d].pc = "enqueue"
        /\ pos' = CleanWaiting({s})
        /\ processing' = processing \cup {s}
        /\ state' = [state EXCEPT ![s] = "Running"]
        /\ disp' = [disp EXCEPT ![d].pc = "send"]
        /\ UNCHANGED <<uuid, errs, timer, dbVars, taskVars, nodeVars, slotVars, probeVars,
                       netVars, wake, job, off>>

\* NodeMatch.AddTask, on the node object found by PushRunning: nobody reads
\* the channel of an object that was deleted since, and a message written
\* while the link is down is lost.
AddTask(d) ==
    LET s == disp[d].sub
        n == disp[d].node
    IN  /\ disp[d].pc = "send"
        /\ match' = [match EXCEPT ![n] = IF disp[d].dead THEN @ ELSE @ \cup {s}]
        /\ client' = [client EXCEPT ![n][s] =
                        IF disp[d].dead \/ ~linked[n] THEN @ ELSE "sent"]
        /\ disp' = [disp EXCEPT ![d].pc = "mark"]
        /\ UNCHANGED <<queueVars, dbVars, taskVars, node, docker, slotVars, probeVars,
                       offlineCh, linked, drops, wake, job, off>>

\* The assignments after AddTask, when the node may have answered already.
MarkPublishing(d) ==
    LET s == disp[d].sub
    IN  /\ disp[d].pc = "mark"
        /\ uuid' = [uuid EXCEPT ![s] = disp[d].node]
        /\ state' = [state EXCEPT ![s] = "Publishing"]
        /\ disp' = [disp EXCEPT ![d] = Continue(disp[d].left)]
        /\ UNCHANGED <<pos, processing, errs, timer, dbVars, taskVars, nodeVars, slotVars,
                       probeVars, netVars, wake, job, off>>

(***************************************************************************)
(* Progress messages of a node. None of the handlers compares the sender   *)
(* with the node the subtask was given to.                                 *)
(***************************************************************************)
TaskPublish(n, s) ==
    /\ Handling(n) /\ client[n][s] = "sent"
    /\ client' = [client EXCEPT ![n][s] = "queued"]
    /\ state' = [state EXCEPT ![s] = IF s \in processing THEN "Published" ELSE @]
    /\ UNCHANGED <<pos, processing, uuid, errs, timer, dbVars, taskVars, nodeVars, slotVars,
                   probeVars, offlineCh, linked, drops, wake, disp, job, off>>

\* taskStart restarts the timer, or leaves it stopped without an estimate.
TaskStart(n, s) ==
    /\ Handling(n) /\ client[n][s] = "queued"
    /\ client' = [client EXCEPT ![n][s] = "running"]
    /\ IF s \in processing
       THEN /\ state' = [state EXCEPT ![s] = "Running"]
            /\ timer' \in {timer \ {s}, timer \cup ({s} \cap Timeouts)}
       ELSE UNCHANGED <<state, timer>>
    /\ UNCHANGED <<pos, processing, uuid, errs, dbVars, taskVars, nodeVars, slotVars,
                   probeVars, offlineCh, linked, drops, wake, disp, job, off>>

TaskInferenceCompleted(n, s) ==
    /\ Handling(n) /\ client[n][s] = "running"
    /\ client' = [client EXCEPT ![n][s] = "inferred"]
    /\ timer' = IF s \in processing THEN timer \ {s} ELSE timer
    /\ UNCHANGED <<pos, processing, state, uuid, errs, dbVars, taskVars, nodeVars, slotVars,
                   probeVars, offlineCh, linked, drops, wake, disp, job, off>>

(***************************************************************************)
(* Answers of a node and elapsed estimates. Each is taken in steps: the    *)
(* subtask is looked up and the branch chosen (ReceiveAnswer, Expire), the *)
(* slot and the subtask are dealt with (SettleGood, SettleFailed), then    *)
(* the task is inspected (CheckCompletedTask) and closed (CloseTask).      *)
(***************************************************************************)
Kinds == {"good", "overrun", "badUrls", "failed"}

\* taskCompleted and taskFailed up to the choice of the branch. A completed
\* answer is decided by the state of the docker: disqualified, in service,
\* or (no branch of the code) anything else.
Branch(n, k) ==
    CASE k = "failed" -> "failed"
      [] k # "failed" /\ docker[n] = "UnPassed" -> "unpassed"
      [] k # "failed" /\ docker[n] = "Passed" -> k
      [] OTHER -> "ignored"

ReceiveAnswer(n, s, k) ==
    /\ Handling(n)
    /\ client[n][s] \in (IF k = "failed" THEN Stages \ {"none"} ELSE {"running", "inferred"})
    /\ k = "good" \/ s \in Misbehaving
    /\ client' = [client EXCEPT ![n][s] = "none"]
    /\ IF s \in processing /\ uuid[s] = n
       THEN LET b == Branch(n, k) IN
            /\ timer' = timer \ {s}
            /\ match' = [match EXCEPT ![n] = @ \ {s}]
            /\ job' = [job EXCEPT ![n] = IF b = "ignored" THEN Ready
                                         ELSE [pc |-> "settle", sub |-> s, kind |-> b]]
            /\ IF b \in {"good", "overrun", "badUrls"}
               THEN /\ state' = [state EXCEPT ![s] = "Completed"]
                    /\ verdict' = verdict \cup {s}
               ELSE UNCHANGED <<state, verdict>>
       ELSE UNCHANGED <<timer, match, job, state, verdict>>
    /\ UNCHANGED <<pos, processing, uuid, errs, dbVars, pending, task, node, docker, slotVars,
                   probeVars, offlineCh, linked, drops, wake, disp, off>>

\* The timer of s fires: taskEstimateTimeout up to the lookup.
Expire(s) ==
    /\ s \in timer /\ job[s].pc = "ready"
    /\ timer' = timer \ {s}
    /\ job' = [job EXCEPT ![s] = IF s \in processing
                                 THEN [pc |-> "settle", sub |-> s, kind |-> "timeout"]
                                 ELSE Ready]
    /\ UNCHANGED <<pos, processing, state, uuid, errs, dbVars, taskVars, nodeVars, slotVars,
                   probeVars, netVars, wake, disp, off>>

\* The slot is returned and CompletedSubTask removes the subtask, if it is
\* still in the processing queue.
SettleGood(a) ==
    LET s == job[a].sub
    IN  /\ job[a].pc = "settle" /\ job[a].kind = "good"
        /\ PushIdle(a, s)
        /\ IF s \in processing
           THEN /\ processing' = processing \ {s}
                /\ state' = [state EXCEPT ![s] = "Completed"]
                /\ verdict' = verdict \cup {s}
                /\ job' = [job EXCEPT ![a].pc = "check"]
           ELSE /\ job' = [job EXCEPT ![a] = Ready]
                /\ UNCHANGED <<processing, state, verdict>>
        /\ UNCHANGED <<pos, uuid, errs, timer, dbVars, pending, task, nodeVars, gen,
                       probeVars, netVars, disp, off>>

\* setNodeUnPass for the node that owns the subtask now: its docker is
\* disqualified, in memory and in the DB, and its slots are cleared.
SetNodeUnPass(n, s) ==
    /\ docker' = [x \in Nodes |-> IF x = n THEN "UnPassed" ELSE docker[x]]
    /\ ClearIdle(n, s)

\* SetSubTaskFailed: one more failure of s, on node n, in the DB. The name of
\* the node is blank when s has none at that time.
SetSubTaskFailed(n, s) ==
    /\ retry' = [retry EXCEPT ![s] = IF @ < MaxRetry THEN @ + 1 ELSE @]
    /\ dberrs' = [dberrs EXCEPT ![s] = (IF retry[s] = 0 THEN {} ELSE @) \cup {n}]

\* taskReScheduling: back to the head of the queue while retries and another
\* node are left (the subtask stays in the processing queue too), else
\* FailedSubTask.
CanRetry(s) == retry'[s] < MaxRetry /\ ExistOtherNodes(node, docker', s)

SettleFailed(a) ==
    LET s == job[a].sub
    IN  /\ job[a].pc = "settle" /\ job[a].kind # "good"
        /\ SetNodeUnPass(uuid[s], s)
        /\ SetSubTaskFailed(IF a \in Nodes THEN a ELSE uuid[s], s)
        /\ timer' = timer \ {s}
        /\ errs' = [errs EXCEPT ![s] = dberrs'[s]]
        /\ \/ /\ CanRetry(s)
              /\ state' = [state EXCEPT ![s] = "Waiting"]
              /\ uuid' = [uuid EXCEPT ![s] = None]
              /\ pos' = PushHead(s)
              /\ wake' = TRUE
              /\ job' = [job EXCEPT ![a] = Ready]
              /\ UNCHANGED <<processing, verdict>>
           \/ /\ ~CanRetry(s)
              /\ state' = [state EXCEPT ![s] = "Failed"]
              /\ processing' = processing \ {s}
              /\ verdict' = verdict \cup {s}
              /\ job' = [job EXCEPT ![a].pc = "check"]
              /\ UNCHANGED <<uuid, pos, wake>>
        /\ UNCHANGED <<pending, task, node, match, gen, probeVars, netVars, disp, off>>

\* Mutation: a task is done when none of its subtasks is being processed.
NoneProcessing(t) == task[t] = "Live" /\ SubsOf(t) \cap processing = {}

\* checkCompletedTask: the task is in the list and its subtasks are final.
Done(t) == task[t] = "Live" /\ \A s \in SubsOf(t) : state[s] \in Final

CheckCompletedTask(a) ==
    /\ job[a].pc = "check"
    /\ job' = [job EXCEPT ![a] = IF Done(TaskOf[@.sub]) THEN [@ EXCEPT !.pc = "close"]
                                 ELSE Ready]
    /\ UNCHANGED <<queueVars, dbVars, taskVars, nodeVars, slotVars, probeVars, netVars,
                   wake, disp, off>>

\* checkSortTask, DeleteTask and the outcome written to the DB: that of the
\* subtask that finished last.
CloseTask(a) ==
    LET t == TaskOf[job[a].sub]
    IN  /\ job[a].pc = "close"
        /\ task' = [task EXCEPT ![t] = IF job[a].kind = "good" THEN "Completed" ELSE "Failed"]
        /\ pos' = IF task[t] = "Live" THEN CleanWaiting(SubsOf(t)) ELSE pos
        /\ job' = [job EXCEPT ![a] = Ready]
        /\ UNCHANGED <<processing, state, uuid, errs, timer, dbVars, pending, verdict,
                       nodeVars, slotVars, probeVars, netVars, wake, disp, off>>

(***************************************************************************)
(* The life of a node: enrolment, its docker, its benchmark, its loss.     *)
(***************************************************************************)
\* enroll and OnConnect of a node that Nodes does not hold: AddNode makes
\* slots that nobody pushes, so it is not used before a benchmark.
Enroll(n) ==
    /\ ~Present(n) /\ ~linked[n]
    /\ node' = [node EXCEPT ![n] = "Connected"]
    /\ linked' = [linked EXCEPT ![n] = TRUE]
    /\ UNCHANGED <<queueVars, dbVars, taskVars, docker, match, slotVars, probeVars, offlineCh,
                   client, drops, wake, disp, job, off>>

\* The same while the loss of the old link has not been dealt with.
EnrollAgain(n) ==
    /\ Present(n) /\ ~linked[n]
    /\ node' = [node EXCEPT ![n] = "Connected"]
    /\ linked' = [linked EXCEPT ![n] = TRUE]
    /\ UNCHANGED <<queueVars, dbVars, taskVars, docker, match, slotVars, probeVars, offlineCh,
                   client, drops, wake, disp, job, off>>

\* startupComplete reloads the dockers of the node, which forgets its
\* MeasureSubTasks. A node starts its docker once per connection.
StartupComplete(n) ==
    /\ Handling(n) /\ linked[n] /\ node[n] = "Connected"
    /\ docker[n] # "StartupCompleted"
    /\ docker' = [docker EXCEPT ![n] = "StartupCompleted"]
    /\ unanswered' = [unanswered EXCEPT ![n] = {}]
    /\ bad' = bad \ {n}
    /\ UNCHANGED <<queueVars, dbVars, taskVars, node, match, slotVars, probes, netVars, wake,
                   disp, job, off>>

\* sendMeasure: every slot of the node is set aside for the benchmark.
SendMeasure(n) ==
    LET g == gen[n] + 1
        batch == {<<g, i>> : i \in 1..MeasureCount}
    IN  /\ g <= MaxGen
        /\ gen' = [gen EXCEPT ![n] = g]
        /\ idle' = idle \ SlotsOf(n)
        /\ running' = CleanRunning(running, n) \cup
              {[slot |-> [node |-> n, id |-> 1, gen |-> g, probe |-> p[2]], sub |-> p] :
                  p \in batch}
        /\ unanswered' = [unanswered EXCEPT ![n] = @ \cup batch]
        /\ probes' = [probes EXCEPT ![n] = IF linked[n] THEN @ \cup batch ELSE @]
        /\ node' = [node EXCEPT ![n] = "Measuring"]
        /\ UNCHANGED bad

ComfyUIStartupSuccess(n) ==
    /\ Handling(n) /\ linked[n] /\ docker[n] = "StartupCompleted"
    /\ docker' = [docker EXCEPT ![n] = "StartupSuccess"]
    /\ SendMeasure(n)
    /\ UNCHANGED <<queueVars, dbVars, taskVars, match, netVars, wake, disp, job, off>>

\* fullyIdleNodes, unPassed and unExpired; how long ago the last benchmark
\* was is not modelled.
Remeasurable(n) ==
    /\ node[n] \in {"Connected", "Measuring", "Complete"}
    /\ match[n] = {}
    /\ docker[n] \in {"UnPassed", "StartupSuccess"}

\* measureNodes, on Check.
MeasureNode(n) ==
    /\ CheckFree /\ n \in Remeasured /\ Remeasurable(n)
    /\ SendMeasure(n)
    /\ UNCHANGED <<queueVars, dbVars, taskVars, docker, match, netVars, wake, disp, job, off>>

\* SetMeasureUnPassed and setMeasureNodeUnPass after generation p.
SetMeasureUnPassed(n, p) ==
    /\ node' = [node EXCEPT ![n] = "Complete"]
    /\ docker' = [docker EXCEPT ![n] = "UnPassed"]
    /\ idle' = idle \ SlotsOf(n)
    /\ running' = CleanRunning(running, n) \ Holders(n, p)
    /\ UNCHANGED <<gen, wake>>

\* setMeasureNodePass and SetMeasureCompletion: a new set of slots.
SetMeasureCompletion(n, p) ==
    /\ gen[n] < MaxGen
    /\ node' = [node EXCEPT ![n] = "Complete"]
    /\ docker' = [docker EXCEPT ![n] = "Passed"]
    /\ gen' = [gen EXCEPT ![n] = @ + 1]
    /\ idle' = (idle \ SlotsOf(n)) \cup FreshSlots(n)
    /\ running' = CleanRunning(running, n) \ Holders(n, p)
    /\ wake' = TRUE

\* measureFailed disqualifies at once, and leaves the generation without an
\* outcome in MeasureSubTasks.
MeasureFailed(n) ==
    /\ Handling(n)
    /\ \E p \in probes[n] :
          /\ probes' = [probes EXCEPT ![n] = @ \ {p}]
          /\ SetMeasureUnPassed(n, p)
    /\ match' = [match EXCEPT ![n] = {}]
    /\ UNCHANGED <<queueVars, dbVars, taskVars, unanswered, bad, netVars, disp, job, off>>

\* measureComplete: the last outcome of MeasureSubTasks decides, and only
\* the first generation of a benchmark may fail or be slow; before the last
\* the slot of the generation becomes idle.
MeasureComplete(n) ==
    /\ Handling(n)
    /\ \E p \in probes[n], ok \in BOOLEAN :
          /\ probes' = [probes EXCEPT ![n] = @ \ {p}]
          /\ unanswered' = [unanswered EXCEPT ![n] = @ \ {p}]
          /\ bad' = IF ~ok /\ p \in unanswered[n] /\ p[2] # 1 THEN bad \cup {n} ELSE bad
          /\ \/ /\ unanswered[n] \ {p} # {}
                /\ PushIdle(n, p)
                /\ UNCHANGED <<node, docker, gen>>
             \/ /\ unanswered[n] \ {p} = {} /\ n \in bad'
                /\ SetMeasureUnPassed(n, p)
             \/ /\ unanswered[n] \ {p} = {} /\ n \notin bad'
                /\ SetMeasureCompletion(n, p)
    /\ match' = [match EXCEPT ![n] = {}]
    /\ UNCHANGED <<queueVars, dbVars, taskVars, netVars, disp, job, off>>

\* The unPass request of an operator.
UnPass(n) ==
    /\ Present(n) /\ n \in Operated
    /\ docker' = [docker EXCEPT ![n] = "UnPassed"]
    /\ idle' = idle \ SlotsOf(n)
    /\ running' = CleanRunning(running, n)
    /\ match' = [match EXCEPT ![n] = {}]
    /\ UNCHANGED <<queueVars, dbVars, taskVars, node, gen, probeVars, netVars, wake, disp,
                   job, off>>

\* The link breaks. The answers of the node that have reached the cloud are
\* still handled, the rest of its work is lost: ng-client stops its dockers.
Disconnect(n) ==
    /\ linked[n] /\ drops < MaxDrops
    /\ drops' = drops + 1
    /\ linked' = [linked EXCEPT ![n] = FALSE]
    /\ offlineCh' = offlineCh \cup {n}
    /\ \E kept \in SUBSET {s \in Subs : client[n][s] # "none"} :
          client' = [client EXCEPT ![n] = [s \in Subs |-> IF s \in kept THEN @[s] ELSE "none"]]
    /\ probes' \in {probes, [probes EXCEPT ![n] = {}]}
    /\ UNCHANGED <<queueVars, dbVars, taskVars, nodeVars, slotVars, unanswered, bad, wake,
                   disp, job, off>>

\* OfflineCh is read: DelNode closes the link the node has now, whose end is
\* another event, and takes a copy of the tasks of the node.
OfflineNode(n) ==
    /\ CheckFree /\ n \in offlineCh
    /\ IF Present(n)
       THEN /\ node' = [node EXCEPT ![n] = "Disconnect"]
            /\ linked' = [linked EXCEPT ![n] = FALSE]
            /\ offlineCh' = IF linked[n] THEN offlineCh ELSE offlineCh \ {n}
            /\ off' = [node |-> n, todo |-> match[n]]
       ELSE /\ offlineCh' = offlineCh \ {n}
            /\ UNCHANGED <<node, linked, off>>
    /\ UNCHANGED <<queueVars, dbVars, taskVars, docker, match, slotVars, probeVars, client,
                   drops, wake, disp, job>>

\* Mutation: the loop runs over the tasks of the node, not over the copy.
MatchNow(s) == match[off.node]

\* What is left of the copy after s.
Rest(s) == off.todo \ {s}

\* DeleteProcessing and PushWaitHead for a task of the copy.
RequeueTask ==
    /\ \E s \in off.todo :
          /\ off' = [off EXCEPT !.todo = Rest(s)]
          /\ processing' = processing \ {s}
          /\ pos' = PushHead(s)
          /\ state' = [state EXCEPT ![s] = "Waiting"]
          /\ uuid' = [uuid EXCEPT ![s] = None]
    /\ wake' = TRUE
    /\ UNCHANGED <<errs, timer, dbVars, taskVars, nodeVars, slotVars, probeVars, netVars,
                   disp, job>>

\* Mutation: CloseCh with a buffer, which nobody waits for.
NoRendezvous(n) == TRUE

\* CloseCh is a rendezvous: the goroutine of the node ends between two messages.
Closable(n) == job[n].pc = "ready"

\* The goroutine of the node ends, its slots are cleaned, it is deleted.
DelNode ==
    LET n == off.node
    IN  /\ n # None /\ off.todo = {} /\ Closable(n)
        /\ idle' = idle \ SlotsOf(n)
        /\ running' = CleanRunning(running, n)
        /\ node' = [node EXCEPT ![n] = "Absent"]
        /\ match' = [match EXCEPT ![n] = {}]
        /\ unanswered' = [unanswered EXCEPT ![n] = {}]
        /\ bad' = bad \ {n}
        /\ probes' = [probes EXCEPT ![n] = {}]
        /\ client' = [client EXCEPT ![n] = [s \in Subs |-> "none"]]
        /\ disp' = [d \in Dispatchers |->
                      IF disp[d].pc \in {"enqueue", "send"} /\ disp[d].node = n
                      THEN [disp[d] EXCEPT !.dead = TRUE] ELSE disp[d]]
        /\ off' = NoOff
        /\ UNCHANGED <<queueVars, dbVars, taskVars, docker, gen, offlineCh, linked, drops,
                       wake, job>>

-----------------------------------------------------------------------------
Request(t) == NewTask(t) \/ PushSlot(t) \/ DispenseOwn(t)

Dispense(d) == PushRunning(d) \/ PushProcessing(d) \/ AddTask(d) \/ MarkPublishing(d)

Progress(n, s) == TaskPublish(n, s) \/ TaskStart(n, s) \/ TaskInferenceCompleted(n, s)

Conclude(a) == SettleGood(a) \/ SettleFailed(a) \/ CheckCompletedTask(a) \/ CloseTask(a)

Lifecycle(n) == Enroll(n) \/ EnrollAgain(n) \/ StartupComplete(n) \/ ComfyUIStartupSuccess(n)
                \/ MeasureNode(n) \/ MeasureFailed(n) \/ MeasureComplete(n) \/ UnPass(n)
                \/ Disconnect(n) \/ OfflineNode(n)

Next ==
    \/ \E t \in Tasks : Request(t)
    \/ ReceiveSignal
    \/ \E d \in Dispatchers : Dispense(d)
    \/ \E n \in Nodes, s \in Subs : Progress(n, s)
    \/ \E n \in Nodes, s \in Subs, k \in Kinds : ReceiveAnswer(n, s, k)
    \/ \E s \in Subs : Expire(s)
    \/ \E a \in Agents : Conclude(a)
    \/ \E n \in Nodes : Lifecycle(n)
    \/ RequeueTask
    \/ DelNode

Spec == Init /\ [][Next]_vars

(***************************************************************************)
(* Properties.                                                             *)
(***************************************************************************)
QueueTypeOK ==
    /\ pos \in [Subs -> Nat]
    /\ processing \subseteq Subs
    /\ state \in [Subs -> States]
    /\ uuid \in [Subs -> Nodes \cup {None}]
    /\ errs \in [Subs -> SUBSET (Nodes \cup {None})]
    /\ timer \subseteq Subs

TaskTypeOK ==
    /\ pending \subseteq Subs
    /\ task \in [Tasks -> {"None", "Live", "Completed", "Failed"}]
    /\ verdict \subseteq Subs
    /\ retry \in [Subs -> 0..MaxRetry]
    /\ dberrs \in [Subs -> SUBSET (Nodes \cup {None})]

NodeTypeOK ==
    /\ node \in [Nodes -> NodeStates]
    /\ docker \in [Nodes -> DockerStates]
    /\ match \in [Nodes -> SUBSET Subs]
    /\ unanswered \in [Nodes -> SUBSET (Nat \X Nat)]
    /\ bad \subseteq Nodes
    /\ probes \in [Nodes -> SUBSET (Nat \X Nat)]

SlotTypeOK ==
    /\ idle \subseteq Slot
    /\ running \subseteq Holding
    /\ gen \in [Nodes -> Nat]

NetTypeOK ==
    /\ offlineCh \subseteq Nodes
    /\ linked \in [Nodes -> BOOLEAN]
    /\ client \in [Nodes -> [Subs -> Stages]]
    /\ drops \in Nat

Dispatching == [pc : {"off", "snapshot", "pick", "enqueue", "send", "mark"},
                left : SUBSET Slot, node : Nodes \cup {None},
                sub : Subs \cup {None}, dead : BOOLEAN]
Concluding  == [pc : {"ready", "settle", "check", "close"}, sub : Subs \cup {None},
                kind : Kinds \cup {"unpassed", "timeout", "none"}]

HandTypeOK ==
    /\ wake \in BOOLEAN
    /\ disp \in [Dispatchers -> Dispatching]
    /\ job \in [Agents -> Concluding]
    /\ off \in [node : Nodes \cup {None}, todo : SUBSET Subs]

\* What every variable may hold.
TypeOK == QueueTypeOK /\ TaskTypeOK /\ NodeTypeOK /\ SlotTypeOK /\ NetTypeOK /\ HandTypeOK

\* A subtask of an unfinished task that was never completed or failed is
\* somewhere it will be found again: in the hands of the request that created
\* it, in the waiting queue or in the processing one.
Tracked ==
    \A s \in Subs : task[TaskOf[s]] = "Live" /\ s \notin verdict
                    => s \in pending \cup Waiting \cup processing

\* One slot never serves two subtasks, and is never idle while it serves one.
SlotExclusive ==
    /\ \A r1, r2 \in running : r1.slot = r2.slot => r1 = r2
    /\ \A r \in running : r.slot \notin idle

\* A slot is only offered while its node is registered.
IdlePresent == \A x \in idle : Present(x.node)

\* A task is closed only after each of its subtasks was completed or failed.
ClosedAfterVerdicts ==
    [][\A t \in Tasks : task'[t] \in Final /\ task'[t] # task[t] => SubsOf(t) \subseteq verdict]_vars

(***************************************************************************)
(* Progress. The goroutines of the cloud run; a node in touch starts its   *)
(* docker, answers its benchmark and the subtasks it holds. OfflineNode is *)
(* strongly fair: Check selects among its channels at random, so signals   *)
(* that keep coming do not keep it from OfflineCh for ever.                *)
(***************************************************************************)
Fairness ==
    /\ \A t \in Tasks : WF_vars(PushSlot(t)) /\ WF_vars(DispenseOwn(t))
    /\ WF_vars(ReceiveSignal)
    /\ \A d \in Dispatchers : WF_vars(Dispense(d))
    /\ \A n \in Nodes, s \in Subs :
          WF_vars(Progress(n, s)) /\ WF_vars(\E k \in Kinds : ReceiveAnswer(n, s, k))
    /\ \A a \in Agents : WF_vars(Conclude(a))
    /\ \A n \in Nodes : /\ WF_vars(Enroll(n)) /\ WF_vars(StartupComplete(n))
                        /\ WF_vars(ComfyUIStartupSuccess(n)) /\ WF_vars(MeasureComplete(n))
                        /\ SF_vars(OfflineNode(n))
    /\ WF_vars(RequeueTask) /\ WF_vars(DelNode)

LiveSpec == Spec /\ Fairness

\* While a node stays in service, every task that was accepted is eventually
\* closed: no wake-up is lost between the queues and the dispatches.
TasksClose ==
    <>[](\E n \in Nodes : InService(n))
    => \A t \in Tasks : task[t] = "Live" ~> task[t] \in Final

\* Check always comes back to its channels: no dispatch runs on, and no node
\* keeps the goroutine that takes it off line waiting.
CheckReturns == ~CheckFree ~> CheckFree

(***************************************************************************)
(* What the README promises and the code does not do.                      *)
(***************************************************************************)
\* A subtask is given up only when its retries are used up or no other node
\* is in service for it.
Redirected ==
    [][\A s \in Subs :
          state[s] # "Failed" /\ state'[s] = "Failed"
          => \/ retry'[s] = MaxRetry
             \/ PassNodes(node', docker', s) \subseteq dberrs'[s]]_vars
=============================================================================
