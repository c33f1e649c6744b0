------------------------------ MODULE Recovery ------------------------------
(***************************************************************************)
(* What ng-cloud writes to MySQL about tasks and subtasks, and what a      *)
(* restart makes of it. The memory of the cloud is lost at a crash; the    *)
(* rows stay, and so does the work the nodes hold. Every write is a step   *)
(* of its own, so that a crash or another handler may come before it.      *)
(*                                                                         *)
(* Slots, links, benchmarks and the choice of a subtask are in Scheduler:  *)
(* here a dispatch is one step, and the state a node's docker is in when   *)
(* an answer arrives may be any.                                           *)
(***************************************************************************)
EXTENDS Naturals, FiniteSets

CONSTANTS
    Nodes,      \* the nodes, in touch whenever the cloud runs
    Tasks,      \* the tasks users ask for
    Subs,       \* their subtasks
    TaskOf,     \* the task of a subtask
    None,       \* no node
    Timeouts,   \* subtasks whose estimate may elapse
    Deletable,  \* tasks whose user may delete them
    MaxRetry,   \* AITask.MaxRetryCount
    MaxCrash    \* bound: crashes of the cloud

ASSUME RecoveryAssumption ==
    /\ TaskOf \in [Subs -> Tasks]
    /\ Timeouts \subseteq Subs /\ Deletable \subseteq Tasks
    /\ MaxRetry \in Nat /\ MaxCrash \in Nat
    /\ None \notin Nodes
    /\ Nodes \cap Subs = {}

SubsOf(t) == {s \in Subs : TaskOf[s] = t}

VARIABLES
    job,        \* t_jobs.f_state: the recorded state of a task
    started,    \* tasks with a t_jobs.f_start_time
    deleted,    \* tasks with t_jobs.f_delete = 1
    row,        \* t_sub_jobs.f_state: the recorded state of a subtask
    retry,      \* t_sub_jobs.f_retry_count
    dberrs,     \* t_sub_jobs.f_error_nodes
    up,         \* the cloud runs
    tasks,      \* UserSessions.tasks
    todo,       \* subtasks of AddTask that were not queued yet
    insert,     \* subtasks of AddTask that were queued, without a row yet
    waiting,    \* WaitingSlots
    processing, \* ProcessingSlots
    state,      \* TaskSlot.State; "None" without a TaskSlot
    uuid,       \* TaskSlot.SystemUUID
    errs,       \* TaskSlot.ErrorNodes
    timer,      \* subtasks whose TaskSlot.EstimateTime runs
    act,        \* what the goroutine of a node or of a timer is doing
    client,     \* what a node holds: subtasks sent to it and started by it
    verdict,    \* history: subtasks completed, or failed once or more
    crashes     \* crashes so far

dbVars   == <<job, started, deleted, row, retry, dberrs>>
memVars  == <<tasks, todo, insert, waiting, processing, state, uuid, errs, timer, act>>
restVars == <<up, client, verdict, crashes>>
vars     == <<dbVars, memVars, restVars>>

Agents == Nodes \cup Subs
Final  == {"Completed", "Failed"}
Ready  == [pc |-> "ready", sub |-> None, kind |-> "none"]

\* Goroutine a of the running cloud is about to take the step pc.
At(a, pc) == up /\ act[a].pc = pc

\* Mutation: a task whose execution began is not read again.
NotStarted == {t \in Tasks : job[t] = "Create" /\ t \notin deleted}

\* Tasks that LoadHistoryTasks reads: neither completed, failed nor deleted.
Unfinished == {t \in Tasks : job[t] \in {"Create", "Dealing"} /\ t \notin deleted}

\* Mutation: a subtask that was published already is not read again.
NeverPublished(S) == {s \in S : row[s] = "Create"}

\* Subtasks of S that it reads: those with a row that is not final.
Open(S) == {s \in S : row[s] \in {"Create", "Publish", "Dealing"}}

\* Mutation: the state of the TaskSlot is written for that of the row.
UpdateFromSlot(s, value) == [row EXCEPT ![s] = IF @ = "None" THEN @ ELSE state[s]]

\* An update of a row: it changes nothing when there is no such row.
Update(s, value) == [row EXCEPT ![s] = IF @ = "None" THEN @ ELSE value]

-----------------------------------------------------------------------------
Init ==
    /\ job = [t \in Tasks |-> "None"]
    /\ started = {} /\ deleted = {}
    /\ row = [s \in Subs |-> "None"]
    /\ retry = [s \in Subs |-> 0]
    /\ dberrs = [s \in Subs |-> {}]
    /\ up = TRUE
    /\ tasks = {} /\ todo = {} /\ insert = {} /\ waiting = {} /\ processing = {}
    /\ state = [s \in Subs |-> "None"]
    /\ uuid = [s \in Subs |-> None]
    /\ errs = [s \in Subs |-> {}]
    /\ timer = {}
    /\ act = [a \in Agents |-> Ready]
    /\ client = [n \in Nodes |-> [s \in Subs |-> "none"]]
    /\ verdict = {}
    /\ crashes = 0

(***************************************************************************)
(* A request. NewTask writes the row of the task and makes the subtasks;   *)
(* each is queued before its own row is written.                           *)
(***************************************************************************)
InsertMainTask(t) == job' = [job EXCEPT ![t] = "Create"]

NewTask(t) ==
    /\ up /\ job[t] = "None"
    /\ InsertMainTask(t)
    /\ tasks' = tasks \cup {t}
    /\ todo' = todo \cup SubsOf(t)
    /\ state' = [s \in Subs |-> IF s \in SubsOf(t) THEN "Waiting" ELSE state[s]]
    /\ UNCHANGED <<started, deleted, row, retry, dberrs, insert, waiting, processing, uuid,
                   errs, timer, act, restVars>>

PushSlot(s) ==
    /\ up /\ s \in todo
    /\ insert \cap SubsOf(TaskOf[s]) = {}
    /\ todo' = todo \ {s}
    /\ insert' = insert \cup {s}
    /\ waiting' = waiting \cup {s}
    /\ state' = [state EXCEPT ![s] = "Waiting"]
    /\ uuid' = [uuid EXCEPT ![s] = None]
    /\ UNCHANGED <<dbVars, tasks, processing, errs, timer, act, restVars>>

InsertSubTask(s) ==
    /\ up /\ s \in insert
    /\ insert' = insert \ {s}
    /\ row' = [row EXCEPT ![s] = "Create"]
    /\ UNCHANGED <<job, started, deleted, retry, dberrs, tasks, todo, waiting, processing,
                   state, uuid, errs, timer, act, restVars>>

\* The row of the task is joined with those of its subtasks: without any
\* nothing is marked.
SetSubTaskDelete(t) ==
    deleted' = IF \E s \in SubsOf(t) : row[s] # "None" THEN deleted \cup {t} ELSE deleted

\* userTaskDelete, after the request was answered.
DeleteTask(t) ==
    /\ up /\ t \in tasks \cap Deletable
    /\ SubsOf(t) \cap (todo \cup insert) = {}
    /\ tasks' = tasks \ {t}
    /\ waiting' = waiting \ SubsOf(t)
    /\ SetSubTaskDelete(t)
    /\ UNCHANGED <<job, started, row, retry, dberrs, todo, insert, processing, state, uuid,
                   errs, timer, act, restVars>>

(***************************************************************************)
(* Dispatch and progress of a subtask.                                     *)
(***************************************************************************)
\* PushProcessing and AddTask. SetPublishTime changes nothing: the row of the
\* task has a publish time from its insertion on.
PushProcessing(n, s) ==
    /\ up /\ s \in waiting /\ n \notin errs[s]
    /\ waiting' = waiting \ {s}
    /\ processing' = processing \cup {s}
    /\ row' = Update(s, "Publish")
    /\ client' = [client EXCEPT ![n][s] = "sent"]
    /\ uuid' = [uuid EXCEPT ![s] = n]
    /\ state' = [state EXCEPT ![s] = "Publishing"]
    /\ UNCHANGED <<job, started, deleted, retry, dberrs, tasks, todo, insert, errs, timer,
                   act, up, verdict, crashes>>

\* taskPublish and taskStart do not ask whether n is the node of s.
TaskPublish(n, s) ==
    /\ At(n, "ready") /\ client[n][s] = "sent"
    /\ client' = [client EXCEPT ![n][s] = "queued"]
    /\ IF s \in processing
       THEN state' = [state EXCEPT ![s] = "Published"] /\ row' = Update(s, "Publish")
       ELSE UNCHANGED <<state, row>>
    /\ UNCHANGED <<job, started, deleted, retry, dberrs, tasks, todo, insert, waiting,
                   processing, uuid, errs, timer, act, up, verdict, crashes>>

\* Only a task without start time is marked.
SetStartTime(t) ==
    /\ job' = [job EXCEPT ![t] = IF t \in started THEN @ ELSE "Dealing"]
    /\ started' = started \cup {t}

TaskStart(n, s) ==
    /\ At(n, "ready") /\ client[n][s] = "queued"
    /\ client' = [client EXCEPT ![n][s] = "started"]
    /\ IF s \in processing
       THEN /\ state' = [state EXCEPT ![s] = "Running"]
            /\ timer' \in {timer \ {s}, timer \cup ({s} \cap Timeouts)}
            /\ SetStartTime(TaskOf[s])
            /\ row' = Update(s, "Dealing")
       ELSE UNCHANGED <<state, timer, job, started, row>>
    /\ UNCHANGED <<deleted, retry, dberrs, tasks, todo, insert, waiting, processing, uuid,
                   errs, act, up, verdict, crashes>>

(***************************************************************************)
(* The end of a subtask: by an answer of its node, or by its timer.        *)
(***************************************************************************)
Begin(s, pc, kind) == [pc |-> pc, sub |-> s, kind |-> kind]

\* What taskCompleted and taskFailed do: nothing while a benchmark of the node
\* goes on, a failure when it was disqualified.
Outcomes(s, k) ==
    IF k = "failed" THEN {Begin(s, "failed", "failed")}
    ELSE {Ready, Begin(s, "failed", "failed"), Begin(s, "result", k)}

ReceiveAnswer(n, s, k) ==
    /\ At(n, "ready")
    /\ client[n][s] \in (IF k = "failed" THEN {"sent", "queued", "started"} ELSE {"started"})
    /\ client' = [client EXCEPT ![n][s] = "none"]
    /\ IF s \in processing /\ uuid[s] = n
       THEN \E o \in Outcomes(s, k) :
               /\ timer' = timer \ {s}
               /\ act' = [act EXCEPT ![n] = o]
               /\ IF o.pc = "result"
                  THEN /\ state' = [state EXCEPT ![s] = "Completed"]
                       /\ verdict' = verdict \cup {s}
                  ELSE UNCHANGED <<state, verdict>>
       ELSE UNCHANGED <<timer, act, state, verdict>>
    /\ UNCHANGED <<dbVars, tasks, todo, insert, waiting, processing, uuid, errs, up, crashes>>

\* taskEstimateTimeout.
Expire(s) ==
    /\ At(s, "ready") /\ s \in timer
    /\ timer' = timer \ {s}
    /\ act' = [act EXCEPT ![s] = IF s \in processing THEN Begin(s, "failed", "failed") ELSE @]
    /\ UNCHANGED <<dbVars, tasks, todo, insert, waiting, processing, state, uuid, errs,
                   restVars>>

\* An answer that came too late, or without its images, is stored as a result
\* and then as a failure.
SubTaskResult(a) ==
    /\ At(a, "result")
    /\ row' = Update(act[a].sub, "Completed")
    /\ act' = [act EXCEPT ![a].pc = IF act[a].kind = "good" THEN "complete" ELSE "failed"]
    /\ UNCHANGED <<job, started, deleted, retry, dberrs, tasks, todo, insert, waiting,
                   processing, state, uuid, errs, timer, restVars>>

\* SetSubTaskFailed. Without a row it writes nothing.
SetSubTaskFailed(a) ==
    LET s == act[a].sub
        n == IF a \in Nodes THEN a ELSE uuid[s]
    IN  /\ At(a, "failed")
        /\ row' = Update(s, "Failed")
        /\ IF row[s] # "None"
           THEN /\ retry' = [retry EXCEPT ![s] = IF @ < MaxRetry THEN @ + 1 ELSE @]
                /\ dberrs' = [dberrs EXCEPT ![s] = (IF retry[s] = 0 THEN {} ELSE @) \cup {n}]
           ELSE UNCHANGED <<retry, dberrs>>
        /\ verdict' = verdict \cup {s}
        /\ act' = [act EXCEPT ![a].pc = "reschedule"]
        /\ UNCHANGED <<job, started, deleted, tasks, todo, insert, waiting, processing, state,
                       uuid, errs, timer, up, client, crashes>>

\* ExistOtherNodes, with any nodes in service, asks the error nodes s had
\* before its last failure.
MayRetry(s) == /\ row[s] # "None" /\ retry[s] < MaxRetry
               /\ \E n \in Nodes, e \in errs[s] : n # e

\* What is split at the commas of f_error_nodes: of nothing, one empty name.
Splits(s) == IF dberrs[s] = {} THEN {None} ELSE dberrs[s]

\* taskReScheduling, with a retry: the row stays failed until s is published.
PushWaitHead(a) ==
    LET s == act[a].sub
    IN  /\ At(a, "reschedule") /\ MayRetry(s)
        /\ errs' = [errs EXCEPT ![s] = Splits(s)]
        /\ waiting' = waiting \cup {s}
        /\ state' = [state EXCEPT ![s] = "Waiting"]
        /\ uuid' = [uuid EXCEPT ![s] = None]
        /\ act' = [act EXCEPT ![a] = Ready]
        /\ UNCHANGED <<dbVars, tasks, todo, insert, processing, timer, restVars>>

\* taskReScheduling, without: the nodes in service need not be others.
FailedSubTask(a) ==
    LET s == act[a].sub
    IN  /\ At(a, "reschedule")
        /\ errs' = [errs EXCEPT ![s] = Splits(s)]
        /\ processing' = processing \ {s}
        /\ state' = [state EXCEPT ![s] = "Failed"]
        /\ act' = [act EXCEPT ![a].pc = "check"]
        /\ UNCHANGED <<dbVars, tasks, todo, insert, waiting, uuid, timer, restVars>>

CompletedSubTask(a) ==
    LET s == act[a].sub
    IN  /\ At(a, "complete")
        /\ IF s \in processing
           THEN /\ processing' = processing \ {s}
                /\ state' = [state EXCEPT ![s] = "Completed"]
                /\ act' = [act EXCEPT ![a].pc = "check"]
           ELSE /\ act' = [act EXCEPT ![a] = Ready]
                /\ UNCHANGED <<processing, state>>
        /\ UNCHANGED <<dbVars, tasks, todo, insert, waiting, uuid, errs, timer, restVars>>

\* Mutation: subtasks that wait for a node are not looked at.
NoneRuns(t) == t \in tasks /\ \A s \in SubsOf(t) : state[s] \in Final \cup {"None", "Waiting"}

\* The task is in the list and every subtask it has in memory is final.
Done(t) == t \in tasks /\ \A s \in SubsOf(t) : state[s] \in Final \cup {"None"}

CheckCompletedTask(a) ==
    /\ At(a, "check")
    /\ act' = [act EXCEPT ![a] = IF Done(TaskOf[@.sub]) THEN [@ EXCEPT !.pc = "close"] ELSE Ready]
    /\ UNCHANGED <<dbVars, tasks, todo, insert, waiting, processing, state, uuid, errs, timer,
                   restVars>>

\* checkSortTask takes the task off the list, and waiting subtasks with it.
CloseTask(a) ==
    LET t == TaskOf[act[a].sub]
    IN  /\ At(a, "close")
        /\ tasks' = tasks \ {t}
        /\ waiting' = IF t \in tasks THEN waiting \ SubsOf(t) ELSE waiting
        /\ act' = [act EXCEPT ![a].pc = "outcome"]
        /\ UNCHANGED <<dbVars, todo, insert, processing, state, uuid, errs, timer, restVars>>

\* SetTaskResult or SetTaskFailedResult, by the subtask that ended last.
SetTaskResult(a) ==
    /\ At(a, "outcome")
    /\ job' = [job EXCEPT ![TaskOf[act[a].sub]] =
                  IF act[a].kind = "good" THEN "Completed" ELSE "Failed"]
    /\ act' = [act EXCEPT ![a] = Ready]
    /\ UNCHANGED <<started, deleted, row, retry, dberrs, tasks, todo, insert, waiting,
                   processing, state, uuid, errs, timer, restVars>>

(***************************************************************************)
(* Crash and restart.                                                      *)
(***************************************************************************)
Crash ==
    /\ up /\ crashes < MaxCrash
    /\ up' = FALSE /\ crashes' = crashes + 1
    /\ tasks' = {} /\ todo' = {} /\ insert' = {} /\ waiting' = {} /\ processing' = {}
    /\ state' = [s \in Subs |-> "None"]
    /\ uuid' = [s \in Subs |-> None]
    /\ errs' = [s \in Subs |-> {}]
    /\ timer' = {}
    /\ act' = [a \in Agents |-> Ready]
    /\ UNCHANGED <<dbVars, client, verdict>>

\* A node may lose what it holds, or its answer, while the cloud is down.
Forget(n, s) ==
    /\ ~up /\ client[n][s] # "none"
    /\ client' = [client EXCEPT ![n][s] = "none"]
    /\ UNCHANGED <<dbVars, memVars, up, verdict, crashes>>

\* The subtasks of the unfinished tasks.
LoadHistoryTasks == UNION {Open(SubsOf(t)) : t \in Unfinished}

\* The tasks are listed and their subtasks queued. The failed nodes that were
\* read with a subtask are not used.
NewTaskFromDB ==
    /\ tasks' = Unfinished
    /\ waiting' = LoadHistoryTasks
    /\ state' = [s \in Subs |-> IF s \in LoadHistoryTasks THEN "Waiting" ELSE "None"]

\* loadHistory reads all rows before it makes the tasks.
LoadHistory ==
    /\ ~up /\ up' = TRUE
    /\ NewTaskFromDB
    /\ UNCHANGED <<dbVars, todo, insert, processing, uuid, errs, timer, act, client,
                   verdict, crashes>>

-----------------------------------------------------------------------------
Conclude(a) ==
    \/ SubTaskResult(a) \/ SetSubTaskFailed(a)
    \/ PushWaitHead(a) \/ FailedSubTask(a) \/ CompletedSubTask(a)
    \/ CheckCompletedTask(a) \/ CloseTask(a) \/ SetTaskResult(a)

Next ==
    \/ \E t \in Tasks : NewTask(t) \/ DeleteTask(t)
    \/ \E s \in Subs : PushSlot(s) \/ InsertSubTask(s) \/ Expire(s)
    \/ \E n \in Nodes, s \in Subs :
          \/ PushProcessing(n, s) \/ TaskPublish(n, s) \/ TaskStart(n, s) \/ Forget(n, s)
          \/ \E k \in {"good", "overrun", "failed"} : ReceiveAnswer(n, s, k)
    \/ \E a \in Agents : Conclude(a)
    \/ Crash \/ LoadHistory

Spec == Init /\ [][Next]_vars

(***************************************************************************)
(* Properties.                                                             *)
(***************************************************************************)
DBTypeOK ==
    /\ job \in [Tasks -> {"None", "Create", "Dealing"} \cup Final]
    /\ started \subseteq Tasks /\ deleted \subseteq Tasks
    /\ row \in [Subs -> {"None", "Create", "Publish", "Dealing"} \cup Final]
    /\ retry \in [Subs -> 0..MaxRetry]
    /\ dberrs \in [Subs -> SUBSET (Nodes \cup {None})]

MemoryTypeOK ==
    /\ tasks \subseteq Tasks
    /\ todo \subseteq Subs /\ insert \subseteq Subs
    /\ waiting \subseteq Subs /\ processing \subseteq Subs
    /\ state \in [Subs -> {"None", "Waiting", "Publishing", "Published", "Running"} \cup Final]
    /\ uuid \in [Subs -> Nodes \cup {None}]
    /\ errs \in [Subs -> SUBSET (Nodes \cup {None})]
    /\ timer \subseteq Subs

ActTypeOK ==
    act \in [Agents ->
        [pc : {"ready"}, sub : {None}, kind : {"none"}]
        \cup [pc : {"result", "complete", "failed", "reschedule", "check", "close", "outcome"},
              sub : Subs, kind : {"good", "overrun", "failed"}]]

\* What every variable may hold.
TypeOK ==
    /\ DBTypeOK /\ MemoryTypeOK /\ ActTypeOK
    /\ up \in BOOLEAN /\ verdict \subseteq Subs /\ crashes \in 0..MaxCrash
    /\ client \in [Nodes -> [Subs -> {"none", "sent", "queued", "started"}]]

\* The cloud is dealing with the end of a subtask of t.
Ending(t) == \E a \in Agents : act[a].pc # "ready" /\ TaskOf[act[a].sub] = t

\* A running cloud knows every task that the DB holds as unfinished, whatever
\* happened before: it has it in its list, or is just closing it, or its user
\* deleted it when no subtask of it had a row.
Remembered ==
    up => \A t \in Tasks :
             job[t] \in {"Create", "Dealing"}
             => \/ t \in tasks \cup deleted \/ Ending(t)
                \/ t \in Deletable /\ \A s \in SubsOf(t) : row[s] = "None"

\* A task is recorded as ended only when every subtask with a row was
\* completed or has failed, before the last crash or after it.
EndedAfterVerdicts ==
    [][\A t \in Tasks : job'[t] \in Final /\ job'[t] # job[t]
          => {s \in SubsOf(t) : row[s] # "None"} \subseteq verdict]_vars

\* "Load the unfinished tasks of the past and run them again" (the comment on
\* loadHistory): a task of the list that has rows of subtasks has a subtask
\* that is going to be run, unless it is just being ended.
Resumed ==
    up => \A t \in tasks :
             (\E s \in SubsOf(t) : row[s] # "None")
             => Ending(t) \/ SubsOf(t) \cap (todo \cup waiting \cup processing) # {}

\* The cloud is about to take t off its list, or to write its outcome.
Closing(t) == \E a \in Agents : act[a].pc \in {"close", "outcome"} /\ TaskOf[act[a].sub] = t

\* The refinement mapping: the record of a task is its row, and a running cloud
\* has in hand the tasks of its list and those it is closing.
Record == [t \in Tasks |-> IF job[t] \in {"Create", "Dealing"} THEN "Open" ELSE job[t]]
Stored == {s \in Subs : row[s] # "None"}
Held   == tasks \cup {t \in Tasks : Closing(t)}

Life == INSTANCE TaskLife WITH
    record <- Record, stored <- Stored, decided <- verdict, withdrawn <- deleted, held <- Held

\* Through crashes and restarts, and with every write of the DB a step of its
\* own, the cloud keeps the promise of TaskLife: no open task is lost, none is
\* opened again after its end, and none ends before its subtasks are decided.
KeepsPromise == Life!Spec
=============================================================================
