--------------------------- MODULE RecoveryProofs ---------------------------
(***************************************************************************)
(* Theorems about Recovery, for every value of its constants.              *)
(***************************************************************************)
EXTENDS Recovery, TLAPS

Busy == {"result", "complete", "failed", "reschedule", "check", "close", "outcome"}

(***************************************************************************)
(* Type correctness. A step has one type lemma per group of variables, so  *)
(* that the leaves stay small.                                             *)
(***************************************************************************)
\* An update of a row leaves a state that a row may have.
LEMMA UpdateType ==
    ASSUME DBTypeOK, NEW s \in Subs,
           NEW value \in {"None", "Create", "Publish", "Dealing"} \cup Final
    PROVE  Update(s, value) \in [Subs -> {"None", "Create", "Publish", "Dealing"} \cup Final]
  BY DEF DBTypeOK, Update, Final

\* What a goroutine starts to do at the end of a subtask.
LEMMA BeginType ==
    ASSUME NEW s \in Subs, NEW pc \in Busy, NEW k \in {"good", "overrun", "failed"}
    PROVE  Begin(s, pc, k) \in [pc : Busy, sub : Subs, kind : {"good", "overrun", "failed"}]
  BY DEF Begin

\* A goroutine that is about to take a step has a subtask in its hands.
LEMMA AtSub ==
    ASSUME ActTypeOK, NEW a \in Agents, NEW pc \in Busy, At(a, pc)
    PROVE  act[a] \in [pc : Busy, sub : Subs, kind : {"good", "overrun", "failed"}]
  BY DEF ActTypeOK, At, Busy

\* Every step leaves every variable with a value of its type.
LEMMA TypeStep ==
    ASSUME TypeOK, Next
    PROVE  TypeOK'
<1> USE RecoveryAssumption DEF RecoveryAssumption
<1>1. ASSUME NEW t \in Tasks, NewTask(t) PROVE TypeOK'
      BY <1>1 DEF NewTask, InsertMainTask, TypeOK, DBTypeOK, MemoryTypeOK, ActTypeOK, restVars, SubsOf
<1>2. ASSUME NEW t \in Tasks, DeleteTask(t) PROVE TypeOK'
      BY <1>2 DEF DeleteTask, SetSubTaskDelete, TypeOK, DBTypeOK, MemoryTypeOK, ActTypeOK, restVars
<1>3. ASSUME NEW s \in Subs, PushSlot(s) PROVE TypeOK'
      BY <1>3 DEF PushSlot, TypeOK, DBTypeOK, MemoryTypeOK, ActTypeOK, restVars, dbVars
<1>4. ASSUME NEW s \in Subs, InsertSubTask(s) PROVE TypeOK'
      BY <1>4 DEF InsertSubTask, TypeOK, DBTypeOK, MemoryTypeOK, ActTypeOK, restVars
<1>5. ASSUME NEW s \in Subs, Expire(s) PROVE TypeOK'
  <2>1. s \in Agents
        BY DEF Agents
  <2>2. ActTypeOK'
        BY <1>5, <2>1, BeginType DEF Expire, TypeOK, ActTypeOK, Busy
  <2> QED
        BY <1>5, <2>2 DEF Expire, TypeOK, DBTypeOK, MemoryTypeOK, restVars, dbVars
<1>6. ASSUME NEW n \in Nodes, NEW s \in Subs, PushProcessing(n, s) PROVE TypeOK'
  <2>1. DBTypeOK'
        BY <1>6, UpdateType DEF PushProcessing, TypeOK, DBTypeOK
  <2>2. client' \in [Nodes -> [Subs -> {"none", "sent", "queued", "started"}]]
        BY <1>6 DEF PushProcessing, TypeOK
  <2> QED
        BY <1>6, <2>1, <2>2 DEF PushProcessing, TypeOK, MemoryTypeOK, ActTypeOK
<1>7. ASSUME NEW n \in Nodes, NEW s \in Subs, TaskPublish(n, s) PROVE TypeOK'
  <2>1. DBTypeOK'
        BY <1>7, UpdateType DEF TaskPublish, TypeOK, DBTypeOK
  <2>2. client' \in [Nodes -> [Subs -> {"none", "sent", "queued", "started"}]]
        BY <1>7 DEF TaskPublish, TypeOK
  <2> QED
        BY <1>7, <2>1, <2>2 DEF TaskPublish, TypeOK, MemoryTypeOK, ActTypeOK
<1>8. ASSUME NEW n \in Nodes, NEW s \in Subs, TaskStart(n, s) PROVE TypeOK'
  <2>1. TaskOf[s] \in Tasks
        OBVIOUS
  <2>2. Update(s, "Dealing") \in [Subs -> {"None", "Create", "Publish", "Dealing"} \cup Final]
        BY UpdateType DEF TypeOK
  <2>3. job' \in [Tasks -> {"None", "Create", "Dealing"} \cup Final]
        BY <1>8, <2>1 DEF TaskStart, SetStartTime, TypeOK, DBTypeOK
  <2>4. DBTypeOK'
        BY <1>8, <2>1, <2>2, <2>3 DEF TaskStart, SetStartTime, TypeOK, DBTypeOK
  <2> QED
        BY <1>8, <2>4 DEF TaskStart, SetStartTime, TypeOK, MemoryTypeOK, ActTypeOK
<1>9. ASSUME NEW n \in Nodes, NEW s \in Subs, Forget(n, s) PROVE TypeOK'
      BY <1>9 DEF Forget, TypeOK, DBTypeOK, MemoryTypeOK, ActTypeOK, dbVars, memVars
<1>10. ASSUME NEW n \in Nodes, NEW s \in Subs, NEW k \in {"good", "overrun", "failed"},
              ReceiveAnswer(n, s, k)
       PROVE  TypeOK'
  <2>1. n \in Agents
        BY DEF Agents
  <2>2. \A o \in Outcomes(s, k) :
           o \in [pc : {"ready"}, sub : {None}, kind : {"none"}]
                 \cup [pc : Busy, sub : Subs, kind : {"good", "overrun", "failed"}]
        BY BeginType DEF Outcomes, Ready, Busy
  <2>3. ActTypeOK'
        BY <1>10, <2>1, <2>2 DEF ReceiveAnswer, TypeOK, ActTypeOK, Busy
  <2> QED
        BY <1>10, <2>3 DEF ReceiveAnswer, TypeOK, DBTypeOK, MemoryTypeOK, dbVars, Final
<1>11. ASSUME NEW a \in Agents, Conclude(a) PROVE TypeOK'
  <2>1. CASE SubTaskResult(a)
    <3>1. act[a].sub \in Subs
          BY <2>1, AtSub DEF SubTaskResult, TypeOK, Busy
    <3>2. ActTypeOK'
          BY <2>1, AtSub DEF SubTaskResult, TypeOK, ActTypeOK, Busy
    <3> QED
          BY <2>1, <3>1, <3>2, UpdateType
          DEF SubTaskResult, TypeOK, DBTypeOK, MemoryTypeOK, restVars, Final
  <2>2. CASE SetSubTaskFailed(a)
    <3>1. act[a].sub \in Subs
          BY <2>2, AtSub DEF SetSubTaskFailed, TypeOK, Busy
    <3>2. ActTypeOK'
          BY <2>2, AtSub DEF SetSubTaskFailed, TypeOK, ActTypeOK, Busy
    <3>3. (IF a \in Nodes THEN a ELSE uuid[act[a].sub]) \in Nodes \cup {None}
          BY <3>1 DEF TypeOK, MemoryTypeOK
    <3>4. row' \in [Subs -> {"None", "Create", "Publish", "Dealing"} \cup Final]
          BY <2>2, <3>1, UpdateType DEF SetSubTaskFailed, TypeOK, Final
    <3>5. /\ retry' \in [Subs -> 0..MaxRetry]
          /\ dberrs' \in [Subs -> SUBSET (Nodes \cup {None})]
          BY <2>2, <3>1, <3>3 DEF SetSubTaskFailed, TypeOK, DBTypeOK
    <3>6. DBTypeOK'
          BY <2>2, <3>4, <3>5 DEF SetSubTaskFailed, TypeOK, DBTypeOK
    <3> QED
          BY <2>2, <3>1, <3>2, <3>6 DEF SetSubTaskFailed, TypeOK, MemoryTypeOK
  <2>3. CASE PushWaitHead(a)
    <3>1. act[a].sub \in Subs
          BY <2>3, AtSub DEF PushWaitHead, TypeOK, Busy
    <3>2. ActTypeOK'
          BY <2>3 DEF PushWaitHead, TypeOK, ActTypeOK, Ready
    <3> QED
          BY <2>3, <3>1, <3>2
          DEF PushWaitHead, Splits, TypeOK, DBTypeOK, MemoryTypeOK, dbVars, restVars
  <2>4. CASE FailedSubTask(a)
    <3>1. act[a].sub \in Subs
          BY <2>4, AtSub DEF FailedSubTask, TypeOK, Busy
    <3>2. ActTypeOK'
          BY <2>4, AtSub DEF FailedSubTask, TypeOK, ActTypeOK, Busy
    <3> QED
          BY <2>4, <3>1, <3>2
          DEF FailedSubTask, Splits, TypeOK, DBTypeOK, MemoryTypeOK, dbVars, restVars, Final
  <2>5. CASE CompletedSubTask(a)
    <3>1. act[a].sub \in Subs
          BY <2>5, AtSub DEF CompletedSubTask, TypeOK, Busy
    <3>2. ActTypeOK'
          BY <2>5, AtSub DEF CompletedSubTask, TypeOK, ActTypeOK, Busy, Ready
    <3> QED
          BY <2>5, <3>1, <3>2
          DEF CompletedSubTask, TypeOK, DBTypeOK, MemoryTypeOK, dbVars, restVars, Final
  <2>6. CASE CheckCompletedTask(a)
    <3>1. ActTypeOK'
          BY <2>6, AtSub DEF CheckCompletedTask, TypeOK, ActTypeOK, Busy, Ready
    <3> QED
          BY <2>6, <3>1 DEF CheckCompletedTask, TypeOK, DBTypeOK, MemoryTypeOK, dbVars, restVars
  <2>7. CASE CloseTask(a)
    <3>1. ActTypeOK'
          BY <2>7, AtSub DEF CloseTask, TypeOK, ActTypeOK, Busy
    <3> QED
          BY <2>7, <3>1 DEF CloseTask, TypeOK, DBTypeOK, MemoryTypeOK, dbVars, restVars
  <2>8. CASE SetTaskResult(a)
    <3>1. act[a].sub \in Subs
          BY <2>8, AtSub DEF SetTaskResult, TypeOK, Busy
    <3>2. ActTypeOK'
          BY <2>8 DEF SetTaskResult, TypeOK, ActTypeOK, Ready
    <3> QED
          BY <2>8, <3>1, <3>2
          DEF SetTaskResult, TypeOK, DBTypeOK, MemoryTypeOK, restVars, Final
  <2> QED
        BY <1>11, <2>1, <2>2, <2>3, <2>4, <2>5, <2>6, <2>7, <2>8 DEF Conclude
<1>12. CASE Crash
  <2>1. DBTypeOK'
        BY <1>12 DEF Crash, TypeOK, DBTypeOK, dbVars
  <2>2. ActTypeOK'
        BY <1>12 DEF Crash, ActTypeOK, Ready
  <2>3. crashes' \in 0..MaxCrash
        BY <1>12 DEF Crash, TypeOK
  <2>4. MemoryTypeOK'
        BY <1>12 DEF Crash, MemoryTypeOK
  <2> QED
        BY <1>12, <2>1, <2>2, <2>3, <2>4 DEF Crash, TypeOK
<1>13. CASE LoadHistory
       BY <1>13
       DEF LoadHistory, NewTaskFromDB, LoadHistoryTasks, TypeOK, DBTypeOK, MemoryTypeOK,
            ActTypeOK, dbVars, Unfinished, Open, SubsOf
<1> QED
    BY <1>1, <1>2, <1>3, <1>4, <1>5, <1>6, <1>7, <1>8, <1>9, <1>10, <1>11, <1>12, <1>13 DEF Next

\* In every reachable state every variable has a value of its type.
THEOREM RecoveryTypeCorrect == Spec => []TypeOK
<1>1. Init => TypeOK
      BY RecoveryAssumption
      DEF RecoveryAssumption, Init, TypeOK, DBTypeOK, MemoryTypeOK, ActTypeOK, Ready, Final
<1>2. TypeOK /\ [Next]_vars => TypeOK'
  <2>1. CASE UNCHANGED vars
        BY <2>1 DEF TypeOK, DBTypeOK, MemoryTypeOK, ActTypeOK, vars, dbVars, memVars, restVars
  <2> QED
        BY <2>1, TypeStep
<1> QED
    BY <1>1, <1>2, PTL DEF Spec

-----------------------------------------------------------------------------
(***************************************************************************)
(* The inductive invariant behind EndedAfterVerdicts.                      *)
(***************************************************************************)
\* A subtask in a queue or in the hands of a goroutine has a TaskSlot, and its
\* task a row.
InMemory ==
    /\ \A s \in todo \cup insert \cup waiting \cup processing :
          state[s] # "None" /\ job[TaskOf[s]] # "None"
    /\ \A a \in Agents : act[a].pc # "ready"
          => state[act[a].sub] # "None" /\ job[TaskOf[act[a].sub]] # "None"

\* A cloud that is down has nothing in memory.
DownEmpty ==
    ~up => /\ todo = {} /\ insert = {} /\ waiting = {} /\ processing = {}
           /\ \A a \in Agents : act[a].pc = "ready"

\* What memory, the rows and the goroutines take for ended has ended.
EndedHasVerdict ==
    /\ \A s \in Subs : state[s] \in Final \/ row[s] \in Final => s \in verdict
    /\ \A a \in Agents : act[a].pc \in {"result", "complete", "reschedule"}
                         => act[a].sub \in verdict

\* A subtask with a row that was not loaded with its task has ended.
LoadedOrEnded ==
    \A t \in tasks : \A s \in SubsOf(t) :
       state[s] = "None" /\ row[s] # "None" => s \in verdict

\* Once a goroutine found a task complete, its subtasks have ended, or never
\* get a row.
ClosingHasVerdicts ==
    \A a \in Agents : act[a].pc \in {"close", "outcome"}
       => \A s \in SubsOf(TaskOf[act[a].sub]) :
             s \in verdict \/ (row[s] = "None" /\ s \notin todo \cup insert)

RecoveryInv == InMemory /\ DownEmpty /\ EndedHasVerdict /\ LoadedOrEnded /\ ClosingHasVerdicts

\* The invariant with the types it needs.
IInv == TypeOK /\ RecoveryInv

\* InMemory is kept: a subtask enters a queue or a goroutine with its TaskSlot.
LEMMA InMemoryStep ==
    ASSUME IInv, Next
    PROVE  InMemory'
<1> USE RecoveryAssumption DEF RecoveryAssumption, IInv, RecoveryInv
<1>T. TypeOK'
      BY TypeStep
<1>1. ASSUME NEW t \in Tasks, NewTask(t) PROVE InMemory'
      BY <1>1, <1>T DEF NewTask, InsertMainTask, InMemory, restVars, TypeOK, DBTypeOK,
           MemoryTypeOK, ActTypeOK, SubsOf, Final
<1>2. ASSUME NEW t \in Tasks, DeleteTask(t) PROVE InMemory'
      BY <1>2 DEF DeleteTask, SetSubTaskDelete, InMemory
<1>3. ASSUME NEW s \in Subs, PushSlot(s) PROVE InMemory'
      BY <1>3 DEF PushSlot, InMemory, TypeOK, MemoryTypeOK, dbVars
<1>4. ASSUME NEW s \in Subs, InsertSubTask(s) PROVE InMemory'
      BY <1>4 DEF InsertSubTask, InMemory
<1>5. ASSUME NEW s \in Subs, Expire(s) PROVE InMemory'
  <2>1. \A a \in Agents : act'[a] = act[a] \/ (act'[a].sub = s /\ s \in processing)
        BY <1>5 DEF Expire, TypeOK, ActTypeOK, Begin
  <2> QED
        BY <1>5, <2>1 DEF Expire, InMemory, dbVars
<1>6. ASSUME NEW n \in Nodes, NEW s \in Subs, PushProcessing(n, s) PROVE InMemory'
      BY <1>6 DEF PushProcessing, InMemory, TypeOK, MemoryTypeOK
<1>7. ASSUME NEW n \in Nodes, NEW s \in Subs, TaskPublish(n, s) PROVE InMemory'
  <2>1. \A u \in Subs : state[u] # "None" => state'[u] # "None"
        BY <1>7 DEF TaskPublish, TypeOK, MemoryTypeOK
  <2>2. \A a \in Agents : act[a].pc # "ready" => act[a].sub \in Subs
        BY DEF TypeOK, ActTypeOK
  <2> QED
        BY <1>7, <2>1, <2>2 DEF TaskPublish, InMemory, TypeOK, MemoryTypeOK
<1>8. ASSUME NEW n \in Nodes, NEW s \in Subs, TaskStart(n, s) PROVE InMemory'
  <2>1. \A u \in Subs : state[u] # "None" => state'[u] # "None"
        BY <1>8 DEF TaskStart, SetStartTime, TypeOK, MemoryTypeOK
  <2>2. \A t \in Tasks : job[t] # "None" => job'[t] # "None"
        BY <1>8 DEF TaskStart, SetStartTime, TypeOK, DBTypeOK
  <2>3. \A a \in Agents : act[a].pc # "ready" => act[a].sub \in Subs
        BY DEF TypeOK, ActTypeOK
  <2>4. /\ todo' \cup insert' \cup waiting' \cup processing'
             = todo \cup insert \cup waiting \cup processing
        /\ act' = act
        BY <1>8 DEF TaskStart, SetStartTime
  <2> QED
        BY <2>1, <2>2, <2>3, <2>4 DEF InMemory, TypeOK, MemoryTypeOK
<1>9. ASSUME NEW n \in Nodes, NEW s \in Subs, Forget(n, s) PROVE InMemory'
      BY <1>9 DEF Forget, InMemory, dbVars, memVars
<1>10. ASSUME NEW n \in Nodes, NEW s \in Subs, NEW k \in {"good", "overrun", "failed"},
              ReceiveAnswer(n, s, k)
       PROVE  InMemory'
  <2>1. \A o \in Outcomes(s, k) : o.pc # "ready" => o.sub = s
        BY DEF Outcomes, Begin, Ready
  <2>2. \A a \in Agents : \/ act'[a] = act[a]
                          \/ act'[a].pc # "ready" => act'[a].sub = s /\ s \in processing
        BY <1>10, <2>1 DEF ReceiveAnswer, TypeOK, ActTypeOK
  <2>3. \A u \in Subs : state[u] # "None" => state'[u] # "None"
        BY <1>10 DEF ReceiveAnswer, TypeOK, MemoryTypeOK
  <2>4. \A a \in Agents : act[a].pc # "ready" => act[a].sub \in Subs
        BY DEF TypeOK, ActTypeOK
  <2> QED
        BY <1>10, <2>2, <2>3, <2>4 DEF ReceiveAnswer, InMemory, TypeOK, MemoryTypeOK, dbVars
<1>11. ASSUME NEW a \in Agents, Conclude(a) PROVE InMemory'
  <2>1. ASSUME NEW b \in Agents, act[b].pc # "ready" PROVE act[b].sub \in Subs
        BY <2>1 DEF TypeOK, ActTypeOK
  <2>2. CASE SubTaskResult(a)
        BY <2>2 DEF SubTaskResult, At, InMemory, TypeOK, ActTypeOK
  <2>3. CASE SetSubTaskFailed(a)
        BY <2>3 DEF SetSubTaskFailed, At, InMemory, TypeOK, ActTypeOK
  <2>4. CASE PushWaitHead(a)
        BY <2>1, <2>4 DEF PushWaitHead, At, InMemory, TypeOK, ActTypeOK, MemoryTypeOK, Ready, dbVars
  <2>5. CASE FailedSubTask(a)
        BY <2>1, <2>5 DEF FailedSubTask, At, InMemory, TypeOK, ActTypeOK, MemoryTypeOK, dbVars
  <2>6. CASE CompletedSubTask(a)
        BY <2>1, <2>6 DEF CompletedSubTask, At, InMemory, TypeOK, ActTypeOK, MemoryTypeOK, Ready, dbVars
  <2>7. CASE CheckCompletedTask(a)
        BY <2>7 DEF CheckCompletedTask, At, InMemory, TypeOK, ActTypeOK, Ready, dbVars
  <2>8. CASE CloseTask(a)
        BY <2>8 DEF CloseTask, At, InMemory, TypeOK, ActTypeOK, dbVars
  <2>9. CASE SetTaskResult(a)
        BY <2>1, <2>9 DEF SetTaskResult, At, InMemory, TypeOK, ActTypeOK, DBTypeOK, Ready
  <2> QED
        BY <1>11, <2>2, <2>3, <2>4, <2>5, <2>6, <2>7, <2>8, <2>9 DEF Conclude
<1>12. CASE Crash
       BY <1>12 DEF Crash, InMemory, Ready
<1>13. CASE LoadHistory
       BY <1>13 DEF LoadHistory, NewTaskFromDB, LoadHistoryTasks, InMemory, DownEmpty, TypeOK,
            MemoryTypeOK, DBTypeOK, dbVars, Unfinished, Open, SubsOf
<1> QED
    BY <1>1, <1>2, <1>3, <1>4, <1>5, <1>6, <1>7, <1>8, <1>9, <1>10, <1>11, <1>12, <1>13 DEF Next

\* DownEmpty is kept: only a crash ends the cloud, and only loadHistory starts it.
LEMMA DownEmptyStep ==
    ASSUME IInv, Next
    PROVE  DownEmpty'
<1> USE DEF IInv, RecoveryInv
<1>1. CASE Crash
      BY <1>1 DEF Crash, DownEmpty, Ready
<1>2. CASE LoadHistory
      BY <1>2 DEF LoadHistory, NewTaskFromDB, LoadHistoryTasks, DownEmpty
<1>3. ASSUME NEW n \in Nodes, NEW s \in Subs, Forget(n, s) PROVE DownEmpty'
      BY <1>3 DEF Forget, DownEmpty, memVars
<1>4. ASSUME NEW t \in Tasks, NewTask(t) \/ DeleteTask(t) PROVE up'
      BY <1>4 DEF NewTask, InsertMainTask, DeleteTask, SetSubTaskDelete, restVars
<1>5. ASSUME NEW s \in Subs, PushSlot(s) \/ InsertSubTask(s) \/ Expire(s) PROVE up'
      BY <1>5 DEF PushSlot, InsertSubTask, Expire, At, restVars
<1>6. ASSUME NEW n \in Nodes, NEW s \in Subs,
             PushProcessing(n, s) \/ TaskPublish(n, s) \/ TaskStart(n, s)
      PROVE  up'
      BY <1>6 DEF PushProcessing, TaskPublish, TaskStart, SetStartTime, At
<1>7. ASSUME NEW n \in Nodes, NEW s \in Subs, NEW k \in {"good", "overrun", "failed"},
             ReceiveAnswer(n, s, k)
      PROVE  up'
      BY <1>7 DEF ReceiveAnswer, At
<1>8. ASSUME NEW a \in Agents, Conclude(a) PROVE up'
      BY <1>8 DEF Conclude, SubTaskResult, SetSubTaskFailed, PushWaitHead, FailedSubTask,
                  CompletedSubTask, CheckCompletedTask, CloseTask, SetTaskResult, At, restVars
<1>9. up' => DownEmpty'
      BY DEF DownEmpty
<1> QED
    BY <1>1, <1>2, <1>3, <1>4, <1>5, <1>6, <1>7, <1>8, <1>9 DEF Next

\* While the cloud runs, and but for the steps that make a task or a row, no
\* row and no TaskSlot appears, none disappears, and what ended has ended.
Kept ==
    /\ tasks' \subseteq tasks
    /\ todo' \cup insert' \subseteq todo \cup insert
    /\ verdict \subseteq verdict'
    /\ \A s \in Subs : /\ row'[s] = "None" <=> row[s] = "None"
                       /\ state'[s] = "None" => state[s] = "None"

\* All steps but four keep the rows and the TaskSlots that exist.
LEMMA KeptStep ==
    ASSUME TypeOK, Next
    PROVE  \/ Kept
           \/ Crash \/ LoadHistory
           \/ \E t \in Tasks : NewTask(t)
           \/ \E s \in Subs : InsertSubTask(s)
<1> USE DEF TypeOK, DBTypeOK, MemoryTypeOK
<1>1. ASSUME NEW t \in Tasks, DeleteTask(t) PROVE Kept
      BY <1>1 DEF DeleteTask, SetSubTaskDelete, Kept, restVars
<1>2. ASSUME NEW s \in Subs, PushSlot(s) PROVE Kept
      BY <1>2 DEF PushSlot, Kept, dbVars, restVars
<1>3. ASSUME NEW s \in Subs, Expire(s) PROVE Kept
      BY <1>3 DEF Expire, Kept, dbVars, restVars
<1>4. ASSUME NEW n \in Nodes, NEW s \in Subs, PushProcessing(n, s) PROVE Kept
      BY <1>4 DEF PushProcessing, Kept, Update
<1>5. ASSUME NEW n \in Nodes, NEW s \in Subs, TaskPublish(n, s) PROVE Kept
      BY <1>5 DEF TaskPublish, Kept, Update
<1>6. ASSUME NEW n \in Nodes, NEW s \in Subs, TaskStart(n, s) PROVE Kept
      BY <1>6 DEF TaskStart, SetStartTime, Kept, Update
<1>7. ASSUME NEW n \in Nodes, NEW s \in Subs, Forget(n, s) PROVE Kept
      BY <1>7 DEF Forget, Kept, dbVars, memVars
<1>8. ASSUME NEW n \in Nodes, NEW s \in Subs, NEW k \in {"good", "overrun", "failed"},
             ReceiveAnswer(n, s, k)
      PROVE  Kept
  <2>1. /\ row' = row /\ tasks' = tasks /\ todo' = todo /\ insert' = insert
        /\ \/ state' = state /\ verdict' = verdict
           \/ state' = [state EXCEPT ![s] = "Completed"] /\ verdict' = verdict \cup {s}
        BY <1>8 DEF ReceiveAnswer, dbVars
  <2> QED
        BY <2>1 DEF Kept
<1>9. ASSUME NEW a \in Agents, Conclude(a) PROVE Kept
  <2>1. CASE SubTaskResult(a)
        BY <2>1 DEF SubTaskResult, Kept, Update, restVars
  <2>2. CASE SetSubTaskFailed(a)
        BY <2>2 DEF SetSubTaskFailed, Kept, Update
  <2>3. CASE PushWaitHead(a)
        BY <2>3 DEF PushWaitHead, Kept, dbVars, restVars
  <2>4. CASE FailedSubTask(a)
        BY <2>4 DEF FailedSubTask, Kept, dbVars, restVars
  <2>5. CASE CompletedSubTask(a)
        BY <2>5 DEF CompletedSubTask, Kept, dbVars, restVars
  <2>6. CASE CheckCompletedTask(a) \/ CloseTask(a) \/ SetTaskResult(a)
        BY <2>6 DEF CheckCompletedTask, CloseTask, SetTaskResult, Kept, dbVars, restVars
  <2> QED
        BY <1>9, <2>1, <2>2, <2>3, <2>4, <2>5, <2>6 DEF Conclude
<1> QED
    BY <1>1, <1>2, <1>3, <1>4, <1>5, <1>6, <1>7, <1>8, <1>9 DEF Next

\* LoadedOrEnded is kept: what LoadHistory does not read has ended.
LEMMA LoadedOrEndedStep ==
    ASSUME IInv, Next
    PROVE  LoadedOrEnded'
<1> USE RecoveryAssumption DEF RecoveryAssumption, IInv, RecoveryInv, LoadedOrEnded
<1>1. CASE Kept
      BY <1>1 DEF Kept, SubsOf
<1>2. CASE Crash
      BY <1>2 DEF Crash
<1>3. CASE LoadHistory
  <2>1. \A t \in tasks' : t \in Unfinished
        BY <1>3 DEF LoadHistory, NewTaskFromDB, LoadHistoryTasks
  <2>2. ASSUME NEW t \in Unfinished, NEW s \in Subs, TaskOf[s] = t,
               state'[s] = "None", row[s] # "None"
        PROVE  s \in verdict
    <3>1. Open(SubsOf(t)) \subseteq UNION {Open(SubsOf(u)) : u \in Unfinished}
          BY <2>2
    <3>2. s \notin Open(SubsOf(t))
          BY <1>3, <2>2, <3>1 DEF LoadHistory, NewTaskFromDB, LoadHistoryTasks
    <3>3. row[s] \in Final
          BY <2>2, <3>2 DEF Open, SubsOf, TypeOK, DBTypeOK
    <3> QED
          BY <3>3 DEF EndedHasVerdict
  <2> QED
        BY <1>3, <2>1, <2>2 DEF LoadHistory, NewTaskFromDB, LoadHistoryTasks, SubsOf, dbVars
<1>4. ASSUME NEW t \in Tasks, NewTask(t) PROVE LoadedOrEnded'
      BY <1>4 DEF NewTask, InsertMainTask, SubsOf, restVars, TypeOK, MemoryTypeOK
<1>5. ASSUME NEW s \in Subs, InsertSubTask(s) PROVE LoadedOrEnded'
      BY <1>5 DEF InsertSubTask, InMemory, SubsOf, restVars, TypeOK, DBTypeOK
<1> QED
    BY KeptStep, <1>1, <1>2, <1>3, <1>4, <1>5

\* EndedHasVerdict is kept: a final state, in memory or in a row, and what
\* follows it, come with a verdict.
LEMMA EndedHasVerdictStep ==
    ASSUME IInv, Next
    PROVE  EndedHasVerdict'
<1> USE DEF IInv, RecoveryInv, EndedHasVerdict, TypeOK, DBTypeOK, MemoryTypeOK, Final
<1>S. \A a \in Agents : act[a].pc # "ready" => act[a].sub \in Subs
      BY DEF ActTypeOK
<1>1. ASSUME NEW t \in Tasks, NewTask(t) PROVE EndedHasVerdict'
      BY <1>1 DEF NewTask, InsertMainTask, restVars
<1>2. ASSUME NEW t \in Tasks, DeleteTask(t) PROVE EndedHasVerdict'
      BY <1>2 DEF DeleteTask, SetSubTaskDelete, restVars
<1>3. ASSUME NEW s \in Subs, PushSlot(s) PROVE EndedHasVerdict'
      BY <1>3 DEF PushSlot, dbVars, restVars
<1>4. ASSUME NEW s \in Subs, InsertSubTask(s) PROVE EndedHasVerdict'
      BY <1>4 DEF InsertSubTask, restVars
<1>5. ASSUME NEW s \in Subs, Expire(s) PROVE EndedHasVerdict'
      BY <1>5 DEF Expire, Begin, ActTypeOK, dbVars, restVars
<1>6. ASSUME NEW n \in Nodes, NEW s \in Subs, PushProcessing(n, s) PROVE EndedHasVerdict'
      BY <1>6 DEF PushProcessing, Update
<1>7. ASSUME NEW n \in Nodes, NEW s \in Subs, TaskPublish(n, s) PROVE EndedHasVerdict'
      BY <1>7 DEF TaskPublish, Update
<1>8. ASSUME NEW n \in Nodes, NEW s \in Subs, TaskStart(n, s) PROVE EndedHasVerdict'
      BY <1>8 DEF TaskStart, SetStartTime, Update
<1>9. ASSUME NEW n \in Nodes, NEW s \in Subs, Forget(n, s) PROVE EndedHasVerdict'
      BY <1>9 DEF Forget, dbVars, memVars
<1>10. ASSUME NEW n \in Nodes, NEW s \in Subs, NEW k \in {"good", "overrun", "failed"},
              ReceiveAnswer(n, s, k)
       PROVE  EndedHasVerdict'
  <2>1. \A o \in Outcomes(s, k) : /\ o.pc \in {"ready", "failed", "result"}
                                  /\ o.pc = "result" => o.sub = s
        BY DEF Outcomes, Begin, Ready
  <2>2. CASE UNCHANGED <<act, state, verdict>>
        BY <1>10, <2>2 DEF ReceiveAnswer, dbVars
  <2>3. ASSUME NEW o \in Outcomes(s, k),
               act' = [act EXCEPT ![n] = o],
               IF o.pc = "result"
               THEN state' = [state EXCEPT ![s] = "Completed"] /\ verdict' = verdict \cup {s}
               ELSE UNCHANGED <<state, verdict>>
        PROVE  EndedHasVerdict'
        BY <1>10, <2>1, <2>3 DEF ReceiveAnswer, ActTypeOK, dbVars
  <2> QED
        BY <1>10, <2>2, <2>3 DEF ReceiveAnswer
<1>11. ASSUME NEW a \in Agents, Conclude(a) PROVE EndedHasVerdict'
  <2>1. CASE SubTaskResult(a)
        BY <1>S, <2>1 DEF SubTaskResult, At, Update, ActTypeOK, restVars
  <2>2. CASE SetSubTaskFailed(a)
        BY <1>S, <2>2 DEF SetSubTaskFailed, At, Update, ActTypeOK
  <2>3. CASE PushWaitHead(a)
        BY <1>S, <2>3 DEF PushWaitHead, At, Ready, ActTypeOK, dbVars, restVars
  <2>4. CASE FailedSubTask(a)
        BY <1>S, <2>4 DEF FailedSubTask, At, ActTypeOK, dbVars, restVars
  <2>5. CASE CompletedSubTask(a)
        BY <1>S, <2>5 DEF CompletedSubTask, At, Ready, ActTypeOK, dbVars, restVars
  <2>6. CASE CheckCompletedTask(a)
        BY <2>6 DEF CheckCompletedTask, Ready, ActTypeOK, dbVars, restVars
  <2>7. CASE CloseTask(a)
        BY <2>7 DEF CloseTask, ActTypeOK, dbVars, restVars
  <2>8. CASE SetTaskResult(a)
        BY <2>8 DEF SetTaskResult, Ready, ActTypeOK, restVars
  <2> QED
        BY <1>11, <2>1, <2>2, <2>3, <2>4, <2>5, <2>6, <2>7, <2>8 DEF Conclude
<1>12. CASE Crash
       BY <1>12 DEF Crash, Ready, dbVars
<1>13. CASE LoadHistory
       BY <1>13 DEF LoadHistory, NewTaskFromDB, LoadHistoryTasks, dbVars
<1> QED
    BY <1>1, <1>2, <1>3, <1>4, <1>5, <1>6, <1>7, <1>8, <1>9, <1>10, <1>11, <1>12, <1>13 DEF Next

\* A goroutine that is about to close a task, or to write its outcome, found it
\* complete in this step or before.
LEMMA ClosingStep ==
    ASSUME TypeOK, Next, NEW a \in Agents, act'[a].pc \in {"close", "outcome"}
    PROVE  /\ act[a].sub = act'[a].sub /\ act[a].sub \in Subs
           /\ act[a].pc \in {"close", "outcome"} \/ CheckCompletedTask(a)
           /\ act[a].pc = "check" => Done(TaskOf[act[a].sub])
<1> USE DEF TypeOK
<1>1. CASE act'[a] = act[a]
      BY <1>1 DEF ActTypeOK
<1>2. CASE CheckCompletedTask(a)
      BY <1>2 DEF CheckCompletedTask, At, ActTypeOK, Ready
<1>3. CASE CloseTask(a)
      BY <1>3 DEF CloseTask, At, ActTypeOK
<1>4. ASSUME NEW t \in Tasks, NewTask(t) \/ DeleteTask(t) PROVE act'[a] = act[a]
      BY <1>4 DEF NewTask, InsertMainTask, DeleteTask, SetSubTaskDelete
<1>5. ASSUME NEW s \in Subs, PushSlot(s) \/ InsertSubTask(s) PROVE act'[a] = act[a]
      BY <1>5 DEF PushSlot, InsertSubTask
<1>6. ASSUME NEW s \in Subs, Expire(s) PROVE act'[a] = act[a]
      BY <1>6 DEF Expire, ActTypeOK, Begin
<1>7. ASSUME NEW n \in Nodes, NEW s \in Subs,
             PushProcessing(n, s) \/ TaskPublish(n, s) \/ TaskStart(n, s) \/ Forget(n, s)
      PROVE  act'[a] = act[a]
      BY <1>7 DEF PushProcessing, TaskPublish, TaskStart, SetStartTime, Forget, memVars
<1>8. ASSUME NEW n \in Nodes, NEW s \in Subs, NEW k \in {"good", "overrun", "failed"},
             ReceiveAnswer(n, s, k)
      PROVE  act'[a] = act[a]
  <2>1. \A o \in Outcomes(s, k) : o.pc \in {"ready", "failed", "result"}
        BY DEF Outcomes, Begin, Ready
  <2> QED
        BY <1>8, <2>1 DEF ReceiveAnswer, ActTypeOK
<1>9. ASSUME NEW b \in Agents, Conclude(b), ~(CheckCompletedTask(a) \/ CloseTask(a))
      PROVE  act'[a] = act[a]
  <2>1. CASE SubTaskResult(b)
        BY <2>1 DEF SubTaskResult, ActTypeOK
  <2>2. CASE SetSubTaskFailed(b)
        BY <2>2 DEF SetSubTaskFailed, ActTypeOK
  <2>3. CASE PushWaitHead(b)
        BY <2>3 DEF PushWaitHead, ActTypeOK, Ready
  <2>4. CASE FailedSubTask(b)
        BY <2>4 DEF FailedSubTask, ActTypeOK
  <2>5. CASE CompletedSubTask(b)
        BY <2>5 DEF CompletedSubTask, ActTypeOK, Ready
  <2>6. CASE CheckCompletedTask(b)
        BY <1>9, <2>6 DEF CheckCompletedTask, ActTypeOK
  <2>7. CASE CloseTask(b)
        BY <1>9, <2>7 DEF CloseTask, ActTypeOK
  <2>8. CASE SetTaskResult(b)
        BY <2>8 DEF SetTaskResult, ActTypeOK, Ready
  <2> QED
        BY <1>9, <2>1, <2>2, <2>3, <2>4, <2>5, <2>6, <2>7, <2>8 DEF Conclude
<1>10. ~Crash
       BY DEF Crash, Ready
<1>11. CASE LoadHistory
       BY <1>1, <1>11 DEF LoadHistory, NewTaskFromDB, LoadHistoryTasks
<1> QED
    BY <1>1, <1>2, <1>3, <1>4, <1>5, <1>6, <1>7, <1>8, <1>9, <1>10, <1>11 DEF Next

\* ClosingHasVerdicts is kept: a task is found complete only when it is, and
\* no subtask is added to it later.
LEMMA ClosingHasVerdictsStep ==
    ASSUME IInv, Next
    PROVE  ClosingHasVerdicts'
<1> USE RecoveryAssumption DEF RecoveryAssumption, IInv, RecoveryInv
<1> SUFFICES ASSUME NEW a \in Agents, act'[a].pc \in {"close", "outcome"},
                    NEW s \in Subs, TaskOf[s] = TaskOf[act'[a].sub]
             PROVE  s \in verdict' \/ (row'[s] = "None" /\ s \notin todo' \cup insert')
    BY DEF ClosingHasVerdicts, SubsOf
<1>1. /\ act[a].sub = act'[a].sub /\ act[a].sub \in Subs
      /\ act[a].pc \in {"close", "outcome"} \/ CheckCompletedTask(a)
      /\ act[a].pc = "check" => Done(TaskOf[act[a].sub])
      BY ClosingStep
<1>2. act[a].pc # "ready"
      BY <1>1 DEF CheckCompletedTask, At
<1>3. s \in verdict \/ (row[s] = "None" /\ s \notin todo \cup insert)
  <2>1. CASE act[a].pc \in {"close", "outcome"}
        BY <1>1, <2>1 DEF ClosingHasVerdicts, SubsOf
  <2>2. CASE CheckCompletedTask(a)
    <3>1. Done(TaskOf[act[a].sub])
          BY <1>1, <2>2 DEF CheckCompletedTask, At
    <3>2. TaskOf[s] \in tasks /\ state[s] \in Final \cup {"None"}
          BY <1>1, <3>1 DEF Done, SubsOf
    <3>3. CASE state[s] \in Final
          BY <3>3 DEF EndedHasVerdict
    <3>4. CASE state[s] = "None"
          BY <3>2, <3>4 DEF LoadedOrEnded, InMemory, SubsOf
    <3> QED
          BY <3>2, <3>3, <3>4
  <2> QED
        BY <1>1, <2>1, <2>2
<1>4. CASE Kept
      BY <1>3, <1>4 DEF Kept
<1>5. ASSUME NEW t \in Tasks, NewTask(t)
      PROVE  s \in verdict' \/ (row'[s] = "None" /\ s \notin todo' \cup insert')
  <2>1. TaskOf[s] # t
        BY <1>1, <1>2, <1>5 DEF NewTask, InsertMainTask, InMemory
  <2> QED
        BY <1>3, <1>5, <2>1 DEF NewTask, InsertMainTask, SubsOf, restVars
<1>6. ASSUME NEW u \in Subs, InsertSubTask(u)
      PROVE  s \in verdict' \/ (row'[s] = "None" /\ s \notin todo' \cup insert')
      BY <1>3, <1>6 DEF InsertSubTask, restVars, TypeOK, DBTypeOK
<1>7. ~Crash
      BY DEF Crash, Ready
<1>8. ~LoadHistory
      BY <1>2 DEF LoadHistory, NewTaskFromDB, LoadHistoryTasks, DownEmpty
<1> QED
    BY KeptStep, <1>4, <1>5, <1>6, <1>7, <1>8

\* The invariant holds in every reachable state.
THEOREM RecoveryInvariant == Spec => []IInv
<1>1. Init => IInv
  <2>1. Init => TypeOK
        BY RecoveryAssumption
        DEF RecoveryAssumption, Init, TypeOK, DBTypeOK, MemoryTypeOK, ActTypeOK, Ready, Final
  <2>2. Init => RecoveryInv
        BY DEF Init, RecoveryInv, InMemory, DownEmpty, EndedHasVerdict, LoadedOrEnded,
               ClosingHasVerdicts, SubsOf, Ready, Final
  <2> QED
        BY <2>1, <2>2 DEF IInv
<1>2. IInv /\ [Next]_vars => IInv'
  <2>1. CASE UNCHANGED vars
        BY <2>1 DEF IInv, RecoveryInv, InMemory, DownEmpty, EndedHasVerdict, LoadedOrEnded,
                    ClosingHasVerdicts, TypeOK, DBTypeOK, MemoryTypeOK, ActTypeOK,
                    vars, dbVars, memVars, restVars
  <2>2. ASSUME IInv, Next PROVE IInv'
    <3>1. TypeOK'
          BY <2>2, TypeStep DEF IInv
    <3>2. RecoveryInv'
          BY <2>2, InMemoryStep, DownEmptyStep, EndedHasVerdictStep, LoadedOrEndedStep,
             ClosingHasVerdictsStep
          DEF RecoveryInv
    <3> QED
          BY <3>1, <3>2 DEF IInv
  <2> QED
        BY <2>1, <2>2
<1> QED
    BY <1>1, <1>2, PTL DEF Spec

\* Only SetTaskResult makes the row of a task final.
LEMMA FinalByResult ==
    ASSUME TypeOK, Next, NEW t \in Tasks, job'[t] \in Final, job'[t] # job[t]
    PROVE  \E a \in Agents : /\ act[a].pc = "outcome" /\ act[a].sub \in Subs
                             /\ TaskOf[act[a].sub] = t
                             /\ row' = row /\ verdict' = verdict
<1> USE DEF TypeOK, DBTypeOK, Final
<1>1. ASSUME NEW u \in Tasks, NewTask(u) \/ DeleteTask(u) PROVE FALSE
      BY <1>1 DEF NewTask, InsertMainTask, DeleteTask, SetSubTaskDelete
<1>2. ASSUME NEW s \in Subs, PushSlot(s) \/ InsertSubTask(s) \/ Expire(s) PROVE FALSE
      BY <1>2 DEF PushSlot, InsertSubTask, Expire, dbVars
<1>3. ASSUME NEW n \in Nodes, NEW s \in Subs,
             PushProcessing(n, s) \/ TaskPublish(n, s) \/ TaskStart(n, s) \/ Forget(n, s)
      PROVE  FALSE
      BY <1>3 DEF PushProcessing, TaskPublish, TaskStart, SetStartTime, Forget, dbVars
<1>4. ASSUME NEW n \in Nodes, NEW s \in Subs, NEW k \in {"good", "overrun", "failed"},
             ReceiveAnswer(n, s, k)
      PROVE  FALSE
      BY <1>4 DEF ReceiveAnswer, dbVars
<1>5. ASSUME NEW a \in Agents, Conclude(a), ~SetTaskResult(a) PROVE FALSE
      BY <1>5 DEF Conclude, SubTaskResult, SetSubTaskFailed, PushWaitHead, FailedSubTask,
                  CompletedSubTask, CheckCompletedTask, CloseTask, dbVars
<1>6. ASSUME NEW a \in Agents, SetTaskResult(a)
      PROVE  /\ act[a].pc = "outcome" /\ act[a].sub \in Subs
             /\ TaskOf[act[a].sub] = t
             /\ row' = row /\ verdict' = verdict
      BY <1>6 DEF SetTaskResult, At, ActTypeOK, restVars
<1>7. ~Crash /\ ~LoadHistory
      BY DEF Crash, LoadHistory, NewTaskFromDB, LoadHistoryTasks, dbVars
<1> QED
    BY <1>1, <1>2, <1>3, <1>4, <1>5, <1>6, <1>7 DEF Next

\* A task gets its outcome in the DB only when each of its subtasks with a row
\* was completed or has failed, whatever crashes there were.
THEOREM OutcomesAfterVerdicts == Spec => EndedAfterVerdicts
<1>1. IInv /\ [Next]_vars =>
         [\A t \in Tasks : job'[t] \in Final /\ job'[t] # job[t]
             => {s \in SubsOf(t) : row[s] # "None"} \subseteq verdict]_vars
  <2>1. ASSUME IInv, Next, NEW t \in Tasks, job'[t] \in Final, job'[t] # job[t],
               NEW s \in SubsOf(t), row[s] # "None"
        PROVE  s \in verdict
    <3>1. PICK a \in Agents : act[a].pc = "outcome" /\ TaskOf[act[a].sub] = t
          BY <2>1, FinalByResult DEF IInv
    <3> QED
          BY <2>1, <3>1 DEF IInv, RecoveryInv, ClosingHasVerdicts
  <2> QED
        BY <2>1
<1>2. Spec => []IInv
      BY RecoveryInvariant
<1> QED
    BY <1>1, <1>2, PTL DEF Spec, EndedAfterVerdicts
=============================================================================
