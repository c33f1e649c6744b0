------------------------- MODULE RecoveryRefinement -------------------------
(***************************************************************************)
(* Recovery implements TaskLife, and a running cloud remembers every task  *)
(* that the DB holds as unfinished. Both rest on one fact that is not      *)
(* obvious: a task that has ended is never recorded as running again.      *)
(* TaskStart writes "dealing" for a task without a start time, so the      *)
(* invariant is about those: nothing of such a task is left once it ended. *)
(***************************************************************************)
EXTENDS RecoveryProofs

\* Goroutine a has the end of s in hand, and s is still in processing.
Works(a, s) ==
    act[a].pc \in {"result", "complete", "failed", "reschedule"} /\ act[a].sub = s

\* A timer, and the goroutine it becomes, belong to a task that was started.
TimersStarted ==
    /\ \A s \in timer : TaskOf[s] \in started
    /\ \A s \in Subs : act[s].pc # "ready" => act[s].sub = s /\ TaskOf[s] \in started

\* What was not queued yet is nowhere else.
TodoFirst ==
    \A s \in todo : /\ s \notin waiting \cup processing
                    /\ \A a \in Agents : act[a].pc # "ready" => act[a].sub # s

\* A subtask of a task without start time is in one hand only: the waiting
\* queue, or its node; and there it did not end, nor was it started.
InOneHand(s) ==
    /\ s \in waiting => uuid[s] = None
    /\ \A n \in Nodes : Works(n, s) => uuid[s] = n /\ s \in processing \ (waiting \cup todo)
    /\ s \in todo \cup waiting \cup processing => state[s] \notin Final \cup {"None"}
    /\ s \in processing /\ uuid[s] \in Nodes => client[uuid[s]][s] # "started"

OneHand == \A s \in Subs : TaskOf[s] \notin started => InOneHand(s)

\* Once such a task ended, or is being closed, nothing of it is left in memory.
NothingLeft ==
    \A s \in Subs : /\ TaskOf[s] \notin started
                    /\ job[TaskOf[s]] \in Final \/ Closing(TaskOf[s])
                    => s \notin todo \cup waiting \cup processing

\* A cloud that is down has no node for a subtask.
DownForgets == ~up => \A s \in Subs : uuid[s] = None

StartInv == DownForgets /\ TimersStarted /\ TodoFirst /\ OneHand /\ NothingLeft

\* What Remembered says, as an inductive invariant: the goroutine of a task that
\* is off the list is already closing it, and no row comes after a deletion.
Known(t) ==
    \/ t \in tasks \cup deleted \/ Closing(t)
    \/ /\ t \in Deletable
       /\ \A s \in SubsOf(t) : row[s] = "None" /\ s \notin todo \cup insert

AllKnown == up => \A t \in Tasks : job[t] \in {"Create", "Dealing"} => Known(t)

RInv == IInv /\ StartInv /\ AllKnown
-----------------------------------------------------------------------------
\* A goroutine at the end of a subtask goes on with that subtask, or is ready
\* again; the others stay where they are.
LEMMA ActKept ==
    ASSUME TypeOK, NEW a \in Agents, Conclude(a), NEW b \in Agents
    PROVE  /\ b # a => act'[b] = act[b]
           /\ act[a].pc # "ready" /\ act[a].sub \in Subs
           /\ act'[b].pc # "ready" => act[b].pc # "ready" /\ act'[b].sub = act[b].sub
<1> USE DEF TypeOK, ActTypeOK, At, Ready
<1>1. CASE SubTaskResult(a)
      BY <1>1 DEF SubTaskResult
<1>2. CASE SetSubTaskFailed(a)
      BY <1>2 DEF SetSubTaskFailed
<1>3. CASE PushWaitHead(a)
      BY <1>3 DEF PushWaitHead
<1>4. CASE FailedSubTask(a)
      BY <1>4 DEF FailedSubTask
<1>5. CASE CompletedSubTask(a)
      BY <1>5 DEF CompletedSubTask
<1>6. CASE CheckCompletedTask(a)
      BY <1>6 DEF CheckCompletedTask
<1>7. CASE CloseTask(a)
      BY <1>7 DEF CloseTask
<1>8. CASE SetTaskResult(a)
      BY <1>8 DEF SetTaskResult
<1> QED
    BY <1>1, <1>2, <1>3, <1>4, <1>5, <1>6, <1>7, <1>8 DEF Conclude

\* DownForgets is kept: a crash empties the memory, and what happens while the
\* cloud is down does not touch it.
LEMMA DownForgetsStep ==
    ASSUME DownForgets, Next
    PROVE  DownForgets'
<1>1. CASE Crash
      BY <1>1 DEF Crash, DownForgets
<1>2. CASE LoadHistory
      BY <1>2 DEF LoadHistory, NewTaskFromDB, LoadHistoryTasks, DownForgets
<1>3. ASSUME NEW n \in Nodes, NEW s \in Subs, Forget(n, s) PROVE DownForgets'
      BY <1>3 DEF Forget, DownForgets, memVars
<1>4. ASSUME NEW t \in Tasks, NewTask(t) \/ DeleteTask(t) PROVE up'
      BY <1>4 DEF NewTask, InsertMainTask, DeleteTask, SetSubTaskDelete, restVars
<1>5. ASSUME NEW s \in Subs, PushSlot(s) \/ InsertSubTask(s) \/ Expire(s) PROVE up'
      BY <1>5 DEF PushSlot, InsertSubTask, Expire, At, restVars
<1>6. ASSUME NEW n \in Nodes, NEW s \in Subs,
             PushProcessing(n, s) \/ TaskPublish(n, s) \/ TaskStart(n, s)
      PROVE  up'
      BY <1>6 DEF PushProcessing, TaskPublish, TaskStart, SetStartTime, At
<1>7. ASSUME NEW n \in Nodes, NEW s \in Subs, NEW k \in {"good", "overrun", "failed"},
             ReceiveAnswer(n, s, k)
      PROVE  up'
      BY <1>7 DEF ReceiveAnswer, At
<1>8. ASSUME NEW a \in Agents, Conclude(a) PROVE up'
      BY <1>8 DEF Conclude, SubTaskResult, SetSubTaskFailed, PushWaitHead, FailedSubTask,
                  CompletedSubTask, CheckCompletedTask, CloseTask, SetTaskResult, At, restVars
<1>9. up' => DownForgets'
      BY DEF DownForgets
<1> QED
    BY <1>1, <1>2, <1>3, <1>4, <1>5, <1>6, <1>7, <1>8, <1>9 DEF Next

\* TimersStarted is kept: only TaskStart sets a timer, and it marks the task.
LEMMA TimersStartedStep ==
    ASSUME TypeOK, TimersStarted, Next
    PROVE  TimersStarted'
<1> USE RecoveryAssumption
        DEF RecoveryAssumption, TimersStarted, TypeOK, DBTypeOK, MemoryTypeOK, ActTypeOK, Agents
<1>1. ASSUME NEW t \in Tasks, NewTask(t) \/ DeleteTask(t) PROVE TimersStarted'
      BY <1>1 DEF NewTask, InsertMainTask, DeleteTask, SetSubTaskDelete
<1>2. ASSUME NEW s \in Subs, PushSlot(s) \/ InsertSubTask(s) PROVE TimersStarted'
      BY <1>2 DEF PushSlot, InsertSubTask, dbVars
<1>3. ASSUME NEW s \in Subs, Expire(s) PROVE TimersStarted'
      BY <1>3 DEF Expire, At, Begin, dbVars
<1>4. ASSUME NEW n \in Nodes, NEW s \in Subs,
             PushProcessing(n, s) \/ TaskPublish(n, s) \/ Forget(n, s)
      PROVE  TimersStarted'
      BY <1>4 DEF PushProcessing, TaskPublish, Forget, dbVars, memVars
<1>5. ASSUME NEW n \in Nodes, NEW s \in Subs, TaskStart(n, s) PROVE TimersStarted'
  <2>1. CASE s \in processing
    <3>1. timer' \subseteq timer \cup {s} /\ started' = started \cup {TaskOf[s]} /\ act' = act
          BY <1>5, <2>1 DEF TaskStart, SetStartTime
    <3> QED
          BY <3>1
  <2>2. CASE s \notin processing
        BY <1>5, <2>2 DEF TaskStart, SetStartTime
  <2> QED
        BY <2>1, <2>2
<1>6. ASSUME NEW n \in Nodes, NEW s \in Subs, NEW k \in {"good", "overrun", "failed"},
             ReceiveAnswer(n, s, k)
      PROVE  TimersStarted'
  <2>1. /\ timer' \subseteq timer /\ started' = started
        /\ \A u \in Subs : act'[u] = act[u]
        BY <1>6 DEF ReceiveAnswer, dbVars
  <2> QED
        BY <2>1
<1>7. ASSUME NEW a \in Agents, Conclude(a) PROVE TimersStarted'
  <2>1. timer' = timer /\ started' = started
        BY <1>7 DEF Conclude, SubTaskResult, SetSubTaskFailed, PushWaitHead, FailedSubTask,
                    CompletedSubTask, CheckCompletedTask, CloseTask, SetTaskResult, dbVars
  <2>2. ASSUME NEW u \in Subs, act'[u].pc # "ready"
        PROVE  act[u].pc # "ready" /\ act'[u].sub = act[u].sub
        BY <1>7, <2>2, ActKept
  <2> QED
        BY <2>1, <2>2
<1>8. CASE Crash \/ LoadHistory
      BY <1>8 DEF Crash, LoadHistory, NewTaskFromDB, LoadHistoryTasks, Ready, dbVars
<1> QED
    BY <1>1, <1>2, <1>3, <1>4, <1>5, <1>6, <1>7, <1>8 DEF Next

\* TodoFirst is kept: only NewTask adds to todo, for a task of which nothing was
\* in memory.
LEMMA TodoFirstStep ==
    ASSUME IInv, TodoFirst, Next
    PROVE  TodoFirst'
<1> USE DEF IInv, RecoveryInv, TodoFirst, TypeOK, MemoryTypeOK
<1>1. ASSUME NEW t \in Tasks, NewTask(t) PROVE TodoFirst'
      BY <1>1 DEF NewTask, InsertMainTask, InMemory, SubsOf
<1>2. ASSUME NEW t \in Tasks, DeleteTask(t) PROVE TodoFirst'
      BY <1>2 DEF DeleteTask, SetSubTaskDelete
<1>3. ASSUME NEW s \in Subs, PushSlot(s) \/ InsertSubTask(s) PROVE TodoFirst'
      BY <1>3 DEF PushSlot, InsertSubTask
<1>4. ASSUME NEW s \in Subs, Expire(s) PROVE TodoFirst'
      BY <1>4 DEF Expire, ActTypeOK, Begin
<1>5. ASSUME NEW n \in Nodes, NEW s \in Subs,
             PushProcessing(n, s) \/ TaskPublish(n, s) \/ TaskStart(n, s) \/ Forget(n, s)
      PROVE  TodoFirst'
      BY <1>5 DEF PushProcessing, TaskPublish, TaskStart, SetStartTime, Forget, memVars
<1>6. ASSUME NEW n \in Nodes, NEW s \in Subs, NEW k \in {"good", "overrun", "failed"},
             ReceiveAnswer(n, s, k)
      PROVE  TodoFirst'
  <2>1. \A o \in Outcomes(s, k) : o.pc # "ready" => o.sub = s
        BY DEF Outcomes, Begin, Ready
  <2> QED
        BY <1>6, <2>1 DEF ReceiveAnswer, ActTypeOK
<1>7. ASSUME NEW a \in Agents, Conclude(a) PROVE TodoFirst'
  <2>1. act[a].pc # "ready" /\ act[a].sub \in Subs
        BY <1>7, ActKept
  <2>2. \A b \in Agents : act'[b].pc # "ready" => act[b].pc # "ready" /\ act'[b].sub = act[b].sub
        BY <1>7, ActKept
  <2>3. todo' = todo /\ waiting' \subseteq waiting \cup {act[a].sub} /\ processing' \subseteq processing
        BY <1>7 DEF Conclude, SubTaskResult, SetSubTaskFailed, PushWaitHead, FailedSubTask,
                    CompletedSubTask, CheckCompletedTask, CloseTask, SetTaskResult
  <2> QED
        BY <2>1, <2>2, <2>3
<1>8. CASE Crash
      BY <1>8 DEF Crash
<1>9. CASE LoadHistory
      BY <1>9 DEF LoadHistory, NewTaskFromDB, LoadHistoryTasks, DownEmpty
<1> QED
    BY <1>1, <1>2, <1>3, <1>4, <1>5, <1>6, <1>7, <1>8, <1>9 DEF Next

\* Started tasks stay started.
LEMMA StartedStays ==
    ASSUME Next
    PROVE  started \subseteq started'
<1>1. CASE Crash \/ LoadHistory
      BY <1>1 DEF Crash, LoadHistory, NewTaskFromDB, LoadHistoryTasks, dbVars
<1>2. ~(Crash \/ LoadHistory) => started \subseteq started'
      BY DEF Next, Conclude, NewTask, InsertMainTask, DeleteTask, SetSubTaskDelete, PushSlot,
           InsertSubTask, Expire,
             PushProcessing, TaskPublish, TaskStart, SetStartTime, Forget, ReceiveAnswer, SubTaskResult,
             SetSubTaskFailed, PushWaitHead, FailedSubTask, CompletedSubTask,
             CheckCompletedTask, CloseTask, SetTaskResult, dbVars
<1> QED
    BY <1>1, <1>2

\* OneHand is kept: only PushWaitHead gives a subtask back, and takes it from
\* its node; only TaskStart has a subtask started, and it marks the task.
LEMMA OneHandStep ==
    ASSUME IInv, StartInv, Next
    PROVE  OneHand'
<1> USE DEF IInv, StartInv
<1> SUFFICES ASSUME NEW s \in Subs, TaskOf[s] \notin started'
             PROVE  InOneHand(s)'
    BY DEF OneHand
<1> USE RecoveryAssumption DEF RecoveryAssumption, TypeOK, MemoryTypeOK, Works, InOneHand
<1>S. TaskOf[s] \notin started
      BY StartedStays
<1>N. InOneHand(s)
      BY <1>S DEF OneHand
<1>A. s \in Agents /\ \A n \in Nodes : n \in Agents
      BY DEF Agents
<1>1. ASSUME NEW t \in Tasks, NewTask(t) PROVE InOneHand(s)'
  <2>1. /\ waiting' = waiting /\ uuid' = uuid /\ act' = act /\ processing' = processing
        /\ client' = client /\ todo' = todo \cup SubsOf(t)
        BY <1>1 DEF NewTask, InsertMainTask, restVars
  <2>2. CASE TaskOf[s] = t
    <3>1. /\ s \notin waiting \cup processing
          /\ \A n \in Nodes : act[n].pc # "ready" => act[n].sub # s
          BY <1>1, <1>A, <2>2 DEF NewTask, InsertMainTask, RecoveryInv, InMemory
    <3>2. state'[s] = "Waiting"
          BY <1>1, <2>2 DEF NewTask, InsertMainTask, SubsOf
    <3> QED
          BY <2>1, <3>1, <3>2 DEF Final
  <2>3. CASE TaskOf[s] # t
    <3>1. s \notin SubsOf(t) /\ state'[s] = state[s]
          BY <1>1, <2>3 DEF NewTask, InsertMainTask, SubsOf
    <3> QED
          BY <1>N, <2>1, <3>1
  <2> QED
        BY <2>2, <2>3
<1>2. ASSUME NEW t \in Tasks, DeleteTask(t) PROVE InOneHand(s)'
      BY <1>2, <1>N DEF DeleteTask, SetSubTaskDelete, restVars
<1>3. ASSUME NEW u \in Subs, PushSlot(u) PROVE InOneHand(s)'
  <2>1. CASE u = s
    <3>1. s \notin waiting \cup processing /\ \A n \in Nodes : ~Works(n, s)
          BY <1>3, <1>A, <2>1 DEF PushSlot, TodoFirst
    <3> QED
          BY <1>3, <2>1, <3>1 DEF PushSlot, restVars, Final
  <2>2. CASE u # s
        BY <1>3, <1>N, <2>2 DEF PushSlot, restVars
  <2> QED
        BY <2>1, <2>2
<1>4. ASSUME NEW u \in Subs, InsertSubTask(u) PROVE InOneHand(s)'
      BY <1>4, <1>N DEF InsertSubTask, restVars
<1>5. ASSUME NEW u \in Subs, Expire(u) PROVE InOneHand(s)'
  <2>1. \A n \in Nodes : act'[n] = act[n]
        BY <1>5 DEF Expire, ActTypeOK, Agents
  <2> QED
        BY <1>5, <1>N, <2>1 DEF Expire, restVars
<1>6. ASSUME NEW n \in Nodes, NEW u \in Subs, PushProcessing(n, u) PROVE InOneHand(s)'
  <2>1. CASE u = s
    <3>1. \A m \in Nodes : ~Works(m, s)
          BY <1>6, <1>N, <2>1 DEF PushProcessing
    <3>2. s \notin todo
          BY <1>6, <2>1 DEF PushProcessing, TodoFirst
    <3> QED
          BY <1>6, <2>1, <3>1, <3>2 DEF PushProcessing, Final
  <2>2. CASE u # s
        BY <1>6, <1>N, <2>2 DEF PushProcessing
  <2> QED
        BY <2>1, <2>2
<1>7. ASSUME NEW n \in Nodes, NEW u \in Subs, TaskPublish(n, u) PROVE InOneHand(s)'
      BY <1>7, <1>N DEF TaskPublish, Final
<1>8. ASSUME NEW n \in Nodes, NEW u \in Subs, TaskStart(n, u) PROVE InOneHand(s)'
  <2>1. u \in processing => u # s
        BY <1>8 DEF TaskStart, SetStartTime, DBTypeOK
  <2>2. state'[s] = state[s] /\ (s \in processing => \A m \in Nodes : client'[m][s] = client[m][s])
        BY <1>8, <2>1 DEF TaskStart, SetStartTime
  <2>3. UNCHANGED <<waiting, todo, processing, uuid, act>>
        BY <1>8 DEF TaskStart, SetStartTime
  <2> QED
        BY <1>N, <2>2, <2>3
<1>9. ASSUME NEW n \in Nodes, NEW u \in Subs, Forget(n, u) PROVE InOneHand(s)'
      BY <1>9, <1>N DEF Forget, memVars
<1>10. ASSUME NEW n \in Nodes, NEW u \in Subs, NEW k \in {"good", "overrun", "failed"},
              ReceiveAnswer(n, u, k)
       PROVE  InOneHand(s)'
  <2>1. /\ UNCHANGED <<waiting, todo, processing, uuid>>
        /\ \A m \in Nodes : client'[m][s] = "started" => client[m][s] = "started"
        BY <1>10 DEF ReceiveAnswer
  <2>2. CASE u # s
    <3>1. \A o \in Outcomes(u, k) : o.pc = "ready" \/ o.sub = u
          BY DEF Outcomes, Begin, Ready
    <3>2. state'[s] = state[s] /\ \A m \in Nodes : Works(m, s)' => Works(m, s)
          BY <1>10, <1>A, <2>2, <3>1 DEF ReceiveAnswer, ActTypeOK
    <3> QED
          BY <1>N, <2>1, <3>2
  <2>3. CASE u = s /\ ~(s \in processing /\ uuid[s] = n)
        BY <1>10, <1>N, <2>1, <2>3 DEF ReceiveAnswer
  <2>4. CASE u = s /\ s \in processing /\ uuid[s] = n
    <3>1. client[n][s] # "started"
          BY <1>N, <2>4
    <3>2. k = "failed"
          BY <1>10, <2>4, <3>1 DEF ReceiveAnswer
    <3>3. \A o \in Outcomes(s, k) : o.pc # "result"
          BY <3>2 DEF Outcomes, Begin
    <3>4. state' = state /\ \A m \in Nodes \ {n} : act'[m] = act[m]
          BY <1>10, <2>4, <3>3 DEF ReceiveAnswer, ActTypeOK, Agents
    <3>5. s \notin waiting \cup todo
          BY <1>N, <2>4 DEF TodoFirst
    <3> QED
          BY <1>N, <2>1, <2>4, <3>4, <3>5
  <2> QED
        BY <2>2, <2>3, <2>4
<1>11. ASSUME NEW a \in Agents, Conclude(a) PROVE InOneHand(s)'
  <2>1. /\ act[a].pc # "ready" /\ act[a].sub \in Subs
        /\ \A b \in Agents : /\ b # a => act'[b] = act[b]
                             /\ act'[b].pc # "ready" => /\ act[b].pc # "ready"
                                                        /\ act'[b].sub = act[b].sub
        BY <1>11, ActKept
  <2>2. act[a].sub = s => a \in Nodes
        BY <1>S, <2>1 DEF TimersStarted, Agents
  <2>3. CASE SubTaskResult(a) \/ SetSubTaskFailed(a)
    <3>1. \A m \in Nodes : Works(m, s)' => Works(m, s)
          BY <1>A, <2>1, <2>3 DEF SubTaskResult, SetSubTaskFailed, At
    <3>2. UNCHANGED <<waiting, todo, processing, uuid, state, client>>
          BY <2>3 DEF SubTaskResult, SetSubTaskFailed, restVars
    <3> QED
          BY <1>N, <3>1, <3>2
  <2>4. CASE PushWaitHead(a)
    <3>1. CASE act[a].sub = s
      <4>1. Works(a, s) /\ uuid[s] = a /\ s \in processing \ (waiting \cup todo)
            BY <1>N, <2>2, <2>4, <3>1 DEF PushWaitHead, At
      <4>2. \A m \in Nodes : ~Works(m, s)'
            BY <1>N, <1>A, <2>1, <2>4, <4>1 DEF PushWaitHead, Ready, ActTypeOK
      <4>3. state'[s] = "Waiting" /\ uuid'[s] = None /\ processing' = processing
            BY <2>4, <3>1 DEF PushWaitHead
      <4> QED
            BY <4>2, <4>3 DEF Final
    <3>2. CASE act[a].sub # s
      <4>1. \A m \in Nodes : Works(m, s)' => Works(m, s)
            BY <1>A, <2>1, <2>4, <3>2 DEF PushWaitHead, Ready, ActTypeOK
      <4>2. /\ UNCHANGED <<todo, processing, client>>
            /\ uuid'[s] = uuid[s] /\ state'[s] = state[s] /\ (s \in waiting' <=> s \in waiting)
            BY <2>4, <3>2 DEF PushWaitHead, restVars
      <4> QED
            BY <1>N, <4>1, <4>2
    <3> QED
          BY <3>1, <3>2
  <2>5. CASE FailedSubTask(a) \/ CompletedSubTask(a)
    <3>1. CASE act[a].sub = s
      <4>1. Works(a, s) /\ uuid[s] = a /\ s \in processing \ (waiting \cup todo)
            BY <1>N, <2>2, <2>5, <3>1 DEF FailedSubTask, CompletedSubTask, At
      <4>2. ~Works(a, s)'
            BY <2>1, <2>5 DEF FailedSubTask, CompletedSubTask, Ready, ActTypeOK
      <4>3. \A m \in Nodes : ~Works(m, s)'
            BY <1>N, <1>A, <2>1, <4>1, <4>2
      <4>4. s \notin processing' \cup waiting' \cup todo'
            BY <2>5, <3>1, <4>1 DEF FailedSubTask, CompletedSubTask
      <4> QED
            BY <4>3, <4>4
    <3>2. CASE act[a].sub # s
      <4>1. \A m \in Nodes : Works(m, s)' => Works(m, s)
            BY <1>A, <2>1, <2>5, <3>2
      <4>2. /\ UNCHANGED <<todo, waiting, uuid, client>>
            /\ state'[s] = state[s] /\ (s \in processing' <=> s \in processing)
            BY <2>5, <3>2 DEF FailedSubTask, CompletedSubTask, restVars
      <4> QED
            BY <1>N, <4>1, <4>2
    <3> QED
          BY <3>1, <3>2
  <2>6. CASE CheckCompletedTask(a) \/ CloseTask(a) \/ SetTaskResult(a)
    <3>1. ~Works(a, s)'
          BY <2>6 DEF CheckCompletedTask, CloseTask, SetTaskResult, At, Ready, ActTypeOK
    <3>2. \A m \in Nodes : Works(m, s)' => Works(m, s)
          BY <1>A, <2>1, <3>1
    <3>3. UNCHANGED <<todo, processing, uuid, state, client>> /\ waiting' \subseteq waiting
          BY <2>6 DEF CheckCompletedTask, CloseTask, SetTaskResult, restVars
    <3> QED
          BY <1>N, <3>2, <3>3
  <2> QED
        BY <1>11, <2>3, <2>4, <2>5, <2>6 DEF Conclude
<1>12. CASE Crash
       BY <1>12, <1>A DEF Crash, Ready
<1>13. CASE LoadHistory
  <2>1. ~up /\ uuid[s] = None /\ todo = {} /\ processing = {} /\ \A n \in Nodes : ~Works(n, s)
        BY <1>13, <1>A DEF LoadHistory, NewTaskFromDB, LoadHistoryTasks, RecoveryInv, DownEmpty, DownForgets
  <2>2. s \in waiting' => state'[s] = "Waiting"
        BY <1>13 DEF LoadHistory, NewTaskFromDB, LoadHistoryTasks
  <2>3. UNCHANGED <<todo, processing, uuid, act>>
        BY <1>13 DEF LoadHistory, NewTaskFromDB, LoadHistoryTasks
  <2> QED
        BY <2>1, <2>2, <2>3 DEF Final
<1> QED
    BY <1>1, <1>2, <1>3, <1>4, <1>5, <1>6, <1>7, <1>8, <1>9, <1>10, <1>11, <1>12, <1>13 DEF Next

\* A task that is closed was closed before, or was just found complete; and one
\* that has ended was being closed.
LEMMA ClosingComes ==
    ASSUME TypeOK, Next, NEW t \in Tasks, Closing(t)'
    PROVE  Closing(t) \/ \E a \in Agents : CheckCompletedTask(a) /\ Done(t)
<1>1. PICK a \in Agents : act'[a].pc \in {"close", "outcome"} /\ TaskOf[act'[a].sub] = t
      BY DEF Closing
<1>2. /\ act[a].sub = act'[a].sub
      /\ act[a].pc \in {"close", "outcome"} \/ CheckCompletedTask(a)
      /\ act[a].pc = "check" => Done(TaskOf[act[a].sub])
      BY <1>1, ClosingStep
<1>3. CASE act[a].pc \in {"close", "outcome"}
      BY <1>1, <1>2, <1>3 DEF Closing
<1>4. CASE CheckCompletedTask(a)
      BY <1>1, <1>2, <1>4 DEF CheckCompletedTask, At
<1> QED
    BY <1>2, <1>3, <1>4

\* A task gets its outcome only from a goroutine that is closing it.
LEMMA EndComes ==
    ASSUME TypeOK, Next, NEW t \in Tasks, job'[t] \in Final
    PROVE  job[t] \in Final \/ Closing(t)
<1>1. CASE job'[t] = job[t]
      BY <1>1
<1>2. CASE job'[t] # job[t]
      BY <1>2, FinalByResult DEF Closing
<1> QED
    BY <1>1, <1>2

\* How a subtask of which nothing was in memory gets there.
LEMMA Arrivals ==
    ASSUME TypeOK, Next, NEW s \in Subs,
           s \notin todo \cup waiting \cup processing, s \in todo' \cup waiting' \cup processing'
    PROVE  \/ NewTask(TaskOf[s])
           \/ \E a \in Agents : PushWaitHead(a) /\ act[a].sub = s
           \/ LoadHistory /\ TaskOf[s] \in Unfinished
<1>1. ASSUME NEW t \in Tasks, NewTask(t) PROVE NewTask(TaskOf[s])
      BY <1>1 DEF NewTask, InsertMainTask, SubsOf
<1>2. ASSUME NEW t \in Tasks, DeleteTask(t) PROVE FALSE
      BY <1>2 DEF DeleteTask, SetSubTaskDelete
<1>3. ASSUME NEW u \in Subs, PushSlot(u) \/ InsertSubTask(u) \/ Expire(u) PROVE FALSE
      BY <1>3 DEF PushSlot, InsertSubTask, Expire
<1>4. ASSUME NEW n \in Nodes, NEW u \in Subs,
             PushProcessing(n, u) \/ TaskPublish(n, u) \/ TaskStart(n, u) \/ Forget(n, u)
      PROVE  FALSE
      BY <1>4 DEF PushProcessing, TaskPublish, TaskStart, SetStartTime, Forget, memVars
<1>5. ASSUME NEW n \in Nodes, NEW u \in Subs, NEW k \in {"good", "overrun", "failed"},
             ReceiveAnswer(n, u, k)
      PROVE  FALSE
      BY <1>5 DEF ReceiveAnswer
<1>6. ASSUME NEW a \in Agents, Conclude(a), ~PushWaitHead(a) PROVE FALSE
      BY <1>6 DEF Conclude, SubTaskResult, SetSubTaskFailed, FailedSubTask,
                  CompletedSubTask, CheckCompletedTask, CloseTask, SetTaskResult
<1>7. ASSUME NEW a \in Agents, PushWaitHead(a) PROVE act[a].sub = s
      BY <1>7 DEF PushWaitHead
<1>8. ~Crash
      BY DEF Crash
<1>9. CASE LoadHistory
      BY <1>9 DEF LoadHistory, NewTaskFromDB, LoadHistoryTasks, Open, SubsOf
<1> QED
    BY <1>1, <1>2, <1>3, <1>4, <1>5, <1>6, <1>7, <1>8, <1>9 DEF Next

\* A task that is being closed has a row.
LEMMA ClosingHasRow ==
    ASSUME IInv, NEW t \in Tasks, Closing(t)
    PROVE  job[t] # "None"
  BY DEF IInv, RecoveryInv, InMemory, Closing

\* NothingLeft is kept: a task is found complete when nothing of it is in
\* memory, and what is in no queue is not brought back.
LEMMA NothingLeftStep ==
    ASSUME IInv, StartInv, Next
    PROVE  NothingLeft'
<1> USE RecoveryAssumption DEF IInv, StartInv
<1> SUFFICES ASSUME NEW s \in Subs, TaskOf[s] \notin started',
                    job'[TaskOf[s]] \in Final \/ Closing(TaskOf[s])'
             PROVE  s \notin todo' \cup waiting' \cup processing'
    BY DEF NothingLeft
<1> DEFINE t == TaskOf[s]
<1>1. t \in Tasks /\ t \notin started
      BY StartedStays DEF RecoveryAssumption
<1>2. CASE \E a \in Agents : CheckCompletedTask(a) /\ Done(t)
  <2>1. s \notin todo \cup waiting \cup processing
        BY <1>1, <1>2 DEF OneHand, InOneHand, Done, SubsOf
  <2> QED
        BY <1>2, <2>1 DEF CheckCompletedTask
<1>3. CASE job[t] \in Final \/ Closing(t)
  <2>1. s \notin todo \cup waiting \cup processing
        BY <1>1, <1>3 DEF NothingLeft
  <2>2. ~NewTask(t)
        BY <1>1, <1>3, ClosingHasRow DEF NewTask, InsertMainTask, Final
  <2>3. ASSUME NEW a \in Agents, PushWaitHead(a), act[a].sub = s PROVE FALSE
    <3>1. Works(a, s)
          BY <2>3 DEF Works, PushWaitHead, At
    <3>2. a \in Nodes
          BY <1>1, <3>1 DEF TimersStarted, Works, Agents
    <3> QED
          BY <1>1, <2>1, <3>1, <3>2 DEF OneHand, InOneHand
  <2>4. ~(LoadHistory /\ t \in Unfinished)
        BY <1>3 DEF LoadHistory, NewTaskFromDB, LoadHistoryTasks, RecoveryInv, DownEmpty,
             Closing, Unfinished, Final
  <2> QED
        BY <2>1, <2>2, <2>3, <2>4, Arrivals
<1> QED
    BY <1>1, <1>2, <1>3, ClosingComes, EndComes

\* Only NewTask opens a record: TaskStart leaves the record of a task that has
\* ended alone, because nothing of such a task can be started.
LEMMA RecordStep ==
    ASSUME IInv, StartInv, Next, NEW t \in Tasks, ~NewTask(t)
    PROVE  /\ job'[t] \in {"Create", "Dealing"} => job[t] \in {"Create", "Dealing"}
           /\ job[t] \in {"Create", "Dealing"} /\ ~(\E a \in Agents : SetTaskResult(a))
              => job'[t] \in {"Create", "Dealing"}
           /\ job[t] = "None" \/ job[t] \in Final
              => job'[t] = job[t] \/ \E a \in Agents : SetTaskResult(a)
<1> USE DEF IInv, StartInv, TypeOK, DBTypeOK
<1>1. ASSUME NEW u \in Tasks, NewTask(u) PROVE job'[t] = job[t]
      BY <1>1 DEF NewTask, InsertMainTask
<1>2. ASSUME NEW u \in Tasks, DeleteTask(u) PROVE job' = job
      BY <1>2 DEF DeleteTask, SetSubTaskDelete
<1>3. ASSUME NEW s \in Subs, PushSlot(s) \/ InsertSubTask(s) \/ Expire(s) PROVE job' = job
      BY <1>3 DEF PushSlot, InsertSubTask, Expire, dbVars
<1>4. ASSUME NEW n \in Nodes, NEW s \in Subs,
             PushProcessing(n, s) \/ TaskPublish(n, s) \/ Forget(n, s)
      PROVE  job' = job
      BY <1>4 DEF PushProcessing, TaskPublish, Forget, dbVars
<1>5. ASSUME NEW n \in Nodes, NEW s \in Subs, TaskStart(n, s)
      PROVE  job'[t] = job[t]
             \/ (job'[t] \in {"Create", "Dealing"} /\ job[t] \in {"Create", "Dealing"})
  <2>1. CASE s \in processing /\ TaskOf[s] = t /\ t \notin started
    <3>1. job[t] # "None"
          BY <2>1 DEF RecoveryInv, InMemory
    <3>2. job[t] \notin Final
          BY <2>1 DEF NothingLeft
    <3>3. job'[t] = "Dealing"
          BY <1>5, <2>1 DEF TaskStart, SetStartTime
    <3> QED
          BY <3>1, <3>2, <3>3
  <2>2. CASE ~(s \in processing /\ TaskOf[s] = t /\ t \notin started)
        BY <1>5, <2>2 DEF TaskStart, SetStartTime
  <2> QED
        BY <2>1, <2>2
<1>6. ASSUME NEW n \in Nodes, NEW s \in Subs, NEW k \in {"good", "overrun", "failed"},
             ReceiveAnswer(n, s, k)
      PROVE  job' = job
      BY <1>6 DEF ReceiveAnswer, dbVars
<1>7. ASSUME NEW a \in Agents, Conclude(a), ~SetTaskResult(a) PROVE job' = job
      BY <1>7 DEF Conclude, SubTaskResult, SetSubTaskFailed, PushWaitHead, FailedSubTask,
                  CompletedSubTask, CheckCompletedTask, CloseTask, dbVars
<1>8. ASSUME NEW a \in Agents, SetTaskResult(a)
      PROVE  job'[t] \in {"Create", "Dealing"} => job[t] \in {"Create", "Dealing"}
      BY <1>8 DEF SetTaskResult, Final
<1>9. CASE Crash \/ LoadHistory
      BY <1>9 DEF Crash, LoadHistory, NewTaskFromDB, LoadHistoryTasks, dbVars
<1> QED
    BY <1>1, <1>2, <1>3, <1>4, <1>5, <1>6, <1>7, <1>8, <1>9 DEF Next, Final

\* While the record of a task is open, what closes it goes on to do so.
LEMMA ClosingKept ==
    ASSUME TypeOK, NEW a \in Agents, Conclude(a), NEW t \in Tasks,
           job'[t] \in {"Create", "Dealing"}, Closing(t)
    PROVE  Closing(t)'
<1>1. PICK b \in Agents : act[b].pc \in {"close", "outcome"} /\ TaskOf[act[b].sub] = t
      BY DEF Closing
<1>2. CASE act'[b] = act[b]
      BY <1>1, <1>2 DEF Closing
<1>3. CASE b = a
  <2>1. CASE CloseTask(a)
        BY <1>1, <1>3, <2>1 DEF CloseTask, Closing, TypeOK, ActTypeOK
  <2>2. ~SetTaskResult(a)
        BY <1>1, <1>3 DEF SetTaskResult, TypeOK, DBTypeOK
  <2> QED
        BY <1>1, <1>3, <2>1, <2>2
        DEF Conclude, SubTaskResult, SetSubTaskFailed, PushWaitHead, FailedSubTask,
            CompletedSubTask, CheckCompletedTask, At
<1> QED
    BY <1>2, <1>3, ActKept

\* AllKnown is kept.
LEMMA AllKnownStep ==
    ASSUME RInv, Next
    PROVE  AllKnown'
<1> USE RecoveryAssumption
        DEF RecoveryAssumption, RInv, IInv, TypeOK, DBTypeOK, MemoryTypeOK, AllKnown, Known, SubsOf
<1> SUFFICES ASSUME up', NEW t \in Tasks, job'[t] \in {"Create", "Dealing"}
             PROVE  Known(t)'
    OBVIOUS
<1>1. CASE NewTask(t)
      BY <1>1 DEF NewTask, InsertMainTask
<1>2. CASE LoadHistory
  <2>1. tasks' = Unfinished /\ job' = job /\ deleted' = deleted
        BY <1>2 DEF LoadHistory, NewTaskFromDB, LoadHistoryTasks, dbVars
  <2> QED
        BY <2>1 DEF Unfinished
<1>3. CASE ~NewTask(t) /\ ~LoadHistory
  <2>1. job[t] \in {"Create", "Dealing"}
        BY <1>3, RecordStep
  <2>2. ~Crash
        BY DEF Crash
  <2>3. ASSUME NEW u \in Tasks, NewTask(u) PROVE Known(t) /\ Known(t)'
        BY <1>3, <2>1, <2>3 DEF NewTask, InsertMainTask, Closing, restVars
  <2>4. ASSUME NEW u \in Tasks, DeleteTask(u) PROVE Known(t)'
    <3>1. Known(t)
          BY <2>1, <2>4 DEF DeleteTask, SetSubTaskDelete
    <3>2. /\ tasks' = tasks \ {u} /\ deleted \subseteq deleted'
          /\ row' = row /\ todo' = todo /\ insert' = insert /\ act' = act
          BY <2>4 DEF DeleteTask, SetSubTaskDelete
    <3>3. u \in deleted' \/ (u \in Deletable /\ \A s \in SubsOf(u) : row[s] = "None")
          BY <2>4 DEF DeleteTask, SetSubTaskDelete
    <3>4. \A s \in SubsOf(u) : s \notin todo \cup insert
          BY <2>4 DEF DeleteTask, SetSubTaskDelete
    <3> QED
          BY <3>1, <3>2, <3>3, <3>4 DEF Closing
  <2>5. ASSUME NEW s \in Subs, PushSlot(s) \/ InsertSubTask(s) \/ Expire(s) PROVE Known(t)'
    <3>1. Known(t)
          BY <2>1, <2>5 DEF PushSlot, InsertSubTask, Expire, At
    <3>2. Closing(t) => Closing(t)'
          BY <2>5 DEF Closing, PushSlot, InsertSubTask, Expire, At, ActTypeOK
    <3>3. /\ tasks' = tasks /\ deleted' = deleted
          /\ todo' \cup insert' \subseteq todo \cup insert
          /\ \A u \in Subs : row'[u] # row[u] => u \in insert
          BY <2>5 DEF PushSlot, InsertSubTask, Expire, dbVars
    <3> QED
          BY <3>1, <3>2, <3>3
  <2>6. ASSUME NEW n \in Nodes, NEW s \in Subs,
               PushProcessing(n, s) \/ TaskPublish(n, s) \/ TaskStart(n, s) \/ Forget(n, s)
        PROVE  Known(t)'
    <3>1. Known(t)
          BY <2>1, <2>6 DEF PushProcessing, TaskPublish, TaskStart, SetStartTime, Forget, At
    <3>2. /\ tasks' = tasks /\ deleted' = deleted /\ act' = act
          /\ todo' = todo /\ insert' = insert
          BY <2>6 DEF PushProcessing, TaskPublish, TaskStart, SetStartTime, Forget, dbVars, memVars
    <3>3. \A u \in Subs : row[u] = "None" => row'[u] = "None"
      <4>1. row' \in {row, Update(s, "Publish"), Update(s, "Dealing")}
            BY <2>6 DEF PushProcessing, TaskPublish, TaskStart, SetStartTime, Forget, dbVars
      <4> QED
            BY <4>1 DEF Update
    <3> QED
          BY <3>1, <3>2, <3>3 DEF Closing
  <2>7. ASSUME NEW n \in Nodes, NEW s \in Subs, NEW k \in {"good", "overrun", "failed"},
               ReceiveAnswer(n, s, k)
        PROVE  Known(t)'
    <3>1. Known(t)
          BY <2>1, <2>7 DEF ReceiveAnswer, At
    <3>2. Closing(t) => Closing(t)'
          BY <2>7 DEF Closing, ReceiveAnswer, At, ActTypeOK
    <3>3. UNCHANGED <<tasks, deleted, todo, insert, row>>
          BY <2>7 DEF ReceiveAnswer, dbVars
    <3> QED
          BY <3>1, <3>2, <3>3
  <2>8. ASSUME NEW a \in Agents, Conclude(a) PROVE Known(t)'
    <3>1. Known(t)
          BY <2>1, <2>8 DEF Conclude, SubTaskResult, SetSubTaskFailed, PushWaitHead,
                            FailedSubTask, CompletedSubTask, CheckCompletedTask, CloseTask,
                            SetTaskResult, At
    <3>2. /\ deleted' = deleted /\ todo' = todo /\ insert' = insert
          /\ \A u \in Subs : row[u] = "None" => row'[u] = "None"
          BY <2>8 DEF Conclude, SubTaskResult, SetSubTaskFailed, PushWaitHead, FailedSubTask,
                      CompletedSubTask, CheckCompletedTask, CloseTask, SetTaskResult, Update,
                      dbVars
    <3>3. Closing(t) => Closing(t)'
          BY <2>1, <2>8, ClosingKept
    <3>4. t \in tasks => t \in tasks' \/ Closing(t)'
      <4>1. CASE CloseTask(a)
            BY <4>1 DEF CloseTask, At, Closing, ActTypeOK
      <4>2. CASE ~CloseTask(a)
            BY <2>8, <4>2 DEF Conclude, SubTaskResult, SetSubTaskFailed, PushWaitHead,
                  FailedSubTask, CompletedSubTask, CheckCompletedTask, SetTaskResult
      <4> QED
            BY <4>1, <4>2
    <3> QED
          BY <3>1, <3>2, <3>3, <3>4
  <2> QED
      BY <1>3, <2>2, <2>3, <2>4, <2>5, <2>6, <2>7, <2>8 DEF Next
<1> QED
    BY <1>1, <1>2, <1>3

-----------------------------------------------------------------------------
(***************************************************************************)
(* The theorems.                                                           *)
(***************************************************************************)
\* The invariant holds in every reachable state.
THEOREM RefinementInvariant == Spec => []RInv
<1>1. Init => StartInv /\ AllKnown
      BY DEF Init, StartInv, DownForgets, TimersStarted, TodoFirst, OneHand, InOneHand,
             NothingLeft, AllKnown, Works, Closing, Ready, Agents
<1>2. IInv /\ StartInv /\ AllKnown /\ [Next]_vars => StartInv' /\ AllKnown'
  <2>1. CASE UNCHANGED vars
        BY <2>1 DEF StartInv, DownForgets, TimersStarted, TodoFirst, OneHand, InOneHand,
                    NothingLeft, AllKnown, Known, Works, Closing, vars, dbVars, memVars, restVars
  <2>2. ASSUME RInv, Next PROVE StartInv' /\ AllKnown'
    <3>1. TypeOK
          BY <2>2 DEF RInv, IInv
    <3> QED
          BY <2>2, <3>1, DownForgetsStep, TimersStartedStep, TodoFirstStep, OneHandStep,
             NothingLeftStep, AllKnownStep
          DEF RInv, StartInv
  <2> QED
        BY <2>1, <2>2 DEF RInv
<1>3. Spec => []IInv
      BY RecoveryInvariant
<1> QED
    BY <1>1, <1>2, <1>3, PTL DEF Spec, RInv

\* A running cloud knows every task that the DB holds as unfinished.
THEOREM TasksRemembered == Spec => []Remembered
<1>1. RInv => Remembered
      BY DEF RInv, AllKnown, Known, Remembered, Ending, Closing
<1> QED
    BY <1>1, RefinementInvariant, PTL

\* A step that moves nothing of what TaskLife sees.
LEMMA Stutter ==
    ASSUME UNCHANGED <<Record, Stored, Held, up, verdict, deleted>>
    PROVE  UNCHANGED Life!vars
  BY DEF Life!vars

\* A step that opens and ends no task keeps the record of TaskLife.
LEMMA SameRecord ==
    ASSUME \A t \in Tasks : \/ job'[t] = job[t]
                            \/ job[t] \in {"Create", "Dealing"} /\ job'[t] \in {"Create", "Dealing"}
    PROVE  Record' = Record
  BY DEF Record

\* A step that inserts no row keeps what TaskLife has stored.
LEMMA SameStored ==
    ASSUME \A s \in Subs : row'[s] = "None" <=> row[s] = "None"
    PROVE  Stored' = Stored
  BY DEF Stored

\* A step that keeps the list, and starts and ends no closing, keeps what is in hand.
LEMMA SameHeld ==
    ASSUME tasks' = tasks,
           \A a \in Agents : \/ act'[a] = act[a]
                             \/ /\ act[a].pc \notin {"close", "outcome"}
                                /\ act'[a].pc \notin {"close", "outcome"}
    PROVE  Held' = Held
  BY DEF Held, Closing

\* The beginnings and the requests.
LEMMA RequestStep ==
    ASSUME TypeOK, NEW t \in Tasks, NewTask(t) \/ DeleteTask(t)
    PROVE  Life!Next
<1> USE DEF TypeOK, DBTypeOK, MemoryTypeOK
<1>1. CASE NewTask(t)
  <2>1. /\ up /\ Record[t] = "None" /\ Record' = [Record EXCEPT ![t] = "Open"]
        BY <1>1 DEF NewTask, InsertMainTask, Record
  <2>2. Held' = Held \cup {t} /\ Stored' = Stored
        BY <1>1 DEF NewTask, InsertMainTask, Held, Closing, Stored
  <2>3. UNCHANGED <<up, verdict, deleted>>
        BY <1>1 DEF NewTask, InsertMainTask, restVars
  <2> QED
        BY <2>1, <2>2, <2>3 DEF Life!Next, Life!Accept
<1>2. CASE DeleteTask(t)
  <2>1. up /\ t \in Held \cap Deletable /\ Record' = Record /\ Stored' = Stored
        BY <1>2 DEF DeleteTask, SetSubTaskDelete, Record, Stored, Held
  <2>2. Held' \in {Held, Held \ {t}}
    <3>1. tasks' = tasks \ {t} /\ act' = act
          BY <1>2 DEF DeleteTask, SetSubTaskDelete
    <3>2. CASE Closing(t)
          BY <3>1, <3>2 DEF Held, Closing
    <3>3. CASE ~Closing(t)
          BY <3>1, <3>3 DEF Held, Closing
    <3> QED
          BY <3>2, <3>3
  <2>3. deleted' = IF Stored \cap Life!SubsOf(t) = {} THEN deleted ELSE deleted \cup {t}
        BY <1>2 DEF DeleteTask, SetSubTaskDelete, Stored, SubsOf, Life!SubsOf
  <2>4. UNCHANGED <<up, verdict>>
        BY <1>2 DEF DeleteTask, SetSubTaskDelete, restVars
  <2> QED
        BY <2>1, <2>2, <2>3, <2>4 DEF Life!Next, Life!Withdraw
<1> QED
    BY <1>1, <1>2

\* The verdict on a subtask that is in memory is a Decide.
LEMMA DecideStep ==
    ASSUME RecoveryAssumption, NEW s \in Subs, up, job[TaskOf[s]] # "None",
           verdict' \in {verdict, verdict \cup {s}}, job' = job, Stored' = Stored, Held' = Held,
           UNCHANGED <<up, deleted>>
    PROVE  Life!Next \/ UNCHANGED Life!vars
<1>1. Record' = Record
      BY SameRecord
<1>2. Record[TaskOf[s]] # "None"
      BY DEF Record, RecoveryAssumption
<1> QED
    BY <1>1, <1>2 DEF Life!Next, Life!Decide, Life!vars

\* Every step of Recovery is a step of TaskLife or moves nothing of it.
LEMMA LifeStep ==
    ASSUME RInv, Next
    PROVE  Life!Next \/ UNCHANGED Life!vars
<1> USE RecoveryAssumption DEF RInv, IInv, RecoveryInv, TypeOK
<1>1. ASSUME NEW t \in Tasks, NewTask(t) \/ DeleteTask(t) PROVE Life!Next
      BY <1>1, RequestStep
<1>2. ASSUME NEW s \in Subs, PushSlot(s) PROVE UNCHANGED Life!vars
      BY <1>2, Stutter, SameRecord, SameStored, SameHeld DEF PushSlot, dbVars, restVars
<1>3. ASSUME NEW s \in Subs, Expire(s) PROVE UNCHANGED Life!vars
  <2>1. \A a \in Agents : \/ act'[a] = act[a]
                          \/ /\ act[a].pc \notin {"close", "outcome"}
                             /\ act'[a].pc \notin {"close", "outcome"}
        BY <1>3 DEF Expire, At, Begin, ActTypeOK, Agents
  <2> QED
        BY <1>3, <2>1, Stutter, SameRecord, SameStored, SameHeld DEF Expire, dbVars, restVars
<1>4. ASSUME NEW s \in Subs, InsertSubTask(s) PROVE Life!Next
  <2>1. Record[TaskOf[s]] # "None"
        BY <1>4 DEF InsertSubTask, InMemory, Record, RecoveryAssumption
  <2>2. Stored' = Stored \cup {s}
        BY <1>4 DEF InsertSubTask, Stored, DBTypeOK
  <2>3. up /\ Record' = Record /\ Held' = Held /\ UNCHANGED <<up, verdict, deleted>>
        BY <1>4, SameRecord, SameHeld DEF InsertSubTask, restVars
  <2> QED
        BY <2>1, <2>2, <2>3 DEF Life!Next, Life!Store
<1>5. ASSUME NEW n \in Nodes, NEW s \in Subs,
             PushProcessing(n, s) \/ TaskPublish(n, s) \/ TaskStart(n, s) \/ Forget(n, s)
      PROVE  UNCHANGED Life!vars
  <2>1. row' \in {row, Update(s, "Publish"), Update(s, "Dealing")}
        BY <1>5 DEF PushProcessing, TaskPublish, TaskStart, SetStartTime, Forget, dbVars
  <2>2. Stored' = Stored
        BY <2>1, SameStored DEF Update, DBTypeOK
  <2>3. ASSUME NEW t \in Tasks
        PROVE  \/ job'[t] = job[t]
               \/ job[t] \in {"Create", "Dealing"} /\ job'[t] \in {"Create", "Dealing"}
    <3>1. CASE TaskStart(n, s)
      <4>1. CASE s \in processing /\ TaskOf[s] = t /\ t \notin started
        <5>1. job[t] # "None" /\ job[t] \notin Final
              BY <4>1 DEF InMemory, StartInv, NothingLeft, MemoryTypeOK
        <5> QED
              BY <3>1, <4>1, <5>1 DEF TaskStart, SetStartTime, DBTypeOK
      <4>2. CASE ~(s \in processing /\ TaskOf[s] = t /\ t \notin started)
            BY <3>1, <4>2 DEF TaskStart, SetStartTime, DBTypeOK
      <4> QED
            BY <4>1, <4>2
    <3>2. CASE ~TaskStart(n, s)
          BY <1>5, <3>2 DEF PushProcessing, TaskPublish, Forget, dbVars
    <3> QED
          BY <3>1, <3>2
  <2>4. UNCHANGED <<tasks, act, up, verdict, deleted>>
        BY <1>5 DEF PushProcessing, TaskPublish, TaskStart, SetStartTime, Forget, dbVars, memVars
  <2> QED
        BY <2>2, <2>3, <2>4, Stutter, SameRecord, SameHeld
<1>6. ASSUME NEW n \in Nodes, NEW s \in Subs, NEW k \in {"good", "overrun", "failed"},
             ReceiveAnswer(n, s, k)
      PROVE  Life!Next \/ UNCHANGED Life!vars
  <2>1. \A o \in Outcomes(s, k) : o.pc \notin {"close", "outcome"}
        BY DEF Outcomes, Begin, Ready
  <2>2. \A a \in Agents : \/ act'[a] = act[a]
                          \/ /\ act[a].pc \notin {"close", "outcome"}
                             /\ act'[a].pc \notin {"close", "outcome"}
        BY <1>6, <2>1 DEF ReceiveAnswer, At, ActTypeOK, Agents
  <2>3. /\ up /\ job' = job /\ row' = row /\ tasks' = tasks /\ UNCHANGED <<up, deleted>>
        /\ verdict' = verdict \/ (s \in processing /\ verdict' = verdict \cup {s})
        BY <1>6 DEF ReceiveAnswer, At, dbVars
  <2>4. Held' = Held /\ Stored' = Stored
        BY <2>2, <2>3, SameHeld, SameStored
  <2>5. CASE verdict' = verdict
        BY <2>3, <2>4, <2>5, Stutter, SameRecord
  <2>6. CASE s \in processing /\ verdict' = verdict \cup {s}
    <3>1. job[TaskOf[s]] # "None"
          BY <2>6 DEF InMemory
    <3> QED
          BY <2>3, <2>4, <2>6, <3>1, DecideStep
  <2> QED
        BY <2>3, <2>5, <2>6
<1>7. ASSUME NEW a \in Agents, Conclude(a) PROVE Life!Next \/ UNCHANGED Life!vars
  <2>1. /\ act[a].pc # "ready" /\ act[a].sub \in Subs
        /\ \A b \in Agents : b # a => act'[b] = act[b]
        BY <1>7, ActKept
  <2>2. CASE SetSubTaskFailed(a)
    <3>1. job[TaskOf[act[a].sub]] # "None"
          BY <2>1 DEF InMemory
    <3>2. act[a].pc = "failed" /\ act'[a].pc = "reschedule"
          BY <2>2 DEF SetSubTaskFailed, At, ActTypeOK
    <3>3. /\ up /\ job' = job /\ tasks' = tasks /\ UNCHANGED <<up, deleted>>
          /\ verdict' = verdict \cup {act[a].sub}
          BY <2>2 DEF SetSubTaskFailed, At
    <3>4. Stored' = Stored
          BY <2>2, SameStored DEF SetSubTaskFailed, Update, DBTypeOK
    <3>5. Held' = Held
          BY <2>1, <3>2, <3>3, SameHeld
    <3> QED
          BY <2>1, <3>1, <3>3, <3>4, <3>5, DecideStep
  <2>3. CASE \/ SubTaskResult(a) \/ PushWaitHead(a) \/ FailedSubTask(a) \/ CompletedSubTask(a)
    <3>1. act[a].pc \notin {"close", "outcome"} /\ act'[a].pc \notin {"close", "outcome"}
          BY <2>3 DEF SubTaskResult, PushWaitHead, FailedSubTask, CompletedSubTask, At, Ready,
                      ActTypeOK
    <3>2. UNCHANGED <<tasks, job, up, verdict, deleted>>
          BY <2>3 DEF SubTaskResult, PushWaitHead, FailedSubTask, CompletedSubTask, dbVars,
                      restVars
    <3>3. Stored' = Stored
      <4>1. row' \in {row, Update(act[a].sub, "Completed")}
            BY <2>3 DEF SubTaskResult, PushWaitHead, FailedSubTask, CompletedSubTask, dbVars
      <4> QED
            BY <4>1, SameStored DEF Update, DBTypeOK
    <3> QED
          BY <2>1, <3>1, <3>2, <3>3, SameHeld, SameRecord, Stutter
  <2>4. CASE CheckCompletedTask(a)
    <3>1. /\ tasks' = tasks /\ act[a].pc = "check"
          /\ act'[a].pc \in {"close", "outcome"} => /\ act'[a].sub = act[a].sub
                                                    /\ TaskOf[act[a].sub] \in tasks
          BY <2>4 DEF CheckCompletedTask, At, Done, Ready, ActTypeOK
    <3>2. ASSUME NEW t \in Tasks PROVE Closing(t) => Closing(t)'
          BY <2>1, <3>1 DEF Closing
    <3>3. ASSUME NEW t \in Tasks, Closing(t)' PROVE Closing(t) \/ t \in tasks
          BY <2>1, <3>1, <3>3 DEF Closing
    <3>4. Held' = Held
          BY <3>1, <3>2, <3>3 DEF Held
    <3> QED
          BY <2>4, <3>4, SameRecord, SameStored, Stutter DEF CheckCompletedTask, dbVars, restVars
  <2>5. CASE CloseTask(a)
    <3>1. /\ tasks' = tasks \ {TaskOf[act[a].sub]} /\ act[a].pc = "close"
          /\ act'[a].pc = "outcome" /\ act'[a].sub = act[a].sub
          BY <2>5 DEF CloseTask, At, ActTypeOK
    <3>2. ASSUME NEW t \in Tasks PROVE Closing(t) <=> Closing(t)'
          BY <2>1, <3>1 DEF Closing
    <3>3. Closing(TaskOf[act[a].sub])
          BY <3>1 DEF Closing
    <3>4. Held' = Held
          BY <2>1, <3>1, <3>2, <3>3 DEF Held, RecoveryAssumption
    <3> QED
          BY <2>5, <3>4, SameRecord, SameStored, Stutter DEF CloseTask, dbVars, restVars
  <2>6. CASE SetTaskResult(a)
    <3> DEFINE t == TaskOf[act[a].sub]
    <3>1. t \in Tasks
          BY <2>1 DEF RecoveryAssumption
    <3>2. up /\ act[a].pc = "outcome" /\ act'[a] = Ready /\ tasks' = tasks
          BY <2>6 DEF SetTaskResult, At, ActTypeOK
    <3>3. Stored' = Stored /\ UNCHANGED <<up, verdict, deleted>>
          BY <2>6, SameStored DEF SetTaskResult, restVars
    <3>4. t \in Held
          BY <3>1, <3>2 DEF Held, Closing
    <3>5. Held' \in {Held, Held \ {t}}
      <4>1. \A u \in Tasks : u # t => (Closing(u) <=> Closing(u)')
            BY <2>1, <3>2 DEF Closing, Ready
      <4>2. \A u \in Held : u # t => u \in Held'
            BY <3>2, <4>1 DEF Held
      <4>3. \A u \in Held' : u \in Held
            BY <3>2, <3>4, <4>1 DEF Held, MemoryTypeOK
      <4> QED
            BY <4>2, <4>3
    <3>6. Stored \cap Life!SubsOf(t) \subseteq verdict
          BY <3>2 DEF ClosingHasVerdicts, Stored, SubsOf, Life!SubsOf
    <3>7. \E outcome \in {"Completed", "Failed"} : Record' = [Record EXCEPT ![t] = outcome]
          BY <2>6, <3>1 DEF SetTaskResult, Record, DBTypeOK
    <3> QED
          BY <3>1, <3>2, <3>3, <3>4, <3>5, <3>6, <3>7 DEF Life!Next, Life!End
  <2> QED
        BY <1>7, <2>2, <2>3, <2>4, <2>5, <2>6 DEF Conclude
<1>8. CASE Crash
  <2>1. up /\ up' = FALSE /\ Held' = {}
        BY <1>8 DEF Crash, Held, Closing, Ready
  <2>2. Record' = Record /\ Stored' = Stored /\ UNCHANGED <<verdict, deleted>>
        BY <1>8, SameRecord, SameStored DEF Crash, dbVars
  <2> QED
        BY <2>1, <2>2 DEF Life!Next, Life!Crash
<1>9. CASE LoadHistory
  <2>1. ~up /\ up' = TRUE /\ tasks' = Unfinished /\ \A t \in Tasks : ~Closing(t)'
        BY <1>9 DEF LoadHistory, NewTaskFromDB, LoadHistoryTasks, DownEmpty, Closing
  <2>2. Unfinished = {t \in Tasks : Record[t] = "Open"} \ deleted
        BY DEF Unfinished, Record, DBTypeOK, Final
  <2>3. Record' = Record /\ Stored' = Stored /\ UNCHANGED <<verdict, deleted>>
        BY <1>9, SameRecord, SameStored DEF LoadHistory, NewTaskFromDB, LoadHistoryTasks, dbVars
  <2> QED
        BY <2>1, <2>2, <2>3 DEF Life!Next, Life!Restart, Held
<1> QED
    BY <1>1, <1>2, <1>3, <1>4, <1>5, <1>6, <1>7, <1>8, <1>9 DEF Next

\* Recovery implements TaskLife: through crashes and restarts no open task is
\* lost, none is opened again, and none ends before its subtasks are decided.
THEOREM PromiseKept == Spec => KeepsPromise
<1>1. Init => Life!Init
      BY DEF Init, Life!Init, Record, Stored, Held, Closing, Ready
<1>2. RInv /\ [Next]_vars => [Life!Next]_(Life!vars)
  <2>1. CASE UNCHANGED vars
        BY <2>1 DEF vars, dbVars, memVars, restVars, Life!vars, Record, Stored, Held, Closing
  <2>2. ASSUME RInv, Next PROVE Life!Next \/ UNCHANGED Life!vars
        BY <2>2, LifeStep
  <2> QED
        BY <2>1, <2>2
<1> QED
    BY <1>1, <1>2, RefinementInvariant, PTL DEF Spec, KeepsPromise, Life!Spec
=============================================================================
