--------------------------- MODULE SchedulerProofs ---------------------------
(***************************************************************************)
(* Theorems about Scheduler, for every value of its constants.             *)
(***************************************************************************)
EXTENDS Scheduler, FiniteSetTheorems, TLAPS

(***************************************************************************)
(* The waiting queue: what its operations leave in it.                     *)
(***************************************************************************)
\* The number of queued subtasks, and of any part of them, is a natural number.
LEMMA QueuedCount ==
    ASSUME NEW Q \in SUBSET Subs
    PROVE  Cardinality(Q) \in Nat
<1>1. IsFiniteSet(Q)
      BY ConstantsAssumption, FS_Subset DEF ConstantsAssumption
<1> QED
      BY <1>1, FS_CardinalityType

\* WaitingSlots.CleanSlot takes the given subtasks out, and no other.
LEMMA CleanWaitingLeaves ==
    ASSUME pos \in [Subs -> Nat], NEW S
    PROVE  /\ CleanWaiting(S) \in [Subs -> Nat]
           /\ \A s \in Subs : CleanWaiting(S)[s] # 0 <=> s \in Waiting \ S
<1> DEFINE Before(s) == {u \in Waiting \ S : pos[u] < pos[s]}
           count(s)  == Cardinality(Before(s))
<1>1. \A s \in Subs : count(s) \in Nat
      BY QueuedCount DEF Waiting
<1>2. CleanWaiting(S) = [s \in Subs |-> IF s \in S \/ pos[s] = 0 THEN 0 ELSE 1 + count(s)]
      BY DEF CleanWaiting
<1> HIDE DEF count
<1> QED
      BY <1>1, <1>2 DEF Waiting

\* WaitingSlots.PushSlot adds the subtask to the queue and keeps the others.
LEMMA AppendWaitingAdds ==
    ASSUME pos \in [Subs -> Nat], NEW s \in Subs
    PROVE  /\ AppendWaiting(s) \in [Subs -> Nat]
           /\ \A u \in Subs : AppendWaiting(s)[u] # 0 <=> u \in Waiting \cup {s}
<1>1. Cardinality(Waiting) \in Nat
      BY QueuedCount DEF Waiting
<1>2. 1 + Cardinality(Waiting) \in Nat /\ 1 + Cardinality(Waiting) # 0
      BY <1>1
<1> QED
      BY <1>2 DEF AppendWaiting, Waiting

\* WaitingSlots.PushHead adds the subtask to the queue and keeps the others.
LEMMA PushHeadAdds ==
    ASSUME pos \in [Subs -> Nat], NEW s \in Subs
    PROVE  /\ PushHead(s) \in [Subs -> Nat]
           /\ \A u \in Subs : PushHead(s)[u] # 0 <=> u \in Waiting \cup {s}
  BY DEF PushHead, Waiting

\* A subtask that a dispatch finds is a queued one.
LEMMA PopSlotWaiting ==
    ASSUME NEW n
    PROVE  PopSlot(n) \subseteq Waiting
  BY DEF PopSlot, FirstOf, GivenTo

-----------------------------------------------------------------------------
(***************************************************************************)
(* Types. What a goroutine works on is a subtask of a node while it works. *)
(***************************************************************************)
HandsFull ==
    /\ \A d \in Dispatchers : disp[d].pc \in {"enqueue", "send", "mark"}
                             => disp[d].sub \in Subs /\ disp[d].node \in Nodes
    /\ \A a \in Agents : job[a].pc # "ready"
                        => /\ job[a].sub \in Subs
                           /\ job[a].kind = "good" => a \in Nodes

TypeInv == TypeOK /\ HandsFull

USE DEF queueVars, dbVars, taskVars, nodeVars, slotVars, probeVars, netVars

\* A user request (UserSessions.AddTask, WaitingSlots.PushSlot) keeps the types.
LEMMA TypeRequest ==
    ASSUME TypeInv, NEW t \in Tasks, Request(t)
    PROVE  TypeInv'
<1> USE DEF TypeInv, TypeOK
<1>1. CASE NewTask(t)
  <2>1. QueueTypeOK' /\ TaskTypeOK'
        BY <1>1, ConstantsAssumption
        DEF NewTask, QueueTypeOK, TaskTypeOK, SubsOf, States, ConstantsAssumption
  <2>2. NodeTypeOK' /\ SlotTypeOK' /\ NetTypeOK' /\ HandTypeOK' /\ HandsFull'
        BY <1>1 DEF NewTask, NodeTypeOK, SlotTypeOK, NetTypeOK, HandTypeOK, HandsFull
  <2> QED
        BY <2>1, <2>2
<1>2. CASE PushSlot(t)
  <2>1. PICK s \in pending \cap SubsOf(t) :
            pending' = pending \ {s} /\ pos' = AppendWaiting(s)
            /\ state' = [state EXCEPT ![s] = "Waiting"] /\ uuid' = [uuid EXCEPT ![s] = None]
        BY <1>2 DEF PushSlot
  <2>2. QueueTypeOK' /\ TaskTypeOK'
        BY <1>2, <2>1, AppendWaitingAdds DEF PushSlot, QueueTypeOK, TaskTypeOK, SubsOf, States
  <2>3. HandTypeOK' /\ HandsFull'
        BY <1>2 DEF PushSlot, HandTypeOK, HandsFull, Dispatching, Dispatchers
  <2>4. NodeTypeOK' /\ SlotTypeOK' /\ NetTypeOK'
        BY <1>2 DEF PushSlot, NodeTypeOK, SlotTypeOK, NetTypeOK
  <2> QED
        BY <2>2, <2>3, <2>4
<1>3. CASE DispenseOwn(t)
  <2>1. PopAllWait \in Dispatching /\ PopAllWait.pc \in {"off", "pick"}
        BY DEF PopAllWait, NotDispensing, Dispatching, SlotTypeOK
  <2>2. HandTypeOK' /\ HandsFull'
        BY <1>3, <2>1 DEF DispenseOwn, HandTypeOK, HandsFull, Dispatchers
  <2> QED
        BY <1>3, <2>2 DEF DispenseOwn, QueueTypeOK, TaskTypeOK, NodeTypeOK, SlotTypeOK, NetTypeOK
<1> QED
      BY <1>1, <1>2, <1>3 DEF Request

\* A step of Nodes.TaskDispense keeps the types; while it holds a subtask, that
\* subtask and its node are known.
LEMMA TypeDispense ==
    ASSUME TypeInv, NEW d \in Dispatchers, Dispense(d)
    PROVE  TypeInv'
<1> USE DEF TypeInv, TypeOK
<1>1. CASE PushRunning(d)
  <2>1. PICK x \in disp[d].left : PushRunning(d)!(x)
        BY <1>1 DEF PushRunning
  <2>2. x \in Slot /\ x.node \in Nodes /\ disp[d].left \ {x} \subseteq Slot
        BY DEF HandTypeOK, Dispatching, Slot
  <2>3. NotDispensing \in Dispatching /\ Continue(disp[d].left \ {x}) \in Dispatching
        BY <2>2 DEF Continue, NotDispensing, Dispatching
  <2>4. /\ NotDispensing.pc = "off"
        /\ Continue(disp[d].left \ {x}).pc \in {"off", "pick"}
        BY DEF Continue, NotDispensing
  <2>5. CASE \E s \in PopSlot(x.node), y \in IdleSlot(x) :
                /\ idle' = idle \ {y}
                /\ running' = running \cup {[slot |-> y, sub |-> s]}
                /\ disp' = [disp EXCEPT ![d] =
                              [pc |-> "enqueue", left |-> disp[d].left \ {x}, node |-> x.node,
                               sub |-> s, dead |-> FALSE]]
    <3>1. PICK s \in PopSlot(x.node), y \in IdleSlot(x) :
                /\ idle' = idle \ {y}
                /\ running' = running \cup {[slot |-> y, sub |-> s]}
                /\ disp' = [disp EXCEPT ![d] =
                              [pc |-> "enqueue", left |-> disp[d].left \ {x}, node |-> x.node,
                               sub |-> s, dead |-> FALSE]]
          BY <2>5
    <3>2. s \in Subs /\ y \in Slot
          BY PopSlotWaiting DEF Waiting, IdleSlot, SlotTypeOK
    <3>3. SlotTypeOK'
          BY <2>1, <3>1, <3>2 DEF SlotTypeOK, Holding
    <3>4. HandTypeOK' /\ HandsFull'
          BY <2>1, <2>2, <3>1, <3>2 DEF HandTypeOK, HandsFull, Dispatching
    <3> QED
          BY <2>1, <3>3, <3>4 DEF QueueTypeOK, TaskTypeOK, NodeTypeOK, NetTypeOK
  <2>6. CASE /\ UNCHANGED <<idle, running>>
             /\ \/ disp' = [disp EXCEPT ![d] = NotDispensing]
                \/ disp' = [disp EXCEPT ![d] = Continue(disp[d].left \ {x})]
    <3>1. HandTypeOK' /\ HandsFull'
          BY <2>1, <2>3, <2>4, <2>6 DEF HandTypeOK, HandsFull
    <3> QED
          BY <2>1, <2>6, <3>1 DEF QueueTypeOK, TaskTypeOK, NodeTypeOK, SlotTypeOK, NetTypeOK
  <2> QED
        BY <2>1, <2>5, <2>6
<1>2. CASE PushProcessing(d)
  <2>1. QueueTypeOK' /\ TaskTypeOK' /\ NodeTypeOK' /\ SlotTypeOK' /\ NetTypeOK'
        BY <1>2, CleanWaitingLeaves
        DEF PushProcessing, HandsFull, QueueTypeOK, TaskTypeOK, NodeTypeOK, SlotTypeOK,
            NetTypeOK, States
  <2>2. HandTypeOK' /\ HandsFull'
        BY <1>2 DEF PushProcessing, HandTypeOK, HandsFull, Dispatching
  <2> QED
        BY <2>1, <2>2
<1>3. CASE AddTask(d)
  <2>1. NodeTypeOK' /\ NetTypeOK'
        BY <1>3 DEF AddTask, NodeTypeOK, NetTypeOK, HandsFull, Stages
  <2>2. HandTypeOK' /\ HandsFull'
        BY <1>3 DEF AddTask, HandTypeOK, HandsFull, Dispatching
  <2>3. QueueTypeOK' /\ TaskTypeOK' /\ SlotTypeOK'
        BY <1>3 DEF AddTask, QueueTypeOK, TaskTypeOK, SlotTypeOK
  <2> QED
        BY <2>1, <2>2, <2>3
<1>4. CASE MarkPublishing(d)
  <2>1. QueueTypeOK'
        BY <1>4 DEF MarkPublishing, QueueTypeOK, HandsFull, States
  <2>2. Continue(disp[d].left) \in Dispatching /\ Continue(disp[d].left).pc \in {"off", "pick"}
        BY DEF Continue, NotDispensing, Dispatching, HandTypeOK
  <2>3. HandTypeOK' /\ HandsFull'
        BY <1>4, <2>2 DEF MarkPublishing, HandTypeOK, HandsFull
  <2>4. TaskTypeOK' /\ NodeTypeOK' /\ SlotTypeOK' /\ NetTypeOK'
        BY <1>4 DEF MarkPublishing, TaskTypeOK, NodeTypeOK, SlotTypeOK, NetTypeOK
  <2> QED
        BY <2>1, <2>3, <2>4
<1> QED
      BY <1>1, <1>2, <1>3, <1>4 DEF Dispense

\* So does Nodes.check when it takes a signal.
LEMMA TypeReceiveSignal ==
    ASSUME TypeInv, ReceiveSignal
    PROVE  TypeInv'
<1> USE DEF TypeInv, TypeOK
<1>1. PopAllWait \in Dispatching /\ PopAllWait.pc \in {"off", "pick"}
      BY DEF PopAllWait, NotDispensing, Dispatching, SlotTypeOK
<1>2. HandTypeOK' /\ HandsFull'
      BY <1>1 DEF ReceiveSignal, HandTypeOK, HandsFull, Dispatchers
<1> QED
      BY <1>2 DEF ReceiveSignal, QueueTypeOK, TaskTypeOK, NodeTypeOK, SlotTypeOK, NetTypeOK

\* So do taskPublish, taskStart and taskInferenceCompleted.
LEMMA TypeProgress ==
    ASSUME TypeInv, NEW n \in Nodes, NEW s \in Subs, Progress(n, s)
    PROVE  TypeInv'
<1> USE DEF TypeInv, TypeOK
<1>1. QueueTypeOK'
      BY DEF Progress, TaskPublish, TaskStart, TaskInferenceCompleted, QueueTypeOK, States
<1>2. NetTypeOK'
  <2>1. \E g \in Stages : client' = [client EXCEPT ![n][s] = g]
        BY DEF Progress, TaskPublish, TaskStart, TaskInferenceCompleted, Stages
  <2>2. UNCHANGED <<offlineCh, linked, drops>>
        BY DEF Progress, TaskPublish, TaskStart, TaskInferenceCompleted
  <2> QED
        BY <2>1, <2>2 DEF NetTypeOK
<1>3. TaskTypeOK' /\ NodeTypeOK' /\ SlotTypeOK' /\ HandTypeOK' /\ HandsFull'
      BY DEF Progress, TaskPublish, TaskStart, TaskInferenceCompleted, TaskTypeOK, NodeTypeOK,
             SlotTypeOK, HandTypeOK, HandsFull
<1> QED
      BY <1>1, <1>2, <1>3

\* So do taskCompleted and taskFailed up to the choice of the branch.
LEMMA TypeReceiveAnswer ==
    ASSUME TypeInv, NEW n \in Nodes, NEW s \in Subs, NEW k \in Kinds, ReceiveAnswer(n, s, k)
    PROVE  TypeInv'
<1> USE DEF TypeInv, TypeOK
<1>1. Branch(n, k) \in Kinds \cup {"unpassed", "ignored"}
      BY DEF Branch, Kinds
<1>2. QueueTypeOK' /\ TaskTypeOK'
      BY DEF ReceiveAnswer, QueueTypeOK, TaskTypeOK, States
<1>3. NodeTypeOK' /\ NetTypeOK'
      BY DEF ReceiveAnswer, NodeTypeOK, NetTypeOK, Stages
<1>4. HandTypeOK' /\ HandsFull'
      BY <1>1 DEF ReceiveAnswer, HandTypeOK, HandsFull, Concluding, Ready, Agents
<1> QED
      BY <1>2, <1>3, <1>4 DEF ReceiveAnswer, SlotTypeOK

\* So does an elapsed estimate.
LEMMA TypeExpire ==
    ASSUME TypeInv, NEW s \in Subs, Expire(s)
    PROVE  TypeInv'
<1> USE DEF TypeInv, TypeOK
<1>1. HandTypeOK' /\ HandsFull'
      BY DEF Expire, HandTypeOK, HandsFull, Concluding, Ready, Agents
<1> QED
      BY <1>1 DEF Expire, QueueTypeOK, TaskTypeOK, NodeTypeOK, SlotTypeOK, NetTypeOK

\* PushIdle and ClearIdle only move and drop slots.
LEMMA TypePushIdle ==
    ASSUME SlotTypeOK, wake \in BOOLEAN, NEW n, NEW s, PushIdle(n, s), gen' = gen
    PROVE  SlotTypeOK' /\ wake' \in BOOLEAN
<1>1. Holders(n, s) \subseteq Holding
      BY DEF Holders, SlotTypeOK
<1> QED
      BY <1>1 DEF PushIdle, SlotTypeOK, Holding

\* Nodes.ClearIdle only drops slots.
LEMMA TypeClearIdle ==
    ASSUME SlotTypeOK, NEW n, NEW s, ClearIdle(n, s), gen' = gen
    PROVE  SlotTypeOK'
  BY DEF ClearIdle, SlotTypeOK

\* The rest of an answer or a timeout keeps the types.
LEMMA TypeConclude ==
    ASSUME TypeInv, NEW a \in Agents, Conclude(a)
    PROVE  TypeInv'
<1> USE DEF TypeInv, TypeOK
<1> DEFINE s == job[a].sub
<1>1. CASE SettleGood(a)
  <2>1. SlotTypeOK' /\ wake' \in BOOLEAN
        BY <1>1, TypePushIdle DEF SettleGood, HandTypeOK
  <2>2. QueueTypeOK' /\ TaskTypeOK'
        BY <1>1 DEF SettleGood, QueueTypeOK, TaskTypeOK, States
  <2>3. HandTypeOK' /\ HandsFull'
        BY <1>1, <2>1 DEF SettleGood, HandTypeOK, HandsFull, Concluding, Ready
  <2> QED
        BY <1>1, <2>1, <2>2, <2>3 DEF SettleGood, NodeTypeOK, NetTypeOK
<1>2. CASE SettleFailed(a)
  <2>1. s \in Subs
        BY <1>2 DEF SettleFailed, HandsFull
  <2>2. SlotTypeOK' /\ docker' \in [Nodes -> DockerStates]
        BY <1>2, TypeClearIdle DEF SettleFailed, SetNodeUnPass, NodeTypeOK, DockerStates
  <2>3. retry' \in [Subs -> 0..MaxRetry] /\ dberrs' \in [Subs -> SUBSET (Nodes \cup {None})]
    <3>1. PICK n \in Nodes \cup {None} : SetSubTaskFailed(n, s)
          BY <1>2, <2>1 DEF SettleFailed, QueueTypeOK
    <3> QED
          BY <2>1, <3>1, ConstantsAssumption DEF SetSubTaskFailed, TaskTypeOK, ConstantsAssumption
  <2>4. TaskTypeOK'
        BY <1>2, <2>1, <2>3 DEF SettleFailed, TaskTypeOK
  <2>5. QueueTypeOK'
    <3>1. \/ pos' = PushHead(s) /\ processing' = processing /\ uuid' = [uuid EXCEPT ![s] = None]
          \/ pos' = pos /\ processing' = processing \ {s} /\ uuid' = uuid
          BY <1>2 DEF SettleFailed
    <3>2. \E v \in States : state' = [state EXCEPT ![s] = v]
          BY <1>2 DEF SettleFailed, States
    <3>3. errs' = [errs EXCEPT ![s] = dberrs'[s]] /\ timer' = timer \ {s}
          BY <1>2 DEF SettleFailed
    <3>4. PushHead(s) \in [Subs -> Nat]
          BY <2>1, PushHeadAdds DEF QueueTypeOK
    <3> QED
          BY <2>1, <2>3, <3>1, <3>2, <3>3, <3>4 DEF QueueTypeOK
  <2>6. HandTypeOK' /\ HandsFull'
    <3>1. /\ wake' \in BOOLEAN
          /\ UNCHANGED <<disp, off>>
          BY <1>2 DEF SettleFailed, HandTypeOK
    <3>2. PICK j \in {Ready, [job[a] EXCEPT !.pc = "check"]} : job' = [job EXCEPT ![a] = j]
          BY <1>2 DEF SettleFailed
    <3>3. j \in Concluding /\ (j.pc # "ready" => j.sub \in Subs /\ (j.kind = "good" => a \in Nodes))
          BY <1>2, <3>2 DEF SettleFailed, HandTypeOK, HandsFull, Concluding, Ready
    <3> QED
          BY <3>1, <3>2, <3>3 DEF HandTypeOK, HandsFull
  <2> QED
        BY <1>2, <2>2, <2>4, <2>5, <2>6 DEF SettleFailed, NodeTypeOK, NetTypeOK
<1>3. CASE CheckCompletedTask(a)
  <2>1. HandTypeOK' /\ HandsFull'
        BY <1>3 DEF CheckCompletedTask, HandTypeOK, HandsFull, Concluding, Ready
  <2> QED
        BY <1>3, <2>1
        DEF CheckCompletedTask, QueueTypeOK, TaskTypeOK, NodeTypeOK, SlotTypeOK, NetTypeOK
<1>4. CASE CloseTask(a)
  <2>1. QueueTypeOK' /\ TaskTypeOK'
        BY <1>4, CleanWaitingLeaves DEF CloseTask, QueueTypeOK, TaskTypeOK
  <2>2. HandTypeOK' /\ HandsFull'
        BY <1>4 DEF CloseTask, HandTypeOK, HandsFull, Concluding, Ready
  <2> QED
        BY <1>4, <2>1, <2>2 DEF CloseTask, NodeTypeOK, SlotTypeOK, NetTypeOK
<1> QED
      BY <1>1, <1>2, <1>3, <1>4 DEF Conclude

\* Enrolment, docker, benchmark and operator requests keep the types.
LEMMA TypeLifecycle ==
    ASSUME TypeInv, NEW n \in Nodes, Lifecycle(n)
    PROVE  TypeInv'
<1> USE DEF TypeInv, TypeOK
<1>1. CASE Enroll(n) \/ EnrollAgain(n)
  <2>1. NodeTypeOK' /\ NetTypeOK'
        BY <1>1 DEF Enroll, EnrollAgain, NodeTypeOK, NodeStates, NetTypeOK
  <2> QED
        BY <1>1, <2>1
        DEF Enroll, EnrollAgain, QueueTypeOK, TaskTypeOK, SlotTypeOK, HandTypeOK, HandsFull
<1>2. CASE StartupComplete(n)
  <2>1. NodeTypeOK'
        BY <1>2 DEF StartupComplete, NodeTypeOK, DockerStates
  <2> QED
        BY <1>2, <2>1
        DEF StartupComplete, QueueTypeOK, TaskTypeOK, SlotTypeOK, NetTypeOK, HandTypeOK, HandsFull
<1>3. ASSUME SendMeasure(n), docker' \in [Nodes -> DockerStates], match' = match
      PROVE  NodeTypeOK' /\ SlotTypeOK'
  <2> DEFINE g     == gen[n] + 1
             batch == {<<g, i>> : i \in 1..MeasureCount}
  <2>1. batch \subseteq Nat \X Nat
        BY ConstantsAssumption DEF ConstantsAssumption, SlotTypeOK
  <2>2. \A p \in batch :
            [slot |-> [node |-> n, id |-> 1, gen |-> g, probe |-> p[2]], sub |-> p] \in Holding
        BY <2>1 DEF Holding, Slot, SlotTypeOK
  <2>3. SlotTypeOK'
        BY <1>3, <2>2 DEF SendMeasure, SlotTypeOK, CleanRunning
  <2>4. NodeTypeOK'
        BY <1>3, <2>1 DEF SendMeasure, NodeTypeOK, NodeStates
  <2> QED
        BY <2>3, <2>4
<1>4. CASE ComfyUIStartupSuccess(n) \/ MeasureNode(n)
  <2>1. docker' \in [Nodes -> DockerStates] /\ SendMeasure(n) /\ match' = match
        BY <1>4 DEF ComfyUIStartupSuccess, MeasureNode, NodeTypeOK, DockerStates
  <2>2. NodeTypeOK' /\ SlotTypeOK'
        BY <1>3, <2>1
  <2> QED
        BY <1>4, <2>2
        DEF ComfyUIStartupSuccess, MeasureNode, QueueTypeOK, TaskTypeOK, NetTypeOK, HandTypeOK,
            HandsFull
<1>5. ASSUME NEW p, SetMeasureUnPassed(n, p)
      PROVE  /\ SlotTypeOK' /\ wake' \in BOOLEAN
             /\ node' \in [Nodes -> NodeStates] /\ docker' \in [Nodes -> DockerStates]
      BY <1>5
      DEF SetMeasureUnPassed, SlotTypeOK, NodeTypeOK, HandTypeOK, CleanRunning, NodeStates,
          DockerStates
<1>6. ASSUME NEW p, SetMeasureCompletion(n, p)
      PROVE  /\ SlotTypeOK' /\ wake' \in BOOLEAN
             /\ node' \in [Nodes -> NodeStates] /\ docker' \in [Nodes -> DockerStates]
  <2>1. FreshSlots(n) \subseteq Slot
        BY ConstantsAssumption DEF FreshSlots, Slot, ConstantsAssumption, SlotTypeOK
  <2> QED
        BY <1>6, <2>1
        DEF SetMeasureCompletion, SlotTypeOK, NodeTypeOK, CleanRunning, NodeStates, DockerStates
<1>7. CASE MeasureFailed(n)
  <2>1. PICK p \in probes[n] :
            probes' = [probes EXCEPT ![n] = @ \ {p}] /\ SetMeasureUnPassed(n, p)
        BY <1>7 DEF MeasureFailed
  <2>2. NodeTypeOK'
        BY <1>5, <1>7, <2>1 DEF MeasureFailed, NodeTypeOK
  <2> QED
        BY <1>5, <1>7, <2>1, <2>2
        DEF MeasureFailed, QueueTypeOK, TaskTypeOK, NetTypeOK, HandTypeOK, HandsFull
<1>8. CASE MeasureComplete(n)
  <2>1. PICK p \in probes[n], ok \in BOOLEAN : MeasureComplete(n)!2!(p, ok)
        BY <1>8 DEF MeasureComplete
  <2>2. /\ SlotTypeOK' /\ wake' \in BOOLEAN
        /\ node' \in [Nodes -> NodeStates] /\ docker' \in [Nodes -> DockerStates]
        BY <1>5, <1>6, <2>1, TypePushIdle DEF NodeTypeOK, HandTypeOK
  <2>3. NodeTypeOK'
        BY <1>8, <2>1, <2>2 DEF MeasureComplete, NodeTypeOK
  <2> QED
        BY <1>8, <2>2, <2>3
        DEF MeasureComplete, QueueTypeOK, TaskTypeOK, NetTypeOK, HandTypeOK, HandsFull
<1>9. CASE UnPass(n)
  <2>1. NodeTypeOK' /\ SlotTypeOK'
        BY <1>9 DEF UnPass, NodeTypeOK, SlotTypeOK, CleanRunning, DockerStates
  <2> QED
        BY <1>9, <2>1 DEF UnPass, QueueTypeOK, TaskTypeOK, NetTypeOK, HandTypeOK, HandsFull
<1>10. CASE Disconnect(n)
  <2>1. NetTypeOK' /\ NodeTypeOK'
        BY <1>10 DEF Disconnect, NetTypeOK, NodeTypeOK, Stages
  <2> QED
        BY <1>10, <2>1
        DEF Disconnect, QueueTypeOK, TaskTypeOK, SlotTypeOK, HandTypeOK, HandsFull
<1>11. CASE OfflineNode(n)
  <2>1. NetTypeOK' /\ NodeTypeOK'
        BY <1>11 DEF OfflineNode, NetTypeOK, NodeTypeOK, NodeStates
  <2>2. HandTypeOK' /\ HandsFull'
        BY <1>11 DEF OfflineNode, HandTypeOK, HandsFull, NodeTypeOK
  <2> QED
        BY <1>11, <2>1, <2>2 DEF OfflineNode, QueueTypeOK, TaskTypeOK, SlotTypeOK
<1> QED
      BY <1>1, <1>2, <1>4, <1>7, <1>8, <1>9, <1>10, <1>11 DEF Lifecycle

\* Nodes.offlineNode keeps the types.
LEMMA TypeOffline ==
    ASSUME TypeInv, RequeueTask \/ DelNode
    PROVE  TypeInv'
<1> USE DEF TypeInv, TypeOK
<1>1. CASE RequeueTask
  <2>1. PICK s \in off.todo : RequeueTask!1!(s)
        BY <1>1 DEF RequeueTask
  <2>2. s \in Subs
        BY DEF HandTypeOK
  <2>3. QueueTypeOK'
        BY <1>1, <2>1, <2>2, PushHeadAdds DEF RequeueTask, QueueTypeOK, States
  <2>4. HandTypeOK' /\ HandsFull'
        BY <1>1, <2>1 DEF RequeueTask, HandTypeOK, HandsFull, Rest
  <2> QED
        BY <1>1, <2>3, <2>4 DEF RequeueTask, TaskTypeOK, NodeTypeOK, SlotTypeOK, NetTypeOK
<1>2. CASE DelNode
  <2>1. NodeTypeOK' /\ NetTypeOK'
        BY <1>2 DEF DelNode, NodeTypeOK, NetTypeOK, NodeStates, Stages
  <2>2. SlotTypeOK'
        BY <1>2 DEF DelNode, SlotTypeOK, CleanRunning
  <2>3. HandTypeOK' /\ HandsFull'
    <3>1. disp' = [d \in Dispatchers |-> disp'[d]]
          BY <1>2 DEF DelNode
    <3>2. \A d \in Dispatchers : disp'[d] \in {disp[d], [disp[d] EXCEPT !.dead = TRUE]}
          BY <1>2 DEF DelNode
    <3>3. \A d \in Dispatchers : /\ disp'[d] \in Dispatching
                                 /\ disp'[d].pc = disp[d].pc
                                 /\ disp'[d].sub = disp[d].sub /\ disp'[d].node = disp[d].node
      <4> SUFFICES ASSUME NEW d \in Dispatchers
                   PROVE  /\ disp'[d] \in Dispatching
                          /\ disp'[d].pc = disp[d].pc
                          /\ disp'[d].sub = disp[d].sub /\ disp'[d].node = disp[d].node
          OBVIOUS
      <4>1. disp[d] \in Dispatching
            BY DEF HandTypeOK
      <4>2. LET e == [disp[d] EXCEPT !.dead = TRUE]
            IN  e \in Dispatching /\ e.pc = disp[d].pc /\ e.sub = disp[d].sub /\ e.node = disp[d].node
            BY <4>1 DEF Dispatching
      <4> QED
            BY <3>2, <4>1, <4>2
    <3>4. NoOff \in [node : Nodes \cup {None}, todo : SUBSET Subs]
          BY DEF NoOff
    <3>5. disp' \in [Dispatchers -> Dispatching]
          BY <3>1, <3>3
    <3>6. HandTypeOK'
          BY <1>2, <3>4, <3>5 DEF DelNode, HandTypeOK
    <3>7. HandsFull'
          BY <1>2, <3>3 DEF DelNode, HandsFull
    <3> QED
          BY <3>6, <3>7
  <2> QED
        BY <1>2, <2>1, <2>2, <2>3 DEF DelNode, QueueTypeOK, TaskTypeOK
<1> QED
      BY <1>1, <1>2

\* The state that SingletonNodes and its like set up is well typed.
LEMMA TypeInit == Init => TypeInv
<1> SUFFICES ASSUME Init PROVE TypeInv
    OBVIOUS
<1>1. QueueTypeOK /\ TaskTypeOK
      BY ConstantsAssumption
      DEF Init, QueueTypeOK, TaskTypeOK, States, ConstantsAssumption
<1>2. NodeTypeOK /\ SlotTypeOK /\ NetTypeOK
      BY DEF Init, NodeTypeOK, NodeStates, DockerStates, SlotTypeOK, NetTypeOK, Stages
<1>3. HandTypeOK /\ HandsFull
      BY DEF Init, HandTypeOK, HandsFull, Dispatching, NotDispensing, Concluding, Ready, NoOff
<1> QED
      BY <1>1, <1>2, <1>3 DEF TypeInv, TypeOK

\* Every step of the program keeps the types.
LEMMA TypeNext == TypeInv /\ [Next]_vars => TypeInv'
<1> SUFFICES ASSUME TypeInv, [Next]_vars PROVE TypeInv'
    OBVIOUS
<1>1. CASE UNCHANGED vars
      BY <1>1
      DEF vars, TypeInv, TypeOK, HandsFull, QueueTypeOK, TaskTypeOK, NodeTypeOK, SlotTypeOK,
          NetTypeOK, HandTypeOK
<1>2. CASE Next
      BY <1>2, TypeRequest, TypeReceiveSignal, TypeDispense, TypeProgress, TypeReceiveAnswer,
         TypeExpire, TypeConclude, TypeLifecycle, TypeOffline DEF Next
<1> QED
      BY <1>1, <1>2

\* Every variable keeps the type it is declared with, and what a dispatch or
\* a handler works on is a subtask of the scheduler.
THEOREM TypeCorrect == Spec => []TypeOK
<1>1. TypeInv => TypeOK
      BY DEF TypeInv
<1> QED
      BY <1>1, TypeInit, TypeNext, PTL DEF Spec

-----------------------------------------------------------------------------
(***************************************************************************)
(* The safety properties.                                                  *)
(***************************************************************************)

USE DEF queueVars, dbVars, taskVars, nodeVars, slotVars, probeVars, netVars

\* A slot was made in the latest set of its node or before.
SlotsAged ==
    /\ \A x \in idle : x.gen <= gen[x.node]
    /\ \A r \in running : r.slot.gen <= gen[r.slot.node]

\* A node is registered while its goroutine deals with an answer.
Attended == \A n \in Nodes : job[n].pc # "ready" => Present(n)

\* A final state has been recorded, and a task is only about to be closed
\* when the outcome of each of its subtasks has been.
Recorded ==
    /\ \A s \in Subs : state[s] \in Final => s \in verdict
    /\ \A a \in Agents : job[a].pc = "close" => SubsOf(TaskOf[job[a].sub]) \subseteq verdict

-----------------------------------------------------------------------------
(***************************************************************************)
(* No subtask is lost. Tracked is inductive by itself: each operation that *)
(* takes a subtask out of one place puts it in another, or records its     *)
(* outcome, in the same step.                                              *)
(***************************************************************************)
\* A request pushes what it created: no subtask is dropped on the way.
LEMMA TrackedRequest ==
    ASSUME TypeInv, Tracked, NEW t \in Tasks, Request(t)
    PROVE  Tracked'
<1>1. CASE NewTask(t)
      BY <1>1, ConstantsAssumption
      DEF NewTask, Tracked, Waiting, SubsOf, ConstantsAssumption, TypeInv, TypeOK, TaskTypeOK
<1>2. CASE PushSlot(t)
  <2>1. PICK s \in pending \cap SubsOf(t) : pending' = pending \ {s} /\ pos' = AppendWaiting(s)
        BY <1>2 DEF PushSlot
  <2>2. Waiting' = Waiting \cup {s}
        BY <2>1, AppendWaitingAdds DEF TypeInv, TypeOK, QueueTypeOK, Waiting, SubsOf
  <2> QED
        BY <1>2, <2>1, <2>2 DEF PushSlot, Tracked
<1>3. CASE DispenseOwn(t)
      BY <1>3 DEF DispenseOwn, Tracked, Waiting
<1> QED
      BY <1>1, <1>2, <1>3 DEF Request

\* PushProcessing moves a subtask from one queue to the other in one step.
LEMMA TrackedDispense ==
    ASSUME TypeInv, Tracked, NEW d \in Dispatchers, Dispense(d)
    PROVE  Tracked'
<1>1. CASE PushProcessing(d)
  <2>1. Waiting' = Waiting \ {disp[d].sub}
        BY <1>1, CleanWaitingLeaves DEF PushProcessing, TypeInv, TypeOK, QueueTypeOK, Waiting
  <2> QED
        BY <1>1, <2>1 DEF PushProcessing, Tracked
<1>2. CASE PushRunning(d) \/ AddTask(d) \/ MarkPublishing(d)
      BY <1>2 DEF PushRunning, AddTask, MarkPublishing, Tracked, Waiting
<1> QED
      BY <1>1, <1>2 DEF Dispense

\* A subtask leaves the processing queue only with an outcome.
LEMMA TrackedConclude ==
    ASSUME TypeInv, Tracked, NEW a \in Agents, Conclude(a)
    PROVE  Tracked'
<1> DEFINE s == job[a].sub
<1>1. CASE SettleGood(a)
      BY <1>1 DEF SettleGood, Tracked, Waiting
<1>2. CASE SettleFailed(a)
  <2>1. s \in Subs
        BY <1>2 DEF SettleFailed, TypeInv, HandsFull
  <2>2. CASE /\ pos' = PushHead(s)
             /\ UNCHANGED <<processing, verdict, pending, task>>
    <3>1. Waiting' = Waiting \cup {s}
          BY <2>1, <2>2, PushHeadAdds DEF TypeInv, TypeOK, QueueTypeOK, Waiting
    <3> QED
          BY <2>2, <3>1 DEF Tracked
  <2>3. CASE /\ processing' = processing \ {s} /\ verdict' = verdict \cup {s}
             /\ UNCHANGED <<pos, pending, task>>
        BY <2>3 DEF Tracked, Waiting
  <2> QED
        BY <1>2, <2>2, <2>3 DEF SettleFailed
<1>3. CASE CheckCompletedTask(a)
      BY <1>3 DEF CheckCompletedTask, Tracked, Waiting
<1>4. CASE CloseTask(a)
  <2> DEFINE t == TaskOf[s]
  <2>1. s \in Subs /\ t \in Tasks
        BY <1>4, ConstantsAssumption DEF CloseTask, TypeInv, HandsFull, ConstantsAssumption
  <2>2. task' = [task EXCEPT ![t] = task'[t]] /\ task'[t] # "Live"
        BY <1>4, <2>1 DEF CloseTask, TypeInv, TypeOK, TaskTypeOK
  <2>3. \A u \in Subs \ SubsOf(t) : u \in Waiting => u \in Waiting'
        BY <1>4, CleanWaitingLeaves DEF CloseTask, TypeInv, TypeOK, QueueTypeOK, Waiting
  <2>4. \A u \in Subs : task'[TaskOf[u]] = "Live" => u \notin SubsOf(t) /\ task[TaskOf[u]] = "Live"
        BY <2>1, <2>2, ConstantsAssumption
        DEF SubsOf, TypeInv, TypeOK, TaskTypeOK, ConstantsAssumption
  <2> QED
        BY <1>4, <2>3, <2>4 DEF CloseTask, Tracked
<1> QED
      BY <1>1, <1>2, <1>3, <1>4 DEF Conclude

\* No step of the program loses a subtask.
LEMMA TrackedNext == TypeInv /\ Tracked /\ [Next]_vars => Tracked'
<1> SUFFICES ASSUME TypeInv, Tracked, [Next]_vars PROVE Tracked'
    OBVIOUS
<1>1. CASE RequeueTask
  <2>1. PICK s \in off.todo : processing' = processing \ {s} /\ pos' = PushHead(s)
        BY <1>1 DEF RequeueTask
  <2>2. s \in Subs
        BY DEF TypeInv, TypeOK, HandTypeOK
  <2>3. Waiting' = Waiting \cup {s}
        BY <2>1, <2>2, PushHeadAdds DEF TypeInv, TypeOK, QueueTypeOK, Waiting
  <2> QED
        BY <1>1, <2>1, <2>3 DEF RequeueTask, Tracked
<1>2. CASE ReceiveSignal \/ DelNode \/ UNCHANGED vars
      BY <1>2 DEF ReceiveSignal, DelNode, vars, Tracked, Waiting
<1>3. ASSUME NEW n \in Nodes, NEW s \in Subs, Progress(n, s)
      PROVE  Tracked'
      BY <1>3 DEF Progress, TaskPublish, TaskStart, TaskInferenceCompleted, Tracked, Waiting
<1>4. ASSUME NEW n \in Nodes, NEW s \in Subs, NEW k \in Kinds, ReceiveAnswer(n, s, k)
      PROVE  Tracked'
      BY <1>4 DEF ReceiveAnswer, Tracked, Waiting
<1>5. ASSUME NEW s \in Subs, Expire(s)
      PROVE  Tracked'
      BY <1>5 DEF Expire, Tracked, Waiting
<1>6. ASSUME NEW n \in Nodes, Lifecycle(n)
      PROVE  Tracked'
      BY <1>6
      DEF Lifecycle, Enroll, EnrollAgain, StartupComplete, ComfyUIStartupSuccess, MeasureNode,
          MeasureFailed, MeasureComplete, UnPass, Disconnect, OfflineNode, Tracked, Waiting
<1> QED
      BY <1>1, <1>2, <1>3, <1>4, <1>5, <1>6, TrackedRequest, TrackedDispense, TrackedConclude
      DEF Next

\* A subtask of a live task without an outcome is never lost, whatever the
\* order of dispatches, answers, timeouts, disconnects and requeues.
THEOREM SubtasksTracked == Spec => []Tracked
<1>1. Init => Tracked
      BY ConstantsAssumption DEF Init, Tracked, ConstantsAssumption
<1> QED
      BY <1>1, TypeInit, TypeNext, TrackedNext, PTL DEF Spec

-----------------------------------------------------------------------------
(***************************************************************************)
(* The slots of the nodes. A step leaves them alone, or does one of five   *)
(* things to them.                                                         *)
(***************************************************************************)
\* A dispatch takes an idle slot for a subtask; the slot of a subtask becomes
\* idle; slots are forgotten; a benchmark sets one slot aside per generation;
\* a benchmark that was passed replaces the slots of the node.
TakeSlot   == \E y \in idle, s \in Subs : /\ idle' = idle \ {y}
                                         /\ running' = running \cup {[slot |-> y, sub |-> s]}
                                         /\ gen' = gen
ReturnSlot == \E r \in running : /\ idle' = idle \cup {r.slot}
                                 /\ running' = running \ {r}
                                 /\ Present(r.slot.node)
                                 /\ gen' = gen
DropSlots  == idle' \subseteq idle /\ running' \subseteq running /\ gen' = gen
ProbeSlots == \E n \in Nodes : SendMeasure(n)
RenewSlots == \E n \in Nodes, p \in Nat \X Nat : SetMeasureCompletion(n, p)

SlotMove == TakeSlot \/ ReturnSlot \/ DropSlots \/ ProbeSlots \/ RenewSlots

\* PushIdle for a node that is registered is a return, or finds no slot.
LEMMA PushIdleMove ==
    ASSUME NEW n, NEW s, Present(n), PushIdle(n, s), gen' = gen
    PROVE  SlotMove
  BY DEF PushIdle, Holders, SlotMove, ReturnSlot, DropSlots

\* ClearIdle is a drop.
LEMMA ClearIdleMove ==
    ASSUME NEW n, NEW s, ClearIdle(n, s), gen' = gen
    PROVE  SlotMove
  BY DEF ClearIdle, SlotMove, DropSlots

\* SetMeasureUnPassed is a drop.
LEMMA UnPassedMove ==
    ASSUME NEW n, NEW p, SetMeasureUnPassed(n, p)
    PROVE  SlotMove
  BY DEF SetMeasureUnPassed, CleanRunning, SlotMove, DropSlots

\* Whatever a step of the program does to the slots is one of these moves.
LEMMA SlotMoves == TypeInv /\ Attended /\ [Next]_vars => SlotMove
<1> SUFFICES ASSUME TypeInv, Attended, [Next]_vars PROVE SlotMove
    OBVIOUS
<1>0. UNCHANGED <<idle, running, gen>> => SlotMove
      BY DEF SlotMove, DropSlots
<1>1. CASE UNCHANGED vars \/ ReceiveSignal \/ RequeueTask
      BY <1>0, <1>1 DEF vars, ReceiveSignal, RequeueTask
<1>2. ASSUME NEW t \in Tasks, Request(t)
      PROVE  SlotMove
      BY <1>0, <1>2 DEF Request, NewTask, PushSlot, DispenseOwn
<1>3. ASSUME NEW d \in Dispatchers, Dispense(d)
      PROVE  SlotMove
  <2>1. CASE PushRunning(d)
    <3>1. PICK x \in disp[d].left : PushRunning(d)!(x)
          BY <2>1 DEF PushRunning
    <3>2. PopSlot(x.node) \subseteq Subs /\ IdleSlot(x) \subseteq idle
          BY PopSlotWaiting DEF Waiting, IdleSlot
    <3> QED
          BY <1>0, <3>1, <3>2 DEF SlotMove, TakeSlot
  <2>2. CASE PushProcessing(d) \/ AddTask(d) \/ MarkPublishing(d)
        BY <1>0, <2>2 DEF PushProcessing, AddTask, MarkPublishing
  <2> QED
        BY <1>3, <2>1, <2>2 DEF Dispense
<1>4. ASSUME NEW n \in Nodes, NEW s \in Subs, Progress(n, s)
      PROVE  SlotMove
      BY <1>0, <1>4 DEF Progress, TaskPublish, TaskStart, TaskInferenceCompleted
<1>5. ASSUME NEW n \in Nodes, NEW s \in Subs, NEW k \in Kinds, ReceiveAnswer(n, s, k)
      PROVE  SlotMove
      BY <1>0, <1>5 DEF ReceiveAnswer
<1>6. ASSUME NEW s \in Subs, Expire(s)
      PROVE  SlotMove
      BY <1>0, <1>6 DEF Expire
<1>7. ASSUME NEW a \in Agents, Conclude(a)
      PROVE  SlotMove
  <2>1. CASE SettleGood(a)
    <3>1. Present(a)
          BY <2>1 DEF SettleGood, TypeInv, HandsFull, Attended
    <3> QED
          BY <2>1, <3>1, PushIdleMove DEF SettleGood
  <2>2. CASE SettleFailed(a)
        BY <2>2, ClearIdleMove DEF SettleFailed, SetNodeUnPass
  <2>3. CASE CheckCompletedTask(a) \/ CloseTask(a)
        BY <1>0, <2>3 DEF CheckCompletedTask, CloseTask
  <2> QED
        BY <1>7, <2>1, <2>2, <2>3 DEF Conclude
<1>8. ASSUME NEW n \in Nodes, Lifecycle(n)
      PROVE  SlotMove
  <2>1. CASE ComfyUIStartupSuccess(n) \/ MeasureNode(n)
        BY <2>1 DEF ComfyUIStartupSuccess, MeasureNode, SlotMove, ProbeSlots
  <2>2. CASE MeasureFailed(n)
        BY <2>2, UnPassedMove DEF MeasureFailed
  <2>3. CASE MeasureComplete(n)
    <3>1. PICK p \in probes[n], ok \in BOOLEAN : MeasureComplete(n)!2!(p, ok)
          BY <2>3 DEF MeasureComplete
    <3>2. Present(n) /\ p \in Nat \X Nat
          BY <2>3 DEF MeasureComplete, Handling, TypeInv, TypeOK, NodeTypeOK
    <3> QED
          BY <3>1, <3>2, PushIdleMove, UnPassedMove DEF SlotMove, RenewSlots
  <2>4. CASE UnPass(n)
        BY <2>4 DEF UnPass, CleanRunning, SlotMove, DropSlots
  <2>5. CASE \/ Enroll(n) \/ EnrollAgain(n) \/ StartupComplete(n)
             \/ Disconnect(n) \/ OfflineNode(n)
        BY <1>0, <2>5 DEF Enroll, EnrollAgain, StartupComplete, Disconnect, OfflineNode
  <2> QED
        BY <1>8, <2>1, <2>2, <2>3, <2>4, <2>5 DEF Lifecycle
<1>9. CASE DelNode
      BY <1>9 DEF DelNode, CleanRunning, SlotMove, DropSlots
<1> QED
      BY <1>1, <1>2, <1>3, <1>4, <1>5, <1>6, <1>7, <1>8, <1>9 DEF Next

\* A goroutine that deals with an answer has its node registered: a node is
\* deleted only between two messages.
LEMMA AttendedNext == TypeInv /\ Attended /\ [Next]_vars => Attended'
<1> SUFFICES ASSUME TypeInv, Attended, [Next]_vars PROVE Attended'
    OBVIOUS
<1>0. UNCHANGED <<job, node>> => Attended'
      BY DEF Attended, Present
<1>1. CASE UNCHANGED vars \/ ReceiveSignal \/ RequeueTask
      BY <1>0, <1>1 DEF vars, ReceiveSignal, RequeueTask
<1>2. ASSUME NEW t \in Tasks, Request(t)
      PROVE  Attended'
      BY <1>0, <1>2 DEF Request, NewTask, PushSlot, DispenseOwn
<1>3. ASSUME NEW d \in Dispatchers, Dispense(d)
      PROVE  Attended'
      BY <1>0, <1>3 DEF Dispense, PushRunning, PushProcessing, AddTask, MarkPublishing
<1>4. ASSUME NEW n \in Nodes, NEW s \in Subs, Progress(n, s)
      PROVE  Attended'
      BY <1>0, <1>4 DEF Progress, TaskPublish, TaskStart, TaskInferenceCompleted
<1>5. ASSUME NEW n \in Nodes, NEW s \in Subs, NEW k \in Kinds, ReceiveAnswer(n, s, k)
      PROVE  Attended'
  <2>1. Present(n) /\ UNCHANGED node /\ \A m \in Nodes \ {n} : job'[m] = job[m]
        BY <1>5 DEF ReceiveAnswer, Handling, TypeInv, TypeOK, HandTypeOK, Agents
  <2> QED
        BY <2>1 DEF Attended, Present
<1>6. ASSUME NEW s \in Subs, Expire(s)
      PROVE  Attended'
  <2>1. UNCHANGED node /\ \A m \in Nodes : job'[m] = job[m]
        BY <1>6, NamesAssumption DEF Expire, NamesAssumption, TypeInv, TypeOK, HandTypeOK, Agents
  <2> QED
        BY <2>1 DEF Attended, Present
<1>7. ASSUME NEW a \in Agents, Conclude(a)
      PROVE  Attended'
  <2>1. UNCHANGED node /\ job[a].pc # "ready"
        BY <1>7 DEF Conclude, SettleGood, SettleFailed, CheckCompletedTask, CloseTask
  <2>2. \A m \in Nodes \ {a} : job'[m] = job[m]
        BY <1>7
        DEF Conclude, SettleGood, SettleFailed, CheckCompletedTask, CloseTask, TypeInv, TypeOK,
            HandTypeOK, Agents
  <2> QED
        BY <2>1, <2>2 DEF Attended, Present
<1>8. ASSUME NEW n \in Nodes, Lifecycle(n)
      PROVE  Attended'
  <2>1. UNCHANGED job
        BY <1>8
        DEF Lifecycle, Enroll, EnrollAgain, StartupComplete, ComfyUIStartupSuccess, MeasureNode,
            MeasureFailed, MeasureComplete, UnPass, Disconnect, OfflineNode
  <2>2. UNCHANGED node \/ \E v \in NodeStates \ {"Absent"} : node' = [node EXCEPT ![n] = v]
    <3>1. CASE MeasureFailed(n) \/ MeasureComplete(n)
          BY <3>1
          DEF MeasureFailed, MeasureComplete, SetMeasureUnPassed, SetMeasureCompletion, NodeStates
    <3>2. CASE ~(MeasureFailed(n) \/ MeasureComplete(n))
          BY <1>8, <3>2
          DEF Lifecycle, Enroll, EnrollAgain, StartupComplete, ComfyUIStartupSuccess, MeasureNode,
              SendMeasure, UnPass, Disconnect, OfflineNode, NodeStates
    <3> QED
          BY <3>1, <3>2
  <2> QED
        BY <2>1, <2>2 DEF Attended, Present, TypeInv, TypeOK, NodeTypeOK
<1>9. CASE DelNode
      BY <1>9 DEF DelNode, Closable, Attended, Present, TypeInv, TypeOK, NodeTypeOK
<1> QED
      BY <1>1, <1>2, <1>3, <1>4, <1>5, <1>6, <1>7, <1>8, <1>9 DEF Next

\* Slots stay exclusive because a new one is of a later set than any other.
SlotInv == SlotsAged /\ SlotExclusive

\* Every move keeps the slots exclusive.
LEMMA SlotStep ==
    ASSUME TypeInv, TypeInv', SlotInv, SlotMove
    PROVE  SlotInv'
<1> USE DEF SlotInv, SlotsAged, SlotExclusive
<1>1. gen \in [Nodes -> Nat] /\ idle \subseteq Slot /\ running \subseteq Holding
      BY DEF TypeInv, TypeOK, SlotTypeOK
<1>2. CASE TakeSlot
      BY <1>1, <1>2 DEF TakeSlot
<1>3. CASE ReturnSlot
      BY <1>1, <1>3 DEF ReturnSlot
<1>4. CASE DropSlots
      BY <1>4 DEF DropSlots
<1>5. CASE ProbeSlots
  <2>1. PICK n \in Nodes : SendMeasure(n)
        BY <1>5 DEF ProbeSlots
  <2> DEFINE g == gen[n] + 1
             Probe(i) == [slot |-> [node |-> n, id |-> 1, gen |-> g, probe |-> i], sub |-> <<g, i>>]
             new == {Probe(i) : i \in 1..MeasureCount}
  <2>2. /\ running' \subseteq running \cup new /\ idle' \subseteq idle
        /\ gen' = [gen EXCEPT ![n] = g]
        BY <2>1 DEF SendMeasure, CleanRunning
  <2>3. \A r \in new : r.slot.gen = g /\ r.slot.node = n
        OBVIOUS
  <2>4. \A r1, r2 \in new : r1.slot = r2.slot => r1 = r2
        OBVIOUS
  <2>5. g \in Nat /\ g > gen[n] /\ \A m \in Nodes : gen'[m] \in Nat /\ gen[m] <= gen'[m]
        BY <1>1, <2>2
  <2>6. /\ \A x \in idle : x.gen \in Nat /\ x.node \in Nodes
        /\ \A r \in running : r.slot.gen \in Nat /\ r.slot.node \in Nodes
        BY <1>1 DEF Slot, Holding
  <2>7. /\ \A x \in idle, r \in new : x # r.slot
        /\ \A q \in running, r \in new : q.slot # r.slot
    <3>1. /\ \A x \in idle : x.node = n => x.gen # g
          /\ \A q \in running : q.slot.node = n => q.slot.gen # g
          BY <1>1, <2>5, <2>6
    <3> HIDE DEF new
    <3> QED
          BY <2>3, <3>1
  <2>8. SlotExclusive'
        BY <2>2, <2>4, <2>7
  <2>9. gen'[n] = g
        BY <1>1, <2>2
  <2>10. SlotsAged'
        BY <1>1, <2>2, <2>3, <2>5, <2>6, <2>9
  <2> QED
        BY <2>8, <2>10
<1>6. CASE RenewSlots
  <2>1. PICK n \in Nodes, p \in Nat \X Nat : SetMeasureCompletion(n, p)
        BY <1>6 DEF RenewSlots
  <2>2. /\ running' \subseteq running /\ idle' \subseteq idle \cup FreshSlots(n)
        /\ gen' = [gen EXCEPT ![n] = @ + 1]
        BY <2>1 DEF SetMeasureCompletion, CleanRunning
  <2>3. \A x \in FreshSlots(n) : x.gen = gen[n] + 1 /\ x.node = n
        BY DEF FreshSlots
  <2>4. /\ gen'[n] = gen[n] + 1 /\ gen[n] \in Nat
        /\ \A m \in Nodes : gen'[m] \in Nat /\ gen[m] \in Nat /\ gen[m] <= gen'[m]
        BY <1>1, <2>2
  <2>5. /\ \A x \in idle : x.gen \in Nat /\ x.node \in Nodes
        /\ \A r \in running : r.slot.gen \in Nat /\ r.slot.node \in Nodes
        BY <1>1 DEF Slot, Holding
  <2>6. \A r \in running : r.slot \notin FreshSlots(n)
        BY <2>3, <2>4, <2>5
  <2>7. SlotExclusive'
        BY <2>2, <2>6
  <2>8. SlotsAged'
        BY <2>2, <2>3, <2>4, <2>5
  <2> QED
        BY <2>7, <2>8
<1> QED
      BY <1>2, <1>3, <1>4, <1>5, <1>6 DEF SlotMove

\* There are no slots, nodes or answers to begin with.
LEMMA SlotInit == Init => SlotInv /\ Attended /\ IdlePresent
  BY DEF Init, SlotInv, SlotsAged, SlotExclusive, Attended, IdlePresent, Ready, Agents

\* No slot is ever given to two subtasks, nor offered while it serves one,
\* whatever benchmarks, answers and losses happen to its node meanwhile.
THEOREM SlotsExclusive == Spec => []SlotExclusive
<1>1. Init => TypeInv /\ Attended /\ SlotInv
      BY TypeInit, SlotInit
<1>2. TypeInv /\ Attended /\ SlotInv /\ [Next]_vars => (TypeInv /\ Attended /\ SlotInv)'
      BY TypeNext, AttendedNext, SlotMoves, SlotStep
<1>3. SlotInv => SlotExclusive
      BY DEF SlotInv
<1> QED
      BY <1>1, <1>2, <1>3, PTL DEF Spec

-----------------------------------------------------------------------------
(***************************************************************************)
(* A node that is deleted takes its idle slots with it, and none comes     *)
(* back after it.                                                          *)
(***************************************************************************)
\* Only DelNode deletes a node, and it cleans the idle slots in the same step.
LEMMA PresentStep ==
    ASSUME TypeInv, [Next]_vars, NEW n \in Nodes, Present(n), ~Present(n)'
    PROVE  DelNode /\ idle' = idle \ SlotsOf(n)
<1> USE DEF Present
<1>1. CASE UNCHANGED node
      BY <1>1
<1>2. CASE DelNode
      BY <1>2 DEF DelNode, TypeInv, TypeOK, NodeTypeOK
<1>3. ASSUME NEW m \in Nodes, Lifecycle(m)
      PROVE  UNCHANGED node \/ \E v \in NodeStates \ {"Absent"} : node' = [node EXCEPT ![m] = v]
  <2>1. CASE MeasureFailed(m) \/ MeasureComplete(m)
        BY <2>1
        DEF MeasureFailed, MeasureComplete, SetMeasureUnPassed, SetMeasureCompletion, NodeStates
  <2>2. CASE ~(MeasureFailed(m) \/ MeasureComplete(m))
        BY <1>3, <2>2
        DEF Lifecycle, Enroll, EnrollAgain, StartupComplete, ComfyUIStartupSuccess, MeasureNode,
            SendMeasure, UnPass, Disconnect, OfflineNode, NodeStates
  <2> QED
        BY <2>1, <2>2
<1>4. ASSUME NEW m \in Nodes, Lifecycle(m)
      PROVE  FALSE
      BY <1>3, <1>4 DEF TypeInv, TypeOK, NodeTypeOK
<1>5. CASE /\ Next
           /\ ~\E m \in Nodes : Lifecycle(m)
           /\ ~DelNode
      BY <1>5
      DEF Next, Request, NewTask, PushSlot, DispenseOwn, ReceiveSignal, Dispense, PushRunning,
          PushProcessing, AddTask, MarkPublishing, Progress, TaskPublish, TaskStart,
          TaskInferenceCompleted, ReceiveAnswer, Expire, Conclude, SettleGood, SettleFailed,
          CheckCompletedTask, CloseTask, RequeueTask
<1> QED
      BY <1>1, <1>2, <1>4, <1>5 DEF vars

\* A slot becomes idle only while its node is registered.
LEMMA IdlePresentNext ==
    TypeInv /\ Attended /\ IdlePresent /\ [Next]_vars => IdlePresent'
<1> SUFFICES ASSUME TypeInv, Attended, IdlePresent, [Next]_vars, NEW x \in idle'
             PROVE  Present(x.node)'
    BY DEF IdlePresent
<1>1. SlotMove /\ TypeInv'
      BY SlotMoves, TypeNext
<1>2. x.node \in Nodes
      BY <1>1 DEF TypeInv, TypeOK, SlotTypeOK, Slot
<1>3. CASE x \in idle
  <2>1. Present(x.node)
        BY <1>3 DEF IdlePresent
  <2>2. SUFFICES ASSUME ~Present(x.node)' PROVE FALSE
        OBVIOUS
  <2>3. idle' = idle \ SlotsOf(x.node)
        BY <1>2, <2>1, <2>2, PresentStep
  <2> QED
        BY <1>3, <2>3 DEF SlotsOf
<1>4. CASE x \notin idle
  <2>1. CASE ReturnSlot
    <3>1. Present(x.node) /\ ~(idle' \subseteq idle)
          BY <1>4, <2>1 DEF ReturnSlot
    <3> QED
          BY <1>2, <3>1, PresentStep
  <2>2. CASE RenewSlots
    <3>1. PICK n \in Nodes, p \in Nat \X Nat : SetMeasureCompletion(n, p)
          BY <2>2 DEF RenewSlots
    <3>2. x.node = n /\ node'[n] = "Complete"
          BY <1>4, <3>1 DEF SetMeasureCompletion, FreshSlots, TypeInv, TypeOK, NodeTypeOK
    <3> QED
          BY <3>2 DEF Present
  <2>3. CASE TakeSlot \/ DropSlots \/ ProbeSlots
        BY <1>4, <2>3 DEF TakeSlot, DropSlots, ProbeSlots, SendMeasure
  <2> QED
        BY <1>1, <2>1, <2>2, <2>3 DEF SlotMove
<1> QED
      BY <1>3, <1>4

\* The scheduler never offers a slot of a node that was deleted.
THEOREM IdleSlotsPresent == Spec => []IdlePresent
<1>1. Init => TypeInv /\ Attended /\ IdlePresent
      BY TypeInit, SlotInit
<1>2. TypeInv /\ Attended /\ IdlePresent /\ [Next]_vars => (TypeInv /\ Attended /\ IdlePresent)'
      BY TypeNext, AttendedNext, IdlePresentNext
<1> QED
      BY <1>1, <1>2, PTL DEF Spec

-----------------------------------------------------------------------------
(***************************************************************************)
(* A task is closed by a goroutine that saw a final state of each of its   *)
(* subtasks. The state may change again before the task is closed; that    *)
(* each subtask has had an outcome cannot.                                 *)
(***************************************************************************)
\* Recorded survives a step that changes no state, no verdict and no job.
LEMMA RecordedKept ==
    ASSUME Recorded, verdict \subseteq verdict',
           \A s \in Subs : state'[s] \in Final => s \in verdict' \/ state[s] \in Final,
           \A a \in Agents : job'[a].pc = "close" => job'[a] = job[a]
    PROVE  Recorded'
  BY DEF Recorded, SubsOf

\* The steps that conclude an answer keep Recorded.
LEMMA RecordedConclude ==
    ASSUME TypeInv, Recorded, NEW a \in Agents, Conclude(a)
    PROVE  Recorded'
<1> DEFINE s == job[a].sub
<1>0. s \in Subs /\ \A b \in Agents \ {a} : job'[b] = job[b]
      BY DEF Conclude, SettleGood, SettleFailed, CheckCompletedTask, CloseTask, TypeInv, TypeOK,
             HandTypeOK, HandsFull
<1>1. CASE SettleGood(a) \/ SettleFailed(a)
  <2>1. PICK v \in States : state' \in {state, [state EXCEPT ![s] = v]} /\ (v \in Final => s \in verdict')
        BY <1>1 DEF SettleGood, SettleFailed, States, Final
  <2>2. verdict \subseteq verdict'
        BY <1>1 DEF SettleGood, SettleFailed
  <2>3. job'[a].pc # "close"
        BY <1>1 DEF SettleGood, SettleFailed, TypeInv, TypeOK, HandTypeOK, Concluding, Ready
  <2>4. \A u \in Subs : state'[u] \in Final => u \in verdict' \/ state[u] \in Final
        BY <2>1 DEF TypeInv, TypeOK, QueueTypeOK
  <2> QED
        BY <1>0, <2>2, <2>3, <2>4, RecordedKept
<1>2. CASE CheckCompletedTask(a)
  <2>1. UNCHANGED <<state, verdict>>
        BY <1>2 DEF CheckCompletedTask
  <2>2. CASE job'[a].pc = "close"
    <3>1. Done(TaskOf[s]) /\ job'[a].sub = s
          BY <1>2, <2>2
          DEF CheckCompletedTask, TypeInv, TypeOK, HandTypeOK, Concluding, Ready
    <3>2. SubsOf(TaskOf[s]) \subseteq verdict
          BY <3>1 DEF Done, Recorded, SubsOf
    <3> QED
          BY <1>0, <2>1, <3>1, <3>2 DEF Recorded, SubsOf
  <2>3. CASE job'[a].pc # "close"
        BY <1>0, <2>1, <2>3, RecordedKept
  <2> QED
        BY <2>2, <2>3
<1>3. CASE CloseTask(a)
  <2>1. UNCHANGED <<state, verdict>> /\ job'[a].pc # "close"
        BY <1>3 DEF CloseTask, TypeInv, TypeOK, HandTypeOK, Ready
  <2> QED
        BY <1>0, <2>1, RecordedKept
<1> QED
      BY <1>1, <1>2, <1>3 DEF Conclude

\* Every step keeps Recorded.
LEMMA RecordedNext == TypeInv /\ Recorded /\ [Next]_vars => Recorded'
<1> SUFFICES ASSUME TypeInv, Recorded, [Next]_vars PROVE Recorded'
    OBVIOUS
<1>0. state \in [Subs -> States] /\ job \in [Agents -> Concluding]
      BY DEF TypeInv, TypeOK, QueueTypeOK, HandTypeOK
<1>1. CASE UNCHANGED <<state, verdict, job>>
      BY <1>1 DEF Recorded, SubsOf
<1>2. ASSUME UNCHANGED <<verdict, job>>,
             \A s \in Subs : state'[s] \in Final => state[s] \in Final
      PROVE  Recorded'
      BY <1>2, RecordedKept
<1>3. ASSUME NEW t \in Tasks, Request(t)
      PROVE  Recorded'
      BY <1>0, <1>1, <1>2, <1>3 DEF Request, NewTask, PushSlot, DispenseOwn, Final, SubsOf
<1>4. ASSUME NEW d \in Dispatchers, Dispense(d)
      PROVE  Recorded'
      BY <1>0, <1>1, <1>2, <1>4
      DEF Dispense, PushRunning, PushProcessing, AddTask, MarkPublishing, Final
<1>5. ASSUME NEW n \in Nodes, NEW s \in Subs, Progress(n, s)
      PROVE  Recorded'
      BY <1>0, <1>1, <1>2, <1>5
      DEF Progress, TaskPublish, TaskStart, TaskInferenceCompleted, Final
<1>6. ASSUME NEW n \in Nodes, NEW s \in Subs, NEW k \in Kinds, ReceiveAnswer(n, s, k)
      PROVE  Recorded'
  <2>1. /\ verdict \subseteq verdict'
        /\ \A u \in Subs : state'[u] \in Final => u \in verdict' \/ state[u] \in Final
        BY <1>0, <1>6 DEF ReceiveAnswer
  <2>2. \A a \in Agents : job'[a].pc = "close" => job'[a] = job[a]
        BY <1>0, <1>6 DEF ReceiveAnswer, Ready
  <2> QED
        BY <2>1, <2>2, RecordedKept
<1>7. ASSUME NEW s \in Subs, Expire(s)
      PROVE  Recorded'
  <2>1. \A a \in Agents : job'[a].pc = "close" => job'[a] = job[a]
        BY <1>0, <1>7 DEF Expire, Ready
  <2> QED
        BY <1>7, <2>1, RecordedKept DEF Expire
<1>8. ASSUME NEW n \in Nodes, Lifecycle(n)
      PROVE  Recorded'
      BY <1>1, <1>8
      DEF Lifecycle, Enroll, EnrollAgain, StartupComplete, ComfyUIStartupSuccess, MeasureNode,
          MeasureFailed, MeasureComplete, UnPass, Disconnect, OfflineNode
<1>9. CASE RequeueTask
      BY <1>0, <1>2, <1>9 DEF RequeueTask, Final
<1>10. CASE ReceiveSignal \/ DelNode \/ UNCHANGED vars
      BY <1>1, <1>10 DEF ReceiveSignal, DelNode, vars
<1> QED
      BY <1>3, <1>4, <1>5, <1>6, <1>7, <1>8, <1>9, <1>10, RecordedConclude DEF Next

\* The step from the state of a task to a final one.
Closing == \A t \in Tasks : task'[t] \in Final /\ task'[t] # task[t] => SubsOf(t) \subseteq verdict

\* A task is closed only by a goroutine that found all its subtasks recorded.
LEMMA ClosingStep == TypeInv /\ Recorded /\ [Next]_vars => Closing
<1> SUFFICES ASSUME TypeInv, Recorded, [Next]_vars PROVE Closing
    OBVIOUS
<1>1. ASSUME NEW a \in Agents, CloseTask(a)
      PROVE  Closing
      BY <1>1 DEF CloseTask, Closing, Recorded, TypeInv, TypeOK, TaskTypeOK
<1>2. ASSUME NEW t \in Tasks, NewTask(t)
      PROVE  Closing
      BY <1>2 DEF NewTask, Closing, Final, TypeInv, TypeOK, TaskTypeOK
<1>3. CASE UNCHANGED task
      BY <1>3 DEF Closing
<1> QED
      BY <1>1, <1>2, <1>3
      DEF Next, Request, PushSlot, DispenseOwn, ReceiveSignal, Dispense, PushRunning,
          PushProcessing, AddTask, MarkPublishing, Progress, TaskPublish, TaskStart,
          TaskInferenceCompleted, ReceiveAnswer, Expire, Conclude, SettleGood, SettleFailed,
          CheckCompletedTask, Lifecycle, Enroll, EnrollAgain, StartupComplete,
          ComfyUIStartupSuccess, MeasureNode, MeasureFailed, MeasureComplete, UnPass, Disconnect,
          OfflineNode, RequeueTask, DelNode, vars

\* A task is never closed while one of its subtasks has had no outcome.
THEOREM TasksClosedAfterVerdicts == Spec => ClosedAfterVerdicts
<1>1. Init => Recorded
      BY DEF Init, Recorded, Final, Ready
<1>2. TypeInv /\ Recorded /\ [Next]_vars => (TypeInv /\ Recorded)'
      BY TypeNext, RecordedNext
<1>3. TypeInv /\ Recorded /\ [Next]_vars => [Closing]_vars
      BY ClosingStep
<1>4. [][Closing]_vars => ClosedAfterVerdicts
      BY DEF ClosedAfterVerdicts, Closing
<1> QED
      BY <1>1, <1>2, <1>3, <1>4, TypeInit, PTL DEF Spec
=============================================================================
