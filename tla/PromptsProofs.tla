--------------------------- MODULE PromptsProofs ----------------------------
(***************************************************************************)
(* Safety of the plug-in for any number of subtasks, prompts and links:    *)
(* what was accepted keeps its slot until it is answered, and answers are  *)
(* those of the workflow that was run.                                     *)
(***************************************************************************)
EXTENDS Prompts, SequenceTheorems, TLAPS

USE DEF NoPrompt, Prompts, Idle

\* A subtask has a slot or an answer.
Kept(s) == (\E q \in queue : q.sub = s) \/ (\E a \in answers : a.sub = s)

\* What the goroutines hold: who is about to report has added its slot, and
\* who is about to remove a slot has answered it.
Attended ==
    /\ poster.pc = "report" => Kept(poster.sub)
    /\ \A p \in pushers : p.pc = "delete" => \E a \in answers : a.sub = p.sub

\* Prompt i was made for subtask s.
Made(i, s) == i \in DOMAIN owner /\ owner[i] = s

\* Whatever carries a prompt id carries that of its own subtask, and what
\* speaks of the end of a prompt speaks of one that was run.
Traced ==
    /\ \A k \in DOMAIN comfy : comfy[k] \in DOMAIN owner
    /\ poster.pc # "idle" /\ poster.id # NoPrompt => Made(poster.id, poster.sub)
    /\ \A q \in queue : q.id # NoPrompt => Made(q.id, q.sub)
    /\ \A k \in DOMAIN inbox : inbox[k].kind = "end" => inbox[k].id \in ended
    /\ listener.pc = "history" => listener.id \in ended
    /\ \A p \in pushers : p.id \in ended /\ Made(p.id, p.sub)

PromptsInv == TypeOK /\ AcceptedKept /\ Attended /\ Traced /\ TrueAnswers

-----------------------------------------------------------------------------
\* Appending a value of the right type: its length, its places.
LEMMA AppendFacts ==
    ASSUME NEW S, NEW q \in Seq(S), NEW e \in S
    PROVE  /\ Append(q, e) \in Seq(S)
           /\ Len(Append(q, e)) = Len(q) + 1
           /\ DOMAIN q \subseteq DOMAIN Append(q, e)
           /\ \A k \in DOMAIN q : Append(q, e)[k] = q[k]
           /\ Append(q, e)[Len(q) + 1] = e
           /\ DOMAIN Append(q, e) = DOMAIN q \cup {Len(q) + 1}
    OBVIOUS

\* Taking the head off: the rest is of the same type, its elements are of q.
LEMMA TailFacts ==
    ASSUME NEW S, NEW q \in Seq(S), q # <<>>
    PROVE  /\ Tail(q) \in Seq(S) /\ Head(q) \in S
           /\ 1 \in DOMAIN q /\ Head(q) = q[1]
           /\ \A k \in DOMAIN Tail(q) : k + 1 \in DOMAIN q /\ Tail(q)[k] = q[k + 1]
    OBVIOUS

\* Setting the start time leaves subtask and prompt of each slot.
LEMMA StartedSlots ==
    ASSUME TypeOK, NEW i \in Prompts
    PROVE  /\ Started(i) \subseteq SlotType
           /\ \A r \in Started(i) : \E q \in queue : q.sub = r.sub /\ q.id = r.id
           /\ \A q \in queue : \E r \in Started(i) : q.sub = r.sub /\ q.id = r.id
PROOF
<1>1. \A q \in queue : /\ [q EXCEPT !.started = @ \/ q.id = i] \in SlotType
                       /\ [q EXCEPT !.started = @ \/ q.id = i].sub = q.sub
                       /\ [q EXCEPT !.started = @ \/ q.id = i].id = q.id
  <2>1. TAKE q \in queue
  <2>2. q \in SlotType
    BY DEF TypeOK
  <2>3. (q.started \/ q.id = i) \in BOOLEAN
    OBVIOUS
  <2> QED
    BY <2>2, <2>3 DEF SlotType
<1> QED
  BY <1>1 DEF Started

\* A message of ComfyUI that arrives is the last one of the inbox.
LEMMA Emitted ==
    ASSUME TypeOK, NEW kind \in {"start", "step", "end"}, NEW i \in Prompts, Emit(kind, i)
    PROVE  /\ inbox' \in Seq(EventType)
           /\ \A k \in DOMAIN inbox' :
                 (k \in DOMAIN inbox /\ inbox'[k] = inbox[k])
                 \/ inbox'[k] = [kind |-> kind, id |-> i]
PROOF
<1>1. [kind |-> kind, id |-> i] \in EventType /\ inbox \in Seq(EventType)
  BY DEF EventType, TypeOK
<1>2. CASE Open = {}
  BY <1>1, <1>2 DEF Emit
<1>3. CASE Open # {}
  BY <1>1, <1>3, AppendFacts DEF Emit
<1> QED
  BY <1>2, <1>3

(***************************************************************************)
(* Type correctness.                                                       *)
(***************************************************************************)
\* Every step leaves every variable with a value of its type.
LEMMA TypeStep ==
    ASSUME TypeOK, Next
    PROVE  TypeOK'
<1> USE PromptsAssumption DEF PromptsAssumption
<1>1. ASSUME NEW s \in Subs, Forget(s) PROVE TypeOK'
  BY <1>1 DEF Forget, TypeOK, linkVars, comfyVars, toCloud
<1>2. ASSUME NEW s \in Subs, Post(s) PROVE TypeOK'
  <2>1. PICK r \in Replies :
          LET id == Len(owner) + 1
          IN  /\ poster' = [pc |-> "add", sub |-> s, id |-> IF r.known THEN id ELSE NoPrompt]
              /\ owner' = IF r.queued THEN Append(owner, s) ELSE owner
              /\ comfy' = IF r.queued THEN Append(comfy, id) ELSE comfy
    BY <1>2 DEF Post
  <2>2. Len(owner) + 1 \in Prompts /\ owner \in Seq(Subs) /\ comfy \in Seq(Prompts)
    BY <1>2 DEF Post, TypeOK
  <2>3. /\ owner' \in Seq(Subs) /\ Len(owner') <= MaxPrompts
        /\ comfy' \in Seq(Prompts) /\ (comfy # <<>> => comfy' # <<>>)
    <3>1. CASE r.queued
      <4>1. /\ owner' \in Seq(Subs) /\ Len(owner') = Len(owner) + 1
            /\ comfy' \in Seq(Prompts) /\ Len(comfy') = Len(comfy) + 1
        BY <2>1, <2>2, <3>1, AppendFacts
      <4>2. Len(comfy) \in Nat
        BY <2>2
      <4> QED
        BY <2>2, <4>1, <4>2
    <3>2. CASE ~r.queued
      BY <2>1, <3>2 DEF TypeOK
    <3> QED
      BY <3>1, <3>2
  <2>4. poster' \in [pc : {"add", "report"}, sub : Subs, id : Prompts \cup {NoPrompt}]
    BY <2>1, <2>2
  <2>5. asked' \in [Subs -> Nat]
    BY <1>2 DEF Post, TypeOK
  <2>6. running' = running /\ (running # "no" => comfy # <<>>)
    BY <1>2 DEF Post, TypeOK
  <2> QED
    BY <1>2, <2>3, <2>4, <2>5, <2>6 DEF Post, TypeOK, linkVars, toCloud
<1>3. CASE AddSlot
  <2>1. poster \in [pc : {"add", "report"}, sub : Subs, id : Prompts \cup {NoPrompt}]
    BY <1>3 DEF AddSlot, TypeOK
  <2>2. queue' \subseteq SlotType
    <3>1. poster.sub \in Subs /\ poster.id \in Prompts \cup {NoPrompt}
      BY <2>1
    <3>2. [sub |-> poster.sub, id |-> poster.id, started |-> FALSE] \in SlotType
      BY <3>1 DEF SlotType
    <3> QED
      BY <1>3, <3>2 DEF AddSlot, TypeOK
  <2>3. poster' \in [pc : {"add", "report"}, sub : Subs, id : Prompts \cup {NoPrompt}]
    BY <1>3, <2>1 DEF AddSlot
  <2> QED
    BY <1>3, <2>2, <2>3 DEF AddSlot, TypeOK, linkVars, comfyVars, toCloud
<1>4. CASE ReportPublish
  BY <1>4 DEF ReportPublish, TellAccepted, TypeOK, linkVars, comfyVars
<1>5. ASSUME Listening
      PROVE  /\ Head(inbox) \in EventType /\ Tail(inbox) \in Seq(EventType)
             /\ Head(inbox).id \in Prompts
             /\ Started(Head(inbox).id) \subseteq SlotType
  <2>1. inbox \in Seq(EventType) /\ inbox # <<>>
    BY <1>5 DEF TypeOK, Listening
  <2>2. Head(inbox) \in EventType /\ Tail(inbox) \in Seq(EventType)
    BY <2>1, TailFacts
  <2>3. Head(inbox).id \in Prompts
    BY <2>2 DEF EventType
  <2> QED
    BY <2>2, <2>3, StartedSlots
<1>6. CASE HearProgress
  BY <1>5, <1>6 DEF HearProgress, TypeOK, linkVars, comfyVars, toCloud
<1>7. CASE HearEnd
  BY <1>5, <1>7 DEF HearEnd, TypeOK, linkVars, comfyVars, toCloud
<1>8. CASE History
  <2>1. listener.id \in Prompts
    BY <1>8 DEF History, TypeOK
  <2>2. pushers' \subseteq PusherType
    <3>1. CASE UNCHANGED pushers
      BY <3>1 DEF TypeOK
    <3>2. CASE FindSlot(listener.id) # {}
      <4>1. PICK q \in FindSlot(listener.id) :
              \E b \in Bodies(q.sub) : \E r \in Results(b) :
                 pushers' = pushers \cup
                    {[sub |-> q.sub, id |-> listener.id, result |-> r, pc |-> "push"]}
        BY <1>8, <3>2 DEF History
      <4>3. PICK r \in {"images", "failed", "nothing"} :
              pushers' = pushers \cup
                 {[sub |-> q.sub, id |-> listener.id, result |-> r, pc |-> "push"]}
        BY <4>1 DEF Results, Stored
      <4>2. q.sub \in Subs
        BY DEF FindSlot, Slots, TypeOK, SlotType
      <4> QED
        BY <2>1, <4>3, <4>2 DEF PusherType, TypeOK
    <3> QED
      BY <1>8, <3>1, <3>2 DEF History
  <2> QED
    BY <1>8, <2>2 DEF History, TypeOK, linkVars, comfyVars, toCloud
<1>9. ASSUME NEW p \in pushers, AnswerTask(p) \/ AnswerMeasure(p) PROVE TypeOK'
  <2>1. p \in PusherType
    BY DEF TypeOK
  <2>2. [p EXCEPT !.pc = "delete"] \in PusherType
    BY <2>1 DEF PusherType
  <2>3. [sub |-> p.sub, id |-> p.id, ok |-> p.result = "images"]
           \in [sub : Subs, id : Prompts, ok : BOOLEAN]
    BY <2>1 DEF PusherType
  <2> QED
    BY <1>9, <2>2, <2>3 DEF AnswerTask, AnswerMeasure, Tell, GiveUp, TypeOK, linkVars, comfyVars
<1>10. ASSUME NEW p \in pushers, DelSlot(p) PROVE TypeOK'
  BY <1>10 DEF DelSlot, TypeOK, linkVars, comfyVars, toCloud
<1>11. CASE Reconnect
  BY <1>11 DEF Reconnect, StartClient, TypeOK, Free, goVars, comfyVars, toCloud
<1>12. CASE Stop
  BY <1>12 DEF Stop, TypeOK, Closed, goVars, comfyVars, toCloud
<1>13. ASSUME NEW l \in Links, Break(l) PROVE TypeOK'
  BY <1>13 DEF Break, TypeOK, goVars, comfyVars, toCloud
<1>14. ASSUME NEW l \in Links, Offline(l) PROVE TypeOK'
  BY <1>14 DEF Offline, TypeOK, Closed, goVars, comfyVars, toCloud
<1>15. ASSUME comfy # <<>>
       PROVE  Head(comfy) \in Prompts /\ Tail(comfy) \in Seq(Prompts)
  BY <1>15, TailFacts DEF TypeOK
<1>16. CASE Execute
  <2>1. inbox' \in Seq(EventType)
    BY <1>15, <1>16, Emitted DEF Execute
  <2> QED
    BY <1>16, <2>1 DEF Execute, TypeOK, linkVars, toCloud
<1>17. CASE Step
  <2>1. comfy # <<>>
    BY <1>17 DEF Step, TypeOK
  <2>2. inbox' \in Seq(EventType)
    BY <1>15, <1>17, <2>1, Emitted DEF Step
  <2> QED
    BY <1>17, <2>1, <2>2 DEF Step, TypeOK, linkVars, toCloud
<1>18. CASE Finish
  <2>1. comfy # <<>>
    BY <1>18 DEF Finish, TypeOK
  <2>2. inbox' \in Seq(EventType)
    BY <1>15, <1>18, <2>1, Emitted DEF Finish
  <2> QED
    BY <1>15, <1>18, <2>1, <2>2 DEF Finish, TypeOK, linkVars, toCloud
<1> QED
  BY <1>1, <1>2, <1>3, <1>4, <1>6, <1>7, <1>8, <1>9, <1>10, <1>11, <1>12, <1>13, <1>14,
     <1>16, <1>17, <1>18 DEF Next

\* The variables start with values of their types.
LEMMA InitType == Init => TypeOK
<1> SUFFICES ASSUME Init PROVE TypeOK
  OBVIOUS
<1> USE PromptsAssumption DEF PromptsAssumption
<1>1. inbox \in Seq(EventType)
  BY EmptySeq DEF Init
<1>2. owner \in Seq(Subs) /\ comfy \in Seq(Prompts) /\ Len(owner) <= MaxPrompts
  BY EmptySeq DEF Init
<1>3. /\ queue \subseteq SlotType /\ pushers \subseteq PusherType
      /\ answers \subseteq [sub : Subs, id : Prompts, ok : BOOLEAN]
      /\ accepted \subseteq Subs /\ ended \subseteq Prompts
  BY DEF Init
<1>4. /\ asked \in [Subs -> Nat] /\ drops \in 0..MaxDrops
      /\ running \in {"no", "start", "step"} /\ running = "no"
  BY DEF Init
<1>5. /\ poster \in [pc : {"idle"}, sub : {Nil}, id : {NoPrompt}]
      /\ listener = Idle
      /\ link \in [Links -> {"free", "open", "notifying"}]
      /\ linker \in Links \cup {Nil} /\ exit \in BOOLEAN
  BY DEF Init
<1> QED
  BY <1>1, <1>2, <1>3, <1>4, <1>5 DEF TypeOK

\* Every variable keeps its type.
THEOREM PromptsTypeCorrect == Spec => []TypeOK
<1>1. Init => TypeOK
  BY InitType
<1>2. TypeOK /\ [Next]_vars => TypeOK'
  <2>1. CASE Next
    BY <2>1, TypeStep
  <2>2. CASE UNCHANGED vars
    BY <2>2 DEF TypeOK, vars, goVars, linkVars, comfyVars, toCloud
  <2> QED
    BY <2>1, <2>2
<1> QED
  BY <1>1, <1>2, PTL DEF Spec

(***************************************************************************)
(* The slots of what was accepted.                                         *)
(***************************************************************************)
\* A subtask loses its slot only after its answer was sent.
LEMMA KeptStep ==
    ASSUME TypeOK, AcceptedKept, Attended, Next
    PROVE  AcceptedKept' /\ Attended'
<1> DEFINE KeepsSlots == \A q \in queue : \E r \in queue' : r.sub = q.sub
           KeepsAnswers == answers \subseteq answers'
<1>1. ASSUME KeepsSlots, KeepsAnswers, accepted' = accepted,
             poster'.pc = "report" => poster' = poster,
             \A p \in pushers' : p.pc = "delete" => p \in pushers
      PROVE  AcceptedKept' /\ Attended'
  <2>1. \A s : Kept(s) => Kept(s)'
    BY <1>1 DEF Kept
  <2>2. AcceptedKept'
    BY <1>1, <2>1 DEF AcceptedKept, Kept
  <2> QED
    BY <1>1, <2>1, <2>2 DEF Attended
<1>2. ASSUME UNCHANGED <<poster, queue, pushers, accepted, answers>>
      PROVE  AcceptedKept' /\ Attended'
  BY <1>2 DEF AcceptedKept, Attended, Kept
<1>3. ASSUME NEW s \in Subs, Forget(s) \/ Post(s) PROVE AcceptedKept' /\ Attended'
  BY <1>1, <1>3 DEF Forget, Post, toCloud
<1>4. CASE AddSlot
  <2>1. [sub |-> poster.sub, id |-> poster.id, started |-> FALSE] \in queue'
    BY <1>4 DEF AddSlot
  <2>2. KeepsSlots /\ KeepsAnswers
    BY <1>4 DEF AddSlot, toCloud
  <2>3. \A s : Kept(s) => Kept(s)'
    BY <2>2 DEF Kept
  <2>4. Kept(poster.sub)'
    <3>1. poster'.sub = poster.sub
      BY <1>4 DEF AddSlot, TypeOK
    <3>2. [sub |-> poster.sub, id |-> poster.id, started |-> FALSE].sub = poster'.sub
      BY <3>1
    <3> QED
      BY <2>1, <3>2 DEF Kept
  <2>5. AcceptedKept'
    BY <1>4, <2>3 DEF AddSlot, toCloud, AcceptedKept, Kept
  <2> QED
    BY <1>4, <2>3, <2>4, <2>5 DEF AddSlot, Attended, toCloud
<1>5. CASE ReportPublish
  <2>1. Kept(poster.sub)
    BY <1>5 DEF ReportPublish, TellAccepted, Attended
  <2> QED
    BY <1>5, <2>1 DEF ReportPublish, TellAccepted, AcceptedKept, Attended, Kept
<1>6. ASSUME HearProgress \/ HearEnd PROVE AcceptedKept' /\ Attended'
  <2>1. inbox \in Seq(EventType) /\ inbox # <<>>
    BY <1>6 DEF HearProgress, HearEnd, Listening, TypeOK
  <2>2. Head(inbox).id \in Prompts
    <3>1. Head(inbox) \in EventType
      BY <2>1, TailFacts
    <3> QED
      BY <3>1 DEF EventType
  <2>3. KeepsSlots
    BY <1>6, <2>2, StartedSlots DEF HearProgress, HearEnd
  <2> QED
    BY <1>1, <1>6, <2>3 DEF HearProgress, HearEnd, toCloud
<1>7. CASE History
  <2>1. \A p \in pushers' : p.pc = "delete" => p \in pushers
    BY <1>7 DEF History
  <2> QED
    BY <1>1, <1>7, <2>1 DEF History, toCloud
<1>8. ASSUME NEW p \in pushers, AnswerTask(p) \/ AnswerMeasure(p) PROVE AcceptedKept' /\ Attended'
  <2>1. KeepsSlots /\ KeepsAnswers /\ accepted' = accepted /\ poster' = poster
    BY <1>8 DEF AnswerTask, AnswerMeasure, Tell, GiveUp
  <2>2. CASE pushers' = pushers \ {p}
    BY <1>1, <2>1, <2>2
  <2>3. CASE /\ pushers' = (pushers \ {p}) \cup {[p EXCEPT !.pc = "delete"]}
             /\ answers' = answers \cup {[sub |-> p.sub, id |-> p.id, ok |-> p.result = "images"]}
    <3>1. \E a \in answers' : a.sub = p.sub
      <4> DEFINE e == [sub |-> p.sub, id |-> p.id, ok |-> p.result = "images"]
      <4>1. e \in answers' /\ e.sub = p.sub
        BY <2>3
      <4> QED
        BY <4>1
    <3>2. [p EXCEPT !.pc = "delete"].sub = p.sub
      BY DEF TypeOK, PusherType
    <3>3. \A s : Kept(s) => Kept(s)'
      BY <2>1 DEF Kept
    <3>4. AcceptedKept'
      BY <2>1, <3>3 DEF AcceptedKept, Kept
    <3>5. \A r \in pushers' : r.pc = "delete" => \E a \in answers' : a.sub = r.sub
      BY <2>1, <2>3, <3>1, <3>2 DEF Attended
    <3> QED
      BY <2>1, <3>3, <3>4, <3>5 DEF Attended
  <2> QED
    BY <1>8, <2>2, <2>3 DEF AnswerTask, AnswerMeasure, Tell, GiveUp
<1>9. ASSUME NEW p \in pushers, DelSlot(p) PROVE AcceptedKept' /\ Attended'
  <2>1. \E a \in answers : a.sub = p.sub
    BY <1>9 DEF DelSlot, Attended
  <2>2. \A s : Kept(s) => Kept(s)'
    BY <1>9, <2>1 DEF DelSlot, Kept, toCloud
  <2>3. AcceptedKept'
    BY <1>9, <2>2 DEF DelSlot, toCloud, AcceptedKept, Kept
  <2> QED
    BY <1>9, <2>2, <2>3 DEF DelSlot, Attended, toCloud
<1>10. ASSUME Reconnect \/ Stop PROVE AcceptedKept' /\ Attended'
  BY <1>2, <1>10 DEF Reconnect, Stop, goVars, toCloud
<1>11. ASSUME NEW l \in Links, Break(l) \/ Offline(l) PROVE AcceptedKept' /\ Attended'
  BY <1>2, <1>11 DEF Break, Offline, goVars, toCloud
<1>12. ASSUME Execute \/ Step \/ Finish PROVE AcceptedKept' /\ Attended'
  BY <1>2, <1>12 DEF Execute, Step, Finish, toCloud
<1> QED
  BY <1>3, <1>4, <1>5, <1>6, <1>7, <1>8, <1>9, <1>10, <1>11, <1>12 DEF Next

(***************************************************************************)
(* The prompts behind the answers.                                         *)
(***************************************************************************)
\* No step gives a prompt another subtask, or answers one that was not run.
LEMMA TracedStep ==
    ASSUME TypeOK, Traced, TrueAnswers, Next
    PROVE  Traced' /\ TrueAnswers'
<1> USE PromptsAssumption DEF PromptsAssumption
<1>1. ASSUME UNCHANGED <<owner, comfy, ended, poster, queue, inbox, listener, pushers, answers>>
      PROVE  Traced' /\ TrueAnswers'
  BY <1>1 DEF Traced, TrueAnswers, Made
<1>2. ASSUME NEW s \in Subs, Post(s) PROVE Traced' /\ TrueAnswers'
  <2>1. PICK r \in Replies :
          LET id == Len(owner) + 1
          IN  /\ poster' = [pc |-> "add", sub |-> s, id |-> IF r.known THEN id ELSE NoPrompt]
              /\ owner' = IF r.queued THEN Append(owner, s) ELSE owner
              /\ comfy' = IF r.queued THEN Append(comfy, id) ELSE comfy
    BY <1>2 DEF Post
  <2>2. Len(owner) + 1 \in Prompts /\ owner \in Seq(Subs) /\ comfy \in Seq(Prompts)
    BY <1>2 DEF Post, TypeOK
  <2>3. /\ DOMAIN owner \subseteq DOMAIN owner'
        /\ \A k \in DOMAIN owner : owner'[k] = owner[k]
    BY <2>1, <2>2, AppendFacts
  <2>4. \A i, t : Made(i, t) => Made(i, t)'
    BY <2>3 DEF Made
  <2>5. \A k \in DOMAIN comfy' : comfy'[k] \in DOMAIN owner'
    <3>1. CASE r.queued
      <4>1. /\ \A k \in DOMAIN comfy : comfy'[k] = comfy[k]
            /\ DOMAIN comfy' = DOMAIN comfy \cup {Len(comfy) + 1}
            /\ comfy'[Len(comfy) + 1] = Len(owner) + 1
            /\ Len(owner) + 1 \in DOMAIN owner'
        BY <2>1, <2>2, <3>1, AppendFacts
      <4> QED
        BY <2>3, <4>1 DEF Traced
    <3>2. CASE ~r.queued
      BY <2>1, <2>3, <3>2 DEF Traced
    <3> QED
      BY <3>1, <3>2
  <2>6. poster'.id # NoPrompt => Made(poster.id, poster.sub)'
    <3>1. ASSUME r.known PROVE Len(owner) + 1 \in DOMAIN owner' /\ owner'[Len(owner) + 1] = s
      BY <2>1, <2>2, <3>1, AppendFacts DEF Replies
    <3>2. poster'.sub = s /\ (poster'.id # NoPrompt => r.known /\ poster'.id = Len(owner) + 1)
      BY <2>1
    <3> QED
      BY <3>1, <3>2 DEF Made
  <2>7. UNCHANGED <<queue, listener, inbox, pushers, ended, answers>>
    BY <1>2 DEF Post, toCloud
  <2> QED
    BY <2>3, <2>4, <2>5, <2>6, <2>7 DEF Traced, TrueAnswers, Made
<1>3. CASE AddSlot
  <2>1. poster'.id = poster.id /\ poster'.sub = poster.sub
    BY <1>3 DEF AddSlot, TypeOK
  <2>2. UNCHANGED <<listener, inbox, pushers, owner, comfy, ended, answers>>
    BY <1>3 DEF AddSlot, comfyVars, toCloud
  <2>3. queue' = queue \cup {[sub |-> poster.sub, id |-> poster.id, started |-> FALSE]}
    BY <1>3 DEF AddSlot
  <2>4. poster.id # NoPrompt => Made(poster.id, poster.sub)
    BY <1>3 DEF AddSlot, Traced
  <2>5. \A q \in queue' : q.id # NoPrompt => Made(q.id, q.sub)
    BY <2>3, <2>4 DEF Traced
  <2> QED
    BY <2>1, <2>2, <2>4, <2>5 DEF Traced, TrueAnswers, Made
<1>4. CASE ReportPublish
  BY <1>4 DEF ReportPublish, TellAccepted, comfyVars, Traced, TrueAnswers, Made
<1>5. ASSUME HearProgress \/ HearEnd PROVE Traced' /\ TrueAnswers'
  <2>1. inbox \in Seq(EventType) /\ inbox # <<>>
    BY <1>5 DEF HearProgress, HearEnd, Listening, TypeOK
  <2>2. /\ 1 \in DOMAIN inbox /\ Head(inbox) = inbox[1] /\ Head(inbox) \in EventType
        /\ \A k \in DOMAIN Tail(inbox) : k + 1 \in DOMAIN inbox /\ Tail(inbox)[k] = inbox[k + 1]
    BY <2>1, TailFacts
  <2>3. Head(inbox).id \in Prompts /\ inbox' = Tail(inbox)
    BY <1>5, <2>2 DEF EventType, HearProgress, HearEnd
  <2>4. \A r \in queue' : r.id # NoPrompt => Made(r.id, r.sub)
    BY <1>5, <2>3, StartedSlots DEF HearProgress, HearEnd, Traced
  <2>5. \A k \in DOMAIN inbox' : inbox'[k].kind = "end" => inbox'[k].id \in ended
    BY <2>2, <2>3 DEF Traced
  <2>6. listener'.pc = "history" => listener'.id \in ended
    BY <1>5, <2>2 DEF HearProgress, HearEnd, Traced
  <2>7. UNCHANGED <<poster, pushers, owner, comfy, ended, answers>>
    BY <1>5 DEF HearProgress, HearEnd, comfyVars, toCloud
  <2> QED
    BY <2>4, <2>5, <2>6, <2>7 DEF Traced, TrueAnswers, Made
<1>6. CASE History
  <2>1. \A p \in pushers' : p.id \in ended /\ Made(p.id, p.sub)
    <3>1. listener.id \in ended /\ listener.id # NoPrompt
      BY <1>6 DEF History, Traced, TypeOK
    <3>2. \A p \in pushers' \ pushers :
             \E q \in FindSlot(listener.id) : p.sub = q.sub /\ p.id = listener.id
      BY <1>6 DEF History
    <3>3. \A q \in FindSlot(listener.id) : Made(listener.id, q.sub)
      BY <3>1 DEF FindSlot, Slots, Traced
    <3> QED
      BY <3>1, <3>2, <3>3 DEF Traced
  <2>2. UNCHANGED <<poster, queue, inbox, owner, comfy, ended, answers>> /\ listener'.pc # "history"
    BY <1>6 DEF History, comfyVars, toCloud
  <2> QED
    BY <2>1, <2>2 DEF Traced, TrueAnswers, Made
<1>7. ASSUME NEW p \in pushers, AnswerTask(p) \/ AnswerMeasure(p) PROVE Traced' /\ TrueAnswers'
  <2>1. p.id \in ended /\ Made(p.id, p.sub)
    BY DEF Traced
  <2>2. [p EXCEPT !.pc = "delete"].id = p.id /\ [p EXCEPT !.pc = "delete"].sub = p.sub
    BY DEF TypeOK, PusherType
  <2>3. UNCHANGED <<poster, queue, inbox, listener, owner, comfy, ended>>
    BY <1>7 DEF AnswerTask, AnswerMeasure, Tell, GiveUp, comfyVars
  <2>4. \A r \in pushers' : r.id \in ended /\ Made(r.id, r.sub)
    BY <1>7, <2>1, <2>2 DEF AnswerTask, AnswerMeasure, Tell, GiveUp, Traced
  <2>5. \A a \in answers' : a.id \in ended /\ Made(a.id, a.sub)
    BY <1>7, <2>1 DEF AnswerTask, AnswerMeasure, Tell, GiveUp, TrueAnswers, Made
  <2> QED
    BY <2>3, <2>4, <2>5 DEF Traced, TrueAnswers, Made
<1>8. ASSUME NEW p \in pushers, DelSlot(p) PROVE Traced' /\ TrueAnswers'
  BY <1>8 DEF DelSlot, comfyVars, toCloud, Traced, TrueAnswers, Made
<1>9. ASSUME NEW s \in Subs, Forget(s) PROVE Traced' /\ TrueAnswers'
  BY <1>1, <1>9 DEF Forget, comfyVars, toCloud
<1>10. ASSUME Reconnect \/ Stop PROVE Traced' /\ TrueAnswers'
  BY <1>1, <1>10 DEF Reconnect, Stop, goVars, comfyVars, toCloud
<1>11. ASSUME NEW l \in Links, Break(l) \/ Offline(l) PROVE Traced' /\ TrueAnswers'
  BY <1>1, <1>11 DEF Break, Offline, goVars, comfyVars, toCloud
<1>12. ASSUME Execute \/ Step PROVE Traced' /\ TrueAnswers'
  <2>1. comfy # <<>> /\ comfy \in Seq(Prompts)
    BY <1>12 DEF Execute, Step, TypeOK
  <2>2. Head(comfy) \in Prompts
    BY <2>1, TailFacts
  <2>3. \A k \in DOMAIN inbox' : inbox'[k].kind = "end" => k \in DOMAIN inbox /\ inbox'[k] = inbox[k]
    BY <1>12, <2>2, Emitted DEF Execute, Step
  <2>4. UNCHANGED <<poster, queue, listener, pushers, owner, comfy, ended, answers>>
    BY <1>12 DEF Execute, Step, toCloud
  <2> QED
    BY <2>3, <2>4 DEF Traced, TrueAnswers, Made
<1>13. CASE Finish
  <2>1. comfy # <<>> /\ comfy \in Seq(Prompts)
    BY <1>13 DEF Finish, TypeOK
  <2>2. /\ Head(comfy) \in Prompts
        /\ \A k \in DOMAIN Tail(comfy) : k + 1 \in DOMAIN comfy /\ Tail(comfy)[k] = comfy[k + 1]
    BY <2>1, TailFacts
  <2>3. \A k \in DOMAIN inbox' :
           (k \in DOMAIN inbox /\ inbox'[k] = inbox[k])
           \/ inbox'[k] = [kind |-> "end", id |-> Head(comfy)]
    BY <1>13, <2>2, Emitted DEF Finish
  <2>4. ended' = ended \cup {Head(comfy)} /\ comfy' = Tail(comfy)
    BY <1>13 DEF Finish
  <2>5. \A k \in DOMAIN inbox' : inbox'[k].kind = "end" => inbox'[k].id \in ended'
    BY <2>3, <2>4 DEF Traced
  <2>6. \A k \in DOMAIN comfy' : comfy'[k] \in DOMAIN owner
    BY <2>2, <2>4 DEF Traced
  <2>7. UNCHANGED <<poster, queue, listener, pushers, owner, answers>>
    BY <1>13 DEF Finish, toCloud
  <2> QED
    BY <2>4, <2>5, <2>6, <2>7 DEF Traced, TrueAnswers, Made
<1> QED
  BY <1>2, <1>3, <1>4, <1>5, <1>6, <1>7, <1>8, <1>9, <1>10, <1>11, <1>12, <1>13 DEF Next

\* The inductive invariant holds in every state.
LEMMA PromptsInvariant == Spec => []PromptsInv
<1>1. Init => PromptsInv
  <2>1. Init => TypeOK
    BY InitType
  <2>2. Init => AcceptedKept /\ Attended /\ Traced /\ TrueAnswers
    BY EmptySeq DEF Init, AcceptedKept, Attended, Traced, TrueAnswers
  <2> QED
    BY <2>1, <2>2 DEF PromptsInv
<1>2. PromptsInv /\ [Next]_vars => PromptsInv'
  <2>1. ASSUME PromptsInv, Next PROVE PromptsInv'
    BY <2>1, TypeStep, KeptStep, TracedStep DEF PromptsInv
  <2>2. ASSUME PromptsInv, UNCHANGED vars PROVE PromptsInv'
    BY <2>2 DEF PromptsInv, TypeOK, AcceptedKept, Attended, Kept, Traced, Made, TrueAnswers,
                vars, goVars, linkVars, comfyVars, toCloud
  <2> QED
    BY <2>1, <2>2
<1> QED
  BY <1>1, <1>2, PTL DEF Spec

\* What was reported as published keeps its slot until it is answered.
THEOREM PublishedKept == Spec => []AcceptedKept
<1>1. PromptsInv => AcceptedKept
  BY DEF PromptsInv
<1> QED
  BY <1>1, PromptsInvariant, PTL

\* Every answer is that of a workflow of its subtask that ComfyUI has run.
THEOREM AnswersTrue == Spec => []TrueAnswers
<1>1. PromptsInv => TrueAnswers
  BY DEF PromptsInv
<1> QED
  BY <1>1, PromptsInvariant, PTL
=============================================================================
