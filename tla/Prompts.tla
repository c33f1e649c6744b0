------------------------------ MODULE Prompts -------------------------------
(***************************************************************************)
(* The ComfyUI plug-in of a docker of ng-client: the workflows that the    *)
(* cloud publishes or uses as a benchmark, from their receipt to the       *)
(* answer. Four kinds of goroutines meet here: the docker's (NewTask,      *)
(* NewMeasureTask), the listener (recv), one reader per websocket link and *)
(* one goroutine per result that is pushed to the OSS. ComfyUI itself runs *)
(* one prompt after the other (environment).                               *)
(***************************************************************************)
EXTENDS Naturals, Sequences, FiniteSets

CONSTANTS
    Subs,       \* the subtasks and generations that may be sent to the node
    Measures,   \* those that are generations of a benchmark
    Times,      \* bound: how often each of them is sent
    Mute,       \* those whose history ComfyUI may fail to deliver
    MaxPrompts, \* bound: workflows posted
    Links,      \* identities of links, reused when their reader has ended
    MaxDrops,   \* bound: links that break
    Stoppable,  \* whether the container may be deleted
    Nil         \* ComfyUILinker is nil

ASSUME PromptsAssumption ==
    /\ Measures \subseteq Subs /\ Mute \subseteq Subs
    /\ Times \in [Subs -> Nat]
    /\ MaxPrompts \in Nat /\ MaxDrops \in Nat
    /\ Stoppable \in BOOLEAN /\ Nil \notin Links

VARIABLES
    asked,      \* messages taken from TaskCh and MeasureCh so far, per subtask
    poster,     \* what the goroutine of the docker is doing
    queue,      \* ComfyUI.queue: slots, without their order
    listener,   \* what recv is doing
    inbox,      \* RecvMessageCh
    pushers,    \* the goroutines of pushAiTaskFile and pushMeasureFile
    link,       \* state of a link and of its reader
    linker,     \* ComfyUI.ComfyUILinker
    exit,       \* ExitCh was closed
    drops,      \* links that broke so far
    owner,      \* ComfyUI: the subtask of each prompt, in the order of receipt
    comfy,      \* ComfyUI: prompts to run, the first may be running
    running,    \* ComfyUI: progress of the first prompt
    ended,      \* ComfyUI: prompts that were run
    accepted,   \* subtasks reported to the cloud as published
    answers     \* answers sent to the cloud: subtask, prompt, outcome

goVars    == <<asked, poster, queue, listener, inbox, pushers>>
linkVars  == <<link, linker, exit, drops>>
comfyVars == <<owner, comfy, running, ended>>
toCloud   == <<accepted, answers>>
vars      == <<goVars, linkVars, comfyVars, toCloud>>

NoPrompt == 0   \* the empty prompt id
Prompts  == 1..MaxPrompts
Idle     == [pc |-> "idle", id |-> NoPrompt]
Free     == {l \in Links : link[l] = "free"}
Open     == {l \in Links : link[l] = "open"}

Slots(id) == {q \in queue : q.id = id}

\* Mutation: the finished prompt is taken for the one that was queued first,
\* whatever its prompt id.
AnySlot(id) == queue

\* findSlot, by prompt id.
FindSlot(id) == Slots(id)

\* A message of ComfyUI, which is lost without a link.
Emit(kind, id) == inbox' = IF Open = {} THEN inbox ELSE Append(inbox, [kind |-> kind, id |-> id])

-----------------------------------------------------------------------------
Init ==
    /\ asked = [s \in Subs |-> 0]
    /\ poster = [pc |-> "idle", sub |-> Nil, id |-> NoPrompt]
    /\ queue = {} /\ inbox = <<>> /\ pushers = {}
    /\ listener = Idle
    /\ link = [l \in Links |-> "free"] /\ linker = Nil
    /\ exit = FALSE /\ drops = 0
    /\ owner = <<>> /\ comfy = <<>> /\ running = "no" /\ ended = {}
    /\ accepted = {} /\ answers = {}

(***************************************************************************)
(* The goroutine of the docker.                                            *)
(***************************************************************************)
\* With the ComfyUI gone the message is taken and forgotten.
Forget(s) ==
    /\ exit /\ poster.pc = "idle" /\ asked[s] < Times[s]
    /\ asked' = [asked EXCEPT ![s] = @ + 1]
    /\ UNCHANGED <<poster, queue, listener, inbox, pushers, linkVars, comfyVars, toCloud>>

\* httpNewTask: whether ComfyUI queued the workflow, and whether its prompt id
\* came back. An error and a status other than 200 leave an empty id.
Replies == {r \in [queued : BOOLEAN, known : BOOLEAN] : r.known => r.queued}

\* Node.publish or Node.measure, the channel and sendWorkflow. NewTask goes on
\* whatever the reply is.
Post(s) ==
    /\ ~exit /\ poster.pc = "idle" /\ asked[s] < Times[s]
    /\ Len(owner) < MaxPrompts
    /\ asked' = [asked EXCEPT ![s] = @ + 1]
    /\ \E r \in Replies :
          LET id == Len(owner) + 1
          IN  /\ poster' = [pc |-> "add", sub |-> s, id |-> IF r.known THEN id ELSE NoPrompt]
              /\ owner' = IF r.queued THEN Append(owner, s) ELSE owner
              /\ comfy' = IF r.queued THEN Append(comfy, id) ELSE comfy
    /\ UNCHANGED <<queue, listener, inbox, pushers, linkVars, running, ended, toCloud>>

\* Mutation: a workflow without a prompt id gets no slot.
AddKnownSlot ==
    /\ poster.pc = "add"
    /\ queue' = queue \cup ({[sub |-> poster.sub, id |-> poster.id, started |-> FALSE]}
                            \cap [sub : Subs, id : Prompts, started : BOOLEAN])
    /\ poster' = [poster EXCEPT !.pc = "report"]
    /\ UNCHANGED <<asked, listener, inbox, pushers, linkVars, comfyVars, toCloud>>

AddSlot ==
    /\ poster.pc = "add"
    /\ queue' = queue \cup {[sub |-> poster.sub, id |-> poster.id, started |-> FALSE]}
    /\ poster' = [poster EXCEPT !.pc = "report"]
    /\ UNCHANGED <<asked, listener, inbox, pushers, linkVars, comfyVars, toCloud>>

\* sendPublishTask or sendMeasureTask, with success.
TellAccepted(s) == accepted' = accepted \cup {s}

\* The end of NewTask and NewMeasureTask, after a failure too.
ReportPublish ==
    /\ poster.pc = "report"
    /\ TellAccepted(poster.sub)
    /\ poster' = [pc |-> "idle", sub |-> Nil, id |-> NoPrompt]
    /\ UNCHANGED <<asked, queue, listener, inbox, pushers, linkVars, comfyVars, answers>>

(***************************************************************************)
(* The listener.                                                           *)
(***************************************************************************)
Listening == listener = Idle /\ inbox # <<>> /\ ~exit

\* setStartTime: the slots of a prompt, as started.
Started(id) == {[q EXCEPT !.started = @ \/ q.id = id] : q \in queue}

\* listenProgress of execution_start, and of an executing with a node.
HearProgress ==
    /\ Listening /\ Head(inbox).kind \in {"start", "step"}
    /\ queue' = Started(Head(inbox).id)
    /\ inbox' = Tail(inbox)
    /\ UNCHANGED <<asked, poster, listener, pushers, linkVars, comfyVars, toCloud>>

\* listenProgress of an executing without a node: the prompt was run. A start
\* that was missed is made up for, then the history is asked for.
HearEnd ==
    /\ Listening /\ Head(inbox).kind = "end"
    /\ queue' = Started(Head(inbox).id)
    /\ listener' = [pc |-> "history", id |-> Head(inbox).id]
    /\ inbox' = Tail(inbox)
    /\ UNCHANGED <<asked, poster, pushers, linkVars, comfyVars, toCloud>>

\* httpHistory: a body, or none after an error or a status other than 200.
Bodies(s) == {"body"} \cup (IF s \in Mute THEN {"none"} ELSE {})

\* Mutation: a result of which some images were stored counts as one of its own.
StoredPartly == {"images", "failed", "partial"}

\* RenameFile and PushOSS: every image was stored and there is one, or not.
Stored == {"images", "failed"}

\* parsePromptID, parseHistory and checkSuccessStatus, and then the images.
Results(b) == IF b = "none" THEN {"nothing"} ELSE {"failed"} \cup Stored

\* httpHistory has returned; without a slot the prompt is not of this queue.
History ==
    /\ listener.pc = "history"
    /\ listener' = Idle
    /\ IF FindSlot(listener.id) = {}
       THEN UNCHANGED pushers
       ELSE \E q \in FindSlot(listener.id) : \E b \in Bodies(q.sub) : \E r \in Results(b) :
               pushers' = pushers \cup
                   {[sub |-> q.sub, id |-> listener.id, result |-> r, pc |-> "push"]}
    /\ UNCHANGED <<asked, poster, queue, inbox, linkVars, comfyVars, toCloud>>

(***************************************************************************)
(* The goroutine of a result.                                              *)
(***************************************************************************)
\* The message with the outcome, and what the goroutine does next.
Tell(p) ==
    /\ pushers' = (pushers \ {p}) \cup {[p EXCEPT !.pc = "delete"]}
    /\ answers' = answers \cup {[sub |-> p.sub, id |-> p.id, ok |-> p.result = "images"]}

GiveUp(p) == pushers' = pushers \ {p} /\ UNCHANGED answers

\* pushAiTaskFile: without outputs nothing is answered and the slot stays.
AnswerTask(p) ==
    /\ p \in pushers /\ p.pc = "push" /\ p.sub \notin Measures
    /\ IF p.result = "nothing" THEN GiveUp(p) ELSE Tell(p)
    /\ UNCHANGED <<asked, poster, queue, listener, inbox, linkVars, comfyVars, accepted>>

\* Mutation: the slot is removed first, and not found for the answer.
DeleteFirst(p) ==
    /\ p \in pushers /\ p.pc = "push" /\ p.sub \in Measures
    /\ GiveUp(p)
    /\ queue' = {q \in queue : q.sub # p.sub}
    /\ UNCHANGED <<asked, poster, listener, inbox, linkVars, comfyVars, accepted>>

\* pushMeasureFile: nor is a generation answered whose slot is gone.
AnswerMeasure(p) ==
    /\ p \in pushers /\ p.pc = "push" /\ p.sub \in Measures
    /\ IF p.result = "nothing" \/ FindSlot(p.id) = {} THEN GiveUp(p) ELSE Tell(p)
    /\ UNCHANGED <<asked, poster, queue, listener, inbox, linkVars, comfyVars, accepted>>

\* delSlot, by subtask: all its slots go.
DelSlot(p) ==
    /\ p \in pushers /\ p.pc = "delete"
    /\ pushers' = pushers \ {p}
    /\ queue' = {q \in queue : q.sub # p.sub}
    /\ UNCHANGED <<asked, poster, listener, inbox, linkVars, comfyVars, toCloud>>

(***************************************************************************)
(* The link to ComfyUI.                                                    *)
(***************************************************************************)
\* StartClient, when it succeeds, starts the reader of a new link.
StartClient(l) ==
    /\ l \in Free
    /\ link' = [link EXCEPT ![l] = "open"]
    /\ linker' = l

\* Mutation: only a linker that was lost is replaced.
ReconnectLost ==
    /\ listener = Idle /\ ~exit /\ linker \in Links \ Open
    /\ \E l \in Links : StartClient(l)
    /\ UNCHANGED <<goVars, exit, drops, comfyVars, toCloud>>

\* The tick of recv.
Reconnect ==
    /\ listener = Idle /\ ~exit /\ linker \notin Open
    /\ \E l \in Links : StartClient(l)
    /\ UNCHANGED <<goVars, exit, drops, comfyVars, toCloud>>

\* The reader sees the end of its link, and waits to tell OfflineCh.
Break(l) ==
    /\ l \in Open /\ drops < MaxDrops
    /\ drops' = drops + 1
    /\ link' = [link EXCEPT ![l] = "notifying"]
    /\ UNCHANGED <<goVars, linker, exit, comfyVars, toCloud>>

\* link once the linker of now is closed: its reader sees it and notifies.
Closed == [l \in Links |-> IF l = linker /\ l \in Open THEN "notifying" ELSE link[l]]

\* offline closes the linker of now, whichever link was lost.
Offline(l) ==
    /\ listener = Idle /\ ~exit /\ link[l] = "notifying"
    /\ link' = [Closed EXCEPT ![l] = "free"]
    /\ linker' = Nil
    /\ UNCHANGED <<goVars, exit, drops, comfyVars, toCloud>>

\* Stop, and recv's way out. Readers that notify from now on wait for ever.
Stop ==
    /\ Stoppable /\ ~exit /\ listener = Idle
    /\ exit' = TRUE
    /\ link' = Closed
    /\ linker' = Nil
    /\ UNCHANGED <<goVars, drops, comfyVars, toCloud>>

(***************************************************************************)
(* ComfyUI (environment): one prompt at a time, in the order of receipt.   *)
(***************************************************************************)
Execute ==
    /\ comfy # <<>> /\ running = "no"
    /\ running' = "start"
    /\ Emit("start", Head(comfy))
    /\ UNCHANGED <<asked, poster, queue, listener, pushers, linkVars, owner, comfy, ended,
                   toCloud>>

Step ==
    /\ running = "start"
    /\ running' = "step"
    /\ Emit("step", Head(comfy))
    /\ UNCHANGED <<asked, poster, queue, listener, pushers, linkVars, owner, comfy, ended,
                   toCloud>>

Finish ==
    /\ running \in {"start", "step"}
    /\ running' = "no"
    /\ ended' = ended \cup {Head(comfy)}
    /\ comfy' = Tail(comfy)
    /\ Emit("end", Head(comfy))
    /\ UNCHANGED <<asked, poster, queue, listener, pushers, linkVars, owner, toCloud>>

-----------------------------------------------------------------------------
Next ==
    \/ \E s \in Subs : Forget(s) \/ Post(s)
    \/ AddSlot \/ ReportPublish
    \/ HearProgress \/ HearEnd \/ History
    \/ \E p \in pushers : AnswerTask(p) \/ AnswerMeasure(p) \/ DelSlot(p)
    \/ Reconnect \/ Stop
    \/ \E l \in Links : Break(l) \/ Offline(l)
    \/ Execute \/ Step \/ Finish

Spec == Init /\ [][Next]_vars

\* The listener and the goroutines of results are scheduled, and the tick that
\* reconnects comes again and again. Nothing is assumed of the cloud, of
\* ComfyUI or of the links.
LiveSpec ==
    /\ Spec
    /\ WF_vars(HearProgress \/ HearEnd \/ History)
    /\ WF_vars(\E p \in pushers : AnswerTask(p) \/ AnswerMeasure(p) \/ DelSlot(p))
    /\ WF_vars(Reconnect)

(***************************************************************************)
(* Properties.                                                             *)
(***************************************************************************)
SlotType   == [sub : Subs, id : Prompts \cup {NoPrompt}, started : BOOLEAN]
EventType  == [kind : {"start", "step", "end"}, id : Prompts]
PusherType == [sub : Subs, id : Prompts, result : {"images", "failed", "nothing"},
               pc : {"push", "delete"}]

\* What every variable may hold.
TypeOK ==
    /\ asked \in [Subs -> Nat]
    /\ poster \in [pc : {"idle"}, sub : {Nil}, id : {NoPrompt}]
                  \cup [pc : {"add", "report"}, sub : Subs, id : Prompts \cup {NoPrompt}]
    /\ queue \subseteq SlotType
    /\ listener \in {Idle} \cup [pc : {"history"}, id : Prompts]
    /\ inbox \in Seq(EventType)
    /\ pushers \subseteq PusherType
    /\ link \in [Links -> {"free", "open", "notifying"}]
    /\ linker \in Links \cup {Nil} /\ exit \in BOOLEAN /\ drops \in 0..MaxDrops
    /\ owner \in Seq(Subs) /\ Len(owner) <= MaxPrompts
    /\ comfy \in Seq(Prompts) /\ running \in {"no", "start", "step"}
    /\ running # "no" => comfy # <<>>
    /\ ended \subseteq Prompts
    /\ accepted \subseteq Subs
    /\ answers \subseteq [sub : Subs, id : Prompts, ok : BOOLEAN]

\* A subtask reported to the cloud as published and not answered yet has a
\* slot in the queue, which heartbeats and answers are made from.
AcceptedKept ==
    \A s \in accepted : (\E q \in queue : q.sub = s) \/ (\E a \in answers : a.sub = s)

\* An answer names the subtask whose workflow ComfyUI has run under that
\* prompt: no subtask is answered with the images of another.
TrueAnswers ==
    \A a \in answers : a.id \in ended /\ a.id \in DOMAIN owner /\ owner[a.id] = a.sub

\* A prompt whose end was heard is answered, however many links break: no
\* slot waits for ever for a result that ComfyUI has announced.
Heard ==
    \A s \in Subs \ Mute :
       \A i \in Prompts :
          (/\ Times[s] = 1 /\ ~exit
           /\ [kind |-> "end", id |-> i] \in {inbox[k] : k \in DOMAIN inbox}
           /\ \E q \in queue : q.sub = s /\ q.id = i)
          ~> (exit \/ \E a \in answers : a.sub = s /\ a.id = i)

\* A lost link is rebuilt, although the notice of its loss may close the next
\* one.
LinkBack == []<>(exit \/ Open # {})
=============================================================================
