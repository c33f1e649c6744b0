----------------------------- MODULE Workspaces -----------------------------
(***************************************************************************)
(* Workspaces (docker images with ComfyUI) on nodes. ng-cloud dispenses a  *)
(* workspace to a node that lacks it (Nodes.check), a goroutine per node   *)
(* (NodeMatch.transfer) handles what the node reports, and rows keep the   *)
(* state of every docker for the next enrolment. On the node, ng-client    *)
(* has a goroutine that enrols and connects (Node.start), one that handles *)
(* messages (Node.recv) and one per docker (NodeDocker.checkTicker).       *)
(*                                                                         *)
(* The states of a docker after its first benchmark was sent are taken     *)
(* together in StartupSuccess; Scheduler models them.                      *)
(***************************************************************************)
EXTENDS Integers, Sequences, SequencesExt, FiniteSetsExt

CONSTANTS
    Nodes,
    WorkSpaces,
    Want,       \* DeployCount + RedundantCount of a workspace
    Fits,       \* the nodes with enough memory for a workspace
    Rows,       \* the states that the rows of the nodes may have at first
    Retirable,  \* workspaces that may be deleted while nodes have them
    Exiting,    \* workspaces whose container may exit
    Operated,   \* workspaces that the operator starts and deletes by hand
    MaxEvents,  \* bound: links that break, containers that exit, requests of the operator
    MaxDispenses, \* bound: how often workspaces are dispensed
    MaxStarts,  \* bound: how often Node.start runs
    MaxCMDs,    \* bound: start commands that a docker piles up
    MaxReports  \* bound: reports on their way

DockerStates == {"Pulling", "PullCompleted", "Startuping", "StartupCompleted",
                 "StartupSuccess", "StartupFailed"}

ASSUME WorkspacesAssumption ==
    /\ Rows \subseteq DockerStates \cup {"None"}
    /\ Want \in [WorkSpaces -> Nat] /\ Fits \in [WorkSpaces -> SUBSET Nodes]
    /\ Retirable \subseteq WorkSpaces /\ Exiting \subseteq WorkSpaces /\ Operated \subseteq WorkSpaces
    /\ MaxEvents \in Nat /\ MaxDispenses \in Nat /\ MaxStarts \in Nat
    /\ MaxCMDs \in Nat \ {0} /\ MaxReports \in Nat \ {0}

VARIABLES
    known,      \* Nodes.nodes
    mem,        \* NodeBase.Dockers: the states of the entries per workspace
    retired,    \* t_workspaces: f_deleted, AllWorkSpaces
    row,        \* t_node_workspaces: f_state, or "None" without a row
    hand,       \* the report whose handler is inside LoadDocker, or Idle
    offlineCh,  \* Nodes.OfflineCh: losses of links of a node
    up,         \* reports on their way, with those in RecvMessageCh
    down,       \* messages to the client, with those in its RecvMessageCh
    state,      \* Node.State of the client
    link,       \* the connection of the client is open
    start,      \* where Node.start is
    todo,       \* dockers of the response to enrol not yet set up
    lost,       \* Node.OfflineCh of the client: losses not yet dealt with
    dockers,    \* the NodeDockers that have a goroutine, oldest first
    container,  \* docker daemon: the container of a workspace
    events, dispenses, starts \* counted for the bounds

cloudVars  == <<known, mem, row, hand, retired>>
clientVars == <<state, start, todo, dockers, container>>
lossVars   == <<offlineCh, lost, link>>
bounds     == <<events, dispenses, starts>>
vars == <<cloudVars, clientVars, lossVars, up, down, bounds>>

Kinds   == {"startup", "complete", "failed", "incomplete", "noContainer", "noDocker", "comfyUI"}
Orders  == {"dispense", "start", "delete"}
Reports == [kind : Kinds, ws : WorkSpaces]
Idle    == [kind |-> "idle"]

Report(kind, w) == [kind |-> kind, ws |-> w]
NoDockers == [w \in WorkSpaces |-> <<>>]

\* A report reaches ng-cloud if the link is open and ng-cloud has the node.
Sent(n, reports) ==
    IF link[n] /\ n \in known
    THEN Len(up[n] \o reports) <= MaxReports /\ up' = [up EXCEPT ![n] = @ \o reports]
    ELSE UNCHANGED up

Order(n, order, w) ==
    down' = IF link[n] THEN [down EXCEPT ![n] = Append(@, [order |-> order, ws |-> w])] ELSE down

Happens == events < MaxEvents /\ events' = events + 1 /\ UNCHANGED <<dispenses, starts>>

-----------------------------------------------------------------------------
Init ==
    /\ known = {} /\ mem = [n \in Nodes |-> NoDockers]
    /\ retired \in SUBSET Retirable
    /\ row \in [Nodes -> [WorkSpaces -> Rows]]
    /\ hand = [n \in Nodes |-> Idle] /\ offlineCh = [n \in Nodes |-> 0]
    /\ up = [n \in Nodes |-> <<>>] /\ down = [n \in Nodes |-> <<>>]
    /\ state = [n \in Nodes |-> "Connecting"] /\ link = [n \in Nodes |-> FALSE]
    /\ start = [n \in Nodes |-> "New"] /\ todo = [n \in Nodes |-> NoDockers]
    /\ lost = [n \in Nodes |-> 0] /\ dockers = [n \in Nodes |-> <<>>]
    /\ container = [n \in Nodes |-> [w \in WorkSpaces |-> "None"]]
    /\ events = 0 /\ dispenses = 0 /\ starts = 0

(***************************************************************************)
(* ng-cloud: dispensing workspaces.                                        *)
(***************************************************************************)
\* How often the nodes that are known list a workspace.
OnlineCount(w) == MapThenSumSet(LAMBDA n : Len(mem[n][w]), known)

\* The entry is made whatever becomes of the message: the node may not be
\* connected yet.
SendDispenseStart(n, w) ==
    /\ mem' = [mem EXCEPT ![n][w] = Append(@, "Pulling")]
    /\ Order(n, "dispense", w)

\* In a tick of Nodes.check.
Workspace2Node(n, w) ==
    /\ n \in known /\ w \notin retired
    /\ OnlineCount(w) < Want[w] /\ mem[n][w] = <<>> /\ n \in Fits[w]
    /\ SendDispenseStart(n, w)
    /\ dispenses < MaxDispenses /\ dispenses' = dispenses + 1
    /\ UNCHANGED <<known, row, hand, retired, clientVars, lossVars, up, events, starts>>

\* The requests start and delete of the operator.
Operate(n, w) ==
    /\ n \in known /\ w \in Operated /\ Happens
    /\ \E order \in {"start", "delete"} : Order(n, order, w)
    /\ UNCHANGED <<cloudVars, clientVars, lossVars, up>>

(***************************************************************************)
(* ng-cloud: the goroutine of a node handles a report.                     *)
(***************************************************************************)
Heard(n, kind, w) ==
    /\ n \in known /\ hand[n] = Idle /\ up[n] # <<>>
    /\ Head(up[n]) = Report(kind, w)
    /\ up' = [up EXCEPT ![n] = Tail(@)]

\* SetNodeDockerStatus: every entry of the workspace.
Marked(n, w, s) == [mem EXCEPT ![n][w] = [i \in DOMAIN @ |-> s]]

\* DispenseStart and StartWorkSpace insert a row that does not exist, the
\* other statements only update.
Upsert(n, w, s) == [row EXCEPT ![n][w] = s]
Update(n, w, s) == [row EXCEPT ![n][w] = IF @ = "None" THEN @ ELSE s]
StartWorkSpace(n, w) == Upsert(n, w, "Startuping")
DelWorkSpace(n, w) == [row EXCEPT ![n][w] = "None"]

StartupWorkSpace(n, w) ==
    /\ Heard(n, "startup", w)
    /\ mem' = Marked(n, w, "Startuping") /\ row' = StartWorkSpace(n, w)
    /\ UNCHANGED <<known, hand, retired, clientVars, lossVars, down, bounds>>

\* Mutation: the failure is not written to the row.
FailUnwritten(n, w) ==
    /\ Heard(n, "failed", w)
    /\ mem' = Marked(n, w, "StartupFailed")
    /\ UNCHANGED <<known, row, hand, retired, clientVars, lossVars, down, bounds>>

StartupFail(n, w) ==
    /\ Heard(n, "failed", w)
    /\ mem' = Marked(n, w, "StartupFailed") /\ row' = Update(n, w, "StartupFailed")
    /\ UNCHANGED <<known, hand, retired, clientVars, lossVars, down, bounds>>

DeleteContainer(n, w) ==
    /\ Heard(n, "noContainer", w)
    /\ mem' = Marked(n, w, "PullCompleted") /\ row' = Update(n, w, "PullCompleted")
    /\ UNCHANGED <<known, hand, retired, clientVars, lossVars, down, bounds>>

\* DelDocker takes out one entry.
DeleteDocker(n, w) ==
    /\ Heard(n, "noDocker", w)
    /\ row' = DelWorkSpace(n, w)
    /\ mem' = [mem EXCEPT ![n][w] = IF @ = <<>> THEN @ ELSE Tail(@)]
    /\ UNCHANGED <<known, hand, retired, clientVars, lossVars, down, bounds>>

\* startupComplete, first part: the row is written, LoadDocker has read the
\* rows and emptied the list.
StartupComplete(n, w) ==
    /\ \E kind \in {"complete", "incomplete"} :
          Heard(n, kind, w) /\ hand' = [hand EXCEPT ![n] = Report(kind, w)]
    /\ row' = Upsert(n, w, "Pulling") /\ mem' = [mem EXCEPT ![n] = NoDockers]
    /\ UNCHANGED <<known, retired, clientVars, lossVars, down, bounds>>

\* What LoadDocker may leave of the rows and of what Nodes.check appended
\* meanwhile: without a lock an append may overwrite another one.
Loaded(n) ==
    LET rows(w) == IF row[n][w] = "None" THEN <<>> ELSE <<row[n][w]>>
        new(w)  == mem[n][w]
    IN  {f \in [WorkSpaces -> UNION {{rows(w) \o new(w), new(w) \o rows(w), rows(w), new(w)} :
                                        w \in WorkSpaces}] :
            /\ \A w \in WorkSpaces :
                  f[w] \in {rows(w) \o new(w), new(w) \o rows(w), rows(w), new(w)}
            /\ Cardinality({w \in WorkSpaces : f[w] \notin {rows(w) \o new(w), new(w) \o rows(w)}})
                  <= Cardinality({w \in WorkSpaces : new(w) # <<>>})}

\* startupComplete, second part: the list is filled and the state set.
StartupCompleted(n) ==
    /\ hand[n] # Idle
    /\ LET w == hand[n].ws
           s == IF hand[n].kind = "complete" THEN "StartupCompleted" ELSE "StartupFailed"
       IN  /\ \E f \in Loaded(n) :
                 mem' = [mem EXCEPT ![n] = [f EXCEPT ![w] = [i \in DOMAIN @ |-> s]]]
           /\ row' = Update(n, w, s)
    /\ hand' = [hand EXCEPT ![n] = Idle]
    /\ UNCHANGED <<known, retired, clientVars, lossVars, up, down, bounds>>

\* comfyUIStartupSuccess: the first entry whose start-up was completed is
\* benchmarked.
ComfyUIStartupSuccess(n, w) ==
    /\ Heard(n, "comfyUI", w)
    /\ LET done == {i \in DOMAIN mem[n][w] : mem[n][w][i] = "StartupCompleted"}
       IN  IF done = {} THEN UNCHANGED <<mem, row>>
           ELSE /\ mem' = [mem EXCEPT ![n][w] = [@ EXCEPT ![Min(done)] = "StartupSuccess"]]
                /\ row' = Update(n, w, "StartupSuccess")
    /\ UNCHANGED <<known, hand, retired, clientVars, lossVars, down, bounds>>

(***************************************************************************)
(* Links. A link that ends is reported to both sides; what was not yet     *)
(* read from it is lost.                                                   *)
(***************************************************************************)
CutShort(ch, n) == \E k \in 0..Len(ch[n]) : ch' = [ch EXCEPT ![n] = SubSeq(@, 1, k)]

\* OnDisconnect of the client: the state is set before the loss is sent.
Ends(n) == /\ link' = [link EXCEPT ![n] = FALSE]
           /\ state' = [state EXCEPT ![n] = "Unavailable"]
           /\ lost' = [lost EXCEPT ![n] = @ + 1]
           /\ CutShort(down, n)

Break(n) ==
    /\ link[n] /\ Happens
    /\ Ends(n) /\ CutShort(up, n)
    /\ offlineCh' = [offlineCh EXCEPT ![n] = @ + 1]
    /\ UNCHANGED <<cloudVars, start, todo, dockers, container>>

\* Nodes.check takes the loss of a link, by the name of the node: DelNode
\* closes the link the node has now, and waits for its goroutine.
DelNode(n) ==
    /\ offlineCh[n] > 0
    /\ IF n \in known
       THEN /\ hand[n] = Idle
            /\ known' = known \ {n}
            /\ mem' = [mem EXCEPT ![n] = NoDockers] /\ up' = [up EXCEPT ![n] = <<>>]
            /\ IF link[n]
               THEN Ends(n) /\ UNCHANGED offlineCh
               ELSE /\ offlineCh' = [offlineCh EXCEPT ![n] = @ - 1]
                    /\ UNCHANGED <<link, state, lost, down>>
       ELSE /\ offlineCh' = [offlineCh EXCEPT ![n] = @ - 1]
            /\ UNCHANGED <<known, mem, up, link, state, lost, down>>
    /\ UNCHANGED <<row, hand, retired, start, todo, dockers, container, bounds>>

(***************************************************************************)
(* ng-client: enrolment and connection, Node.start.                        *)
(***************************************************************************)
\* start is called once at the beginning and then, every 30 seconds, when
\* the node is Unavailable.
MayStart(n) ==
    /\ start[n] = "New" \/ (start[n] = "Done" /\ state[n] = "Unavailable")
    /\ starts < MaxStarts /\ starts' = starts + 1 /\ UNCHANGED <<events, dispenses>>

\* The rows that LoadDocker finds for a node that ng-cloud adds.
RowsOf(n) == [w \in WorkSpaces |-> IF row[n][w] = "None" THEN <<>> ELSE <<row[n][w]>>]

\* AddNode, for a node that ng-cloud does not know.
AddNode(n) ==
    /\ known' = known \cup {n}
    /\ mem' = IF n \in known THEN mem ELSE [mem EXCEPT ![n] = RowsOf(n)]

\* sendValidate fails or does not allow the node: the state stays.
ValidateFails(n) ==
    /\ MayStart(n)
    /\ start' = [start EXCEPT ![n] = "Done"]
    /\ UNCHANGED <<cloudVars, state, todo, dockers, container, lossVars, up, down>>

\* Both requests succeed.
Enroll(n) ==
    /\ MayStart(n) /\ AddNode(n)
    /\ todo' = [todo EXCEPT ![n] = mem'[n]]
    /\ start' = [start EXCEPT ![n] = "Dial"]
    /\ state' = [state EXCEPT ![n] = "Enrolled"]
    /\ UNCHANGED <<row, hand, retired, dockers, container, lossVars, up, down>>

\* sendEnroll fails, or its answer is lost.
EnrollFails(n) ==
    /\ MayStart(n)
    /\ AddNode(n) \/ UNCHANGED <<known, mem>>
    /\ start' = [start EXCEPT ![n] = "Done"]
    /\ state' = [state EXCEPT ![n] = "Unavailable"]
    /\ UNCHANGED <<row, hand, retired, todo, dockers, container, lossVars, up, down>>

\* StartClient, which may fail. What the old link brought and was not handled
\* is still handled.
StartClient(n) ==
    /\ start[n] = "Dial"
    /\ \/ link' = [link EXCEPT ![n] = TRUE] /\ start' = [start EXCEPT ![n] = "Connect"]
       \/ start' = [start EXCEPT ![n] = "SetUp"] /\ UNCHANGED link
    /\ state' = [state EXCEPT ![n] = "Connecting"]
    /\ UNCHANGED <<cloudVars, todo, dockers, container, offlineCh, lost, bounds, up, down, bounds>>

\* The rest of startCloudWS, whatever happened to the link meanwhile.
Connected(n) ==
    /\ start[n] = "Connect"
    /\ start' = [start EXCEPT ![n] = "SetUp"]
    /\ state' = [state EXCEPT ![n] = "Connected"]
    /\ UNCHANGED <<cloudVars, todo, dockers, container, lossVars, up, down, bounds>>

(***************************************************************************)
(* ng-client: a docker.                                                    *)
(***************************************************************************)
NewNodeDocker(w) ==
    [ws     |-> w,       \* WorkSpaceID
     listed |-> TRUE,    \* in Node.Dockers
     mode   |-> "None",  \* Base.RunningMode
     cmds   |-> 0,       \* Base.StartCMD
     at     |-> 0,       \* the start command that is executed
     pc     |-> "Select",
     signal |-> "None",  \* what recv does for it: it waits on StartupDockerCh, or reports
     dels   |-> 0,       \* DelDockerCh
     exit   |-> FALSE,   \* ExitCh is closed
     plugIn |-> FALSE]   \* ComfyUI

\* Mutation: deleteImage sets a state for the mode.
UnInstall(d) == [d EXCEPT !.mode = "UnInstalled", !.cmds = 0, !.plugIn = FALSE]

\* What deleteImage leaves of a docker, and what it reports with the container.
DeleteImage(d) == [d EXCEPT !.mode = "DockerRun", !.cmds = 0, !.plugIn = FALSE]

\* Mutation: nothing is reported.
RemovedSilently(w) == <<>>

Removed(w) == <<Report("noContainer", w), Report("noDocker", w)>>

Configured(d) == [d EXCEPT !.mode = "Compose", !.cmds = Min({@ + 1, MaxCMDs})]

IsRunningContainer(n, w) == container[n][w] = "Running"
GetExitedContainer(n, w) == container[n][w] = "Exited"

\* SetDocker: the outcomes for docker d of node n in state s, with the
\* container that is left and the reports.
SetDocker(n, d, s) ==
    LET w       == d.ws
        set     == Configured(d)
        running == [docker |-> [set EXCEPT !.plugIn = TRUE], left |-> "Running",
                    reports |-> <<Report("complete", w)>>]
        signal  == [set EXCEPT !.signal = "dispense"]
    IN  IF w \in retired
        THEN {[docker |-> DeleteImage(set), left |-> "None", reports |-> Removed(w)]}
        ELSE IF IsRunningContainer(n, w) THEN {running}
        ELSE (IF GetExitedContainer(n, w) THEN {running} ELSE {})
             \cup {IF s = "Pulling"
                   THEN [docker |-> DeleteImage(signal), left |-> "None", reports |-> Removed(w)]
                   ELSE IF s = "StartupFailed"
                   THEN [docker |-> [signal EXCEPT !.plugIn = FALSE], left |-> "None",
                         reports |-> <<Report("noContainer", w)>>]
                   ELSE [docker |-> signal, left |-> container[n][w], reports |-> <<>>]}

\* startupContainer begins with the first start command, in compose mode.
Starts(d) == IF d.mode = "Compose" /\ d.cmds > 0 THEN [d EXCEPT !.pc = "Exec", !.at = 1] ELSE d

\* start sets up the dockers of the response, one after the other; each is
\* listed after its set-up, when its goroutine has taken the signal.
SetUp(n, w) ==
    /\ start[n] = "SetUp" /\ todo[n][w] # <<>>
    /\ todo' = [todo EXCEPT ![n][w] = Tail(@)]
    /\ \E r \in SetDocker(n, NewNodeDocker(w), Head(todo[n][w])) :
          /\ dockers' = [dockers EXCEPT ![n] =
                Append(@, IF r.docker.signal = "None" THEN r.docker
                          ELSE Starts([r.docker EXCEPT !.signal = "None"]))]
          /\ container' = [container EXCEPT ![n][w] = r.left]
          /\ Sent(n, r.reports)
    /\ UNCHANGED <<cloudVars, state, start, lossVars, down, bounds>>

Started(n) ==
    /\ start[n] = "SetUp" /\ todo[n] = NoDockers
    /\ start' = [start EXCEPT ![n] = "Done"]
    /\ UNCHANGED <<cloudVars, state, todo, dockers, container, lossVars, up, down, bounds>>

(***************************************************************************)
(* ng-client: the goroutine Node.recv. It waits when a docker that is to   *)
(* start is busy.                                                          *)
(***************************************************************************)
Waiting(n) == \E i \in DOMAIN dockers[n] : dockers[n][i].listed /\ dockers[n][i].signal # "None"

FindDocker(n, w) == {i \in DOMAIN dockers[n] : dockers[n][i].listed /\ dockers[n][i].ws = w}

Receive(n, order, w) ==
    /\ ~Waiting(n) /\ down[n] # <<>> /\ Head(down[n]) = [order |-> order, ws |-> w]
    /\ down' = [down EXCEPT ![n] = Tail(@)]

DispenseStart(n, w) ==
    /\ Receive(n, "dispense", w)
    /\ LET found == FindDocker(n, w)
           i == IF found = {} THEN Len(dockers[n]) + 1 ELSE Min(found)
           d == IF found = {} THEN NewNodeDocker(w) ELSE dockers[n][i]
       IN  \E r \in SetDocker(n, d, "None") :
              /\ dockers' = [dockers EXCEPT ![n] = IF found = {} THEN Append(@, r.docker)
                                                   ELSE [@ EXCEPT ![i] = r.docker]]
              /\ container' = [container EXCEPT ![n][w] = r.left]
              /\ Sent(n, r.reports)
    /\ UNCHANGED <<cloudVars, state, start, todo, lossVars, bounds>>

\* The messages of the operator, for a docker that is listed.
StartupDocker(n, w) ==
    /\ Receive(n, "start", w)
    /\ dockers' = IF FindDocker(n, w) = {} THEN dockers
                  ELSE [dockers EXCEPT ![n][Min(FindDocker(n, w))].signal = "start"]
    /\ UNCHANGED <<cloudVars, state, start, todo, container, lossVars, up, bounds>>

DeleteDockerOrder(n, w) ==
    /\ Receive(n, "delete", w)
    /\ IF FindDocker(n, w) = {} THEN UNCHANGED <<dockers, up>>
       ELSE /\ dockers' = [dockers EXCEPT ![n][Min(FindDocker(n, w))].dels = @ + 1]
            /\ Sent(n, <<Report("noDocker", w)>>)
    /\ UNCHANGED <<cloudVars, state, start, todo, container, lossVars, bounds>>

\* offline closes whatever link the client has now and forgets the dockers.
Offline(n) ==
    /\ lost[n] > 0 /\ ~Waiting(n)
    /\ link' = [link EXCEPT ![n] = FALSE] /\ state' = [state EXCEPT ![n] = "Unavailable"]
    /\ IF link[n] THEN /\ CutShort(down, n) /\ CutShort(up, n)
                       /\ offlineCh' = [offlineCh EXCEPT ![n] = @ + 1]
                       /\ UNCHANGED lost
       ELSE /\ lost' = [lost EXCEPT ![n] = @ - 1]
            /\ UNCHANGED <<down, up, offlineCh>>
    /\ dockers' = [dockers EXCEPT ![n] =
          [i \in DOMAIN @ |-> IF @[i].listed THEN [@[i] EXCEPT !.listed = FALSE, !.exit = TRUE] ELSE @[i]]]
    /\ UNCHANGED <<cloudVars, start, todo, container, bounds>>

(***************************************************************************)
(* ng-client: the goroutine of a docker. Its select takes any channel.     *)
(***************************************************************************)
Selects(n, i) == i \in DOMAIN dockers[n] /\ dockers[n][i].pc = "Select"

Becomes(n, i, d) == dockers' = [dockers EXCEPT ![n][i] = d]

dockerFrame == <<cloudVars, state, start, todo, lossVars, down, bounds>>

\* After the rendezvous recv reports the start that the operator asked for.
StartupContainer(n, i) ==
    /\ Selects(n, i) /\ dockers[n][i].signal \in {"dispense", "start"}
    /\ LET d == dockers[n][i]
       IN  Becomes(n, i, Starts([d EXCEPT !.signal = IF @ = "start" THEN "report" ELSE "None"]))
    /\ UNCHANGED <<dockerFrame, container, up>>

ReportStartup(n, i) ==
    /\ i \in DOMAIN dockers[n] /\ dockers[n][i].signal = "report"
    /\ Becomes(n, i, [dockers[n][i] EXCEPT !.signal = "None"])
    /\ Sent(n, <<Report("startup", dockers[n][i].ws)>>)
    /\ UNCHANGED <<dockerFrame, container>>

\* The next start command, if one is left.
NextCMD(d) == IF d.at < d.cmds THEN [d EXCEPT !.pc = "Exec", !.at = @ + 1]
              ELSE [d EXCEPT !.pc = "Select", !.at = 0]

\* Mutation: that docker-compose cannot be run is not reported.
FailSilently(n, i) ==
    /\ i \in DOMAIN dockers[n] /\ dockers[n][i].pc = "Exec"
    /\ LET d == dockers[n][i]
       IN  \/ Becomes(n, i, NextCMD(d)) /\ UNCHANGED up
          \/ /\ Becomes(n, i, [d EXCEPT !.pc = "Wait"])
             /\ Sent(n, <<Report("startup", d.ws)>>)
    /\ UNCHANGED <<dockerFrame, container>>

\* startupDockerhub: docker-compose runs or cannot be run.
ExecDockerCompose(n, i) ==
    /\ i \in DOMAIN dockers[n] /\ dockers[n][i].pc = "Exec"
    /\ LET d == dockers[n][i]
       IN  \/ /\ Becomes(n, i, NextCMD(d))
              /\ Sent(n, <<Report("failed", d.ws)>>)
           \/ /\ Becomes(n, i, [d EXCEPT !.pc = "Wait"])
              /\ Sent(n, <<Report("startup", d.ws)>>)
    /\ UNCHANGED <<dockerFrame, container>>

\* waitStartup: docker-compose fails, or the container runs.
WaitStartup(n, i) ==
    /\ i \in DOMAIN dockers[n] /\ dockers[n][i].pc = "Wait"
    /\ LET d == dockers[n][i]
       IN  \/ /\ Becomes(n, i, NextCMD(d))
              /\ Sent(n, <<Report("incomplete", d.ws)>>)
              /\ UNCHANGED container
           \/ /\ Becomes(n, i, [d EXCEPT !.pc = "Select", !.at = 0, !.plugIn = TRUE])
              /\ container' = [container EXCEPT ![n][d.ws] = "Running"]
              /\ Sent(n, <<Report("complete", d.ws), Report("complete", d.ws)>>)
    /\ UNCHANGED dockerFrame

\* DelDockerCh: n.Compose was never set, so that no container is removed.
TakeDelDocker(n, i) ==
    /\ Selects(n, i) /\ dockers[n][i].dels > 0
    /\ LET d == dockers[n][i]
       IN  /\ Becomes(n, i, [DeleteImage(d) EXCEPT !.dels = @ - 1])
           /\ Sent(n, <<Report("noDocker", d.ws)>>)
    /\ UNCHANGED <<dockerFrame, container>>

TakeExit(n, i) ==
    /\ Selects(n, i) /\ dockers[n][i].exit
    /\ dockers' = [dockers EXCEPT ![n] = RemoveAt(@, i)]
    /\ UNCHANGED <<dockerFrame, container, up>>

\* The plug-in reports every event of its ComfyUI.
ComfyUIEvent(n, i) ==
    /\ i \in DOMAIN dockers[n] /\ dockers[n][i].plugIn
    /\ Report("comfyUI", dockers[n][i].ws) \notin Range(up[n])
    /\ Sent(n, <<Report("comfyUI", dockers[n][i].ws)>>)
    /\ UNCHANGED <<dockerFrame, container, dockers>>

\* The docker daemon: a container exits.
ContainerExits(n, w) ==
    /\ w \in Exiting /\ container[n][w] = "Running"
    /\ container' = [container EXCEPT ![n][w] = "Exited"]
    /\ Happens
    /\ UNCHANGED <<cloudVars, state, start, todo, dockers, lossVars, up, down>>

-----------------------------------------------------------------------------
\* The goroutine of a node in ng-cloud.
Transfer(n) ==
    \/ \E w \in WorkSpaces :
          \/ StartupWorkSpace(n, w) \/ StartupFail(n, w) \/ DeleteContainer(n, w)
          \/ DeleteDocker(n, w) \/ StartupComplete(n, w) \/ ComfyUIStartupSuccess(n, w)
    \/ StartupCompleted(n)

\* The goroutine start of ng-client.
Start(n) ==
    \/ ValidateFails(n) \/ Enroll(n) \/ EnrollFails(n) \/ StartClient(n)
    \/ Connected(n) \/ Started(n)
    \/ \E w \in WorkSpaces : SetUp(n, w)

Recv(n) ==
    \/ \E w \in WorkSpaces : DispenseStart(n, w) \/ StartupDocker(n, w) \/ DeleteDockerOrder(n, w)
    \/ Offline(n)

CheckTicker(n, i) ==
    \/ StartupContainer(n, i) \/ ReportStartup(n, i) \/ ExecDockerCompose(n, i)
    \/ WaitStartup(n, i) \/ TakeDelDocker(n, i) \/ TakeExit(n, i)

MaxDockers == Cardinality(WorkSpaces) * (MaxStarts + MaxDispenses)

Next ==
    \E n \in Nodes :
       \/ Transfer(n) \/ Break(n) \/ DelNode(n) \/ Start(n) \/ Recv(n)
       \/ \E w \in WorkSpaces : Workspace2Node(n, w) \/ Operate(n, w) \/ ContainerExits(n, w)
       \/ \E i \in 1..MaxDockers : CheckTicker(n, i) \/ ComfyUIEvent(n, i)

Spec == Init /\ [][Next]_vars

\* Goroutines that can go on do, and docker-compose and the containers it
\* starts come to an end or run. Nothing is assumed of the operator, the links,
\* the nodes or what ng-cloud dispenses.
LiveSpec ==
    /\ Spec
    /\ \A n \in Nodes :
          /\ WF_vars(Transfer(n)) /\ WF_vars(Recv(n))
          /\ \A i \in 1..MaxDockers : WF_vars(CheckTicker(n, i))

(***************************************************************************)
(* Properties.                                                             *)
(***************************************************************************)
DockerType ==
    [ws : WorkSpaces, listed : BOOLEAN, mode : {"None", "Compose", "DockerRun"}, cmds : 0..MaxCMDs,
     at : 0..MaxCMDs, pc : {"Select", "Exec", "Wait"}, signal : {"None", "dispense", "start", "report"},
     dels : Nat, exit : BOOLEAN, plugIn : BOOLEAN]

\* What every variable may hold.
TypeOK ==
    /\ known \subseteq Nodes /\ retired \subseteq Retirable
    /\ mem \in [Nodes -> [WorkSpaces -> Seq(DockerStates)]]
    /\ row \in [Nodes -> [WorkSpaces -> DockerStates \cup {"None"}]]
    /\ hand \in [Nodes -> Reports \cup {Idle}]
    /\ offlineCh \in [Nodes -> Nat] /\ lost \in [Nodes -> Nat]
    /\ up \in [Nodes -> Seq(Reports)]
    /\ down \in [Nodes -> Seq([order : Orders, ws : WorkSpaces])]
    /\ state \in [Nodes -> {"Connecting", "Enrolled", "Connected", "Unavailable"}]
    /\ link \in [Nodes -> BOOLEAN]
    /\ start \in [Nodes -> {"New", "Dial", "Connect", "SetUp", "Done"}]
    /\ todo \in [Nodes -> [WorkSpaces -> Seq(DockerStates)]]
    /\ dockers \in [Nodes -> Seq(DockerType)]
    /\ container \in [Nodes -> [WorkSpaces -> {"None", "Running", "Exited"}]]
    /\ events \in Nat /\ dispenses \in Nat /\ starts \in Nat

\* ng-cloud and the client of a node have told each other all they know.
Settled(n) ==
    /\ n \in known /\ link[n] /\ start[n] = "Done" /\ lost[n] = 0 /\ offlineCh[n] = 0
    /\ up[n] = <<>> /\ down[n] = <<>> /\ hand[n] = Idle

Busy(d) == d.pc # "Select" \/ d.signal # "None" \/ d.dels > 0

\* TaskDispense sends tasks to a node whose docker is in StartupSuccess, and the
\* client drops a task for a docker without plug-in. As long as no node has
\* connected twice, such a docker has one, or is at work on it and will report.
\* An entry without a row is what DelDocker leaves of a docker that was deleted
\* when it had two entries: tasks still go there, and are dropped.
Usable ==
    starts <= 1 =>
    \A n \in Nodes, w \in WorkSpaces :
       Settled(n) /\ row[n][w] # "None" /\ "StartupSuccess" \in Range(mem[n][w])
       => \E i \in FindDocker(n, w) : dockers[n][i].plugIn \/ Busy(dockers[n][i])

\* The next enrolment is answered from the rows: the row of a workspace that the
\* node lists, if it has one, is what one of the entries says, unless the
\* workspace was just dispensed.
RowsAgree ==
    \A n \in known, w \in WorkSpaces :
       (/\ hand[n] = Idle /\ row[n][w] # "None"
        /\ mem[n][w] # <<>> /\ Head(mem[n][w]) # "Pulling")
       => row[n][w] \in Range(mem[n][w])

\* A workspace whose dispensing is on its way to a client leaves Pulling, one way
\* or the other, unless the link ends: Workspace2Node does not dispense it again.
Reported ==
    \A n \in Nodes, w \in WorkSpaces :
       (n \in known /\ link[n] /\ [order |-> "dispense", ws |-> w] \in Range(down[n]))
       ~> (n \notin known \/ ~link[n] \/ "Pulling" \notin Range(mem[n][w]))
=============================================================================
