-------------------------- MODULE WorkspacesProofs --------------------------
(***************************************************************************)
(* Proofs about Workspaces: the types, that the rows agree with the lists  *)
(* in memory, and that a docker which ng-cloud takes for usable is.        *)
(***************************************************************************)
EXTENDS Workspaces, SequenceTheorems, NaturalsInduction, WellFoundedInduction, TLAPS

(***************************************************************************)
(* Sequences and smallest elements.                                        *)
(***************************************************************************)
\* The smallest of some positions is one of them.
LEMMA SmallestExists ==
    ASSUME NEW S \in SUBSET Nat, S # {}
    PROVE  Min(S) \in S /\ \A y \in S : Min(S) <= y
<1> DEFINE R == {ss \in Nat \X Nat : ss[1] < ss[2]}
<1>1. IsWellFoundedOn(R, Nat)
  BY NatLessThanWellFounded DEF OpToRel
<1>2. \E x \in S : \A y \in S : ~(<<y, x>> \in R)
  <2> HIDE DEF R
  <2> QED BY <1>1, WFMin
<1>3. \A x, y \in Nat : y < x => <<y, x>> \in R
  OBVIOUS
<1>4. PICK x \in S : \A y \in S : ~(<<y, x>> \in R)
  BY <1>2
<1>5. \A y \in S : ~(y < x)
  <2> HIDE DEF R
  <2> QED BY <1>3, <1>4
<1>6. \A y \in S : x <= y
  BY <1>5
<1> QED BY <1>6 DEF Min

\* A link that ends leaves a beginning of what was on its way.
LEMMA CutTyped ==
    ASSUME NEW T, NEW s \in Seq(T), NEW k \in 0..Len(s)
    PROVE  /\ SubSeq(s, 1, k) \in Seq(T)
           /\ DOMAIN SubSeq(s, 1, k) \subseteq DOMAIN s
           /\ \A i \in DOMAIN SubSeq(s, 1, k) : SubSeq(s, 1, k)[i] = s[i]
<1>1. \A i \in 1..k : s[i] \in T
  BY ElementOfSeq
<1>2. Len(s) \in Nat /\ DOMAIN s = 1..Len(s)
  BY LenProperties
<1>3. SubSeq(s, 1, k) \in Seq(T) /\ Len(SubSeq(s, 1, k)) = k
      /\ \A i \in 1..k : SubSeq(s, 1, k)[i] = s[i]
  BY <1>1, <1>2, SubSeqProperties
<1> QED BY <1>2, <1>3, LenProperties

\* All entries of a list are given one state.
LEMMA AllMarked ==
    ASSUME NEW T, NEW s \in Seq(T), NEW e \in T
    PROVE  [i \in DOMAIN s |-> e] \in Seq(T)
<1>1. DOMAIN s = 1..Len(s) /\ Len(s) \in Nat
  BY LenProperties
<1> DEFINE new == [i \in 1..Len(s) |-> e]
<1>2. new \in Seq(T)
  BY <1>1, IsASeq
<1> QED BY <1>1, <1>2

\* What is left of a list is a list.
LEMMA TailTyped ==
    ASSUME NEW T, NEW s \in Seq(T)
    PROVE  (IF s = <<>> THEN s ELSE Tail(s)) \in Seq(T)
BY HeadTailProperties

(***************************************************************************)
(* A docker of ng-client.                                                  *)
(***************************************************************************)
\* At most MaxCMDs start commands pile up.
LEMMA Capped ==
    ASSUME NEW k \in 0..MaxCMDs
    PROVE  Min({k + 1, MaxCMDs}) \in 1..MaxCMDs
<1>1. MaxCMDs \in Nat \ {0}
  BY WorkspacesAssumption
<1>2. {k + 1, MaxCMDs} \in SUBSET Nat
  BY <1>1
<1>3. Min({k + 1, MaxCMDs}) \in {k + 1, MaxCMDs} /\ Min({k + 1, MaxCMDs}) <= MaxCMDs
  BY <1>2, SmallestExists
<1> QED BY <1>1, <1>3

\* SetDocker of a new docker or of one that is listed begins with its configuration.
LEMMA ConfiguredDocker ==
    ASSUME NEW d \in DockerType
    PROVE  /\ Configured(d) \in DockerType
           /\ Configured(d).mode = "Compose" /\ Configured(d).cmds > 0
           /\ Configured(d).ws = d.ws /\ Configured(d).pc = d.pc /\ Configured(d).dels = d.dels
           /\ Configured(d).listed = d.listed /\ Configured(d).exit = d.exit
<1> DEFINE c == Min({d.cmds + 1, MaxCMDs})
<1>1. d.cmds \in 0..MaxCMDs
  BY DEF DockerType
<1>2. c \in 1..MaxCMDs
  BY <1>1, Capped
<1>3. c \in 0..MaxCMDs /\ c > 0
  BY <1>2, WorkspacesAssumption
<1>4. Configured(d) = [d EXCEPT !.mode = "Compose", !.cmds = c]
  BY DEF Configured
<1> HIDE DEF c
<1> QED BY <1>3, <1>4 DEF DockerType

\* A docker that setDocker makes has the type of one.
LEMMA NewDockerTyped == ASSUME NEW w \in WorkSpaces PROVE NewNodeDocker(w) \in DockerType
<1>1. 0 \in 0..MaxCMDs
  BY WorkspacesAssumption
<1> QED BY <1>1 DEF NewNodeDocker, DockerType

\* deleteImage forgets the mode and the commands, and leaves a docker.
LEMMA DeletedTyped == ASSUME NEW d \in DockerType PROVE DeleteImage(d) \in DockerType
<1>1. 0 \in 0..MaxCMDs
  BY WorkspacesAssumption
<1> QED BY <1>1 DEF DeleteImage, DockerType

\* Taking the signal to start leaves a docker.
LEMMA StartsTyped == ASSUME NEW d \in DockerType PROVE Starts(d) \in DockerType
<1>1. CASE d.mode = "Compose" /\ d.cmds > 0
  <2>1. 1 \in 0..MaxCMDs
    BY WorkspacesAssumption
  <2> QED BY <1>1, <2>1 DEF Starts, DockerType
<1> QED BY <1>1 DEF Starts

\* The next start command, or none, leaves a docker.
LEMMA NextTyped == ASSUME NEW d \in DockerType PROVE NextCMD(d) \in DockerType
<1>1. d.at \in 0..MaxCMDs /\ d.cmds \in 0..MaxCMDs /\ MaxCMDs \in Nat
  BY WorkspacesAssumption DEF DockerType
<1>2. CASE d.at < d.cmds
  <2>1. d.at + 1 \in 0..MaxCMDs
    BY <1>1, <1>2
  <2> QED BY <1>2, <2>1 DEF NextCMD, DockerType
<1>3. CASE ~(d.at < d.cmds)
  <2>1. 0 \in 0..MaxCMDs
    BY <1>1
  <2> QED BY <1>3, <2>1 DEF NextCMD, DockerType
<1> QED BY <1>2, <1>3

\* The docker is set up and signalled to start.
Signalled(d) == [Configured(d) EXCEPT !.signal = "dispense"]

\* The five ways through SetDocker: the docker is to be deleted; its container runs, or is
\* started again; an interrupted pull or a failed start is cleaned up first; it is started.
Ways(n, d, s, r) ==
    \/ /\ d.ws \in retired
       /\ r.docker = DeleteImage(Configured(d))
       /\ r.left = "None" /\ r.reports = Removed(d.ws)
    \/ /\ d.ws \notin retired
       /\ r.docker = [Configured(d) EXCEPT !.plugIn = TRUE]
       /\ r.left = "Running" /\ r.reports = <<Report("complete", d.ws)>>
    \/ /\ d.ws \notin retired /\ s = "Pulling"
       /\ r.docker = DeleteImage(Signalled(d))
       /\ r.left = "None" /\ r.reports = Removed(d.ws)
    \/ /\ d.ws \notin retired /\ s = "StartupFailed"
       /\ r.docker = [Signalled(d) EXCEPT !.plugIn = FALSE]
       /\ r.left = "None" /\ r.reports = <<Report("noContainer", d.ws)>>
    \/ /\ d.ws \notin retired /\ s \notin {"Pulling", "StartupFailed"}
       /\ r.docker = Signalled(d)
       /\ r.left = container[n][d.ws] /\ r.reports = <<>>

\* What SetDocker leaves was reached in one of these ways.
LEMMA SetDockerWays ==
    ASSUME NEW n, NEW d, NEW s, NEW r \in SetDocker(n, d, s)
    PROVE  Ways(n, d, s, r)
<1> DEFINE w       == d.ws
           running == [docker |-> [Configured(d) EXCEPT !.plugIn = TRUE], left |-> "Running",
                       reports |-> <<Report("complete", w)>>]
           deleted == [docker |-> DeleteImage(Configured(d)), left |-> "None",
                       reports |-> Removed(w)]
           cleaned == [docker |-> DeleteImage(Signalled(d)), left |-> "None",
                       reports |-> Removed(w)]
           failed  == [docker |-> [Signalled(d) EXCEPT !.plugIn = FALSE], left |-> "None",
                       reports |-> <<Report("noContainer", w)>>]
           started == [docker |-> Signalled(d), left |-> container[n][w], reports |-> <<>>]
<1>1. CASE w \in retired
  <2>1. r = deleted
    BY <1>1 DEF SetDocker
  <2> QED BY <1>1, <2>1 DEF Ways
<1>2. CASE w \notin retired /\ r = running
  BY <1>2 DEF Ways
<1>3. CASE w \notin retired /\ r # running
  <2>1. r = IF s = "Pulling" THEN cleaned ELSE IF s = "StartupFailed" THEN failed ELSE started
    BY <1>3, Zenon DEF SetDocker, Signalled
  <2>2. CASE s = "Pulling"
    <3>1. r = cleaned
      BY <2>1, <2>2
    <3> QED BY <1>3, <2>2, <3>1 DEF Ways
  <2>3. CASE s = "StartupFailed"
    <3>1. r = failed
      BY <2>1, <2>3
    <3> QED BY <1>3, <2>3, <3>1 DEF Ways
  <2>4. CASE s \notin {"Pulling", "StartupFailed"}
    <3>1. r = started
      BY <2>1, <2>4
    <3> QED BY <1>3, <2>4, <3>1 DEF Ways
  <2> QED BY <2>2, <2>3, <2>4
<1> QED BY <1>1, <1>2, <1>3

\* Only the fields a docker was signalled, given a plug-in or deleted by differ.
LEMMA SignalledDocker ==
    ASSUME NEW d \in DockerType
    PROVE  /\ Signalled(d) \in DockerType
           /\ Signalled(d).signal = "dispense"
           /\ Signalled(d).mode = "Compose" /\ Signalled(d).cmds > 0
           /\ Signalled(d).ws = d.ws /\ Signalled(d).pc = d.pc /\ Signalled(d).dels = d.dels
           /\ Signalled(d).listed = d.listed /\ Signalled(d).exit = d.exit
<1>1. Configured(d) \in DockerType
  BY ConfiguredDocker
<1> QED BY <1>1, ConfiguredDocker DEF Signalled, DockerType

\* What the client sends are reports of its dockers.
LEMMA ReportsTyped ==
    ASSUME NEW w \in WorkSpaces
    PROVE  /\ \A k \in Kinds : Report(k, w) \in Reports
           /\ \A k \in Kinds : <<Report(k, w)>> \in Seq(Reports)
           /\ Removed(w) \in Seq(Reports)
           /\ <<Report("complete", w), Report("complete", w)>> \in Seq(Reports)
<1>1. \A k \in Kinds : Report(k, w) \in Reports
  BY DEF Report, Reports
<1>2. "noContainer" \in Kinds /\ "noDocker" \in Kinds /\ "complete" \in Kinds
  BY DEF Kinds
<1> QED BY <1>1, <1>2 DEF Removed

\* Whatever way it takes, SetDocker leaves a docker of the same workspace, which is listed
\* and told to exit as before.
LEMMA SetDockerTyped ==
    ASSUME NEW n \in Nodes, NEW d \in DockerType, NEW s, NEW r \in SetDocker(n, d, s),
           container \in [Nodes -> [WorkSpaces -> {"None", "Running", "Exited"}]]
    PROVE  /\ r.docker \in DockerType
           /\ r.docker.ws = d.ws /\ r.docker.listed = d.listed /\ r.docker.exit = d.exit
           /\ r.left \in {"None", "Running", "Exited"}
           /\ r.reports \in Seq(Reports)
<1>1. d.ws \in WorkSpaces
  BY DEF DockerType
<1>2. Ways(n, d, s, r)
  BY SetDockerWays
<1>3. Configured(d) \in DockerType /\ Signalled(d) \in DockerType
  BY ConfiguredDocker, SignalledDocker
<1>4. /\ Configured(d).ws = d.ws /\ Configured(d).listed = d.listed /\ Configured(d).exit = d.exit
      /\ Signalled(d).ws = d.ws /\ Signalled(d).listed = d.listed /\ Signalled(d).exit = d.exit
  BY ConfiguredDocker, SignalledDocker
<1>5. \A x \in DockerType, b \in BOOLEAN :
         /\ [x EXCEPT !.plugIn = b] \in DockerType
         /\ [x EXCEPT !.plugIn = b].ws = x.ws /\ [x EXCEPT !.plugIn = b].listed = x.listed
         /\ [x EXCEPT !.plugIn = b].exit = x.exit
  BY DEF DockerType
<1>6. \A x \in DockerType : /\ DeleteImage(x) \in DockerType
                            /\ DeleteImage(x).ws = x.ws /\ DeleteImage(x).listed = x.listed
                            /\ DeleteImage(x).exit = x.exit
  BY DeletedTyped DEF DeleteImage, DockerType
<1>7. \/ r.docker = DeleteImage(Configured(d)) \/ r.docker = DeleteImage(Signalled(d))
      \/ r.docker = [Configured(d) EXCEPT !.plugIn = TRUE]
      \/ r.docker = [Signalled(d) EXCEPT !.plugIn = FALSE] \/ r.docker = Signalled(d)
  BY <1>2, Zenon DEF Ways
<1>8. /\ r.docker \in DockerType
      /\ r.docker.ws = d.ws /\ r.docker.listed = d.listed /\ r.docker.exit = d.exit
  <2>1. CASE r.docker = DeleteImage(Configured(d))
    BY <2>1, <1>3, <1>4, <1>6, Zenon
  <2>2. CASE r.docker = DeleteImage(Signalled(d))
    BY <2>2, <1>3, <1>4, <1>6, Zenon
  <2>3. CASE r.docker = [Configured(d) EXCEPT !.plugIn = TRUE]
    BY <2>3, <1>3, <1>4, <1>5
  <2>4. CASE r.docker = [Signalled(d) EXCEPT !.plugIn = FALSE]
    BY <2>4, <1>3, <1>4, <1>5
  <2>5. CASE r.docker = Signalled(d)
    BY <2>5, <1>3, <1>4, Zenon
  <2> QED BY <1>7, <2>1, <2>2, <2>3, <2>4, <2>5, Zenon
<1>9. r.left \in {"None", "Running", "Exited"}
  <2>1. container[n][d.ws] \in {"None", "Running", "Exited"}
    BY <1>1
  <2>2. r.left \in {"None", "Running", container[n][d.ws]}
    BY <1>2 DEF Ways
  <2> QED BY <2>1, <2>2
<1>10. r.reports \in Seq(Reports)
  <2>1. "noContainer" \in Kinds /\ "complete" \in Kinds
    BY DEF Kinds
  <2>2. \/ r.reports = Removed(d.ws) \/ r.reports = <<Report("complete", d.ws)>>
        \/ r.reports = <<Report("noContainer", d.ws)>> \/ r.reports = <<>>
    BY <1>2, Zenon DEF Ways
  <2>3. <<>> \in Seq(Reports)
    BY EmptySeq
  <2> QED BY <1>1, <2>1, <2>2, <2>3, ReportsTyped, Zenon
<1> QED BY <1>8, <1>9, <1>10

\* What reaches ng-cloud of what a client reports.
LEMMA SentTyped ==
    ASSUME up \in [Nodes -> Seq(Reports)], NEW n \in Nodes, NEW reports \in Seq(Reports),
           Sent(n, reports)
    PROVE  /\ up' \in [Nodes -> Seq(Reports)]
           /\ \A m \in Nodes : m # n => up'[m] = up[m]
           /\ link[n] /\ n \in known => up'[n] = up[n] \o reports
<1>1. CASE link[n] /\ n \in known
  <2>1. up[n] \o reports \in Seq(Reports)
    BY ConcatProperties
  <2> QED BY <1>1, <2>1 DEF Sent
<1>2. CASE ~(link[n] /\ n \in known)
  BY <1>2 DEF Sent
<1> QED BY <1>1, <1>2

(***************************************************************************)
(* The types, part by part.                                                *)
(***************************************************************************)
\* What ng-cloud keeps, what a client keeps, the links and what is on them, the bounds.
CloudType ==
    /\ known \subseteq Nodes /\ retired \subseteq Retirable
    /\ mem \in [Nodes -> [WorkSpaces -> Seq(DockerStates)]]
    /\ row \in [Nodes -> [WorkSpaces -> DockerStates \cup {"None"}]]
    /\ hand \in [Nodes -> Reports \cup {Idle}]
ClientType ==
    /\ state \in [Nodes -> {"Connecting", "Enrolled", "Connected", "Unavailable"}]
    /\ start \in [Nodes -> {"New", "Dial", "Connect", "SetUp", "Done"}]
    /\ todo \in [Nodes -> [WorkSpaces -> Seq(DockerStates)]]
    /\ dockers \in [Nodes -> Seq(DockerType)]
    /\ container \in [Nodes -> [WorkSpaces -> {"None", "Running", "Exited"}]]
LinkType ==
    /\ offlineCh \in [Nodes -> Nat] /\ lost \in [Nodes -> Nat] /\ link \in [Nodes -> BOOLEAN]
    /\ up \in [Nodes -> Seq(Reports)]
    /\ down \in [Nodes -> Seq([order : Orders, ws : WorkSpaces])]
CountType == events \in Nat /\ dispenses \in Nat /\ starts \in Nat

\* The parts make up the type invariant.
LEMMA TypeParts ==
    /\ TypeOK <=> CloudType /\ ClientType /\ LinkType /\ CountType
    /\ TypeOK' <=> CloudType' /\ ClientType' /\ LinkType' /\ CountType'
BY DEF TypeOK, CloudType, ClientType, LinkType, CountType

\* A part whose variables stay keeps its types.
LEMMA TypeFrame ==
    /\ CloudType /\ UNCHANGED cloudVars => CloudType'
    /\ ClientType /\ UNCHANGED clientVars => ClientType'
    /\ LinkType /\ UNCHANGED <<lossVars, up, down>> => LinkType'
    /\ CountType /\ UNCHANGED bounds => CountType'
BY DEF CloudType, ClientType, LinkType, CountType, cloudVars, clientVars, lossVars, bounds

\* The program begins with the types.
LEMMA InitTypes == Init => TypeOK
<1> SUFFICES ASSUME Init PROVE TypeOK
  OBVIOUS
<1>1. NoDockers \in [WorkSpaces -> Seq(DockerStates)]
  BY DEF NoDockers
<1>2. Rows \subseteq DockerStates \cup {"None"}
  BY WorkspacesAssumption
<1>3. row \in [Nodes -> [WorkSpaces -> DockerStates \cup {"None"}]]
  BY <1>2 DEF Init
<1>4. CloudType
  BY <1>1, <1>3 DEF Init, CloudType
<1>5. ClientType
  BY <1>1 DEF Init, ClientType
<1>6. LinkType /\ CountType
  BY DEF Init, LinkType, CountType
<1> QED BY <1>4, <1>5, <1>6, TypeParts

\* What a break leaves on its way to a client or to ng-cloud.
LEMMA CutShortTyped ==
    ASSUME LinkType, NEW n \in Nodes
    PROVE  /\ CutShort(up, n) => up' \in [Nodes -> Seq(Reports)]
           /\ CutShort(down, n) => down' \in [Nodes -> Seq([order : Orders, ws : WorkSpaces])]
<1>1. up[n] \in Seq(Reports) /\ down[n] \in Seq([order : Orders, ws : WorkSpaces])
  BY DEF LinkType
<1>2. \A k \in 0..Len(up[n]) : SubSeq(up[n], 1, k) \in Seq(Reports)
  BY <1>1, CutTyped
<1>3. \A k \in 0..Len(down[n]) :
         SubSeq(down[n], 1, k) \in Seq([order : Orders, ws : WorkSpaces])
  BY <1>1, CutTyped
<1> QED BY <1>2, <1>3 DEF CutShort, LinkType

\* An order is put on the link or is lost.
LEMMA OrderTyped ==
    ASSUME LinkType, NEW n \in Nodes, NEW o \in Orders, NEW w \in WorkSpaces, Order(n, o, w)
    PROVE  down' \in [Nodes -> Seq([order : Orders, ws : WorkSpaces])]
<1>1. down[n] \in Seq([order : Orders, ws : WorkSpaces])
  BY DEF LinkType
<1>2. Append(down[n], [order |-> o, ws |-> w]) \in Seq([order : Orders, ws : WorkSpaces])
  BY <1>1, AppendProperties
<1> QED BY <1>2 DEF Order, LinkType

\* One docker of a node is replaced by another one.
LEMMA BecomesTyped ==
    ASSUME ClientType, NEW n \in Nodes, NEW i \in DOMAIN dockers[n], NEW d \in DockerType,
           Becomes(n, i, d)
    PROVE  dockers' \in [Nodes -> Seq(DockerType)]
<1>1. dockers[n] \in Seq(DockerType)
  BY DEF ClientType
<1>2. i \in 1..Len(dockers[n])
  BY <1>1, LenProperties
<1>3. [dockers[n] EXCEPT ![i] = d] \in Seq(DockerType)
  BY <1>1, <1>2, ExceptSeq
<1> QED BY <1>3 DEF Becomes, ClientType

\* A docker that a node has is a docker.
LEMMA DockerTyped ==
    ASSUME ClientType, NEW n \in Nodes, NEW i \in DOMAIN dockers[n]
    PROVE  dockers[n][i] \in DockerType /\ i \in 1..Len(dockers[n]) /\ Len(dockers[n]) \in Nat
<1>1. dockers[n] \in Seq(DockerType)
  BY DEF ClientType
<1> QED BY <1>1, LenProperties, ElementOfSeq

\* The reports of a client, and nothing else about the links, change.
LEMMA SentLinkType ==
    ASSUME LinkType, NEW n \in Nodes, NEW reports \in Seq(Reports), Sent(n, reports),
           UNCHANGED <<lossVars, down>>
    PROVE  LinkType'
<1>1. up' \in [Nodes -> Seq(Reports)]
  BY SentTyped DEF LinkType
<1> QED BY <1>1 DEF LinkType, lossVars

\* A list whose entries are given a state is still a list of states.
LEMMA MarkedTyped ==
    ASSUME CloudType, NEW n \in Nodes, NEW w \in WorkSpaces, NEW s \in DockerStates
    PROVE  /\ Marked(n, w, s) \in [Nodes -> [WorkSpaces -> Seq(DockerStates)]]
           /\ Upsert(n, w, s) \in [Nodes -> [WorkSpaces -> DockerStates \cup {"None"}]]
           /\ Update(n, w, s) \in [Nodes -> [WorkSpaces -> DockerStates \cup {"None"}]]
<1>1. mem[n][w] \in Seq(DockerStates)
  BY DEF CloudType
<1>2. [i \in DOMAIN mem[n][w] |-> s] \in Seq(DockerStates)
  BY <1>1, AllMarked
<1>3. Marked(n, w, s) \in [Nodes -> [WorkSpaces -> Seq(DockerStates)]]
  BY <1>2 DEF CloudType, Marked
<1> QED BY <1>3 DEF CloudType, Upsert, Update

\* Whatever LoadDocker leaves is a list of states for every workspace.
LEMMA LoadedTyped ==
    ASSUME CloudType, NEW n \in Nodes, NEW f \in Loaded(n), NEW w \in WorkSpaces
    PROVE  /\ f \in [WorkSpaces -> Seq(DockerStates)]
           /\ \/ f[w] = mem[n][w]
              \/ /\ row[n][w] # "None"
                 /\ f[w] \in {<<row[n][w]>> \o mem[n][w], mem[n][w] \o <<row[n][w]>>, <<row[n][w]>>}
              \/ row[n][w] = "None" /\ f[w] = <<>>
<1> DEFINE rows(v) == IF row[n][v] = "None" THEN <<>> ELSE <<row[n][v]>>
           new(v)  == mem[n][v]
<1>1. /\ DOMAIN f = WorkSpaces /\ f = [v \in WorkSpaces |-> f[v]]
      /\ \A v \in WorkSpaces : f[v] \in {rows(v) \o new(v), new(v) \o rows(v), rows(v), new(v)}
  BY Zenon DEF Loaded
<1>2. ASSUME NEW v \in WorkSpaces
      PROVE  /\ f[v] \in Seq(DockerStates)
             /\ \/ f[v] = mem[n][v]
                \/ /\ row[n][v] # "None"
                   /\ f[v] \in {<<row[n][v]>> \o mem[n][v], mem[n][v] \o <<row[n][v]>>, <<row[n][v]>>}
                \/ row[n][v] = "None" /\ f[v] = <<>>
  <2>1. new(v) \in Seq(DockerStates)
    BY DEF CloudType
  <2>2. f[v] \in {rows(v) \o new(v), new(v) \o rows(v), rows(v), new(v)}
    BY <1>1
  <2>3. CASE row[n][v] = "None"
    <3>1. rows(v) = <<>>
      BY <2>3
    <3>2. rows(v) \o new(v) = new(v) /\ new(v) \o rows(v) = new(v)
      BY <2>1, <3>1, ConcatEmptySeq
    <3>3. f[v] = new(v) \/ f[v] = <<>>
      BY <2>2, <3>1, <3>2
    <3> QED BY <2>1, <2>3, <3>3, EmptySeq
  <2>4. CASE row[n][v] # "None"
    <3>1. rows(v) = <<row[n][v]>> /\ row[n][v] \in DockerStates
      BY <2>4 DEF CloudType
    <3>2. rows(v) \in Seq(DockerStates)
      BY <3>1
    <3>3. rows(v) \o new(v) \in Seq(DockerStates) /\ new(v) \o rows(v) \in Seq(DockerStates)
      BY <2>1, <3>2, ConcatProperties
    <3> QED BY <2>1, <2>2, <2>4, <3>1, <3>2, <3>3
  <2> QED BY <2>3, <2>4
<1>3. f \in [WorkSpaces -> Seq(DockerStates)]
  BY <1>1, <1>2
<1> QED BY <1>2, <1>3

\* ng-cloud handles a report: the types stay.
LEMMA TypeTransfer ==
    ASSUME TypeOK, NEW n \in Nodes, Transfer(n)
    PROVE  TypeOK'
<1> USE TypeParts
<1>0. {"Pulling", "PullCompleted", "Startuping", "StartupCompleted", "StartupSuccess",
       "StartupFailed"} \subseteq DockerStates
  BY DEF DockerStates
<1>a. ASSUME NEW k, NEW w, Heard(n, k, w) PROVE up' \in [Nodes -> Seq(Reports)]
  <2>1. up[n] \in Seq(Reports) /\ up[n] # <<>>
    BY <1>a DEF LinkType, Heard
  <2>2. Tail(up[n]) \in Seq(Reports)
    BY <2>1, HeadTailProperties
  <2> QED BY <1>a, <2>2 DEF Heard, LinkType
<1>b. ASSUME NEW k, NEW w, Heard(n, k, w), UNCHANGED <<clientVars, lossVars, down, bounds>>,
             CloudType'
      PROVE  TypeOK'
  <2>1. LinkType'
    BY <1>a, <1>b DEF LinkType, lossVars
  <2> QED BY <1>b, <2>1, TypeFrame
<1>c. ASSUME NEW w \in WorkSpaces, NEW k, NEW s \in DockerStates, Heard(n, k, w), mem' = Marked(n, w, s),
             row' \in {row, Upsert(n, w, s), Update(n, w, s)},
             UNCHANGED <<known, hand, retired, clientVars, lossVars, down, bounds>>
      PROVE  TypeOK'
  <2>1. mem' \in [Nodes -> [WorkSpaces -> Seq(DockerStates)]]
    BY <1>c, MarkedTyped, Zenon
  <2>2. row' \in [Nodes -> [WorkSpaces -> DockerStates \cup {"None"}]]
    <3>1. row \in [Nodes -> [WorkSpaces -> DockerStates \cup {"None"}]]
      BY DEF CloudType
    <3>2. row' = row \/ row' = Upsert(n, w, s) \/ row' = Update(n, w, s)
      BY <1>c
    <3>3. /\ Upsert(n, w, s) \in [Nodes -> [WorkSpaces -> DockerStates \cup {"None"}]]
          /\ Update(n, w, s) \in [Nodes -> [WorkSpaces -> DockerStates \cup {"None"}]]
      BY MarkedTyped, Zenon
    <3> QED BY <3>1, <3>2, <3>3
  <2>3. CloudType'
    BY <1>c, <2>1, <2>2 DEF CloudType
  <2> QED BY <1>b, <1>c, <2>3
<1>1. ASSUME NEW w \in WorkSpaces, StartupWorkSpace(n, w) PROVE TypeOK'
  BY <1>0, <1>1, <1>c DEF StartupWorkSpace, StartWorkSpace
<1>2. ASSUME NEW w \in WorkSpaces, StartupFail(n, w) PROVE TypeOK'
  BY <1>0, <1>2, <1>c DEF StartupFail
<1>3. ASSUME NEW w \in WorkSpaces, DeleteContainer(n, w) PROVE TypeOK'
  BY <1>0, <1>3, <1>c DEF DeleteContainer
<1>4. ASSUME NEW w \in WorkSpaces, DeleteDocker(n, w) PROVE TypeOK'
  <2>1. mem[n][w] \in Seq(DockerStates)
    BY DEF CloudType
  <2>2. (IF mem[n][w] = <<>> THEN mem[n][w] ELSE Tail(mem[n][w])) \in Seq(DockerStates)
    BY <2>1, TailTyped
  <2>3. CloudType'
    BY <1>4, <2>2 DEF DeleteDocker, DelWorkSpace, CloudType
  <2> QED BY <1>4, <1>b, <2>3 DEF DeleteDocker
<1>5. ASSUME NEW w \in WorkSpaces, StartupComplete(n, w) PROVE TypeOK'
  <2>1. PICK k \in {"complete", "incomplete"} :
           Heard(n, k, w) /\ hand' = [hand EXCEPT ![n] = Report(k, w)]
    BY <1>5 DEF StartupComplete
  <2>2. Report(k, w) \in Reports
    <3>1. k \in Kinds
      BY DEF Kinds
    <3> QED BY <3>1, ReportsTyped
  <2>3. NoDockers \in [WorkSpaces -> Seq(DockerStates)]
    BY DEF NoDockers
  <2>4. Upsert(n, w, "Pulling") \in [Nodes -> [WorkSpaces -> DockerStates \cup {"None"}]]
    BY <1>0, MarkedTyped
  <2>5. CloudType'
    BY <1>5, <2>1, <2>2, <2>3, <2>4 DEF StartupComplete, CloudType
  <2> QED BY <1>5, <1>b, <2>1, <2>5 DEF StartupComplete
<1>6. ASSUME NEW w \in WorkSpaces, ComfyUIStartupSuccess(n, w) PROVE TypeOK'
  <2> DEFINE done == {i \in DOMAIN mem[n][w] : mem[n][w][i] = "StartupCompleted"}
  <2>1. mem[n][w] \in Seq(DockerStates)
    BY DEF CloudType
  <2>2. DOMAIN mem[n][w] = 1..Len(mem[n][w]) /\ Len(mem[n][w]) \in Nat
    BY <2>1, LenProperties
  <2>3. CASE done = {}
    <3>1. CloudType'
      BY <1>6, <2>3 DEF ComfyUIStartupSuccess, CloudType
    <3> QED BY <1>6, <1>b, <3>1 DEF ComfyUIStartupSuccess
  <2>4. CASE done # {}
    <3>1. done \in SUBSET Nat
      BY <2>2
    <3>2. Min(done) \in done
      BY <2>4, <3>1, SmallestExists
    <3>3. Min(done) \in 1..Len(mem[n][w])
      BY <2>2, <3>2
    <3>4. [mem[n][w] EXCEPT ![Min(done)] = "StartupSuccess"] \in Seq(DockerStates)
      BY <1>0, <2>1, <3>3, ExceptSeq
    <3>5. Update(n, w, "StartupSuccess") \in [Nodes -> [WorkSpaces -> DockerStates \cup {"None"}]]
      BY <1>0, MarkedTyped
    <3>6. /\ mem' = [mem EXCEPT ![n][w] = [@ EXCEPT ![Min(done)] = "StartupSuccess"]]
          /\ row' = Update(n, w, "StartupSuccess") /\ UNCHANGED <<known, hand, retired>>
      BY <1>6, <2>4 DEF ComfyUIStartupSuccess
    <3> HIDE DEF done
    <3>7. mem' \in [Nodes -> [WorkSpaces -> Seq(DockerStates)]]
      BY <3>4, <3>6 DEF CloudType
    <3>8. CloudType'
      BY <3>5, <3>6, <3>7 DEF CloudType
    <3> QED BY <1>6, <1>b, <3>8 DEF ComfyUIStartupSuccess
  <2> QED BY <2>3, <2>4
<1>7. CASE StartupCompleted(n)
  <2> DEFINE w == hand[n].ws
             s == IF hand[n].kind = "complete" THEN "StartupCompleted" ELSE "StartupFailed"
  <2>1. hand[n] \in Reports
    BY <1>7 DEF StartupCompleted, CloudType
  <2>2. w \in WorkSpaces /\ s \in DockerStates
    BY <2>1 DEF Reports, DockerStates
  <2>3. PICK f \in Loaded(n) : mem' = [mem EXCEPT ![n] = [f EXCEPT ![w] = [i \in DOMAIN @ |-> s]]]
    BY <1>7 DEF StartupCompleted
  <2>4. f \in [WorkSpaces -> Seq(DockerStates)]
    BY <2>2, LoadedTyped
  <2> HIDE DEF s
  <2>5. [i \in DOMAIN f[w] |-> s] \in Seq(DockerStates)
    <3>1. f[w] \in Seq(DockerStates)
      BY <2>2, <2>4
    <3> QED BY <2>2, <3>1, AllMarked
  <2>6. [f EXCEPT ![w] = [i \in DOMAIN @ |-> s]] \in [WorkSpaces -> Seq(DockerStates)]
    BY <2>4, <2>5
  <2>7. row' = Update(n, w, s)
    BY <1>7 DEF StartupCompleted, s
  <2>8. row' \in [Nodes -> [WorkSpaces -> DockerStates \cup {"None"}]]
    BY <2>2, <2>7, MarkedTyped, Zenon
  <2>9. mem' \in [Nodes -> [WorkSpaces -> Seq(DockerStates)]]
    BY <2>3, <2>6 DEF CloudType
  <2>10. CloudType'
    BY <1>7, <2>8, <2>9 DEF StartupCompleted, CloudType
  <2> QED BY <1>7, <2>10, TypeFrame DEF StartupCompleted, lossVars
<1> QED BY <1>1, <1>2, <1>3, <1>4, <1>5, <1>6, <1>7 DEF Transfer

\* Losses of links are counted up and down.
LEMMA CountTyped ==
    ASSUME NEW f \in [Nodes -> Nat], NEW n \in Nodes
    PROVE  /\ [f EXCEPT ![n] = @ + 1] \in [Nodes -> Nat]
           /\ f[n] > 0 => [f EXCEPT ![n] = @ - 1] \in [Nodes -> Nat]
<1>1. f[n] \in Nat
  OBVIOUS
<1>2. f[n] + 1 \in Nat /\ (f[n] > 0 => f[n] - 1 \in Nat)
  BY <1>1
<1> QED BY <1>2

\* ng-cloud dispenses, an order of the operator, links that end: the types stay.
LEMMA TypeCloudSteps ==
    ASSUME TypeOK, NEW n \in Nodes,
           \/ Break(n) \/ DelNode(n)
           \/ \E w \in WorkSpaces : Workspace2Node(n, w) \/ Operate(n, w) \/ ContainerExits(n, w)
    PROVE  TypeOK'
<1> USE TypeParts
<1>1. ASSUME NEW w \in WorkSpaces, Workspace2Node(n, w) PROVE TypeOK'
  <2>1. mem[n][w] \in Seq(DockerStates) /\ "Pulling" \in DockerStates /\ "dispense" \in Orders
    BY DEF CloudType, DockerStates, Orders
  <2>2. Append(mem[n][w], "Pulling") \in Seq(DockerStates)
    BY <2>1, AppendProperties
  <2>3. mem' = [mem EXCEPT ![n][w] = Append(@, "Pulling")] /\ Order(n, "dispense", w)
    BY <1>1 DEF Workspace2Node, SendDispenseStart
  <2>4. CloudType'
    BY <1>1, <2>2, <2>3 DEF Workspace2Node, CloudType
  <2>5. down' \in [Nodes -> Seq([order : Orders, ws : WorkSpaces])]
    BY <2>1, <2>3, OrderTyped
  <2>6. LinkType'
    BY <1>1, <2>5 DEF Workspace2Node, LinkType, lossVars
  <2>7. CountType'
    BY <1>1 DEF Workspace2Node, CountType
  <2> QED BY <1>1, <2>4, <2>6, <2>7, TypeFrame DEF Workspace2Node
<1>2. ASSUME NEW w \in WorkSpaces, Operate(n, w) PROVE TypeOK'
  <2>1. "start" \in Orders /\ "delete" \in Orders
    BY DEF Orders
  <2>2. down' \in [Nodes -> Seq([order : Orders, ws : WorkSpaces])]
    BY <1>2, <2>1, OrderTyped DEF Operate
  <2>3. LinkType'
    BY <1>2, <2>2 DEF Operate, LinkType, lossVars
  <2>4. CountType'
    BY <1>2 DEF Operate, Happens, CountType
  <2> QED BY <1>2, <2>3, <2>4, TypeFrame DEF Operate
<1>3. ASSUME NEW w \in WorkSpaces, ContainerExits(n, w) PROVE TypeOK'
  <2>1. ClientType'
    BY <1>3 DEF ContainerExits, ClientType
  <2>2. CountType'
    BY <1>3 DEF ContainerExits, Happens, CountType
  <2> QED BY <1>3, <2>1, <2>2, TypeFrame DEF ContainerExits
<1>4. CASE Break(n)
  <2>1. /\ up' \in [Nodes -> Seq(Reports)]
        /\ down' \in [Nodes -> Seq([order : Orders, ws : WorkSpaces])]
    BY <1>4, CutShortTyped DEF Break, Ends
  <2>2. LinkType'
    BY <1>4, <2>1, CountTyped DEF Break, Ends, LinkType
  <2>3. ClientType'
    BY <1>4 DEF Break, Ends, ClientType
  <2>4. CountType'
    BY <1>4 DEF Break, Happens, CountType
  <2> QED BY <1>4, <2>2, <2>3, <2>4, TypeFrame DEF Break
<1>5. CASE DelNode(n)
  <2>1. CloudType'
    <3>1. NoDockers \in [WorkSpaces -> Seq(DockerStates)]
      BY DEF NoDockers
    <3> QED BY <1>5, <3>1 DEF DelNode, CloudType
  <2>2. ClientType'
    BY <1>5 DEF DelNode, Ends, ClientType
  <2>3. up' \in [Nodes -> Seq(Reports)]
    <3>1. <<>> \in Seq(Reports)
      BY EmptySeq
    <3> QED BY <1>5, <3>1 DEF DelNode, LinkType
  <2>4. down' \in [Nodes -> Seq([order : Orders, ws : WorkSpaces])]
    <3>1. UNCHANGED down \/ CutShort(down, n)
      BY <1>5 DEF DelNode, Ends
    <3> QED BY <3>1, CutShortTyped DEF LinkType
  <2>5. offlineCh' \in [Nodes -> Nat]
    <3>1. offlineCh[n] > 0
          /\ (UNCHANGED offlineCh \/ offlineCh' = [offlineCh EXCEPT ![n] = @ - 1])
      BY <1>5 DEF DelNode
    <3>2. offlineCh \in [Nodes -> Nat]
      BY DEF LinkType
    <3>3. /\ [offlineCh EXCEPT ![n] = @ + 1] \in [Nodes -> Nat]
          /\ offlineCh[n] > 0 => [offlineCh EXCEPT ![n] = @ - 1] \in [Nodes -> Nat]
      BY <3>2, CountTyped, Zenon
    <3> QED BY <3>1, <3>2, <3>3
  <2>6. lost' \in [Nodes -> Nat]
    <3>1. UNCHANGED lost \/ lost' = [lost EXCEPT ![n] = @ + 1]
      BY <1>5 DEF DelNode, Ends
    <3>2. lost \in [Nodes -> Nat]
      BY DEF LinkType
    <3>3. /\ [lost EXCEPT ![n] = @ + 1] \in [Nodes -> Nat]
          /\ lost[n] > 0 => [lost EXCEPT ![n] = @ - 1] \in [Nodes -> Nat]
      BY <3>2, CountTyped, Zenon
    <3> QED BY <3>1, <3>2, <3>3
  <2>7. link' \in [Nodes -> BOOLEAN]
    BY <1>5 DEF DelNode, Ends, LinkType
  <2>8. LinkType'
    BY <2>3, <2>4, <2>5, <2>6, <2>7 DEF LinkType
  <2> QED BY <1>5, <2>1, <2>2, <2>8, TypeFrame DEF DelNode
<1> QED BY <1>1, <1>2, <1>3, <1>4, <1>5

\* Node.start of a client: the types stay.
LEMMA TypeStart ==
    ASSUME TypeOK, NEW n \in Nodes, Start(n)
    PROVE  TypeOK'
<1> USE TypeParts
<1>1. MayStart(n) => CountType'
  BY DEF MayStart, CountType
<1>2. ASSUME AddNode(n)
      PROVE  /\ known' \subseteq Nodes
             /\ mem' \in [Nodes -> [WorkSpaces -> Seq(DockerStates)]]
  <2>1. RowsOf(n) \in [WorkSpaces -> Seq(DockerStates)]
    <3>1. ASSUME NEW w \in WorkSpaces
          PROVE  (IF row[n][w] = "None" THEN <<>> ELSE <<row[n][w]>>) \in Seq(DockerStates)
      <4>1. row[n][w] \in DockerStates \cup {"None"}
        BY DEF CloudType
      <4> QED BY <4>1
    <3> QED BY <3>1 DEF RowsOf
  <2> QED BY <1>2, <2>1 DEF AddNode, CloudType
<1>3. CASE ValidateFails(n)
  <2>1. ClientType'
    BY <1>3 DEF ValidateFails, ClientType
  <2> QED BY <1>1, <1>3, <2>1, TypeFrame DEF ValidateFails
<1>4. CASE Enroll(n)
  <2>1. CloudType'
    BY <1>2, <1>4 DEF Enroll, CloudType
  <2>2. ClientType'
    BY <1>2, <1>4 DEF Enroll, ClientType
  <2> QED BY <1>1, <1>4, <2>1, <2>2, TypeFrame DEF Enroll
<1>5. CASE EnrollFails(n)
  <2>1. CloudType'
    BY <1>2, <1>5 DEF EnrollFails, CloudType
  <2>2. ClientType'
    BY <1>5 DEF EnrollFails, ClientType
  <2> QED BY <1>1, <1>5, <2>1, <2>2, TypeFrame DEF EnrollFails
<1>6. CASE StartClient(n)
  <2>1. ClientType' /\ LinkType'
    BY <1>6 DEF StartClient, ClientType, LinkType
  <2> QED BY <1>6, <2>1, TypeFrame DEF StartClient
<1>7. CASE Connected(n)
  <2>1. ClientType'
    BY <1>7 DEF Connected, ClientType
  <2> QED BY <1>7, <2>1, TypeFrame DEF Connected
<1>8. CASE Started(n)
  <2>1. ClientType'
    BY <1>8 DEF Started, ClientType
  <2> QED BY <1>8, <2>1, TypeFrame DEF Started
<1>9. ASSUME NEW w \in WorkSpaces, SetUp(n, w) PROVE TypeOK'
  <2>1. PICK r \in SetDocker(n, NewNodeDocker(w), Head(todo[n][w])) :
          /\ dockers' = [dockers EXCEPT ![n] =
                Append(@, IF r.docker.signal = "None" THEN r.docker
                          ELSE Starts([r.docker EXCEPT !.signal = "None"]))]
          /\ container' = [container EXCEPT ![n][w] = r.left]
          /\ Sent(n, r.reports)
    BY <1>9 DEF SetUp
  <2>2. /\ r.docker \in DockerType /\ r.left \in {"None", "Running", "Exited"}
        /\ r.reports \in Seq(Reports)
    BY NewDockerTyped, SetDockerTyped DEF ClientType
  <2>3. [r.docker EXCEPT !.signal = "None"] \in DockerType
    BY <2>2 DEF DockerType
  <2> DEFINE d == IF r.docker.signal = "None" THEN r.docker
                  ELSE Starts([r.docker EXCEPT !.signal = "None"])
  <2>4. d \in DockerType
    BY <2>2, <2>3, StartsTyped
  <2>5. dockers' = [dockers EXCEPT ![n] = Append(@, d)]
    BY <2>1
  <2> HIDE DEF d
  <2>6. Append(dockers[n], d) \in Seq(DockerType)
    <3>1. dockers[n] \in Seq(DockerType)
      BY DEF ClientType
    <3> QED BY <2>4, <3>1, AppendProperties
  <2>7. dockers' \in [Nodes -> Seq(DockerType)]
    BY <2>5, <2>6 DEF ClientType
  <2>8. Tail(todo[n][w]) \in Seq(DockerStates)
    <3>1. todo[n][w] \in Seq(DockerStates) /\ todo[n][w] # <<>>
      BY <1>9 DEF ClientType, SetUp
    <3> QED BY <3>1, HeadTailProperties
  <2>9. todo' \in [Nodes -> [WorkSpaces -> Seq(DockerStates)]]
    BY <1>9, <2>8 DEF SetUp, ClientType
  <2>10. container' \in [Nodes -> [WorkSpaces -> {"None", "Running", "Exited"}]]
    BY <2>1, <2>2 DEF ClientType
  <2>11. ClientType'
    BY <1>9, <2>7, <2>9, <2>10 DEF SetUp, ClientType
  <2>12. LinkType'
    BY <1>9, <2>1, <2>2, SentLinkType DEF SetUp
  <2> QED BY <1>9, <2>11, <2>12, TypeFrame DEF SetUp
<1> QED BY <1>3, <1>4, <1>5, <1>6, <1>7, <1>8, <1>9 DEF Start

\* Node.recv of a client: the types stay.
LEMMA TypeRecv ==
    ASSUME TypeOK, NEW n \in Nodes, Recv(n)
    PROVE  TypeOK'
<1> USE TypeParts
<1>1. dockers[n] \in Seq(DockerType)
  BY DEF ClientType
<1>2. ASSUME NEW o, NEW w, Receive(n, o, w)
      PROVE  down' \in [Nodes -> Seq([order : Orders, ws : WorkSpaces])]
  <2>1. down[n] \in Seq([order : Orders, ws : WorkSpaces]) /\ down[n] # <<>>
    BY <1>2 DEF LinkType, Receive
  <2>2. Tail(down[n]) \in Seq([order : Orders, ws : WorkSpaces])
    BY <2>1, HeadTailProperties
  <2> QED BY <1>2, <2>2 DEF Receive, LinkType
<1>3. ASSUME NEW o, NEW w, Receive(n, o, w), NEW reports \in Seq(Reports), Sent(n, reports),
             UNCHANGED lossVars
      PROVE  LinkType'
  <2>1. up' \in [Nodes -> Seq(Reports)]
    BY <1>3, SentTyped DEF LinkType
  <2> QED BY <1>2, <1>3, <2>1 DEF LinkType, lossVars
<1>4. ASSUME NEW w, FindDocker(n, w) # {}
      PROVE  Min(FindDocker(n, w)) \in DOMAIN dockers[n] /\ Min(FindDocker(n, w)) \in FindDocker(n, w)
  <2>1. DOMAIN dockers[n] = 1..Len(dockers[n]) /\ Len(dockers[n]) \in Nat
    BY <1>1, LenProperties
  <2>2. FindDocker(n, w) \in SUBSET Nat
    BY <2>1 DEF FindDocker
  <2>3. Min(FindDocker(n, w)) \in FindDocker(n, w)
    BY <1>4, <2>2, SmallestExists
  <2> QED BY <2>3 DEF FindDocker
<1>5. ASSUME NEW w \in WorkSpaces, DispenseStart(n, w) PROVE TypeOK'
  <2> DEFINE found == FindDocker(n, w)
             i     == IF found = {} THEN Len(dockers[n]) + 1 ELSE Min(found)
             d     == IF found = {} THEN NewNodeDocker(w) ELSE dockers[n][i]
  <2>1. PICK r \in SetDocker(n, d, "None") :
          /\ dockers' = [dockers EXCEPT ![n] = IF found = {} THEN Append(@, r.docker)
                                               ELSE [@ EXCEPT ![i] = r.docker]]
          /\ container' = [container EXCEPT ![n][w] = r.left]
          /\ Sent(n, r.reports)
    BY <1>5 DEF DispenseStart
  <2>2. d \in DockerType
    BY <1>4, NewDockerTyped, DockerTyped
  <2>3. /\ r.docker \in DockerType /\ r.left \in {"None", "Running", "Exited"}
        /\ r.reports \in Seq(Reports)
    <3> HIDE DEF d
    <3> QED BY <2>2, SetDockerTyped DEF ClientType
  <2>4. (IF found = {} THEN Append(dockers[n], r.docker)
         ELSE [dockers[n] EXCEPT ![i] = r.docker]) \in Seq(DockerType)
    <3>1. CASE found = {}
      BY <1>1, <2>3, <3>1, AppendProperties
    <3>2. CASE found # {}
      <4>1. i \in 1..Len(dockers[n])
        BY <1>1, <1>4, <3>2, LenProperties
      <4> HIDE DEF i
      <4>2. [dockers[n] EXCEPT ![i] = r.docker] \in Seq(DockerType)
        BY <1>1, <2>3, <4>1, ExceptSeq
      <4> QED BY <3>2, <4>2
    <3> QED BY <3>1, <3>2
  <2>5. dockers' \in [Nodes -> Seq(DockerType)]
    <3> HIDE DEF i, found
    <3> QED BY <2>1, <2>4 DEF ClientType
  <2>6. container' \in [Nodes -> [WorkSpaces -> {"None", "Running", "Exited"}]]
    BY <2>1, <2>3 DEF ClientType
  <2>7. ClientType'
    BY <1>5, <2>5, <2>6 DEF DispenseStart, ClientType
  <2>8. LinkType'
    BY <1>3, <1>5, <2>1, <2>3 DEF DispenseStart
  <2> QED BY <1>5, <2>7, <2>8, TypeFrame DEF DispenseStart
<1>6. ASSUME NEW w \in WorkSpaces, StartupDocker(n, w) PROVE TypeOK'
  <2>1. dockers' \in [Nodes -> Seq(DockerType)]
    <3>1. CASE FindDocker(n, w) = {}
      BY <1>6, <3>1 DEF StartupDocker, ClientType
    <3>2. CASE FindDocker(n, w) # {}
      <4> DEFINE i == Min(FindDocker(n, w))
                 d == [dockers[n][i] EXCEPT !.signal = "start"]
      <4>1. i \in DOMAIN dockers[n]
        BY <1>4, <3>2
      <4>2. dockers[n][i] \in DockerType
        BY <4>1, DockerTyped
      <4>3. d \in DockerType
        BY <4>2 DEF DockerType
      <4>4. Becomes(n, i, d)
        BY <1>6, <3>2 DEF StartupDocker, Becomes
      <4> HIDE DEF i, d
      <4> QED BY <4>1, <4>3, <4>4, BecomesTyped
    <3> QED BY <3>1, <3>2
  <2>2. ClientType'
    BY <1>6, <2>1 DEF StartupDocker, ClientType
  <2>3. LinkType'
    BY <1>2, <1>6 DEF StartupDocker, LinkType, lossVars
  <2> QED BY <1>6, <2>2, <2>3, TypeFrame DEF StartupDocker
<1>7. ASSUME NEW w \in WorkSpaces, DeleteDockerOrder(n, w) PROVE TypeOK'
  <2>1. CASE FindDocker(n, w) = {}
    <3>1. ClientType'
      BY <1>7, <2>1 DEF DeleteDockerOrder, ClientType
    <3>2. LinkType'
      BY <1>2, <1>7, <2>1 DEF DeleteDockerOrder, LinkType, lossVars
    <3> QED BY <1>7, <3>1, <3>2, TypeFrame DEF DeleteDockerOrder
  <2>2. CASE FindDocker(n, w) # {}
    <3> DEFINE i == Min(FindDocker(n, w))
               d == [dockers[n][i] EXCEPT !.dels = @ + 1]
    <3>1. i \in DOMAIN dockers[n]
      BY <1>4, <2>2
    <3>2. dockers[n][i] \in DockerType
      BY <3>1, DockerTyped
    <3>3. d \in DockerType
      BY <3>2 DEF DockerType
    <3>4. Becomes(n, i, d) /\ Sent(n, <<Report("noDocker", w)>>)
      BY <1>7, <2>2 DEF DeleteDockerOrder, Becomes
    <3> HIDE DEF i, d
    <3>5. dockers' \in [Nodes -> Seq(DockerType)]
      BY <3>1, <3>3, <3>4, BecomesTyped
    <3>6. ClientType'
      BY <1>7, <3>5 DEF DeleteDockerOrder, ClientType
    <3>7. <<Report("noDocker", w)>> \in Seq(Reports)
      BY ReportsTyped DEF Kinds
    <3>8. LinkType'
      BY <1>3, <1>7, <3>4, <3>7 DEF DeleteDockerOrder
    <3> QED BY <1>7, <3>6, <3>8, TypeFrame DEF DeleteDockerOrder
  <2> QED BY <2>1, <2>2
<1>8. CASE Offline(n)
  <2>1. [i \in DOMAIN dockers[n] |-> IF dockers[n][i].listed
            THEN [dockers[n][i] EXCEPT !.listed = FALSE, !.exit = TRUE] ELSE dockers[n][i]]
          \in Seq(DockerType)
    <3> DEFINE e(i) == IF dockers[n][i].listed
                       THEN [dockers[n][i] EXCEPT !.listed = FALSE, !.exit = TRUE] ELSE dockers[n][i]
    <3>1. DOMAIN dockers[n] = 1..Len(dockers[n]) /\ Len(dockers[n]) \in Nat
      BY <1>1, LenProperties
    <3>2. ASSUME NEW i \in 1..Len(dockers[n]) PROVE e(i) \in DockerType
      <4>1. dockers[n][i] \in DockerType
        BY <1>1, ElementOfSeq
      <4> QED BY <4>1 DEF DockerType
    <3>3. [i \in 1..Len(dockers[n]) |-> e(i)] \in Seq(DockerType)
      <4> HIDE DEF e
      <4> QED BY <3>1, <3>2, IsASeq
    <3> QED BY <3>1, <3>3
  <2>2. dockers' \in [Nodes -> Seq(DockerType)]
    BY <1>8, <2>1 DEF Offline, ClientType
  <2>3. ClientType'
    BY <1>8, <2>2 DEF Offline, ClientType
  <2>4. /\ up' \in [Nodes -> Seq(Reports)]
        /\ down' \in [Nodes -> Seq([order : Orders, ws : WorkSpaces])]
    BY <1>8, CutShortTyped DEF Offline, LinkType
  <2>5. offlineCh' \in [Nodes -> Nat]
    <3>1. UNCHANGED offlineCh \/ offlineCh' = [offlineCh EXCEPT ![n] = @ + 1]
      BY <1>8 DEF Offline
    <3>2. offlineCh \in [Nodes -> Nat]
      BY DEF LinkType
    <3>3. /\ [offlineCh EXCEPT ![n] = @ + 1] \in [Nodes -> Nat]
          /\ offlineCh[n] > 0 => [offlineCh EXCEPT ![n] = @ - 1] \in [Nodes -> Nat]
      BY <3>2, CountTyped, Zenon
    <3> QED BY <3>1, <3>2, <3>3
  <2>6. lost' \in [Nodes -> Nat]
    <3>1. lost[n] > 0 /\ (UNCHANGED lost \/ lost' = [lost EXCEPT ![n] = @ - 1])
      BY <1>8 DEF Offline
    <3>2. lost \in [Nodes -> Nat]
      BY DEF LinkType
    <3>3. /\ [lost EXCEPT ![n] = @ + 1] \in [Nodes -> Nat]
          /\ lost[n] > 0 => [lost EXCEPT ![n] = @ - 1] \in [Nodes -> Nat]
      BY <3>2, CountTyped, Zenon
    <3> QED BY <3>1, <3>2, <3>3
  <2>7. link' \in [Nodes -> BOOLEAN]
    BY <1>8 DEF Offline, LinkType
  <2>8. LinkType'
    BY <2>4, <2>5, <2>6, <2>7 DEF LinkType
  <2> QED BY <1>8, <2>3, <2>8, TypeFrame DEF Offline
<1> QED BY <1>5, <1>6, <1>7, <1>8 DEF Recv

\* A docker of a client: the types stay.
LEMMA TypeDocker ==
    ASSUME TypeOK, NEW n \in Nodes, NEW i, CheckTicker(n, i) \/ ComfyUIEvent(n, i)
    PROVE  TypeOK'
<1> USE TypeParts
<1> DEFINE d == dockers[n][i]
<1>0. i \in DOMAIN dockers[n]
  BY DEF CheckTicker, StartupContainer, ReportStartup, ExecDockerCompose, WaitStartup,
         TakeDelDocker, TakeExit, Selects, ComfyUIEvent
<1>1. d \in DockerType /\ d.ws \in WorkSpaces
  BY <1>0, DockerTyped DEF DockerType
<1>2. {"startup", "complete", "failed", "incomplete", "noDocker", "comfyUI"} \subseteq Kinds
  BY DEF Kinds
<1>3. ASSUME NEW e \in DockerType, Becomes(n, i, e), NEW reports \in Seq(Reports),
             Sent(n, reports) \/ UNCHANGED up, UNCHANGED dockerFrame, UNCHANGED container
      PROVE  TypeOK'
  <2>1. ClientType'
    BY <1>0, <1>3, BecomesTyped DEF ClientType, dockerFrame
  <2>2. LinkType'
    BY <1>3, SentLinkType DEF dockerFrame, LinkType, lossVars
  <2> QED BY <1>3, <2>1, <2>2, TypeFrame DEF dockerFrame
<1>4. CASE StartupContainer(n, i)
  <2> DEFINE e == [d EXCEPT !.signal = IF @ = "start" THEN "report" ELSE "None"]
  <2>1. e \in DockerType
    BY <1>1 DEF DockerType
  <2>2. Becomes(n, i, Starts(e))
    BY <1>4 DEF StartupContainer
  <2> HIDE DEF e
  <2>3. Starts(e) \in DockerType
    BY <2>1, StartsTyped
  <2> QED BY <1>3, <1>4, <2>2, <2>3, EmptySeq DEF StartupContainer
<1>5. CASE ReportStartup(n, i)
  <2>1. [d EXCEPT !.signal = "None"] \in DockerType
    BY <1>1 DEF DockerType
  <2>2. <<Report("startup", d.ws)>> \in Seq(Reports)
    BY <1>1, <1>2, ReportsTyped
  <2> QED BY <1>3, <1>5, <2>1, <2>2 DEF ReportStartup
<1>6. CASE ExecDockerCompose(n, i)
  <2>1. [d EXCEPT !.pc = "Wait"] \in DockerType
    BY <1>1 DEF DockerType
  <2>2. NextCMD(d) \in DockerType
    BY <1>1, NextTyped
  <2>3. <<Report("startup", d.ws)>> \in Seq(Reports) /\ <<Report("failed", d.ws)>> \in Seq(Reports)
    BY <1>1, <1>2, ReportsTyped
  <2> QED BY <1>3, <1>6, <2>1, <2>2, <2>3 DEF ExecDockerCompose
<1>7. CASE WaitStartup(n, i)
  <2>1. /\ <<Report("incomplete", d.ws)>> \in Seq(Reports)
        /\ <<Report("complete", d.ws), Report("complete", d.ws)>> \in Seq(Reports)
    BY <1>1, <1>2, ReportsTyped
  <2>2. CASE /\ Becomes(n, i, NextCMD(d))
             /\ Sent(n, <<Report("incomplete", d.ws)>>)
             /\ UNCHANGED container
    <3>1. NextCMD(d) \in DockerType
      BY <1>1, NextTyped
    <3> QED BY <1>3, <1>7, <2>1, <2>2, <3>1 DEF WaitStartup
  <2>3. CASE /\ Becomes(n, i, [d EXCEPT !.pc = "Select", !.at = 0, !.plugIn = TRUE])
             /\ container' = [container EXCEPT ![n][d.ws] = "Running"]
             /\ Sent(n, <<Report("complete", d.ws), Report("complete", d.ws)>>)
    <3>1. [d EXCEPT !.pc = "Select", !.at = 0, !.plugIn = TRUE] \in DockerType
      <4>1. 0 \in 0..MaxCMDs
        BY WorkspacesAssumption
      <4> QED BY <1>1, <4>1 DEF DockerType
    <3>2. dockers' \in [Nodes -> Seq(DockerType)]
      BY <1>0, <2>3, <3>1, BecomesTyped
    <3>3. container' \in [Nodes -> [WorkSpaces -> {"None", "Running", "Exited"}]]
      BY <1>1, <2>3 DEF ClientType
    <3>4. ClientType'
      BY <1>7, <3>2, <3>3 DEF WaitStartup, dockerFrame, ClientType
    <3>5. LinkType'
      BY <1>7, <2>1, <2>3, SentLinkType DEF WaitStartup, dockerFrame
    <3> QED BY <1>7, <3>4, <3>5, TypeFrame DEF WaitStartup, dockerFrame
  <2> QED BY <1>7, <2>2, <2>3 DEF WaitStartup
<1>8. CASE TakeDelDocker(n, i)
  <2>1. DeleteImage(d) \in DockerType /\ DeleteImage(d).dels = d.dels /\ d.dels \in Nat /\ d.dels > 0
    BY <1>1, <1>8, DeletedTyped DEF TakeDelDocker, DeleteImage, DockerType
  <2>2. [DeleteImage(d) EXCEPT !.dels = @ - 1] \in DockerType
    BY <2>1 DEF DockerType
  <2>3. <<Report("noDocker", d.ws)>> \in Seq(Reports)
    BY <1>1, <1>2, ReportsTyped
  <2> QED BY <1>3, <1>8, <2>2, <2>3 DEF TakeDelDocker
<1>9. CASE TakeExit(n, i)
  <2>1. dockers[n] \in Seq(DockerType) /\ i \in 1..Len(dockers[n]) /\ Len(dockers[n]) \in Nat
    BY <1>0, DockerTyped DEF ClientType
  <2>2. /\ \A j \in 1..(i - 1) : dockers[n][j] \in DockerType
        /\ \A j \in (i + 1)..Len(dockers[n]) : dockers[n][j] \in DockerType
    <3>1. \A j \in 1..Len(dockers[n]) : dockers[n][j] \in DockerType
      BY <2>1, ElementOfSeq
    <3> QED BY <2>1, <3>1
  <2>3. /\ SubSeq(dockers[n], 1, i - 1) \in Seq(DockerType)
        /\ SubSeq(dockers[n], i + 1, Len(dockers[n])) \in Seq(DockerType)
    BY <2>1, <2>2, SubSeqProperties
  <2>4. RemoveAt(dockers[n], i) \in Seq(DockerType)
    BY <2>3, ConcatProperties DEF RemoveAt
  <2>5. ClientType'
    BY <1>9, <2>4 DEF TakeExit, dockerFrame, ClientType
  <2> QED BY <1>9, <2>5, TypeFrame DEF TakeExit, dockerFrame
<1>10. CASE ComfyUIEvent(n, i)
  <2>1. <<Report("comfyUI", d.ws)>> \in Seq(Reports)
    BY <1>1, <1>2, ReportsTyped
  <2>2. LinkType'
    BY <1>10, <2>1, SentLinkType DEF ComfyUIEvent, dockerFrame
  <2> QED BY <1>10, <2>2, TypeFrame DEF ComfyUIEvent, dockerFrame, clientVars
<1> QED BY <1>4, <1>5, <1>6, <1>7, <1>8, <1>9, <1>10 DEF CheckTicker

\* Every step keeps the types.
LEMMA TypeStep == TypeOK /\ [Next]_vars => TypeOK'
<1> SUFFICES ASSUME TypeOK, [Next]_vars PROVE TypeOK'
  OBVIOUS
<1>1. CASE Next
  <2>1. PICK n \in Nodes :
          \/ Transfer(n) \/ Break(n) \/ DelNode(n) \/ Start(n) \/ Recv(n)
          \/ \E w \in WorkSpaces : Workspace2Node(n, w) \/ Operate(n, w) \/ ContainerExits(n, w)
          \/ \E i \in 1..MaxDockers : CheckTicker(n, i) \/ ComfyUIEvent(n, i)
    BY <1>1, Zenon DEF Next
  <2> QED BY <2>1, TypeTransfer, TypeCloudSteps, TypeStart, TypeRecv, TypeDocker, Zenon
<1>2. CASE UNCHANGED vars
  BY <1>2, TypeParts, TypeFrame DEF vars
<1> QED BY <1>1, <1>2

\* The types hold whatever ng-cloud, the clients, the operator and the links do.
THEOREM WorkspacesTypeCorrect == Spec => []TypeOK
<1> QED BY InitTypes, TypeStep, PTL DEF Spec

(***************************************************************************)
(* The rows agree with the lists in memory.                                *)
(***************************************************************************)
\* A row is what one of the entries says, unless a handler is inside LoadDocker
\* or the workspace was just dispensed; and all that Nodes.check can have put
\* into a list that LoadDocker is about to fill is a workspace just dispensed.
Agrees(n, w) ==
    (/\ hand[n] = Idle /\ row[n][w] # "None"
     /\ mem[n][w] # <<>> /\ Head(mem[n][w]) # "Pulling")
    => row[n][w] \in Range(mem[n][w])
Loading(n, w) ==
    hand[n] # Idle => n \in known /\ \A i \in DOMAIN mem[n][w] : mem[n][w][i] = "Pulling"
RowsInv == \A n \in Nodes, w \in WorkSpaces : Agrees(n, w) /\ Loading(n, w)

\* A list is not empty when it has a first entry, which is one of its entries.
LEMMA HeadInRange ==
    ASSUME NEW T, NEW s \in Seq(T), s # <<>>
    PROVE  /\ 1 \in DOMAIN s /\ Head(s) = s[1] /\ s[1] \in Range(s)
           /\ \A i \in DOMAIN s : s[i] \in Range(s)
<1>1. Len(s) \in Nat \ {0} /\ DOMAIN s = 1..Len(s)
  BY EmptySeq, LenProperties
<1>2. 1 \in DOMAIN s
  BY <1>1
<1> QED BY <1>2 DEF Range

\* A row that LoadDocker puts into a list, before or after its entries, is in it.
LEMMA OneIn ==
    ASSUME NEW T, NEW s \in Seq(T), NEW e \in T,
           NEW l \in {<<e>> \o s, s \o <<e>>, <<e>>}
    PROVE  e \in Range(l)
<1>1. <<e>> \in Seq(T) /\ Len(<<e>>) = 1 /\ <<e>>[1] = e
  OBVIOUS
<1>2. Len(s) \in Nat
  BY LenProperties
<1>3. CASE l = <<e>> \o s
  <2>1. l \in Seq(T) /\ Len(l) = 1 + Len(s) /\ l[1] = e
    BY <1>1, <1>2, <1>3, ConcatProperties
  <2>2. 1 \in DOMAIN l
    BY <1>2, <2>1, LenProperties
  <2> QED BY <2>1, <2>2 DEF Range
<1>4. CASE l = s \o <<e>>
  <2>1. l \in Seq(T) /\ Len(l) = Len(s) + 1 /\ l[Len(s) + 1] = e
    BY <1>1, <1>2, <1>4, ConcatProperties
  <2>2. Len(s) + 1 \in DOMAIN l
    BY <1>2, <2>1, LenProperties
  <2> QED BY <2>1, <2>2 DEF Range
<1>5. CASE l = <<e>>
  <2>1. 1 \in DOMAIN l
    BY <1>5
  <2> QED BY <1>1, <1>5, <2>1 DEF Range
<1> QED BY <1>3, <1>4, <1>5

\* What a step does not touch still agrees.
LEMMA RowsFrame ==
    ASSUME NEW n, NEW w, Agrees(n, w), Loading(n, w), hand'[n] = hand[n], row'[n][w] = row[n][w],
           mem'[n][w] = mem[n][w], n \in known => n \in known'
    PROVE  Agrees(n, w)' /\ Loading(n, w)'
BY DEF Agrees, Loading

\* When all entries of a workspace and its row, if it has one, are given one state, they agree.
LEMMA RowsMarked ==
    ASSUME CloudType, NEW n \in Nodes, NEW w \in WorkSpaces, NEW s \in DockerStates,
           NEW l \in Seq(DockerStates), mem'[n][w] = [i \in DOMAIN l |-> s],
           row'[n][w] \in {"None", s}, hand'[n] = Idle
    PROVE  Agrees(n, w)' /\ Loading(n, w)'
<1>1. Loading(n, w)'
  BY DEF Loading
<1>2. ASSUME mem'[n][w] # <<>>, row'[n][w] = s
      PROVE  row'[n][w] \in Range(mem'[n][w])
  <2>1. mem'[n][w] \in Seq(DockerStates)
    BY AllMarked
  <2>2. 1 \in DOMAIN mem'[n][w] /\ mem'[n][w][1] \in Range(mem'[n][w])
    BY <1>2, <2>1, HeadInRange
  <2>3. mem'[n][w][1] = s
    BY <2>2
  <2> QED BY <1>2, <2>2, <2>3
<1>3. Agrees(n, w)'
  BY <1>2 DEF Agrees
<1> QED BY <1>1, <1>3

\* ng-cloud handles a report.
LEMMA RowsTransfer ==
    ASSUME TypeOK, RowsInv, NEW n \in Nodes, Transfer(n)
    PROVE  RowsInv'
<1> USE TypeParts
<1>0. {"Pulling", "PullCompleted", "Startuping", "StartupCompleted", "StartupSuccess",
       "StartupFailed"} \subseteq DockerStates
  BY DEF DockerStates
<1>a. \A m \in Nodes, v \in WorkSpaces : Agrees(m, v) /\ Loading(m, v)
  BY DEF RowsInv
<1>b. ASSUME NEW w \in WorkSpaces, NEW k, NEW s \in DockerStates, Heard(n, k, w),
             mem' = Marked(n, w, s), row' = Upsert(n, w, s) \/ row' = Update(n, w, s),
             UNCHANGED <<known, hand>>
      PROVE  RowsInv'
  <2> SUFFICES ASSUME NEW m \in Nodes, NEW v \in WorkSpaces PROVE Agrees(m, v)' /\ Loading(m, v)'
    BY DEF RowsInv
  <2>1. mem[n][w] \in Seq(DockerStates)
    BY DEF CloudType
  <2>2. CASE m = n /\ v = w
    <3>1. mem'[n][w] = [i \in DOMAIN mem[n][w] |-> s]
      BY <1>b DEF Marked, CloudType
    <3>2. row'[n][w] \in {"None", s}
      BY <1>b DEF Upsert, Update, CloudType
    <3>3. hand'[n] = Idle
      BY <1>b DEF Heard
    <3> QED BY <2>1, <2>2, <3>1, <3>2, <3>3, RowsMarked
  <2>3. CASE ~(m = n /\ v = w)
    <3>1. mem'[m][v] = mem[m][v]
      BY <1>b, <2>3 DEF Marked, CloudType
    <3>2. row'[m][v] = row[m][v]
      BY <1>b, <2>3 DEF Upsert, Update, CloudType
    <3> QED BY <1>a, <1>b, <3>1, <3>2, RowsFrame
  <2> QED BY <2>2, <2>3
<1>1. ASSUME NEW w \in WorkSpaces, StartupWorkSpace(n, w) PROVE RowsInv'
  BY <1>0, <1>1, <1>b DEF StartupWorkSpace, StartWorkSpace
<1>2. ASSUME NEW w \in WorkSpaces, StartupFail(n, w) PROVE RowsInv'
  BY <1>0, <1>2, <1>b DEF StartupFail
<1>3. ASSUME NEW w \in WorkSpaces, DeleteContainer(n, w) PROVE RowsInv'
  BY <1>0, <1>3, <1>b DEF DeleteContainer
<1>4. ASSUME NEW w \in WorkSpaces, DeleteDocker(n, w) PROVE RowsInv'
  <2> SUFFICES ASSUME NEW m \in Nodes, NEW v \in WorkSpaces PROVE Agrees(m, v)' /\ Loading(m, v)'
    BY DEF RowsInv
  <2>1. CASE m = n /\ v = w
    BY <1>4, <2>1 DEF DeleteDocker, DelWorkSpace, Heard, CloudType, Agrees, Loading
  <2>2. CASE ~(m = n /\ v = w)
    <3>1. mem'[m][v] = mem[m][v] /\ row'[m][v] = row[m][v] /\ UNCHANGED <<known, hand>>
      BY <1>4, <2>2 DEF DeleteDocker, DelWorkSpace, CloudType
    <3> QED BY <1>a, <3>1, RowsFrame
  <2> QED BY <2>1, <2>2
<1>5. ASSUME NEW w \in WorkSpaces, StartupComplete(n, w) PROVE RowsInv'
  <2> SUFFICES ASSUME NEW m \in Nodes, NEW v \in WorkSpaces PROVE Agrees(m, v)' /\ Loading(m, v)'
    BY DEF RowsInv
  <2>1. CASE m = n
    <3>1. n \in known' /\ mem'[n][v] = <<>>
      BY <1>5 DEF StartupComplete, Heard, NoDockers, CloudType
    <3> QED BY <2>1, <3>1 DEF Agrees, Loading
  <2>2. CASE m # n
    <3>1. /\ mem'[m][v] = mem[m][v] /\ row'[m][v] = row[m][v]
          /\ hand'[m] = hand[m] /\ UNCHANGED known
      BY <1>5, <2>2 DEF StartupComplete, Upsert, CloudType
    <3> QED BY <1>a, <3>1, RowsFrame
  <2> QED BY <2>1, <2>2
<1>6. ASSUME NEW w \in WorkSpaces, ComfyUIStartupSuccess(n, w) PROVE RowsInv'
  <2> DEFINE done == {i \in DOMAIN mem[n][w] : mem[n][w][i] = "StartupCompleted"}
  <2> SUFFICES ASSUME NEW m \in Nodes, NEW v \in WorkSpaces PROVE Agrees(m, v)' /\ Loading(m, v)'
    BY DEF RowsInv
  <2>1. mem[n][w] \in Seq(DockerStates)
    BY DEF CloudType
  <2>2. DOMAIN mem[n][w] = 1..Len(mem[n][w]) /\ Len(mem[n][w]) \in Nat
    BY <2>1, LenProperties
  <2>3. CASE done = {} \/ ~(m = n /\ v = w)
    <3>1. mem'[m][v] = mem[m][v] /\ row'[m][v] = row[m][v] /\ UNCHANGED <<known, hand>>
      <4>1. CASE done = {}
        BY <1>6, <4>1 DEF ComfyUIStartupSuccess
      <4>2. CASE done # {} /\ ~(m = n /\ v = w)
        <5>1. mem' = [mem EXCEPT ![n][w] = [@ EXCEPT ![Min(done)] = "StartupSuccess"]]
              /\ row' = Update(n, w, "StartupSuccess") /\ UNCHANGED <<known, hand>>
          BY <1>6, <4>2 DEF ComfyUIStartupSuccess
        <5> HIDE DEF done
        <5> QED BY <4>2, <5>1 DEF Update, CloudType
      <4> QED BY <2>3, <4>1, <4>2
    <3> QED BY <1>a, <3>1, RowsFrame
  <2>4. CASE done # {} /\ m = n /\ v = w
    <3>1. done \in SUBSET Nat
      BY <2>2
    <3>2. Min(done) \in done
      BY <2>4, <3>1, SmallestExists
    <3>3. Min(done) \in DOMAIN mem[n][w]
      BY <3>2
    <3>4. mem' = [mem EXCEPT ![n][w] = [@ EXCEPT ![Min(done)] = "StartupSuccess"]]
          /\ row' = Update(n, w, "StartupSuccess") /\ UNCHANGED <<known, hand>> /\ hand[n] = Idle
      BY <1>6, <2>4 DEF ComfyUIStartupSuccess, Heard
    <3> HIDE DEF done
    <3>5. mem'[n][w] = [mem[n][w] EXCEPT ![Min(done)] = "StartupSuccess"]
      BY <3>4 DEF CloudType
    <3>6. Min(done) \in DOMAIN mem'[n][w] /\ mem'[n][w][Min(done)] = "StartupSuccess"
      BY <3>3, <3>5
    <3>7. row'[n][w] \in {"None", "StartupSuccess"}
      BY <3>4 DEF Update, CloudType
    <3>8. "StartupSuccess" \in Range(mem'[n][w])
      BY <3>6 DEF Range
    <3> QED BY <2>4, <3>4, <3>7, <3>8 DEF Agrees, Loading
  <2> QED BY <2>3, <2>4
<1>7. CASE StartupCompleted(n)
  <2> DEFINE w == hand[n].ws
             s == IF hand[n].kind = "complete" THEN "StartupCompleted" ELSE "StartupFailed"
  <2>1. hand[n] \in Reports
    BY <1>7 DEF StartupCompleted, CloudType
  <2>2. w \in WorkSpaces /\ s \in DockerStates
    BY <2>1 DEF Reports, DockerStates
  <2>3. PICK f \in Loaded(n) : mem' = [mem EXCEPT ![n] = [f EXCEPT ![w] = [i \in DOMAIN @ |-> s]]]
    BY <1>7 DEF StartupCompleted
  <2>4. f \in [WorkSpaces -> Seq(DockerStates)]
    BY <2>2, LoadedTyped
  <2>5. /\ row' = Update(n, w, s) /\ UNCHANGED known
        /\ hand' = [hand EXCEPT ![n] = Idle] /\ hand[n] # Idle
    BY <1>7 DEF StartupCompleted
  <2> HIDE DEF s
  <2> SUFFICES ASSUME NEW m \in Nodes, NEW v \in WorkSpaces PROVE Agrees(m, v)' /\ Loading(m, v)'
    BY DEF RowsInv
  <2>6. CASE m # n
    <3>1. /\ mem'[m][v] = mem[m][v] /\ row'[m][v] = row[m][v] /\ hand'[m] = hand[m]
      BY <2>3, <2>5, <2>6 DEF Update, CloudType
    <3> QED BY <1>a, <2>5, <3>1, RowsFrame
  <2>7. CASE m = n /\ v = w
    <3>1. mem'[n][w] = [i \in DOMAIN f[w] |-> s]
      BY <2>2, <2>3, <2>4 DEF CloudType
    <3>2. row'[n][w] \in {"None", s} /\ hand'[n] = Idle
      BY <2>2, <2>5 DEF Update, CloudType
    <3>3. f[w] \in Seq(DockerStates)
      BY <2>2, <2>4
    <3> QED BY <2>2, <2>7, <3>1, <3>2, <3>3, RowsMarked
  <2>8. CASE m = n /\ v # w
    <3>1. mem'[n][v] = f[v]
      BY <2>3, <2>4, <2>8 DEF CloudType
    <3>2. row'[n][v] = row[n][v] /\ hand'[n] = Idle
      BY <2>5, <2>8 DEF Update, CloudType
    <3>3. ASSUME row[n][v] # "None", f[v] # <<>>, Head(f[v]) # "Pulling"
          PROVE  row[n][v] \in Range(f[v])
      <4>1. \/ f[v] = mem[n][v]
            \/ f[v] \in {<<row[n][v]>> \o mem[n][v], mem[n][v] \o <<row[n][v]>>, <<row[n][v]>>}
        BY <3>3, LoadedTyped
      <4>2. mem[n][v] \in Seq(DockerStates) /\ row[n][v] \in DockerStates
        BY <3>3 DEF CloudType
      <4>3. CASE f[v] = mem[n][v]
        <5>1. \A i \in DOMAIN mem[n][v] : mem[n][v][i] = "Pulling"
          BY <1>a, <2>5 DEF Loading
        <5>2. Head(f[v]) = "Pulling"
          BY <3>3, <4>2, <4>3, <5>1, HeadInRange
        <5> QED BY <3>3, <5>2
      <4>4. CASE f[v] # mem[n][v]
        BY <4>1, <4>2, <4>4, OneIn
      <4> QED BY <4>3, <4>4
    <3> QED BY <2>8, <3>1, <3>2, <3>3 DEF Agrees, Loading
  <2> QED BY <2>6, <2>7, <2>8
<1> QED BY <1>1, <1>2, <1>3, <1>4, <1>5, <1>6, <1>7 DEF Transfer

\* Whatever else happens.
LEMMA RowsOthers ==
    ASSUME TypeOK, RowsInv, NEW n \in Nodes,
           \/ DelNode(n) \/ Start(n)
           \/ \E w \in WorkSpaces : Workspace2Node(n, w)
    PROVE  RowsInv'
<1> USE TypeParts
<1>0. \A m \in Nodes, v \in WorkSpaces : Agrees(m, v) /\ Loading(m, v)
  BY DEF RowsInv
<1> SUFFICES ASSUME NEW m \in Nodes, NEW v \in WorkSpaces PROVE Agrees(m, v)' /\ Loading(m, v)'
  BY DEF RowsInv
<1>1. ASSUME NEW w \in WorkSpaces, Workspace2Node(n, w) PROVE Agrees(m, v)' /\ Loading(m, v)'
  <2>1. /\ mem' = [mem EXCEPT ![n][w] = Append(@, "Pulling")] /\ mem[n][w] = <<>>
        /\ UNCHANGED <<known, row, hand>>
    BY <1>1 DEF Workspace2Node, SendDispenseStart
  <2>2. CASE m = n /\ v = w
    <3>1. mem'[m][v] = <<"Pulling">> /\ n \in known
      BY <1>1, <2>1, <2>2 DEF CloudType, Workspace2Node
    <3>2. Head(mem'[m][v]) = "Pulling" /\ \A i \in DOMAIN mem'[m][v] : mem'[m][v][i] = "Pulling"
      BY <3>1
    <3> QED BY <2>1, <2>2, <3>1, <3>2 DEF Agrees, Loading
  <2>3. CASE ~(m = n /\ v = w)
    <3>1. mem'[m][v] = mem[m][v]
      BY <2>1, <2>3 DEF CloudType
    <3> QED BY <1>0, <2>1, <3>1, RowsFrame
  <2> QED BY <2>2, <2>3
<1>2. CASE DelNode(n)
  <2>1. CASE n \in known /\ m = n
    <3>1. mem'[m][v] = <<>> /\ hand'[m] = Idle
      BY <1>2, <2>1 DEF DelNode, NoDockers, CloudType
    <3> QED BY <3>1 DEF Agrees, Loading
  <2>2. CASE ~(n \in known /\ m = n)
    <3>1. mem'[m][v] = mem[m][v] /\ UNCHANGED <<row, hand>> /\ (m \in known => m \in known')
      BY <1>2, <2>2 DEF DelNode, CloudType
    <3> QED BY <1>0, <3>1, RowsFrame
  <2> QED BY <2>1, <2>2
<1>3. ASSUME AddNode(n), UNCHANGED <<row, hand>> PROVE Agrees(m, v)' /\ Loading(m, v)'
  <2>1. CASE n \notin known /\ m = n
    <3>1. mem'[m][v] = IF row[m][v] = "None" THEN <<>> ELSE <<row[m][v]>>
      BY <1>3, <2>1 DEF AddNode, RowsOf, CloudType
    <3>2. hand[n] = Idle
      BY <1>0, <2>1 DEF Loading
    <3>3. row[m][v] # "None" => row[m][v] \in Range(mem'[m][v])
      <4> SUFFICES ASSUME row[m][v] # "None" PROVE row[m][v] \in Range(<<row[m][v]>>)
        BY <3>1
      <4>1. 1 \in DOMAIN <<row[m][v]>> /\ <<row[m][v]>>[1] = row[m][v]
        OBVIOUS
      <4> QED BY <4>1 DEF Range
    <3> QED BY <1>3, <2>1, <3>2, <3>3 DEF Agrees, Loading
  <2>2. CASE ~(n \notin known /\ m = n)
    <3>1. mem'[m][v] = mem[m][v] /\ (m \in known => m \in known')
      BY <1>3, <2>2 DEF AddNode, CloudType
    <3> QED BY <1>0, <1>3, <3>1, RowsFrame
  <2> QED BY <2>1, <2>2
<1>4. ASSUME UNCHANGED <<known, mem, row, hand>> PROVE Agrees(m, v)' /\ Loading(m, v)'
  BY <1>0, <1>4, RowsFrame
<1>5. CASE Start(n)
  <2>1. \/ AddNode(n) /\ UNCHANGED <<row, hand>>
        \/ UNCHANGED <<known, mem, row, hand>>
    BY <1>5 DEF Start, ValidateFails, Enroll, EnrollFails, StartClient, Connected, Started, SetUp,
                cloudVars
  <2> QED BY <1>3, <1>4, <2>1
<1> QED BY <1>1, <1>2, <1>5

\* What a client, the operator, a container or a break of a link does leaves ng-cloud alone.
LEMMA CloudFrame ==
    ASSUME NEW n, \/ Break(n) \/ Recv(n)
                  \/ \E w \in WorkSpaces : Operate(n, w) \/ ContainerExits(n, w)
                  \/ \E i \in 1..MaxDockers : CheckTicker(n, i) \/ ComfyUIEvent(n, i)
    PROVE  UNCHANGED cloudVars
BY DEF Break, Recv, Operate, ContainerExits, CheckTicker, ComfyUIEvent, DispenseStart, StartupDocker,
       DeleteDockerOrder, Offline, StartupContainer, ReportStartup, ExecDockerCompose, WaitStartup,
       TakeDelDocker, TakeExit, dockerFrame

\* Every step keeps the rows and the lists in agreement.
LEMMA RowsStep == TypeOK /\ RowsInv /\ [Next]_vars => RowsInv'
<1> SUFFICES ASSUME TypeOK, RowsInv, [Next]_vars PROVE RowsInv'
  OBVIOUS
<1>1. UNCHANGED cloudVars => RowsInv'
  BY DEF RowsInv, Agrees, Loading, cloudVars
<1>2. CASE Next
  <2>1. PICK n \in Nodes :
          \/ Transfer(n) \/ Break(n) \/ DelNode(n) \/ Start(n) \/ Recv(n)
          \/ \E w \in WorkSpaces : Workspace2Node(n, w) \/ Operate(n, w) \/ ContainerExits(n, w)
          \/ \E i \in 1..MaxDockers : CheckTicker(n, i) \/ ComfyUIEvent(n, i)
    BY <1>2, Zenon DEF Next
  <2> QED BY <1>1, <2>1, CloudFrame, RowsTransfer, RowsOthers, Zenon
<1>3. CASE UNCHANGED vars
  BY <1>1, <1>3 DEF vars
<1> QED BY <1>2, <1>3

\* At every enrolment the rows tell what ng-cloud knew of the dockers: RowsAgree.
THEOREM RowsAgreeWithMemory == Spec => []RowsAgree
<1>1. Init => RowsInv
  BY DEF Init, RowsInv, Agrees, Loading, NoDockers
<1>2. TypeOK /\ RowsInv => RowsAgree
  BY DEF TypeOK, RowsInv, Agrees, RowsAgree
<1> QED BY <1>1, <1>2, InitTypes, TypeStep, RowsStep, PTL DEF Spec

(***************************************************************************)
(* A docker that ng-cloud takes for usable is usable: the invariant.       *)
(***************************************************************************)
\* A docker that has a plug-in, or whose goroutine is or will be at work and report.
Working(d) ==
    \/ d.plugIn \/ d.pc # "Select" \/ d.dels > 0 \/ d.signal \in {"start", "report"}
    \/ d.signal = "dispense" /\ d.mode = "Compose" /\ d.cmds > 0

\* The client is still to set up the workspace, or one of its dockers is at work.
Served(n, w) ==
    \/ todo[n][w] # <<>>
    \/ \E i \in DOMAIN dockers[n] : dockers[n][i].ws = w /\ Working(dockers[n][i])

\* ng-cloud does not take the workspace for usable, unless by an entry without a row.
Succeeded == {"StartupCompleted", "StartupSuccess"}
Clean(n, w) ==
    row[n][w] # "None" =>
       row[n][w] \notin Succeeded /\ \A i \in DOMAIN mem[n][w] : mem[n][w][i] \notin Succeeded

\* A report on its way makes it so, and every report of a start-up that was completed is
\* followed by such a report.
Cleans(r, w) == r.ws = w /\ r.kind \notin {"complete", "comfyUI"}
WillClean(n, w) == \E j \in DOMAIN up[n] : Cleans(up[n][j], w)
Followed(n, w) ==
    \A i \in DOMAIN up[n] : up[n][i] = Report("complete", w) =>
       \E j \in DOMAIN up[n] : j > i /\ Cleans(up[n][j], w)

\* ng-cloud knows, or will know from what is on its way, that the workspace is not usable.
Decided(n, w) ==
    /\ Clean(n, w) \/ WillClean(n, w)
    /\ hand[n] = Report("complete", w) => WillClean(n, w)
    /\ Followed(n, w)

\* As long as no client has started twice, one that is connected has lost no link, its
\* dockers are all listed, and each workspace is served or decided.
Joined(n) ==
    /\ start[n] \notin {"New", "Dial"} /\ n \in known /\ lost[n] = 0 /\ offlineCh[n] = 0
    /\ \A i \in DOMAIN dockers[n] : dockers[n][i].listed /\ ~dockers[n][i].exit
Linked(n) == link[n] => Joined(n) /\ \A w \in WorkSpaces : Served(n, w) \/ Decided(n, w)

\* A client that has not connected: nothing is on its way, and no docker was set up.
Apart(n) ==
    /\ ~link[n] /\ up[n] = <<>> /\ down[n] = <<>> /\ dockers[n] = <<>>
    /\ lost[n] = 0 /\ offlineCh[n] = 0 /\ hand[n] = Idle
New(n)     == start[n] = "New" => Apart(n) /\ n \notin known /\ todo[n] = NoDockers
Dialing(n) ==
    start[n] = "Dial" =>
       Apart(n) /\ n \in known /\ \A w \in WorkSpaces : todo[n][w] = <<>> => row[n][w] = "None"

\* Nothing is left to set up outside start, no workspace is dispensed that was deleted,
\* and starts counts.
SetUpInv(n)    == start[n] \in {"New", "Done"} => todo[n] = NoDockers
Dispensable(n) ==
    \A i \in DOMAIN down[n] : down[n][i].order = "dispense" => down[n][i].ws \notin retired
Counted(n)     == starts = 0 => start[n] = "New"

NodeInv(n) ==
    /\ New(n) /\ SetUpInv(n) /\ Dispensable(n) /\ Counted(n)
    /\ starts <= 1 => Dialing(n) /\ Linked(n)
UsableInv == \A n \in Nodes : NodeInv(n)

(***************************************************************************)
(* Reports on their way.                                                   *)
(***************************************************************************)
\* What a client reports of a workspace leaves what was decided of other ones; it decides
\* the workspace when the last report does, and leaves it decided when it says nothing of a
\* completed start-up.
LEMMA Reporting ==
    ASSUME LinkType, NEW n \in Nodes, NEW w, NEW reports \in Seq(Reports),
           \A k \in DOMAIN reports : reports[k].ws = w,
           up'[n] = up[n] \o reports,
           mem'[n] = mem[n], row'[n] = row[n], hand'[n] = hand[n], NEW v, v \in WorkSpaces
    PROVE  /\ v # w /\ Decided(n, v) => Decided(n, v)'
           /\ v = w /\ reports # <<>> /\ Cleans(reports[Len(reports)], w) => Decided(n, v)'
           /\ v = w /\ (\A k \in DOMAIN reports : reports[k].kind # "complete") /\ Decided(n, v)
              => Decided(n, v)'
<1>1. up[n] \in Seq(Reports)
  BY DEF LinkType
<1> DEFINE l == Len(up[n])
           m == Len(reports)
<1>2. /\ l \in Nat /\ m \in Nat /\ DOMAIN up[n] = 1..l /\ DOMAIN reports = 1..m
      /\ reports # <<>> => m > 0
  BY <1>1, LenProperties, EmptySeq
<1>3. /\ up'[n] \in Seq(Reports) /\ Len(up'[n]) = l + m
      /\ \A i \in 1..(l + m) : up'[n][i] = IF i <= l THEN up[n][i] ELSE reports[i - l]
  BY <1>1, ConcatProperties
<1>4. DOMAIN up'[n] = 1..(l + m)
  BY <1>3, LenProperties
<1> HIDE DEF l, m
<1>5. \A i \in DOMAIN up[n] : i \in DOMAIN up'[n] /\ up'[n][i] = up[n][i]
  BY <1>2, <1>3, <1>4
<1>6. ASSUME NEW i \in DOMAIN up'[n], i \notin DOMAIN up[n]
      PROVE  i > l /\ i - l \in DOMAIN reports /\ up'[n][i] = reports[i - l]
  BY <1>2, <1>3, <1>4, <1>6
<1>7. WillClean(n, v) => WillClean(n, v)'
  BY <1>5 DEF WillClean
<1>8. Clean(n, v) => Clean(n, v)'
  BY DEF Clean
<1>9. ASSUME Decided(n, v), \A k \in DOMAIN reports : reports[k] # Report("complete", v)
      PROVE  Decided(n, v)'
  <2>1. Followed(n, v)'
    <3> SUFFICES ASSUME NEW i \in DOMAIN up'[n], up'[n][i] = Report("complete", v)
                 PROVE  \E j \in DOMAIN up'[n] : j > i /\ Cleans(up'[n][j], v)
      BY DEF Followed
    <3>1. i \in DOMAIN up[n]
      BY <1>6, <1>9
    <3>2. up[n][i] = Report("complete", v)
      BY <1>5, <3>1
    <3>3. PICK j \in DOMAIN up[n] : j > i /\ Cleans(up[n][j], v)
      BY <1>9, <3>1, <3>2 DEF Decided, Followed
    <3> QED BY <1>5, <3>3
  <2> QED BY <1>7, <1>8, <1>9, <2>1 DEF Decided
<1>10. ASSUME v # w, Decided(n, v) PROVE Decided(n, v)'
  <2>1. \A k \in DOMAIN reports : reports[k] # Report("complete", v)
    BY <1>10 DEF Report
  <2> QED BY <1>9, <1>10, <2>1
<1>11. ASSUME \A k \in DOMAIN reports : reports[k].kind # "complete", Decided(n, v)
       PROVE  Decided(n, v)'
  <2>1. \A k \in DOMAIN reports : reports[k] # Report("complete", v)
    BY <1>11 DEF Report
  <2> QED BY <1>9, <1>11, <2>1
<1>12. ASSUME v = w, reports # <<>>, Cleans(reports[m], w) PROVE Decided(n, v)'
  <2>1. l + m \in DOMAIN up'[n] /\ up'[n][l + m] = reports[m]
    <3>1. l + m \in 1..(l + m) /\ ~(l + m <= l) /\ (l + m) - l = m
      BY <1>2, <1>12
    <3>2. up'[n][l + m] = reports[(l + m) - l]
      BY <1>3, <3>1
    <3> QED BY <1>4, <3>1, <3>2
  <2>2. WillClean(n, v)'
    BY <1>12, <2>1 DEF WillClean
  <2>3. Followed(n, v)'
    <3> SUFFICES ASSUME NEW i \in DOMAIN up'[n], up'[n][i] = Report("complete", v)
                 PROVE  \E j \in DOMAIN up'[n] : j > i /\ Cleans(up'[n][j], v)
      BY DEF Followed
    <3>1. i # l + m
      BY <1>12, <2>1 DEF Cleans, Report
    <3>2. l + m > i
      BY <1>2, <1>4, <3>1
    <3> QED BY <1>12, <2>1, <3>2
  <2> QED BY <2>2, <2>3 DEF Decided
<1> QED BY <1>10, <1>11, <1>12 DEF m

\* ng-cloud takes the first report from the link: those that follow still follow.
LEMMA Handling ==
    ASSUME LinkType, NEW n \in Nodes, NEW k, NEW w, Heard(n, k, w), NEW v
    PROVE  /\ Followed(n, v) => Followed(n, v)'
           /\ WillClean(n, v) /\ (v # w \/ k \in {"complete", "comfyUI"}) => WillClean(n, v)'
           /\ Followed(n, w) /\ k = "complete" => WillClean(n, w)'
<1>1. up[n] \in Seq(Reports) /\ up[n] # <<>> /\ Head(up[n]) = Report(k, w) /\ up'[n] = Tail(up[n])
  BY DEF LinkType, Heard
<1> DEFINE l == Len(up[n])
<1>2. l \in Nat /\ l > 0 /\ DOMAIN up[n] = 1..l
  BY <1>1, LenProperties, EmptySeq
<1>3. /\ up'[n] \in Seq(Reports) /\ Len(up'[n]) = l - 1
      /\ \A i \in 1..(l - 1) : up'[n][i] = up[n][i + 1]
  BY <1>1, HeadTailProperties
<1>4. DOMAIN up'[n] = 1..(l - 1)
  BY <1>3, LenProperties
<1>5. up[n][1] = Report(k, w)
  BY <1>1, HeadInRange
<1> HIDE DEF l
<1>6. \A i \in DOMAIN up[n] : i > 1 => i - 1 \in DOMAIN up'[n] /\ up'[n][i - 1] = up[n][i]
  <2> SUFFICES ASSUME NEW i \in DOMAIN up[n], i > 1
               PROVE  i - 1 \in DOMAIN up'[n] /\ up'[n][i - 1] = up[n][i]
    OBVIOUS
  <2>1. i \in Int /\ i - 1 \in 1..(l - 1) /\ (i - 1) + 1 = i
    BY <1>2
  <2> QED BY <1>3, <1>4, <2>1
<1>7. \A i \in DOMAIN up'[n] : i + 1 \in DOMAIN up[n] /\ up'[n][i] = up[n][i + 1] /\ i \in Int
  BY <1>2, <1>3, <1>4
<1>8. ASSUME Followed(n, v) PROVE Followed(n, v)'
  <2> SUFFICES ASSUME NEW i \in DOMAIN up'[n], up'[n][i] = Report("complete", v)
               PROVE  \E j \in DOMAIN up'[n] : j > i /\ Cleans(up'[n][j], v)
    BY DEF Followed
  <2>1. PICK j \in DOMAIN up[n] : j > i + 1 /\ Cleans(up[n][j], v)
    BY <1>7, <1>8 DEF Followed
  <2>2. j - 1 > i /\ j > 1
    BY <1>2, <1>4, <2>1
  <2> QED BY <1>6, <2>1, <2>2
<1>9. ASSUME WillClean(n, v), v # w \/ k \in {"complete", "comfyUI"} PROVE WillClean(n, v)'
  <2>1. PICK j \in DOMAIN up[n] : Cleans(up[n][j], v)
    BY <1>9 DEF WillClean
  <2>2. j # 1
    BY <1>5, <1>9, <2>1 DEF Cleans, Report
  <2>3. j > 1
    BY <1>2, <2>2
  <2> QED BY <1>6, <2>1, <2>3 DEF WillClean
<1>10. ASSUME Followed(n, w), k = "complete" PROVE WillClean(n, w)'
  <2>1. 1 \in DOMAIN up[n]
    BY <1>2
  <2>2. PICK j \in DOMAIN up[n] : j > 1 /\ Cleans(up[n][j], w)
    BY <1>5, <1>10, <2>1 DEF Followed
  <2> QED BY <1>6, <2>2 DEF WillClean
<1> QED BY <1>8, <1>9, <1>10

\* A sequence whose elements are in a smaller set.
LEMMA Narrowed ==
    ASSUME NEW S, NEW T, NEW s \in Seq(S), \A i \in DOMAIN s : s[i] \in T
    PROVE  s \in Seq(T)
<1>1. Len(s) \in Nat /\ DOMAIN s = 1..Len(s) /\ s = [i \in 1..Len(s) |-> s[i]]
  BY LenProperties
<1>2. [i \in 1..Len(s) |-> s[i]] \in Seq(T)
  BY <1>1, IsASeq
<1> QED BY <1>1, <1>2

(***************************************************************************)
(* The invariant, action by action.                                        *)
(***************************************************************************)
\* A node that a step does not touch keeps the invariant.
LEMMA NodeFrame ==
    ASSUME NEW n, NodeInv(n), mem'[n] = mem[n], row'[n] = row[n], hand'[n] = hand[n],
           offlineCh'[n] = offlineCh[n], lost'[n] = lost[n], link'[n] = link[n], up'[n] = up[n],
           down'[n] = down[n], start'[n] = start[n], todo'[n] = todo[n], dockers'[n] = dockers[n],
           retired' = retired, n \in known' <=> n \in known,
           starts \in Nat, starts' \in {starts, starts + 1}
    PROVE  NodeInv(n)'
<1>1. New(n)'
  BY DEF NodeInv, New, Apart
<1>2. SetUpInv(n)' /\ Dispensable(n)'
  BY DEF NodeInv, SetUpInv, Dispensable
<1>3. Counted(n)'
  BY DEF NodeInv, Counted
<1>4. ASSUME starts' <= 1 PROVE Dialing(n)' /\ Linked(n)'
  <2>1. Dialing(n) /\ Linked(n)
    BY <1>4 DEF NodeInv
  <2>2. Dialing(n)'
    BY <2>1 DEF Dialing, Apart
  <2>3. Joined(n) => Joined(n)'
    BY DEF Joined
  <2>4. ASSUME NEW w \in WorkSpaces, Served(n, w) PROVE Served(n, w)'
    BY <2>4 DEF Served
  <2>5. ASSUME NEW w \in WorkSpaces, Decided(n, w) PROVE Decided(n, w)'
    BY <2>5 DEF Decided, Clean, WillClean, Followed
  <2> QED BY <2>1, <2>2, <2>3, <2>4, <2>5 DEF Linked
<1> QED BY <1>1, <1>2, <1>3, <1>4 DEF NodeInv

\* ng-cloud handles a report, or has filled a list, while nothing else of a node changes.
LEMMA CloudStep ==
    ASSUME TypeOK, NEW n \in Nodes, NodeInv(n), n \in known, up[n] # <<>> \/ hand[n] # Idle,
           UNCHANGED <<known, retired, clientVars, lossVars, down, bounds>>,
           \A v \in WorkSpaces : Decided(n, v) => Decided(n, v)'
    PROVE  NodeInv(n)'
<1> USE TypeParts
<1>1. New(n)'
  BY DEF NodeInv, New, Apart, lossVars, clientVars
<1>2. SetUpInv(n)' /\ Dispensable(n)' /\ Counted(n)'
  BY DEF NodeInv, SetUpInv, Dispensable, Counted, clientVars, bounds
<1>3. ASSUME starts' <= 1 PROVE Dialing(n)' /\ Linked(n)'
  <2>1. Dialing(n) /\ Linked(n)
    BY <1>3 DEF NodeInv, bounds
  <2>2. Linked(n)'
    <3>1. ASSUME NEW v \in WorkSpaces, Served(n, v) PROVE Served(n, v)'
      BY <3>1 DEF Served, clientVars
    <3>2. Joined(n) => Joined(n)'
      BY DEF Joined, clientVars, lossVars
    <3> QED BY <2>1, <3>1, <3>2 DEF Linked, lossVars
  <2>3. Dialing(n)'
    BY <2>1 DEF Dialing, Apart, clientVars
  <2> QED BY <2>2, <2>3
<1> QED BY <1>1, <1>2, <1>3 DEF NodeInv

\* ng-cloud handles a report: what was decided of the workspaces of the node stays so.
LEMMA NodeTransfer ==
    ASSUME TypeOK, RowsInv, NEW n \in Nodes, NodeInv(n), Transfer(n)
    PROVE  NodeInv(n)'
<1> USE TypeParts
<1>a. ASSUME NEW k, NEW w \in WorkSpaces, Heard(n, k, w), NEW v \in WorkSpaces, hand'[n] = hand[n],
             Decided(n, v), Clean(n, v) => Clean(n, v)',
             \/ k \in {"complete", "comfyUI"} \/ (v = w => Clean(n, v)')
      PROVE  Decided(n, v)'
  <2>1. Followed(n, v)'
    BY <1>a, Handling DEF Decided
  <2>2. hand'[n] = Idle
    BY <1>a DEF Heard
  <2>3. hand'[n] # Report("complete", v)
    BY <2>2 DEF Idle, Report
  <2>4. Clean(n, v)' \/ WillClean(n, v)'
    <3>1. CASE Clean(n, v)
      BY <1>a, <3>1
    <3>2. CASE WillClean(n, v) /\ (v # w \/ k \in {"complete", "comfyUI"})
      BY <1>a, <3>2, Handling
    <3>3. CASE v = w /\ k \notin {"complete", "comfyUI"}
      BY <1>a, <3>3
    <3> QED BY <1>a, <3>1, <3>2, <3>3 DEF Decided
  <2> QED BY <2>1, <2>3, <2>4 DEF Decided
<1>b. ASSUME NEW k, NEW w \in WorkSpaces, Heard(n, k, w), NEW s, s \notin Succeeded,
             mem' = Marked(n, w, s), row' = Upsert(n, w, s) \/ row' = Update(n, w, s),
             UNCHANGED <<known, hand, retired, clientVars, lossVars, down, bounds>>
      PROVE  NodeInv(n)'
  <2>1. ASSUME NEW v \in WorkSpaces, Decided(n, v) PROVE Decided(n, v)'
    <3>1. CASE v = w
      <4>1. row'[n][v] \in {"None", s} /\ \A i \in DOMAIN mem'[n][v] : mem'[n][v][i] = s
        BY <1>b, <3>1 DEF Marked, Upsert, Update, CloudType
      <4>2. Clean(n, v)'
        BY <1>b, <4>1 DEF Clean
      <4> QED BY <1>a, <1>b, <2>1, <4>2
    <3>2. CASE v # w
      <4>1. row'[n][v] = row[n][v] /\ mem'[n][v] = mem[n][v]
        BY <1>b, <3>2 DEF Marked, Upsert, Update, CloudType
      <4>2. Clean(n, v) => Clean(n, v)'
        BY <4>1 DEF Clean
      <4> QED BY <1>a, <1>b, <2>1, <3>2, <4>2
    <3> QED BY <3>1, <3>2
  <2>2. n \in known /\ up[n] # <<>>
    BY <1>b DEF Heard
  <2> QED BY <1>b, <2>1, <2>2, CloudStep
<1>1. ASSUME NEW w \in WorkSpaces, StartupWorkSpace(n, w) PROVE NodeInv(n)'
  BY <1>1, <1>b DEF StartupWorkSpace, StartWorkSpace, Succeeded
<1>2. ASSUME NEW w \in WorkSpaces, StartupFail(n, w) PROVE NodeInv(n)'
  BY <1>2, <1>b DEF StartupFail, Succeeded
<1>3. ASSUME NEW w \in WorkSpaces, DeleteContainer(n, w) PROVE NodeInv(n)'
  BY <1>3, <1>b DEF DeleteContainer, Succeeded
<1>4. ASSUME NEW w \in WorkSpaces, DeleteDocker(n, w) PROVE NodeInv(n)'
  <2>1. ASSUME NEW v \in WorkSpaces, Decided(n, v) PROVE Decided(n, v)'
    <3>1. CASE v = w
      <4>1. row'[n][v] = "None"
        BY <1>4, <3>1 DEF DeleteDocker, DelWorkSpace, CloudType
      <4>2. Clean(n, v)'
        BY <4>1 DEF Clean
      <4> QED BY <1>a, <1>4, <2>1, <4>2 DEF DeleteDocker
    <3>2. CASE v # w
      <4>1. row'[n][v] = row[n][v] /\ mem'[n][v] = mem[n][v]
        BY <1>4, <3>2 DEF DeleteDocker, DelWorkSpace, CloudType
      <4>2. Clean(n, v) => Clean(n, v)'
        BY <4>1 DEF Clean
      <4> QED BY <1>a, <1>4, <2>1, <3>2, <4>2 DEF DeleteDocker
    <3> QED BY <3>1, <3>2
  <2>2. n \in known /\ up[n] # <<>>
    BY <1>4 DEF DeleteDocker, Heard
  <2> QED BY <1>4, <2>1, <2>2, CloudStep DEF DeleteDocker
<1>5. ASSUME NEW w \in WorkSpaces, StartupComplete(n, w) PROVE NodeInv(n)'
  <2>1. PICK k \in {"complete", "incomplete"} :
           Heard(n, k, w) /\ hand' = [hand EXCEPT ![n] = Report(k, w)]
    BY <1>5 DEF StartupComplete
  <2>2. hand'[n] = Report(k, w)
    BY <2>1 DEF CloudType
  <2>3. ASSUME NEW v \in WorkSpaces, Decided(n, v) PROVE Decided(n, v)'
    <3>1. Followed(n, v)'
      BY <2>1, <2>3, Handling DEF Decided
    <3>2. mem'[n][v] = <<>>
      BY <1>5 DEF StartupComplete, NoDockers, CloudType
    <3>3. row'[n][v] = IF v = w THEN "Pulling" ELSE row[n][v]
      BY <1>5 DEF StartupComplete, Upsert, CloudType
    <3>4. Clean(n, v) => Clean(n, v)'
      BY <3>2, <3>3 DEF Clean, Succeeded
    <3>5. v = w => Clean(n, v)'
      BY <3>2, <3>3 DEF Clean, Succeeded
    <3>6. hand'[n] = Report("complete", v) => WillClean(n, v)'
      <4> SUFFICES ASSUME hand'[n] = Report("complete", v) PROVE WillClean(n, v)'
        OBVIOUS
      <4>1. v = w /\ k = "complete"
        BY <2>2 DEF Report
      <4> QED BY <2>1, <2>3, <4>1, Handling DEF Decided
    <3>7. Clean(n, v)' \/ WillClean(n, v)'
      BY <2>1, <2>3, <3>4, <3>5, Handling DEF Decided
    <3> QED BY <3>1, <3>6, <3>7 DEF Decided
  <2>4. n \in known /\ up[n] # <<>>
    BY <2>1 DEF Heard
  <2> QED BY <1>5, <2>3, <2>4, CloudStep DEF StartupComplete
<1>6. ASSUME NEW w \in WorkSpaces, ComfyUIStartupSuccess(n, w) PROVE NodeInv(n)'
  <2> DEFINE done == {i \in DOMAIN mem[n][w] : mem[n][w][i] = "StartupCompleted"}
  <2>1. ASSUME NEW v \in WorkSpaces, Decided(n, v) PROVE Decided(n, v)'
    <3>1. Clean(n, v) => Clean(n, v)'
      <4> SUFFICES ASSUME Clean(n, v) PROVE Clean(n, v)'
        OBVIOUS
      <4>1. CASE done = {}
        BY <1>6, <4>1 DEF ComfyUIStartupSuccess, Clean
      <4>2. CASE done # {}
        <5>1. /\ mem' = [mem EXCEPT ![n][w] = [@ EXCEPT ![Min(done)] = "StartupSuccess"]]
              /\ row' = Update(n, w, "StartupSuccess")
          BY <1>6, <4>2 DEF ComfyUIStartupSuccess
        <5>2. CASE v = w
          <6>1. row[n][w] = "None"
            BY <4>2, <5>2 DEF Clean, Succeeded
          <6>2. row'[n][w] = "None"
            BY <5>1, <6>1 DEF Update, CloudType
          <6> QED BY <5>2, <6>2 DEF Clean
        <5>3. CASE v # w
          <6> HIDE DEF done
          <6>1. mem'[n][v] = mem[n][v] /\ row'[n][v] = row[n][v]
            BY <5>1, <5>3 DEF Update, CloudType
          <6> QED BY <6>1 DEF Clean
        <5> QED BY <5>2, <5>3
      <4> QED BY <4>1, <4>2
    <3> QED BY <1>a, <1>6, <2>1, <3>1 DEF ComfyUIStartupSuccess
  <2>2. n \in known /\ up[n] # <<>>
    BY <1>6 DEF ComfyUIStartupSuccess, Heard
  <2> QED BY <1>6, <2>1, <2>2, CloudStep DEF ComfyUIStartupSuccess
<1>7. CASE StartupCompleted(n)
  <2> DEFINE w == hand[n].ws
             s == IF hand[n].kind = "complete" THEN "StartupCompleted" ELSE "StartupFailed"
  <2>1. hand[n] \in Reports
    BY <1>7 DEF StartupCompleted, CloudType
  <2>2. w \in WorkSpaces /\ s \in DockerStates
    BY <2>1 DEF Reports, DockerStates
  <2>3. PICK f \in Loaded(n) : mem' = [mem EXCEPT ![n] = [f EXCEPT ![w] = [i \in DOMAIN @ |-> s]]]
    BY <1>7 DEF StartupCompleted
  <2>4. f \in [WorkSpaces -> Seq(DockerStates)]
    BY <2>2, LoadedTyped
  <2>5. /\ row' = Update(n, w, s) /\ UNCHANGED up
        /\ hand' = [hand EXCEPT ![n] = Idle] /\ hand[n] # Idle
    BY <1>7 DEF StartupCompleted
  <2>6. n \in known
    <3>1. Loading(n, w)
      BY <2>2 DEF RowsInv
    <3> QED BY <2>5, <3>1 DEF Loading
  <2>7. hand[n].kind = "complete" => hand[n] = Report("complete", w)
    BY <2>1 DEF Reports, Report
  <2>8. hand[n].kind # "complete" => s = "StartupFailed"
    OBVIOUS
  <2> HIDE DEF s
  <2>9. ASSUME NEW v \in WorkSpaces, Decided(n, v) PROVE Decided(n, v)'
    <3>1. Followed(n, v)' /\ (WillClean(n, v) => WillClean(n, v)')
      BY <2>5, <2>9 DEF Decided, Followed, WillClean
    <3>2. hand'[n] # Report("complete", v)
      BY <2>5 DEF CloudType, Idle, Report
    <3>3. CASE v = w /\ hand[n].kind = "complete"
      BY <2>7, <2>9, <3>1, <3>2, <3>3 DEF Decided
    <3>4. CASE v = w /\ hand[n].kind # "complete"
      <4>1. row'[n][v] \in {"None", "StartupFailed"}
        BY <2>2, <2>5, <2>8, <3>4 DEF Update, CloudType
      <4>2. mem'[n][v] = [i \in DOMAIN f[w] |-> "StartupFailed"]
        BY <2>2, <2>3, <2>4, <2>8, <3>4 DEF CloudType
      <4>3. Clean(n, v)'
        BY <4>1, <4>2 DEF Clean, Succeeded
      <4> QED BY <3>1, <3>2, <4>3 DEF Decided
    <3>5. CASE v # w
      <4>1. mem'[n][v] = f[v] /\ row'[n][v] = row[n][v]
        BY <2>3, <2>4, <2>5, <3>5 DEF Update, CloudType
      <4>2. Clean(n, v) => Clean(n, v)'
        <5> SUFFICES ASSUME Clean(n, v), row[n][v] # "None", NEW i \in DOMAIN f[v]
                     PROVE  row[n][v] \notin Succeeded /\ f[v][i] \notin Succeeded
          BY <4>1 DEF Clean
        <5>1. /\ row[n][v] \in DockerStates \ Succeeded /\ mem[n][v] \in Seq(DockerStates)
              /\ \A j \in DOMAIN mem[n][v] : mem[n][v][j] \in DockerStates \ Succeeded
          <6>1. mem[n][v] \in Seq(DockerStates) /\ row[n][v] \in DockerStates
            BY DEF CloudType
          <6>2. \A j \in DOMAIN mem[n][v] : mem[n][v][j] \in DockerStates
            BY <6>1, LenProperties, ElementOfSeq
          <6> QED BY <6>1, <6>2 DEF Clean
        <5>2. mem[n][v] \in Seq(DockerStates \ Succeeded)
          BY <5>1, Narrowed
        <5>3. <<row[n][v]>> \in Seq(DockerStates \ Succeeded)
          BY <5>1
        <5>4. /\ <<row[n][v]>> \o mem[n][v] \in Seq(DockerStates \ Succeeded)
              /\ mem[n][v] \o <<row[n][v]>> \in Seq(DockerStates \ Succeeded)
          BY <5>2, <5>3, ConcatProperties
        <5>5. \/ f[v] = mem[n][v]
              \/ f[v] \in {<<row[n][v]>> \o mem[n][v], mem[n][v] \o <<row[n][v]>>, <<row[n][v]>>}
          BY LoadedTyped
        <5>6. f[v] \in Seq(DockerStates \ Succeeded)
          BY <5>2, <5>3, <5>4, <5>5
        <5>7. f[v][i] \in DockerStates \ Succeeded
          BY <5>6, LenProperties, ElementOfSeq
        <5> QED BY <5>1, <5>7
      <4> QED BY <2>9, <3>1, <3>2, <4>2 DEF Decided
    <3> QED BY <3>3, <3>4, <3>5
  <2> QED BY <1>7, <2>5, <2>6, <2>9, CloudStep DEF StartupCompleted, lossVars
<1> QED BY <1>1, <1>2, <1>3, <1>4, <1>5, <1>6, <1>7 DEF Transfer

\* An order reaches a node that is linked; only a dispensing that ng-cloud may send matters.
LEMMA Ordered ==
    ASSUME LinkType, NEW n \in Nodes, Dispensable(n), NEW o \in Orders, NEW w \in WorkSpaces,
           Order(n, o, w), o # "dispense" \/ w \notin retired, UNCHANGED retired
    PROVE  Dispensable(n)' /\ (~link[n] => UNCHANGED down)
<1>1. CASE link[n]
  <2> DEFINE e == [order |-> o, ws |-> w]
  <2>1. down[n] \in Seq([order : Orders, ws : WorkSpaces]) /\ e \in [order : Orders, ws : WorkSpaces]
    BY DEF LinkType
  <2>2. down'[n] = Append(down[n], e)
    BY <1>1 DEF Order, LinkType
  <2>3. /\ DOMAIN down[n] = 1..Len(down[n]) /\ Len(down[n]) \in Nat
        /\ DOMAIN down'[n] = 1..(Len(down[n]) + 1)
        /\ \A i \in 1..Len(down[n]) : down'[n][i] = down[n][i]
        /\ down'[n][Len(down[n]) + 1] = e
    BY <2>1, <2>2, AppendProperties, LenProperties
  <2>4. ASSUME NEW i \in DOMAIN down'[n], down'[n][i].order = "dispense"
        PROVE  down'[n][i].ws \notin retired
    <3>1. CASE i \in 1..Len(down[n])
      <4>1. i \in DOMAIN down[n] /\ down'[n][i] = down[n][i]
        BY <2>3, <3>1
      <4> QED BY <2>4, <4>1 DEF Dispensable
    <3>2. CASE i = Len(down[n]) + 1
      <4>1. down'[n][i].order = o /\ down'[n][i].ws = w
        BY <2>3, <3>2
      <4> QED BY <2>4, <4>1
    <3> QED BY <2>3, <3>1, <3>2
  <2> QED BY <1>1, <2>4 DEF Dispensable
<1>2. CASE ~link[n]
  BY <1>2 DEF Order, Dispensable
<1> QED BY <1>1, <1>2

\* What is left on a link that ends, or behind an order that is received, was on it.
LEMMA StillDispensable ==
    ASSUME LinkType, NEW n \in Nodes, Dispensable(n), UNCHANGED retired,
           \/ CutShort(down, n) \/ down'[n] = down[n]
           \/ down[n] # <<>> /\ down' = [down EXCEPT ![n] = Tail(@)]
    PROVE  Dispensable(n)'
<1> DEFINE T == [order : Orders, ws : WorkSpaces]
<1>1. down[n] \in Seq(T)
  BY DEF LinkType
<1> HIDE DEF T
<1>2. ASSUME \A i \in DOMAIN down'[n] : \E j \in DOMAIN down[n] : down'[n][i] = down[n][j]
      PROVE  Dispensable(n)'
  BY <1>2 DEF Dispensable
<1>3. CASE CutShort(down, n)
  <2>1. PICK k \in 0..Len(down[n]) : down' = [down EXCEPT ![n] = SubSeq(@, 1, k)]
    BY <1>3 DEF CutShort
  <2>2. down'[n] = SubSeq(down[n], 1, k)
    BY <2>1 DEF LinkType
  <2> QED BY <1>1, <1>2, <2>2, CutTyped
<1>4. CASE down[n] # <<>> /\ down' = [down EXCEPT ![n] = Tail(@)]
  <2>1. down'[n] = Tail(down[n])
    BY <1>4 DEF LinkType
  <2>2. /\ Len(down[n]) \in Nat /\ DOMAIN down[n] = 1..Len(down[n])
        /\ DOMAIN down'[n] = 1..(Len(down[n]) - 1)
        /\ \A i \in 1..(Len(down[n]) - 1) : down'[n][i] = down[n][i + 1]
    <3>1. /\ Tail(down[n]) \in Seq(T) /\ Len(Tail(down[n])) = Len(down[n]) - 1
          /\ \A i \in 1..Len(Tail(down[n])) : Tail(down[n])[i] = down[n][i + 1]
      BY <1>1, <1>4, HeadTailProperties
    <3>2. Len(down[n]) \in Nat /\ DOMAIN down[n] = 1..Len(down[n])
      BY <1>1, LenProperties
    <3>3. DOMAIN Tail(down[n]) = 1..Len(Tail(down[n]))
      BY <3>1, LenProperties
    <3> QED BY <2>1, <3>1, <3>2, <3>3
  <2>3. ASSUME NEW i \in DOMAIN down'[n]
        PROVE  i + 1 \in DOMAIN down[n] /\ down'[n][i] = down[n][i + 1]
    BY <2>2
  <2> QED BY <1>2, <2>3
<1>5. CASE down'[n] = down[n]
  BY <1>5 DEF Dispensable
<1> QED BY <1>3, <1>4, <1>5

\* What ng-cloud, the operator and the links do to a node.
LEMMA NodeLinks ==
    ASSUME TypeOK, NEW n \in Nodes, NodeInv(n),
           \/ Break(n) \/ DelNode(n)
           \/ \E w \in WorkSpaces : Workspace2Node(n, w) \/ Operate(n, w) \/ ContainerExits(n, w)
    PROVE  NodeInv(n)'
<1> USE TypeParts
<1>1. CASE Break(n)
  <2>1. /\ link[n] /\ ~link'[n] /\ CutShort(down, n)
        /\ UNCHANGED <<start, todo, dockers, retired, starts, known, row>>
    BY <1>1 DEF Break, Ends, Happens, cloudVars, LinkType
  <2>2. Dispensable(n)'
    BY <2>1, StillDispensable DEF NodeInv
  <2>3. start[n] # "New" /\ (starts <= 1 => start[n] # "Dial")
    BY <2>1 DEF NodeInv, New, Dialing, Apart
  <2>4. New(n)' /\ Counted(n)' /\ SetUpInv(n)'
    BY <2>1, <2>3 DEF NodeInv, New, Counted, SetUpInv
  <2>5. starts' <= 1 => Dialing(n)' /\ Linked(n)'
    BY <2>1, <2>3 DEF Dialing, Linked
  <2> QED BY <2>2, <2>4, <2>5 DEF NodeInv
<1>2. CASE DelNode(n)
  <2>1. /\ offlineCh[n] > 0 /\ UNCHANGED <<row, hand, retired, start, todo, dockers, starts>>
        /\ CutShort(down, n) \/ UNCHANGED down
        /\ link'[n] => link[n]
    BY <1>2 DEF DelNode, Ends, bounds, LinkType
  <2>2. Dispensable(n)'
    BY <2>1, StillDispensable DEF NodeInv
  <2>3. start[n] # "New" /\ (starts <= 1 => start[n] # "Dial" /\ ~link[n])
    <3>1. offlineCh[n] # 0
      BY <2>1 DEF LinkType
    <3> QED BY <3>1 DEF NodeInv, New, Dialing, Apart, Linked, Joined
  <2>4. New(n)' /\ Counted(n)' /\ SetUpInv(n)'
    BY <2>1, <2>3 DEF NodeInv, New, Counted, SetUpInv
  <2>5. starts' <= 1 => Dialing(n)' /\ Linked(n)'
    BY <2>1, <2>3 DEF Dialing, Linked
  <2> QED BY <2>2, <2>4, <2>5 DEF NodeInv
<1>3. ASSUME NEW w \in WorkSpaces, Workspace2Node(n, w) PROVE NodeInv(n)'
  <2>1. /\ mem' = [mem EXCEPT ![n][w] = Append(@, "Pulling")] /\ mem[n][w] = <<>>
        /\ Order(n, "dispense", w) /\ n \in known /\ w \notin retired
        /\ UNCHANGED <<known, row, hand, retired, state, start, todo, dockers, lossVars, up, starts>>
    BY <1>3 DEF Workspace2Node, SendDispenseStart, clientVars
  <2>2. "dispense" \in Orders
    BY DEF Orders
  <2>3. Dispensable(n)' /\ (~link[n] => UNCHANGED down)
    BY <2>1, <2>2, Ordered DEF NodeInv
  <2>4. New(n)' /\ Counted(n)' /\ SetUpInv(n)'
    BY <2>1 DEF NodeInv, New, Counted, SetUpInv
  <2>5. ASSUME starts' <= 1 PROVE Dialing(n)' /\ Linked(n)'
    <3>1. Dialing(n) /\ Linked(n)
      BY <2>1, <2>5 DEF NodeInv
    <3>2. Dialing(n)'
      BY <2>1, <2>3, <3>1 DEF Dialing, Apart, lossVars
    <3>3. ASSUME NEW v \in WorkSpaces, Served(n, v) PROVE Served(n, v)'
      BY <2>1, <3>3 DEF Served
    <3>4. ASSUME NEW v \in WorkSpaces, Decided(n, v) PROVE Decided(n, v)'
      <4>1. Clean(n, v) => Clean(n, v)'
        <5>1. CASE v = w
          <6>1. mem'[n][v] = <<"Pulling">>
            BY <2>1, <5>1 DEF CloudType
          <6>2. \A i \in DOMAIN mem'[n][v] : mem'[n][v][i] = "Pulling"
            BY <6>1
          <6> QED BY <2>1, <6>2 DEF Clean, Succeeded
        <5>2. CASE v # w
          <6>1. mem'[n][v] = mem[n][v]
            BY <2>1, <5>2 DEF CloudType
          <6> QED BY <2>1, <6>1 DEF Clean
        <5> QED BY <5>1, <5>2
      <4> QED BY <2>1, <3>4, <4>1 DEF Decided, WillClean, Followed
    <3>5. Joined(n) => Joined(n)'
      BY <2>1 DEF Joined, lossVars
    <3> QED BY <2>1, <3>1, <3>2, <3>3, <3>4, <3>5 DEF Linked, lossVars
  <2> QED BY <2>3, <2>4, <2>5 DEF NodeInv
<1>4. ASSUME NEW w \in WorkSpaces, Operate(n, w) PROVE NodeInv(n)'
  <2>1. /\ UNCHANGED <<cloudVars, start, todo, dockers, lossVars, up, starts>>
        /\ Order(n, "start", w) \/ Order(n, "delete", w)
    BY <1>4 DEF Operate, Happens, clientVars
  <2>2. "start" \in Orders /\ "delete" \in Orders
    BY DEF Orders
  <2>3. Dispensable(n)' /\ (~link[n] => UNCHANGED down)
    BY <2>1, <2>2, Ordered DEF NodeInv, cloudVars
  <2>4. New(n)' /\ Counted(n)' /\ SetUpInv(n)'
    BY <2>1, <2>3 DEF NodeInv, New, Apart, Counted, SetUpInv, cloudVars, lossVars
  <2>5. ASSUME starts' <= 1 PROVE Dialing(n)' /\ Linked(n)'
    <3>1. Dialing(n) /\ Linked(n)
      BY <2>1, <2>5 DEF NodeInv
    <3>2. Dialing(n)'
      BY <2>1, <2>3, <3>1 DEF Dialing, Apart, cloudVars, lossVars
    <3>3. ASSUME NEW v \in WorkSpaces, Served(n, v) PROVE Served(n, v)'
      BY <2>1, <3>3 DEF Served
    <3>4. ASSUME NEW v \in WorkSpaces, Decided(n, v) PROVE Decided(n, v)'
      BY <2>1, <3>4 DEF Decided, Clean, WillClean, Followed, cloudVars
    <3>5. Joined(n) => Joined(n)'
      BY <2>1 DEF Joined, cloudVars, lossVars
    <3> QED BY <2>1, <3>1, <3>2, <3>3, <3>4, <3>5 DEF Linked, lossVars
  <2> QED BY <2>3, <2>4, <2>5 DEF NodeInv
<1>5. ASSUME NEW w \in WorkSpaces, ContainerExits(n, w) PROVE NodeInv(n)'
  <2>1. UNCHANGED <<cloudVars, start, todo, dockers, lossVars, up, down, starts>>
    BY <1>5 DEF ContainerExits, Happens
  <2> QED BY <2>1, NodeFrame DEF cloudVars, lossVars, CountType
<1> QED BY <1>1, <1>2, <1>3, <1>4, <1>5

\* A docker takes the place of another one of the same workspace.
LEMMA DockerReplaced ==
    ASSUME ClientType, NEW n \in Nodes, NEW i \in DOMAIN dockers[n], NEW e \in DockerType,
           e.ws = dockers[n][i].ws, e.listed = dockers[n][i].listed, e.exit = dockers[n][i].exit,
           Becomes(n, i, e), UNCHANGED todo
    PROVE  /\ \A v : v # e.ws /\ Served(n, v) => Served(n, v)'
           /\ Working(e) => Served(n, e.ws)'
           /\ (Working(dockers[n][i]) => Working(e)) /\ Served(n, e.ws) => Served(n, e.ws)'
           /\ (\A j \in DOMAIN dockers[n] : dockers[n][j].listed /\ ~dockers[n][j].exit)
              => \A j \in DOMAIN dockers'[n] : dockers'[n][j].listed /\ ~dockers'[n][j].exit
<1>1. /\ DOMAIN dockers'[n] = DOMAIN dockers[n] /\ dockers'[n][i] = e
      /\ \A j \in DOMAIN dockers[n] : j # i => dockers'[n][j] = dockers[n][j]
  BY DEF Becomes, ClientType
<1>2. ASSUME NEW v, v # e.ws, Served(n, v) PROVE Served(n, v)'
  BY <1>1, <1>2 DEF Served
<1>3. Working(e) => Served(n, e.ws)'
  BY <1>1 DEF Served
<1>4. ASSUME Working(dockers[n][i]) => Working(e), Served(n, e.ws) PROVE Served(n, e.ws)'
  BY <1>1, <1>4 DEF Served
<1>5. ASSUME \A j \in DOMAIN dockers[n] : dockers[n][j].listed /\ ~dockers[n][j].exit
      PROVE  \A j \in DOMAIN dockers'[n] : dockers'[n][j].listed /\ ~dockers'[n][j].exit
  BY <1>1, <1>5
<1> QED BY <1>2, <1>3, <1>4, <1>5

\* A docker is added.
LEMMA DockerAdded ==
    ASSUME ClientType, NEW n \in Nodes, NEW e \in DockerType, e.listed, ~e.exit,
           dockers' = [dockers EXCEPT ![n] = Append(@, e)],
           \A v \in WorkSpaces : v # e.ws => todo'[n][v] = todo[n][v]
    PROVE  /\ \A v \in WorkSpaces : v # e.ws /\ Served(n, v) => Served(n, v)'
           /\ Working(e) => Served(n, e.ws)'
           /\ (\A j \in DOMAIN dockers[n] : dockers[n][j].listed /\ ~dockers[n][j].exit)
              => \A j \in DOMAIN dockers'[n] : dockers'[n][j].listed /\ ~dockers'[n][j].exit
<1>1. dockers[n] \in Seq(DockerType) /\ dockers'[n] = Append(dockers[n], e)
  BY DEF ClientType
<1> DEFINE l == Len(dockers[n])
<1>2. /\ l \in Nat /\ DOMAIN dockers[n] = 1..l /\ DOMAIN dockers'[n] = 1..(l + 1)
      /\ \A j \in 1..l : dockers'[n][j] = dockers[n][j]
      /\ dockers'[n][l + 1] = e
  BY <1>1, AppendProperties, LenProperties
<1> HIDE DEF l
<1>3. /\ \A j \in DOMAIN dockers[n] : j \in DOMAIN dockers'[n] /\ dockers'[n][j] = dockers[n][j]
      /\ l + 1 \in DOMAIN dockers'[n]
      /\ \A j \in DOMAIN dockers'[n] : j \in DOMAIN dockers[n] \/ j = l + 1
  BY <1>2
<1>4. ASSUME NEW v \in WorkSpaces, v # e.ws, Served(n, v) PROVE Served(n, v)'
  <2>1. CASE todo[n][v] # <<>>
    BY <1>4, <2>1 DEF Served
  <2>2. CASE todo[n][v] = <<>>
    BY <1>3, <1>4, <2>2 DEF Served
  <2> QED BY <2>1, <2>2
<1>5. Working(e) => Served(n, e.ws)'
  BY <1>2, <1>3 DEF Served
<1>6. ASSUME \A j \in DOMAIN dockers[n] : dockers[n][j].listed /\ ~dockers[n][j].exit
      PROVE  \A j \in DOMAIN dockers'[n] : dockers'[n][j].listed /\ ~dockers'[n][j].exit
  BY <1>2, <1>3, <1>6
<1> QED BY <1>4, <1>5, <1>6

\* A client that is connected sets up a workspace or changes one of its dockers, and reports.
LEMMA ClientStep ==
    ASSUME TypeOK, NEW n \in Nodes, Linked(n), NEW w \in WorkSpaces, NEW reports \in Seq(Reports),
           \A k \in DOMAIN reports : reports[k].ws = w,
           link[n] /\ n \in known => up'[n] = up[n] \o reports,
           UNCHANGED <<cloudVars, lossVars, start>>,
           (\A j \in DOMAIN dockers[n] : dockers[n][j].listed /\ ~dockers[n][j].exit)
              => \A j \in DOMAIN dockers'[n] : dockers'[n][j].listed /\ ~dockers'[n][j].exit,
           \A v \in WorkSpaces : v # w /\ Served(n, v) => Served(n, v)',
           \/ Served(n, w)'
           \/ reports # <<>> /\ Cleans(reports[Len(reports)], w)
           \/ /\ Served(n, w) => Served(n, w)'
              /\ \A k \in DOMAIN reports : reports[k].kind # "complete"
    PROVE  Linked(n)'
<1> USE TypeParts
<1> SUFFICES ASSUME link[n] PROVE Linked(n)'
  BY DEF Linked, lossVars
<1>1. Joined(n) /\ \A v \in WorkSpaces : Served(n, v) \/ Decided(n, v)
  BY DEF Linked
<1>2. Joined(n)'
  BY <1>1 DEF Joined, cloudVars, lossVars
<1>3. up'[n] = up[n] \o reports
  BY <1>1 DEF Joined
<1>4. mem'[n] = mem[n] /\ row'[n] = row[n] /\ hand'[n] = hand[n]
  BY DEF cloudVars
<1>5. ASSUME NEW v \in WorkSpaces
      PROVE  /\ v # w /\ Decided(n, v) => Decided(n, v)'
             /\ v = w /\ reports # <<>> /\ Cleans(reports[Len(reports)], w) => Decided(n, v)'
             /\ v = w /\ (\A k \in DOMAIN reports : reports[k].kind # "complete") /\ Decided(n, v)
                => Decided(n, v)'
  BY <1>3, <1>4, Reporting
<1>6. ASSUME NEW v \in WorkSpaces PROVE Served(n, v)' \/ Decided(n, v)'
  <2>1. CASE v # w
    BY <1>1, <1>5, <2>1
  <2>2. CASE v = w
    BY <1>1, <1>5, <2>2
  <2> QED BY <2>1, <2>2
<1> QED BY <1>2, <1>6 DEF Linked

\* A single report of a workspace, and what is reported with a container or a start-up.
LEMMA OneReport ==
    ASSUME NEW w, NEW k
    PROVE  /\ \A j \in DOMAIN <<Report(k, w)>> : <<Report(k, w)>>[j].ws = w
           /\ <<Report(k, w)>> # <<>>
           /\ k \notin {"complete", "comfyUI"} =>
                 Cleans(<<Report(k, w)>>[Len(<<Report(k, w)>>)], w)
<1> DEFINE r == Report(k, w)
<1>1. r.ws = w /\ r.kind = k
  BY DEF Report
<1> HIDE DEF r
<1>2. \A j \in DOMAIN <<r>> : <<r>>[j].ws = w
  BY <1>1
<1>3. <<r>> # <<>> /\ <<r>>[Len(<<r>>)] = r
  OBVIOUS
<1> QED BY <1>1, <1>2, <1>3 DEF r, Cleans

\* What deleteImage reports decides the workspace; the two reports of a completed start-up
\* are about it.
LEMMA ReportsOf ==
    ASSUME NEW w
    PROVE  /\ \A j \in DOMAIN Removed(w) : Removed(w)[j].ws = w
           /\ Removed(w) # <<>> /\ Cleans(Removed(w)[Len(Removed(w))], w)
           /\ \A j \in DOMAIN <<Report("complete", w), Report("complete", w)>> :
                 <<Report("complete", w), Report("complete", w)>>[j].ws = w
<1>1. /\ \A j \in DOMAIN Removed(w) : Removed(w)[j].ws = w
      /\ Removed(w) # <<>> /\ Cleans(Removed(w)[Len(Removed(w))], w)
  BY DEF Removed, Report, Cleans
<1>2. \A j \in DOMAIN <<Report("complete", w), Report("complete", w)>> :
         <<Report("complete", w), Report("complete", w)>>[j].ws = w
  BY DEF Report
<1> QED BY <1>1, <1>2

\* All that SetDocker reports is about the workspace of the docker.
LEMMA WayReports ==
    ASSUME NEW n, NEW d, NEW s, NEW r, Ways(n, d, s, r)
    PROVE  \A k \in DOMAIN r.reports : r.reports[k].ws = d.ws
<1>1. \/ r.reports = Removed(d.ws) \/ r.reports = <<Report("complete", d.ws)>>
      \/ r.reports = <<Report("noContainer", d.ws)>> \/ r.reports = <<>>
  BY Zenon DEF Ways
<1>2. CASE r.reports = Removed(d.ws)
  BY <1>2, ReportsOf
<1>3. CASE r.reports = <<Report("complete", d.ws)>>
  BY <1>3, OneReport
<1>4. CASE r.reports = <<Report("noContainer", d.ws)>>
  BY <1>4, OneReport
<1>5. CASE r.reports = <<>>
  BY <1>5
<1> QED BY <1>1, <1>2, <1>3, <1>4, <1>5

\* The goroutine of a docker, or an event of its plug-in.
LEMMA NodeDocker ==
    ASSUME TypeOK, NEW n \in Nodes, NodeInv(n), NEW i, CheckTicker(n, i) \/ ComfyUIEvent(n, i)
    PROVE  NodeInv(n)'
<1> USE TypeParts
<1> DEFINE d == dockers[n][i]
<1>0. i \in DOMAIN dockers[n] /\ UNCHANGED dockerFrame
  BY DEF CheckTicker, StartupContainer, ReportStartup, ExecDockerCompose, WaitStartup,
         TakeDelDocker, TakeExit, Selects, ComfyUIEvent
<1>x. d \in DockerType /\ d.ws \in WorkSpaces
  BY <1>0, DockerTyped DEF DockerType
<1>y. PICK w \in WorkSpaces : w = d.ws
  BY <1>x
<1>1. d \in DockerType /\ w \in WorkSpaces /\ d.ws = w
  BY <1>x, <1>y
<1>2. {"startup", "failed", "incomplete", "noDocker", "comfyUI"} \subseteq Kinds
  BY DEF Kinds
<1>a. ASSUME starts <= 1 /\ Linked(n) => Linked(n)'
      PROVE  NodeInv(n)'
  <2>1. dockers[n] # <<>>
    BY <1>0
  <2>2. start[n] # "New" /\ (starts <= 1 => start[n] # "Dial")
    BY <2>1 DEF NodeInv, New, Dialing, Apart
  <2>3. New(n)' /\ Counted(n)' /\ SetUpInv(n)' /\ Dispensable(n)'
    BY <1>0, <2>2 DEF NodeInv, New, Counted, SetUpInv, Dispensable, dockerFrame, bounds, cloudVars
  <2>4. starts' <= 1 => Dialing(n)' /\ Linked(n)'
    BY <1>0, <1>a, <2>2 DEF NodeInv, Dialing, dockerFrame, bounds
  <2> QED BY <2>3, <2>4 DEF NodeInv
<1>b. ASSUME NEW e \in DockerType, e.ws = w, e.listed = d.listed, e.exit = d.exit, Becomes(n, i, e),
             NEW reports \in Seq(Reports), \A k \in DOMAIN reports : reports[k].ws = w,
             link[n] /\ n \in known => up'[n] = up[n] \o reports,
             \/ Working(e)
             \/ reports # <<>> /\ Cleans(reports[Len(reports)], w)
             \/ (Working(d) => Working(e)) /\ reports = <<>>
      PROVE  NodeInv(n)'
  <2>1. /\ \A v : v # e.ws /\ Served(n, v) => Served(n, v)'
        /\ Working(e) => Served(n, e.ws)'
        /\ (Working(d) => Working(e)) /\ Served(n, e.ws) => Served(n, e.ws)'
        /\ (\A j \in DOMAIN dockers[n] : dockers[n][j].listed /\ ~dockers[n][j].exit)
           => \A j \in DOMAIN dockers'[n] : dockers'[n][j].listed /\ ~dockers'[n][j].exit
    BY <1>0, <1>1, <1>b, DockerReplaced DEF dockerFrame
  <2>2. UNCHANGED <<cloudVars, lossVars, start>>
    BY <1>0 DEF dockerFrame
  <2>3. \/ Served(n, w)'
        \/ reports # <<>> /\ Cleans(reports[Len(reports)], w)
        \/ /\ Served(n, w) => Served(n, w)'
           /\ \A k \in DOMAIN reports : reports[k].kind # "complete"
    <3>1. CASE Working(e)
      BY <1>b, <2>1, <3>1
    <3>2. CASE reports # <<>> /\ Cleans(reports[Len(reports)], w)
      BY <3>2
    <3>3. CASE (Working(d) => Working(e)) /\ reports = <<>>
      <4>1. Served(n, w) => Served(n, w)'
        BY <1>b, <2>1, <3>3
      <4> QED BY <3>3, <4>1
    <3> QED BY <1>b, <3>1, <3>2, <3>3
  <2>4. Linked(n) => Linked(n)'
    BY <1>1, <1>b, <2>1, <2>2, <2>3, ClientStep
  <2> QED BY <1>a, <2>4
<1>c. ASSUME NEW reports \in Seq(Reports), Sent(n, reports)
      PROVE  link[n] /\ n \in known => up'[n] = up[n] \o reports
  BY <1>c, SentTyped DEF LinkType
<1>d. ASSUME NEW k \in Kinds, k \notin {"complete", "comfyUI"}, Sent(n, <<Report(k, w)>>),
             NEW e \in DockerType, e.ws = w, e.listed = d.listed, e.exit = d.exit, Becomes(n, i, e)
      PROVE  NodeInv(n)'
  <2> DEFINE reports == <<Report(k, w)>>
  <2>1. reports \in Seq(Reports)
    BY <1>1, ReportsTyped
  <2>2. /\ \A j \in DOMAIN reports : reports[j].ws = w
        /\ reports # <<>> /\ Cleans(reports[Len(reports)], w)
    BY <1>d, OneReport
  <2>3. link[n] /\ n \in known => up'[n] = up[n] \o reports
    BY <1>c, <1>d, <2>1
  <2> HIDE DEF reports
  <2> QED BY <1>b, <1>d, <2>1, <2>2, <2>3
<1>4. CASE StartupContainer(n, i)
  <2> DEFINE c == [d EXCEPT !.signal = IF @ = "start" THEN "report" ELSE "None"]
             e == Starts(c)
  <2>1. Becomes(n, i, e) /\ UNCHANGED up /\ d.pc = "Select" /\ d.signal \in {"dispense", "start"}
    BY <1>4 DEF StartupContainer, Selects
  <2>2. /\ c \in DockerType /\ c.ws = d.ws /\ c.listed = d.listed /\ c.exit = d.exit
        /\ c.mode = d.mode /\ c.cmds = d.cmds /\ c.pc = d.pc /\ c.dels = d.dels /\ c.plugIn = d.plugIn
        /\ c.signal = IF d.signal = "start" THEN "report" ELSE "None"
    BY <1>1 DEF DockerType
  <2> HIDE DEF c
  <2>3. e \in DockerType /\ e.ws = w /\ e.listed = d.listed /\ e.exit = d.exit
    BY <1>1, <2>2, StartsTyped DEF Starts, DockerType
  <2>4. Working(d) => Working(e)
    <3>1. CASE c.mode = "Compose" /\ c.cmds > 0
      <4>1. e.pc = "Exec"
        BY <2>2, <3>1 DEF Starts, DockerType
      <4> QED BY <4>1 DEF Working
    <3>2. CASE ~(c.mode = "Compose" /\ c.cmds > 0)
      <4>1. e = c
        BY <3>2 DEF Starts
      <4> QED BY <2>1, <2>2, <3>2, <4>1 DEF Working
    <3> QED BY <3>1, <3>2
  <2>5. <<>> \in Seq(Reports) /\ up'[n] = up[n] \o <<>>
    <3>1. up[n] \in Seq(Reports)
      BY DEF LinkType
    <3> QED BY <2>1, <3>1, ConcatEmptySeq, EmptySeq
  <2> HIDE DEF e
  <2>6. \A k \in DOMAIN <<>> : <<>>[k].ws = w
    OBVIOUS
  <2> QED BY <1>b, <2>1, <2>3, <2>4, <2>5, <2>6
<1>5. CASE ReportStartup(n, i)
  <2> DEFINE e == [d EXCEPT !.signal = "None"]
  <2>1. e \in DockerType /\ e.ws = w /\ e.listed = d.listed /\ e.exit = d.exit
    BY <1>1 DEF DockerType
  <2>2. Becomes(n, i, e) /\ Sent(n, <<Report("startup", w)>>)
    BY <1>1, <1>5 DEF ReportStartup
  <2> HIDE DEF e
  <2> QED BY <1>2, <1>d, <2>1, <2>2
<1>e. LET e == NextCMD(d)
      IN  e \in DockerType /\ e.ws = w /\ e.listed = d.listed /\ e.exit = d.exit
  BY <1>1, NextTyped DEF NextCMD, DockerType
<1>6. CASE ExecDockerCompose(n, i)
  <2>1. CASE Becomes(n, i, NextCMD(d)) /\ Sent(n, <<Report("failed", w)>>)
    BY <1>2, <1>d, <1>e, <2>1
  <2>2. CASE Becomes(n, i, [d EXCEPT !.pc = "Wait"]) /\ Sent(n, <<Report("startup", w)>>)
    <3> DEFINE e == [d EXCEPT !.pc = "Wait"]
    <3>1. e \in DockerType /\ e.ws = w /\ e.listed = d.listed /\ e.exit = d.exit
      BY <1>1 DEF DockerType
    <3>2. Becomes(n, i, e)
      BY <2>2
    <3> HIDE DEF e
    <3> QED BY <1>2, <1>d, <2>2, <3>1, <3>2
  <2> QED BY <1>1, <1>6, <2>1, <2>2 DEF ExecDockerCompose
<1>7. CASE WaitStartup(n, i)
  <2>1. CASE Becomes(n, i, NextCMD(d)) /\ Sent(n, <<Report("incomplete", w)>>)
    BY <1>2, <1>d, <1>e, <2>1
  <2>2. CASE /\ Becomes(n, i, [d EXCEPT !.pc = "Select", !.at = 0, !.plugIn = TRUE])
             /\ Sent(n, <<Report("complete", w), Report("complete", w)>>)
    <3> DEFINE e       == [d EXCEPT !.pc = "Select", !.at = 0, !.plugIn = TRUE]
               reports == <<Report("complete", w), Report("complete", w)>>
    <3>1. e \in DockerType /\ e.ws = w /\ e.listed = d.listed /\ e.exit = d.exit /\ e.plugIn
      <4>1. 0 \in 0..MaxCMDs
        BY WorkspacesAssumption
      <4> QED BY <1>1, <4>1 DEF DockerType
    <3>2. reports \in Seq(Reports) /\ \A k \in DOMAIN reports : reports[k].ws = w
      BY <1>1, ReportsTyped, ReportsOf
    <3>3. Becomes(n, i, e) /\ Sent(n, reports)
      BY <2>2
    <3> HIDE DEF e, reports
    <3>4. Working(e)
      BY <3>1 DEF Working
    <3> QED BY <1>b, <1>c, <3>1, <3>2, <3>3, <3>4
  <2> QED BY <1>1, <1>7, <2>1, <2>2 DEF WaitStartup
<1>8. CASE TakeDelDocker(n, i)
  <2> DEFINE e == [DeleteImage(d) EXCEPT !.dels = @ - 1]
  <2>1. e \in DockerType /\ e.ws = w /\ e.listed = d.listed /\ e.exit = d.exit
    <3>1. /\ DeleteImage(d) \in DockerType /\ DeleteImage(d).dels = d.dels
          /\ DeleteImage(d).ws = d.ws /\ DeleteImage(d).listed = d.listed
          /\ DeleteImage(d).exit = d.exit /\ d.dels \in Nat /\ d.dels > 0
      BY <1>1, <1>8, DeletedTyped DEF TakeDelDocker, DeleteImage, DockerType
    <3>2. d.dels - 1 \in Nat
      BY <3>1
    <3> QED BY <1>1, <3>1, <3>2 DEF DockerType
  <2>2. Becomes(n, i, e) /\ Sent(n, <<Report("noDocker", w)>>)
    BY <1>1, <1>8 DEF TakeDelDocker
  <2> HIDE DEF e
  <2> QED BY <1>2, <1>d, <2>1, <2>2
<1>9. CASE TakeExit(n, i)
  <2>1. d.exit /\ UNCHANGED link
    BY <1>9 DEF TakeExit, dockerFrame, lossVars
  <2>2. Linked(n) => ~link[n]
    BY <1>0, <2>1 DEF Linked, Joined
  <2>3. Linked(n) => Linked(n)'
    BY <2>1, <2>2 DEF Linked
  <2> QED BY <1>a, <2>3
<1>10. CASE ComfyUIEvent(n, i)
  <2>1. d.plugIn /\ UNCHANGED dockers /\ Sent(n, <<Report("comfyUI", w)>>)
    BY <1>1, <1>10 DEF ComfyUIEvent
  <2>2. Becomes(n, i, d)
    BY <2>1 DEF Becomes, ClientType
  <2>3. <<Report("comfyUI", w)>> \in Seq(Reports)
    BY <1>1, <1>2, ReportsTyped
  <2>4. Working(d)
    BY <2>1 DEF Working
  <2>5. \A k \in DOMAIN <<Report("comfyUI", w)>> : <<Report("comfyUI", w)>>[k].ws = w
    BY OneReport
  <2> QED BY <1>1, <1>b, <1>c, <2>1, <2>2, <2>3, <2>4, <2>5
<1> QED BY <1>4, <1>5, <1>6, <1>7, <1>8, <1>9, <1>10 DEF CheckTicker

\* Node.start of a client: a node that starts for the first time has everything to set up.
LEMMA NodeStart ==
    ASSUME TypeOK, NEW n \in Nodes, NodeInv(n), Start(n)
    PROVE  NodeInv(n)'
<1> USE TypeParts
<1>a. ASSUME MayStart(n), start'[n] # "New", start'[n] = "Done" => UNCHANGED todo,
             UNCHANGED <<row, hand, retired, dockers, lossVars, up, down>>,
             start'[n] \in {"Done", "Dial"},
             start'[n] = "Dial" /\ Apart(n) /\ n \notin known =>
                n \in known' /\ \A w \in WorkSpaces : todo'[n][w] = <<>> => row[n][w] = "None"
      PROVE  NodeInv(n)'
  <2>1. starts' = starts + 1 /\ starts \in Nat /\ start[n] \in {"New", "Done"}
    BY <1>a DEF MayStart, CountType
  <2>2. New(n)' /\ Counted(n)' /\ Dispensable(n)'
    BY <1>a, <2>1 DEF NodeInv, New, Counted, Dispensable
  <2>3. SetUpInv(n)'
    BY <1>a, <2>1 DEF NodeInv, SetUpInv
  <2>4. ASSUME starts' <= 1 PROVE Dialing(n)' /\ Linked(n)'
    <3>1. starts = 0
      BY <2>1, <2>4
    <3>2. Apart(n) /\ n \notin known
      BY <3>1 DEF NodeInv, Counted, New
    <3>3. Apart(n)' /\ ~link'[n]
      BY <1>a, <3>2 DEF Apart, lossVars
    <3> QED BY <1>a, <3>2, <3>3 DEF Dialing, Linked
  <2> QED BY <2>2, <2>3, <2>4 DEF NodeInv
<1>1. CASE ValidateFails(n)
  <2>1. start'[n] = "Done"
    BY <1>1 DEF ValidateFails, ClientType
  <2> QED BY <1>1, <1>a, <2>1 DEF ValidateFails, cloudVars
<1>2. CASE EnrollFails(n)
  <2>1. start'[n] = "Done"
    BY <1>2 DEF EnrollFails, ClientType
  <2> QED BY <1>2, <1>a, <2>1 DEF EnrollFails
<1>3. CASE Enroll(n)
  <2>1. start'[n] = "Dial" /\ todo'[n] = mem'[n] /\ n \in known'
    BY <1>3 DEF Enroll, AddNode, ClientType
  <2>2. ASSUME n \notin known, NEW w \in WorkSpaces, todo'[n][w] = <<>>
        PROVE  row[n][w] = "None"
    <3>1. todo'[n][w] = IF row[n][w] = "None" THEN <<>> ELSE <<row[n][w]>>
      BY <1>3, <2>1, <2>2 DEF Enroll, AddNode, RowsOf, CloudType
    <3> QED BY <2>2, <3>1
  <2> QED BY <1>3, <1>a, <2>1, <2>2 DEF Enroll
<1>b. ASSUME start[n] \in {"Dial", "Connect", "SetUp"}, start'[n] \in {"Connect", "SetUp", "Done"},
             UNCHANGED <<cloudVars, down, bounds>>, SetUpInv(n)',
             starts <= 1 => Linked(n)'
      PROVE  NodeInv(n)'
  <2>1. New(n)' /\ Counted(n)' /\ Dispensable(n)'
    BY <1>b DEF NodeInv, New, Counted, Dispensable, bounds, cloudVars
  <2>2. Dialing(n)'
    BY <1>b DEF Dialing
  <2> QED BY <1>b, <2>1, <2>2 DEF NodeInv, bounds
<1>4. CASE StartClient(n)
  <2>1. /\ start[n] = "Dial" /\ start'[n] \in {"Connect", "SetUp"}
        /\ UNCHANGED <<cloudVars, todo, dockers, offlineCh, lost, up, down, bounds>>
    BY <1>4 DEF StartClient, ClientType
  <2>2. SetUpInv(n)'
    BY <2>1 DEF SetUpInv
  <2>3. ASSUME starts <= 1 PROVE Linked(n)'
    <3>1. Apart(n) /\ n \in known /\ \A w \in WorkSpaces : todo[n][w] = <<>> => row[n][w] = "None"
      BY <2>1, <2>3 DEF NodeInv, Dialing
    <3>2. Joined(n)'
      BY <2>1, <3>1 DEF Joined, Apart, cloudVars
    <3>3. ASSUME NEW w \in WorkSpaces PROVE Served(n, w)' \/ Decided(n, w)'
      <4>1. CASE todo[n][w] # <<>>
        BY <2>1, <4>1 DEF Served
      <4>2. CASE todo[n][w] = <<>>
        <5>1. row'[n][w] = "None" /\ up'[n] = <<>> /\ hand'[n] = Idle
          BY <2>1, <3>1, <4>2 DEF Apart, cloudVars
        <5>2. hand'[n] # Report("complete", w)
          BY <5>1 DEF Idle, Report
        <5> QED BY <5>1, <5>2 DEF Decided, Clean, Followed
      <4> QED BY <4>1, <4>2
    <3> QED BY <3>2, <3>3 DEF Linked
  <2> QED BY <1>b, <2>1, <2>2, <2>3
<1>c. ASSUME start[n] \notin {"New", "Dial"}, start'[n] \notin {"New", "Dial"}, Linked(n),
             UNCHANGED <<cloudVars, todo, dockers, lossVars, up>>
      PROVE  Linked(n)'
  <2>1. Joined(n) => Joined(n)'
    BY <1>c DEF Joined, cloudVars, lossVars
  <2>2. ASSUME NEW v \in WorkSpaces, Served(n, v) PROVE Served(n, v)'
    BY <1>c, <2>2 DEF Served
  <2>3. ASSUME NEW v \in WorkSpaces, Decided(n, v) PROVE Decided(n, v)'
    BY <1>c, <2>3 DEF Decided, Clean, WillClean, Followed, cloudVars
  <2> QED BY <1>c, <2>1, <2>2, <2>3 DEF Linked, lossVars
<1>5. CASE Connected(n)
  <2>1. start[n] = "Connect" /\ start'[n] = "SetUp"
    BY <1>5 DEF Connected, ClientType
  <2>2. SetUpInv(n)'
    BY <2>1 DEF SetUpInv
  <2> QED BY <1>5, <1>b, <1>c, <2>1, <2>2 DEF Connected, NodeInv
<1>6. CASE Started(n)
  <2>1. start[n] = "SetUp" /\ start'[n] = "Done" /\ todo[n] = NoDockers /\ UNCHANGED todo
    BY <1>6 DEF Started, ClientType
  <2>2. SetUpInv(n)'
    BY <2>1 DEF SetUpInv
  <2> QED BY <1>6, <1>b, <1>c, <2>1, <2>2 DEF Started, NodeInv
<1>7. ASSUME NEW w \in WorkSpaces, SetUp(n, w) PROVE NodeInv(n)'
  <2> DEFINE d0 == NewNodeDocker(w)
             s0 == Head(todo[n][w])
  <2>1. PICK r \in SetDocker(n, d0, s0) :
          /\ dockers' = [dockers EXCEPT ![n] =
                Append(@, IF r.docker.signal = "None" THEN r.docker
                          ELSE Starts([r.docker EXCEPT !.signal = "None"]))]
          /\ container' = [container EXCEPT ![n][w] = r.left]
          /\ Sent(n, r.reports)
    BY <1>7 DEF SetUp
  <2>2. d0 \in DockerType /\ d0.ws = w /\ d0.listed /\ ~d0.exit /\ d0.signal = "None"
    BY NewDockerTyped DEF NewNodeDocker
  <2> HIDE DEF d0
  <2>3. /\ r.docker \in DockerType /\ r.reports \in Seq(Reports)
        /\ r.docker.ws = w /\ r.docker.listed /\ ~r.docker.exit
    BY <2>1, <2>2, SetDockerTyped DEF ClientType
  <2> DEFINE c == [r.docker EXCEPT !.signal = "None"]
             e == IF r.docker.signal = "None" THEN r.docker ELSE Starts(c)
  <2>4. /\ c \in DockerType /\ c.ws = w /\ c.listed /\ ~c.exit
        /\ c.mode = r.docker.mode /\ c.cmds = r.docker.cmds
    BY <2>3 DEF DockerType
  <2> HIDE DEF c
  <2>5. e \in DockerType /\ e.ws = w /\ e.listed /\ ~e.exit
    <3>1. /\ Starts(c) \in DockerType /\ Starts(c).ws = w /\ Starts(c).listed /\ ~Starts(c).exit
      BY <2>4, StartsTyped DEF Starts, DockerType
    <3> QED BY <2>3, <3>1
  <2>6. dockers' = [dockers EXCEPT ![n] = Append(@, e)]
    BY <2>1 DEF c
  <2>7. \/ Working(e)
        \/ r.reports # <<>> /\ Cleans(r.reports[Len(r.reports)], w)
    <3>1. Ways(n, d0, s0, r)
      BY <2>1, SetDockerWays
    <3>2. CASE r.reports = Removed(w)
      BY <3>2, ReportsOf
    <3>3. CASE r.docker = [Configured(d0) EXCEPT !.plugIn = TRUE]
      <4>1. Configured(d0) \in DockerType /\ Configured(d0).signal = "None"
        <5>1. Configured(d0).signal = d0.signal
          BY <2>2 DEF Configured, DockerType
        <5> QED BY <2>2, <5>1, ConfiguredDocker
      <4>2. r.docker.plugIn /\ r.docker.signal = "None"
        BY <3>3, <4>1 DEF DockerType
      <4> QED BY <4>2 DEF Working
    <3>4. CASE r.docker \in {Signalled(d0), [Signalled(d0) EXCEPT !.plugIn = FALSE]}
      <4>1. /\ Signalled(d0) \in DockerType /\ Signalled(d0).signal = "dispense"
            /\ Signalled(d0).mode = "Compose" /\ Signalled(d0).cmds > 0
        BY <2>2, SignalledDocker
      <4>2. r.docker.signal = "dispense" /\ r.docker.mode = "Compose" /\ r.docker.cmds > 0
        BY <3>4, <4>1 DEF DockerType
      <4>3. e = Starts(c) /\ Starts(c).pc = "Exec"
        BY <2>4, <4>2 DEF Starts, DockerType
      <4> QED BY <4>3 DEF Working
    <3> QED BY <2>2, <3>1, <3>2, <3>3, <3>4 DEF Ways
  <2> HIDE DEF e
  <2>8. PICK e1 \in DockerType : e1 = e
    BY <2>5
  <2>9. \A v \in WorkSpaces : v # w => todo'[n][v] = todo[n][v]
    BY <1>7 DEF SetUp, ClientType
  <2>10. /\ \A v \in WorkSpaces : v # w /\ Served(n, v) => Served(n, v)'
         /\ Working(e1) => Served(n, w)'
         /\ (\A j \in DOMAIN dockers[n] : dockers[n][j].listed /\ ~dockers[n][j].exit)
            => \A j \in DOMAIN dockers'[n] : dockers'[n][j].listed /\ ~dockers'[n][j].exit
    <3>1. /\ e1.ws = w /\ e1.listed /\ ~e1.exit
          /\ dockers' = [dockers EXCEPT ![n] = Append(@, e1)]
      BY <2>5, <2>6, <2>8
    <3>2. /\ \A v \in WorkSpaces : v # e1.ws /\ Served(n, v) => Served(n, v)'
          /\ Working(e1) => Served(n, e1.ws)'
          /\ (\A j \in DOMAIN dockers[n] : dockers[n][j].listed /\ ~dockers[n][j].exit)
             => \A j \in DOMAIN dockers'[n] : dockers'[n][j].listed /\ ~dockers'[n][j].exit
      BY <2>9, <3>1, DockerAdded
    <3> QED BY <3>1, <3>2
  <2>11. link[n] /\ n \in known => up'[n] = up[n] \o r.reports
    BY <2>1, <2>3, SentTyped DEF LinkType
  <2>12. \A k \in DOMAIN r.reports : r.reports[k].ws = w
    BY <2>1, <2>2, SetDockerWays, WayReports
  <2>13. Linked(n) => Linked(n)'
    <3>1. UNCHANGED <<cloudVars, lossVars, start>>
      BY <1>7 DEF SetUp
    <3> QED BY <2>3, <2>7, <2>8, <2>10, <2>11, <2>12, <3>1, ClientStep
  <2>14. start[n] = "SetUp" /\ UNCHANGED <<start, cloudVars, down, bounds>>
    BY <1>7 DEF SetUp
  <2>15. New(n)' /\ Counted(n)' /\ Dispensable(n)' /\ SetUpInv(n)' /\ Dialing(n)'
    BY <2>14 DEF NodeInv, New, Counted, Dispensable, SetUpInv, Dialing, bounds, cloudVars
  <2> QED BY <2>13, <2>14, <2>15 DEF NodeInv, bounds
<1> QED BY <1>1, <1>2, <1>3, <1>4, <1>5, <1>6, <1>7 DEF Start

\* Node.recv of a client. A workspace that was dispensed is not one that was deleted.
LEMMA NodeRecv ==
    ASSUME TypeOK, NEW n \in Nodes, NodeInv(n), Recv(n)
    PROVE  NodeInv(n)'
<1> USE TypeParts
<1>1. dockers[n] \in Seq(DockerType)
  BY DEF ClientType
<1>2. ASSUME NEW o, NEW w, Receive(n, o, w)
      PROVE  /\ Dispensable(n)' \/ retired' # retired
             /\ o = "dispense" => w \notin retired
             /\ start[n] # "New" /\ (starts <= 1 => start[n] # "Dial")
  <2>1. down[n] # <<>> /\ Head(down[n]) = [order |-> o, ws |-> w] /\ down' = [down EXCEPT ![n] = Tail(@)]
    BY <1>2 DEF Receive
  <2>2. Dispensable(n)' \/ retired' # retired
    BY <2>1, StillDispensable DEF NodeInv
  <2>3. 1 \in DOMAIN down[n] /\ Head(down[n]) = down[n][1]
    BY <2>1, HeadInRange DEF LinkType
  <2>4. o = "dispense" => w \notin retired
    BY <2>1, <2>3 DEF NodeInv, Dispensable
  <2>5. start[n] # "New" /\ (starts <= 1 => start[n] # "Dial")
    BY <2>1 DEF NodeInv, New, Dialing, Apart
  <2> QED BY <2>2, <2>4, <2>5
<1>3. ASSUME NEW w, FindDocker(n, w) # {}
      PROVE  /\ Min(FindDocker(n, w)) \in DOMAIN dockers[n]
             /\ dockers[n][Min(FindDocker(n, w))].ws = w
             /\ dockers[n][Min(FindDocker(n, w))].listed
  <2>1. DOMAIN dockers[n] = 1..Len(dockers[n]) /\ Len(dockers[n]) \in Nat
    BY <1>1, LenProperties
  <2>2. FindDocker(n, w) \in SUBSET Nat
    BY <2>1 DEF FindDocker
  <2>3. Min(FindDocker(n, w)) \in FindDocker(n, w)
    BY <1>3, <2>2, SmallestExists
  <2> QED BY <2>3 DEF FindDocker
<1>4. ASSUME NEW o, NEW w, Receive(n, o, w), UNCHANGED <<cloudVars, start, todo, lossVars, bounds>>,
             starts <= 1 /\ Linked(n) => Linked(n)'
      PROVE  NodeInv(n)'
  <2>1. Dispensable(n)' /\ start[n] # "New" /\ (starts <= 1 => start[n] # "Dial")
    BY <1>2, <1>4 DEF cloudVars
  <2>2. New(n)' /\ Counted(n)' /\ SetUpInv(n)'
    BY <1>4, <2>1 DEF NodeInv, New, Counted, SetUpInv, bounds
  <2>3. starts' <= 1 => Dialing(n)' /\ Linked(n)'
    BY <1>4, <2>1 DEF NodeInv, Dialing, bounds
  <2> QED BY <2>1, <2>2, <2>3 DEF NodeInv
<1>5. ASSUME NEW w \in WorkSpaces, DispenseStart(n, w) PROVE NodeInv(n)'
  <2> DEFINE found == FindDocker(n, w)
             i     == IF found = {} THEN Len(dockers[n]) + 1 ELSE Min(found)
             d     == IF found = {} THEN NewNodeDocker(w) ELSE dockers[n][i]
  <2>1. PICK r \in SetDocker(n, d, "None") :
          /\ dockers' = [dockers EXCEPT ![n] = IF found = {} THEN Append(@, r.docker)
                                               ELSE [@ EXCEPT ![i] = r.docker]]
          /\ Sent(n, r.reports)
    BY <1>5 DEF DispenseStart
  <2>2. d \in DockerType /\ d.ws = w /\ d.listed
    <3>1. CASE found = {}
      BY <3>1, NewDockerTyped DEF NewNodeDocker
    <3>2. CASE found # {}
      BY <1>3, <3>2, DockerTyped
    <3> QED BY <3>1, <3>2
  <2>3. found = {} => ~d.exit
    BY DEF NewNodeDocker
  <2>4. found # {} => i \in DOMAIN dockers[n] /\ d = dockers[n][i]
    BY <1>3
  <2> HIDE DEF d, i
  <2>5. Ways(n, d, "None", r)
    BY <2>1, SetDockerWays
  <2>6. /\ r.docker \in DockerType /\ r.reports \in Seq(Reports)
        /\ r.docker.ws = w /\ r.docker.listed = d.listed /\ r.docker.exit = d.exit
    <3>1. container \in [Nodes -> [WorkSpaces -> {"None", "Running", "Exited"}]]
      BY DEF ClientType
    <3>2. r \in SetDocker(n, d, "None") /\ d \in DockerType
      BY <2>1, <2>2
    <3>3. /\ r.docker \in DockerType /\ r.reports \in Seq(Reports)
          /\ r.docker.ws = d.ws /\ r.docker.listed = d.listed /\ r.docker.exit = d.exit
      BY <3>1, <3>2, SetDockerTyped
    <3> QED BY <2>2, <3>3
  <2>7. Receive(n, "dispense", w) /\ UNCHANGED <<cloudVars, start, todo, lossVars, bounds>>
    BY <1>5 DEF DispenseStart
  <2>8. w \notin retired
    BY <1>2, <2>7
  <2>9. Working(r.docker)
    <3>1. \/ r.docker = [Configured(d) EXCEPT !.plugIn = TRUE] \/ r.docker = Signalled(d)
      BY <2>2, <2>5, <2>8 DEF Ways
    <3>2. CASE r.docker = [Configured(d) EXCEPT !.plugIn = TRUE]
      <4>1. Configured(d) \in DockerType
        BY <2>2, ConfiguredDocker
      <4>2. r.docker.plugIn
        BY <3>2, <4>1 DEF DockerType
      <4> QED BY <4>2 DEF Working
    <3>3. CASE r.docker = Signalled(d)
      BY <2>2, <3>3, SignalledDocker DEF Working
    <3> QED BY <3>1, <3>2, <3>3
  <2>10. /\ \A v \in WorkSpaces : v # w /\ Served(n, v) => Served(n, v)'
         /\ Served(n, w)'
         /\ (\A j \in DOMAIN dockers[n] : dockers[n][j].listed /\ ~dockers[n][j].exit)
            => \A j \in DOMAIN dockers'[n] : dockers'[n][j].listed /\ ~dockers'[n][j].exit
    <3>1. CASE found = {}
      <4>1. dockers' = [dockers EXCEPT ![n] = Append(@, r.docker)]
        BY <2>1, <3>1
      <4>2. r.docker.listed /\ ~r.docker.exit /\ UNCHANGED todo
        BY <2>2, <2>3, <2>6, <2>7, <3>1
      <4>3. /\ \A v \in WorkSpaces : v # r.docker.ws /\ Served(n, v) => Served(n, v)'
            /\ Working(r.docker) => Served(n, r.docker.ws)'
            /\ (\A j \in DOMAIN dockers[n] : dockers[n][j].listed /\ ~dockers[n][j].exit)
               => \A j \in DOMAIN dockers'[n] : dockers'[n][j].listed /\ ~dockers'[n][j].exit
        BY <2>6, <4>1, <4>2, DockerAdded
      <4> QED BY <2>6, <2>9, <4>3
    <3>2. CASE found # {}
      <4>0. PICK k \in DOMAIN dockers[n] : k = i
        BY <2>4, <3>2
      <4>1. Becomes(n, k, r.docker) /\ UNCHANGED todo
        BY <2>1, <2>7, <3>2, <4>0 DEF Becomes
      <4>2. /\ r.docker.ws = dockers[n][k].ws /\ r.docker.listed = dockers[n][k].listed
            /\ r.docker.exit = dockers[n][k].exit
        BY <2>2, <2>4, <2>6, <3>2, <4>0
      <4>3. /\ \A v : v # r.docker.ws /\ Served(n, v) => Served(n, v)'
            /\ Working(r.docker) => Served(n, r.docker.ws)'
            /\ (\A j \in DOMAIN dockers[n] : dockers[n][j].listed /\ ~dockers[n][j].exit)
               => \A j \in DOMAIN dockers'[n] : dockers'[n][j].listed /\ ~dockers'[n][j].exit
        BY <2>6, <4>1, <4>2, DockerReplaced
      <4> QED BY <2>6, <2>9, <4>3
    <3> QED BY <3>1, <3>2
  <2>11. link[n] /\ n \in known => up'[n] = up[n] \o r.reports
    BY <2>1, <2>6, SentTyped DEF LinkType
  <2>12. \A k \in DOMAIN r.reports : r.reports[k].ws = w
    BY <2>2, <2>5, WayReports
  <2>13. Linked(n) => Linked(n)'
    BY <2>6, <2>7, <2>10, <2>11, <2>12, ClientStep
  <2> QED BY <1>4, <2>7, <2>13
<1>6. ASSUME NEW o, NEW w \in WorkSpaces, Receive(n, o, w),
             UNCHANGED <<cloudVars, start, todo, lossVars, bounds>>,
             NEW reports \in Seq(Reports), \A k \in DOMAIN reports : reports[k].ws = w,
             \A k \in DOMAIN reports : reports[k].kind # "complete",
             link[n] /\ n \in known => up'[n] = up[n] \o reports,
             NEW i \in DOMAIN dockers[n], NEW e \in DockerType, dockers[n][i].ws = w, e.ws = w,
             e.listed = dockers[n][i].listed, e.exit = dockers[n][i].exit, Working(e), Becomes(n, i, e)
      PROVE  NodeInv(n)'
  <2>1. /\ \A v : v # w /\ Served(n, v) => Served(n, v)'
        /\ Served(n, w)'
        /\ (\A j \in DOMAIN dockers[n] : dockers[n][j].listed /\ ~dockers[n][j].exit)
           => \A j \in DOMAIN dockers'[n] : dockers'[n][j].listed /\ ~dockers'[n][j].exit
    <3>1. /\ \A v : v # e.ws /\ Served(n, v) => Served(n, v)'
          /\ Working(e) => Served(n, e.ws)'
          /\ (\A j \in DOMAIN dockers[n] : dockers[n][j].listed /\ ~dockers[n][j].exit)
             => \A j \in DOMAIN dockers'[n] : dockers'[n][j].listed /\ ~dockers'[n][j].exit
      BY <1>6, DockerReplaced
    <3> QED BY <1>6, <3>1
  <2>2. Linked(n) => Linked(n)'
    BY <1>6, <2>1, ClientStep
  <2> QED BY <1>4, <1>6, <2>2
<1>7. ASSUME NEW w \in WorkSpaces, NEW o, Receive(n, o, w), UNCHANGED <<dockers, up>>,
             UNCHANGED <<cloudVars, start, todo, lossVars, bounds>>
      PROVE  NodeInv(n)'
  <2>1. Joined(n) => Joined(n)'
    BY <1>7 DEF Joined, cloudVars, lossVars
  <2>2. ASSUME NEW v \in WorkSpaces, Served(n, v) PROVE Served(n, v)'
    BY <1>7, <2>2 DEF Served
  <2>3. ASSUME NEW v \in WorkSpaces, Decided(n, v) PROVE Decided(n, v)'
    BY <1>7, <2>3 DEF Decided, Clean, WillClean, Followed, cloudVars
  <2>4. Linked(n) => Linked(n)'
    BY <1>7, <2>1, <2>2, <2>3 DEF Linked, lossVars
  <2> QED BY <1>4, <1>7, <2>4
<1>8. ASSUME NEW w \in WorkSpaces, StartupDocker(n, w) PROVE NodeInv(n)'
  <2>1. /\ Receive(n, "start", w) /\ UNCHANGED up
        /\ UNCHANGED <<cloudVars, start, todo, lossVars, bounds>>
    BY <1>8 DEF StartupDocker
  <2>2. CASE FindDocker(n, w) = {}
    BY <1>7, <1>8, <2>1, <2>2 DEF StartupDocker
  <2>3. CASE FindDocker(n, w) # {}
    <3>1. PICK i \in DOMAIN dockers[n] : i = Min(FindDocker(n, w)) /\ dockers[n][i].ws = w
      BY <1>3, <2>3
    <3>2. dockers[n][i] \in DockerType
      BY DockerTyped
    <3>3. PICK e \in DockerType : e = [dockers[n][i] EXCEPT !.signal = "start"]
      BY <3>2 DEF DockerType
    <3>4. /\ e.ws = w /\ e.listed = dockers[n][i].listed /\ e.exit = dockers[n][i].exit
          /\ e.signal = "start"
      BY <3>1, <3>2, <3>3 DEF DockerType
    <3>5. Becomes(n, i, e)
      BY <1>8, <2>3, <3>1, <3>3 DEF StartupDocker, Becomes
    <3>6. Working(e)
      BY <3>4 DEF Working
    <3>7. up'[n] = up[n] \o <<>> /\ <<>> \in Seq(Reports)
      <4>1. up[n] \in Seq(Reports)
        BY DEF LinkType
      <4> QED BY <2>1, <4>1, ConcatEmptySeq, EmptySeq
    <3>8. \A k \in DOMAIN <<>> : <<>>[k].ws = w /\ <<>>[k].kind # "complete"
      OBVIOUS
    <3> QED BY <1>6, <2>1, <3>1, <3>4, <3>5, <3>6, <3>7, <3>8
  <2> QED BY <2>2, <2>3
<1>9. ASSUME NEW w \in WorkSpaces, DeleteDockerOrder(n, w) PROVE NodeInv(n)'
  <2>1. Receive(n, "delete", w) /\ UNCHANGED <<cloudVars, start, todo, lossVars, bounds>>
    BY <1>9 DEF DeleteDockerOrder
  <2>2. CASE FindDocker(n, w) = {}
    BY <1>7, <1>9, <2>1, <2>2 DEF DeleteDockerOrder
  <2>3. CASE FindDocker(n, w) # {}
    <3>1. PICK i \in DOMAIN dockers[n] : i = Min(FindDocker(n, w)) /\ dockers[n][i].ws = w
      BY <1>3, <2>3
    <3>2. dockers[n][i] \in DockerType
      BY DockerTyped
    <3>3. PICK e \in DockerType : e = [dockers[n][i] EXCEPT !.dels = @ + 1]
      <4>1. dockers[n][i].dels \in Nat
        BY <3>2 DEF DockerType
      <4>2. dockers[n][i].dels + 1 \in Nat
        BY <4>1
      <4>3. [dockers[n][i] EXCEPT !.dels = @ + 1] \in DockerType
        BY <3>2, <4>2 DEF DockerType
      <4> QED BY <4>3
    <3>4. /\ e.ws = w /\ e.listed = dockers[n][i].listed /\ e.exit = dockers[n][i].exit
          /\ e.dels > 0
      BY <3>1, <3>2, <3>3 DEF DockerType
    <3>5. Becomes(n, i, e) /\ Sent(n, <<Report("noDocker", w)>>)
      BY <1>9, <2>3, <3>1, <3>3 DEF DeleteDockerOrder, Becomes
    <3>6. Working(e)
      BY <3>4 DEF Working
    <3> DEFINE reports == <<Report("noDocker", w)>>
    <3>7. reports \in Seq(Reports)
      BY ReportsTyped DEF Kinds
    <3>8. \A k \in DOMAIN reports : reports[k].ws = w /\ reports[k].kind # "complete"
      BY DEF Report
    <3>9. link[n] /\ n \in known => up'[n] = up[n] \o reports
      BY <3>5, <3>7, SentTyped DEF LinkType
    <3> HIDE DEF reports
    <3> QED BY <1>6, <2>1, <3>1, <3>4, <3>5, <3>6, <3>7, <3>8, <3>9
  <2> QED BY <2>2, <2>3
<1>10. CASE Offline(n)
  <2>1. /\ lost[n] > 0 /\ UNCHANGED <<cloudVars, start, todo, bounds>> /\ ~link'[n]
        /\ CutShort(down, n) \/ UNCHANGED down
    BY <1>10 DEF Offline, LinkType
  <2>2. start[n] # "New" /\ (starts <= 1 => start[n] # "Dial")
    <3>1. lost[n] # 0
      BY <2>1 DEF LinkType
    <3> QED BY <3>1 DEF NodeInv, New, Dialing, Apart
  <2>3. Dispensable(n)'
    BY <2>1, StillDispensable DEF NodeInv, cloudVars
  <2>4. New(n)' /\ Counted(n)' /\ SetUpInv(n)'
    BY <2>1, <2>2 DEF NodeInv, New, Counted, SetUpInv, bounds
  <2>5. starts' <= 1 => Dialing(n)' /\ Linked(n)'
    BY <2>1, <2>2 DEF Dialing, Linked, bounds
  <2> QED BY <2>3, <2>4, <2>5 DEF NodeInv
<1> QED BY <1>5, <1>8, <1>9, <1>10 DEF Recv

\* A step of one node, or of ng-cloud for it, touches no other node.
LEMMA Elsewhere ==
    ASSUME TypeOK, NEW n \in Nodes, NEW m \in Nodes, m # n,
           \/ Transfer(n) \/ Break(n) \/ DelNode(n) \/ Start(n) \/ Recv(n)
           \/ \E w \in WorkSpaces : Workspace2Node(n, w) \/ Operate(n, w) \/ ContainerExits(n, w)
           \/ \E i \in 1..MaxDockers : CheckTicker(n, i) \/ ComfyUIEvent(n, i)
    PROVE  NodeInv(m) => NodeInv(m)'
<1> USE TypeParts
<1> DEFINE Same ==
      /\ mem'[m] = mem[m] /\ row'[m] = row[m] /\ hand'[m] = hand[m]
      /\ offlineCh'[m] = offlineCh[m] /\ lost'[m] = lost[m] /\ link'[m] = link[m] /\ up'[m] = up[m]
      /\ down'[m] = down[m] /\ start'[m] = start[m] /\ todo'[m] = todo[m]
      /\ dockers'[m] = dockers[m] /\ retired' = retired /\ (m \in known' <=> m \in known)
      /\ starts \in Nat /\ starts' \in {starts, starts + 1}
<1>1. starts \in Nat
  BY DEF CountType
<1>2. \A reports : Sent(n, reports) => up'[m] = up[m]
  BY DEF Sent, LinkType
<1>3. (CutShort(up, n) => up'[m] = up[m]) /\ (CutShort(down, n) => down'[m] = down[m])
  BY DEF CutShort, LinkType
<1>4. \A o, w : Order(n, o, w) => down'[m] = down[m]
  BY DEF Order, LinkType
<1>5. CASE Transfer(n)
  <2>1. UNCHANGED <<known, retired, clientVars, lossVars, down, bounds>>
    BY <1>5 DEF Transfer, StartupWorkSpace, StartupFail, DeleteContainer, DeleteDocker,
                StartupComplete, ComfyUIStartupSuccess, StartupCompleted
  <2>2. up'[m] = up[m] /\ hand'[m] = hand[m]
    BY <1>5 DEF Transfer, StartupWorkSpace, StartupFail, DeleteContainer, DeleteDocker,
                StartupComplete, ComfyUIStartupSuccess, StartupCompleted, Heard, LinkType, CloudType
  <2>3. row'[m] = row[m]
    BY <1>5 DEF Transfer, StartupWorkSpace, StartupFail, DeleteContainer, DeleteDocker,
                StartupComplete, ComfyUIStartupSuccess, StartupCompleted, StartWorkSpace,
                Upsert, Update, DelWorkSpace, CloudType
  <2>4. mem'[m] = mem[m]
    BY <1>5 DEF Transfer, StartupWorkSpace, StartupFail, DeleteContainer, DeleteDocker,
                StartupComplete, ComfyUIStartupSuccess, StartupCompleted, Marked, CloudType
  <2>5. Same
    BY <1>1, <2>1, <2>2, <2>3, <2>4 DEF clientVars, lossVars, bounds
  <2> QED BY <2>5, NodeFrame
<1>6. CASE Break(n)
  <2>1. Same
    BY <1>1, <1>3, <1>6 DEF Break, Ends, Happens, cloudVars, LinkType, ClientType
  <2> QED BY <2>1, NodeFrame
<1>7. CASE DelNode(n)
  <2>1. mem'[m] = mem[m] /\ up'[m] = up[m] /\ (m \in known' <=> m \in known)
    BY <1>7 DEF DelNode, CloudType, LinkType
  <2>2. offlineCh'[m] = offlineCh[m] /\ lost'[m] = lost[m] /\ link'[m] = link[m] /\ down'[m] = down[m]
    BY <1>3, <1>7 DEF DelNode, Ends, LinkType
  <2>3. Same
    BY <1>1, <1>7, <2>1, <2>2 DEF DelNode, bounds
  <2> QED BY <2>3, NodeFrame
<1>8. CASE Start(n)
  <2>1. mem'[m] = mem[m] /\ (m \in known' <=> m \in known) /\ UNCHANGED <<row, hand, retired>>
    BY <1>8 DEF Start, ValidateFails, Enroll, EnrollFails, AddNode, StartClient, Connected, Started,
                SetUp, cloudVars, CloudType
  <2>2. offlineCh'[m] = offlineCh[m] /\ lost'[m] = lost[m] /\ link'[m] = link[m] /\ down'[m] = down[m]
    BY <1>8 DEF Start, ValidateFails, Enroll, EnrollFails, StartClient, Connected, Started,
                SetUp, lossVars, LinkType
  <2>3. up'[m] = up[m]
    BY <1>2, <1>8 DEF Start, ValidateFails, Enroll, EnrollFails, StartClient, Connected, Started, SetUp
  <2>4. start'[m] = start[m] /\ todo'[m] = todo[m]
    BY <1>8 DEF Start, ValidateFails, Enroll, EnrollFails, StartClient, Connected, Started, SetUp,
                ClientType
  <2>5. dockers'[m] = dockers[m]
    BY <1>8 DEF Start, ValidateFails, Enroll, EnrollFails, StartClient, Connected, Started, SetUp,
                ClientType
  <2>6. starts' \in {starts, starts + 1}
    BY <1>8 DEF Start, ValidateFails, Enroll, EnrollFails, StartClient, Connected, Started, SetUp,
                MayStart, bounds
  <2>7. Same
    BY <1>1, <2>1, <2>2, <2>3, <2>4, <2>5, <2>6
  <2> QED BY <2>7, NodeFrame
<1>9. CASE Recv(n)
  <2>1. UNCHANGED <<cloudVars, start, todo, bounds>>
    BY <1>9 DEF Recv, DispenseStart, StartupDocker, DeleteDockerOrder, Offline
  <2>2. offlineCh'[m] = offlineCh[m] /\ lost'[m] = lost[m] /\ link'[m] = link[m]
    BY <1>9 DEF Recv, DispenseStart, StartupDocker, DeleteDockerOrder, Offline, lossVars, LinkType
  <2>3. down'[m] = down[m]
    BY <1>3, <1>9 DEF Recv, DispenseStart, StartupDocker, DeleteDockerOrder, Offline, Receive, LinkType
  <2>4. up'[m] = up[m]
    BY <1>2, <1>3, <1>9 DEF Recv, DispenseStart, StartupDocker, DeleteDockerOrder, Offline
  <2>5. dockers'[m] = dockers[m]
    BY <1>9 DEF Recv, DispenseStart, StartupDocker, DeleteDockerOrder, Offline, ClientType
  <2>6. Same
    BY <1>1, <2>1, <2>2, <2>3, <2>4, <2>5 DEF cloudVars, bounds
  <2> QED BY <2>6, NodeFrame
<1>10. ASSUME NEW w \in WorkSpaces, Workspace2Node(n, w) PROVE NodeInv(m) => NodeInv(m)'
  <2>1. Same
    BY <1>1, <1>4, <1>10 DEF Workspace2Node, SendDispenseStart, clientVars, lossVars, CloudType
  <2> QED BY <2>1, NodeFrame
<1>11. ASSUME NEW w \in WorkSpaces, Operate(n, w) PROVE NodeInv(m) => NodeInv(m)'
  <2>1. Same
    BY <1>1, <1>4, <1>11 DEF Operate, Happens, cloudVars, clientVars, lossVars
  <2> QED BY <2>1, NodeFrame
<1>12. ASSUME NEW w \in WorkSpaces, ContainerExits(n, w) PROVE NodeInv(m) => NodeInv(m)'
  <2>1. Same
    BY <1>1, <1>12 DEF ContainerExits, Happens, cloudVars, lossVars
  <2> QED BY <2>1, NodeFrame
<1>13. ASSUME NEW i, CheckTicker(n, i) \/ ComfyUIEvent(n, i) PROVE NodeInv(m) => NodeInv(m)'
  <2>1. UNCHANGED dockerFrame
    BY <1>13 DEF CheckTicker, StartupContainer, ReportStartup, ExecDockerCompose, WaitStartup,
                 TakeDelDocker, TakeExit, ComfyUIEvent
  <2>2. up'[m] = up[m]
    BY <1>2, <1>13 DEF CheckTicker, StartupContainer, ReportStartup, ExecDockerCompose, WaitStartup,
                       TakeDelDocker, TakeExit, ComfyUIEvent
  <2>3. dockers'[m] = dockers[m]
    BY <1>13 DEF CheckTicker, StartupContainer, ReportStartup, ExecDockerCompose, WaitStartup,
                 TakeDelDocker, TakeExit, ComfyUIEvent, Becomes, ClientType
  <2>4. Same
    BY <1>1, <2>1, <2>2, <2>3 DEF dockerFrame, cloudVars, lossVars, bounds
  <2> QED BY <2>4, NodeFrame
<1> QED BY <1>5, <1>6, <1>7, <1>8, <1>9, <1>10, <1>11, <1>12, <1>13

\* Every step keeps the invariant of every node.
LEMMA UsableStep == TypeOK /\ RowsInv /\ UsableInv /\ [Next]_vars => UsableInv'
<1> SUFFICES ASSUME TypeOK, RowsInv, UsableInv, [Next]_vars, NEW m \in Nodes PROVE NodeInv(m)'
  BY DEF UsableInv
<1>1. NodeInv(m)
  BY DEF UsableInv
<1>2. CASE Next
  <2>1. PICK n \in Nodes :
          \/ Transfer(n) \/ Break(n) \/ DelNode(n) \/ Start(n) \/ Recv(n)
          \/ \E w \in WorkSpaces : Workspace2Node(n, w) \/ Operate(n, w) \/ ContainerExits(n, w)
          \/ \E i \in 1..MaxDockers : CheckTicker(n, i) \/ ComfyUIEvent(n, i)
    BY <1>2, Zenon DEF Next
  <2>2. CASE m # n
    BY <1>1, <2>1, <2>2, Elsewhere, Zenon
  <2>3. CASE m = n
    <3>1. NodeInv(n)
      BY <1>1, <2>3
    <3>2. NodeInv(n)'
      BY <2>1, <3>1, NodeTransfer, NodeLinks, NodeStart, NodeRecv, NodeDocker, Zenon
    <3> QED BY <2>3, <3>2
  <2> QED BY <2>2, <2>3
<1>3. CASE UNCHANGED vars
  <2>1. starts \in Nat
    BY DEF TypeOK
  <2> QED BY <1>1, <1>3, <2>1, NodeFrame DEF vars, cloudVars, clientVars, lossVars, bounds
<1> QED BY <1>2, <1>3

\* As long as no client has started twice, a docker that ng-cloud takes for usable has its
\* plug-in or is at work on it: Usable.
THEOREM UsableDockersAreServed == Spec => []Usable
<1>1. Init => UsableInv
  <2> SUFFICES ASSUME Init, NEW n \in Nodes PROVE NodeInv(n)
    BY DEF UsableInv
  <2>1. Apart(n) /\ n \notin known /\ todo[n] = NoDockers /\ start[n] = "New" /\ ~link[n]
    BY DEF Init, Apart
  <2>2. Dispensable(n)
    BY DEF Init, Dispensable
  <2> QED BY <2>1, <2>2 DEF NodeInv, New, SetUpInv, Counted, Dialing, Linked
<1>2. TypeOK /\ UsableInv => Usable
  <2> SUFFICES ASSUME TypeOK, UsableInv, starts <= 1, NEW n \in Nodes, NEW w \in WorkSpaces,
                      Settled(n), row[n][w] # "None", "StartupSuccess" \in Range(mem[n][w])
               PROVE  \E i \in FindDocker(n, w) : dockers[n][i].plugIn \/ Busy(dockers[n][i])
    BY Zenon DEF Usable
  <2>1. Joined(n) /\ (Served(n, w) \/ Decided(n, w)) /\ SetUpInv(n)
    BY DEF UsableInv, NodeInv, Linked, Settled
  <2>2. todo[n][w] = <<>>
    BY <2>1 DEF SetUpInv, Settled, NoDockers
  <2>3. ~Decided(n, w)
    <3>1. \E j \in DOMAIN mem[n][w] : mem[n][w][j] = "StartupSuccess"
      BY DEF Range
    <3>2. ~Clean(n, w)
      BY <3>1 DEF Clean, Succeeded
    <3>3. ~WillClean(n, w)
      BY DEF Settled, WillClean
    <3> QED BY <3>2, <3>3 DEF Decided
  <2>4. PICK i \in DOMAIN dockers[n] : dockers[n][i].ws = w /\ Working(dockers[n][i])
    BY <2>1, <2>2, <2>3 DEF Served
  <2>5. i \in FindDocker(n, w)
    BY <2>1, <2>4 DEF Joined, FindDocker
  <2>6. dockers[n][i].plugIn \/ Busy(dockers[n][i])
    BY <2>4 DEF Working, Busy
  <2> QED BY <2>5, <2>6
<1>3. Init => RowsInv
  BY DEF Init, RowsInv, Agrees, Loading, NoDockers
<1> QED BY <1>1, <1>2, <1>3, InitTypes, TypeStep, RowsStep, UsableStep, PTL DEF Spec

=============================================================================
