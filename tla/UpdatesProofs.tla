--------------------------- MODULE UpdatesProofs ---------------------------
(***************************************************************************)
(* Proofs about Updates: the types, and that ng_client is started among    *)
(* the files that were listed.                                             *)
(***************************************************************************)
EXTENDS Updates, TLAPS

\* A version written to a file leaves one of the contents there are.
LEMMA WrittenTyped ==
    ASSUME NEW v \in 1..Versions, NEW w \in Contents
    PROVE  Written(v, w) \subseteq Contents /\ Cut(v, w) \in Contents
BY UpdatesAssumption DEF Written, Cut, Contents, Torn, None

\* Written over nothing, or over itself, a version is whole.
LEMMA WrittenWhole ==
    ASSUME NEW v \in 1..Versions, NEW w \in {None, v}
    PROVE  Written(v, w) = {v}
BY UpdatesAssumption DEF Written, Torn, None

\* TypeOK holds on a machine that was never updated.
LEMMA UpdatesInit == Init => TypeOK
<1>1. None \in Listed /\ None \in Contents /\ 1 \in 1..Versions /\ 1 \in Listed
  BY UpdatesAssumption DEF Listed, Contents, None, Torn
<1>2. 0 \in 0..MaxFaults
  BY UpdatesAssumption
<1> QED BY <1>1, <1>2 DEF Init, TypeOK, NoFiles

\* Every step of the server, of ng_update and every fault keeps the types.
LEMMA UpdatesTypeStep == TypeOK /\ [Next]_vars => TypeOK'
<1> SUFFICES ASSUME TypeOK, [Next]_vars PROVE TypeOK'
  OBVIOUS
<1> USE DEF TypeOK, cloudVars, updateVars, clientVars
<1>1. None \in Listed /\ None \in Contents /\ Torn \in Contents
      /\ 1..Versions \subseteq Listed /\ Listed \subseteq Contents
  BY UpdatesAssumption DEF Listed, Contents, None, Torn
<1>2. Fault => faults' \in 0..MaxFaults
  BY UpdatesAssumption DEF Fault
<1>3. ASSUME NEW f \in Files, Release(f) PROVE TypeOK'
  <2>1. disk[f] + 1 \in 1..Versions
    BY <1>3, UpdatesAssumption DEF Release
  <2> QED BY <1>3, <2>1 DEF Release
<1>4. ASSUME GenerateUpdate PROVE TypeOK'
  BY <1>1, <1>4 DEF GenerateUpdate, NoFiles
<1>5. ASSUME NEW f \in Files, ComputeMD5(f) PROVE TypeOK'
  BY <1>1, <1>5 DEF ComputeMD5
<1>6. ASSUME CreateClientUpdate PROVE TypeOK'
  BY <1>1, <1>2, <1>6 DEF CreateClientUpdate, NoFiles
<1>7. ASSUME SaveResults PROVE TypeOK'
  BY <1>7 DEF SaveResults
<1>8. ASSUME HttpPostFails PROVE TypeOK'
  BY <1>2, <1>8 DEF HttpPostFails
<1>9. ASSUME HttpPost PROVE TypeOK'
  BY <1>9 DEF HttpPost
<1>10. ASSUME ParseFiles PROVE TypeOK'
  BY <1>1, <1>10 DEF ParseFiles
<1>11. ASSUME NEW f \in Files, DownloadFails(f) PROVE TypeOK'
  BY <1>2, <1>11 DEF DownloadFails, Downloads
<1>12. ASSUME NEW f \in Files, DownloadFile(f) PROVE TypeOK'
  <2>1. PICK c \in Written(disk[f], local[f]) : local' = [local EXCEPT ![f] = c]
    BY <1>12 DEF DownloadFile
  <2>2. c \in Contents
    BY <2>1, WrittenTyped
  <2>3. local' \in [Files -> Contents]
    BY <2>1, <2>2
  <2> QED BY <1>12, <2>3 DEF DownloadFile, Downloads
<1>13. ASSUME NEW f \in Files, DownloadCut(f) PROVE TypeOK'
  <2>1. Cut(disk[f], local[f]) \in Contents
    BY WrittenTyped
  <2>2. local' \in [Files -> Contents]
    BY <1>13, <2>1 DEF DownloadCut
  <2> QED BY <1>2, <1>13, <2>2 DEF DownloadCut, Downloads
<1>14. ASSUME Start PROVE TypeOK'
  <2>1. client' \in Contents /\ busy' \in BOOLEAN
    BY <1>14, UpdatesAssumption DEF Start
  <2> QED BY <1>14, <2>1 DEF Start
<1>15. ASSUME PowerOff PROVE TypeOK'
  <2>1. local' \in [Files -> Contents]
    <3>1. ASSUME NEW f \in wanted, local' = [local EXCEPT ![f] = Cut(disk[f], @)]
          PROVE  local' \in [Files -> Contents]
      <4>1. Cut(disk[f], local[f]) \in Contents
        BY WrittenTyped
      <4> QED BY <3>1, <4>1
    <3> QED BY <1>15, <3>1 DEF PowerOff
  <2> QED BY <1>1, <1>2, <1>15, <2>1 DEF PowerOff
<1>16. ASSUME UNCHANGED vars PROVE TypeOK'
  BY <1>16 DEF vars
<1> QED
  BY <1>3, <1>4, <1>5, <1>6, <1>7, <1>8, <1>9, <1>10, <1>11, <1>12, <1>13, <1>14, <1>15, <1>16
  DEF Next, Generator, Updater

\* Every variable keeps its type, for any number of files and versions.
THEOREM UpdatesTypeCorrect == Spec => []TypeOK
BY UpdatesInit, UpdatesTypeStep, PTL DEF Spec

-----------------------------------------------------------------------------
(***************************************************************************)
(* Why the files are right. While a run downloads, a listed file that is   *)
(* still wanted is missing or right already, because parseFiles removed    *)
(* the others: no tail of an older content can survive the write that does *)
(* not truncate.                                                           *)
(***************************************************************************)
Fetched ==
    updater = "download" => \A f \in Files : got[f] # None =>
       \/ f \in wanted /\ local[f] \in {None, got[f]}
       \/ local[f] = got[f] \/ f \in spoiled \/ ~success

\* Releases, downloads and faults keep Fetched.
LEMMA FetchedStep == TypeOK /\ Fetched /\ [Next]_vars => Fetched'
<1> SUFFICES ASSUME TypeOK, Fetched, [Next]_vars PROVE Fetched'
  OBVIOUS
<1> USE DEF cloudVars, updateVars, clientVars
<1>1. ASSUME UNCHANGED updateVars PROVE Fetched'
  BY <1>1 DEF Fetched
<1>2. ASSUME HttpPost \/ Start \/ PowerOff PROVE Fetched'
  BY <1>2 DEF HttpPost, Start, PowerOff, Fetched
<1>3. ASSUME ParseFiles PROVE Fetched'
  BY <1>3 DEF ParseFiles, Fetched, TypeOK
<1>4. ASSUME NEW f \in Files, DownloadFails(f) PROVE Fetched'
  BY <1>4 DEF DownloadFails, Downloads, Fetched
<1>5. ASSUME NEW f \in Files, DownloadFile(f) PROVE Fetched'
  <2>1. PICK c \in Written(disk[f], local[f]) : local' = [local EXCEPT ![f] = c]
    BY <1>5 DEF DownloadFile
  <2>2. /\ local'[f] = c /\ \A g \in Files : g # f => local'[g] = local[g]
        /\ updater = "download" /\ f \in wanted /\ wanted' = wanted \ {f}
        /\ UNCHANGED <<got, success, updater>> /\ spoiled \subseteq spoiled'
        /\ f \notin spoiled' => disk[f] = got[f]
    BY <1>5, <2>1 DEF DownloadFile, Downloads, TypeOK
  <2>3. local[f] \in {None, got[f]} /\ disk[f] = got[f] => c = got[f]
    BY <2>1, WrittenWhole DEF TypeOK
  <2>4. got[f] # None => local'[f] = got[f] \/ f \in spoiled' \/ ~success
    BY <2>2, <2>3 DEF Fetched
  <2> QED BY <2>2, <2>4 DEF Fetched
<1>6. ASSUME NEW f \in Files, DownloadCut(f) PROVE Fetched'
  BY <1>6 DEF DownloadCut, Downloads, Fetched, TypeOK
<1> QED
  BY <1>1, <1>2, <1>3, <1>4, <1>5, <1>6
  DEF Next, Generator, Updater, Release, GenerateUpdate, ComputeMD5, CreateClientUpdate,
      SaveResults, HttpPostFails, vars

\* ng_client is started among the files that were listed (parseFiles, downloadFile, check).
THEOREM StartedRight == Spec => RightFiles
<1> DEFINE Right == busy' /\ ~busy =>
              \A f \in Files : got[f] = None \/ local[f] = got[f] \/ f \in spoiled
<1>1. Init => Fetched
  BY DEF Init, Fetched
<1>2. TypeOK /\ Fetched /\ [Next]_vars => [Right]_vars
  <2> SUFFICES ASSUME Fetched, Next, busy', ~busy
               PROVE  \A f \in Files : got[f] = None \/ local[f] = got[f] \/ f \in spoiled
    OBVIOUS
  <2>1. Start
    BY DEF Next, Generator, Updater, Release, GenerateUpdate, ComputeMD5,
           CreateClientUpdate, SaveResults, HttpPostFails, HttpPost, ParseFiles, DownloadFails,
           DownloadFile, DownloadCut, PowerOff, clientVars
  <2>2. updater = "download" /\ wanted = {} /\ success
    BY <2>1 DEF Start, clientVars
  <2> QED BY <2>2 DEF Fetched
<1> QED BY <1>1, <1>2, FetchedStep, UpdatesTypeCorrect, PTL DEF Spec, RightFiles
=============================================================================
