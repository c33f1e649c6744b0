------------------------------ MODULE Updates -------------------------------
(***************************************************************************)
(* The update of a client: the list of files and MD5 sums that ng-cloud    *)
(* generates, serves and lets be replaced while it does, and ng_update,    *)
(* which runs at every boot of a client machine, compares, removes and     *)
(* downloads files and starts ng_client. Copies are cut, servers fail and  *)
(* processes are killed at most MaxFaults times in all.                    *)
(***************************************************************************)
EXTENDS Naturals, FiniteSets

CONSTANTS
    Files,      \* local paths
    Main,       \* ng_client, the file that is started
    Versions,   \* bound: the contents a file of the server goes through are 1..Versions
    Size,       \* the length of each of them
    MaxFaults   \* bound on the faults

ASSUME UpdatesAssumption ==
    /\ Main \in Files
    /\ Versions \in Nat \ {0}
    /\ Size \in [1..Versions -> Nat]
    /\ MaxFaults \in Nat

VARIABLES
    disk,       \* ng-cloud: content of each file under "files"
    list,       \* ng-cloud: content listed for each file in UpdateFile, None: not listed
    writing,    \* UpdateFile is truncated and not yet written
    generator,  \* step of the goroutine of generateUpdate
    hashes,     \* the sums it has computed
    local,      \* client machine: content of each file
    updater,    \* step of ng_update
    got,        \* the list it fetched
    wanted,     \* filePaths still to download
    success,    \* no download has failed
    spoiled,    \* history: files that were cut, or were not what was listed, in this run
    client,     \* content of the ng_client that runs
    busy,       \* the file it was started from is still there
    faults      \* faults so far

cloudVars  == <<disk, list, writing, generator, hashes>>
updateVars == <<local, updater, got, wanted, success, spoiled>>
clientVars == <<client, busy>>
vars       == <<cloudVars, updateVars, clientVars, faults>>

None      == 0              \* no such file
Torn      == Versions + 1   \* a file with parts of two contents, or with a part of one
Listed    == 0..Versions
Contents  == 0..Torn
NoFiles   == [f \in Files |-> None]

Fault == faults < MaxFaults /\ faults' = faults + 1

Init ==
    /\ disk = [f \in Files |-> 1] /\ list = disk /\ writing = FALSE
    /\ generator = "idle" /\ hashes = NoFiles
    /\ local = NoFiles /\ updater = "off" /\ got = NoFiles
    /\ wanted = {} /\ success = TRUE /\ spoiled = {}
    /\ client = None /\ busy = FALSE /\ faults = 0

(***************************************************************************)
(* ng-cloud. The operator puts a new file in place (environment) and calls *)
(* generateUpdate; the error of createClientUpdate is dropped with the     *)
(* files it had listed, and os.Create empties the list before it is        *)
(* written.                                                                *)
(***************************************************************************)
Release(f) ==
    /\ disk[f] < Versions
    /\ disk' = [disk EXCEPT ![f] = @ + 1]
    /\ UNCHANGED <<list, writing, generator, hashes, updateVars, clientVars, faults>>

GenerateUpdate ==
    /\ generator = "idle" /\ list # disk
    /\ generator' = "hash" /\ hashes' = NoFiles
    /\ UNCHANGED <<disk, list, writing, updateVars, clientVars, faults>>

ComputeMD5(f) ==
    /\ generator = "hash" /\ hashes[f] = None
    /\ hashes' = [hashes EXCEPT ![f] = disk[f]]
    /\ UNCHANGED <<disk, list, writing, generator, updateVars, clientVars, faults>>

CreateClientUpdate ==
    /\ generator = "hash"
    /\ \/ /\ \A f \in Files : hashes[f] # None
          /\ UNCHANGED <<hashes, faults>>
       \/ /\ Fault
          /\ hashes' = NoFiles
    /\ generator' = "save" /\ writing' = TRUE
    /\ UNCHANGED <<disk, list, updateVars, clientVars>>

SaveResults ==
    /\ generator = "save"
    /\ list' = hashes /\ writing' = FALSE /\ generator' = "idle"
    /\ UNCHANGED <<disk, hashes, updateVars, clientVars, faults>>

(***************************************************************************)
(* ng_update.                                                              *)
(***************************************************************************)
\* The request for the list fails, or is answered with an error because it is being written.
HttpPostFails ==
    /\ updater = "off"
    /\ \/ writing /\ UNCHANGED faults
       \/ ~writing /\ Fault
    /\ UNCHANGED <<cloudVars, updateVars, clientVars>>

HttpPost ==
    /\ updater = "off" /\ ~writing
    /\ got' = list
    /\ updater' = "parse" /\ success' = TRUE /\ spoiled' = {}
    /\ UNCHANGED <<local, wanted, cloudVars, clientVars, faults>>

\* Mutant: a file with another sum is not removed.
KeepFiles ==
    /\ updater = "parse"
    /\ wanted' = {f \in Files : got[f] # None}
    /\ updater' = "download"
    /\ UNCHANGED <<local, busy, got, success, spoiled, client, cloudVars, faults>>

\* Every listed file is downloaded; those with another sum are removed first.
ParseFiles ==
    /\ updater = "parse"
    /\ wanted' = {f \in Files : got[f] # None}
    /\ local' = [f \in Files |-> IF got[f] \in {None, local[f]} THEN local[f] ELSE None]
    /\ busy' = (busy /\ local'[Main] # None)
    /\ updater' = "download"
    /\ UNCHANGED <<got, success, spoiled, client, cloudVars, faults>>

\* Mutant: what is downloaded is appended.
Appended(v, w) == {v + w}

\* What a file holds after v was written over w: OpenFile does not truncate.
Written(v, w) ==
    CASE w = None -> {v}
      [] w = Torn -> {v, Torn}
      [] OTHER    -> {IF Size[w] > Size[v] THEN Torn ELSE v}

\* What it holds when the copy ends early.
Cut(v, w) == IF v = w THEN v ELSE Torn

\* A binary that runs cannot be opened for writing.
InUse(f) == f = Main /\ busy

Downloads(f) == updater = "download" /\ f \in wanted /\ wanted' = wanted \ {f}

DownloadFails(f) ==
    /\ Downloads(f)
    /\ \/ InUse(f) /\ UNCHANGED faults
       \/ ~InUse(f) /\ Fault
    /\ success' = FALSE
    /\ UNCHANGED <<local, updater, got, spoiled, cloudVars, clientVars>>

DownloadFile(f) ==
    /\ Downloads(f) /\ ~InUse(f)
    /\ \E c \in Written(disk[f], local[f]) : local' = [local EXCEPT ![f] = c]
    /\ spoiled' = IF disk[f] = got[f] THEN spoiled ELSE spoiled \cup {f}
    /\ UNCHANGED <<updater, got, success, cloudVars, clientVars, faults>>

\* The error of io.Copy is overwritten by that of Chmod: a copy that was cut counts.
DownloadCut(f) ==
    /\ Downloads(f) /\ ~InUse(f) /\ Fault
    /\ local' = [local EXCEPT ![f] = Cut(disk[f], @)]
    /\ spoiled' = spoiled \cup {f}
    /\ UNCHANGED <<updater, got, success, cloudVars, clientVars>>

\* Mutant: the client is started although a download failed.
StartAnyway ==
    /\ updater = "download" /\ wanted = {}
    /\ IF got[Main] # None
       THEN client' = local[Main] /\ busy' = TRUE
       ELSE UNCHANGED clientVars
    /\ updater' = "off"
    /\ UNCHANGED <<local, got, wanted, success, spoiled, cloudVars, faults>>

Start ==
    /\ updater = "download" /\ wanted = {}
    /\ IF success /\ got[Main] # None
       THEN client' = local[Main] /\ busy' = TRUE
       ELSE UNCHANGED clientVars
    /\ updater' = "off"
    /\ UNCHANGED <<local, got, wanted, success, spoiled, cloudVars, faults>>

\* The machine goes down, perhaps while a file is written; ng_client ends with it.
PowerOff ==
    /\ Fault
    /\ \/ UNCHANGED local
       \/ \E f \in wanted : /\ updater = "download"
                            /\ local' = [local EXCEPT ![f] = Cut(disk[f], @)]
    /\ updater' = "off" /\ wanted' = {}
    /\ client' = None /\ busy' = FALSE
    /\ UNCHANGED <<got, success, spoiled, cloudVars>>

Generator == \/ GenerateUpdate \/ CreateClientUpdate \/ SaveResults
             \/ \E f \in Files : ComputeMD5(f)
Updater   == \/ HttpPost \/ ParseFiles \/ Start
             \/ \E f \in Files : DownloadFile(f) \/ DownloadFails(f) \/ DownloadCut(f)

Next == \/ \E f \in Files : Release(f)
        \/ Generator \/ Updater \/ HttpPostFails \/ PowerOff

Spec == Init /\ [][Next]_vars

\* The operator calls generateUpdate until the list is that of the release; ng_update runs at every boot.
LiveSpec == Spec /\ WF_vars(Generator) /\ WF_vars(Updater)

-----------------------------------------------------------------------------
(* Types of the variables. *)
TypeOK ==
    /\ disk \in [Files -> 1..Versions] /\ list \in [Files -> Listed]
    /\ writing \in BOOLEAN /\ generator \in {"idle", "hash", "save"}
    /\ hashes \in [Files -> Listed]
    /\ local \in [Files -> Contents]
    /\ updater \in {"off", "parse", "download"}
    /\ got \in [Files -> Listed]
    /\ wanted \subseteq Files /\ success \in BOOLEAN /\ spoiled \subseteq Files
    /\ client \in Contents /\ busy \in BOOLEAN
    /\ faults \in 0..MaxFaults

\* When ng_client is started, every listed file is the one that was listed, whatever earlier
\* runs left behind, except those that changed on the server after they were listed or whose
\* copy was cut unnoticed in this very run (parseFiles, downloadFile, check).
RightFiles ==
    [][busy' /\ ~busy =>
         \A f \in Files : got[f] = None \/ local[f] = got[f] \/ f \in spoiled]_vars

\* A machine ends up with the files of the server: a copy that was cut, an older or a longer
\* file, an empty list and a run that was killed are all repaired by a later run, once
\* releases and faults end (generateUpdate, parseFiles, downloadFile).
Repaired == <>[](local = disk)
=============================================================================
