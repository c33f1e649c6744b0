------------------------------ MODULE TaskLife ------------------------------
(***************************************************************************)
(* What ng-cloud promises about the tasks it accepts, whatever happens to  *)
(* its memory: the record of a task outlives a crash, an open record is    *)
(* always in somebody's hands while the cloud runs, and a record is closed *)
(* once, after every stored subtask was decided.                           *)
(*                                                                         *)
(* Recovery implements it (Recovery!Life is the refinement mapping).       *)
(***************************************************************************)
CONSTANTS
    Tasks,      \* the tasks users ask for
    Subs,       \* their subtasks
    TaskOf,     \* the task of a subtask
    Deletable   \* tasks whose user may delete them

SubsOf(t) == {s \in Subs : TaskOf[s] = t}

VARIABLES
    up,         \* the cloud runs
    record,     \* what is recorded of a task: none, open, completed or failed
    stored,     \* the recorded subtasks
    decided,    \* subtasks that were completed, or failed once or more
    withdrawn,  \* tasks recorded as deleted
    held        \* tasks the running cloud has in hand

vars == <<up, record, stored, decided, withdrawn, held>>

Init ==
    /\ up = TRUE
    /\ record = [t \in Tasks |-> "None"]
    /\ stored = {} /\ decided = {} /\ withdrawn = {} /\ held = {}

Accept(t) ==
    /\ up /\ record[t] = "None"
    /\ record' = [record EXCEPT ![t] = "Open"]
    /\ held' = held \cup {t}
    /\ UNCHANGED <<up, stored, decided, withdrawn>>

\* Only work of accepted tasks is recorded, and only such work is decided.
Store(s) ==
    /\ up /\ record[TaskOf[s]] # "None"
    /\ stored' = stored \cup {s}
    /\ UNCHANGED <<up, record, decided, withdrawn, held>>

Decide(s) ==
    /\ up /\ record[TaskOf[s]] # "None"
    /\ decided' = decided \cup {s}
    /\ UNCHANGED <<up, record, stored, withdrawn, held>>

\* Two goroutines may end the same task: then it stays in hand at first, and
\* the later outcome replaces the earlier one.
End(t) ==
    /\ up /\ t \in held
    /\ stored \cap SubsOf(t) \subseteq decided
    /\ \E outcome \in {"Completed", "Failed"} : record' = [record EXCEPT ![t] = outcome]
    /\ held' \in {held, held \ {t}}
    /\ UNCHANGED <<up, stored, decided, withdrawn>>

\* Withdrawing a task without recorded subtasks is not recorded.
Withdraw(t) ==
    /\ up /\ t \in held \cap Deletable
    /\ held' \in {held, held \ {t}}
    /\ withdrawn' = IF stored \cap SubsOf(t) = {} THEN withdrawn ELSE withdrawn \cup {t}
    /\ UNCHANGED <<up, record, stored, decided>>

Crash ==
    /\ up /\ up' = FALSE
    /\ held' = {}
    /\ UNCHANGED <<record, stored, decided, withdrawn>>

\* Every open task that was not withdrawn is taken up again, and no other.
Restart ==
    /\ ~up /\ up' = TRUE
    /\ held' = {t \in Tasks : record[t] = "Open"} \ withdrawn
    /\ UNCHANGED <<record, stored, decided, withdrawn>>

Next ==
    \/ \E t \in Tasks : Accept(t) \/ End(t) \/ Withdraw(t)
    \/ \E s \in Subs : Store(s) \/ Decide(s)
    \/ Crash \/ Restart

Spec == Init /\ [][Next]_vars
=============================================================================
