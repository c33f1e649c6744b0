---------------------------- MODULE MCScheduler ----------------------------
(***************************************************************************)
(* Instances of Scheduler for TLC: two nodes, two subtasks.                *)
(***************************************************************************)
EXTENDS Scheduler, TLC

CONSTANTS n1, n2, s1, s2, t1, t2

\* One task of two subtasks, or two tasks of one.
OneTask  == [s \in Subs |-> t1]
TwoTasks == s1 :> t1 @@ s2 :> t2

Anywhere == [t \in Tasks |-> None]

Everywhere == [n \in Nodes |-> Tasks]
Apart      == n1 :> {t1} @@ n2 :> {t2}
OneSlot    == [n \in Nodes |-> 1]
TwoSlots   == [n \in Nodes |-> 2]

NodeSymmetry == Permutations(Nodes)
=============================================================================
