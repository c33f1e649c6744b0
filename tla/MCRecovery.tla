----------------------------- MODULE MCRecovery -----------------------------
(***************************************************************************)
(* Instances of Recovery for TLC: one task of one or two subtasks.         *)
(***************************************************************************)
EXTENDS Recovery

CONSTANT t1

OneTask == [s \in Subs |-> t1]
=============================================================================
