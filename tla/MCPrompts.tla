----------------------------- MODULE MCPrompts ------------------------------
(***************************************************************************)
(* An instance of Prompts for TLC: a subtask and a generation, each of     *)
(* which the cloud may send twice.                                         *)
(***************************************************************************)
EXTENDS Prompts, TLC

CONSTANTS s1, m1

Twice == s1 :> 2 @@ m1 :> 1
Once  == [s \in Subs |-> 1]
=============================================================================
