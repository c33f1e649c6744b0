---------------------------- MODULE MCWorkspaces ----------------------------
(***************************************************************************)
(* An instance of Workspaces for TLC: one node and one workspace, which    *)
(* the node may have had before and which may have been deleted.           *)
(***************************************************************************)
EXTENDS Workspaces, TLC

CONSTANTS n1, w1

One     == w1 :> 1
OnFirst == w1 :> {n1}
=============================================================================
