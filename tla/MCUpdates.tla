----------------------------- MODULE MCUpdates ------------------------------
(***************************************************************************)
(* An instance of Updates for TLC: ng_client and another file, each of     *)
(* which is replaced by a shorter and then by a longer content.            *)
(***************************************************************************)
EXTENDS Updates, TLC

CONSTANTS ngClient, config

Sizes == <<2, 1, 3>>
=============================================================================
