----------------------------- MODULE MCSessions -----------------------------
(***************************************************************************)
(* An instance of Sessions for TLC: two requests, the user of the first    *)
(* opens two links.                                                        *)
(***************************************************************************)
EXTENDS Sessions, TLC

CONSTANTS u1, u2, l1, l2

First == l1 :> u1 @@ l2 :> u1
Each  == l1 :> u1 @@ l2 :> u2
One   == l1 :> u1
=============================================================================
