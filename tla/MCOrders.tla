------------------------------ MODULE MCOrders ------------------------------
(***************************************************************************)
(* An instance of Orders for TLC: two forms for the same name, an order    *)
(* of a plan with a level and one of a plan without.                       *)
(***************************************************************************)
EXTENDS Orders, TLC

CONSTANTS u1, f1, f2, o1, o2

SameName == f1 :> u1 @@ f2 :> u1
Levels   == {1}
=============================================================================
