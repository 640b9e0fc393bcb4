------------------------------ MODULE MCOrders ------------------------------
(***************************************************************************)
(* An order for TLC.                                                        *)
(***************************************************************************)
EXTENDS Orders, TLC

CONSTANTS q1, q2

Symmetric == Permutations(Request)

=============================================================================
