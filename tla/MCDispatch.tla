----------------------------- MODULE MCDispatch -----------------------------
(* Instances of Dispatch for TLC.                                          *)
EXTENDS Dispatch, TLC

CONSTANTS d1, d2, u1, p1, p2

OneUser == [d \in Delivery |-> u1]

Passes == Permutations(Dispatcher)
=============================================================================
