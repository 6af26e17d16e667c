----------------------------- MODULE MCDigests -----------------------------
(* Instances of Digests for TLC.                                           *)
EXTENDS Digests

CONSTANTS u1, n1, n2, f1, f2

OneUser == [i \in Item |-> u1]
=============================================================================
