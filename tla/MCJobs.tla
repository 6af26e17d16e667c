------------------------------- MODULE MCJobs ------------------------------
(* Instances of Jobs for TLC.                                              *)
EXTENDS Jobs

CONSTANTS p1, p2, prune, dispatch, digest

OneOfEach == [k \in Kind |-> IF k = prune THEN "activity" ELSE "notify"]

(* The budgets of the code are 2 and 4, for two kinds each: room for every *)
(* kind, so that as many slots as kinds are enough, and one fewer would    *)
(* not be.                                                                 *)
Slots == [m \in Module |-> Cardinality(KindsOf(m))]
=============================================================================
