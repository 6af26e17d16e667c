---------------------------- MODULE MCBroadcasts ----------------------------
(* Instances of Broadcasts for TLC.                                        *)
EXTENDS Broadcasts

CONSTANTS b1, k1, r1, r2

Three == 1 .. 3

SameKey == [b \in Broadcast |-> k1]

(* Everyone, or two users of the three.                                    *)
AllOrSome == {{}, {1, 3}}
=============================================================================
