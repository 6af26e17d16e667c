--------------------------- MODULE MCActivityFeed ---------------------------
(* Instances of ActivityFeed for TLC.                                      *)
EXTENDS ActivityFeed, TLC

CONSTANTS u1, u2, h1, h2, i1, i2, i3, ownerTopic, otherTopic, newTopic, erasureTopic

Nobody == [topic |-> newTopic, id |-> i2, known |-> FALSE, subject |-> NoUser,
           key |-> NoUser, declared |-> {}, undeclared |-> {},
           financial |-> FALSE, internal |-> FALSE]

(* A payment of u1, kept longest.                                          *)
Payment == [Nobody EXCEPT !.topic = ownerTopic, !.id = i1, !.known = TRUE,
                          !.subject = u1, !.key = u1, !.financial = TRUE]

(* The same event id under another topic, read as news of u2 about u1.     *)
Echo == [Payment EXCEPT !.topic = otherTopic, !.subject = u2, !.financial = FALSE]

(* A topic this build does not know, which names u1 in its payload.        *)
Unknown == [Nobody EXCEPT !.undeclared = {u1}]

Erasure == [Nobody EXCEPT !.topic = erasureTopic, !.id = i3, !.known = TRUE,
                          !.subject = u1, !.key = u1]

Mixed == {Payment, Echo, Unknown, Erasure}
Unknown2 == [Unknown EXCEPT !.id = i3]
Three == {Payment, Unknown, Unknown2}

Days == [c \in RetentionClass |-> IF c = "quarantine" THEN 1 ELSE 2]
Short == [c \in RetentionClass |-> 0]

Requests == Permutations(Handler)
=============================================================================
