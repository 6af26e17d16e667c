----------------------------- MODULE MCServing -----------------------------
(* Instances of Serving for TLC. Ids do not follow the instants. *)
EXTENDS Serving

CONSTANTS u1, u2

A(id, user, internal, at) ==
    [id |-> id, to |-> "activity", user |-> user, internal |-> internal, at |-> at]
N(id, user, at) == [id |-> id, to |-> "notify", user |-> user, internal |-> FALSE, at |-> at]

(* A feed of which a page may end between two records of one instant. *)
Feed == {A(1, u1, FALSE, 2), A(2, u1, FALSE, 2), A(3, u1, TRUE, 0)}
(* Notifications of one user in two milliseconds. *)
Told == {N(7, u1, 2), N(6, u1, 3), N(5, u1, 1)}
(* Rows of two users for either module. *)
Mixed == {A(3, u1, FALSE, 2), A(1, u2, FALSE, 0), N(8, u2, 1)}
Tales == {Feed, Told, Mixed}
Left == {[post |-> A(10, u1, FALSE, 0), for |-> "testnet", db |-> "second"],
         [post |-> A(11, u1, FALSE, 2), for |-> "testnet", db |-> "second"]}
Everyone == {[kind |-> "user", user |-> u1, scoped |-> FALSE],
             [kind |-> "admin", user |-> u2, scoped |-> FALSE],
             [kind |-> "service", user |-> Nobody, scoped |-> TRUE]}
=============================================================================
