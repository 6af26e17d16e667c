--------------------------- MODULE MCNotifications ---------------------------
(* Instances of Notifications for TLC.                                     *)
EXTENDS Notifications, TLC

CONSTANTS u1, u2, h1, h2, i1, i2, i3, i4, i5, k1, k2, k3, f1, f2, f3, f4,
          a1, a2, in_app, email, webhook

(* identity.user.registered: the first address of u1.                      *)
Registered ==
  [kind |-> "news", id |-> i1, fact |-> f1, recipients |-> <<u1>>, key |-> k1,
   priority |-> "normal", secret |-> FALSE, deliverOn |-> {in_app, email, webhook}, learns |-> a1]

(* identity.email.verification_requested: another address, and a link that *)
(* works once.                                                             *)
Verification ==
  [Registered EXCEPT !.id = i2, !.fact = f2, !.key = k2, !.priority = "high",
                     !.secret = TRUE, !.learns = a2]

(* A critical notice for two recipients, and another of the same key that  *)
(* lists them the other way round.                                         *)
Notice ==
  [Registered EXCEPT !.id = i3, !.fact = f3, !.key = k3, !.priority = "critical",
                     !.recipients = <<u1, u2>>, !.learns = None]
Echo == [Notice EXCEPT !.id = i4, !.fact = f4, !.recipients = <<u2, u1>>]

Erasure == [Registered EXCEPT !.kind = "erasure", !.id = i5, !.learns = None]

Everything == {Registered, Verification, Notice, Echo, Erasure}

(* What a user may choose: everything as it comes, digests or nothing, by  *)
(* one setting or the other.                                               *)
AsItComes == [c \in Channel |-> DefaultPreference]
Batched == [c \in Channel |-> [DefaultPreference EXCEPT !.digest = IF c = email THEN "hourly" ELSE "daily"]]
Muted == [c \in Channel |-> IF c = email THEN [DefaultPreference EXCEPT !.enabled = FALSE]
                            ELSE [DefaultPreference EXCEPT !.digest = "off"]]
SomeChoice == {AsItComes, Batched, Muted}

Requests == Permutations(Handler)
=============================================================================
