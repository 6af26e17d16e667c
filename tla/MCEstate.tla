------------------------------ MODULE MCEstate ------------------------------
(* Instances of Estate for TLC: every topic, alone, twice, beside the topic it shares a key with,  *)
(* and beside an erasure.                                                                          *)
EXTENDS Estate

CONSTANTS u1, u2, f1, f2, i1, i2, i3, s1, s2

Sessions == f1 :> s1 @@ f2 :> s2

News(id, topics, owners, facts, carries, says) ==
    {e \in {[id |-> id, topic |-> t, owner |-> u, other |-> IF u = u2 THEN u1 ELSE u2, fact |-> f,
      carries |-> c, says |-> s] :
        t \in topics, u \in owners, f \in facts, c \in carries, s \in says} : WellFormed(e)}

Alone == {{e} : e \in News(i1, DOMAIN Lines \ {ErasureTopic}, {u1, Org, Nobody}, {f1}, Carried, Says)}

Added == <<"identity", "mfa.added">>
Removed == <<"identity", "mfa.removed">>
Factors == {Added, Removed}
(* Topics that may speak of one thing. *)
Kin(topic) ==
    {topic} \cup UNION {g \in {OneRegister, Factors,
                               {<<"wallet", "link.verified">>, <<"wallet", "link.revoked">>},
                               {<<"community", "proposal.opened">>, <<"community", "proposal.executed">>}} :
                        topic \in g}
Second(e) == News(i2, Kin(e.topic), {u1, u2}, Facts, Carried, Says)
Twice == UNION {{{e, d} : d \in Second(e)} :
                e \in News(i1, DOMAIN RULES, {u1, Org}, {f1}, Carried, Says)}

Deletion(u) == News(i2, {ErasureTopic}, {u}, {f2}, {"fact"}, {"yes"})
Erased == UNION {{{e, d} : d \in Deletion(u1) \cup Deletion(u2)} :
    e \in News(i1, DOMAIN Lines \ {ErasureTopic}, {u1, Org, Nobody}, {f1}, Carried, {"yes"})}

(* The same thing told before and after an erasure. *)
Again == UNION {{{e, [e EXCEPT !.id = i3, !.fact = f2], d} : d \in Deletion(u1) \cup Deletion(u2)} :
    e \in News(i1, DOMAIN Lines \ {ErasureTopic}, {u1}, {f1}, Carried, {"yes"})}

All == Alone \cup Twice \cup Erased \cup Again
(* A link made again, a parcel lost again, a factor removed that had been added. *)
Once(id, topic, fact) == News(id, {topic}, {u1}, {fact}, {"thing"}, {"yes"})
Follows == {<<t, t>> : t \in Recurring \ Factors} \cup {<<Added, Removed>>}
Recurs == UNION {{{e, d} : e \in Once(i1, f[1], f1), d \in Once(i2, f[2], f2)} : f \in Follows}
=============================================================================
