------------------------------- MODULE Estate -------------------------------
(***************************************************************************)
(* One event, two readers.  Every event of the bus is delivered to the     *)
(* activity feed and to notify, each in its own time, with tables of their *)
(* own for who is concerned and what happened; `identity.user.deleted'     *)
(* erases in each of them.  This module composes Classification and        *)
(* Catalogue; ActivityFeed and Notifications say why each delivery takes   *)
(* effect once, so that here it is one step.                               *)
(***************************************************************************)
EXTENDS Classification, Catalogue

CONSTANT Stories    \* sets of events that the producers may publish in one behaviour

(* An event has an id of its own. *)
ASSUME StoriesAreEvents ==
    \A story \in Stories : \A d, e \in story : WellFormed(e) /\ (d.id = e.id => d = e)

VARIABLES
    bus,        \* what is published in this behaviour
    recorded,   \* inbox of activity
    feed,       \* activity_records
    erasedA,    \* history: users activity was told to erase
    heard,      \* inbox of notify
    told,       \* notifications
    erasedN     \* history: users notify was told to erase
activity == <<recorded, feed, erasedA>>
notify == <<heard, told, erasedN>>
vars == <<bus, activity, notify>>

Init == /\ bus \in Stories
        /\ recorded = {} /\ feed = {} /\ erasedA = {}
        /\ heard = {} /\ told = {} /\ erasedN = {}

(* A record and whom activity had erased when it was written. *)
Written(e) == [record |-> classify(e), since |-> erasedA]
Erases(e) == e.topic = ErasureTopic /\ classify(e).owner # Nobody

Record(e) ==
    /\ e \in bus \ recorded /\ ~Erases(e)
    /\ recorded' = recorded \cup {e}
    /\ feed' = feed \cup {Written(e)}
    /\ UNCHANGED <<bus, erasedA, notify>>

(* Fault: the rows a user owns, and no others. *)
IsOwn(r, u) == r.owner = u
(* The rows a user owns, and those nobody owns that mention the user. *)
IsOf(r, u) == \/ r.owner = u
              \/ r.owner = Nobody /\ (r.urn = u \/ u \in r.names)
eraseUser(e) ==
    /\ e \in bus \ recorded /\ Erases(e)
    /\ recorded' = recorded \cup {e}
    /\ feed' = {w \in feed : ~IsOf(w.record, classify(e).owner)}
    /\ erasedA' = erasedA \cup {classify(e).owner}
    /\ UNCHANGED <<bus, notify>>

(* Fault: the conflict is on the key alone. Fault: there is no conflict clause. *)
IsNewKey(n) == \A m \in told : m.key # n.key
IsAlwaysNew(n) == TRUE
(* A notification is dropped where its user already has one of its key. *)
IsNew(n) == \A m \in told : m.to # n.to \/ m.key # n.key
(* The column of the user takes a uuid: a row for whatever else fails, and the event with it. *)
Insertable(e) == \A n \in Notices(e) : n.to \in Users
Tell(e) ==
    /\ e \in bus \ heard /\ isKnownTopic(e.topic) /\ e.topic \notin ERASURE_TOPICS
    /\ Insertable(e)
    /\ heard' = heard \cup {e}
    /\ told' = told \cup {n \in Notices(e) : IsNew(n)}
    /\ UNCHANGED <<bus, activity, erasedN>>

(* The payload's user, or else the key, which names the same one. *)
erasedUser(e) == IF UuidIn(e, "userId") # Nobody THEN UuidIn(e, "userId") ELSE Key(e).of
EraseNotices(e) ==
    /\ e \in bus \ heard /\ e.topic \in ERASURE_TOPICS
    /\ heard' = heard \cup {e}
    /\ told' = {n \in told : n.to # erasedUser(e)}
    /\ erasedN' = erasedN \cup {erasedUser(e)}
    /\ UNCHANGED <<bus, activity>>

Next == \E e \in bus : Record(e) \/ eraseUser(e) \/ Tell(e) \/ EraseNotices(e)
Spec == Init /\ [][Next]_vars

Mentions(r, u) == u = r.owner \/ u = r.urn \/ u \in r.names

-----------------------------------------------------------------------------
(* What the two tables are to satisfy, topic by topic, for any event that the producers send as    *)
(* Wire has it.                                                                                    *)

(* A reader looks where the producer names the owner, and sees nobody else there. *)
FieldIs(line, field, value) == field \in DOMAIN line.fields /\ line.fields[field] = value
FindsOwner(reader, line) ==
    \/ reader.read = "key" /\ line.keyed = "user"
    \/ reader.read = "subjectKey" /\ line.keyed = "subject"
    \/ reader.read = "actor" /\ line.actor = "owner"
    \/ reader.read = "uuid" /\ FieldIs(line, reader.field, Id("owner"))
    \/ reader.read = "subject" /\ FieldIs(line, reader.field, Subj("owner"))
(* userIdOf does, by way of the payload, the key or the actor. *)
FindsUser(line) ==
    \/ FieldIs(line, "userId", Id("owner"))
    \/ "userId" \notin DOMAIN line.fields /\ (line.keyed = "user" \/ line.actor = "owner")

(* A classifier reads the owner or nobody, and what it lets through names no other party then. *)
ASSUME ClassifiersReadTheOwner ==
    \A topic \in TOPICS : LET row == CLASSIFIERS[topic] IN
        \/ row.owner = NoOwner
        \/ /\ FindsOwner(row.owner, Lines[topic])
           /\ \A f \in row.payloadKeys \cap DOMAIN Lines[topic].fields :
                Lines[topic].fields[f].role # "other"
(* A rule tells the members of a group, or an owner whom the classifier reads too. *)
ASSUME RulesTellTheOwner ==
    \A topic \in DOMAIN RULES : LET to == RULES[topic].to IN
        \/ to = Members
        \/ /\ CLASSIFIERS[topic].owner # NoOwner
           /\ \/ to = ForUser /\ FindsUser(Lines[topic])
              \/ to.read \in {"uuid", "subject"} /\ FindsOwner(to, Lines[topic])

(* The topics that report two facts, by an exact value in the payload. *)
TwoFacts == {topic \in DOMAIN RULES : CLASSIFIERS[topic].second = "exact"}
(* Where the feed tells two facts apart, the rule goes by the same comparison. *)
ASSUME FactsAreSplitAlike ==
    \A topic \in TwoFacts : LET rule == RULES[topic] IN
        rule.when = "exact" \/ (rule.when = "never" /\ rule.applies \in {"exact", "not exact"})

(* Topics of which several report one and the same thing. *)
OneRegister == {<<"identity", "session.created">>, <<"identity", "device.added">>}
(* Facts about one thing that may both come true, so that one does not stand for the other. *)
Outcomes == {<<"settlement", "withdrawal.stuck">>, <<"settlement", "outbound.failed">>,
             <<"trade", "transfer.settled">>}

(* What a key of the topic may begin with. *)
Prefixes(topic) == LET rule == RULES[topic] IN
    {rule.prefix} \cup IF rule.keyTells THEN {rule.variant} ELSE {}
(* Topics that share a prefix are one register, unless they name lasting things alone; those that  *)
(* may come out two ways have two.                                                                 *)
ASSUME PrefixesTellTopicsApart ==
    \A s, t \in DOMAIN RULES :
        Prefixes(s) \cap Prefixes(t) # {} /\ Lines[t].names # "thing" =>
            s = t \/ {s, t} \subseteq OneRegister
ASSUME PrefixesTellOutcomesApart ==
    \A topic \in DOMAIN RULES : LET rule == RULES[topic] IN
        IF topic \in Outcomes THEN rule.keyTells /\ rule.variant # rule.prefix ELSE ~rule.keyTells
ASSUME OneRegisterHasOneKey ==
    \A s, t \in OneRegister : RULES[s].prefix = RULES[t].prefix /\ RULES[s].key = RULES[t].key
(* A rule that does not take the id of the payload takes that of the event, or a key that is the   *)
(* fact's; what it adds is nothing where the payload has an id.  What names a lasting thing alone  *)
(* is not keyed by the fact either.                                                                *)
ASSUME FactsAreKeyed ==
    \A topic \in DOMAIN RULES : LET key == RULES[topic].key IN
        IF Lines[topic].names = "thing" THEN Lines[topic].keyed \notin {"fact", "session"}
        ELSE /\ key.payload \/ key = ById \/ (key = ByKey /\ Lines[topic].keyed = "fact")
             /\ key.beside \in {"nothing", "season", "slot"}

-----------------------------------------------------------------------------
(* Type invariant: both sinks hold what they made of published events. *)
TypeOK ==
    /\ \A e \in bus : WellFormed(e)
    /\ recorded \subseteq bus /\ heard \subseteq bus
    /\ \A w \in feed : w.record = classify(w.record.event) /\ w.record.event \in recorded
    /\ \A n \in told : n \in Notices(n.event) /\ n.event \in heard /\ n.to \in Users
    /\ \A e \in heard : Insertable(e)
    /\ \A w \in feed : w.since \subseteq erasedA

(* Neither sink files or tells news of one person under another: a record belongs to, and a        *)
(* notification goes to, somebody the event concerns, and never the attacker, bidder, challenger   *)
(* or operator it also names.                                                                      *)
NewsReachesTheConcerned ==
    /\ \A w \in feed : w.record.owner = Nobody \/ w.record.owner \in Concerned(w.record.event)
    /\ \A n \in told : n.to \in Concerned(n.event)

(* What a topic with two facts says in a notification. *)
ToldSecond(n) == IF RULES[n.event.topic].when # "never" THEN n.second
                 ELSE RULES[n.event.topic].applies = "exact"
(* Two tables read one event alike: whoever is notified has it in his own feed (members of a group *)
(* apart, who are told one by one of what is nobody's), and a withdrawal that is refunded, a fee   *)
(* half collected, a session signed out is that in both.                                           *)
TheSinksAgree ==
    \A n \in told, w \in feed : n.event = w.record.event =>
        /\ \/ w.record.owner = n.to
           \/ w.record.owner = Nobody /\ ListIn(n.event, "userIds") # {}
        /\ n.event.topic \in TwoFacts => ToldSecond(n) = w.record.second

(* What mentions an erased user was written after the erasure, by an event that it overtook.       *)
ErasureIsComplete ==
    \A w \in feed, u \in erasedA : Mentions(w.record, u) => u \in w.since

-----------------------------------------------------------------------------
SameNews(a, b) ==
    /\ a.fact = b.fact
    /\ a.topic = b.topic \/ {a.topic, b.topic} \subseteq OneRegister
    /\ a.topic \in Outcomes => (IsVariant(a) <=> IsVariant(b))

(* The producer identifies the fact, in the payload or by the key, or the event stands for itself. *)
(* Where the payload carries a lasting thing, nothing tells one fact about it from the next.       *)
Identified(e) ==
    \/ e.carries = "fact"
    \/ /\ e.carries = "nothing"
       /\ LineOf(e).keyed \in {"fact", "session"} \/ RULES[e.topic].key.fallback = "id"
(* Whatever reports the fact does so under one key: a session that names no device does not. *)
HasOneKey(e) ==
    /\ Identified(e) /\ RULES[e.topic].key # ById
    /\ \/ e.carries = "fact"
       \/ LineOf(e).keyed = "fact" /\ RULES[e.topic].key \in {ThingElseKey, ByKey}

ToldOf(e, u) == \E m \in told : m.to = u /\ SameNews(m.event, e)

(* No notification swallows another fact: whatever is identified was told, by its own event or by  *)
(* one of the same fact and outcome, to everybody it is for.                                       *)
DistinctFactsAreTold ==
    \A e \in heard : \A n \in Notices(e) :
        Identified(e) /\ n.to \notin erasedN => ToldOf(e, n.to)

(* One fact is told once, however many events, of one topic or two, report it; a new session that   *)
(* names no device apart, which is keyed by the session where the device is keyed by itself.       *)
OneFactOneNotice ==
    \A m, n \in told :
        /\ m.to = n.to /\ SameNews(m.event, n.event)
        /\ HasOneKey(m.event) /\ HasOneKey(n.event)
        => m = n

(* Topics whose rules key by a thing that outlives the fact.  As the comments of the rules have     *)
(* it, "each loss is real news" (src/src/notify/catalogue.ts:1998), "a re-link after a revoke is   *)
(* its own message" (:990), and the owner hears of the factor that is removed (:734).              *)
Recurring == {<<"identity", "mfa.added">>, <<"identity", "mfa.removed">>,
              <<"wallet", "link.verified">>, <<"tessera", "parcel.transferred">>}
RecurringFactsAreTold ==
    \A e \in heard : \A n \in Notices(e) :
        e.topic \in Recurring /\ n.to \notin erasedN => ToldOf(e, n.to)
=============================================================================
