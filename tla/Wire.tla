-------------------------------- MODULE Wire --------------------------------
(***************************************************************************)
(* The events the estate's producers put on the bus, as this service's     *)
(* comments and test fixtures describe them.  Nothing here is code of this *)
(* repository: it is what the two consumer tables (Classification and      *)
(* Catalogue) read.  A topic is a pair <<producer, fact>>.                 *)
(*                                                                         *)
(* Of an event we keep the people it involves: the OWNER, whose news it is *)
(* (a user, an organisation or service, or nobody at all), and the OTHER   *)
(* party (an attacker, a bidder, a challenger); and where each is named:   *)
(* the envelope key, the actor, or a payload field; and whether the id on  *)
(* it names what happened or the lasting thing it happened to.             *)
(***************************************************************************)
EXTENDS FiniteSets, TLC

CONSTANTS
    Users,      \* people
    Org,        \* a subject that is no person: an organisation, a service
    Nobody,     \* the value null
    Facts,      \* what can have happened
    Thing,      \* the lasting thing it happened to: a wallet, a bot, a parcel (bound: one)
    SessionOf,  \* the session in which a fact came about (bound: one for each fact)
    Chain,      \* a key that many events share and that names nobody
    EventIds

ASSUME PartiesAreDistinct ==
    /\ {Org, Nobody} \cap Users = {} /\ Org # Nobody
    /\ Facts \cap {Chain, Thing} = {}
    /\ (Facts \cup EventIds \cup {Chain, Thing}) \cap (Users \cup {Org, Nobody}) = {}
    /\ EventIds \cap (Facts \cup {Chain, Thing}) = {}
(* A session has an id of its own. *)
ASSUME SessionsAreDistinct ==
    /\ \A f \in Facts : SessionOf[f] \notin
            Facts \cup EventIds \cup {Chain, Thing, Org, Nobody} \cup Users
    /\ \A f, g \in Facts : SessionOf[f] = SessionOf[g] => f = g

(* A payload value naming a party: a bare uuid, a subject user:<uuid>, or a list of uuids. *)
Id(role) == [form |-> "uuid", role |-> role]
Subj(role) == [form |-> "subject", role |-> role]
Ids(role) == [form |-> "list", role |-> role]

Sends(keyed, actor, fields) ==
    [keyed |-> keyed, names |-> "fact", actor |-> actor, fields |-> fields]
KeyedByThing(row) == [row EXCEPT !.keyed = "thing"]     \* the key is the wallet, the listing, ...
NamesThing(row) == [row EXCEPT !.names = "thing"]     \* the payload carries no other id either
NamesEither(row) == [row EXCEPT !.names = "either"]     \* the payload carries the one or the other
Nothing == <<>>
UserId == "userId" :> Id("owner")
Plain == Sends("fact", "service", UserId)      \* the payload names the user
ByOwner == Sends("fact", "owner", UserId)        \* and so does the actor
ActorOnly == Sends("fact", "owner", Nothing)       \* only the actor does
UserKeyed == Sends("user", "owner", Nothing)        \* only the key does
Ownerless == Sends("fact", "service", Nothing)
SubjectOf(field, actor) == Sends("fact", actor, field :> Subj("owner"))

(* The table of one producer, under its name. *)
Of(producer, table) == [t \in {<<producer, fact>> : fact \in DOMAIN table} |-> table[t[2]]]
(* Every fact of a set is sent the same way. *)
Each(facts, row) == [fact \in facts |-> row]

IdentitySends ==
    Each({"user.deleted", "email.verification_requested", "password.reset_requested"},
         Sends("user", "owner", UserId))
    @@ "user.registered" :> NamesThing(Sends("user", "owner", UserId))
    @@ "session.created" :> Sends("session", "owner", UserId) @@ "device.added" :> ByOwner
    @@ "session.revoked" :> Plain
    @@ Each({"mfa.added", "mfa.removed"}, NamesThing(UserKeyed))
(* The export or its wallet; the key or its wallet, which both outlive the export. *)
CustodySends == "export.requested" :> NamesEither(UserKeyed) @@ "key.exported" :> NamesThing(UserKeyed)

LedgerSends == "entry.posted" :> Plain @@ "reconciliation.completed" :> Ownerless
WalletSends ==
    Each({"wallet.created", "withdrawal.requested", "conversion.completed"}, ByOwner)
    @@ Each({"link.verified", "link.revoked"}, NamesThing(KeyedByThing(ByOwner)))
    @@ Each({"deposit.confirmed", "deposit.token_uncredited", "deposit_address.assigned"},
            KeyedByThing(Plain))
    @@ Each({"withdrawal.refunded", "withdrawal.stuck"}, Plain)
SettlementSends ==
    Each({"withdrawal.completed", "outbound.failed", "sweep.completed"}, Plain)
    @@ "withdrawal.stuck" :> Sends("chain", "service", UserId)
    @@ "outbound.confirmed" :> Ownerless

WorldsSends ==
    "title.registered" :> Ownerless @@ "reward.granted" :> Plain
    @@ Each({"provision.completed", "provision.failed"},
            Sends("fact", "service", "subject" :> Id("owner")))
EmberkinSends ==
    Each({"achievement.unlocked", "battle.resolved", "cosmetic.equipped", "save.started"}, ByOwner)
    @@ "reward.granted" :> Plain @@ "season.started" :> Ownerless
(* The battle's actor is the attacker; an alliance holds a spire as a group, and no holder is named. *)
AetherholmSends ==
    Each({"season.opened", "season.sealed"}, Ownerless)
    @@ Each({"city.founded", "building.completed", "research.completed"}, ByOwner)
    @@ "skerry.provisioned" :> Sends("fact", "service", "subject" :> Id("owner"))
    @@ "battle.resolved" :> Sends("fact", "other",
            "attackerUserId" :> Id("other") @@ "defenderUserId" :> Id("owner"))
    @@ "spire.captured" :> Sends("fact", "service",
            "holderUserId" :> Id("owner") @@ "userIds" :> Ids("members"))

BillingSends == Each({"entitlement.granted", "entitlement.revoked"}, Sends("subject", "service", UserId))
MintSends == "deploy.confirmed" :> Plain @@ "deploy.funding_requested" :> Ownerless
(* The bidder is the actor of an offer and the second subject on its payload. *)
MarketSends ==
    "listing.sold" :> Sends("fact", "other", UserId)
    @@ "offer.made" :> KeyedByThing(Sends("fact", "other",
            "sellerSubject" :> Subj("owner") @@ "offererSubject" :> Subj("other")))
CommunitySends ==
    "proposal.opened" :> Sends("fact", "service", "userIds" :> Ids("members"))
    @@ "proposal.executed" :> Sends("fact", "service", UserId @@ "userIds" :> Ids("members"))
    @@ "vote.cast" :> NamesThing(KeyedByThing(SubjectOf("voter", "owner")))

TradeSends ==
    Each({"bot.created", "bot.started", "bot.paused"}, NamesThing(KeyedByThing(ActorOnly)))
    @@ "fee.settled" :> ActorOnly
    @@ Each({"fill.settled", "order.filled", "transfer.settled"}, ByOwner)
DevplatformSends == Each({"key.issued", "key.revoked"}, ActorOnly)
TesseraSends ==
    "parcel.claimed" :> NamesThing(KeyedByThing(SubjectOf("ownerSubject", "owner")))
    @@ "parcel.fallowed" :> KeyedByThing(Sends("fact", "other",
            "ownerSubject" :> Subj("owner") @@ "challengerSubject" :> Subj("other")))
    @@ "parcel.transferred" :> NamesThing(KeyedByThing(Sends("fact", "service",
            "fromSubject" :> Subj("owner") @@ "toSubject" :> Subj("other"))))
    @@ Each({"object.fired", "object.anchored"}, SubjectOf("authorSubject", "service"))
    @@ "ward.opened" :> Ownerless
    @@ "venue.booked" :> KeyedByThing(Sends("fact", "other",
            "ownerSubject" :> Subj("owner") @@ "bookedBy" :> Subj("other")))
(* agora suspends a voice as an operator; a report's actor is its reporter. *)
AgoraSends ==
    Each({"post.created", "post.edited", "post.deleted", "spark.created", "echo.created",
          "voice.renamed", "follow.created", "bar.created", "circle.created",
          "notification.mail_requested"}, SubjectOf("subject", "owner"))
    @@ "voice.suspended" :> SubjectOf("subject", "service")
    @@ Each({"whisper.sent", "report.filed"}, Sends("fact", "other", Nothing))
    @@ "moderation.acted" :> Ownerless

(* The topics of the shared registry. *)
Registered ==
    Of("identity", IdentitySends) @@ Of("custody", CustodySends) @@ Of("ledger", LedgerSends)
    @@ Of("wallet", WalletSends) @@ Of("settlement", SettlementSends) @@ Of("worlds", WorldsSends)
    @@ Of("emberkin", EmberkinSends) @@ Of("aetherholm", AetherholmSends)
    @@ Of("billing", BillingSends) @@ Of("mint", MintSends) @@ Of("market", MarketSends)
    @@ Of("community", CommunitySends) @@ Of("trade", TradeSends)
    @@ Of("devplatform", DevplatformSends) @@ Of("tessera", TesseraSends) @@ Of("agora", AgoraSends)
TOPICS == DOMAIN Registered

(* One topic no registry of this build knows: keyed by a user, naming two people in its payload. *)
NewTopic == <<"newcomer", "fact.happened">>
Lines == Registered @@ (NewTopic :> Sends("user", "other",
            "somebody" :> Id("owner") @@ "withWhom" :> Subj("other")))

ErasureTopic == <<"identity", "user.deleted">>

-----------------------------------------------------------------------------
(* An event: id, topic, owner, other party, the fact it reports, which id the payload carries, if   *)
(* any, and what its deciding field says ("yes" the exact value the consumers compare with, "text" *)
(* the same thing misspelt as a string, "no").                                                     *)
Carried == {"fact", "thing", "nothing"}
Says == {"yes", "text", "no"}
EventRecord == [id : EventIds, topic : DOMAIN Lines, owner : Users \cup {Org, Nobody}, other : Users,
                fact : Facts, carries : Carried, says : Says]

LineOf(e) == Lines[e.topic]
(* What the producers are trusted with: where the key is a user's the owner is a user, and so he   *)
(* is where somebody else acts and the payload has a field for him, which is then filled in.       *)
WellFormed(e) ==
    /\ e \in EventRecord /\ e.other # e.owner
    /\ LineOf(e).names = "fact" => e.carries # "thing"
    /\ LineOf(e).names = "thing" => e.carries # "fact"
    /\ \/ LineOf(e).keyed = "user"
       \/ LineOf(e).actor = "other" /\ "userId" \in DOMAIN LineOf(e).fields
       => e.owner \in Users
Party(e, role) == IF role = "owner" THEN e.owner ELSE IF role = "other" THEN e.other ELSE Nobody

(* The envelope key: the id of the fact, of its thing or of the session it came about in, a user,  *)
(* a subject, or a chain that is shared by everybody.                                              *)
Key(e) == CASE LineOf(e).keyed = "user"    -> [form |-> "uuid", of |-> e.owner]
            [] LineOf(e).keyed = "subject" -> [form |-> "subject", of |-> e.owner]
            [] LineOf(e).keyed = "chain"   -> [form |-> "text", of |-> Chain]
            [] LineOf(e).keyed = "thing"   -> [form |-> "uuid", of |-> Thing]
            [] LineOf(e).keyed = "session" -> [form |-> "uuid", of |-> SessionOf[e.fact]]
            [] OTHER                       -> [form |-> "uuid", of |-> e.fact]
(* The id the payload carries, if it carries one. *)
PayloadId(e) == CASE e.carries = "fact"  -> e.fact
                  [] e.carries = "thing" -> Thing
                  [] OTHER               -> Nobody
(* The user the actor names, if it is a person at all. *)
ActorUser(e) == LET p == Party(e, LineOf(e).actor) IN IF p \in Users THEN p ELSE Nobody
(* The string in a field that is to hold a uuid, whoever it names; that string where it is a uuid; *)
(* the user or the other subject in a field; the list in a field.                                  *)
TextIn(e, f) ==
    IF f \in DOMAIN LineOf(e).fields /\ LineOf(e).fields[f].form = "uuid"
    THEN Party(e, LineOf(e).fields[f].role) ELSE Nobody
UuidIn(e, f) == IF TextIn(e, f) \in Users THEN TextIn(e, f) ELSE Nobody
SubjectIn(e, f) ==
    IF f \in DOMAIN LineOf(e).fields /\ LineOf(e).fields[f].form = "subject"
    THEN Party(e, LineOf(e).fields[f].role) ELSE Nobody
ListIn(e, f) ==
    IF f \in DOMAIN LineOf(e).fields /\ LineOf(e).fields[f].form = "list"
    THEN IF e.owner \in Users THEN {e.owner} ELSE Users ELSE {}
(* The people a field's value names. *)
NamedIn(e, f) == ({UuidIn(e, f), SubjectIn(e, f)} \cap Users) \cup ListIn(e, f)

(* Whose news an event is: its owner, or the members it lists. *)
Concerned(e) == ({e.owner} \cap Users) \cup ListIn(e, "userIds")
=============================================================================
