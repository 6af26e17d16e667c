--------------------------- MODULE Classification ---------------------------
(***************************************************************************)
(* classify.ts and redact.ts: what the activity feed makes of an event.    *)
(* A classifier says who owns the record, whether a user may see it and    *)
(* which payload keys survive; an event no classifier knows is quarantined.*)
(* Wording (the summaries, the type names) is left out, but for the types  *)
(* that split one topic into two facts.                                    *)
(***************************************************************************)
EXTENDS Wire

(* ---- the owner readers ---- *)
FromKey == [read |-> "key", field |-> ""]
FromPayload == [read |-> "uuid", field |-> "userId"]
FromActor == [read |-> "actor", field |-> ""]
FromSubjectKey == [read |-> "subjectKey", field |-> ""]
FromSubject(f) == [read |-> "subject", field |-> f]
FromUuid(f) == [read |-> "uuid", field |-> f]
NoOwner == [read |-> "none", field |-> ""]

userFromKey(e) == IF Key(e).form = "uuid" THEN Key(e).of ELSE Nobody
userFromPayload(e, f) == UuidIn(e, f)
userFromActor(e) == ActorUser(e)
subjectUser(s) == IF s \in Users THEN s ELSE Nobody
userFromSubjectKey(e) == IF Key(e).form = "subject" THEN subjectUser(Key(e).of) ELSE Nobody
userFromSubjectField(e, f) == subjectUser(SubjectIn(e, f))

(* A classifier. It reads as one fact, or as a second one when a field says so. *)
Row(category, visibility, owner, keys) ==
    [category |-> category, visibility |-> visibility, owner |-> owner, payloadKeys |-> keys,
     second |-> "never"]
Split(by, row) == [row EXCEPT !.second = by]
Operational(category, keys) == Row(category, "internal", NoOwner, keys)

(* ---- the table, producer by producer ---- *)
IdentityClassifiers ==
    "user.registered" :> Row("account", "user", FromKey, {})
    @@ "email.verification_requested" :> Row("account", "user", FromKey, {"linkable"})
    @@ "password.reset_requested" :> Row("security", "user", FromKey, {"linkable", "issuedByOperator"})
    @@ "user.deleted" :> Row("account", "user", FromKey, {})
    @@ "session.created" :> Row("security", "user", FromPayload, {"userId", "device", "ipPrefix"})
    @@ "session.revoked" :> Split("exact", Row("security", "user", FromPayload, {"userId", "reason"}))
    @@ "device.added" :> Row("security", "user", FromPayload, {"userId", "device"})
FactorClassifiers ==
    "mfa.removed" :> Row("security", "user", FromKey, {"wasLast"})
    @@ "mfa.added" :> Row("security", "user", FromKey, {"kind", "replacedPrevious"})
LedgerClassifiers ==
    "entry.posted" :> Row("transfer", "user", FromPayload, {"userId", "amount", "assetCode", "kind"})
    @@ "reconciliation.completed" :> Operational("wallet", {"drift"})

WalletClassifiers ==
    "wallet.created" :> Row("wallet", "user", FromPayload, {"userId", "chain", "network", "origin"})
    @@ "deposit.confirmed" :> Row("deposit", "user", FromPayload,
            {"userId", "amount", "amountFormatted", "assetCode"})
    @@ "deposit.token_uncredited" :> Row("deposit", "user", FromPayload,
            {"userId", "chain", "network", "tokenAddress"})
    @@ "withdrawal.requested" :> Row("withdrawal", "user", FromPayload, {"userId", "amount", "assetCode"})
AddressClassifiers ==
    "deposit_address.assigned" :> Row("deposit", "user", FromPayload,
            {"userId", "assetCode", "chain", "network", "address", "supersedesId"})
    @@ "link.verified" :> Row("wallet", "user", FromPayload, {"userId", "chain", "network", "address"})
    @@ "link.revoked" :> Split("inexact", Row("wallet", "user", FromPayload,
            {"userId", "authorisation", "remaining"}))
MoneyClassifiers ==
    "withdrawal.refunded" :> Row("withdrawal", "user", FromPayload, {"userId"})
    @@ "withdrawal.stuck" :> Row("withdrawal", "user", FromPayload, {"userId", "stuckMinutes"})
    @@ "conversion.completed" :> Row("conversion", "user", FromPayload,
            {"userId", "fromAssetCode", "fromAmount", "fromAmountFormatted",
             "toAssetCode", "toAmount", "toAmountFormatted"})
SettlementClassifiers ==
    "withdrawal.completed" :> Row("withdrawal", "user", FromPayload,
            {"userId", "amount", "assetCode", "transactionHash"})
    @@ "withdrawal.stuck" :> Row("withdrawal", "user", FromPayload, {"userId"})
    @@ "outbound.confirmed" :> Operational("withdrawal", {})
    @@ "outbound.failed" :> Split("exact", Row("withdrawal", "user", FromPayload, {"userId", "refundable"}))
SweepClassifiers ==
    "sweep.completed" :> Operational("wallet", {"chain", "network", "amount", "assetCode"})

WorldsClassifiers ==
    "title.registered" :> Operational("community", {"name"})
    @@ "reward.granted" :> Row("reward", "user", FromPayload, {"userId", "amountShards"})
    @@ "provision.completed" :> Row("ownership", "user", FromUuid("subject"), {"subject"})
    @@ "provision.failed" :> Row("billing", "user", FromUuid("subject"), {"subject"})
EmberkinClassifiers ==
    "achievement.unlocked" :> Row("reward", "user", FromPayload, {"userId", "name"})
    @@ "battle.resolved" :> Row("reward", "user", FromPayload, {"userId", "outcome"})
    @@ "cosmetic.equipped" :> Row("ownership", "user", FromPayload, {"userId"})
    @@ "save.started" :> Row("account", "user", FromPayload, {"userId"})
    @@ "season.started" :> Operational("community", {})
    @@ "reward.granted" :> Row("reward", "user", FromPayload, {"userId", "amount"})
AetherholmClassifiers ==
    "season.opened" :> Operational("community", {"name"})
    @@ "city.founded" :> Row("ownership", "user", FromPayload, {"userId", "name"})
    @@ "building.completed" :> Row("reward", "user", FromPayload, {"userId", "type"})
    @@ "research.completed" :> Row("reward", "user", FromPayload, {"userId"})
    @@ "skerry.provisioned" :> Row("ownership", "user", FromUuid("subject"), {"subject"})
    @@ "battle.resolved" :> Row("ownership", "user", FromUuid("defenderUserId"),
            {"defenderUserId", "cityName", "outcome"})
    @@ "spire.captured" :> Row("reward", "user", FromUuid("holderUserId"), {"holderUserId", "allianceName"})
    @@ "season.sealed" :> Operational("community", {"name"})

BillingClassifiers ==
    [fact \in {"entitlement.granted", "entitlement.revoked"} |->
        Row("billing", "user", FromSubjectKey, {"scope"})]
CustodyClassifiers ==
    [fact \in {"export.requested", "key.exported"} |-> Row("security", "user", FromKey, {})]
MintClassifiers ==
    "deploy.confirmed" :> Row("token", "user", FromPayload, {"userId", "name", "contractAddress"})
    @@ "deploy.funding_requested" :> Operational("token", {"chain", "network"})
MarketClassifiers ==
    "listing.sold" :> Row("market", "user", FromPayload, {"userId", "price", "assetCode"})
    @@ "offer.made" :> Row("market", "user", FromSubject("sellerSubject"),
            {"sellerSubject", "amount", "assetCode"})
CommunityClassifiers ==
    "proposal.executed" :> Row("governance", "user", FromPayload, {"userId", "title"})
    @@ "proposal.opened" :> Operational("governance", {"title"})
    @@ "vote.cast" :> Row("governance", "user", FromSubject("voter"),
            {"voter", "choice", "subjectsCounted"})

BotClassifiers ==
    "bot.created" :> Row("trading", "user", FromActor, {"mode", "strategyId"})
    @@ "bot.started" :> Split("exact", Row("trading", "user", FromActor, {"reservationId"}))
    @@ "bot.paused" :> Row("trading", "user", FromActor, {})
FillClassifiers ==
    "fill.settled" :> Row("trading", "user", FromPayload, {"userId", "side", "entryId"})
    @@ "fee.settled" :> Split("exact", Row("trading", "user", FromActor, {"period", "status"}))
ExchangeClassifiers ==
    "order.filled" :> Split("exact", Row("trading", "user", FromPayload, {"userId", "symbol", "side"}))
    @@ "transfer.settled" :> Split("exact", Row("transfer", "user", FromPayload,
            {"userId", "assetCode", "direction"}))
DevplatformClassifiers ==
    "key.issued" :> Row("api", "user", FromActor, {"display", "environment"})
    @@ "key.revoked" :> Split("nobody", Row("api", "user", FromActor, {"display", "reason"}))
ParcelClassifiers ==
    "parcel.claimed" :> Row("ownership", "user", FromSubject("ownerSubject"), {"ownerSubject", "tier", "tiles"})
    @@ "parcel.fallowed" :> Row("ownership", "user", FromSubject("ownerSubject"), {"ownerSubject"})
    @@ "parcel.transferred" :> Split("exact", Row("ownership", "user", FromSubject("fromSubject"),
            {"fromSubject", "reason"}))
ObjectClassifiers ==
    "object.fired" :> Row("ownership", "user", FromSubject("authorSubject"), {"authorSubject", "category", "c2pa"})
    @@ "object.anchored" :> Row("ownership", "user", FromSubject("authorSubject"),
            {"authorSubject", "transactionHash"})
    @@ "ward.opened" :> Operational("community", {"name", "archetype"})
    @@ "venue.booked" :> Row("market", "user", FromSubject("ownerSubject"), {"ownerSubject", "hours", "priceWei"})
(* Every agora entry reads payload.subject, and never the actor. *)
Voiced(visibility, keys) == Row("community", visibility, FromSubject("subject"), {"subject"} \cup keys)
SquareClassifiers ==
    [fact \in {"post.edited", "post.deleted", "spark.created", "echo.created", "bar.created"} |->
        Voiced("user", {})]
    @@ "post.created" :> Voiced("user", {"kind"})
    @@ "voice.renamed" :> Voiced("user", {"from", "to"})
    @@ "voice.suspended" :> Voiced("user", {"reason"})
    @@ "follow.created" :> Voiced("user", {"state"})
    @@ "circle.created" :> Voiced("user", {"name"})
(* Three nobody owns; the mail request has an owner and stays out of the feed. *)
QuietClassifiers ==
    "whisper.sent" :> Operational("community", {})
    @@ "report.filed" :> Operational("community", {"subjectKind"})
    @@ "moderation.acted" :> Operational("community", {"action"})
    @@ "notification.mail_requested" :> Voiced("internal", {"kind"})

CLASSIFIERS ==
    Of("identity", IdentityClassifiers @@ FactorClassifiers) @@ Of("ledger", LedgerClassifiers)
    @@ Of("wallet", WalletClassifiers @@ AddressClassifiers @@ MoneyClassifiers)
    @@ Of("settlement", SettlementClassifiers @@ SweepClassifiers) @@ Of("worlds", WorldsClassifiers)
    @@ Of("emberkin", EmberkinClassifiers) @@ Of("aetherholm", AetherholmClassifiers)
    @@ Of("billing", BillingClassifiers) @@ Of("custody", CustodyClassifiers) @@ Of("mint", MintClassifiers)
    @@ Of("market", MarketClassifiers) @@ Of("community", CommunityClassifiers)
    @@ Of("trade", BotClassifiers @@ FillClassifiers @@ ExchangeClassifiers)
    @@ Of("devplatform", DevplatformClassifiers) @@ Of("tessera", ParcelClassifiers @@ ObjectClassifiers)
    @@ Of("agora", SquareClassifiers @@ QuietClassifiers)

(* The table is total over the registry. *)
ASSUME EveryTopicIsClassified == DOMAIN CLASSIFIERS = TOPICS

-----------------------------------------------------------------------------
(* The owner a classifier reads out of an event. *)
OwnerBy(owner, e) ==
    CASE owner.read = "key"        -> userFromKey(e)
      [] owner.read = "uuid"       -> userFromPayload(e, owner.field)
      [] owner.read = "actor"      -> userFromActor(e)
      [] owner.read = "subjectKey" -> userFromSubjectKey(e)
      [] owner.read = "subject"    -> userFromSubjectField(e, owner.field)
      [] OTHER                     -> Nobody

(* Which of its two facts a split topic is: decided by an exact value, by its absence, or by the   *)
(* actor being nobody.                                                                             *)
ReadsAs(row, e) ==
    CASE row.second = "exact"   -> e.says = "yes"
      [] row.second = "inexact" -> e.says = "no"
      [] row.second = "nobody"  -> userFromActor(e) = Nobody
      [] OTHER                  -> FALSE

(* redactPayload: of a classified event the declared keys survive; of an unclassified one every    *)
(* value whose syntax alone shows an identifier, so every party it names.                          *)
Keeps(e, keys) == UNION {NamedIn(e, f) : f \in DOMAIN LineOf(e).fields \cap keys}
KeepsShape(e) == UNION {NamedIn(e, f) : f \in DOMAIN LineOf(e).fields}

Classified(e, owner, visibility, names, second) ==
    [event |-> e, owner |-> owner, visibility |-> visibility, urn |-> Key(e).of, names |-> names,
     second |-> second]
quarantine(e) == Classified(e, Nobody, "internal", KeepsShape(e), FALSE)

known(e) == e.topic \in TOPICS
classify(e) ==
    IF ~known(e) THEN quarantine(e)
    ELSE LET row == CLASSIFIERS[e.topic]
             userId == OwnerBy(row.owner, e)
         IN  Classified(e, userId, IF userId = Nobody THEN "internal" ELSE row.visibility,
                        Keeps(e, row.payloadKeys), ReadsAs(row, e))
=============================================================================
