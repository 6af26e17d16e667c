----------------------------- MODULE Catalogue -----------------------------
(***************************************************************************)
(* notify/catalogue.ts: which events become news, for whom, how urgently,  *)
(* and under which dedupe key.  Parameters, wording and the reasons given  *)
(* for each topic are left out.                                            *)
(***************************************************************************)
EXTENDS Wire, Templates

(* ---- whom a rule tells ---- *)
ForUser == [read |-> "user", field |-> ""]       \* userIdOf
UserOf(field) == [read |-> "subject", field |-> field]
UserIn(field) == [read |-> "uuid", field |-> field]
Members == [read |-> "list", field |-> "userIds"]

(* ---- what a rule keys its notification by: the id the payload carries, or else ... ---- *)
ThingElseKey == [payload |-> TRUE, fallback |-> "key", beside |-> "nothing"]
ThingElseId == [payload |-> TRUE, fallback |-> "id", beside |-> "nothing"]
ByKey == [payload |-> FALSE, fallback |-> "key", beside |-> "nothing"]
ById == [payload |-> FALSE, fallback |-> "id", beside |-> "nothing"]
With(what, key) == [key EXCEPT !.beside = what]

Rule(category, priority, template, to, key) ==
    [category |-> category, priority |-> priority, template |-> template, to |-> to, key |-> key,
     prefix |-> template, applies |-> "always", when |-> "never", variant |-> template,
     louder |-> priority, keyTells |-> FALSE]
KeyTells(rule) == [rule EXCEPT !.keyTells = TRUE]  \* the key names the outcome too
Keyed(prefix, rule) == [rule EXCEPT !.prefix = prefix]
OnlyIf(test, rule) == [rule EXCEPT !.applies = test]
Variant(when, priority, template, rule) ==
    [rule EXCEPT !.when = when, !.variant = template, !.louder = priority]
Critical(template, key) == Rule("security", "critical", template, ForUser, key)

(* ---- the table ---- *)
IdentityRules ==
    "session.created" :> OnlyIf("flag", Critical("security.new_device", ThingElseKey))
    @@ "device.added" :> Critical("security.new_device", ThingElseKey)
    @@ "session.revoked" :> OnlyIf("not exact", Critical("security.session_revoked", ThingElseKey))
    @@ [fact \in {"mfa.removed", "mfa.added"} |-> Critical("security.mfa_changed", ThingElseId)]
CustodyRules ==
    "export.requested" :> Critical("security.key_export_requested", ThingElseId)
    @@ "key.exported" :> Critical("security.key_exported", ThingElseId)
AccountRules ==
    "user.registered" :> Rule("account", "normal", "account.registered", ForUser, ByKey)
    @@ "email.verification_requested" :> Rule("account", "high", "account.verify_email", ForUser, ById)
    @@ "password.reset_requested" :>
        OnlyIf("exact", Rule("security", "high", "security.password_reset", ForUser, ById))
LinkRules ==
    "withdrawal.requested" :>
        Rule("withdrawal", "critical", "withdrawal.requested", ForUser, ThingElseId)
    @@ "link.verified" :> Rule("security", "high", "security.wallet_link_verified", ForUser, ThingElseKey)
    @@ "link.revoked" :> Rule("security", "high", "security.wallet_link_revoked", ForUser, ThingElseKey)
    @@ "wallet.created" :> Rule("wallet", "normal", "wallet.created", ForUser, ThingElseKey)
DepositRules ==
    "deposit.confirmed" :> Rule("deposit", "high", "deposit.confirmed", ForUser, ThingElseId)
    @@ "deposit.token_uncredited" :>
        Rule("deposit", "high", "deposit.token_uncredited", ForUser, ThingElseId)
SettlementRules ==
    "withdrawal.completed" :> Rule("withdrawal", "high", "withdrawal.completed", ForUser, ByKey)
    @@ "withdrawal.stuck" :> KeyTells(Variant("present", "high", "withdrawal.stuck_sent",
            Rule("withdrawal", "high", "withdrawal.stuck", ForUser, ThingElseId)))
OutboundRules ==
    "outbound.failed" :> KeyTells(Variant("exact", "high", "withdrawal.failed_refunded",
            Rule("withdrawal", "critical", "withdrawal.failed_held", ForUser, ThingElseKey)))
LedgerRules ==
    "entry.posted" :> OnlyIf("user named", Rule("transfer", "low", "transfer.posted", ForUser, ThingElseId))

(* A partial collection reads differently and is keyed alike. *)
FeeRules ==
    "bot.paused" :> Rule("trading", "high", "trading.bot_paused", ForUser, ThingElseKey)
    @@ "fee.settled" :> Variant("exact", "high", "trading.fee_charged_partial",
            Rule("trading", "high", "trading.fee_charged", ForUser, ThingElseKey))
TransferRules ==
    "transfer.settled" :> KeyTells(Variant("exact", "normal", "transfer.exchange_withdrawal",
            Rule("transfer", "normal", "transfer.exchange_deposit", ForUser, ThingElseKey)))
DevplatformRules ==
    "key.issued" :> Rule("api", "high", "api.key_issued", ForUser, ThingElseKey)
    @@ "key.revoked" :> Rule("api", "high", "api.key_revoked", ForUser, ThingElseKey)
MarketRules ==
    "offer.made" :> Rule("market", "normal", "market.offer_received", UserOf("sellerSubject"), ThingElseId)
    @@ "listing.sold" :> Rule("market", "high", "market.sale", ForUser, ByKey)
MintRules == "deploy.confirmed" :> Rule("token", "high", "token.deployed", ForUser, ByKey)
WorldsRules ==
    "provision.failed" :> Rule("billing", "high", "provision.failed", UserIn("subject"), ThingElseKey)
    @@ "reward.granted" :> Rule("reward", "normal", "reward.granted", ForUser, ThingElseId)
EmberkinRules ==
    "reward.granted" :> Keyed("emberkin.reward",
            Rule("reward", "normal", "reward.granted", ForUser, ThingElseKey))
(* What becomes of a proposal is part of the key. *)
CommunityRules ==
    "proposal.opened" :> Keyed("community.proposal:open",
            Rule("community", "normal", "community.proposal", Members, ThingElseId))
    @@ "proposal.executed" :> Keyed("community.proposal:executed",
            Rule("community", "normal", "community.proposal", Members, ThingElseId))
    @@ "vote.cast" :> Rule("governance", "normal", "governance.vote", ForUser,
            With("event", ThingElseKey))
BillingRules ==
    "entitlement.granted" :> Rule("billing", "normal", "billing.entitlement_granted", ForUser, ThingElseId)
    @@ "entitlement.revoked" :> Rule("billing", "high", "billing.entitlement_revoked", ForUser, ThingElseId)
AetherholmRules ==
    "battle.resolved" :> Keyed("aetherholm.battle", Rule("ownership", "high",
            "ownership.battle_report", UserIn("defenderUserId"), ThingElseKey))
    @@ "spire.captured" :> Keyed("aetherholm.spire",
            Rule("reward", "normal", "reward.heraldry", Members,
                 With("season", ThingElseKey)))
ObjectRules ==
    "object.fired" :> Rule("ownership", "normal", "tessera.object_fired", UserOf("authorSubject"), ThingElseKey)
    @@ "object.anchored" :>
        Rule("ownership", "normal", "tessera.object_anchored", UserOf("authorSubject"), ThingElseKey)
(* A lost parcel is keyed by parcel and loser. *)
ParcelRules ==
    "parcel.transferred" :> OnlyIf("exact",
            Rule("ownership", "high", "tessera.parcel_lost", UserOf("fromSubject"),
                 With("user", ThingElseKey)))
    @@ "parcel.fallowed" :>
        Rule("ownership", "high", "tessera.parcel_contested", UserOf("ownerSubject"), ThingElseKey)
    @@ "venue.booked" :>
        Rule("ownership", "high", "tessera.venue_booked", UserOf("ownerSubject"),
             With("slot", ThingElseKey))
SquareRules ==
    "notification.mail_requested" :> Variant("exact", "normal", "agora.moderation",
            Rule("community", "low", "agora.notification", UserOf("subject"), ThingElseKey))

RULES ==
    Of("identity", IdentityRules @@ AccountRules) @@ Of("custody", CustodyRules)
    @@ Of("wallet", LinkRules @@ DepositRules) @@ Of("settlement", SettlementRules @@ OutboundRules)
    @@ Of("ledger", LedgerRules) @@ Of("trade", FeeRules @@ TransferRules)
    @@ Of("devplatform", DevplatformRules) @@ Of("market", MarketRules) @@ Of("mint", MintRules)
    @@ Of("worlds", WorldsRules) @@ Of("emberkin", EmberkinRules) @@ Of("community", CommunityRules)
    @@ Of("billing", BillingRules) @@ Of("aetherholm", AetherholmRules)
    @@ Of("tessera", ObjectRules @@ ParcelRules) @@ Of("agora", SquareRules)

(* Topics that are answered no, on purpose. *)
Silent(producer, facts) == {<<producer, fact>> : fact \in facts}
NON_NOTIFYING_TOPICS ==
    {ErasureTopic} \cup Silent("wallet", {"deposit_address.assigned", "withdrawal.refunded",
                                          "withdrawal.stuck", "conversion.completed"})
    \cup Silent("worlds", {"title.registered", "provision.completed"})
    \cup Silent("emberkin", {"achievement.unlocked", "battle.resolved", "cosmetic.equipped",
                             "save.started", "season.started"})
    \cup Silent("aetherholm", {"season.opened", "city.founded", "building.completed",
                               "research.completed", "skerry.provisioned", "season.sealed"})
    \cup Silent("ledger", {"reconciliation.completed"})
    \cup Silent("settlement", {"outbound.confirmed", "sweep.completed"})
    \cup Silent("tessera", {"parcel.claimed", "ward.opened"})
    \cup Silent("trade", {"bot.created", "bot.started", "fill.settled", "order.filled"})
    \cup Silent("agora", {"post.created", "post.edited", "post.deleted", "spark.created",
                          "echo.created", "voice.renamed", "voice.suspended", "follow.created",
                          "bar.created", "circle.created", "whisper.sent", "report.filed",
                          "moderation.acted"})
    \cup Silent("mint", {"deploy.funding_requested"})
ERASURE_TOPICS == {ErasureTopic}
hasRule(topic) == topic \in DOMAIN RULES
isKnownTopic(topic) == hasRule(topic) \/ topic \in ERASURE_TOPICS \cup NON_NOTIFYING_TOPICS

(* Every registered topic was decided, one way only, and no rule is for a topic nobody registered. *)
unmappedRegistryTopics == {topic \in TOPICS : ~isKnownTopic(topic)}
unregisteredRuleTopics == DOMAIN RULES \ TOPICS
ASSUME EveryTopicIsDecided ==
    unmappedRegistryTopics \cup unregisteredRuleTopics \cup (DOMAIN RULES \cap NON_NOTIFYING_TOPICS) = {}
(* Preferences and retention go by the category of the message, routing by that of the rule. *)
outcomesOf(rule) == {rule.template, rule.variant}
ASSUME CategoriesAgree == \A topic \in DOMAIN RULES : \A id \in outcomesOf(RULES[topic]) :
    templateFor(id).category = RULES[topic].category

-----------------------------------------------------------------------------
(* Exact comparisons, a flag that is also read from the word "true", and any text at all. *)
flag(e) == e.says \in {"yes", "text"}
wasBroadcast(e) == e.says # "no"
(* Fault: the word "true" is taken for the value, as a flag would. *)
refundedLoosely(e) == e.says \in {"yes", "text"}
refunded(e) == e.says = "yes"
Decides(test, e) ==
    CASE test = "always"     -> TRUE
      [] test = "never"      -> FALSE
      [] test = "flag"       -> flag(e)
      [] test = "present"    -> wasBroadcast(e)
      [] test = "exact"      -> refunded(e)
      [] test = "not exact"  -> ~refunded(e)
      [] test = "user named" -> TextIn(e, "userId") # Nobody

(* Whether the variant is what is told, and what that comes to. *)
IsVariant(e) == Decides(RULES[e.topic].when, e)
outcomeOf(e) == LET rule == RULES[e.topic] IN
    IF IsVariant(e) THEN [priority |-> rule.louder, template |-> rule.variant]
    ELSE [priority |-> rule.priority, template |-> rule.template]

(* Fault: whoever acted comes first. *)
userIdOfActor(e) == IF ActorUser(e) # Nobody THEN ActorUser(e) ELSE TextIn(e, "userId")
(* The user of an event: whomever the payload names, the key where it is a user's, the actor. *)
userIdOf(e) ==
    IF TextIn(e, "userId") # Nobody THEN TextIn(e, "userId")
    ELSE IF LineOf(e).keyed = "user" /\ Key(e).of # Nobody THEN Key(e).of
    ELSE ActorUser(e)
userOfSubject(s) == IF s \in Users THEN s ELSE Nobody
membersOf(e, field) == ListIn(e, field)
(* What is read as a user's id may be no user's. *)
recipients(e) ==
    LET rule == RULES[e.topic] IN
    IF ~Decides(rule.applies, e) THEN {}
    ELSE (CASE rule.to.read = "user"    -> {userIdOf(e)}
            [] rule.to.read = "subject" -> {userOfSubject(SubjectIn(e, rule.to.field))}
            [] rule.to.read = "uuid"    -> {TextIn(e, rule.to.field)}
            [] OTHER                    -> membersOf(e, rule.to.field)) \ {Nobody}

Fallback(key, e) == IF key.fallback = "id" THEN e.id ELSE Key(e).of
Named(key, e) == IF key.payload /\ PayloadId(e) # Nobody THEN PayloadId(e) ELSE Fallback(key, e)
Beside(key, e, to) == CASE key.beside = "user"  -> to
                        [] key.beside = "event" ->
                            IF TextIn(e, "userId") # Nobody THEN TextIn(e, "userId") ELSE e.id
                        [] key.beside = "season" /\ PayloadId(e) = Nobody -> e.id
                        [] key.beside = "slot" /\ PayloadId(e) = Nobody -> e.fact
                        [] OTHER -> Nobody
dedupeKey(e, to) == LET rule == RULES[e.topic] IN
    <<IF rule.keyTells /\ IsVariant(e) THEN rule.variant ELSE rule.prefix,
      Named(rule.key, e), Beside(rule.key, e, to)>>

(* The notifications an event makes. *)
Notices(e) == IF ~hasRule(e.topic) THEN {}
    ELSE {[to |-> u, key |-> dedupeKey(e, u), event |-> e, second |-> IsVariant(e)] : u \in recipients(e)}
=============================================================================
