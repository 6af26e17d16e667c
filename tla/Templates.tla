----------------------------- MODULE Templates -----------------------------
(***************************************************************************)
(* notify/templates.ts without its words: what each message is about, what *)
(* it prints, where its link leads, and which of its parameters is a       *)
(* credential.                                                             *)
(***************************************************************************)
EXTENDS FiniteSets, TLC

(* A message whose link is a page of the product. *)
Prints(category, params) ==
    [category |-> category, params |-> params, secretParams |-> {}, deliverOn |-> {}, path |-> {}]
(* A message whose link is one of its parameters. *)
Links(row, param) == [row EXCEPT !.path = {param}]
(* One whose parameter is a credential: it may leave by mail alone. *)
Credential(row, param) == [row EXCEPT !.secretParams = {param}, !.deliverOn = {"email"}]

SecurityTemplates ==
    "security.new_device" :> Prints("security", {"device", "ipPrefix", "at"})
    @@ "security.session_revoked" :> Prints("security", {"reason", "at"})
    @@ "security.password_reset" :>
        Credential(Links(Prints("security", {"handle", "resetUrl"}), "resetUrl"), "resetUrl")
    @@ "security.mfa_changed" :> Prints("security", {"change", "at", "remainingFactors"})
    @@ "security.wallet_link_verified" :> Prints("security", {"chain", "address", "at"})
    @@ "security.wallet_link_revoked" :> Prints("security", {"authorisation", "walletId", "at"})
    @@ "security.key_export_requested" :> Prints("security", {"walletLabel", "at", "availableAt"})
    @@ "security.key_exported" :> Prints("security", {"walletLabel", "at"})
AccountTemplates ==
    "account.registered" :> Prints("account", {"handle"})
    @@ "account.verify_email" :>
        Credential(Links(Prints("account", {"handle", "verifyUrl"}), "verifyUrl"), "verifyUrl")
    @@ "wallet.created" :> Prints("wallet", {"walletLabel", "chain"})
    @@ "deposit.confirmed" :> Prints("deposit", {"amount", "asset"})
    @@ "deposit.token_uncredited" :> Prints("deposit", {"chain", "contract", "txHash"})
WithdrawalTemplates ==
    "withdrawal.requested" :> Prints("withdrawal", {"amount", "asset", "destination", "at"})
    @@ "withdrawal.completed" :> Prints("withdrawal", {"amount", "asset", "destination", "txHash"})
    @@ [t \in {"withdrawal.failed_held", "withdrawal.failed_refunded", "withdrawal.stuck",
               "withdrawal.stuck_sent"} |-> Prints("withdrawal", {"withdrawalId", "reason", "at"})]
TradeTemplates ==
    "transfer.posted" :> Prints("transfer", {"amount", "asset", "description"})
    @@ "market.offer_received" :> Prints("market", {"amount", "asset", "listingId"})
    @@ "market.sale" :> Prints("market", {"itemName", "amount", "asset"})
    @@ "token.deployed" :> Prints("token", {"tokenName", "address", "chain"})
    @@ "trading.bot_paused" :> Prints("trading", {"botLabel", "at"})
    @@ [t \in {"trading.fee_charged", "trading.fee_charged_partial"} |->
            Prints("trading", {"botLabel", "period", "at"})]
ServiceTemplates ==
    [t \in {"transfer.exchange_deposit", "transfer.exchange_withdrawal"} |->
            Prints("transfer", {"asset", "at"})]
    @@ "api.key_issued" :> Prints("api", {"keyDisplay", "project", "at"})
    @@ "api.key_revoked" :> Prints("api", {"keyDisplay", "project", "at", "reason"})
    @@ "reward.granted" :> Prints("reward", {"rewardName", "titleName"})
    @@ "provision.failed" :> Prints("billing", {"entitlementId"})
    @@ "community.proposal" :> Prints("community", {"communityName", "proposalTitle", "status"})
    @@ "governance.vote" :>
            Prints("governance", {"communityName", "proposalTitle", "choice", "weight"})
    @@ "billing.entitlement_granted" :> Prints("billing", {"productName"})
    @@ "billing.entitlement_revoked" :> Prints("billing", {"productName", "reason"})
WorldTemplates ==
    "ownership.battle_report" :> Prints("ownership", {"cityName", "outcome", "at"})
    @@ "reward.heraldry" :> Prints("reward", {"seasonName"})
    @@ "tessera.object_fired" :> Prints("ownership", {"objectCategory", "checksum"})
    @@ "tessera.object_anchored" :> Prints("ownership", {"transactionHash", "blockNumber"})
    @@ [t \in {"tessera.parcel_lost", "tessera.parcel_contested"} |->
            Prints("ownership", {"parcelId", "wardId"})]
    @@ "tessera.venue_booked" :> Prints("ownership", {"parcelId", "slot"})
SquareTemplates ==
    "agora.notification" :> Links(Prints("community", {"headline", "url"}), "url")
    @@ "agora.moderation" :> Links(Prints("community", {"detail", "url"}), "url")
    @@ "system.incident" :> Prints("system", {"title", "status", "affected"})
    @@ "system.broadcast" :> Prints("system", {"title", "message"})
    @@ "digest.summary" :> Prints("system", {"count", "period", "items"})

TEMPLATES == SecurityTemplates @@ AccountTemplates @@ WithdrawalTemplates @@ TradeTemplates
             @@ ServiceTemplates @@ WorldTemplates @@ SquareTemplates
templateFor(id) == TEMPLATES[id]

(* Whatever prints a credential is mail and nothing else. *)
ASSUME CredentialsAreMail ==
    \A id \in DOMAIN TEMPLATES : templateFor(id).secretParams # {} =>
        /\ templateFor(id).deliverOn = {"email"}
        /\ templateFor(id).secretParams \subseteq templateFor(id).params

-----------------------------------------------------------------------------
(* The parameters of a message that reading its row back gives: credentials are blanked. *)
redactSecretParams(id, params) == params \ templateFor(id).secretParams
(* What is on the page of a message: its parameters, and those its link is made of, which is no    *)
(* link at all where the link is the credential.                                                   *)
describeNotification(id, params) ==
    LET pathIsCredential == templateFor(id).path \cap templateFor(id).secretParams # {}
    IN  IF pathIsCredential THEN params ELSE params \cup templateFor(id).path

(* Neither gives a reader the credential: it is blanked, and a link made of it is left out.        *)
ASSUME PagesShowNoCredential ==
    \A id \in DOMAIN TEMPLATES :
        describeNotification(id, redactSecretParams(id, templateFor(id).params))
            \cap templateFor(id).secretParams = {}
=============================================================================
