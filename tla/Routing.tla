------------------------------ MODULE Routing ------------------------------
(***************************************************************************)
(* Where a notification goes: src/src/notify/routing.ts, and the two parts *)
(* of src/src/notify/pipeline.ts on either side of it.                     *)
(*                                                                         *)
(* Routes are a function from the channels taken to when each is served;   *)
(* the order of channels, which no decision depends on, is left out.       *)
(* Preferences are those of the notification's category, one per channel.  *)
(***************************************************************************)
EXTENDS Integers, FiniteSets, FiniteSetsExt

CONSTANTS
  Channel,
  FloorChannel  \* in_app, which needs no address

ASSUME FloorIsAChannel == FloorChannel \in Channel
ASSUME ChannelIsFinite == IsFiniteSet(Channel)

Priority == {"critical", "high", "normal", "low"}
PriorityRank == [low |-> 0, normal |-> 1, high |-> 2, critical |-> 3]

Cadence == {"hourly", "daily"}
Digest == {"instant", "off"} \cup Cadence
SuppressionReason == {"channel_disabled", "below_min_priority", "digest_off", "preferences"}

Preference == [enabled : BOOLEAN, digest : Digest, minPriority : Priority]
DefaultPreference == [enabled |-> TRUE, digest |-> "instant", minPriority |-> "low"]

When == {"instant"} \cup Cadence
Routes == UNION {[cs -> When] : cs \in SUBSET Channel}

Deliver(routes) == [kind |-> "deliver", routes |-> routes]
Suppress(reason) == [kind |-> "suppressed", reason |-> reason]

Candidates(available) == available \cup {FloorChannel}

(* Why a preference keeps a notification off its channel, or "none".       *)
Refusal(preference, priority) ==
  CASE ~preference.enabled -> "channel_disabled"
    [] preference.enabled /\ PriorityRank[priority] < PriorityRank[preference.minPriority]
         -> "below_min_priority"
    [] preference.enabled /\ PriorityRank[priority] >= PriorityRank[preference.minPriority]
         /\ preference.digest = "off" -> "digest_off"
    [] OTHER -> "none"

(* One cause is reported by its name, a mixture as "preferences".          *)
DominantReason(reasons) ==
  IF Cardinality(reasons) = 1 THEN CHOOSE r \in reasons : TRUE ELSE "preferences"

ApplyPreferences(priority, available, preferences) ==
  LET taken == {c \in available : Refusal(preferences[c], priority) = "none"}
  IN  IF taken # {}
      THEN Deliver([c \in taken |-> preferences[c].digest])
      ELSE Suppress(DominantReason({Refusal(preferences[c], priority) : c \in available}))

(* Fault: a critical notification goes through the preferences too.        *)
ResolveMuted(priority, available, preferences) ==
  ApplyPreferences(priority, Candidates(available), preferences)

(* A critical notification takes every candidate at once; the preferences  *)
(* are not read.                                                           *)
ResolveRouting(priority, available, preferences) ==
  IF priority = "critical"
  THEN Deliver([c \in Candidates(available) |-> "instant"])
  ELSE ApplyPreferences(priority, Candidates(available), preferences)

(* Fault: a credential is batched like anything else.                      *)
DeliverLater(secret, routing) == routing

(* A template that carries a credential is never batched.                  *)
DeliverNow(secret, routing) ==
  IF routing.kind = "deliver" /\ secret
  THEN Deliver([c \in DOMAIN routing.routes |-> "instant"])
  ELSE routing
=============================================================================
