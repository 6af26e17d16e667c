------------------------- MODULE NotificationsProofs -------------------------
(***************************************************************************)
(* Theorems about Notifications, for every finite set of channels, every   *)
(* set of events, users, addresses, preferences and handlers.              *)
(***************************************************************************)
EXTENDS Notifications, FiniteSetTheorems, TLAPS

(***************************************************************************)
(* Routing.                                                                *)
(***************************************************************************)


LEMMA RefusalsAreTyped ==
  ASSUME NEW p \in Preference, NEW priority \in Priority
  PROVE  /\ Refusal(p, priority) \in SuppressionReason \cup {"none"}
         /\ Refusal(p, priority) = "none" => p.digest \in When
<1>1. PriorityRank[priority] \in Nat /\ PriorityRank[p.minPriority] \in Nat
  BY DEF Priority, PriorityRank, Preference
<1>2. p.enabled \in BOOLEAN /\ p.digest \in Digest
  BY DEF Preference
<1> DEFINE i == PriorityRank[priority]
           j == PriorityRank[p.minPriority]
<1>3. i < j \/ i >= j
  BY <1>1
<1> HIDE DEF i, j
<1>4. i < j => ~(i >= j)
  BY <1>1 DEF i, j
<1>5. Refusal(p, priority) = 
        CASE ~p.enabled -> "channel_disabled"
          [] p.enabled /\ i < j -> "below_min_priority"
          [] p.enabled /\ i >= j /\ p.digest = "off" -> "digest_off"
          [] OTHER -> "none"
  BY DEF Refusal, i, j
<1>6. CASE ~p.enabled
  BY <1>5, <1>6 DEF SuppressionReason
<1>7. CASE p.enabled /\ i < j
  BY <1>5, <1>7, <1>4 DEF SuppressionReason
<1>8. CASE p.enabled /\ ~(i < j) /\ p.digest = "off"
  BY <1>5, <1>8, <1>3 DEF SuppressionReason
<1>9. CASE p.enabled /\ ~(i < j) /\ p.digest # "off"
  BY <1>2, <1>5, <1>9 DEF SuppressionReason, Digest, When
<1> QED BY <1>6, <1>7, <1>8, <1>9, <1>2

(* What the preferences come to: routes that take some channel, each at a  *)
(* cadence that is served, or a reason.                                    *)
LEMMA PreferencesDecide ==
  ASSUME NEW priority \in Priority, NEW chosen \in [Channel -> Preference],
         NEW available \in SUBSET Channel, available # {},
         NEW routing, routing = ApplyPreferences(priority, available, chosen)
  PROVE  \/ \E taken \in SUBSET Channel : \E routes \in [taken -> When] :
              taken # {} /\ routing = Deliver(routes)
         \/ \E reason \in SuppressionReason : routing = Suppress(reason)
<1> DEFINE taken == {c \in available : Refusal(chosen[c], priority) = "none"}
           routes == [c \in taken |-> chosen[c].digest]
           reasons == {Refusal(chosen[c], priority) : c \in available}
<1>1. CASE taken # {}
  <2>1. \A c \in taken : chosen[c].digest \in When
    BY RefusalsAreTyped
  <2>2. taken \in SUBSET Channel /\ routes \in [taken -> When]
    BY <2>1
  <2>3. routing = Deliver(routes)
    BY <1>1 DEF ApplyPreferences
  <2> QED BY <1>1, <2>2, <2>3
<1>2. CASE taken = {}
  <2>1. reasons \subseteq SuppressionReason /\ reasons # {}
    BY <1>2, RefusalsAreTyped
  <2>2. DominantReason(reasons) \in SuppressionReason
    <3>1. (CHOOSE r \in reasons : TRUE) \in reasons
      BY <2>1
    <3> HIDE DEF reasons
    <3> QED BY <2>1, <3>1 DEF DominantReason, SuppressionReason
  <2>3. routing = Suppress(DominantReason(reasons))
    BY <1>2 DEF ApplyPreferences
  <2> QED BY <2>2, <2>3
<1> QED BY <1>1, <1>2

(* The same for the whole decision; a critical notification takes the      *)
(* floor channel, and it and a credential are served at once.              *)
Lawful(routing, priority, secret) ==
  \/ \E taken \in SUBSET Channel : \E routes \in [taken -> When] :
       /\ taken # {} /\ routing = Deliver(routes)
       /\ priority = "critical" => FloorChannel \in taken
       /\ priority = "critical" \/ secret => \A c \in taken : routes[c] = "instant"
  \/ /\ priority # "critical"
     /\ \E reason \in SuppressionReason : routing = Suppress(reason)

LEMMA RoutingDecides ==
  ASSUME NEW priority \in Priority, NEW chosen \in [Channel -> Preference],
         NEW available \in SUBSET Channel, NEW secret \in BOOLEAN
  PROVE  Lawful(DeliverNow(secret, ResolveRouting(priority, available, chosen)), priority, secret)
<1> DEFINE candidates == Candidates(available)
           resolved == ResolveRouting(priority, available, chosen)
           routing == DeliverNow(secret, resolved)
<1> SUFFICES Lawful(routing, priority, secret)
  OBVIOUS
<1>1. candidates \in SUBSET Channel /\ FloorChannel \in candidates
  BY FloorIsAChannel DEF Candidates
<1>2. CASE priority = "critical"
  <2> DEFINE routes == [c \in candidates |-> "instant"]
  <2>1. routes \in [candidates -> When] /\ \A c \in candidates : routes[c] = "instant"
    BY DEF When
  <2>2. resolved = Deliver(routes)
    BY <1>2 DEF ResolveRouting
  <2>3. DeliverNow(secret, Deliver(routes)) = Deliver(routes)
    BY DEF DeliverNow, Deliver
  <2> QED BY <1>1, <1>2, <2>1, <2>2, <2>3 DEF Lawful
<1>3. CASE priority # "critical"
  <2>1. resolved = ApplyPreferences(priority, candidates, chosen)
    BY <1>3 DEF ResolveRouting
  <2> HIDE DEF candidates, resolved
  <2>2. CASE \E reason \in SuppressionReason : resolved = Suppress(reason)
    <3>1. routing = resolved
      BY <2>2 DEF DeliverNow, Suppress, resolved
    <3> QED BY <1>3, <2>2, <3>1 DEF Lawful
  <2>3. CASE \E taken \in SUBSET Channel : \E routes \in [taken -> When] :
               taken # {} /\ resolved = Deliver(routes)
    <3>1. PICK taken \in SUBSET Channel : \E routes \in [taken -> When] :
                 taken # {} /\ resolved = Deliver(routes)
      BY <2>3
    <3>2. PICK routes \in [taken -> When] : taken # {} /\ resolved = Deliver(routes)
      BY <3>1
    <3>3. DOMAIN routes = taken
      BY <3>2
    <3> DEFINE now == [c \in taken |-> "instant"]
    <3>4. now \in [taken -> When]
      BY DEF When
    <3>5. CASE secret
      <4>1. routing = Deliver(now)
        BY <3>2, <3>3, <3>5 DEF DeliverNow, Deliver, resolved
      <4> QED BY <1>3, <3>2, <3>4, <4>1 DEF Lawful
    <3>6. CASE ~secret
      <4>1. routing = Deliver(routes)
        BY <3>2, <3>6 DEF DeliverNow, resolved
      <4> QED BY <1>3, <3>2, <3>6, <4>1 DEF Lawful
    <3> QED BY <3>5, <3>6
  <2> QED BY <1>1, <2>1, <2>2, <2>3, PreferencesDecide
<1> QED BY <1>2, <1>3

(***************************************************************************)
(* A notification, as it is inserted and as an erasure may leave it.       *)
(***************************************************************************)

Reaches(n) ==
  n.priority = "critical" =>
    n.suppressed = None /\ n.batched = {} /\ <<FloorChannel, None>> \in n.deliveries
Counted(n) == Cardinality(ChannelsOf(n)) <= n.count /\ (n.count = 0 <=> n.suppressed # None)
Exact(n) == Cardinality(ChannelsOf(n)) = n.count
Unbatched(n) == n.secret => n.batched = {}
Good(n) == n \in Notification /\ Reaches(n) /\ Counted(n) /\ Unbatched(n)
Fresh(n) == Good(n) /\ Exact(n)

States == [Address -> {"unknown", "active", "retired"}]

LEMMA EventsAreTyped ==
  ASSUME NEW e \in Event
  PROVE  /\ e \in EventType /\ e.recipients \in Seq(User) /\ Len(e.recipients) \in Nat
         /\ Len(e.recipients) >= 1 /\ Subject(e) \in User
         /\ \A i \in 1 .. Len(e.recipients) : e.recipients[i] \in User
<1>1. e \in EventType /\ e.recipients # <<>>
  BY EventsTyped
<1>2. e.recipients \in Seq(User)
  BY <1>1 DEF EventType
<1>3. Len(e.recipients) \in Nat /\ Len(e.recipients) >= 1
  BY <1>1, <1>2
<1>4. \A i \in 1 .. Len(e.recipients) : e.recipients[i] \in User
  BY <1>2, <1>3
<1> QED BY <1>1, <1>2, <1>3, <1>4 DEF Subject

(* One delivery at least on each channel served at once, none on others.   *)
LEMMA DeliveriesReach ==
  ASSUME NEW taken \in SUBSET Channel, NEW routes \in [taken -> When], NEW states \in States,
         NEW made, made = DeliveriesFor(routes, states)
  PROVE  /\ made \subseteq Channel \X (Address \cup {None})
         /\ {d[1] : d \in made} = {c \in taken : routes[c] = "instant"}
         /\ FloorChannel \in taken /\ routes[FloorChannel] = "instant"
              => <<FloorChannel, None>> \in made
<1> DEFINE instant == {c \in taken : routes[c] = "instant"}
           active == Active(states)
           addressed == IF active = {} THEN {} ELSE instant \cap {Email}
<1>1. made = (addressed \X active) \cup ((instant \ addressed) \X {None})
  BY DEF DeliveriesFor
<1>2. addressed \subseteq instant /\ instant \subseteq Channel /\ active \subseteq Address
  BY DEF Active
<1>3. addressed # {} => active # {}
  OBVIOUS
<1>4. FloorChannel \notin addressed
  BY EmailTyped
<1> HIDE DEF instant, active, addressed
<1>5. \A c \in instant : \E d \in made : d[1] = c
  <2> SUFFICES ASSUME NEW c \in instant PROVE \E d \in made : d[1] = c
    OBVIOUS
  <2>1. CASE c \in addressed
    <3>1. PICK a \in active : TRUE
      BY <1>3, <2>1
    <3>2. <<c, a>> \in made
      BY <1>1, <2>1, <3>1
    <3> QED BY <3>2
  <2>2. CASE c \notin addressed
    <3>1. <<c, None>> \in made
      BY <1>1, <2>2
    <3> QED BY <3>1
  <2> QED BY <2>1, <2>2
<1>6. \A d \in made : d[1] \in instant
  BY <1>1, <1>2
<1>7. {d[1] : d \in made} = instant
  BY <1>5, <1>6
<1>8. made \subseteq Channel \X (Address \cup {None})
  BY <1>1, <1>2
<1>9. FloorChannel \in instant => <<FloorChannel, None>> \in made
  BY <1>1, <1>4
<1> QED BY <1>7, <1>8, <1>9 DEF instant

(* What createNotification inserts is a lawful row, whatever the event,    *)
(* the addresses and the preferences.                                      *)
LEMMA NotificationsAreGood ==
  ASSUME NEW e \in Event, NEW u \in User, NEW states \in States,
         NEW chosen \in [Channel -> Preference],
         NEW n, n = NotificationOf(e, u, states, chosen)
  PROVE  Fresh(n) /\ n.user = u /\ n.key = e.key /\ n.fact = e.fact
<1> DEFINE available == Available(states, e.deliverOn)
           routing == DeliverNow(e.secret, ResolveRouting(e.priority, available, chosen))
           later == {c \in DOMAIN routing.routes : routing.routes[c] # "instant"}
<1>1. e \in EventType
  BY EventsTyped
<1>2. e.key \in Key /\ e.fact \in Fact /\ e.priority \in Priority /\ e.secret \in BOOLEAN
      /\ e.deliverOn \in SUBSET Channel
  BY <1>1 DEF EventType
<1>3. available \in SUBSET Channel
  BY <1>2, EmailTyped DEF Available
<1> DEFINE goes == routing.kind = "deliver"
<1>4. n = [user |-> u, key |-> e.key, fact |-> e.fact, priority |-> e.priority, secret |-> e.secret,
           suppressed |-> IF goes THEN None ELSE routing.reason,
           count |-> IF goes THEN ChannelCount(routing.routes) ELSE 0,
           deliveries |-> IF goes THEN DeliveriesFor(routing.routes, states) ELSE {},
           batched |-> IF goes THEN {<<c, routing.routes[c]>> : c \in later} ELSE {}]
  BY DEF NotificationOf
<1> HIDE DEF available
<1>5. Lawful(routing, e.priority, e.secret)
  BY <1>2, <1>3, RoutingDecides
<1> HIDE DEF routing
<1>6. CASE /\ e.priority # "critical"
           /\ \E reason \in SuppressionReason : routing = Suppress(reason)
  <2>1. PICK reason \in SuppressionReason : routing = Suppress(reason)
    BY <1>6
  <2>2. n = [user |-> u, key |-> e.key, fact |-> e.fact, priority |-> e.priority, secret |-> e.secret,
             suppressed |-> reason, count |-> 0, deliveries |-> {}, batched |-> {}]
    BY <1>4, <2>1 DEF Suppress
  <2>3. n \in Notification
    BY <1>2, <2>1, <2>2 DEF Notification
  <2>4. ChannelsOf(n) = {}
    BY <2>2 DEF ChannelsOf
  <2>5. reason # None
    BY <2>1 DEF SuppressionReason, None
  <2>6. Cardinality(ChannelsOf(n)) = 0
    BY <2>4, FS_EmptySet
  <2> QED BY <1>6, <2>2, <2>3, <2>5, <2>6 DEF Fresh, Exact, Good, Reaches, Counted, Unbatched
<1>7. CASE \E taken \in SUBSET Channel : \E routes \in [taken -> When] :
             /\ taken # {} /\ routing = Deliver(routes)
             /\ e.priority = "critical" => FloorChannel \in taken
             /\ e.priority = "critical" \/ e.secret => \A c \in taken : routes[c] = "instant"
  <2>1. PICK taken \in SUBSET Channel : \E routes \in [taken -> When] :
             /\ taken # {} /\ routing = Deliver(routes)
             /\ e.priority = "critical" => FloorChannel \in taken
             /\ e.priority = "critical" \/ e.secret => \A c \in taken : routes[c] = "instant"
    BY <1>7
  <2>2. PICK routes \in [taken -> When] :
             /\ taken # {} /\ routing = Deliver(routes)
             /\ e.priority = "critical" => FloorChannel \in taken
             /\ e.priority = "critical" \/ e.secret => \A c \in taken : routes[c] = "instant"
    BY <2>1
  <2> DEFINE made == DeliveriesFor(routes, states)
             wait == {c \in taken : routes[c] # "instant"}
             joined == {<<c, routes[c]>> : c \in wait}
  <2>3. routing.kind = "deliver" /\ routing.routes = routes /\ DOMAIN routes = taken
    BY <2>2 DEF Deliver
  <2>4. later = wait
    BY <2>3
  <2>5. n = [user |-> u, key |-> e.key, fact |-> e.fact, priority |-> e.priority, secret |-> e.secret,
             suppressed |-> None, count |-> Cardinality(taken), deliveries |-> made, batched |-> joined]
    BY <1>4, <2>3, <2>4 DEF ChannelCount
  <2>6. /\ made \subseteq Channel \X (Address \cup {None})
        /\ {d[1] : d \in made} = {c \in taken : routes[c] = "instant"}
        /\ FloorChannel \in taken /\ routes[FloorChannel] = "instant" => <<FloorChannel, None>> \in made
    BY DeliveriesReach
  <2>7. joined \subseteq Channel \X Cadence
    BY DEF When
  <2>8. {b[1] : b \in joined} = wait
    <3>1. \A c \in wait : <<c, routes[c]>> \in joined /\ <<c, routes[c]>>[1] = c
      OBVIOUS
    <3>2. \A b \in joined : b[1] \in wait
      OBVIOUS
    <3> HIDE DEF joined, wait
    <3> QED BY <3>1, <3>2
  <2>9. IsFiniteSet(taken) /\ Cardinality(taken) \in Nat /\ Cardinality(taken) # 0
    BY <2>2, ChannelIsFinite, FS_Subset, FS_CardinalityType, FS_EmptySet
  <2> HIDE DEF made, joined
  <2>10. n \in Notification
    BY <1>2, <2>5, <2>6, <2>7, <2>9 DEF Notification
  <2>11. ChannelsOf(n) = taken
    BY <2>5, <2>6, <2>8 DEF ChannelsOf
  <2>12. Counted(n) /\ Exact(n)
    BY <2>5, <2>9, <2>11 DEF Counted, Exact
  <2>13. e.priority = "critical" \/ e.secret => joined = {}
    BY <2>2 DEF joined
  <2>14. Reaches(n) /\ Unbatched(n)
    BY <2>2, <2>5, <2>6, <2>13 DEF Reaches, Unbatched
  <2> QED BY <2>5, <2>10, <2>12, <2>14 DEF Good, Fresh
<1> QED BY <1>5, <1>6, <1>7 DEF Lawful

(* Losing its targets and its digests leaves a notification lawful.        *)
LEMMA DetachedStaysGood ==
  ASSUME NEW n, Good(n), NEW u \in User, NEW gone \in SUBSET Address, NEW cut
  PROVE  /\ Good(Detached(n, u, gone, cut))
         /\ Detached(n, u, gone, cut).user = n.user /\ Detached(n, u, gone, cut).key = n.key
         /\ n.user # u => Detached(n, u, gone, cut) = n
<1>1. CASE n.user # u
  BY <1>1 DEF Detached
<1>2. CASE n.user = u
  <2> DEFINE image(d) == IF d[2] \in gone THEN <<d[1], None>> ELSE d
             left == {image(d) : d \in n.deliveries}
             kept == n.batched \ cut
             m == [n EXCEPT !.deliveries = left, !.batched = kept]
  <2>1. Detached(n, u, gone, cut) = m
    BY <1>2 DEF Detached
  <2>2. n \in Notification
    BY DEF Good
  <2>3. n.deliveries \subseteq Channel \X (Address \cup {None}) /\ n.batched \subseteq Channel \X Cadence
        /\ n.count \in Nat
    BY <2>2 DEF Notification
  <2>4. \A d \in n.deliveries : image(d) \in Channel \X (Address \cup {None}) /\ image(d)[1] = d[1]
    BY <2>3
  <2>5. left \subseteq Channel \X (Address \cup {None}) /\ kept \subseteq n.batched
    BY <2>4
  <2>6. {d[1] : d \in left} = {d[1] : d \in n.deliveries}
    BY <2>4
  <2>7. <<FloorChannel, None>> \in n.deliveries => <<FloorChannel, None>> \in left
    <3>1. None \notin gone
      BY NoneIsNoAddress
    <3>2. image(<<FloorChannel, None>>) = <<FloorChannel, None>>
      BY <3>1
    <3> QED BY <3>2
  <2> HIDE DEF left, kept
  <2>8. m \in Notification
    BY <2>2, <2>3, <2>5 DEF Notification
  <2>9. /\ m.user = n.user /\ m.key = n.key /\ m.priority = n.priority /\ m.secret = n.secret
        /\ m.suppressed = n.suppressed /\ m.count = n.count /\ m.batched = kept
        /\ m.deliveries = left
    BY <2>2 DEF Notification
  <2> HIDE DEF m
  <2>10. ChannelsOf(m) \subseteq ChannelsOf(n)
    BY <2>5, <2>6, <2>9 DEF ChannelsOf
  <2>11. ChannelsOf(n) \subseteq Channel
    BY <2>3 DEF ChannelsOf
  <2>12. Cardinality(ChannelsOf(m)) <= n.count
    <3>1. IsFiniteSet(ChannelsOf(n))
      BY <2>11, ChannelIsFinite, FS_Subset
    <3>2. /\ Cardinality(ChannelsOf(m)) <= Cardinality(ChannelsOf(n))
          /\ Cardinality(ChannelsOf(m)) \in Nat /\ Cardinality(ChannelsOf(n)) \in Nat
      BY <2>10, <3>1, FS_Subset, FS_CardinalityType
    <3>3. Cardinality(ChannelsOf(n)) <= n.count
      BY DEF Good, Counted
    <3> QED BY <2>3, <3>2, <3>3
  <2> QED BY <1>2, <2>1, <2>5, <2>7, <2>8, <2>9, <2>12 DEF Good, Reaches, Counted, Unbatched
<1> QED BY <1>1, <1>2

(***************************************************************************)
(* Types.  The invariant adds to TypeOK what the phase of a transaction    *)
(* says of it, and that every row written or about to be is lawful.        *)
(***************************************************************************)

PhaseFits(h) ==
  LET t == tx[h]
  IN  /\ t.phase \in {"retiring", "telling"} => t.of.kind = "news"
      /\ t.phase \in {"claimed", "retiring"} => t.told = 0
      /\ t.phase = "claimed" => t.of.kind = "erasure" \/ (t.of.kind = "news" /\ t.of.learns # None)
      /\ t.phase = "telling" => t.told < Len(t.of.recipients)
      /\ t.phase = "told" => t.of.kind # "erasure"
      /\ t.phase = "told" /\ t.of.kind = "news" => t.told = Len(t.of.recipients)
      /\ t.phase \in ErasurePhase => t.of.kind = "erasure"
      /\ t.told <= Len(t.of.recipients)
      /\ \A n \in t.removes : n.user = Subject(t.of)
PhasesFit == \A h \in Handler : Open(h) => PhaseFits(h)
RowsAreGood ==
  /\ \A n \in notifications : Good(n) /\ (n.user \notin erased => Exact(n))
  /\ \A h \in Handler : Open(h) => \A n \in tx[h].adds : Fresh(n)

Base == TypeOK /\ PhasesFit /\ RowsAreGood

rest == <<inbox, notifications, targets, preferences, answered, taught, erased, failures>>

(* What the statements of a transaction have in common.                    *)
Goes(h) ==
  /\ tx[h] \in OpenTx /\ tx'[h] \in OpenTx /\ tx'[h].of = tx[h].of
  /\ tx' = [tx EXCEPT ![h] = tx'[h]]
  /\ UNCHANGED rest
  /\ PhaseFits(h)'

LEMMA OpenIsNot ==
  /\ NoTx \notin OpenTx
  /\ \A h \in Handler : TypeOK /\ Open(h) => tx[h] \in OpenTx
<1>1. \A t \in OpenTx : t.phase # "none"
  BY DEF OpenTx, Phase
<1> QED BY <1>1 DEF NoTx, TypeOK, Open

LEMMA ClaimsAreTyped ==
  ASSUME NEW e \in Event
  PROVE  /\ Claimed(e) \in OpenTx /\ Claimed(e).of = e /\ Claimed(e).told = 0
         /\ Claimed(e).adds = {} /\ Claimed(e).removes = {} /\ Claimed(e).phase = FirstPhase(e)
BY DEF Claimed, OpenTx, FirstPhase, Phase, None

(* The statements that do not insert notifications.                        *)
LEMMA LearnGoes ==
  ASSUME Base, NEW h \in Handler, LearnAddress(h)
  PROVE  Goes(h) /\ tx'[h].adds = tx[h].adds /\ tx'[h].told = tx[h].told
         /\ tx'[h].removes = tx[h].removes
<1>1. tx[h] \in OpenTx /\ PhaseFits(h) /\ tx[h].phase = "claimed" /\ tx[h].of.kind = "news"
  BY OpenIsNot DEF Base, PhasesFit, LearnAddress
<1>2. tx[h].of \in Event /\ tx[h].of \in EventType
  BY <1>1, EventsTyped DEF OpenTx
<1>3. tx[h].of.learns \in Address
  BY <1>1, <1>2 DEF PhaseFits, EventType
<1> DEFINE found == Active(targets[Subject(tx[h].of)]) \ {tx[h].of.learns}
           wrote == [tx[h].writes EXCEPT ![tx[h].of.learns] = "active"]
           new == [tx[h] EXCEPT !.writes = wrote, !.seen = found, !.phase = "retiring"]
<1>4. found \in SUBSET Address /\ wrote \in [Address -> {"active", "retired", None}]
  BY <1>1, <1>3 DEF Active, OpenTx
<1>5. tx' = [tx EXCEPT ![h] = new] /\ UNCHANGED rest
  BY DEF LearnAddress, rest
<1> HIDE DEF found, wrote
<1>6. new \in OpenTx /\ new.of = tx[h].of /\ new.adds = tx[h].adds /\ new.told = tx[h].told
      /\ new.removes = tx[h].removes /\ new.phase = "retiring"
  BY <1>1, <1>4 DEF OpenTx, Phase
<1>7. tx'[h] = new
  BY <1>5 DEF Base, TypeOK
<1> HIDE DEF new
<1>8. PhaseFits(h)'
  BY <1>1, <1>6, <1>7 DEF PhaseFits, ErasurePhase
<1> QED BY <1>1, <1>5, <1>6, <1>7, <1>8 DEF Goes

LEMMA RetireGoes ==
  ASSUME Base, NEW h \in Handler, RetireOthers(h)
  PROVE  Goes(h) /\ tx'[h].adds = tx[h].adds /\ tx'[h].told = tx[h].told
         /\ tx'[h].removes = tx[h].removes
<1>1. tx[h] \in OpenTx /\ PhaseFits(h) /\ tx[h].phase = "retiring"
  BY OpenIsNot DEF Base, PhasesFit, RetireOthers
<1> DEFINE wrote == [a \in Address |-> IF a \in Retires(h) THEN "retired" ELSE tx[h].writes[a]]
           new == [tx[h] EXCEPT !.writes = wrote, !.seen = {}, !.phase = "telling"]
<1>2. wrote \in [Address -> {"active", "retired", None}]
  BY <1>1 DEF OpenTx
<1>3. tx' = [tx EXCEPT ![h] = new] /\ UNCHANGED rest
  BY DEF RetireOthers, rest
<1> HIDE DEF wrote
<1>4. new \in OpenTx /\ new.of = tx[h].of /\ new.adds = tx[h].adds /\ new.told = tx[h].told
      /\ new.removes = tx[h].removes /\ new.phase = "telling"
  BY <1>1, <1>2 DEF OpenTx, Phase
<1>5. tx'[h] = new
  BY <1>3 DEF Base, TypeOK
<1>6. tx[h].told = 0 /\ tx[h].of.kind = "news" /\ Len(tx[h].of.recipients) \in Nat
      /\ Len(tx[h].of.recipients) >= 1
  <2>1. tx[h].of \in Event
    BY <1>1 DEF OpenTx
  <2> QED BY <1>1, <2>1, EventsAreTyped DEF PhaseFits
<1> HIDE DEF new
<1>7. 0 < Len(tx[h].of.recipients)
  BY <1>6
<1>8. PhaseFits(h)'
  BY <1>1, <1>4, <1>5, <1>6, <1>7 DEF PhaseFits, ErasurePhase
<1> QED BY <1>1, <1>3, <1>4, <1>5, <1>8 DEF Goes

(* The statements of an erasure.                                           *)
EraseStatement(h) ==
  EraseNotifications(h) \/ FindTargets(h) \/ EraseTargets(h) \/ FindDigests(h) \/ EraseDigests(h)

LEMMA EraseGoes ==
  ASSUME Base, NEW h \in Handler, EraseStatement(h)
  PROVE  Goes(h) /\ tx'[h].adds = tx[h].adds /\ tx'[h].told = tx[h].told
         /\ Open(h) /\ tx'[h].writes = tx[h].writes /\ tx'[h].phase \in ErasurePhase
<1> USE DEF EraseStatement
<1>1. Open(h) /\ tx[h] \in OpenTx /\ PhaseFits(h) /\ tx[h].of \in Event /\ tx[h].of.kind = "erasure"
  <2>1. Open(h) /\ tx[h] \in OpenTx /\ PhaseFits(h)
    BY OpenIsNot DEF Base, PhasesFit, EraseNotifications, FindTargets, EraseTargets, FindDigests,
                     EraseDigests
  <2>2. tx[h].phase \in ErasurePhase \/ tx[h].of.kind = "erasure"
    BY DEF EraseNotifications, FindTargets, EraseTargets, FindDigests, EraseDigests, ErasurePhase
  <2> QED BY <2>1, <2>2 DEF PhaseFits, OpenTx
<1> DEFINE u == Subject(tx[h].of)
           doomed == {n \in notifications : n.user = u}
           found == {a \in Address : targets[u][a] # "unknown"}
           joined == Joined(notifications, u)
           one == [tx[h] EXCEPT !.removes = doomed, !.phase = "erasing"]
           two == [tx[h] EXCEPT !.seen = found, !.phase = "deleting"]
           three == [tx[h] EXCEPT !.gone = tx[h].seen, !.seen = {}, !.phase = "emptying"]
           four == [tx[h] EXCEPT !.cut = joined, !.phase = "cutting"]
           five == [tx[h] EXCEPT !.phase = "erased"]
<1>2. doomed \in SUBSET Notification /\ found \in SUBSET Address
      /\ joined \in SUBSET (Channel \X Cadence)
  BY DEF Base, TypeOK, Joined, Notification
<1>3. UNCHANGED rest
  BY DEF EraseNotifications, FindTargets, EraseTargets, FindDigests, EraseDigests, rest
<1>4. \/ tx' = [tx EXCEPT ![h] = one] \/ tx' = [tx EXCEPT ![h] = two]
      \/ tx' = [tx EXCEPT ![h] = three] \/ tx' = [tx EXCEPT ![h] = four]
      \/ tx' = [tx EXCEPT ![h] = five]
  BY DEF EraseNotifications, FindTargets, EraseTargets, FindDigests, EraseDigests
<1>5. \A n \in doomed : n.user = u
  OBVIOUS
<1> HIDE DEF u, doomed, found, joined
<1>6. ASSUME NEW new \in {one, two, three, four, five}
      PROVE  /\ new \in OpenTx /\ new.of = tx[h].of /\ new.adds = tx[h].adds /\ new.told = tx[h].told
             /\ new.removes \in {tx[h].removes, doomed} /\ new.phase \in ErasurePhase
             /\ new.writes = tx[h].writes
  <2>1. one \in OpenTx /\ two \in OpenTx /\ three \in OpenTx
    BY <1>1, <1>2 DEF OpenTx, Phase
  <2>2. four \in OpenTx /\ five \in OpenTx
    BY <1>1, <1>2 DEF OpenTx, Phase
  <2>3. /\ new.of = tx[h].of /\ new.adds = tx[h].adds /\ new.told = tx[h].told
        /\ new.removes \in {tx[h].removes, doomed} /\ new.phase \in ErasurePhase
        /\ new.writes = tx[h].writes
    BY <1>1 DEF OpenTx, ErasurePhase
  <2> QED BY <2>1, <2>2, <2>3
<1> HIDE DEF one, two, three, four, five
<1>7. tx' = [tx EXCEPT ![h] = tx'[h]] /\ tx'[h] \in {one, two, three, four, five}
  BY <1>4 DEF Base, TypeOK
<1>8. /\ tx'[h] \in OpenTx /\ tx'[h].of = tx[h].of /\ tx'[h].adds = tx[h].adds
      /\ tx'[h].told = tx[h].told /\ tx'[h].removes \in {tx[h].removes, doomed}
      /\ tx'[h].phase \in ErasurePhase /\ tx'[h].writes = tx[h].writes
  BY <1>6, <1>7
<1>9. PhaseFits(h)'
  BY <1>1, <1>5, <1>8 DEF PhaseFits, u, ErasurePhase
<1> QED BY <1>1, <1>3, <1>7, <1>8, <1>9 DEF Goes

(* The statement that does: the row of the next recipient, if its key is   *)
(* not taken.                                                              *)
Recipient(h) == tx[h].of.recipients[tx[h].told + 1]
LEMMA CreateGoes ==
  ASSUME Base, NEW h \in Handler, CreateNotification(h)
  PROVE  /\ Goes(h) /\ tx'[h].told = tx[h].told + 1 /\ tx'[h].removes = tx[h].removes
         /\ tx[h].of.kind = "news" /\ tx[h].told + 1 \in 1 .. Len(tx[h].of.recipients)
         /\ \A g \in Handler \ {h} : Open(g) =>
              \A m \in tx[g].adds : ~Describes(m, Recipient(h), tx[h].of.key)
         /\ \/ /\ IsDuplicate(h, Recipient(h), tx[h].of.key)
               /\ tx'[h].adds = tx[h].adds
            \/ /\ ~IsDuplicate(h, Recipient(h), tx[h].of.key)
               /\ \E n : /\ Fresh(n) /\ Describes(n, Recipient(h), tx[h].of.key)
                         /\ n.fact = tx[h].of.fact
                         /\ tx'[h].adds = tx[h].adds \cup {n}
<1>1. tx[h] \in OpenTx /\ PhaseFits(h) /\ tx[h].phase = "telling"
  BY OpenIsNot DEF Base, PhasesFit, CreateNotification
<1>2. tx[h].of \in Event /\ tx[h].told \in Nat /\ tx[h].adds \in SUBSET Notification
      /\ tx[h].writes \in [Address -> {"active", "retired", None}]
  BY <1>1 DEF OpenTx
<1>3. tx[h].of.kind = "news" /\ tx[h].told < Len(tx[h].of.recipients)
      /\ Len(tx[h].of.recipients) \in Nat
  BY <1>1, <1>2, EventsAreTyped DEF PhaseFits
<1>4. tx[h].told + 1 \in 1 .. Len(tx[h].of.recipients)
  BY <1>2, <1>3
<1>5. Recipient(h) \in User
  BY <1>2, <1>4, EventsAreTyped DEF Recipient
<1>6. Overlay(h, Recipient(h)) \in States
  <2>1. targets[Recipient(h)] \in States
    BY <1>5 DEF Base, TypeOK, States
  <2> QED BY <1>2, <2>1 DEF Overlay, States
<1>7. preferences[Recipient(h)] \in [Channel -> Preference]
  BY <1>5 DEF Base, TypeOK
<1> DEFINE n == NotificationOf(tx[h].of, Recipient(h), Overlay(h, Recipient(h)), preferences[Recipient(h)])
           made == IF IsDuplicate(h, Recipient(h), tx[h].of.key) THEN {} ELSE {n}
           phase == IF tx[h].told + 1 = Len(tx[h].of.recipients) THEN "told" ELSE "telling"
           rows == tx[h].adds \cup made
           new == [tx[h] EXCEPT !.adds = rows, !.told = tx[h].told + 1, !.phase = phase]
<1>8. Fresh(n) /\ n.user = Recipient(h) /\ n.key = tx[h].of.key /\ n.fact = tx[h].of.fact
  BY <1>2, <1>5, <1>6, <1>7, NotificationsAreGood
<1>9. tx' = [tx EXCEPT ![h] = new] /\ UNCHANGED rest
  BY DEF CreateNotification, rest, Recipient
<1> HIDE DEF n
<1>10. rows \in SUBSET Notification
  BY <1>2, <1>8 DEF Fresh, Good
<1>11. tx[h].told + 1 \in Nat /\ phase \in {"told", "telling"}
  BY <1>2
<1>12. phase = "told" => tx[h].told + 1 = Len(tx[h].of.recipients)
  OBVIOUS
<1>13. phase = "telling" => tx[h].told + 1 < Len(tx[h].of.recipients)
  BY <1>2, <1>3
<1> HIDE DEF rows, phase
<1>14. new \in OpenTx /\ new.of = tx[h].of /\ new.adds = rows /\ new.told = tx[h].told + 1
       /\ new.removes = tx[h].removes /\ new.phase = phase
  BY <1>1, <1>10, <1>11 DEF OpenTx, Phase
<1>15. tx'[h] = new
  BY <1>9 DEF Base, TypeOK
<1> HIDE DEF new
<1>16. PhaseFits(h)'
  <2>1. tx[h].told + 1 <= Len(tx[h].of.recipients)
    BY <1>4
  <2> QED BY <1>1, <1>3, <1>11, <1>12, <1>13, <1>14, <1>15, <2>1 DEF PhaseFits, ErasurePhase
<1>17. Goes(h)
  BY <1>1, <1>9, <1>14, <1>15, <1>16 DEF Goes
<1>18. \A g \in Handler \ {h} : Open(g) =>
         \A m \in tx[g].adds : ~Describes(m, Recipient(h), tx[h].of.key)
  BY DEF CreateNotification, Recipient
<1>19. CASE IsDuplicate(h, Recipient(h), tx[h].of.key)
  BY <1>3, <1>4, <1>14, <1>15, <1>17, <1>18, <1>19 DEF rows
<1>20. CASE ~IsDuplicate(h, Recipient(h), tx[h].of.key)
  BY <1>3, <1>4, <1>8, <1>14, <1>15, <1>17, <1>18, <1>20 DEF rows, Describes
<1> QED BY <1>19, <1>20

(* The other transactions do not notice.                                   *)
LEMMA OthersStay ==
  ASSUME TypeOK, NEW h \in Handler, tx' = [tx EXCEPT ![h] = tx'[h]], NEW g \in Handler \ {h}
  PROVE  tx'[g] = tx[g] /\ (Open(g)' <=> Open(g)) /\ (PhaseFits(g)' <=> PhaseFits(g))
<1>1. tx'[g] = tx[g]
  BY DEF TypeOK
<1> QED BY <1>1 DEF Open, PhaseFits

(* A statement keeps the invariant if the rows it adds are lawful.         *)
LEMMA GoingIsSafe ==
  ASSUME Base, NEW h \in Handler, Goes(h), \A n \in tx'[h].adds : Fresh(n)
  PROVE  Base'
<1>1. TypeOK'
  BY DEF Base, TypeOK, Goes, rest
<1>2. PhasesFit'
  BY OthersStay DEF Base, PhasesFit, Goes
<1>3. \A g \in Handler : Open(g)' => \A n \in tx'[g].adds : Fresh(n)
  BY OthersStay DEF Base, RowsAreGood, Goes
<1>4. \A n \in notifications' : Good(n) /\ (n.user \notin erased' => Exact(n))
  BY DEF Base, RowsAreGood, Goes, rest
<1> QED BY <1>1, <1>2, <1>3, <1>4 DEF Base, RowsAreGood

(* The end of a transaction.                                               *)
Ends(h) == Open(h) /\ tx' = [tx EXCEPT ![h] = NoTx]

LEMMA EndingIsSafe ==
  ASSUME Base, NEW h \in Handler, Ends(h),
         /\ inbox' \subseteq Event
         /\ targets' \in [User -> States]
         /\ preferences' \in [User -> [Channel -> Preference]]
         /\ answered' \subseteq Event /\ taught' \subseteq User /\ erased' \subseteq User
         /\ failures' \in 0 .. MaxFailures,
         \A n \in notifications' : Good(n) /\ (n.user \notin erased' => Exact(n))
  PROVE  Base'
<1>1. tx'[h] = NoTx /\ tx' = [tx EXCEPT ![h] = tx'[h]]
  BY DEF Ends, Base, TypeOK
<1>2. notifications' \subseteq Notification
  BY DEF Good
<1>3. tx' \in [Handler -> {NoTx} \cup OpenTx]
  BY DEF Ends, Base, TypeOK
<1>4. TypeOK'
  BY <1>2, <1>3 DEF TypeOK, States
<1>5. \A g \in Handler : Open(g)' => g # h
  BY <1>1 DEF Open
<1>6. PhasesFit'
  BY <1>1, <1>5, OthersStay DEF Base, PhasesFit
<1>7. \A g \in Handler : Open(g)' => \A n \in tx'[g].adds : Fresh(n)
  BY <1>1, <1>5, OthersStay DEF Base, RowsAreGood
<1> QED BY <1>4, <1>6, <1>7 DEF Base, RowsAreGood

LEMMA AnswersAreTyped ==
  ASSUME TypeOK, NEW e \in Event, Answer(e)
  PROVE  answered' \subseteq Event /\ answered \subseteq answered' /\ answered' \subseteq answered \cup {e}
         /\ failures' \in 0 .. MaxFailures
BY MaxFailuresTyped DEF Answer, TypeOK

LEMMA BaseStep == Base /\ [Next]_vars => Base'
<1> SUFFICES ASSUME Base, [Next]_vars PROVE Base'
  OBVIOUS
<1>1. ASSUME NEW h \in Handler, NEW e \in Event, Ingest(h, e) PROVE Base'
  <2>1. CASE e \in inbox
    <3>1. UNCHANGED <<tx, inbox, notifications, targets, preferences, taught, erased, failures>>
          /\ answered' = answered \cup {e}
      BY <1>1, <2>1 DEF Ingest
    <3> QED BY <3>1 DEF Base, TypeOK, PhasesFit, PhaseFits, Open, RowsAreGood
  <2>2. CASE e \notin inbox
    <3>1. UNCHANGED rest /\ tx' = [tx EXCEPT ![h] = Claimed(e)]
      BY <1>1, <2>2 DEF Ingest, rest
    <3>2. tx'[h] = Claimed(e) /\ tx' = [tx EXCEPT ![h] = tx'[h]]
      BY <3>1 DEF Base, TypeOK
    <3>3. TypeOK'
      BY <3>1, ClaimsAreTyped DEF Base, TypeOK, rest
    <3>4. PhaseFits(h)'
      <4>1. e \in EventType /\ Len(e.recipients) \in Nat /\ Len(e.recipients) >= 1
        BY EventsAreTyped
      <4>2. e.kind \in {"news", "erasure", "ignored"}
        BY <4>1 DEF EventType
      <4>3. 0 < Len(e.recipients) /\ 0 <= Len(e.recipients)
        BY <4>1
      <4>4. /\ FirstPhase(e) \in {"told", "telling", "claimed"}
            /\ FirstPhase(e) = "told" => e.kind = "ignored"
            /\ FirstPhase(e) = "telling" => e.kind = "news"
            /\ FirstPhase(e) = "claimed" => e.kind = "erasure" \/ (e.kind = "news" /\ e.learns # None)
        BY <4>2 DEF FirstPhase
      <4>5. tx'[h].of = e /\ tx'[h].told = 0 /\ tx'[h].removes = {} /\ tx'[h].phase = FirstPhase(e)
        BY <3>2, ClaimsAreTyped
      <4> QED BY <4>3, <4>4, <4>5 DEF PhaseFits, ErasurePhase
    <3>5. PhasesFit'
      BY <3>2, <3>4, OthersStay DEF Base, PhasesFit
    <3>6. \A g \in Handler : Open(g)' => \A n \in tx'[g].adds : Fresh(n)
      BY <3>2, OthersStay, ClaimsAreTyped DEF Base, RowsAreGood
    <3> QED BY <3>1, <3>3, <3>5, <3>6 DEF Base, RowsAreGood, rest
  <2> QED BY <2>1, <2>2
<1>2. ASSUME NEW h \in Handler, LearnAddress(h) PROVE Base'
  <2>1. Goes(h) /\ tx'[h].adds = tx[h].adds /\ Open(h)
    BY <1>2, LearnGoes DEF LearnAddress
  <2> QED BY <2>1, GoingIsSafe DEF Base, RowsAreGood
<1>3. ASSUME NEW h \in Handler, RetireOthers(h) PROVE Base'
  <2>1. Goes(h) /\ tx'[h].adds = tx[h].adds /\ Open(h)
    BY <1>3, RetireGoes DEF RetireOthers
  <2> QED BY <2>1, GoingIsSafe DEF Base, RowsAreGood
<1>4. ASSUME NEW h \in Handler, EraseStatement(h) PROVE Base'
  <2>1. Goes(h) /\ tx'[h].adds = tx[h].adds /\ Open(h)
    BY <1>4, EraseGoes
  <2> QED BY <2>1, GoingIsSafe DEF Base, RowsAreGood
<1>5. ASSUME NEW h \in Handler, CreateNotification(h) PROVE Base'
  <2>1. Goes(h) /\ Open(h)
        /\ (tx'[h].adds = tx[h].adds \/ \E n : Fresh(n) /\ tx'[h].adds = tx[h].adds \cup {n})
    BY <1>5, CreateGoes DEF CreateNotification
  <2>2. \A n \in tx'[h].adds : Fresh(n)
    BY <2>1 DEF Base, RowsAreGood
  <2> QED BY <2>1, <2>2, GoingIsSafe
<1>6. ASSUME NEW h \in Handler, Commit(h) PROVE Base'
  <2>1. Ends(h) /\ tx[h] \in OpenTx /\ tx[h].of \in Event /\ Answer(tx[h].of)
    BY <1>6, OpenIsNot DEF Base, Commit, Ends, OpenTx
  <2>2. \A n \in notifications' : Good(n) /\ (n.user \notin erased' => Exact(n))
    BY <1>6 DEF Commit, Base, RowsAreGood, Fresh
  <2>3. targets' \in [User -> States]
    <3>1. \A u \in User : Overlay(h, u) \in States
      <4>1. tx[h].writes \in [Address -> {"active", "retired", None}]
        BY <2>1 DEF OpenTx
      <4> QED BY <4>1 DEF Overlay, States, Base, TypeOK
    <3> QED BY <1>6, <3>1 DEF Commit
  <2>4. taught' \subseteq User /\ inbox' \subseteq Event
    <3>1. Subject(tx[h].of) \in User
      BY <2>1, EventsAreTyped
    <3> QED BY <1>6, <2>1, <3>1 DEF Commit, Base, TypeOK
  <2>5. preferences' \in [User -> [Channel -> Preference]] /\ erased' \subseteq User
    BY <1>6 DEF Commit, Base, TypeOK
  <2>6. answered' \subseteq Event /\ failures' \in 0 .. MaxFailures
    BY <2>1, AnswersAreTyped DEF Base
  <2> QED BY <2>1, <2>2, <2>3, <2>4, <2>5, <2>6, EndingIsSafe
<1>7. ASSUME NEW h \in Handler, CommitErasure(h) PROVE Base'
  <2>1. Ends(h) /\ tx[h] \in OpenTx /\ tx[h].of \in Event /\ Answer(tx[h].of)
        /\ tx[h].gone \in SUBSET Address
    BY <1>7, OpenIsNot DEF Base, CommitErasure, Ends, OpenTx
  <2>2. Subject(tx[h].of) \in User
    BY <2>1, EventsAreTyped
  <2>3. \A n \in notifications' : Good(n) /\ (n.user \notin erased' => Exact(n))
    <3> DEFINE u == Subject(tx[h].of)
    <3>1. erased' = erased \cup {u}
      BY <1>7 DEF CommitErasure
    <3>2. ASSUME NEW m \in notifications' PROVE Good(m) /\ (m.user \notin erased' => Exact(m))
      <4>1. PICK n \in notifications : m = Detached(n, u, tx[h].gone, tx[h].cut)
        BY <1>7 DEF CommitErasure
      <4>2. Good(n) /\ (n.user \notin erased => Exact(n))
        BY DEF Base, RowsAreGood
      <4>3. Good(m) /\ m.user = n.user /\ (n.user # u => m = n)
        BY <2>1, <2>2, <4>1, <4>2, DetachedStaysGood
      <4> QED BY <3>1, <4>2, <4>3
    <3> QED BY <3>2
  <2>4. targets' \in [User -> States]
    BY <1>7, <2>2 DEF CommitErasure, Base, TypeOK, States
  <2>5. preferences' \in [User -> [Channel -> Preference]]
    <3>1. [c \in Channel |-> DefaultPreference] \in [Channel -> Preference]
      BY PreferencesTyped
    <3> HIDE DEF Preference, DefaultPreference
    <3> QED BY <1>7, <2>2, <3>1 DEF CommitErasure, Base, TypeOK
  <2>6. inbox' \subseteq Event /\ taught' \subseteq User /\ erased' \subseteq User
    BY <1>7, <2>1, <2>2 DEF CommitErasure, Base, TypeOK
  <2>7. answered' \subseteq Event /\ failures' \in 0 .. MaxFailures
    BY <2>1, AnswersAreTyped DEF Base
  <2> QED BY <2>1, <2>3, <2>4, <2>5, <2>6, <2>7, EndingIsSafe
<1>8. ASSUME NEW h \in Handler, Fail(h) PROVE Base'
  <2>1. Ends(h) /\ failures' \in 0 .. MaxFailures
    BY <1>8, MaxFailuresTyped DEF Fail, Ends, Base, TypeOK
  <2>2. UNCHANGED <<inbox, notifications, targets, preferences, answered, taught, erased>>
    BY <1>8 DEF Fail
  <2>3. \A n \in notifications' : Good(n) /\ (n.user \notin erased' => Exact(n))
    BY <2>2 DEF Base, RowsAreGood
  <2> QED BY <2>1, <2>2, <2>3, EndingIsSafe DEF Base, TypeOK, States
<1>9. ASSUME NEW u \in User, SetPreferences(u) PROVE Base'
  <2>1. UNCHANGED <<inbox, notifications, targets, tx, answered, taught, erased, failures>>
    BY <1>9 DEF SetPreferences
  <2>2. preferences' \in [User -> [Channel -> Preference]]
    <3>1. PICK chosen \in Chosen : preferences' = [preferences EXCEPT ![u] = chosen]
      BY <1>9 DEF SetPreferences
    <3>2. chosen \in [Channel -> Preference]
      BY PreferencesTyped
    <3> QED BY <3>1, <3>2 DEF Base, TypeOK
  <2> QED BY <2>1, <2>2 DEF Base, TypeOK, PhasesFit, PhaseFits, Open, RowsAreGood
<1>10. CASE UNCHANGED vars
  BY <1>10 DEF vars, Base, TypeOK, PhasesFit, PhaseFits, Open, RowsAreGood
<1> QED BY <1>1, <1>2, <1>3, <1>4, <1>5, <1>6, <1>7, <1>8, <1>9, <1>10 DEF Next, EraseStatement

LEMMA BaseInit == Init => Base
<1> SUFFICES ASSUME Init PROVE Base
  OBVIOUS
<1>1. preferences \in [User -> [Channel -> Preference]]
  BY PreferencesTyped DEF Init
<1>2. TypeOK
  BY <1>1, MaxFailuresTyped DEF Init, TypeOK, NoTargets
<1> QED BY <1>2 DEF Init, Base, PhasesFit, RowsAreGood, Open

(* The tables are well formed in every reachable state.                    *)
THEOREM TypeCorrect == Spec => []TypeOK
<1>1. Base => TypeOK
  BY DEF Base
<1> QED BY <1>1, BaseInit, BaseStep, PTL DEF Spec

(* No choice of preferences, addresses or template keeps a critical        *)
(* notification from the floor channel, or delays it.                      *)
THEOREM CriticalAlwaysReaches == Spec => []CriticalReaches
<1>1. Base => CriticalReaches
  BY DEF Base, RowsAreGood, Good, Reaches, CriticalReaches
<1> QED BY <1>1, BaseInit, BaseStep, PTL DEF Spec

(* The count that the check constraints read is the number of channels     *)
(* that have a delivery or a digest.                                       *)
THEOREM CountAlwaysTrue == Spec => []CountIsTrue
<1>1. Base => CountIsTrue
  BY DEF Base, RowsAreGood, Good, Counted, Exact, CountIsTrue
<1> QED BY <1>1, BaseInit, BaseStep, PTL DEF Spec

(* No credential is left to a digest.                                      *)
THEOREM SecretsNeverBatched == Spec => []SecretsAreNotBatched
<1>1. Base => SecretsAreNotBatched
  BY DEF Base, RowsAreGood, Good, Unbatched, SecretsAreNotBatched
<1> QED BY <1>1, BaseInit, BaseStep, PTL DEF Spec

(***************************************************************************)
(* One notification per key.  The invariant says it of the committed rows, *)
(* of the rows of one transaction, and of one against the other; and that  *)
(* no two transactions are inserting one key, the second being made to     *)
(* wait.                                                                   *)
(***************************************************************************)

Same(m, n) == m.user = n.user /\ m.key = n.key
Apart(S, T) == \A m \in S, n \in T : ~Same(m, n)
Unique(S) == \A m, n \in S : Same(m, n) => m = n

KeysApart ==
  /\ Unique(notifications)
  /\ \A h \in Handler : Open(h) => Unique(tx[h].adds) /\ Apart(tx[h].adds, notifications)
  /\ \A g, h \in Handler : g # h /\ Open(g) /\ Open(h) => Apart(tx[g].adds, tx[h].adds)

(* A statement that inserts nothing, and a transaction that fails.         *)
LEMMA KeysStay ==
  ASSUME Base, KeysApart, NEW h \in Handler, notifications' = notifications,
         tx' = [tx EXCEPT ![h] = tx'[h]],
         Open(h)' => tx'[h].adds = {} \/ (Open(h) /\ tx'[h].adds = tx[h].adds)
  PROVE  KeysApart'
<1>1. \A g \in Handler : Open(g)' => tx'[g].adds = {} \/ (Open(g) /\ tx'[g].adds = tx[g].adds)
  BY OthersStay DEF Base
<1> QED BY <1>1 DEF KeysApart, Unique, Apart

LEMMA KeysStep == Base /\ KeysApart /\ [Next]_vars => KeysApart'
<1> SUFFICES ASSUME Base, KeysApart, [Next]_vars PROVE KeysApart'
  OBVIOUS
<1>1. ASSUME NEW h \in Handler, NEW e \in Event, Ingest(h, e) PROVE KeysApart'
  <2>1. CASE e \in inbox
    BY <1>1, <2>1 DEF Ingest, KeysApart, Open, Unique, Apart
  <2>2. CASE e \notin inbox
    <3>1. notifications' = notifications /\ tx' = [tx EXCEPT ![h] = Claimed(e)]
      BY <1>1, <2>2 DEF Ingest
    <3>2. tx'[h] = Claimed(e)
      BY <3>1 DEF Base, TypeOK
    <3> QED BY <3>1, <3>2, ClaimsAreTyped, KeysStay
  <2> QED BY <2>1, <2>2
<1>2. ASSUME NEW h \in Handler, LearnAddress(h) \/ RetireOthers(h) PROVE KeysApart'
  <2>1. Goes(h) /\ tx'[h].adds = tx[h].adds /\ Open(h)
    BY <1>2, LearnGoes, RetireGoes DEF LearnAddress, RetireOthers
  <2> QED BY <2>1, KeysStay DEF Goes, rest
<1>3. ASSUME NEW h \in Handler, EraseStatement(h)
      PROVE KeysApart'
  <2>1. Goes(h) /\ tx'[h].adds = tx[h].adds /\ Open(h)
    BY <1>3, EraseGoes
  <2> QED BY <2>1, KeysStay DEF Goes, rest
<1>4. ASSUME NEW h \in Handler, CreateNotification(h) PROVE KeysApart'
  <2>1. Goes(h) /\ Open(h)
    BY <1>4, CreateGoes DEF CreateNotification
  <2>2. CASE tx'[h].adds = tx[h].adds
    BY <2>1, <2>2, KeysStay DEF Goes, rest
  <2>3. CASE tx'[h].adds # tx[h].adds
    <3> DEFINE u == Recipient(h)
               key == tx[h].of.key
    <3>1. ~IsDuplicate(h, u, key)
          /\ \E n : Describes(n, u, key) /\ tx'[h].adds = tx[h].adds \cup {n}
      BY <1>4, <2>3, CreateGoes
    <3>2. \A g \in Handler \ {h} : Open(g) => \A m \in tx[g].adds : ~Describes(m, u, key)
      BY <1>4, CreateGoes
    <3> HIDE DEF u, key
    <3>3. PICK n : Describes(n, u, key) /\ tx'[h].adds = tx[h].adds \cup {n}
      BY <3>1
    <3>4. \A m \in notifications \cup tx[h].adds : ~Same(m, n) /\ ~Same(n, m)
      BY <3>1, <3>3 DEF IsDuplicate, Describes, Same
    <3>5. \A g \in Handler \ {h} : Open(g) => \A m \in tx[g].adds : ~Same(m, n) /\ ~Same(n, m)
      BY <3>2, <3>3 DEF Describes, Same
    <3>6. notifications' = notifications /\ \A g \in Handler \ {h} : tx'[g] = tx[g] /\ (Open(g)' <=> Open(g))
      BY <2>1, OthersStay DEF Base, Goes, rest
    <3>7. Unique(tx'[h].adds) /\ Apart(tx'[h].adds, notifications)
      BY <2>1, <3>3, <3>4 DEF KeysApart, Unique, Apart
    <3>8. \A g \in Handler \ {h} : Open(g) =>
            Apart(tx[g].adds, tx'[h].adds) /\ Apart(tx'[h].adds, tx[g].adds)
      BY <2>1, <3>3, <3>5 DEF KeysApart, Apart
    <3> QED BY <2>1, <3>6, <3>7, <3>8 DEF KeysApart
  <2> QED BY <2>2, <2>3
<1>5. ASSUME NEW h \in Handler, Commit(h) PROVE KeysApart'
  <2>1. Ends(h) /\ notifications' = notifications \cup tx[h].adds /\ Open(h)
    BY <1>5 DEF Commit, Ends
  <2>2. tx'[h] = NoTx /\ tx' = [tx EXCEPT ![h] = tx'[h]]
    BY <2>1 DEF Ends, Base, TypeOK
  <2>3. \A g \in Handler : Open(g)' => g # h /\ Open(g) /\ tx'[g] = tx[g]
    BY <2>2, OthersStay DEF Base, Open
  <2>4. Unique(notifications')
    BY <2>1 DEF KeysApart, Unique, Apart, Same
  <2>5. \A g \in Handler : Open(g)' => Unique(tx'[g].adds) /\ Apart(tx'[g].adds, notifications')
    BY <2>1, <2>3 DEF KeysApart, Apart
  <2> QED BY <2>3, <2>4, <2>5 DEF KeysApart
<1>6. ASSUME NEW h \in Handler, CommitErasure(h) PROVE KeysApart'
  <2> DEFINE image(n) == Detached(n, Subject(tx[h].of), tx[h].gone, tx[h].cut)
  <2>1. Ends(h) /\ notifications' = {image(n) : n \in notifications \ tx[h].removes}
    BY <1>6 DEF CommitErasure, Ends
  <2>2. tx'[h] = NoTx /\ tx' = [tx EXCEPT ![h] = tx'[h]]
    BY <2>1 DEF Ends, Base, TypeOK
  <2>3. \A g \in Handler : Open(g)' => g # h /\ Open(g) /\ tx'[g] = tx[g]
    BY <2>2, OthersStay DEF Base, Open
  <2>4. Subject(tx[h].of) \in User /\ tx[h].gone \in SUBSET Address
    <3>1. tx[h] \in OpenTx
      BY <2>1, OpenIsNot DEF Base, Ends
    <3> QED BY <3>1, EventsAreTyped DEF OpenTx
  <2>5. \A n \in notifications : image(n).user = n.user /\ image(n).key = n.key
    BY <2>4, DetachedStaysGood DEF Base, RowsAreGood
  <2> HIDE DEF image
  <2>6. \A m \in notifications' : \E n \in notifications : m = image(n) /\ Same(m, n)
    BY <2>1, <2>5 DEF Same
  <2>7. Unique(notifications')
    BY <2>6 DEF KeysApart, Unique, Same
  <2>8. \A g \in Handler : Open(g)' => Unique(tx'[g].adds) /\ Apart(tx'[g].adds, notifications')
    BY <2>3, <2>6 DEF KeysApart, Apart, Same
  <2> QED BY <2>3, <2>7, <2>8 DEF KeysApart
<1>7. ASSUME NEW h \in Handler, Fail(h) PROVE KeysApart'
  <2>1. notifications' = notifications /\ tx' = [tx EXCEPT ![h] = NoTx]
    BY <1>7 DEF Fail
  <2>2. tx'[h] = NoTx
    BY <2>1 DEF Base, TypeOK
  <2> QED BY <2>1, <2>2, KeysStay DEF Open
<1>8. ASSUME NEW u \in User, SetPreferences(u) PROVE KeysApart'
  BY <1>8 DEF SetPreferences, KeysApart, Open
<1>9. CASE UNCHANGED vars
  BY <1>9 DEF vars, KeysApart, Open
<1> QED BY <1>1, <1>2, <1>3, <1>4, <1>5, <1>6, <1>7, <1>8, <1>9 DEF Next, EraseStatement

(* Two events that describe one fact under one key tell a user once,       *)
(* whatever is served at once, redelivered or erased meanwhile.            *)
THEOREM KeysAreUnique == Spec => []OneNotificationPerKey
<1>1. Init => KeysApart
  BY DEF Init, KeysApart, Open, Unique
<1>2. KeysApart => OneNotificationPerKey
  BY DEF KeysApart, Unique, Same, OneNotificationPerKey
<1> QED BY <1>1, <1>2, BaseInit, BaseStep, KeysStep, PTL DEF Spec

(***************************************************************************)
(* Nothing answered is lost.  The invariant: whoever an open transaction   *)
(* has got to, and every recipient of an event in the inbox, was erased or *)
(* has a row of its key; what is answered is in the inbox.                 *)
(***************************************************************************)

ToldIn(e, i, rows) ==
  e.recipients[i] \in erased \/ \E n \in rows : Describes(n, e.recipients[i], e.key)

Told ==
  /\ answered \subseteq inbox
  /\ \A e \in inbox : e.kind = "news" => \A i \in 1 .. Len(e.recipients) : ToldIn(e, i, notifications)
  /\ \A h \in Handler : Open(h) => \A i \in 1 .. tx[h].told :
       ToldIn(tx[h].of, i, notifications \cup tx[h].adds)

LEMMA ToldGoes ==
  ASSUME Base, Told, NEW h \in Handler, Open(h), Goes(h),
         \A i \in 1 .. tx'[h].told : ToldIn(tx[h].of, i, notifications \cup tx'[h].adds)
  PROVE  Told'
<1>1. UNCHANGED <<notifications, inbox, answered, erased>> /\ tx'[h].of = tx[h].of
  BY DEF Goes, rest
<1>2. \A g \in Handler \ {h} : tx'[g] = tx[g] /\ (Open(g)' <=> Open(g))
  BY OthersStay DEF Base, Goes
<1> QED BY <1>1, <1>2 DEF Told, ToldIn

LEMMA ToldStep == Base /\ Told /\ [Next]_vars => Told'
<1> SUFFICES ASSUME Base, Told, [Next]_vars PROVE Told'
  OBVIOUS
<1>1. ASSUME NEW h \in Handler, NEW e \in Event, Ingest(h, e) PROVE Told'
  <2>1. CASE e \in inbox
    BY <1>1, <2>1 DEF Ingest, Told, Open, ToldIn
  <2>2. CASE e \notin inbox
    <3>1. UNCHANGED <<notifications, inbox, answered, erased>> /\ tx' = [tx EXCEPT ![h] = Claimed(e)]
      BY <1>1, <2>2 DEF Ingest
    <3>2. tx'[h] = Claimed(e) /\ tx' = [tx EXCEPT ![h] = tx'[h]]
      BY <3>1 DEF Base, TypeOK
    <3>3. \A g \in Handler \ {h} : tx'[g] = tx[g] /\ (Open(g)' <=> Open(g))
      BY <3>2, OthersStay DEF Base
    <3>4. 1 .. tx'[h].told = {}
      BY <3>2, ClaimsAreTyped
    <3> QED BY <3>1, <3>3, <3>4 DEF Told, ToldIn
  <2> QED BY <2>1, <2>2
<1>2. ASSUME NEW h \in Handler, LearnAddress(h) \/ RetireOthers(h) PROVE Told'
  <2>1. Goes(h) /\ tx'[h].adds = tx[h].adds /\ tx'[h].told = tx[h].told /\ Open(h)
    BY <1>2, LearnGoes, RetireGoes DEF LearnAddress, RetireOthers
  <2> QED BY <2>1, ToldGoes DEF Told
<1>3. ASSUME NEW h \in Handler, EraseStatement(h)
      PROVE Told'
  <2>1. Goes(h) /\ tx'[h].adds = tx[h].adds /\ tx'[h].told = tx[h].told /\ Open(h)
    BY <1>3, EraseGoes
  <2> QED BY <2>1, ToldGoes DEF Told
<1>4. ASSUME NEW h \in Handler, CreateNotification(h) PROVE Told'
  <2>1. Goes(h) /\ Open(h) /\ tx'[h].told = tx[h].told + 1 /\ tx[h].told \in Nat
        /\ tx[h].adds \subseteq tx'[h].adds
    BY <1>4, CreateGoes DEF CreateNotification, Goes, OpenTx
  <2>2. ToldIn(tx[h].of, tx[h].told + 1, notifications \cup tx'[h].adds)
    <3>1. \E n \in notifications \cup tx'[h].adds : Describes(n, Recipient(h), tx[h].of.key)
      BY <1>4, CreateGoes DEF IsDuplicate
    <3> QED BY <3>1 DEF ToldIn, Recipient
  <2>3. \A i \in 1 .. tx'[h].told : i = tx[h].told + 1 \/ i \in 1 .. tx[h].told
    BY <2>1
  <2>4. \A i \in 1 .. tx[h].told : ToldIn(tx[h].of, i, notifications \cup tx'[h].adds)
    BY <2>1 DEF Told, ToldIn
  <2> QED BY <2>1, <2>2, <2>3, <2>4, ToldGoes
<1>5. ASSUME NEW h \in Handler, Commit(h) PROVE Told'
  <2> DEFINE e == tx[h].of
  <2>1. Ends(h) /\ Open(h) /\ tx[h].phase = "told" /\ inbox' = inbox \cup {e}
        /\ notifications' = notifications \cup tx[h].adds /\ erased' = erased /\ Answer(e)
    BY <1>5 DEF Commit, Ends
  <2>2. e \in Event /\ tx'[h] = NoTx /\ tx' = [tx EXCEPT ![h] = tx'[h]]
    BY <2>1, OpenIsNot DEF Ends, Base, TypeOK, OpenTx
  <2>3. \A g \in Handler : Open(g)' => Open(g) /\ tx'[g] = tx[g]
    BY <2>2, OthersStay DEF Base, Open
  <2>4. answered' \subseteq inbox'
    BY <2>1, <2>2, AnswersAreTyped DEF Base, Told
  <2>5. e.kind = "news" => \A i \in 1 .. Len(e.recipients) : ToldIn(e, i, notifications \cup tx[h].adds)
    <3>1. e.kind = "news" => tx[h].told = Len(e.recipients)
      BY <2>1 DEF Base, PhasesFit, PhaseFits
    <3> QED BY <2>1, <3>1 DEF Told
  <2> HIDE DEF e
  <2>6. \A f, i : ToldIn(f, i, notifications) => ToldIn(f, i, notifications)'
    BY <2>1 DEF ToldIn
  <2>7. \A f \in inbox' : f.kind = "news" => \A i \in 1 .. Len(f.recipients) : ToldIn(f, i, notifications)'
    BY <2>1, <2>5 DEF Told, ToldIn
  <2>8. \A g \in Handler : Open(g)' => \A i \in 1 .. tx'[g].told :
          ToldIn(tx[g].of, i, notifications \cup tx[g].adds)'
    BY <2>1, <2>3 DEF Told, ToldIn
  <2> QED BY <2>4, <2>7, <2>8 DEF Told
<1>6. ASSUME NEW h \in Handler, CommitErasure(h) PROVE Told'
  <2> DEFINE e == tx[h].of
             u == Subject(e)
             image(n) == Detached(n, u, tx[h].gone, tx[h].cut)
  <2>1. /\ Ends(h) /\ Open(h) /\ tx[h].phase = "erased" /\ inbox' = inbox \cup {e} /\ Answer(e)
        /\ notifications' = {image(n) : n \in notifications \ tx[h].removes}
        /\ erased' = erased \cup {u}
    BY <1>6 DEF CommitErasure, Ends
  <2>2. tx[h] \in OpenTx /\ e \in Event /\ tx'[h] = NoTx /\ tx' = [tx EXCEPT ![h] = tx'[h]]
    BY <2>1, OpenIsNot DEF Ends, Base, TypeOK, OpenTx
  <2>3. \A g \in Handler : Open(g)' => Open(g) /\ tx'[g] = tx[g]
    BY <2>2, OthersStay DEF Base, Open
  <2>4. answered' \subseteq inbox'
    BY <2>1, <2>2, AnswersAreTyped DEF Base, Told
  <2>5. e.kind = "erasure" /\ \A n \in tx[h].removes : n.user = u
    BY <2>1 DEF Base, PhasesFit, PhaseFits, ErasurePhase
  <2>6. \A n \in notifications : image(n).user = n.user /\ image(n).key = n.key
    <3>1. u \in User /\ tx[h].gone \in SUBSET Address
      BY <2>2, EventsAreTyped DEF OpenTx
    <3> QED BY <3>1, DetachedStaysGood DEF Base, RowsAreGood
  <2> HIDE DEF e, u, image
  <2>7. \A n \in notifications : n.user = u \/ \E m \in notifications' : m.user = n.user /\ m.key = n.key
    BY <2>1, <2>5, <2>6
  <2>8. \A f, i : ToldIn(f, i, notifications) => ToldIn(f, i, notifications)'
    BY <2>1, <2>7 DEF ToldIn, Describes
  <2>9. \A g \in Handler : Open(g)' => \A i \in 1 .. tx'[g].told :
          ToldIn(tx[g].of, i, notifications \cup tx[g].adds)'
    BY <2>1, <2>3, <2>7 DEF Told, ToldIn, Describes
  <2>10. \A f \in inbox' : f.kind = "news" => f \in inbox
    BY <2>1, <2>5
  <2> QED BY <2>4, <2>8, <2>9, <2>10 DEF Told
<1>7. ASSUME NEW h \in Handler, Fail(h) PROVE Told'
  <2>1. UNCHANGED <<inbox, notifications, answered, erased>> /\ Ends(h)
    BY <1>7 DEF Fail, Ends
  <2>2. tx'[h] = NoTx /\ tx' = [tx EXCEPT ![h] = tx'[h]]
    BY <2>1 DEF Ends, Base, TypeOK
  <2>3. \A g \in Handler : Open(g)' => Open(g) /\ tx'[g] = tx[g]
    BY <2>2, OthersStay DEF Base, Open
  <2> QED BY <2>1, <2>3 DEF Told, ToldIn
<1>8. ASSUME NEW u \in User, SetPreferences(u) PROVE Told'
  BY <1>8 DEF SetPreferences, Told, Open, ToldIn
<1>9. CASE UNCHANGED vars
  BY <1>9 DEF vars, Told, Open, ToldIn
<1> QED BY <1>1, <1>2, <1>3, <1>4, <1>5, <1>6, <1>7, <1>8, <1>9 DEF Next, EraseStatement

(* An event is answered only when each of its recipients has a             *)
(* notification of its key, or was erased: the inbox swallows nothing.     *)
THEOREM NothingAnsweredIsLost == Spec => []AnsweredIsTold
<1>1. Init => Told
  BY DEF Init, Told, Open
<1>2. Told => AnsweredIsTold
  BY DEF Told, ToldIn, AnsweredIsTold
<1> QED BY <1>1, <1>2, BaseInit, BaseStep, ToldStep, PTL DEF Spec

(***************************************************************************)
(* No user is left without an address.  Events that teach one user may     *)
(* retire each other's, in any order; but whichever commits has its own    *)
(* address active among what it writes.  The invariant says so of every    *)
(* open transaction, and that one that teaches nothing writes nothing.     *)
(***************************************************************************)

Teaches(e) == e.kind = "news" /\ e.learns # None
Untouched(t) == \A a \in Address : t.writes[a] = None
HasLearnt(t) ==
  /\ t.writes[t.of.learns] = "active"
  /\ t.phase = "retiring" => t.of.learns \notin t.seen
Keeps(t) ==
  /\ Untouched(t) \/ (Teaches(t.of) /\ HasLearnt(t))
  /\ Teaches(t.of) /\ Untouched(t) => t.phase = "claimed"
  /\ t.phase = "retiring" => Teaches(t.of)
Kept == AddressIsKept /\ \A h \in Handler : Open(h) => Keeps(tx[h])

LEMMA KeptGoes ==
  ASSUME Base, Kept, NEW h \in Handler, Goes(h), Keeps(tx'[h])
  PROVE  Kept'
<1>1. UNCHANGED <<targets, taught>>
  BY DEF Goes, rest
<1>2. \A g \in Handler : Open(g)' => Keeps(tx'[g])
  BY OthersStay DEF Base, Kept, Goes
<1> QED BY <1>1, <1>2 DEF Kept, AddressIsKept

LEMMA LearningKeeps ==
  ASSUME Base, Kept, NEW h \in Handler, LearnAddress(h)
  PROVE  Keeps(tx'[h])
<1> DEFINE e == tx[h].of
           new == [tx[h] EXCEPT !.writes = [tx[h].writes EXCEPT ![e.learns] = "active"],
                                !.seen = Active(targets[Subject(e)]) \ {e.learns},
                                !.phase = "retiring"]
<1>1. tx[h] \in OpenTx /\ PhaseFits(h) /\ tx[h].phase = "claimed" /\ e.kind = "news"
  BY OpenIsNot DEF Base, PhasesFit, LearnAddress
<1>2. e.learns # None /\ e.learns \in Address
  <2>1. e \in EventType
    BY <1>1, EventsTyped DEF OpenTx
  <2> QED BY <1>1, <2>1 DEF PhaseFits, EventType
<1>3. tx'[h] = new
  BY DEF LearnAddress, Base, TypeOK
<1>4. new.of = e /\ new.phase = "retiring" /\ e.learns \notin new.seen
  BY <1>1 DEF OpenTx
<1>5. new.writes[e.learns] = "active"
  BY <1>1, <1>2 DEF OpenTx
<1> HIDE DEF new, e
<1>6. ~Untouched(new)
  BY <1>2, <1>5 DEF Untouched, None
<1> QED BY <1>1, <1>2, <1>3, <1>4, <1>5, <1>6 DEF Keeps, Teaches, HasLearnt, e

LEMMA RetiringKeeps ==
  ASSUME Base, Kept, NEW h \in Handler, RetireOthers(h)
  PROVE  Keeps(tx'[h])
<1> DEFINE e == tx[h].of
           wrote == [a \in Address |-> IF a \in Retires(h) THEN "retired" ELSE tx[h].writes[a]]
           new == [tx[h] EXCEPT !.writes = wrote, !.seen = {}, !.phase = "telling"]
<1>1. tx[h] \in OpenTx /\ tx[h].phase = "retiring" /\ Keeps(tx[h])
  BY OpenIsNot DEF Base, RetireOthers, Kept
<1>2. tx'[h] = new
  BY DEF RetireOthers, Base, TypeOK
<1>3. new.of = e /\ new.phase = "telling" /\ new.writes = wrote
  BY <1>1 DEF OpenTx
<1>4. Retires(h) \subseteq tx[h].seen
  BY DEF Retires
<1>5. Teaches(e) /\ HasLearnt(tx[h])
  BY <1>1 DEF Keeps
<1>6. e.learns \in Address
  BY <1>1, <1>5, EventsTyped DEF OpenTx, EventType, Teaches
<1>7. wrote[e.learns] = "active"
  BY <1>1, <1>4, <1>5, <1>6 DEF HasLearnt
<1> HIDE DEF new, wrote
<1>8. ~Untouched(new)
  BY <1>3, <1>6, <1>7 DEF Untouched, None
<1> QED BY <1>2, <1>3, <1>5, <1>7, <1>8 DEF Keeps, HasLearnt

LEMMA KeptStep == Base /\ Kept /\ [Next]_vars => Kept'
<1> SUFFICES ASSUME Base, Kept, [Next]_vars PROVE Kept'
  OBVIOUS
<1>0. \A h \in Handler : Open(h) => Keeps(tx[h])
  BY DEF Kept
<1>1. ASSUME NEW h \in Handler, NEW e \in Event, Ingest(h, e) PROVE Kept'
  <2>1. UNCHANGED <<targets, taught>>
    BY <1>1 DEF Ingest
  <2>2. CASE e \in inbox
    BY <1>0, <1>1, <2>1, <2>2 DEF Ingest, Kept, AddressIsKept, Open
  <2>3. CASE e \notin inbox
    <3>1. tx'[h] = Claimed(e) /\ tx' = [tx EXCEPT ![h] = tx'[h]]
      BY <1>1, <2>3 DEF Ingest, Base, TypeOK
    <3>2. Untouched(Claimed(e)) /\ Claimed(e).of = e /\ Claimed(e).phase = FirstPhase(e)
      BY DEF Claimed, Untouched
    <3>3. Teaches(e) => FirstPhase(e) = "claimed"
      BY DEF Teaches, FirstPhase
    <3>4. Keeps(tx'[h])
      <4>1. FirstPhase(e) # "retiring"
        BY DEF FirstPhase
      <4> HIDE DEF Claimed
      <4> QED BY <3>1, <3>2, <3>3, <4>1 DEF Keeps
    <3>5. \A g \in Handler : Open(g)' => Keeps(tx'[g])
      BY <1>0, <3>1, <3>4, OthersStay DEF Base
    <3> QED BY <2>1, <3>5 DEF Kept, AddressIsKept
  <2> QED BY <2>2, <2>3
<1>2. ASSUME NEW h \in Handler, LearnAddress(h) PROVE Kept'
  BY <1>2, LearnGoes, LearningKeeps, KeptGoes
<1>3. ASSUME NEW h \in Handler, RetireOthers(h) PROVE Kept'
  BY <1>3, RetireGoes, RetiringKeeps, KeptGoes
<1>4. ASSUME NEW h \in Handler, CreateNotification(h) PROVE Kept'
  <2>1. Goes(h) /\ Keeps(tx[h]) /\ tx[h] \in OpenTx /\ tx[h].phase = "telling"
    BY <1>0, <1>4, CreateGoes DEF CreateNotification, Goes
  <2>2. tx'[h].of = tx[h].of /\ tx'[h].writes = tx[h].writes /\ tx'[h].phase \in {"telling", "told"}
    BY <1>4, <2>1 DEF CreateNotification, Base, TypeOK, OpenTx
  <2>3. Keeps(tx'[h])
    BY <2>1, <2>2 DEF Keeps, Untouched, HasLearnt
  <2> QED BY <2>1, <2>3, KeptGoes
<1>5. ASSUME NEW h \in Handler, EraseStatement(h)
      PROVE Kept'
  <2>1. Goes(h) /\ Keeps(tx[h]) /\ PhaseFits(h)' /\ tx'[h].of = tx[h].of
    BY <1>0, <1>5, EraseGoes DEF Goes
  <2>2. tx'[h].writes = tx[h].writes /\ tx'[h].phase \in ErasurePhase
    BY <1>5, EraseGoes
  <2>3. ~Teaches(tx[h].of)
    BY <2>1, <2>2 DEF PhaseFits, Teaches
  <2>4. Keeps(tx'[h])
    BY <2>1, <2>2, <2>3 DEF Keeps, Untouched, ErasurePhase
  <2> QED BY <2>1, <2>4, KeptGoes
<1>6. ASSUME NEW h \in Handler, Ends(h), AddressIsKept' PROVE Kept'
  <2>1. tx'[h] = NoTx /\ tx' = [tx EXCEPT ![h] = tx'[h]]
    BY <1>6 DEF Ends, Base, TypeOK
  <2> QED BY <1>0, <1>6, <2>1, OthersStay DEF Kept, Base, Open
<1>7. ASSUME NEW h \in Handler, Commit(h) PROVE Kept'
  <2> DEFINE e == tx[h].of
             teacher == IF Teaches(e) THEN {Subject(e)} ELSE {}
  <2>1. /\ Ends(h) /\ tx[h] \in OpenTx /\ tx[h].phase = "told" /\ Keeps(tx[h])
        /\ e \in Event /\ e \in EventType
    BY <1>0, <1>7, OpenIsNot, EventsTyped DEF Base, Commit, Ends, OpenTx
  <2>2. targets' = [u \in User |-> Overlay(h, u)] /\ taught' = taught \cup teacher
    BY <1>7 DEF Commit, Teaches
  <2>3. taught \subseteq User /\ Subject(e) \in User
    BY <2>1, EventsAreTyped DEF Base, TypeOK
  <2>4. ASSUME NEW u \in taught \cup teacher PROVE Active(Overlay(h, u)) # {}
    <3>1. CASE Teaches(e) /\ u = Subject(e)
      <4>1. e.learns \in Address /\ tx[h].writes[e.learns] = "active"
        BY <2>1, <3>1 DEF Keeps, HasLearnt, Teaches, EventType
      <4>2. e.learns \in Active(Overlay(h, u))
        BY <3>1, <4>1 DEF Active, Overlay, None
      <4> QED BY <4>2
    <3>2. CASE Teaches(e) /\ u # Subject(e)
      <4>1. u \in taught
        BY <3>2
      <4>2. Active(Overlay(h, u)) = Active(targets[u])
        BY <3>2 DEF Active, Overlay
      <4> QED BY <4>1, <4>2 DEF Kept, AddressIsKept
    <3>3. CASE ~Teaches(e)
      <4>1. u \in taught /\ Untouched(tx[h])
        BY <2>1, <3>3 DEF Keeps
      <4>2. Active(Overlay(h, u)) = Active(targets[u])
        BY <4>1 DEF Active, Overlay, Untouched
      <4> QED BY <4>1, <4>2 DEF Kept, AddressIsKept
    <3> QED BY <3>1, <3>2, <3>3
  <2> HIDE DEF e, teacher
  <2>5. taught' \subseteq User
    BY <2>2, <2>3 DEF teacher
  <2>6. \A u \in taught' : targets'[u] = Overlay(h, u)
    BY <2>2, <2>5
  <2>7. AddressIsKept'
    BY <2>2, <2>4, <2>6 DEF AddressIsKept, Active
  <2> QED BY <1>6, <2>1, <2>7
<1>8. ASSUME NEW h \in Handler, CommitErasure(h) PROVE Kept'
  <2> DEFINE u == Subject(tx[h].of)
  <2>1. Ends(h) /\ taught' = taught \ {u} /\ \A v \in User \ {u} : targets'[v] = targets[v]
    BY <1>8 DEF CommitErasure, Ends, Base, TypeOK
  <2> HIDE DEF u
  <2>2. AddressIsKept'
    BY <2>1 DEF AddressIsKept, Active, Kept, Base, TypeOK
  <2> QED BY <1>6, <2>1, <2>2
<1>9. ASSUME NEW h \in Handler, Fail(h) PROVE Kept'
  <2>1. Ends(h) /\ UNCHANGED <<targets, taught>>
    BY <1>9 DEF Fail, Ends
  <2> QED BY <1>6, <2>1 DEF AddressIsKept, Kept
<1>10. ASSUME NEW u \in User, SetPreferences(u) PROVE Kept'
  BY <1>0, <1>10 DEF SetPreferences, Kept, AddressIsKept, Open
<1>11. CASE UNCHANGED vars
  BY <1>0, <1>11 DEF vars, Kept, AddressIsKept, Open
<1> QED BY <1>1, <1>2, <1>3, <1>4, <1>5, <1>7, <1>8, <1>9, <1>10, <1>11 DEF Next, EraseStatement

(* A user who was taught an address and not erased since has an active     *)
(* one, however many events that retire each other's are served at once.   *)
THEOREM AddressAlwaysKept == Spec => []AddressIsKept
<1>1. Init => Kept
  BY DEF Init, Kept, AddressIsKept, Open
<1>2. Kept => AddressIsKept
  BY DEF Kept
<1> QED BY <1>1, <1>2, BaseInit, BaseStep, KeptStep, PTL DEF Spec
(***************************************************************************)
(* Refinement of SinkContract.  The invariant: an event is served by one   *)
(* transaction, until it is in the inbox; a row, committed or not, and a   *)
(* recipient whose row was left out, go back to an event; what an open     *)
(* erasure has deleted is there, nobody else is deleting it, and nobody is *)
(* taking its target from it.                                              *)
(***************************************************************************)

OneEach ==
  /\ \A h \in Handler : Open(h) => tx[h].of \notin inbox
  /\ \A g, h \in Handler : Open(g) /\ Open(h) /\ tx[g].of = tx[h].of => g = h

Accounted(t, i) ==
  \/ NewsFor(t.of, i) \in AllNews(t.adds)
  \/ \E f \in inbox : \E r \in NewsIn(f) : PlaceOf(r) = PlaceOf(NewsFor(t.of, i))
Traced ==
  /\ \A n \in notifications : \E f \in inbox : NewsOf(n) \in NewsIn(f)
  /\ \A h \in Handler : Open(h) =>
       /\ AllNews(tx[h].adds) \subseteq NewsIn(tx[h].of)
       /\ \A i \in 1 .. tx[h].told : Accounted(tx[h], i)

Intact(notes, u, gone, cut) ==
  \A n \in notes : n.user = u => /\ \A d \in n.deliveries : d[2] \notin gone
                                 /\ n.batched \cap cut = {}
HeldCut(h) == IF tx[h].phase = "erased" THEN tx[h].cut ELSE {}
Locks ==
  /\ \A h \in Handler : Open(h) => tx[h].removes \subseteq notifications
  /\ \A g, h \in Handler : g # h /\ Open(g) /\ Open(h) =>
       /\ tx[g].removes \cap tx[h].removes = {}
       /\ Intact(tx[g].removes, Subject(tx[h].of), tx[h].gone, HeldCut(h))

(* A row keeps its news when it loses its target or its digest, and a row  *)
(* that is in none that goes keeps everything.                             *)
LEMMA DetachedKeepsNews ==
  ASSUME NEW n \in Notification, NEW u, NEW gone, NEW cut
  PROVE  /\ NewsOf(Detached(n, u, gone, cut)) = NewsOf(n)
         /\ Intact({n}, u, gone, cut) => Detached(n, u, gone, cut) = n
<1>1. CASE n.user # u
  BY <1>1 DEF Detached
<1>2. CASE n.user = u
  <2> DEFINE left == {IF d[2] \in gone THEN <<d[1], None>> ELSE d : d \in n.deliveries}
             kept == n.batched \ cut
             m == [n EXCEPT !.deliveries = left, !.batched = kept]
  <2>1. Detached(n, u, gone, cut) = m
    BY <1>2 DEF Detached
  <2>2. Intact({n}, u, gone, cut) => left = n.deliveries /\ kept = n.batched
    BY <1>2 DEF Intact
  <2> HIDE DEF left, kept
  <2>3. NewsOf(m) = NewsOf(n)
    BY DEF NewsOf, Notification
  <2>4. left = n.deliveries /\ kept = n.batched => m = n
    BY DEF Notification
  <2> QED BY <2>1, <2>2, <2>3, <2>4
<1> QED BY <1>1, <1>2

(* What the steps do to the open transactions.                             *)
LEMMA OneEachStep == Base /\ OneEach /\ [Next]_vars => OneEach'
<1> SUFFICES ASSUME Base, OneEach, [Next]_vars PROVE OneEach'
  OBVIOUS
<1>1. ASSUME NEW h \in Handler, NEW e \in Event, Ingest(h, e) PROVE OneEach'
  BY <1>1, ClaimsAreTyped DEF Ingest, MayDeliver, OneEach, Open, Base, TypeOK
<1>2. ASSUME NEW h \in Handler, Goes(h), Open(h) PROVE OneEach'
  <2>1. inbox' = inbox /\ tx'[h].of = tx[h].of
        /\ \A g \in Handler \ {h} : tx'[g] = tx[g] /\ (Open(g)' <=> Open(g))
    BY <1>2, OthersStay DEF Goes, rest, Base
  <2> QED BY <1>2, <2>1 DEF OneEach
<1>3. ASSUME NEW h \in Handler, LearnAddress(h) \/ RetireOthers(h) \/ CreateNotification(h)
               \/ EraseStatement(h)
      PROVE OneEach'
  <2>1. Open(h)
    BY <1>3, EraseGoes DEF LearnAddress, RetireOthers, CreateNotification
  <2> QED BY <1>2, <1>3, <2>1, LearnGoes, RetireGoes, CreateGoes, EraseGoes
<1>4. ASSUME NEW h \in Handler, Commit(h) \/ CommitErasure(h) \/ Fail(h) PROVE OneEach'
  <2>1. /\ Open(h) /\ inbox' \subseteq inbox \cup {tx[h].of} /\ ~Open(h)'
        /\ \A g \in Handler \ {h} : tx'[g] = tx[g]
    BY <1>4 DEF Commit, CommitErasure, Fail, Open, Base, TypeOK
  <2> QED BY <2>1 DEF OneEach, Open
<1>5. CASE (\E u \in User : SetPreferences(u)) \/ UNCHANGED vars
  BY <1>5 DEF SetPreferences, vars, OneEach, Open
<1> QED BY <1>1, <1>3, <1>4, <1>5 DEF Next, EraseStatement

(* What a statement does to the rows that its event accounts for.          *)
LEMMA TracedGoes ==
  ASSUME Base, Traced, NEW h \in Handler, Open(h), Goes(h),
         AllNews(tx'[h].adds) \subseteq NewsIn(tx[h].of),
         \A i \in 1 .. tx'[h].told : Accounted(tx'[h], i)
  PROVE  Traced'
<1>1. UNCHANGED <<notifications, inbox>> /\ tx'[h].of = tx[h].of
  BY DEF Goes, rest
<1>2. \A g \in Handler \ {h} : tx'[g] = tx[g] /\ (Open(g)' <=> Open(g))
  BY OthersStay DEF Base, Goes
<1>3. \A t, i : Accounted(t, i)' <=> Accounted(t, i)
  BY <1>1 DEF Accounted
<1> QED BY <1>1, <1>2, <1>3 DEF Traced
LEMMA TracedStep == Base /\ Traced /\ [Next]_vars => Traced'
<1> SUFFICES ASSUME Base, Traced, [Next]_vars PROVE Traced'
  OBVIOUS
<1>1. ASSUME NEW h \in Handler, NEW e \in Event, Ingest(h, e) PROVE Traced'
  <2>1. UNCHANGED <<notifications, inbox>>
    BY <1>1 DEF Ingest
  <2>2. \A t, i : Accounted(t, i)' <=> Accounted(t, i)
    BY <2>1 DEF Accounted
  <2>3. CASE e \in inbox
    BY <1>1, <2>1, <2>2, <2>3 DEF Ingest, Traced, Open
  <2>4. CASE e \notin inbox
    <3>1. tx'[h] = Claimed(e) /\ \A g \in Handler \ {h} : tx'[g] = tx[g]
      BY <1>1, <2>4 DEF Ingest, Base, TypeOK
    <3>2. tx'[h].adds = {} /\ 1 .. tx'[h].told = {}
      BY <3>1, ClaimsAreTyped
    <3> QED BY <2>1, <2>2, <3>1, <3>2 DEF Traced, Open, AllNews
  <2> QED BY <2>3, <2>4
<1>2. ASSUME NEW h \in Handler, LearnAddress(h) \/ RetireOthers(h)
               \/ EraseStatement(h)
      PROVE Traced'
  <2>1. Goes(h) /\ tx'[h].adds = tx[h].adds /\ tx'[h].told = tx[h].told
    BY <1>2, LearnGoes, RetireGoes, EraseGoes
  <2>2. Open(h)
    BY <1>2, EraseGoes DEF LearnAddress, RetireOthers
  <2>3. \A i : Accounted(tx'[h], i) <=> Accounted(tx[h], i)
    BY <2>1 DEF Goes, Accounted
  <2> QED BY <2>1, <2>2, <2>3, TracedGoes DEF Traced
<1>3. ASSUME NEW h \in Handler, CreateNotification(h) PROVE Traced'
  <2> DEFINE e == tx[h].of
             i == tx[h].told + 1
             u == Recipient(h)
  <2>1. /\ Goes(h) /\ Open(h) /\ tx'[h].of = e /\ tx'[h].told = i /\ e.kind = "news"
        /\ i \in 1 .. Len(e.recipients) /\ tx[h].told \in Nat
    BY <1>3, CreateGoes DEF CreateNotification, Goes, OpenTx
  <2>2. NewsFor(e, i) \in NewsIn(e) /\ NewsFor(e, i) = [user |-> u, key |-> e.key, fact |-> e.fact]
    BY <2>1 DEF NewsIn, NewsFor, Recipient
  <2>3. /\ tx[h].adds \subseteq tx'[h].adds
        /\ AllNews(tx'[h].adds) \subseteq NewsIn(e)
        /\ Accounted(tx'[h], i)
    <3>1. CASE tx'[h].adds = tx[h].adds /\ IsDuplicate(h, u, e.key)
      <4>1. PICK n \in notifications \cup tx[h].adds : n.user = u /\ n.key = e.key
        BY <3>1 DEF IsDuplicate, Describes
      <4>2. PlaceOf(NewsOf(n)) = PlaceOf(NewsFor(e, i))
        BY <2>2, <4>1 DEF PlaceOf, NewsOf
      <4>3. ASSUME n \in notifications PROVE Accounted(tx'[h], i)
        BY <2>1, <4>2, <4>3 DEF Traced, Accounted
      <4>4. ASSUME n \in tx[h].adds PROVE Accounted(tx'[h], i)
        <5>1. NewsOf(n) \in NewsIn(e)
          BY <2>1, <4>4 DEF Traced, AllNews
        <5>2. NewsOf(n).fact = e.fact
          BY <2>1, <5>1 DEF NewsIn, NewsFor
        <5>3. NewsOf(n) = NewsFor(e, i)
          BY <2>2, <4>1, <5>2 DEF NewsOf
        <5> QED BY <2>1, <3>1, <4>4, <5>3 DEF Accounted, AllNews
      <4>5. AllNews(tx'[h].adds) \subseteq NewsIn(e)
        BY <2>1, <3>1 DEF Traced
      <4> QED BY <3>1, <4>1, <4>3, <4>4, <4>5
    <3>2. CASE \E n : /\ Describes(n, u, e.key) /\ n.fact = e.fact
                      /\ tx'[h].adds = tx[h].adds \cup {n}
      <4>1. PICK n : /\ Describes(n, u, e.key) /\ n.fact = e.fact
                     /\ tx'[h].adds = tx[h].adds \cup {n}
        BY <3>2
      <4>2. NewsOf(n) = NewsFor(e, i)
        BY <2>2, <4>1 DEF NewsOf, Describes
      <4>3. AllNews(tx[h].adds) \subseteq NewsIn(e)
        BY <2>1 DEF Traced
      <4>4. AllNews(tx'[h].adds) = AllNews(tx[h].adds) \cup {NewsFor(e, i)}
        BY <4>1, <4>2 DEF AllNews
      <4> QED BY <2>1, <2>2, <4>1, <4>3, <4>4 DEF Accounted
    <3> QED BY <1>3, <3>1, <3>2, CreateGoes
  <2>4. \A j \in 1 .. tx[h].told : Accounted(tx'[h], j)
    BY <2>1, <2>3 DEF Traced, Accounted, AllNews
  <2>5. \A j \in 1 .. tx'[h].told : j = i \/ j \in 1 .. tx[h].told
    BY <2>1
  <2> QED BY <2>1, <2>3, <2>4, <2>5, TracedGoes
<1>4. ASSUME NEW h \in Handler, Commit(h) \/ CommitErasure(h) \/ Fail(h) PROVE Traced'
  <2>1. /\ Open(h) /\ ~Open(h)' /\ inbox \subseteq inbox'
        /\ \A g \in Handler \ {h} : tx'[g] = tx[g]
    BY <1>4 DEF Commit, CommitErasure, Fail, Open, Base, TypeOK
  <2>2. \A t, i : Accounted(t, i) => Accounted(t, i)'
    BY <2>1 DEF Accounted
  <2>3. \A n \in notifications' : \E f \in inbox' : NewsOf(n) \in NewsIn(f)
    <3>1. CASE Commit(h)
      <4>1. notifications' = notifications \cup tx[h].adds /\ tx[h].of \in inbox'
        BY <3>1 DEF Commit
      <4>2. \A n \in tx[h].adds : NewsOf(n) \in NewsIn(tx[h].of)
        BY <2>1 DEF Traced, AllNews
      <4> QED BY <2>1, <4>1, <4>2 DEF Traced
    <3>2. CASE CommitErasure(h)
      <4> DEFINE image(n) == Detached(n, Subject(tx[h].of), tx[h].gone, tx[h].cut)
      <4>1. notifications' = {image(n) : n \in notifications \ tx[h].removes}
        BY <3>2 DEF CommitErasure
      <4>2. \A n \in notifications : NewsOf(image(n)) = NewsOf(n)
        BY DetachedKeepsNews DEF Base, TypeOK
      <4> HIDE DEF image
      <4> QED BY <2>1, <4>1, <4>2 DEF Traced
    <3>3. CASE Fail(h)
      BY <2>1, <3>3 DEF Fail, Traced
    <3> QED BY <1>4, <3>1, <3>2, <3>3
  <2> QED BY <2>1, <2>2, <2>3 DEF Traced, Open
<1>5. CASE (\E u \in User : SetPreferences(u)) \/ UNCHANGED vars
  <2>1. UNCHANGED <<notifications, inbox, tx>>
    BY <1>5 DEF SetPreferences, vars
  <2> QED BY <2>1 DEF Traced, Accounted, Open
<1> QED BY <1>1, <1>2, <1>3, <1>4, <1>5 DEF Next, EraseStatement

(* Learning, retiring and telling neither delete rows nor targets.         *)
LEMMA TellingDeletesNothing ==
  ASSUME Base, NEW h \in Handler, LearnAddress(h) \/ RetireOthers(h) \/ CreateNotification(h)
  PROVE  /\ Open(h) /\ Goes(h) /\ tx'[h].removes = tx[h].removes /\ tx'[h].gone = tx[h].gone
         /\ HeldCut(h)' = HeldCut(h) /\ h \notin Erasing /\ h \notin Erasing'
<1>1. Open(h) /\ Goes(h) /\ tx[h] \in OpenTx
  BY LearnGoes, RetireGoes, CreateGoes DEF LearnAddress, RetireOthers, CreateNotification, Goes
<1>2. tx[h].phase \in {"claimed", "retiring", "telling"}
  BY DEF LearnAddress, RetireOthers, CreateNotification
<1>3. tx'[h].removes = tx[h].removes /\ tx'[h].gone = tx[h].gone
      /\ tx'[h].phase \in {"retiring", "telling", "told"}
  <2>1. CASE LearnAddress(h)
    BY <1>1, <2>1 DEF LearnAddress, Base, TypeOK, OpenTx
  <2>2. CASE RetireOthers(h)
    BY <1>1, <2>2 DEF RetireOthers, Base, TypeOK, OpenTx
  <2>3. CASE CreateNotification(h)
    BY <1>1, <2>3 DEF CreateNotification, Base, TypeOK, OpenTx
  <2> QED BY <2>1, <2>2, <2>3
<1> QED BY <1>1, <1>2, <1>3 DEF Erasing, ErasurePhase, HeldCut

(* The statements of an erasure.                                           *)
LEMMA ErasingDeletes ==
  ASSUME Base, NEW h \in Handler
  PROVE  /\ EraseNotifications(h) =>
              /\ tx'[h].removes = {n \in notifications : n.user = Subject(tx[h].of)}
              /\ tx'[h].gone = tx[h].gone /\ HeldCut(h)' = HeldCut(h)
              /\ h \notin Erasing /\ h \in Erasing'
         /\ FindTargets(h) \/ FindDigests(h) =>
              /\ tx'[h].removes = tx[h].removes /\ tx'[h].gone = tx[h].gone
              /\ HeldCut(h)' = HeldCut(h) /\ h \in Erasing /\ h \in Erasing'
         /\ EraseTargets(h) =>
              /\ tx'[h].removes = tx[h].removes /\ tx'[h].gone = tx[h].seen
              /\ HeldCut(h)' = HeldCut(h) /\ h \in Erasing /\ h \in Erasing'
         /\ EraseDigests(h) =>
              /\ tx'[h].removes = tx[h].removes /\ tx'[h].gone = tx[h].gone
              /\ HeldCut(h)' = tx[h].cut /\ h \in Erasing /\ h \in Erasing'
<1>1. ASSUME EraseStatement(h)
      PROVE  Open(h) /\ tx[h] \in OpenTx /\ tx'[h] \in OpenTx /\ Open(h)'
  BY <1>1, EraseGoes, OpenIsNot DEF Goes, Open
<1>2. ASSUME EraseNotifications(h)
      PROVE  /\ tx'[h].removes = {n \in notifications : n.user = Subject(tx[h].of)}
             /\ tx'[h].gone = tx[h].gone /\ tx[h].phase = "claimed" /\ tx'[h].phase = "erasing"
  <2> DEFINE doomed == {n \in notifications : n.user = Subject(tx[h].of)}
             new == [tx[h] EXCEPT !.removes = doomed, !.phase = "erasing"]
  <2>1. tx'[h] = new
    BY <1>2 DEF EraseNotifications, Base, TypeOK
  <2> HIDE DEF doomed
  <2>2. new.removes = doomed /\ new.gone = tx[h].gone /\ new.phase = "erasing"
    BY <1>1, <1>2 DEF OpenTx, EraseStatement
  <2> HIDE DEF new
  <2> QED BY <1>2, <2>1, <2>2 DEF EraseNotifications, doomed
<1>3. ASSUME FindTargets(h)
      PROVE  /\ tx'[h].removes = tx[h].removes /\ tx'[h].gone = tx[h].gone
             /\ tx[h].phase = "erasing" /\ tx'[h].phase = "deleting"
  BY <1>1, <1>3 DEF FindTargets, Base, TypeOK, OpenTx, EraseStatement
<1>4. ASSUME EraseTargets(h)
      PROVE  /\ tx'[h].removes = tx[h].removes /\ tx'[h].gone = tx[h].seen
             /\ tx[h].phase = "deleting" /\ tx'[h].phase = "emptying"
  BY <1>1, <1>4 DEF EraseTargets, Base, TypeOK, OpenTx, EraseStatement
<1>5. ASSUME FindDigests(h)
      PROVE  /\ tx'[h].removes = tx[h].removes /\ tx'[h].gone = tx[h].gone
             /\ tx[h].phase = "emptying" /\ tx'[h].phase = "cutting"
  <2> DEFINE joined == Joined(notifications, Subject(tx[h].of))
  <2>1. tx'[h] = [tx[h] EXCEPT !.cut = joined, !.phase = "cutting"] /\ tx[h].phase = "emptying"
    BY <1>5 DEF FindDigests, Base, TypeOK
  <2> HIDE DEF joined
  <2> QED BY <1>1, <1>5, <2>1 DEF OpenTx, EraseStatement
<1>6. ASSUME EraseDigests(h)
      PROVE  /\ tx'[h].removes = tx[h].removes /\ tx'[h].gone = tx[h].gone /\ tx'[h].cut = tx[h].cut
             /\ tx[h].phase = "cutting" /\ tx'[h].phase = "erased"
  BY <1>1, <1>6 DEF EraseDigests, Base, TypeOK, OpenTx, EraseStatement
<1> QED BY <1>1, <1>2, <1>3, <1>4, <1>5, <1>6 DEF Erasing, ErasurePhase, HeldCut, EraseStatement

LEMMA LocksStep == Base /\ Locks /\ [Next]_vars => Locks'
<1> SUFFICES ASSUME Base, Locks, [Next]_vars PROVE Locks'
  OBVIOUS
<1>0. \A h \in Handler : Open(h) => tx[h] \in OpenTx /\ tx[h].gone \subseteq Address
                                     /\ tx[h].seen \subseteq Address
  BY OpenIsNot DEF Base, OpenTx
<1>1. ASSUME NEW h \in Handler, NEW e \in Event, Ingest(h, e) PROVE Locks'
  <2>1. notifications' = notifications /\ (tx' = tx \/ tx' = [tx EXCEPT ![h] = Claimed(e)])
    BY <1>1 DEF Ingest
  <2>2. CASE tx' = tx
    BY <2>1, <2>2 DEF Locks, Open, HeldCut
  <2>3. CASE tx' = [tx EXCEPT ![h] = Claimed(e)]
    <3>1. /\ tx'[h].removes = {} /\ tx'[h].gone = {} /\ tx'[h].cut = {}
          /\ \A g \in Handler \ {h} : tx'[g] = tx[g]
      BY <2>3 DEF Claimed, Base, TypeOK
    <3>2. HeldCut(h)' = {} /\ \A g \in Handler \ {h} : HeldCut(g)' = HeldCut(g)
      BY <2>3, <3>1 DEF HeldCut
    <3> QED BY <2>1, <3>1, <3>2 DEF Locks, Open, Intact
  <2> QED BY <2>1, <2>2, <2>3
<1>2. ASSUME NEW h \in Handler, Open(h), Goes(h), tx'[h].removes = tx[h].removes,
             tx'[h].gone = tx[h].gone, HeldCut(h)' = HeldCut(h)
      PROVE Locks'
  <2>1. notifications' = notifications /\ tx'[h].of = tx[h].of
        /\ \A g \in Handler \ {h} : tx'[g] = tx[g] /\ (Open(g)' <=> Open(g)) /\ HeldCut(g)' = HeldCut(g)
    BY <1>2, OthersStay DEF Goes, rest, Base, HeldCut
  <2> QED BY <1>2, <2>1 DEF Locks
<1>3. ASSUME NEW h \in Handler, LearnAddress(h) \/ RetireOthers(h) \/ CreateNotification(h)
               \/ FindTargets(h) \/ FindDigests(h)
      PROVE Locks'
  <2>1. Open(h) /\ Goes(h) /\ tx'[h].removes = tx[h].removes /\ tx'[h].gone = tx[h].gone
        /\ HeldCut(h)' = HeldCut(h)
    BY <1>3, TellingDeletesNothing, ErasingDeletes, EraseGoes DEF EraseStatement
  <2> QED BY <1>2, <2>1
<1>4. ASSUME NEW h \in Handler, EraseNotifications(h) PROVE Locks'
  <2> DEFINE u == Subject(tx[h].of)
             doomed == {n \in notifications : n.user = u}
  <2>1. Open(h) /\ Goes(h) /\ tx'[h].removes = doomed /\ tx'[h].gone = tx[h].gone
        /\ HeldCut(h)' = HeldCut(h)
    BY <1>4, ErasingDeletes, EraseGoes DEF EraseStatement
  <2>2. notifications' = notifications /\ tx'[h].of = tx[h].of
        /\ \A g \in Handler \ {h} : tx'[g] = tx[g] /\ (Open(g)' <=> Open(g)) /\ HeldCut(g)' = HeldCut(g)
    BY <2>1, OthersStay DEF Goes, rest, Base, HeldCut
  <2>3. ASSUME NEW g \in Handler \ {h}, Open(g)
        PROVE  doomed \cap tx[g].removes = {} /\ Intact(doomed, Subject(tx[g].of), tx[g].gone, HeldCut(g))
    <3>1. /\ doomed \cap tx[g].removes = {}
          /\ Subject(tx[g].of) = u => Referred(doomed, u) \cap tx[g].gone = {}
          /\ Subject(tx[g].of) = u => Joined(doomed, u) \cap HeldCut(g) = {}
      BY <1>4, <2>3 DEF EraseNotifications, Cut, HeldCut
    <3>2. tx[g].gone \subseteq Address
      BY <1>0, <2>3
    <3>3. \A n \in doomed : n.batched \subseteq Joined(doomed, u)
      BY DEF Joined
    <3> QED BY <3>1, <3>2, <3>3 DEF Intact, Referred
  <2>4. doomed \subseteq notifications
    OBVIOUS
  <2> HIDE DEF doomed, u
  <2> QED BY <2>1, <2>2, <2>3, <2>4 DEF Locks
<1>5. ASSUME NEW h \in Handler, EraseTargets(h) \/ EraseDigests(h) PROVE Locks'
  <2>1. Open(h) /\ Goes(h) /\ tx'[h].removes = tx[h].removes
    BY <1>5, ErasingDeletes, EraseGoes DEF EraseStatement
  <2>2. notifications' = notifications /\ tx'[h].of = tx[h].of
        /\ \A g \in Handler \ {h} : tx'[g] = tx[g] /\ (Open(g)' <=> Open(g)) /\ HeldCut(g)' = HeldCut(g)
    BY <2>1, OthersStay DEF Goes, rest, Base, HeldCut
  <2>3. ASSUME NEW g \in Handler \ {h}, Open(g)
        PROVE  Intact(tx[g].removes, Subject(tx[h].of), tx'[h].gone, HeldCut(h)')
    <3>1. Intact(tx[g].removes, Subject(tx[h].of), tx[h].gone, HeldCut(h))
      BY <2>1, <2>3 DEF Locks
    <3>2. CASE EraseTargets(h)
      <4>1. tx[h].seen \cap Referred(tx[g].adds \cup tx[g].removes, Subject(tx[h].of)) = {}
        BY <2>3, <3>2 DEF EraseTargets, ReferredByOthers
      <4>2. tx[h].seen \subseteq Address
        BY <1>0, <2>1
      <4>3. tx'[h].gone = tx[h].seen /\ HeldCut(h)' = HeldCut(h)
        BY <3>2, ErasingDeletes
      <4> QED BY <3>1, <4>1, <4>2, <4>3 DEF Intact, Referred
    <3>3. CASE EraseDigests(h)
      <4> DEFINE some == tx[g].adds \cup tx[g].removes
      <4>1. tx[h].cut \cap Joined(some, Subject(tx[h].of)) = {}
        BY <2>3, <3>3 DEF EraseDigests
      <4>2. \A n \in tx[g].removes : n.user = Subject(tx[h].of) =>
              n.batched \subseteq Joined(some, Subject(tx[h].of))
        BY DEF Joined
      <4>3. tx'[h].gone = tx[h].gone /\ HeldCut(h)' = tx[h].cut
        BY <3>3, ErasingDeletes
      <4> HIDE DEF some
      <4> QED BY <3>1, <4>1, <4>2, <4>3 DEF Intact
    <3> QED BY <1>5, <3>2, <3>3
  <2> QED BY <2>1, <2>2, <2>3 DEF Locks
<1>6. ASSUME NEW h \in Handler, Commit(h) \/ Fail(h) PROVE Locks'
  <2>1. /\ Open(h) /\ ~Open(h)' /\ notifications \subseteq notifications'
        /\ \A g \in Handler \ {h} : tx'[g] = tx[g] /\ HeldCut(g)' = HeldCut(g)
    BY <1>6 DEF Commit, Fail, Open, Base, TypeOK, HeldCut
  <2> QED BY <2>1 DEF Locks, Open
<1>7. ASSUME NEW h \in Handler, CommitErasure(h) PROVE Locks'
  <2> DEFINE image(n) == Detached(n, Subject(tx[h].of), tx[h].gone, tx[h].cut)
  <2>1. /\ Open(h) /\ ~Open(h)'
        /\ notifications' = {image(n) : n \in notifications \ tx[h].removes}
        /\ \A g \in Handler \ {h} : tx'[g] = tx[g] /\ HeldCut(g)' = HeldCut(g)
        /\ HeldCut(h) = tx[h].cut
    BY <1>7 DEF CommitErasure, Open, Base, TypeOK, HeldCut
  <2>2. ASSUME NEW g \in Handler \ {h}, Open(g), NEW n \in tx[g].removes PROVE n \in notifications'
    <3>1. n \in notifications \ tx[h].removes
      BY <2>1, <2>2 DEF Locks
    <3>2. Intact({n}, Subject(tx[h].of), tx[h].gone, tx[h].cut)
      BY <2>1, <2>2 DEF Locks, Intact
    <3>3. image(n) = n
      BY <3>1, <3>2, DetachedKeepsNews DEF Base, TypeOK
    <3> QED BY <2>1, <3>1, <3>3
  <2> QED BY <2>1, <2>2 DEF Locks, Open
<1>8. CASE (\E u \in User : SetPreferences(u)) \/ UNCHANGED vars
  <2>1. UNCHANGED <<notifications, tx>>
    BY <1>8 DEF SetPreferences, vars
  <2> QED BY <2>1 DEF Locks, Open, HeldCut
<1> QED BY <1>1, <1>3, <1>4, <1>5, <1>6, <1>7, <1>8 DEF Next, EraseStatement
(* The erasures that have deleted their rows.                              *)
LEMMA FoundStays ==
  ASSUME \A h \in Handler : h \in Erasing' <=> h \in Erasing,
         \A h \in Erasing : FoundBy(h)' = FoundBy(h)
  PROVE  Found' = Found
BY DEF Found, Erasing

LEMMA FoundLeaves ==
  ASSUME OneEach, NEW h \in Erasing, ~Open(h)', \A g \in Handler \ {h} : tx'[g] = tx[g]
  PROVE  Found' = Found \ {FoundBy(h)}
<1>1. Erasing' = Erasing \ {h}
  BY DEF Erasing, Open
<1>2. \A g \in Erasing \ {h} : FoundBy(g)' = FoundBy(g) /\ FoundBy(g) # FoundBy(h)
  BY DEF Erasing, FoundBy, OneEach, AllNews
<1> QED BY <1>1, <1>2 DEF Found

LEMMA FoundGrows ==
  ASSUME NEW h \in Handler \ Erasing, h \in Erasing', \A g \in Handler \ {h} : tx'[g] = tx[g]
  PROVE  Found' = Found \cup {FoundBy(h)'}
<1>1. Erasing' = Erasing \cup {h}
  BY DEF Erasing, Open
<1>2. \A g \in Erasing : FoundBy(g)' = FoundBy(g)
  BY DEF Erasing, FoundBy, AllNews
<1> QED BY <1>1, <1>2 DEF Found

(* Rows of different places are different news.                            *)
LEMMA NewsWithout ==
  ASSUME NEW S \in SUBSET Notification, Unique(S), NEW T \in SUBSET S
  PROVE  AllNews(S \ T) = AllNews(S) \ AllNews(T)
<1>1. \A m \in S, n \in S : NewsOf(m) = NewsOf(n) => m = n
  <2>1. \A m, n : NewsOf(m) = NewsOf(n) => m.user = n.user /\ m.key = n.key
    BY DEF NewsOf
  <2> QED BY <2>1 DEF Unique, Same
<1> QED BY <1>1 DEF AllNews

LEMMA SinkStep ==
  ASSUME Base, KeysApart, OneEach, Traced, Locks, [Next]_vars
  PROVE  Sink!Next \/ UNCHANGED Sink!vars
<1>1. ASSUME NEW h \in Handler, NEW e \in Event, Ingest(h, e) PROVE UNCHANGED Sink!vars
  <2>1. ~Open(h) /\ UNCHANGED <<inbox, notifications>>
        /\ (tx' = tx \/ tx' = [tx EXCEPT ![h] = Claimed(e)])
    BY <1>1 DEF Ingest, MayDeliver
  <2>2. \A g \in Handler \ {h} : tx'[g] = tx[g]
    BY <2>1 DEF Base, TypeOK
  <2>3. h \notin Erasing /\ h \notin Erasing'
    <3>1. FirstPhase(e) \notin ErasurePhase
      BY DEF FirstPhase, ErasurePhase
    <3>2. CASE tx' = tx
      BY <2>1, <3>2 DEF Erasing, Open
    <3>3. CASE tx' = [tx EXCEPT ![h] = Claimed(e)]
      BY <2>1, <3>1, <3>3, ClaimsAreTyped DEF Erasing, Open, Base, TypeOK
    <3> QED BY <2>1, <3>2, <3>3
  <2>4. Found' = Found
    <3>1. \A g \in Handler : g \in Erasing' <=> g \in Erasing
      BY <2>2, <2>3 DEF Erasing, Open
    <3>2. \A g \in Erasing : FoundBy(g)' = FoundBy(g)
      BY <2>2, <2>3 DEF Erasing, FoundBy, AllNews
    <3> QED BY <3>1, <3>2, FoundStays
  <2> QED BY <2>1, <2>4 DEF Sink!vars, Rows, AllNews
<1>2. ASSUME NEW h \in Handler, LearnAddress(h) \/ RetireOthers(h) \/ CreateNotification(h)
      PROVE  UNCHANGED Sink!vars
  <2>1. Goes(h) /\ h \notin Erasing /\ h \notin Erasing'
    BY <1>2, TellingDeletesNothing
  <2>2. UNCHANGED <<inbox, notifications>> /\ \A g \in Handler \ {h} : tx'[g] = tx[g]
    BY <2>1, OthersStay DEF Goes, rest, Base
  <2>3. \A g \in Handler : g \in Erasing' <=> g \in Erasing
    BY <2>1, <2>2 DEF Erasing, Open
  <2>4. \A g \in Erasing : FoundBy(g)' = FoundBy(g)
    BY <2>1, <2>2 DEF Erasing, FoundBy, AllNews
  <2> QED BY <2>2, <2>3, <2>4, FoundStays DEF Sink!vars, Rows, AllNews
<1>3. ASSUME NEW h \in Handler,
             FindTargets(h) \/ EraseTargets(h) \/ FindDigests(h) \/ EraseDigests(h)
      PROVE  UNCHANGED Sink!vars
  <2>1. Goes(h) /\ h \in Erasing /\ h \in Erasing' /\ tx'[h].removes = tx[h].removes
    BY <1>3, ErasingDeletes, EraseGoes DEF EraseStatement
  <2>2. UNCHANGED <<inbox, notifications>> /\ tx'[h].of = tx[h].of
        /\ \A g \in Handler \ {h} : tx'[g] = tx[g]
    BY <2>1, OthersStay DEF Goes, rest, Base
  <2>3. \A g \in Handler : g \in Erasing' <=> g \in Erasing
    BY <2>1, <2>2 DEF Erasing, Open
  <2>4. \A g \in Erasing : FoundBy(g)' = FoundBy(g)
    BY <2>1, <2>2 DEF Erasing, FoundBy, AllNews
  <2> QED BY <2>2, <2>3, <2>4, FoundStays DEF Sink!vars, Rows, AllNews
<1>4. ASSUME NEW h \in Handler, EraseNotifications(h) PROVE Sink!Next
  <2> DEFINE e == tx[h].of
             doomed == {n \in notifications : n.user = Subject(e)}
  <2>1. /\ Open(h) /\ Goes(h) /\ IsErasure(e) /\ h \notin Erasing /\ h \in Erasing'
        /\ tx'[h].removes = doomed /\ tx'[h].of = e /\ e \in Event /\ e \notin inbox
    BY <1>4, ErasingDeletes, EraseGoes
       DEF EraseStatement, EraseNotifications, IsErasure, Goes, OpenTx, OneEach
  <2>2. UNCHANGED <<inbox, notifications>> /\ \A g \in Handler \ {h} : tx'[g] = tx[g]
    BY <2>1, OthersStay DEF Goes, rest, Base
  <2>3. AllNews(doomed) = {r \in Rows : Reached(r, e)}
    <3>1. \A n : NewsOf(n).user = n.user
      BY DEF NewsOf
    <3> QED BY <3>1 DEF AllNews, Rows, Reached
  <2>4. FoundBy(h)' = [of |-> e, rows |-> {r \in Rows : Reached(r, e)}]
    BY <2>1, <2>3 DEF FoundBy, AllNews
  <2>5. \A f \in Found : f.of # e
    BY <2>1 DEF Found, FoundBy, Erasing, OneEach
  <2>6. Found' = Found \cup {FoundBy(h)'}
    BY <2>1, <2>2, FoundGrows
  <2>7. Sink!TakeUp(e)
    BY <2>1, <2>2, <2>4, <2>5, <2>6 DEF Sink!TakeUp, Rows, AllNews
  <2> QED BY <2>1, <2>7 DEF Sink!Next
<1>5. ASSUME NEW h \in Handler, Commit(h) PROVE Sink!Next
  <2> DEFINE e == tx[h].of
             new == AllNews(tx[h].adds)
  <2>1. /\ Open(h) /\ tx[h].phase = "told" /\ tx[h] \in OpenTx /\ e \in Event /\ PhaseFits(h)
        /\ inbox' = inbox \cup {e} /\ notifications' = notifications \cup tx[h].adds
        /\ ~Open(h)' /\ \A g \in Handler \ {h} : tx'[g] = tx[g]
    BY <1>5, OpenIsNot DEF Commit, Base, TypeOK, OpenTx, Open, PhasesFit
  <2>2. e \notin inbox /\ ~IsErasure(e)
    BY <2>1 DEF OneEach, PhaseFits, IsErasure
  <2>3. Rows' = Rows \cup new
    BY <2>1 DEF Rows, AllNews
  <2>4. Sink!Slots(new) \cap Sink!Slots(Rows) = {}
    <3>1. \A m \in tx[h].adds, n \in notifications : ~Same(m, n)
      BY <2>1 DEF KeysApart, Apart
    <3>2. \A m, n : PlaceOf(NewsOf(m)) = PlaceOf(NewsOf(n)) => Same(m, n)
      BY DEF PlaceOf, NewsOf, Same
    <3> QED BY <3>1, <3>2 DEF Sink!Slots, Rows, AllNews
  <2>5. new \in SUBSET NewsIn(e)
    BY <2>1 DEF Traced
  <2>6. ASSUME NEW r \in NewsIn(e) \ new
        PROVE  \E f \in inbox : ~IsErasure(f) /\ PlaceOf(r) \in Sink!Slots(NewsIn(f))
    <3>1. e.kind = "news" /\ \E i \in 1 .. Len(e.recipients) : r = NewsFor(e, i)
      BY <2>6 DEF NewsIn
    <3>2. PICK i \in 1 .. Len(e.recipients) : r = NewsFor(e, i)
      BY <3>1
    <3>3. Accounted(tx[h], i)
      BY <2>1, <3>1 DEF Traced, PhaseFits
    <3>4. PICK f \in inbox : \E s \in NewsIn(f) : PlaceOf(s) = PlaceOf(r)
      BY <2>6, <3>2, <3>3 DEF Accounted
    <3>5. ~IsErasure(f)
      BY <3>4 DEF NewsIn, IsErasure
    <3> QED BY <3>4, <3>5 DEF Sink!Slots
  <2>7. Found' = Found
    <3>1. h \notin Erasing /\ h \notin Erasing'
      BY <2>1 DEF Erasing, ErasurePhase
    <3>2. \A g \in Handler : g \in Erasing' <=> g \in Erasing
      BY <2>1, <3>1 DEF Erasing, Open
    <3>3. \A g \in Erasing : FoundBy(g)' = FoundBy(g)
      BY <2>1, <3>1 DEF Erasing, FoundBy, AllNews
    <3> QED BY <3>2, <3>3, FoundStays
  <2> HIDE DEF new
  <2>8. Sink!Take(e)
    BY <2>1, <2>2, <2>3, <2>4, <2>5, <2>6, <2>7 DEF Sink!Take
  <2> QED BY <2>1, <2>8 DEF Sink!Next
<1>6. ASSUME NEW h \in Handler, CommitErasure(h) PROVE Sink!Next
  <2> DEFINE e == tx[h].of
             image(n) == Detached(n, Subject(e), tx[h].gone, tx[h].cut)
             left == notifications \ tx[h].removes
  <2>1. /\ Open(h) /\ tx[h].phase = "erased" /\ inbox' = inbox \cup {e}
        /\ notifications' = {image(n) : n \in left}
        /\ ~Open(h)' /\ \A g \in Handler \ {h} : tx'[g] = tx[g]
    BY <1>6 DEF CommitErasure, Base, TypeOK, Open
  <2>2. e \notin inbox
    BY <2>1 DEF OneEach
  <2>3. Rows' = AllNews(left)
    <3>1. \A n \in notifications : NewsOf(image(n)) = NewsOf(n)
      BY DetachedKeepsNews DEF Base, TypeOK
    <3> HIDE DEF image
    <3> QED BY <2>1, <3>1 DEF Rows, AllNews
  <2>4. AllNews(left) = Rows \ AllNews(tx[h].removes)
    <3>1. tx[h].removes \subseteq notifications /\ notifications \subseteq Notification
          /\ Unique(notifications)
      BY <2>1 DEF Locks, Base, TypeOK, KeysApart
    <3> QED BY <3>1, NewsWithout DEF Rows
  <2>5. h \in Erasing /\ FoundBy(h) \in Found
    BY <2>1 DEF Erasing, ErasurePhase, Found
  <2>6. Found' = Found \ {FoundBy(h)}
    BY <2>1, <2>5, FoundLeaves
  <2>7. FoundBy(h).of = e /\ FoundBy(h).rows = AllNews(tx[h].removes)
    BY DEF FoundBy
  <2> HIDE DEF e, left
  <2>8. Sink!Erase(FoundBy(h))
    BY <2>1, <2>2, <2>3, <2>4, <2>6, <2>7 DEF Sink!Erase
  <2> QED BY <2>5, <2>8 DEF Sink!Next
<1>7. ASSUME NEW h \in Handler, Fail(h) PROVE Sink!Next \/ UNCHANGED Sink!vars
  <2>1. /\ UNCHANGED <<inbox, notifications>> /\ Open(h) /\ ~Open(h)'
        /\ \A g \in Handler \ {h} : tx'[g] = tx[g]
    BY <1>7 DEF Fail, Base, TypeOK, Open
  <2>2. Rows' = Rows
    BY <2>1 DEF Rows, AllNews
  <2>3. CASE h \in Erasing
    <3>1. FoundBy(h) \in Found /\ Found' = Found \ {FoundBy(h)}
      BY <2>1, <2>3, FoundLeaves DEF Found
    <3>2. Sink!GiveUp(FoundBy(h))
      BY <2>1, <2>2, <3>1 DEF Sink!GiveUp
    <3> QED BY <3>1, <3>2 DEF Sink!Next
  <2>4. CASE h \notin Erasing
    <3>1. \A g \in Handler : g \in Erasing' <=> g \in Erasing
      BY <2>1, <2>4 DEF Erasing, Open
    <3>2. \A g \in Erasing : FoundBy(g)' = FoundBy(g)
      BY <2>1, <2>4 DEF Erasing, FoundBy, AllNews
    <3> QED BY <2>1, <2>2, <3>1, <3>2, FoundStays DEF Sink!vars
  <2> QED BY <2>3, <2>4
<1>8. CASE (\E u \in User : SetPreferences(u)) \/ UNCHANGED vars
  <2>1. UNCHANGED <<inbox, notifications, tx>>
    BY <1>8 DEF SetPreferences, vars
  <2> QED BY <2>1 DEF Sink!vars, Rows, AllNews, Found, FoundBy, Erasing, Open
<1> QED BY <1>1, <1>2, <1>3, <1>4, <1>5, <1>6, <1>7, <1>8 DEF Next, EraseStatement

(* However many transactions tell and erase at once, fail and start again, *)
(* an event has told everybody it tells in one step, and once.             *)
THEOREM ImplementsSink == Spec => RefinesSink
<1>1. Init => Sink!Init
  BY DEF Init, Sink!Init, Rows, AllNews, Found, Erasing, Open
<1>2. Init => KeysApart /\ OneEach /\ Traced /\ Locks
  BY DEF Init, KeysApart, OneEach, Traced, Locks, Open, Unique
<1>3. Base /\ KeysApart /\ OneEach /\ Traced /\ Locks /\ [Next]_vars => [Sink!Next]_(Sink!vars)
  BY SinkStep
<1> QED BY <1>1, <1>2, <1>3, BaseInit, BaseStep, KeysStep, OneEachStep, TracedStep, LocksStep, PTL
        DEF Spec, RefinesSink, Sink!Spec
=============================================================================
