--------------------------- MODULE Notifications ---------------------------
(***************************************************************************)
(* How notify turns inbound events into notifications: `ingestEvent' and   *)
(* `createNotification' of src/src/notify/pipeline.ts on the tables of     *)
(* src/src/notify/store.ts.                                                *)
(*                                                                         *)
(* Each delivery runs in one READ COMMITTED transaction: the inbox row;    *)
(* the erasure of a user, or the address the event teaches and one         *)
(* notification per recipient, with its deliveries and the digests it      *)
(* joins.  Transactions run at once.  What they write is seen by others at *)
(* the commit; a statement that needs a row another transaction has        *)
(* written waits, that is, the step is not enabled.                        *)
(*                                                                         *)
(* No route creates a target: every address is on the e-mail channel, and  *)
(* was learnt from an event.                                               *)
(*                                                                         *)
(* A channel has one digest of each cadence, that of the present window;   *)
(* Digests has the windows.  An erasure that waited for another of the     *)
(* same user takes a row made meanwhile for the one it found.              *)
(***************************************************************************)
EXTENDS Routing, Sequences

CONSTANTS
  Event,       \* the events producers publish
  Id,          \* event ids
  User,
  Key,         \* dedupe keys
  Fact,        \* what an event is news of
  Address,
  Reserved,    \* addresses under a domain that cannot exist
  Email,       \* the channel of the addresses
  Chosen,      \* the preferences a user may set: one function per choice
  Handler,     \* requests to POST /ingest/notify served at once
  MaxFailures  \* bound: transactions that fail, answers that are lost

None == "none"

(***************************************************************************)
(* What the rule of an event's topic makes of it (catalogue.ts): `news'    *)
(* has recipients and a template, the erasure topic has the user it names  *)
(* as its one recipient, `ignored' has no rule or nobody to tell.          *)
(***************************************************************************)
EventType ==
  [kind : {"news", "erasure", "ignored"}, id : Id, fact : Fact,
   recipients : Seq(User), key : Key, priority : Priority,
   secret : BOOLEAN, deliverOn : SUBSET Channel, learns : Address \cup {None}]

ASSUME EventsTyped ==
  /\ Event \subseteq EventType
  /\ \A e \in Event : e.recipients # <<>>
ASSUME AddressesTyped == Reserved \subseteq Address
ASSUME EmailTyped == Email \in Channel \ {FloorChannel}
ASSUME PreferencesTyped ==
  /\ Chosen \subseteq [Channel -> Preference]
  /\ [c \in Channel |-> DefaultPreference] \in Chosen
ASSUME MaxFailuresTyped == MaxFailures \in Nat
ASSUME NoneIsNoAddress == None \notin Address

VARIABLES
  inbox,          \* events with a committed inbox row
  notifications,  \* the committed notifications, with what hangs off them
  targets,        \* channel_targets: for each user, the state of each address
  preferences,    \* preferences of each user
  tx,             \* the open transaction of each handler
  answered,       \* history: events some delivery of which was answered 202
  taught,         \* history: users with an address learnt since their erasure
  erased,         \* history: users erased at least once
  failures

vars == <<inbox, notifications, targets, preferences, tx, answered, taught, erased, failures>>

-----------------------------------------------------------------------------
(* Data.                                                                   *)

Notification ==
  [user : User, key : Key, fact : Fact, priority : Priority, secret : BOOLEAN,
   suppressed : SuppressionReason \cup {None}, count : Nat,
   deliveries : SUBSET (Channel \X (Address \cup {None})), batched : SUBSET (Channel \X Cadence)]

NoTargets == [a \in Address |-> "unknown"]
Active(states) == {a \in Address : states[a] = "active"}

(* `seen' are the targets the open statement found, which it has yet to    *)
(* lock; `cut' the digests that an erasure found, and holds at the end.    *)
NoTx == [phase |-> "none"]
Phase == {"claimed", "retiring", "telling", "told",
          "erasing", "deleting", "emptying", "cutting", "erased"}
OpenTx ==
  [phase : Phase, of : Event, told : Nat, seen : SUBSET Address,
   writes : [Address -> {"active", "retired", None}],
   adds : SUBSET Notification, removes : SUBSET Notification, gone : SUBSET Address,
   cut : SUBSET (Channel \X Cadence)]
Open(h) == tx[h] # NoTx
Subject(e) == e.recipients[1]

(* The target rows of u that the transaction of g holds.                   *)
Held(g, u) ==
  IF Open(g) /\ Subject(tx[g].of) = u
  THEN {a \in Address : tx[g].writes[a] # None} \cup tx[g].gone
  ELSE {}
HeldByOthers(h, u) == UNION {Held(g, u) : g \in Handler \ {h}}

(* A delivery being inserted holds a lock on the target it refers to; one  *)
(* being deleted holds its own row, which the deletion of the target needs. *)
Referred(notes, u) ==
  {a \in Address : \E n \in notes : n.user = u /\ \E d \in n.deliveries : d[2] = a}
ReferredByOthers(h, u) ==
  UNION {Referred(tx[g].adds \cup tx[g].removes, u) : g \in {g \in Handler \ {h} : Open(g)}}

(* The digests of u that notes are in, which a transaction that inserts    *)
(* them has upserted (joinDigest) and one that deletes them has left; and  *)
(* the digests an erasure has deleted.                                     *)
Joined(notes, u) == UNION {n.batched : n \in {n \in notes : n.user = u}}
Cut(g, u) == IF Subject(tx[g].of) = u /\ tx[g].phase = "erased" THEN tx[g].cut ELSE {}

(* The targets of u as the transaction of h sees them.                     *)
Overlay(h, u) ==
  [a \in Address |-> IF Subject(tx[h].of) = u /\ tx[h].writes[a] # None
                     THEN tx[h].writes[a] ELSE targets[u][a]]

(* channelsAvailable.                                                      *)
Available(states, deliverOn) ==
  IF Active(states) \ Reserved # {} THEN {Email} \cap deliverOn ELSE {}

(* deliveriesFor: one per target of each instant channel, one with no      *)
(* target where there is none.                                             *)
DeliveriesFor(routes, states) ==
  LET instant == {c \in DOMAIN routes : routes[c] = "instant"}
      addressed == IF Active(states) = {} THEN {} ELSE instant \cap {Email}
  IN  (addressed \X Active(states)) \cup ((instant \ addressed) \X {None})

(* Fault: a digest is not counted as a channel.                            *)
CountInstant(routes) == Cardinality({c \in DOMAIN routes : routes[c] = "instant"})

ChannelCount(routes) == Cardinality(DOMAIN routes)

(* What createNotification inserts for u, if it inserts anything.          *)
NotificationOf(e, u, states, chosen) ==
  LET routing == DeliverNow(e.secret,
                   ResolveRouting(e.priority, Available(states, e.deliverOn), chosen))
      goes == routing.kind = "deliver"
      later == {c \in DOMAIN routing.routes : routing.routes[c] # "instant"}
  IN  [user |-> u, key |-> e.key, fact |-> e.fact, priority |-> e.priority, secret |-> e.secret,
       suppressed |-> IF goes THEN None ELSE routing.reason,
       count |-> IF goes THEN ChannelCount(routing.routes) ELSE 0,
       deliveries |-> IF goes THEN DeliveriesFor(routing.routes, states) ELSE {},
       batched |-> IF goes THEN {<<c, routing.routes[c]>> : c \in later} ELSE {}]

(* What an erasure of u leaves of a notification it did not find: a        *)
(* delivery outlives its target (`on delete set null'), an entry of a      *)
(* digest does not outlive the digest (`on delete cascade').               *)
Detached(n, u, gone, cut) ==
  IF n.user # u THEN n
  ELSE [n EXCEPT !.deliveries = {IF d[2] \in gone THEN <<d[1], None>> ELSE d : d \in @},
                 !.batched = @ \ cut]

Describes(n, u, key) == n.user = u /\ n.key = key

-----------------------------------------------------------------------------
Init ==
  /\ inbox = {}
  /\ notifications = {}
  /\ targets = [u \in User |-> NoTargets]
  /\ preferences = [u \in User |-> [c \in Channel |-> DefaultPreference]]
  /\ tx = [h \in Handler |-> NoTx]
  /\ answered = {}
  /\ taught = {}
  /\ erased = {}
  /\ failures = 0

(* A delivery whose event no open transaction has claimed; the others wait. *)
MayDeliver(h, e) ==
  /\ ~Open(h)
  /\ e \notin answered
  /\ \A g \in Handler : Open(g) => tx[g].of # e

FirstPhase(e) ==
  CASE e.kind = "ignored" -> "told"
    [] e.kind = "news" /\ e.learns = None -> "telling"
    [] OTHER -> "claimed"

Claimed(e) ==
  [phase |-> FirstPhase(e), of |-> e, told |-> 0, seen |-> {},
   writes |-> [a \in Address |-> None], adds |-> {}, removes |-> {}, gone |-> {},
   cut |-> {}]

(* Fault: the inbox row is committed before the event is handled.          *)
IngestThenHandle(h, e) ==
  /\ MayDeliver(h, e)
  /\ IF e \in inbox
     THEN answered' = answered \cup {e} /\ UNCHANGED <<tx, inbox>>
     ELSE /\ tx' = [tx EXCEPT ![h] = Claimed(e)]
          /\ inbox' = inbox \cup {e}
          /\ UNCHANGED answered
  /\ UNCHANGED <<notifications, targets, preferences, taught, erased, failures>>

(* withInbox: the event is claimed, or was handled before and is answered. *)
Ingest(h, e) ==
  /\ MayDeliver(h, e)
  /\ IF e \in inbox
     THEN answered' = answered \cup {e} /\ UNCHANGED tx
     ELSE tx' = [tx EXCEPT ![h] = Claimed(e)] /\ UNCHANGED answered
  /\ UNCHANGED <<inbox, notifications, targets, preferences, taught, erased, failures>>

(* learnTarget: the address is upserted; the second statement finds the    *)
(* other active rows among those committed by now.                         *)
LearnAddress(h) ==
  LET e == tx[h].of
      u == Subject(e)
  IN  /\ Open(h) /\ tx[h].phase = "claimed" /\ e.kind = "news"
      /\ e.learns \notin HeldByOthers(h, u)
      /\ tx' = [tx EXCEPT ![h].writes[e.learns] = "active",
                          ![h].seen = Active(targets[u]) \ {e.learns},
                          ![h].phase = "retiring"]
      /\ UNCHANGED <<inbox, notifications, targets, preferences, answered, taught, erased, failures>>

(* Fault: the row just learnt is not spared.                               *)
RetiresAll(h) == tx[h].seen \cup {tx[h].of.learns}

(* The rows the second statement retires: those found that are active yet. *)
Retires(h) == tx[h].seen \cap Active(targets[Subject(tx[h].of)])

RetireOthers(h) ==
  /\ Open(h) /\ tx[h].phase = "retiring"
  /\ tx[h].seen \cap HeldByOthers(h, Subject(tx[h].of)) = {}
  /\ tx' = [tx EXCEPT ![h].writes = [a \in Address |-> IF a \in Retires(h) THEN "retired" ELSE @[a]],
                      ![h].seen = {}, ![h].phase = "telling"]
  /\ UNCHANGED <<inbox, notifications, targets, preferences, answered, taught, erased, failures>>

(* Fault: the notification is inserted whether or not its key is taken.    *)
IsDuplicateNever(h, u, key) == FALSE

(* `on conflict (user_id, dedupe_key) do nothing'.                         *)
IsDuplicate(h, u, key) ==
  \E n \in notifications \cup tx[h].adds : Describes(n, u, key)

(* createNotification for the next recipient.  It reads the targets and    *)
(* the preferences, and waits to insert a key that another transaction is  *)
(* inserting or deleting, to refer to a target that one is deleting, or to *)
(* join a digest that one has joined or is deleting.                       *)
CreateNotification(h) ==
  LET e == tx[h].of
      i == tx[h].told + 1
      u == e.recipients[i]
      new == IF IsDuplicate(h, u, e.key) THEN {}
             ELSE {NotificationOf(e, u, Overlay(h, u), preferences[u])}
  IN  /\ Open(h) /\ tx[h].phase = "telling"
      /\ \A g \in Handler \ {h} : Open(g) =>
           /\ \A m \in tx[g].adds \cup tx[g].removes : ~Describes(m, u, e.key)
           /\ Subject(tx[g].of) = u => Referred(new, u) \cap tx[g].gone = {}
           /\ Joined(new, u) \cap (Joined(tx[g].adds, u) \cup Cut(g, u)) = {}
      /\ tx' = [tx EXCEPT ![h].adds = @ \cup new, ![h].told = i,
                          ![h].phase = IF i = Len(e.recipients) THEN "told" ELSE "telling"]
      /\ UNCHANGED <<inbox, notifications, targets, preferences, answered, taught, erased, failures>>

(* eraseUser, whose first statement deletes the notifications with their   *)
(* deliveries and entries, and waits for another that is deleting them,    *)
(* their targets or their digests...                                       *)
EraseNotifications(h) ==
  LET u == Subject(tx[h].of)
      doomed == {n \in notifications : n.user = u}
  IN  /\ Open(h) /\ tx[h].phase = "claimed" /\ tx[h].of.kind = "erasure"
      /\ \A g \in Handler \ {h} : Open(g) =>
           /\ doomed \cap tx[g].removes = {}
           /\ Subject(tx[g].of) = u => Referred(doomed, u) \cap tx[g].gone = {}
           /\ Joined(doomed, u) \cap Cut(g, u) = {}
      /\ tx' = [tx EXCEPT ![h].removes = doomed, ![h].phase = "erasing"]
      /\ UNCHANGED <<inbox, notifications, targets, preferences, answered, taught, erased, failures>>

(* ...the second finds the targets committed by now...                     *)
FindTargets(h) ==
  /\ Open(h) /\ tx[h].phase = "erasing"
  /\ tx' = [tx EXCEPT ![h].seen = {a \in Address : targets[Subject(tx[h].of)][a] # "unknown"},
                      ![h].phase = "deleting"]
  /\ UNCHANGED <<inbox, notifications, targets, preferences, answered, taught, erased, failures>>

(* ...and deletes them when it has their locks; the third deletes the      *)
(* preferences...                                                          *)
EraseTargets(h) ==
  LET u == Subject(tx[h].of)
  IN  /\ Open(h) /\ tx[h].phase = "deleting"
      /\ tx[h].seen \cap (HeldByOthers(h, u) \cup ReferredByOthers(h, u)) = {}
      /\ tx' = [tx EXCEPT ![h].gone = tx[h].seen, ![h].seen = {}, ![h].phase = "emptying"]
      /\ UNCHANGED <<inbox, notifications, targets, preferences, answered, taught, erased, failures>>

(* ...and the last finds the digests committed by now, also those that     *)
(* events joined since the first statement...                              *)
FindDigests(h) ==
  /\ Open(h) /\ tx[h].phase = "emptying"
  /\ tx' = [tx EXCEPT ![h].cut = Joined(notifications, Subject(tx[h].of)), ![h].phase = "cutting"]
  /\ UNCHANGED <<inbox, notifications, targets, preferences, answered, taught, erased, failures>>

(* ...and deletes them, with their entries, when it has the locks of both. *)
EraseDigests(h) ==
  LET u == Subject(tx[h].of)
  IN  /\ Open(h) /\ tx[h].phase = "cutting"
      /\ \A g \in Handler \ {h} : Open(g) =>
           tx[h].cut \cap (Joined(tx[g].adds \cup tx[g].removes, u) \cup Cut(g, u)) = {}
      /\ tx' = [tx EXCEPT ![h].phase = "erased"]
      /\ UNCHANGED <<inbox, notifications, targets, preferences, answered, taught, erased, failures>>

Answer(e) ==
  \/ answered' = answered \cup {e} /\ UNCHANGED failures
  \/ /\ failures < MaxFailures
     /\ failures' = failures + 1
     /\ UNCHANGED answered

Commit(h) ==
  LET e == tx[h].of
  IN  /\ Open(h) /\ tx[h].phase = "told"
      /\ inbox' = inbox \cup {e}
      /\ notifications' = notifications \cup tx[h].adds
      /\ targets' = [u \in User |-> Overlay(h, u)]
      /\ taught' = taught \cup (IF e.kind = "news" /\ e.learns # None THEN {Subject(e)} ELSE {})
      /\ tx' = [tx EXCEPT ![h] = NoTx]
      /\ Answer(e)
      /\ UNCHANGED <<preferences, erased>>

CommitErasure(h) ==
  LET e == tx[h].of
      u == Subject(e)
      gone == tx[h].gone
  IN  /\ Open(h) /\ tx[h].phase = "erased"
      /\ inbox' = inbox \cup {e}
      /\ notifications' = {Detached(n, u, gone, tx[h].cut) : n \in notifications \ tx[h].removes}
      /\ targets' = [targets EXCEPT ![u] = [a \in Address |-> IF a \in gone THEN "unknown" ELSE @[a]]]
      /\ preferences' = [preferences EXCEPT ![u] = [c \in Channel |-> DefaultPreference]]
      /\ taught' = taught \ {u}
      /\ erased' = erased \cup {u}
      /\ tx' = [tx EXCEPT ![h] = NoTx]
      /\ Answer(e)

(* A statement throws, a deadlock is broken or the process dies.           *)
Fail(h) ==
  /\ Open(h)
  /\ failures < MaxFailures
  /\ tx' = [tx EXCEPT ![h] = NoTx]
  /\ failures' = failures + 1
  /\ UNCHANGED <<inbox, notifications, targets, preferences, answered, taught, erased>>

(* PUT /preferences.  It waits for an erasure of the user's rows.          *)
SetPreferences(u) ==
  /\ \A g \in Handler : Open(g) /\ tx[g].phase \in {"emptying", "cutting", "erased"}
                          => Subject(tx[g].of) # u
  /\ \E chosen \in Chosen \ {preferences[u]} : preferences' = [preferences EXCEPT ![u] = chosen]
  /\ UNCHANGED <<inbox, notifications, targets, tx, answered, taught, erased, failures>>

Next ==
  \/ \E h \in Handler, e \in Event : Ingest(h, e)
  \/ \E h \in Handler : \/ LearnAddress(h) \/ RetireOthers(h) \/ CreateNotification(h)
                        \/ EraseNotifications(h) \/ FindTargets(h) \/ EraseTargets(h)
                        \/ FindDigests(h) \/ EraseDigests(h)
                        \/ Commit(h) \/ CommitErasure(h) \/ Fail(h)
  \/ \E u \in User : SetPreferences(u)

Spec == Init /\ [][Next]_vars

-----------------------------------------------------------------------------
(* Properties.                                                             *)

(* The tables hold what migrations.ts lets them hold, and a transaction    *)
(* has no writes but those its phase accounts for.                         *)
TypeOK ==
  /\ inbox \subseteq Event
  /\ notifications \subseteq Notification
  /\ targets \in [User -> [Address -> {"unknown", "active", "retired"}]]
  /\ preferences \in [User -> [Channel -> Preference]]
  /\ tx \in [Handler -> {NoTx} \cup OpenTx]
  /\ answered \subseteq Event
  /\ taught \subseteq User
  /\ erased \subseteq User
  /\ failures \in 0..MaxFailures

(* A user has one notification of a dedupe key, whatever events describe   *)
(* it, in whatever order, redelivered or served at once                    *)
(* (src/src/notify/store.ts, insertNotification).                          *)
OneNotificationPerKey ==
  \A m, n \in notifications : m.user = n.user /\ m.key = n.key => m = n

(* A critical notification is not suppressed, is not batched and has a     *)
(* delivery on the floor channel, whatever the preferences say             *)
(* (src/src/notify/model.ts:11).                                           *)
CriticalReaches ==
  \A n \in notifications : n.priority = "critical" =>
    /\ n.suppressed = None
    /\ n.batched = {}
    /\ <<FloorChannel, None>> \in n.deliveries

(* channel_count is zero exactly when a reason is recorded                 *)
(* (src/src/notify/migrations.ts, the checks on notifications), and it is  *)
(* the number of channels the notification has a delivery or a digest on,  *)
(* but for a user who was erased: a notification committed during the      *)
(* erasure may have lost its digests, so that it counts channels it will   *)
(* never be told on, though never fewer than it has.                       *)
ChannelsOf(n) == {d[1] : d \in n.deliveries} \cup {b[1] : b \in n.batched}
CountIsTrue ==
  \A n \in notifications :
    /\ n.count = 0 <=> n.suppressed # None
    /\ Cardinality(ChannelsOf(n)) <= n.count
    /\ n.user \notin erased => Cardinality(ChannelsOf(n)) = n.count

(* A credential is never batched: the digest would not render it           *)
(* (src/src/notify/pipeline.ts, deliverNow).                               *)
SecretsAreNotBatched == \A n \in notifications : n.secret => n.batched = {}

(* A user whose address was learnt keeps one: events that retire each      *)
(* other's address never leave the user without any.                       *)
AddressIsKept == \A u \in taught : Active(targets[u]) # {}

(* An answered event has told each of its recipients, or an event with the *)
(* same key did, unless the recipient was erased.                          *)
AnsweredIsTold ==
  \A e \in answered : e.kind = "news" =>
    \A i \in 1..Len(e.recipients) :
      \/ e.recipients[i] \in erased
      \/ \E n \in notifications : Describes(n, e.recipients[i], e.key)

(***************************************************************************)
(* What this promises to the rest of notify: an event tells all of its     *)
(* recipients, or erases its user, in one step and once, whatever the      *)
(* transactions, their waits and the relays do (SinkContract;              *)
(* src/src/notify/store.ts:46-66).                                         *)
(***************************************************************************)
NewsOf(n) == [user |-> n.user, key |-> n.key, fact |-> n.fact]
AllNews(some) == {NewsOf(n) : n \in some}
NewsFor(e, i) == [user |-> e.recipients[i], key |-> e.key, fact |-> e.fact]
NewsIn(e) == IF e.kind = "news" THEN {NewsFor(e, i) : i \in 1 .. Len(e.recipients)} ELSE {}
PlaceOf(r) == <<r.user, r.key>>
IsErasure(e) == e.kind = "erasure"
Reached(r, e) == r.user = Subject(e)
Rows == AllNews(notifications)
ErasurePhase == {"erasing", "deleting", "emptying", "cutting", "erased"}
Erasing == {h \in Handler : Open(h) /\ tx[h].phase \in ErasurePhase}
FoundBy(h) == [of |-> tx[h].of, rows |-> AllNews(tx[h].removes)]
Found == {FoundBy(h) : h \in Erasing}

Sink == INSTANCE SinkContract WITH
          RowsOf <- NewsIn, SlotOf <- PlaceOf, Reaches <- Reached, Lapses <- FALSE,
          taken <- inbox, rows <- Rows, found <- Found
RefinesSink == Sink!Spec
=============================================================================
