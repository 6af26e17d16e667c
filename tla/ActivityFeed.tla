---------------------------- MODULE ActivityFeed ----------------------------
(***************************************************************************)
(* The activity feed: how events that relays deliver at least once become  *)
(* records exactly once, and how records leave again.                      *)
(*                                                                         *)
(* `ingest' (src/src/ingest.ts) runs each delivery in one READ COMMITTED   *)
(* transaction: a row in `inbox', then either a record or the erasure of a *)
(* user.  Deliveries of any events, the same one included, run at once.  A *)
(* statement sees what is committed; an insert that meets the uncommitted  *)
(* row of another transaction under a unique index, or a delete that meets *)
(* a row another one is deleting, waits: here, the step is not enabled.    *)
(*                                                                         *)
(* Two jobs delete beside them (src/src/jobs.ts): one prunes the inbox,    *)
(* one prunes records class by class in batches.  Time is counted in days; *)
(* no transaction is open from one day to the next.                        *)
(***************************************************************************)
EXTENDS Integers, FiniteSets, FiniteSetsExt

CONSTANTS
  Envelope,      \* the events producers publish, one retried delivery each
  User,
  Topic,
  Id,
  ErasureTopic,  \* identity.user.deleted
  Handler,       \* requests to POST /ingest/activity served at once
  KeepDays,      \* retention period of each class, in days
  InboxDays,     \* ACTIVITY_INBOX_RETENTION_DAYS
  Horizon,       \* how many days after its first success a relay may redeliver
  Oldest,        \* bound: days are not told apart beyond this age
  BatchSize,     \* PRUNE_BATCH
  MaxPasses,     \* PRUNE_PASSES
  MaxFailures    \* bound: transactions that fail, answers that are lost, drains

NoUser == "nobody"
Absent == -1
RetentionClass == {"quarantine", "financial", "operational", "personal"}

(***************************************************************************)
(* What of an envelope decides anything: `known', whether this build has a *)
(* classifier for the topic; `subject', whom that classifier reads as the  *)
(* owner; `key', the user the envelope key names, which ends the subject   *)
(* urn; the users its payload names under keys the classifier declares and *)
(* under others; whether the category is a financial one; the visibility.  *)
(***************************************************************************)
EnvelopeType ==
  [topic : Topic, id : Id, known : BOOLEAN, subject : User \cup {NoUser},
   key : User \cup {NoUser}, declared : SUBSET User, undeclared : SUBSET User,
   financial : BOOLEAN, internal : BOOLEAN]

ASSUME EnvelopesTyped ==
  /\ Envelope \subseteq EnvelopeType
  /\ \A e, f \in Envelope : e.topic = f.topic /\ e.id = f.id => e = f
ASSUME PeriodsTyped ==
  /\ KeepDays \in [RetentionClass -> Nat] /\ InboxDays \in Nat /\ Horizon \in Nat
  /\ Oldest \in Nat /\ InboxDays < Oldest
  /\ \A c \in RetentionClass : KeepDays[c] < Oldest
ASSUME LimitsTyped ==
  /\ BatchSize \in Nat \ {0} /\ MaxPasses \in Nat \ {0} /\ MaxFailures \in Nat
ASSUME NoUserIsNobody == NoUser \notin User

VARIABLES
  inbox,     \* age in days of the inbox row of each event, or Absent
  records,   \* the committed rows of activity_records
  tx,        \* the open transaction of each handler
  prune,     \* where the record prune stands
  marked,    \* events whose relay has recorded them as delivered
  answered,  \* history: events some delivery of which was answered 2xx
  handled,   \* history: how many transactions committed an effect of each event
  since,     \* history: days since the first of them, or Absent
  failures   \* how many failures there have been

vars == <<inbox, records, tx, prune, marked, answered, handled, since, failures>>

-----------------------------------------------------------------------------
(* Data.                                                                   *)

Age == 0 .. Oldest
Record == [id : Id, owner : User \cup {NoUser}, key : User \cup {NoUser},
           payload : SUBSET User, class : RetentionClass, age : Age]

(* In the order the prune takes them: RETENTION_CLASSES.                   *)
ClassAt == <<"quarantine", "financial", "operational", "personal">>
NotPruning == [at |-> 0, pass |-> 0]

NoTx == [phase |-> "none"]
Tx == {NoTx} \cup [phase : {"claimed", "written"}, of : Envelope,
                   adds : SUBSET Record, drops : SUBSET Record]
Open(h) == tx[h] # NoTx
Locked(h) == UNION {tx[g].drops : g \in {g \in Handler \ {h} : Open(g)}}

(* retentionClassFor, which the insert trigger renders in SQL.             *)
RetentionClassFor(e, owner) ==
  CASE ~e.known                              -> "quarantine"
    [] e.known /\ e.financial                -> "financial"
    [] e.known /\ ~e.financial /\ (e.internal \/ owner = NoUser)
                                             -> "operational"
    [] OTHER                                 -> "personal"

Owner(e) == IF e.known THEN e.subject ELSE NoUser

(* The row of an event: a quarantined one has no owner and keeps every     *)
(* identifier of its payload, a classified one only the declared keys.     *)
RecordOf(e) ==
  [id |-> e.id, owner |-> Owner(e), key |-> e.key,
   payload |-> e.declared \cup (IF e.known THEN {} ELSE e.undeclared),
   class |-> RetentionClassFor(e, Owner(e)), age |-> 0]

(* Faults: erasure by owner alone, and by any mention.                     *)
ErasedByOwner(r, u) == r.owner = u
ErasedByMention(r, u) == r.owner = u \/ r.key = u \/ u \in r.payload

(* The `where' of eraseUser.                                               *)
ErasedBy(r, u) ==
  \/ r.owner = u
  \/ r.owner = NoUser /\ (r.key = u \/ u \in r.payload)

IsErasure(e) == e.topic = ErasureTopic /\ Owner(e) # NoUser
Ids(rows) == {r.id : r \in rows}
Older(age) == IF age \in {Absent, Oldest} THEN age ELSE age + 1

-----------------------------------------------------------------------------
Init ==
  /\ inbox = [e \in Envelope |-> Absent]
  /\ records = {}
  /\ tx = [h \in Handler |-> NoTx]
  /\ prune = NotPruning
  /\ marked = {}
  /\ answered = {}
  /\ handled = [e \in Envelope |-> 0]
  /\ since = [e \in Envelope |-> Absent]
  /\ failures = 0

(***************************************************************************)
(* A relay delivers e, for the first time or because it has no answer yet. *)
(* The inbox row is the first statement; where it is already there the     *)
(* delivery is a duplicate, and answered 200.                              *)
(***************************************************************************)
MayDeliver(h, e) ==
  /\ ~Open(h)
  /\ e \notin marked
  /\ since[e] <= Horizon
  /\ \A g \in Handler : Open(g) => tx[g].of # e

Claimed(e) == [phase |-> "claimed", of |-> e, adds |-> {}, drops |-> {}]

(* Fault: record, then handle - the inbox row is committed on its own.     *)
DeliverThenHandle(h, e) ==
  /\ MayDeliver(h, e)
  /\ IF inbox[e] # Absent
     THEN answered' = answered \cup {e} /\ UNCHANGED <<tx, inbox>>
     ELSE /\ tx' = [tx EXCEPT ![h] = Claimed(e)]
          /\ inbox' = [inbox EXCEPT ![e] = 0]
          /\ UNCHANGED answered
  /\ UNCHANGED <<records, prune, marked, handled, since, failures>>

Deliver(h, e) ==
  /\ MayDeliver(h, e)
  /\ IF inbox[e] # Absent
     THEN answered' = answered \cup {e} /\ UNCHANGED tx
     ELSE tx' = [tx EXCEPT ![h] = Claimed(e)] /\ UNCHANGED answered
  /\ UNCHANGED <<inbox, records, prune, marked, handled, since, failures>>

(* eraseUser: deletes the committed rows it matches; they go at the commit.*)
Erase(h) ==
  LET e == tx[h].of
      doomed == {r \in records : ErasedBy(r, Owner(e))}
  IN  /\ Open(h) /\ tx[h].phase = "claimed" /\ IsErasure(e)
      /\ doomed \cap Locked(h) = {}
      /\ tx' = [tx EXCEPT ![h].phase = "written", ![h].drops = doomed]
      /\ UNCHANGED <<inbox, records, prune, marked, answered, handled, since, failures>>

(* insertRecord: nothing is written where a row has this source_event_id,  *)
(* whatever topic it came under.                                           *)
MustWait(h, id) ==
  \E g \in Handler \ {h} : Open(g) /\ id \in Ids(tx[g].adds \cup tx[g].drops)

(* Fault: no unique constraint on source_event_id.                         *)
InsertedAlways(e) == {RecordOf(e)}
Inserted(e) == IF e.id \in Ids(records) THEN {} ELSE {RecordOf(e)}

Insert(h) ==
  LET e == tx[h].of
  IN  /\ Open(h) /\ tx[h].phase = "claimed" /\ ~IsErasure(e)
      /\ ~MustWait(h, e.id)
      /\ tx' = [tx EXCEPT ![h].phase = "written", ![h].adds = Inserted(e)]
      /\ UNCHANGED <<inbox, records, prune, marked, answered, handled, since, failures>>

(* The commit, and the 2xx, which may not arrive.                          *)
Commit(h) ==
  LET e == tx[h].of
  IN  /\ Open(h) /\ tx[h].phase = "written"
      /\ inbox' = [inbox EXCEPT ![e] = 0]
      /\ records' = (records \ tx[h].drops) \cup tx[h].adds
      /\ tx' = [tx EXCEPT ![h] = NoTx]
      /\ handled' = [handled EXCEPT ![e] = @ + 1]
      /\ since' = [since EXCEPT ![e] = IF @ = Absent THEN 0 ELSE @]
      /\ \/ answered' = answered \cup {e} /\ UNCHANGED failures
         \/ /\ failures < MaxFailures
            /\ failures' = failures + 1
            /\ UNCHANGED answered
      /\ UNCHANGED <<prune, marked>>

(* A statement throws, the connection drops or the process dies.           *)
Fail(h) ==
  /\ Open(h)
  /\ failures < MaxFailures
  /\ tx' = [tx EXCEPT ![h] = NoTx]
  /\ failures' = failures + 1
  /\ UNCHANGED <<inbox, records, prune, marked, answered, handled, since>>

(* The relay records the answer; until it has, it may deliver again.       *)
Mark(e) ==
  /\ e \in answered \ marked
  /\ marked' = marked \cup {e}
  /\ UNCHANGED <<inbox, records, tx, prune, answered, handled, since, failures>>

DayPasses ==
  /\ \A h \in Handler : ~Open(h)
  /\ inbox' = [e \in Envelope |-> Older(inbox[e])]
  /\ since' = [e \in Envelope |-> Older(since[e])]
  /\ records' = {[r EXCEPT !.age = Older(@)] : r \in records}
  /\ <<inbox, since, records>> # <<inbox', since', records'>>
  /\ UNCHANGED <<tx, prune, marked, answered, handled, failures>>

-----------------------------------------------------------------------------
(* The jobs.                                                               *)

(* Fault: the row of the last day goes too.                                *)
InboxExpiredEarly(e) == inbox[e] # Absent /\ inbox[e] >= InboxDays

InboxExpired(e) == inbox[e] # Absent /\ inbox[e] > InboxDays

PruneInbox ==
  /\ \E e \in Envelope : InboxExpired(e)
  /\ inbox' = [e \in Envelope |-> IF InboxExpired(e) THEN Absent ELSE inbox[e]]
  /\ UNCHANGED <<records, tx, prune, marked, answered, handled, since, failures>>

StartPrune ==
  /\ prune = NotPruning
  /\ prune' = [at |-> 1, pass |-> 1]
  /\ UNCHANGED <<inbox, records, tx, marked, answered, handled, since, failures>>

(* Faults: one period for every class; the run ends with the first class   *)
(* that has nothing more to give.                                          *)
ExpiredShortest(r, c) == r.class = c /\ r.age > KeepDays["quarantine"]
NextPassStops(deleted) ==
  IF deleted < BatchSize \/ prune.pass = MaxPasses
  THEN NotPruning ELSE [prune EXCEPT !.pass = @ + 1]

Expired(r, c) == r.class = c /\ r.age > KeepDays[c]

NextPass(deleted) ==
  CASE deleted = BatchSize /\ prune.pass < MaxPasses -> [prune EXCEPT !.pass = @ + 1]
    [] OTHER -> IF prune.at = 4 THEN NotPruning ELSE [at |-> prune.at + 1, pass |-> 1]

(* One statement deletes a batch of the class the run is at; a batch that  *)
(* is not full, or the last pass allowed, moves on to the next class.      *)
PruneBatch ==
  /\ prune # NotPruning
  /\ LET due == {r \in records : Expired(r, ClassAt[prune.at])}
         size == IF Cardinality(due) < BatchSize THEN Cardinality(due) ELSE BatchSize
     IN  \E batch \in kSubset(size, due) :
           /\ \A h \in Handler : Open(h) => batch \cap tx[h].drops = {}
           /\ records' = records \ batch
           /\ prune' = NextPass(size)
  /\ UNCHANGED <<inbox, tx, marked, answered, handled, since, failures>>

(* The drain signal, a lost lease or a statement that throws ends the run. *)
AbortPrune ==
  /\ prune # NotPruning
  /\ failures < MaxFailures
  /\ prune' = NotPruning
  /\ failures' = failures + 1
  /\ UNCHANGED <<inbox, records, tx, marked, answered, handled, since>>

Next ==
  \/ \E h \in Handler, e \in Envelope : Deliver(h, e)
  \/ \E h \in Handler : Erase(h) \/ Insert(h) \/ Commit(h) \/ Fail(h)
  \/ \E e \in Envelope : Mark(e)
  \/ DayPasses
  \/ PruneInbox
  \/ StartPrune \/ PruneBatch \/ AbortPrune

Spec == Init /\ [][Next]_vars

(***************************************************************************)
(* Fairness.  A relay retries until it is answered, and the answer reaches *)
(* it in the end; a request is served to its end, whatever it waits for;   *)
(* the record prune recurs and its statements run.  Failures are bounded   *)
(* by MaxFailures, so these assume no more than that outages end.          *)
(***************************************************************************)
Serve(h) == Erase(h) \/ Insert(h) \/ Commit(h)

FairSpec ==
  /\ Spec
  /\ \A e \in Envelope : SF_vars(\E h \in Handler : Deliver(h, e)) /\ WF_vars(Mark(e))
  /\ \A h \in Handler : SF_vars(Serve(h))
  /\ WF_vars(StartPrune) /\ SF_vars(PruneBatch)

-----------------------------------------------------------------------------
(* Properties.                                                             *)

TypeOK ==
  /\ inbox \in [Envelope -> Age \cup {Absent}]
  /\ records \subseteq Record
  /\ tx \in [Handler -> Tx]
  /\ prune = NotPruning \/ prune \in [at : 1 .. 4, pass : 1 .. MaxPasses]
  /\ marked \subseteq answered
  /\ answered \subseteq Envelope
  /\ handled \in [Envelope -> Nat]
  /\ since \in [Envelope -> Age \cup {Absent}]
  /\ failures \in 0 .. MaxFailures

(***************************************************************************)
(* At-least-once delivery is made exactly-once (src/src/ingest.ts:176-181):*)
(* no event has its effect twice, through redeliveries that overlap, lost  *)
(* answers, failures and the inbox prune, as long as no relay redelivers   *)
(* later than the inbox remembers (Horizon <= InboxDays).                  *)
(***************************************************************************)
HandledAtMostOnce == \A e \in Envelope : handled[e] <= 1

(***************************************************************************)
(* An event a relay was told is delivered has had its effect: a failure    *)
(* leaves no inbox row behind that would swallow the redelivery            *)
(* (src/src/ingest.ts:178-180).                                            *)
(***************************************************************************)
AnsweredIsHandled == \A e \in answered : handled[e] >= 1

(***************************************************************************)
(* One event is one record, even when a producer publishes it under two    *)
(* topics and the two are served at once (activity_records_source_uniq).   *)
(***************************************************************************)
OneRecordPerSource == \A r, s \in records : r.id = s.id => r = s

(***************************************************************************)
(* A record leaves the feed only when its own period is over or when the   *)
(* erasure of a user it is keyed on commits: its owner, or where it has    *)
(* none one that its urn or its payload names.  No erasure takes a record  *)
(* of somebody else, or of nobody that does not name the user              *)
(* (src/src/records.ts:166-190).                                           *)
(***************************************************************************)
KeyedOn(r, u) == u \in {r.owner} \cup IF r.owner = NoUser THEN {r.key} \cup r.payload ELSE {}

Committing(h) == Open(h) /\ tx[h].phase = "written" /\ tx'[h] = NoTx
ErasesFor(h, u) == Committing(h) /\ handled' # handled
                     /\ IsErasure(tx[h].of) /\ Owner(tx[h].of) = u

Leaves(r) == r.id \notin Ids(records')

RecordsLeaveLawfully ==
  [][\A r \in records : Leaves(r) =>
       \/ r.age > KeepDays[r.class]
       \/ \E h \in Handler, u \in User : ErasesFor(h, u) /\ KeyedOn(r, u)]_vars

(***************************************************************************)
(* When the erasure of a user commits, every record that was in the feed   *)
(* the day before and is keyed on the user is gone: those the user owns,   *)
(* and those of no owner that name the user in their urn or their payload  *)
(* (src/src/records.ts:166-182).                                           *)
(***************************************************************************)
ErasureReaches ==
  [][\A h \in Handler, u \in User : ErasesFor(h, u) =>
       \A r \in records : KeyedOn(r, u) /\ r.age > 0 => Leaves(r)]_vars

(***************************************************************************)
(* What the feed promises to the rest of the service: an event has its     *)
(* effect in one step, whatever the transactions and the relays do         *)
(* (SinkContract; src/src/ingest.ts:169-180).  Days are left out.          *)
(***************************************************************************)
Undate(r) == [r EXCEPT !.age = 0]
Undated(some) == {Undate(r) : r \in some}
RecordsOf(e) == {RecordOf(e)}
SourceOf(r) == r.id
Reached(r, e) == ErasedBy(r, Owner(e))
Taken == {e \in Envelope : handled[e] > 0}
Rows == Undated(records)
Erasing == {h \in Handler : Open(h) /\ tx[h].phase = "written" /\ IsErasure(tx[h].of)}
FoundBy(h) == [of |-> tx[h].of, rows |-> Undated(tx[h].drops)]
Found == {FoundBy(h) : h \in Erasing}

Sink == INSTANCE SinkContract WITH
          Event <- Envelope, RowsOf <- RecordsOf, SlotOf <- SourceOf, Reaches <- Reached,
          Lapses <- TRUE, taken <- Taken, rows <- Rows, found <- Found
RefinesSink == Sink!Spec

(* Every published event has its effect in the end, whatever fails first.  *)
PublishedIsHandled == \A e \in Envelope : <>(handled[e] > 0)

(***************************************************************************)
(* Storage limitation is executed: a record past its period is deleted in  *)
(* the end, though a run of the prune is cut short by its batches, its     *)
(* passes, a drain or an erasure in its way (src/src/jobs.ts:113-130).     *)
(***************************************************************************)
Overdue(i) == \E r \in records : r.id = i /\ Expired(r, r.class)

OverdueIsPruned == \A i \in Id : Overdue(i) ~> ~Overdue(i)
=============================================================================
