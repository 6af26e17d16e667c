------------------------------ MODULE Digests ------------------------------
(***************************************************************************)
(* Batched notifications: `joinDigest', `dueDigests' and                   *)
(* `markDigestFlushed' of src/src/notify/store.ts, and `flushDueDigests'   *)
(* of src/src/notify/pipeline.ts, run by the job `notify.digest'.          *)
(*                                                                         *)
(* An item is a notification that its user's preference batches on one     *)
(* channel at one cadence; what differs between channels and cadences is   *)
(* which window they fire at, so one of each is modelled.  Time counts     *)
(* windows.  A row of digests is named after the item that created it.     *)
(*                                                                         *)
(* An item joins inside the ingest transaction, which holds the lock of    *)
(* the digest row from the upsert to the commit.  The flush is a sequence  *)
(* of statements and transactions of their own: the digests that are due,  *)
(* then the items of each, then for each a summary and a mark.             *)
(***************************************************************************)
EXTENDS Integers, FiniteSets, Sequences

None == "none"

CONSTANTS
  User,
  Item,
  UserOf,      \* the user an item is for
  Flusher,     \* runs of the job; two, if a lease is lost
  Limit,       \* dispatchBatchSize
  LastWindow,  \* bound: the clock stops there
  MaxLate,     \* bound: transactions that outlive the window they chose before they join it
  MaxErasures, \* bound
  MaxFailures  \* bound: transactions and runs that are cut short

ASSUME ItemsFinite == IsFiniteSet(Item)
ASSUME UsersTyped == UserOf \in [Item -> User]
ASSUME NoneIsNoItem == None \notin Item
ASSUME BoundsTyped ==
  /\ Limit \in Nat \ {0}
  /\ LastWindow \in Nat \ {0}
  /\ MaxLate \in Nat /\ MaxErasures \in Nat /\ MaxFailures \in Nat

VARIABLES
  now,        \* windows that have passed
  items,      \* notifications, and the transactions that write them
  digests,    \* the rows of digests, by the item that created each
  flush,      \* what each run of the job holds in memory
  summaries,  \* for each digest, the items of every summary written of it
  erasing,    \* the transaction that erases each user
  told,       \* history: items named by some summary
  late, erasures, failures

vars == <<now, items, digests, flush, summaries, erasing, told, late, erasures, failures>>

Window == 0 .. LastWindow

(* An item is new, its window chosen (routed), its digest row held         *)
(* (joined), its transaction committed (batched), then deleted (erased) or *)
(* left without its digest (stranded).                                     *)
ItemPhase == {"new", "routed", "joined", "batched", "erased", "stranded"}
ItemState ==
  {s \in [phase : ItemPhase, window : Window, digest : Item \cup {None}] :
     s.phase \in {"joined", "batched"} => s.digest # None}
New == [phase |-> "new", window |-> 0, digest |-> None]

DigestRow == [state : {"absent", "open", "flushed"}, window : Window]
Absent == [state |-> "absent", window |-> 0]

Summary == [digest : Item, items : SUBSET Item]

(* todo: digests whose items are yet to be read; due: those read; marking: *)
(* the one whose summary is written, and whose mark is next.               *)
Run == [todo : SUBSET Item, due : SUBSET Summary, marking : Item \cup {None}]
Idle == [todo |-> {}, due |-> {}, marking |-> None]

(* What the first statement of eraseUser has deleted, uncommitted.         *)
Erasure == [on : BOOLEAN, items : SUBSET Item, summaries : SUBSET Item]
NotErasing == [on |-> FALSE, items |-> {}, summaries |-> {}]

Holds(i, d) == items[i].phase = "joined" /\ items[i].digest = d
Locked(d) == \E i \in Item : Holds(i, d)
Entries(d) == {i \in Item : items[i].phase = "batched" /\ items[i].digest = d}

-----------------------------------------------------------------------------
Init ==
  /\ now = 0
  /\ items = [i \in Item |-> New]
  /\ digests = [d \in Item |-> Absent]
  /\ flush = [f \in Flusher |-> Idle]
  /\ summaries = [d \in Item |-> << >>]
  /\ erasing = [u \in User |-> NotErasing]
  /\ told = {}
  /\ late = 0 /\ erasures = 0 /\ failures = 0

(* nextDigestWindow: after now, strictly.                                  *)
NextWindow == now + 1

(* The clock is read and the window chosen, in createNotification.         *)
Route(i) ==
  /\ items[i].phase = "new"
  /\ NextWindow <= LastWindow
  /\ items' = [items EXCEPT ![i].phase = "routed", ![i].window = NextWindow]
  /\ UNCHANGED <<now, digests, flush, summaries, erasing, told, late, erasures, failures>>

(* Fault: the upsert conflicts on the user alone.                          *)
RowsOfAnyWindow(i) == {d \in Item : digests[d].state # "absent" /\ UserOf[d] = UserOf[i]}

(* The row of i's user and window, if one is committed.                    *)
Rows(i) ==
  {d \in Item : digests[d].state # "absent" /\ digests[d].window = items[i].window
                /\ UserOf[d] = UserOf[i]}
Inserting(i) ==
  {j \in Item : Holds(j, j) /\ items[j].window = items[i].window /\ UserOf[j] = UserOf[i]}

(* joinDigest: the row is inserted or, whatever its state, found and       *)
(* locked, and the entry inserted.  A row that is held makes this wait.    *)
Join(i) ==
  /\ items[i].phase = "routed"
  /\ Inserting(i) = {}
  /\ \A d \in Rows(i) : ~Locked(d)
  /\ \/ \E d \in Rows(i) : items' = [items EXCEPT ![i].phase = "joined", ![i].digest = d]
     \/ /\ Rows(i) = {}
        /\ items' = [items EXCEPT ![i].phase = "joined", ![i].digest = i]
  /\ UNCHANGED <<now, digests, flush, summaries, erasing, told, late, erasures, failures>>

Commit(i) ==
  /\ items[i].phase = "joined"
  /\ items' = [items EXCEPT ![i].phase = "batched"]
  /\ digests' = IF items[i].digest = i
                THEN [digests EXCEPT ![i] = [state |-> "open", window |-> items[i].window]]
                ELSE digests
  /\ UNCHANGED <<now, flush, summaries, erasing, told, late, erasures, failures>>

(* The transaction is rolled back; a redelivery starts it again.           *)
Fail(i) ==
  /\ items[i].phase \in {"routed", "joined"}
  /\ failures < MaxFailures
  /\ failures' = failures + 1
  /\ items' = [items EXCEPT ![i] = New]
  /\ UNCHANGED <<now, digests, flush, summaries, erasing, told, late, erasures>>

(* A window passes.  Transactions that chose it and have not joined it are *)
(* late.                                                                   *)
Outlived == {i \in Item : items[i].phase = "routed" /\ items[i].window = now + 1}
Tick ==
  /\ now < LastWindow
  /\ late + Cardinality(Outlived) <= MaxLate
  /\ now' = now + 1
  /\ late' = late + Cardinality(Outlived)
  /\ UNCHANGED <<items, digests, flush, summaries, erasing, told, erasures, failures>>

(* Fault: a digest is due in its window alone.                             *)
DueOnlyThen == {d \in Item : digests[d].state = "open" /\ digests[d].window = now /\ ~Locked(d)}

(* Fault: a digest is due in the window before its own.                    *)
DueEarly == {d \in Item : digests[d].state = "open" /\ digests[d].window <= now + 1 /\ ~Locked(d)}

(* `for update skip locked'.                                               *)
Due == {d \in Item : digests[d].state = "open" /\ digests[d].window <= now /\ ~Locked(d)}

(* dueDigests, its first query: as many as the limit, the oldest first.    *)
FindDue(f) ==
  /\ flush[f] = Idle
  /\ Due # {}
  /\ \E found \in SUBSET Due :
       /\ Cardinality(found) = IF Cardinality(Due) <= Limit THEN Cardinality(Due) ELSE Limit
       /\ \A d \in found, o \in Due \ found : digests[d].window <= digests[o].window
       /\ flush' = [flush EXCEPT ![f].todo = found]
  /\ UNCHANGED <<now, items, digests, summaries, erasing, told, late, erasures, failures>>

(* ...and the query for the items of each.                                 *)
ReadItems(f) ==
  /\ \E d \in flush[f].todo :
       flush' = [flush EXCEPT ![f].todo = @ \ {d},
                              ![f].due = @ \cup {[digest |-> d, items |-> Entries(d)]}]
  /\ UNCHANGED <<now, items, digests, summaries, erasing, told, late, erasures, failures>>

(* Fault: the summary has no dedupe key.                                   *)
NeverSummarised(d) == FALSE /\ d \in Item

(* The dedupe key of a summary is that of its digest.                      *)
IsSummarised(d) == summaries[d] # << >>

(* Fault: a summary that cannot be written is logged, and its digest       *)
(* marked all the same.                                                    *)
SummariseOrSkip(f) ==
  /\ flush[f].todo = {}
  /\ flush[f].marking = None
  /\ \E s \in flush[f].due :
       /\ s.items = {} \/ \A u \in User : s.digest \notin erasing[u].summaries
       /\ flush' = [flush EXCEPT ![f].due = @ \ {s}, ![f].marking = s.digest]
       /\ \/ UNCHANGED <<summaries, told>>
          \/ /\ s.items # {} /\ ~IsSummarised(s.digest)
             /\ summaries' = [summaries EXCEPT ![s.digest] = Append(@, s.items)]
             /\ told' = told \cup s.items
  /\ UNCHANGED <<now, items, digests, erasing, late, erasures, failures>>

(* The summary of one digest, unless it has no items or is written         *)
(* already; one whose key is being erased waits.                           *)
Summarise(f) ==
  /\ flush[f].todo = {}
  /\ flush[f].marking = None
  /\ \E s \in flush[f].due :
       /\ s.items = {} \/ \A u \in User : s.digest \notin erasing[u].summaries
       /\ flush' = [flush EXCEPT ![f].due = @ \ {s}, ![f].marking = s.digest]
       /\ IF s.items = {} \/ IsSummarised(s.digest)
          THEN UNCHANGED <<summaries, told>>
          ELSE /\ summaries' = [summaries EXCEPT ![s.digest] = Append(@, s.items)]
               /\ told' = told \cup s.items
  /\ UNCHANGED <<now, items, digests, erasing, late, erasures, failures>>

(* markDigestFlushed, by id and whatever has joined; it waits for the row. *)
Mark(f) ==
  /\ flush[f].marking # None
  /\ ~Locked(flush[f].marking)
  /\ digests' = IF digests[flush[f].marking].state = "absent" THEN digests
                ELSE [digests EXCEPT ![flush[f].marking].state = "flushed"]
  /\ flush' = [flush EXCEPT ![f].marking = None]
  /\ UNCHANGED <<now, items, summaries, erasing, told, late, erasures, failures>>

(* A statement throws or the process dies: the next run starts afresh.     *)
CutShort(f) ==
  /\ flush[f] # Idle
  /\ failures < MaxFailures
  /\ failures' = failures + 1
  /\ flush' = [flush EXCEPT ![f] = Idle]
  /\ UNCHANGED <<now, items, digests, summaries, erasing, told, late, erasures>>

(* eraseUser, its first statement: the committed notifications of u,       *)
(* summaries among them.                                                   *)
EraseItems(u) ==
  /\ ~erasing[u].on
  /\ erasures < MaxErasures
  /\ erasures' = erasures + 1
  /\ erasing' = [erasing EXCEPT ![u] =
       [on |-> TRUE,
        items |-> {i \in Item : UserOf[i] = u /\ items[i].phase = "batched"},
        summaries |-> {d \in Item : UserOf[d] = u /\ IsSummarised(d)}]]
  /\ UNCHANGED <<now, items, digests, flush, summaries, told, late, failures>>

(* ...its last, and the commit: the digests of u, which it waits for, and  *)
(* with them the entries of what has joined since.                         *)
EraseDigests(u) ==
  /\ erasing[u].on
  /\ \A d \in Item : UserOf[d] = u /\ digests[d].state # "absent" => ~Locked(d)
  /\ items' = [i \in Item |->
       IF UserOf[i] = u /\ items[i].phase = "batched"
       THEN [items[i] EXCEPT !.phase = IF i \in erasing[u].items THEN "erased" ELSE "stranded"]
       ELSE items[i]]
  /\ digests' = [d \in Item |-> IF UserOf[d] = u THEN Absent ELSE digests[d]]
  /\ summaries' = [d \in Item |-> IF d \in erasing[u].summaries THEN << >> ELSE summaries[d]]
  /\ erasing' = [erasing EXCEPT ![u] = NotErasing]
  /\ UNCHANGED <<now, flush, told, late, erasures, failures>>

AbortErasure(u) ==
  /\ erasing[u].on
  /\ failures < MaxFailures
  /\ failures' = failures + 1
  /\ erasing' = [erasing EXCEPT ![u] = NotErasing]
  /\ UNCHANGED <<now, items, digests, flush, summaries, told, late, erasures>>

Next ==
  \/ \E i \in Item : Route(i) \/ Join(i) \/ Commit(i) \/ Fail(i)
  \/ Tick
  \/ \E f \in Flusher : FindDue(f) \/ ReadItems(f) \/ Summarise(f) \/ Mark(f) \/ CutShort(f)
  \/ \E u \in User : EraseItems(u) \/ EraseDigests(u) \/ AbortErasure(u)

Spec == Init /\ [][Next]_vars

(* Transactions end, time passes, and the job is run every thirty seconds. *)
Fairness ==
  /\ WF_vars(Tick)
  /\ \A i \in Item : WF_vars(Join(i)) /\ WF_vars(Commit(i))
  /\ \A u \in User : WF_vars(EraseDigests(u))
  /\ \A f \in Flusher :
       WF_vars(FindDue(f)) /\ WF_vars(ReadItems(f)) /\ WF_vars(Summarise(f)) /\ WF_vars(Mark(f))

FairSpec == Spec /\ Fairness

-----------------------------------------------------------------------------
(* Properties.                                                             *)

TypeOK ==
  /\ now \in Window
  /\ items \in [Item -> ItemState]
  /\ digests \in [Item -> DigestRow]
  /\ flush \in [Flusher -> Run]
  /\ summaries \in [Item -> Seq(SUBSET Item)]
  /\ erasing \in [User -> Erasure]
  /\ told \subseteq Item
  /\ late \in 0 .. MaxLate
  /\ erasures \in 0 .. MaxErasures
  /\ failures \in 0 .. MaxFailures

(* A flush that is retried after a crash, or run twice at once, writes one *)
(* summary (src/src/notify/pipeline.ts, flushDueDigests).                  *)
OneSummaryEach == \A d \in Item : Len(summaries[d]) <= 1

(* A summary names items of its digest's own user and window, and no item  *)
(* is in the summaries of two digests, though a run writes it of what it   *)
(* read before joins, commits, rollbacks and erasures it did not see       *)
(* (src/src/notify/store.ts:940-964, src/src/notify/pipeline.ts:807).      *)
BelongsTo(i, d) ==
  items[i].digest = d /\ UserOf[i] = UserOf[d] /\ items[i].window = items[d].window
SummariesNameTheirOwn ==
  \A d \in Item : \A n \in DOMAIN summaries[d] : \A i \in summaries[d][n] : BelongsTo(i, d)

(* A digest that is closed has told what is in it, as long as no           *)
(* transaction outlives the window it chose before it joins: one that      *)
(* holds the row when the window passes is waited for.                     *)
FlushedIsTold == late = 0 => \A d \in Item : digests[d].state = "flushed" => Entries(d) \subseteq told

(* No user is told before the window they asked for.                       *)
WindowIsKept == [][\A i \in told' \ told : items[i].window <= now]_vars

(* A digest is a delayed delivery (src/src/notify/store.ts:1168): every    *)
(* batched item is told in the end, or gone with an erasure of its user,   *)
(* unless a transaction outlives its window.                               *)
BatchedIsTold ==
  \A i \in Item :
    items[i].phase = "batched"
      ~> (i \in told \/ items[i].phase \in {"erased", "stranded"} \/ late > 0)
=============================================================================
