------------------------- MODULE ActivityFeedProofs -------------------------
(***************************************************************************)
(* Theorems about ActivityFeed, for every set of events, users and         *)
(* handlers and every value of the periods and the bounds.                 *)
(***************************************************************************)
EXTENDS ActivityFeed, TLAPS

(***************************************************************************)
(* Data.                                                                   *)
(***************************************************************************)

(* A row of activity_records is well formed whatever the envelope holds.   *)
LEMMA RecordsAreTyped ==
  ASSUME NEW e \in Envelope
  PROVE  RecordOf(e) \in Record /\ RecordOf(e).age = 0 /\ RecordOf(e).id = e.id
<1>1. e \in EnvelopeType
  BY EnvelopesTyped
<1>2. Owner(e) \in User \cup {NoUser}
  BY <1>1 DEF Owner, EnvelopeType
<1>3. RetentionClassFor(e, Owner(e)) \in RetentionClass
  BY <1>1 DEF RetentionClassFor, RetentionClass, EnvelopeType
<1>4. 0 \in Age
  BY PeriodsTyped DEF Age
<1> QED BY <1>1, <1>2, <1>3, <1>4 DEF RecordOf, Record, EnvelopeType

(* A day makes nothing younger, and what was absent stays absent.          *)
LEMMA AgesGrow ==
  ASSUME NEW a \in Age \cup {Absent}
  PROVE  /\ Older(a) \in Age \cup {Absent}
         /\ a \in Age => Older(a) \in Age
         /\ Older(a) >= a
         /\ Older(a) = Absent <=> a = Absent
BY PeriodsTyped DEF Older, Age, Absent

(* A transaction that has just claimed its event has written nothing.      *)
LEMMA ClaimsAreTyped ==
  ASSUME NEW e \in Envelope
  PROVE  /\ Claimed(e) \in Tx /\ Claimed(e) # NoTx /\ Claimed(e).of = e
         /\ Claimed(e).phase = "claimed"
         /\ Claimed(e).adds = {} /\ Claimed(e).drops = {}
BY DEF Claimed, Tx, NoTx

(* An open transaction is the record of one, and writing keeps it so.      *)
LEMMA OpenTxsAreTyped ==
  ASSUME TypeOK, NEW h \in Handler, Open(h)
  PROVE  /\ tx[h] \in [phase : {"claimed", "written"}, of : Envelope,
                       adds : SUBSET Record, drops : SUBSET Record]
         /\ tx[h].of \in Envelope
BY DEF TypeOK, Tx, Open

(***************************************************************************)
(* Types.                                                                  *)
(***************************************************************************)

LEMMA TypeStep == TypeOK /\ [Next]_vars => TypeOK'
<1> SUFFICES ASSUME TypeOK, [Next]_vars PROVE TypeOK'
  OBVIOUS
<1>1. ASSUME NEW h \in Handler, NEW e \in Envelope, Deliver(h, e) PROVE TypeOK'
  BY <1>1, ClaimsAreTyped DEF TypeOK, Deliver
<1>2. ASSUME NEW h \in Handler, Erase(h) PROVE TypeOK'
  <2> DEFINE doomed == {r \in records : ErasedBy(r, Owner(tx[h].of))}
             new == [tx[h] EXCEPT !.phase = "written", !.drops = doomed]
  <2>1. doomed \in SUBSET Record
    BY DEF TypeOK
  <2>2. tx' = [tx EXCEPT ![h] = new]
    BY <1>2 DEF Erase
  <2> HIDE DEF doomed
  <2>3. new \in Tx
    BY <1>2, <2>1, OpenTxsAreTyped DEF Erase, Tx
  <2> QED BY <1>2, <2>2, <2>3 DEF Erase, TypeOK
<1>3. ASSUME NEW h \in Handler, Insert(h) PROVE TypeOK'
  <2> DEFINE rows == Inserted(tx[h].of)
             new == [tx[h] EXCEPT !.phase = "written", !.adds = rows]
  <2>1. rows \in SUBSET Record
    BY <1>3, OpenTxsAreTyped, RecordsAreTyped DEF Insert, Inserted
  <2>2. tx' = [tx EXCEPT ![h] = new]
    BY <1>3 DEF Insert
  <2> HIDE DEF rows
  <2>3. new \in Tx
    BY <1>3, <2>1, OpenTxsAreTyped DEF Insert, Tx
  <2> QED BY <1>3, <2>2, <2>3 DEF Insert, TypeOK
<1>4. ASSUME NEW h \in Handler, Commit(h) PROVE TypeOK'
  <2>1. tx[h].of \in Envelope /\ tx[h].adds \subseteq Record
    BY <1>4, OpenTxsAreTyped DEF Commit
  <2>2. 0 \in Age /\ NoTx \in Tx
    BY PeriodsTyped DEF Age, Tx
  <2>3. handled' \in [Envelope -> Nat]
    BY <1>4, <2>1 DEF Commit, TypeOK
  <2>4. answered' \subseteq Envelope /\ marked' \subseteq answered' /\ failures' \in 0 .. MaxFailures
    BY <1>4, <2>1, LimitsTyped DEF Commit, TypeOK
  <2> QED BY <1>4, <2>1, <2>2, <2>3, <2>4 DEF Commit, TypeOK
<1>5. ASSUME NEW h \in Handler, Fail(h) PROVE TypeOK'
  <2>1. NoTx \in Tx /\ failures' \in 0 .. MaxFailures
    BY <1>5, LimitsTyped DEF Tx, Fail, TypeOK
  <2> QED BY <1>5, <2>1 DEF Fail, TypeOK
<1>6. ASSUME NEW e \in Envelope, Mark(e) PROVE TypeOK'
  BY <1>6 DEF Mark, TypeOK
<1>7. CASE DayPasses
  <2>1. inbox' \in [Envelope -> Age \cup {Absent}] /\ since' \in [Envelope -> Age \cup {Absent}]
    BY <1>7, AgesGrow DEF DayPasses, TypeOK
  <2>2. \A r \in Record : [r EXCEPT !.age = Older(@)] \in Record
    BY AgesGrow DEF Record
  <2>3. records' \subseteq Record
    BY <1>7, <2>2 DEF DayPasses, TypeOK
  <2> QED BY <1>7, <2>1, <2>3 DEF DayPasses, TypeOK
<1>8. CASE PruneInbox
  BY <1>8 DEF PruneInbox, TypeOK
<1>9. CASE StartPrune
  BY <1>9, LimitsTyped DEF StartPrune, TypeOK
<1>10. CASE PruneBatch
  <2>1. prune \in [at : 1 .. 4, pass : 1 .. MaxPasses]
    BY <1>10 DEF PruneBatch, TypeOK
  <2>2. \A n : NextPass(n) = NotPruning \/ NextPass(n) \in [at : 1 .. 4, pass : 1 .. MaxPasses]
    BY <2>1, LimitsTyped DEF NextPass
  <2>3. records' \subseteq records /\ \E n : prune' = NextPass(n)
    BY <1>10 DEF PruneBatch
  <2> QED BY <1>10, <2>2, <2>3 DEF PruneBatch, TypeOK
<1>11. CASE AbortPrune
  <2>1. failures' \in 0 .. MaxFailures
    BY <1>11, LimitsTyped DEF AbortPrune, TypeOK
  <2> QED BY <1>11, <2>1 DEF AbortPrune, TypeOK
<1>12. CASE UNCHANGED vars
  BY <1>12 DEF vars, TypeOK
<1> QED BY <1>1, <1>2, <1>3, <1>4, <1>5, <1>6, <1>7, <1>8, <1>9, <1>10, <1>11, <1>12 DEF Next

(* Every reachable state of the feed is well formed.                       *)
THEOREM TypeCorrect == Spec => []TypeOK
<1>1. Init => TypeOK
  BY LimitsTyped DEF Init, TypeOK, Tx
<1> QED BY <1>1, TypeStep, PTL DEF Spec

(***************************************************************************)
(* Exactly once.  The invariant: one open transaction per event, open only *)
(* while the event has no inbox row; an inbox row means a committed        *)
(* effect.  As long as relays give up before the inbox forgets, also: an   *)
(* effect whose inbox row is gone is older than any redelivery.            *)
(***************************************************************************)

OneOpenEach == \A g, h \in Handler : Open(g) /\ Open(h) /\ tx[g].of = tx[h].of => g = h
OpenIsUnclaimed == \A h \in Handler : Open(h) => inbox[tx[h].of] = Absent
ClaimedIsHandled == \A e \in Envelope : inbox[e] # Absent => handled[e] >= 1
Once == OneOpenEach /\ OpenIsUnclaimed /\ ClaimedIsHandled /\ AnsweredIsHandled

(* What the two writing statements make of the transactions.               *)
Doomed(h) == {r \in records : ErasedBy(r, Owner(tx[h].of))}

LEMMA EraseWrites ==
  ASSUME TypeOK, NEW h \in Handler, Erase(h)
  PROVE  /\ tx'[h].phase = "written" /\ tx'[h].of = tx[h].of
         /\ tx'[h].adds = tx[h].adds /\ tx'[h].drops = Doomed(h)
         /\ \A g \in Handler \ {h} : tx'[g] = tx[g]
<1>1. tx[h] \in [phase : {"claimed", "written"}, of : Envelope,
                 adds : SUBSET Record, drops : SUBSET Record]
  BY OpenTxsAreTyped DEF Erase
<1> DEFINE doomed == Doomed(h)
           new == [tx[h] EXCEPT !.phase = "written", !.drops = doomed]
<1>2. tx' = [tx EXCEPT ![h] = new]
  BY DEF Erase, Doomed
<1> HIDE DEF doomed
<1>3. new.phase = "written" /\ new.of = tx[h].of /\ new.adds = tx[h].adds /\ new.drops = doomed
  BY <1>1
<1> HIDE DEF new
<1>4. tx'[h].drops = doomed
  BY <1>2, <1>3 DEF TypeOK
<1> QED BY <1>2, <1>3, <1>4 DEF TypeOK, doomed

LEMMA InsertWrites ==
  ASSUME TypeOK, NEW h \in Handler, Insert(h)
  PROVE  /\ tx'[h].phase = "written" /\ tx'[h].of = tx[h].of
         /\ tx'[h].adds = Inserted(tx[h].of) /\ tx'[h].drops = tx[h].drops
         /\ \A g \in Handler \ {h} : tx'[g] = tx[g]
<1>1. tx[h] \in [phase : {"claimed", "written"}, of : Envelope,
                 adds : SUBSET Record, drops : SUBSET Record]
  BY OpenTxsAreTyped DEF Insert
<1> DEFINE rows == Inserted(tx[h].of)
           new == [tx[h] EXCEPT !.phase = "written", !.adds = rows]
<1>2. tx' = [tx EXCEPT ![h] = new]
  BY DEF Insert
<1> HIDE DEF rows
<1>3. new.phase = "written" /\ new.of = tx[h].of /\ new.adds = rows /\ new.drops = tx[h].drops
  BY <1>1
<1> HIDE DEF new
<1>4. tx'[h].adds = rows
  BY <1>2, <1>3 DEF TypeOK
<1> QED BY <1>2, <1>3, <1>4 DEF TypeOK, rows

LEMMA WritesKeepEvents ==
  ASSUME TypeOK, NEW h \in Handler, Erase(h) \/ Insert(h)
  PROVE  \A g \in Handler : /\ Open(g)' <=> Open(g)
                            /\ Open(g) => tx'[g].of = tx[g].of
<1>1. Open(h) /\ Open(h)' /\ tx'[h].of = tx[h].of
  BY EraseWrites, InsertWrites DEF Erase, Insert, Open, NoTx
<1>2. \A g \in Handler \ {h} : tx'[g] = tx[g]
  BY EraseWrites, InsertWrites
<1> QED BY <1>1, <1>2 DEF Open

LEMMA OnceStep == TypeOK /\ Once /\ [Next]_vars => Once'
<1> SUFFICES ASSUME TypeOK, Once, [Next]_vars PROVE Once'
  OBVIOUS
<1> USE DEF Once, OneOpenEach, OpenIsUnclaimed, ClaimedIsHandled, AnsweredIsHandled
<1>1. ASSUME NEW h \in Handler, NEW e \in Envelope, Deliver(h, e) PROVE Once'
  BY <1>1, ClaimsAreTyped DEF TypeOK, Deliver, MayDeliver, Open
<1>2. ASSUME NEW h \in Handler, Erase(h) \/ Insert(h) PROVE Once'
  <2>1. UNCHANGED <<inbox, handled, answered>>
    BY <1>2 DEF Erase, Insert
  <2> QED BY <1>2, <2>1, WritesKeepEvents
<1>3. ASSUME NEW h \in Handler, Commit(h) PROVE Once'
  <2>1. tx[h].of \in Envelope
    BY <1>3, OpenTxsAreTyped DEF Commit
  <2>2. /\ handled' = [handled EXCEPT ![tx[h].of] = @ + 1]
        /\ inbox' = [inbox EXCEPT ![tx[h].of] = 0]
        /\ tx' = [tx EXCEPT ![h] = NoTx]
        /\ answered' \subseteq answered \cup {tx[h].of}
    BY <1>3 DEF Commit
  <2>3. \A e \in Envelope : handled[e] \in Nat /\ handled'[e] \in Nat /\ handled'[e] >= handled[e]
    BY <2>1, <2>2 DEF TypeOK
  <2>4. handled'[tx[h].of] >= 1
    BY <2>1, <2>2 DEF TypeOK
  <2>5. OneOpenEach' /\ OpenIsUnclaimed'
    BY <1>3, <2>1, <2>2 DEF TypeOK, Open, Commit
  <2>6. ClaimedIsHandled' /\ AnsweredIsHandled'
    BY <2>1, <2>2, <2>3, <2>4 DEF TypeOK
  <2> QED BY <2>5, <2>6
<1>4. ASSUME NEW h \in Handler, Fail(h) PROVE Once'
  BY <1>4 DEF TypeOK, Fail, Open
<1>5. CASE DayPasses
  <2>1. \A e \in Envelope : inbox'[e] = Absent <=> inbox[e] = Absent
    BY <1>5, AgesGrow DEF DayPasses, TypeOK
  <2>2. UNCHANGED <<tx, handled, answered>> /\ \A h \in Handler : ~Open(h)
    BY <1>5 DEF DayPasses
  <2> QED BY <2>1, <2>2 DEF Open
<1>6. CASE PruneInbox
  <2>1. \A e \in Envelope : inbox'[e] = IF InboxExpired(e) THEN Absent ELSE inbox[e]
    BY <1>6 DEF PruneInbox
  <2>2. UNCHANGED <<tx, handled, answered>>
    BY <1>6 DEF PruneInbox
  <2>3. \A h \in Handler : Open(h) => tx[h].of \in Envelope
    BY OpenTxsAreTyped
  <2> QED BY <2>1, <2>2, <2>3 DEF Open
<1>7. CASE (\E e \in Envelope : Mark(e)) \/ StartPrune \/ PruneBatch \/ AbortPrune \/ UNCHANGED vars
  BY <1>7 DEF Mark, StartPrune, PruneBatch, AbortPrune, vars, Open
<1> QED BY <1>1, <1>2, <1>3, <1>4, <1>5, <1>6, <1>7 DEF Next

LEMMA OnceInvariant == Spec => []Once
<1>1. Init => Once
  BY DEF Init, Once, OneOpenEach, OpenIsUnclaimed, ClaimedIsHandled, AnsweredIsHandled, Open
<1> QED BY <1>1, OnceStep, TypeCorrect, PTL DEF Spec

(* An event answered 2xx has had its effect, whatever relays do.           *)
THEOREM AnsweredOnlyWhenHandled == Spec => []AnsweredIsHandled
<1>1. Once => AnsweredIsHandled
  BY DEF Once
<1> QED BY <1>1, OnceInvariant, PTL

Remembered ==
  \A e \in Envelope :
    /\ since[e] = Absent <=> handled[e] = 0
    /\ inbox[e] # Absent => inbox[e] = since[e]
    /\ handled[e] >= 1 /\ inbox[e] = Absent => since[e] > InboxDays

OpenIsTimely == \A h \in Handler : Open(h) => since[tx[h].of] <= Horizon
Dated == Remembered /\ OpenIsTimely /\ HandledAtMostOnce

(* An open transaction is the first to have the effect of its event.       *)
LEMMA OpenIsFirst ==
  ASSUME Horizon <= InboxDays, TypeOK, Once, Dated, NEW h \in Handler, Open(h)
  PROVE  handled[tx[h].of] = 0 /\ since[tx[h].of] = Absent
<1> DEFINE e == tx[h].of
<1>1. e \in Envelope
  BY OpenTxsAreTyped
<1>2. inbox[e] = Absent /\ since[e] <= Horizon
  BY DEF Once, OpenIsUnclaimed, Dated, OpenIsTimely
<1>3. handled[e] \in Nat /\ since[e] \in Int
  BY <1>1 DEF TypeOK, Age, Absent
<1> QED BY <1>1, <1>2, <1>3, PeriodsTyped DEF Dated, Remembered

LEMMA DatedStep ==
  ASSUME Horizon <= InboxDays, TypeOK, Once, Dated, [Next]_vars
  PROVE  Dated'
<1> USE DEF Dated, Remembered, OpenIsTimely, HandledAtMostOnce
<1>1. ASSUME NEW h \in Handler, NEW e \in Envelope, Deliver(h, e) PROVE Dated'
  BY <1>1, ClaimsAreTyped DEF TypeOK, Deliver, MayDeliver, Open
<1>2. ASSUME NEW h \in Handler, Erase(h) \/ Insert(h) PROVE Dated'
  <2>1. UNCHANGED <<inbox, handled, since>>
    BY <1>2 DEF Erase, Insert
  <2> QED BY <1>2, <2>1, WritesKeepEvents
<1>3. ASSUME NEW h \in Handler, Commit(h) PROVE Dated'
  <2> DEFINE e == tx[h].of
  <2>1. e \in Envelope /\ Open(h)
    BY <1>3, OpenTxsAreTyped DEF Commit
  <2>2. handled[e] = 0 /\ since[e] = Absent
    BY <2>1, OpenIsFirst
  <2>3. /\ handled' = [handled EXCEPT ![e] = 1]
        /\ inbox' = [inbox EXCEPT ![e] = 0]
        /\ since' = [since EXCEPT ![e] = 0]
        /\ tx' = [tx EXCEPT ![h] = NoTx]
    <3>1. /\ handled' = [handled EXCEPT ![e] = handled[e] + 1]
          /\ inbox' = [inbox EXCEPT ![e] = 0]
          /\ since' = [since EXCEPT ![e] = IF since[e] = Absent THEN 0 ELSE since[e]]
          /\ tx' = [tx EXCEPT ![h] = NoTx]
      BY <1>3 DEF Commit
    <3> QED BY <2>2, <3>1
  <2>4. \A g \in Handler : Open(g)' => Open(g) /\ tx'[g] = tx[g] /\ tx[g].of # e
    BY <2>1, <2>3 DEF TypeOK, Open, Once, OneOpenEach
  <2>5. Remembered' /\ HandledAtMostOnce'
    BY <2>1, <2>3 DEF TypeOK, Absent
  <2>6. OpenIsTimely'
    BY <2>1, <2>3, <2>4 DEF TypeOK
  <2> QED BY <2>5, <2>6
<1>4. ASSUME NEW h \in Handler, Fail(h) PROVE Dated'
  BY <1>4 DEF TypeOK, Fail, Open
<1>5. CASE DayPasses
  <2>1. /\ \A e \in Envelope : inbox'[e] = Older(inbox[e]) /\ since'[e] = Older(since[e])
        /\ UNCHANGED <<tx, handled>> /\ \A h \in Handler : ~Open(h)
    BY <1>5 DEF DayPasses
  <2>2. \A e \in Envelope : /\ inbox[e] \in Age \cup {Absent} /\ since[e] \in Age \cup {Absent}
                            /\ inbox[e] \in Int /\ since[e] \in Int
    BY DEF TypeOK, Age, Absent
  <2>3. \A e \in Envelope : Older(since[e]) \in Int /\ Older(since[e]) >= since[e]
    BY <2>2, AgesGrow DEF Age, Absent
  <2>4. \A e \in Envelope : /\ inbox'[e] = Absent <=> inbox[e] = Absent
                            /\ since'[e] = Absent <=> since[e] = Absent
    BY <2>1, <2>2, AgesGrow
  <2>5. Remembered'
    BY <2>1, <2>2, <2>3, <2>4, PeriodsTyped
  <2>6. OpenIsTimely' /\ HandledAtMostOnce'
    BY <2>1 DEF Open
  <2> QED BY <2>5, <2>6
<1>6. CASE PruneInbox
  <2>1. \A e \in Envelope : inbox'[e] = IF InboxExpired(e) THEN Absent ELSE inbox[e]
    BY <1>6 DEF PruneInbox
  <2>2. UNCHANGED <<tx, handled, since>>
    BY <1>6 DEF PruneInbox
  <2> QED BY <2>1, <2>2 DEF InboxExpired, Open
<1>7. CASE (\E e \in Envelope : Mark(e)) \/ StartPrune \/ PruneBatch \/ AbortPrune \/ UNCHANGED vars
  BY <1>7 DEF Mark, StartPrune, PruneBatch, AbortPrune, vars, Open
<1> QED BY <1>1, <1>2, <1>3, <1>4, <1>5, <1>6, <1>7 DEF Next

LEMMA DatedInvariant == ASSUME Horizon <= InboxDays PROVE Spec => []Dated
<1>1. Init => Dated
  BY DEF Init, Dated, Remembered, OpenIsTimely, HandledAtMostOnce, Open, Absent
<1>2. TypeOK /\ Once /\ Dated /\ [Next]_vars => Dated'
  BY DatedStep
<1> QED BY <1>1, <1>2, OnceInvariant, TypeCorrect, PTL DEF Spec

(* No event has its effect twice, as long as relays give up before the     *)
(* inbox forgets it.                                                       *)
THEOREM ExactlyOnce ==
  ASSUME Horizon <= InboxDays
  PROVE  Spec => []HandledAtMostOnce
<1>1. Dated => HandledAtMostOnce
  BY DEF Dated
<1> QED BY <1>1, DatedInvariant, PTL

(***************************************************************************)
(* The feed.  The invariant: what an open transaction is about to add has  *)
(* an id that neither the feed nor another transaction has; what it is     *)
(* about to delete belongs to nobody else, and is all there was the day    *)
(* before.                                                                 *)
(***************************************************************************)

Pending(h) ==
  /\ tx[h].phase = "claimed" => tx[h].adds = {} /\ tx[h].drops = {}
  /\ tx[h].adds \subseteq {RecordOf(tx[h].of)}
  /\ tx[h].adds # {} => tx[h].of.id \notin Ids(records) /\ ~IsErasure(tx[h].of)
  /\ tx[h].drops # {} => IsErasure(tx[h].of)
  /\ \A r \in tx[h].drops : ErasedBy(r, Owner(tx[h].of))
  /\ tx[h].phase = "written" /\ IsErasure(tx[h].of) =>
       \A r \in records : ErasedBy(r, Owner(tx[h].of)) /\ r.age > 0 => r \in tx[h].drops

IdsApart == \A g, h \in Handler : Open(g) /\ Open(h) /\ g # h
              /\ tx[g].adds # {} /\ tx[h].adds # {} => tx[g].of.id # tx[h].of.id

Feed == /\ OneRecordPerSource
        /\ IdsApart
        /\ \A h \in Handler : Open(h) => Pending(h)

(* A step that leaves the transactions alone and only takes rows away      *)
(* keeps the invariant.                                                    *)
LEMMA FewerRecords ==
  ASSUME Feed, UNCHANGED tx, records' \subseteq records
  PROVE  Feed'
BY DEF Feed, OneRecordPerSource, IdsApart, Pending, Open, Ids, IsErasure, Owner, RecordOf, ErasedBy

(* A day changes the age of a record and nothing else.                     *)
AgedOf(r) == [r EXCEPT !.age = Older(r.age)]

LEMMA DaysKeepRecords ==
  ASSUME TypeOK, DayPasses
  PROVE  /\ records' = {AgedOf(r) : r \in records}
         /\ \A r \in records : AgedOf(r).id = r.id
BY DEF DayPasses, TypeOK, AgedOf, Record

LEMMA FeedStep == TypeOK /\ Feed /\ [Next]_vars => Feed'
<1> SUFFICES ASSUME TypeOK, Feed, [Next]_vars PROVE Feed'
  OBVIOUS
<1>0. OneRecordPerSource /\ IdsApart /\ \A h \in Handler : Open(h) => Pending(h)
  BY DEF Feed
<1>1. ASSUME NEW h \in Handler, NEW e \in Envelope, Deliver(h, e) PROVE Feed'
  <2>1. CASE inbox[e] # Absent
    BY <1>1, <2>1, FewerRecords DEF Deliver
  <2>2. CASE inbox[e] = Absent
    <3>1. /\ tx'[h] = Claimed(e) /\ records' = records
          /\ \A g \in Handler \ {h} : tx'[g] = tx[g]
      BY <1>1, <2>2 DEF Deliver, TypeOK
    <3>2. Pending(h)'
      BY <3>1, ClaimsAreTyped DEF Pending
    <3>3. \A g \in Handler \ {h} : Open(g)' => Pending(g)'
      BY <1>0, <3>1 DEF Pending, Open
    <3>4. IdsApart'
      BY <1>0, <3>1, ClaimsAreTyped DEF IdsApart, Open
    <3> QED BY <1>0, <3>1, <3>2, <3>3, <3>4 DEF Feed, OneRecordPerSource
  <2> QED BY <2>1, <2>2
<1>2. ASSUME NEW h \in Handler, Erase(h) PROVE Feed'
  <2>1. Open(h) /\ tx[h].phase = "claimed" /\ IsErasure(tx[h].of) /\ records' = records
    BY <1>2 DEF Erase
  <2>2. /\ tx'[h].phase = "written" /\ tx'[h].of = tx[h].of
        /\ tx'[h].adds = {} /\ tx'[h].drops = Doomed(h)
        /\ \A g \in Handler \ {h} : tx'[g] = tx[g]
    BY <1>0, <1>2, <2>1, EraseWrites DEF Pending
  <2>3. Pending(h)'
    BY <2>1, <2>2 DEF Pending, Doomed
  <2>4. \A g \in Handler \ {h} : Open(g)' => Pending(g)'
    BY <1>0, <2>1, <2>2 DEF Pending, Open
  <2>5. IdsApart'
    BY <1>0, <2>2 DEF IdsApart, Open
  <2> QED BY <1>0, <2>1, <2>3, <2>4, <2>5 DEF Feed, OneRecordPerSource
<1>3. ASSUME NEW h \in Handler, Insert(h) PROVE Feed'
  <2> DEFINE e == tx[h].of
  <2>1. /\ Open(h) /\ tx[h].phase = "claimed" /\ ~IsErasure(e) /\ records' = records
        /\ ~MustWait(h, e.id)
    BY <1>3 DEF Insert
  <2>2. /\ tx'[h].phase = "written" /\ tx'[h].of = e
        /\ tx'[h].adds = Inserted(e) /\ tx'[h].drops = {}
        /\ \A g \in Handler \ {h} : tx'[g] = tx[g]
    BY <1>0, <1>3, <2>1, InsertWrites DEF Pending
  <2>3. Pending(h)'
    BY <2>1, <2>2 DEF Pending, Inserted
  <2>4. \A g \in Handler \ {h} : Open(g)' => Pending(g)'
    BY <1>0, <2>1, <2>2 DEF Pending, Open
  <2>5. \A g \in Handler \ {h} : Open(g) /\ tx[g].adds # {} => tx[g].of.id # e.id
    <3> SUFFICES ASSUME NEW g \in Handler \ {h}, Open(g), tx[g].adds # {} PROVE tx[g].of.id # e.id
      OBVIOUS
    <3>1. RecordOf(tx[g].of) \in tx[g].adds
      BY <1>0 DEF Pending
    <3>2. RecordOf(tx[g].of).id = tx[g].of.id
      BY OpenTxsAreTyped, RecordsAreTyped
    <3>3. tx[g].of.id \in Ids(tx[g].adds \cup tx[g].drops)
      BY <3>1, <3>2 DEF Ids
    <3> QED BY <2>1, <3>3 DEF MustWait
  <2>6. IdsApart'
    BY <1>0, <2>2, <2>5 DEF IdsApart, Open
  <2> QED BY <1>0, <2>1, <2>3, <2>4, <2>6 DEF Feed, OneRecordPerSource
<1>4. ASSUME NEW h \in Handler, Commit(h) PROVE Feed'
  <2> DEFINE e == tx[h].of
  <2>1. /\ Open(h) /\ e \in Envelope
        /\ records' = (records \ tx[h].drops) \cup tx[h].adds
        /\ \A g \in Handler \ {h} : tx'[g] = tx[g]
        /\ ~Open(h)'
    BY <1>4, OpenTxsAreTyped DEF Commit, TypeOK, Open
  <2>2. Pending(h)
    BY <1>0, <2>1
  <2>3. \A r \in tx[h].adds : r = RecordOf(e) /\ r.id = e.id /\ r.age = 0 /\ e.id \notin Ids(records)
    BY <2>1, <2>2, RecordsAreTyped DEF Pending
  <2>4. OneRecordPerSource'
    BY <1>0, <2>1, <2>3 DEF OneRecordPerSource, Ids
  <2>5. IdsApart'
    BY <1>0, <2>1 DEF IdsApart, Open
  <2>6. ASSUME NEW g \in Handler \ {h}, Open(g)' PROVE Pending(g)'
    <3>1. Open(g) /\ Pending(g) /\ tx'[g] = tx[g]
      BY <1>0, <2>1, <2>6 DEF Open
    <3>2. tx[g].adds # {} => tx[g].of.id \notin Ids(records')
      BY <1>0, <2>1, <2>3, <3>1 DEF IdsApart, Pending, Ids
    <3>3. \A r \in records' : r.age > 0 => r \in records
      BY <2>1, <2>3
    <3> QED BY <3>1, <3>2, <3>3 DEF Pending
  <2> QED BY <2>1, <2>4, <2>5, <2>6 DEF Feed
<1>5. ASSUME NEW h \in Handler, Fail(h) PROVE Feed'
  <2>1. /\ \A g \in Handler \ {h} : tx'[g] = tx[g]
        /\ ~Open(h)' /\ records' = records
    BY <1>5 DEF Fail, TypeOK, Open
  <2> QED BY <1>0, <2>1 DEF Feed, OneRecordPerSource, IdsApart, Pending, Open
<1>6. CASE DayPasses
  <2>1. \A h \in Handler : ~Open(h)'
    BY <1>6 DEF DayPasses, Open
  <2>2. OneRecordPerSource'
    BY <1>0, <1>6, DaysKeepRecords DEF OneRecordPerSource
  <2> QED BY <2>1, <2>2 DEF Feed, IdsApart
<1>7. CASE PruneBatch
  BY <1>7, FewerRecords DEF PruneBatch
<1>8. CASE (\E e \in Envelope : Mark(e)) \/ PruneInbox \/ StartPrune \/ AbortPrune \/ UNCHANGED vars
  <2>1. UNCHANGED <<tx, records>>
    BY <1>8 DEF Mark, PruneInbox, StartPrune, AbortPrune, vars
  <2> QED BY <2>1, FewerRecords
<1> QED BY <1>1, <1>2, <1>3, <1>4, <1>5, <1>6, <1>7, <1>8 DEF Next

LEMMA FeedInvariant == Spec => []Feed
<1>1. Init => Feed
  BY DEF Init, Feed, OneRecordPerSource, IdsApart, Open
<1> QED BY <1>1, FeedStep, TypeCorrect, PTL DEF Spec

(* One event is one record, however its deliveries interleave.             *)
THEOREM RecordsAreUnique == Spec => []OneRecordPerSource
<1>1. Feed => OneRecordPerSource
  BY DEF Feed
<1> QED BY <1>1, FeedInvariant, PTL

(* Only a commit has an effect.                                            *)
LEMMA OnlyCommitsErase ==
  ASSUME TypeOK, [Next]_vars, NEW h \in Handler, NEW u \in User, ErasesFor(h, u)
  PROVE  Commit(h)
<1>1. handled' # handled /\ Open(h) /\ tx'[h] = NoTx
  BY DEF ErasesFor, Committing
<1>2. PICK g \in Handler : Commit(g)
  BY <1>1 DEF Next, vars, Deliver, Erase, Insert, Fail, Mark, DayPasses, PruneInbox,
              StartPrune, PruneBatch, AbortPrune
<1>3. g = h
  BY <1>1, <1>2 DEF Commit, TypeOK, Open
<1> QED BY <1>2, <1>3

(* A record leaves by its period or by the erasure of one it is keyed on.  *)
Lawful == \A r \in records : Leaves(r) =>
            \/ r.age > KeepDays[r.class]
            \/ \E h \in Handler, u \in User : ErasesFor(h, u) /\ KeyedOn(r, u)

LEMMA LawfulStep == TypeOK /\ Feed /\ [Next]_vars => Lawful
<1> SUFFICES ASSUME TypeOK, Feed, [Next]_vars, NEW r \in records, Leaves(r)
             PROVE  \/ r.age > KeepDays[r.class]
                    \/ \E h \in Handler, u \in User : ErasesFor(h, u) /\ KeyedOn(r, u)
  BY DEF Lawful
<1>0. r \notin records'
  BY DEF Leaves, Ids
<1>1. CASE \E h \in Handler : Commit(h)
  <2>1. PICK h \in Handler : Commit(h)
    BY <1>1
  <2> DEFINE e == tx[h].of
  <2>2. /\ Open(h) /\ e \in Envelope /\ tx[h].phase = "written" /\ r \in tx[h].drops
        /\ tx' = [tx EXCEPT ![h] = NoTx] /\ handled' = [handled EXCEPT ![e] = @ + 1]
    BY <1>0, <2>1, OpenTxsAreTyped DEF Commit
  <2>3. IsErasure(e) /\ ErasedBy(r, Owner(e))
    BY <2>2 DEF Feed, Pending
  <2>4. Owner(e) \in User
    BY <2>2, <2>3, EnvelopesTyped DEF IsErasure, Owner, EnvelopeType
  <2>5. handled'[e] # handled[e] /\ tx'[h] = NoTx
    BY <2>2 DEF TypeOK
  <2>6. ErasesFor(h, Owner(e))
    BY <2>2, <2>3, <2>5 DEF ErasesFor, Committing
  <2>7. KeyedOn(r, Owner(e))
    BY <2>3 DEF ErasedBy, KeyedOn
  <2> QED BY <2>4, <2>6, <2>7
<1>2. CASE PruneBatch
  <2>1. r \in {s \in records : Expired(s, ClassAt[prune.at])}
    BY <1>0, <1>2 DEF PruneBatch, kSubset
  <2> QED BY <2>1 DEF Expired
<1>3. CASE DayPasses
  BY <1>3, DaysKeepRecords DEF Leaves, Ids
<1> QED BY <1>0, <1>1, <1>2, <1>3 DEF Next, vars, Deliver, Erase, Insert, Fail, Mark, PruneInbox,
                                     StartPrune, AbortPrune

(* No record leaves before its period is over but by the erasure of its    *)
(* owner, or of a user an ownerless record names.                          *)
THEOREM LawfulDepartures == Spec => RecordsLeaveLawfully
<1>1. TypeOK /\ Feed /\ [Next]_vars => [Lawful]_vars
  BY LawfulStep
<1>2. Spec => [][Lawful]_vars
  BY <1>1, FeedInvariant, TypeCorrect, PTL DEF Spec
<1> QED BY <1>2 DEF RecordsLeaveLawfully, Lawful

(* The erasure of a user takes every record keyed on them that was in the  *)
(* feed the day before.                                                    *)
Thorough == \A h \in Handler, u \in User : ErasesFor(h, u) =>
              \A r \in records : KeyedOn(r, u) /\ r.age > 0 => Leaves(r)

LEMMA ThoroughStep == TypeOK /\ Feed /\ [Next]_vars => Thorough
<1> SUFFICES ASSUME TypeOK, Feed, [Next]_vars, NEW h \in Handler, NEW u \in User,
                    ErasesFor(h, u), NEW r \in records, KeyedOn(r, u), r.age > 0
             PROVE  Leaves(r)
  BY DEF Thorough
<1> DEFINE e == tx[h].of
<1>1. Commit(h) /\ Open(h) /\ IsErasure(e) /\ Owner(e) = u
  BY OnlyCommitsErase DEF ErasesFor, Committing
<1>2. ErasedBy(r, Owner(e))
  BY <1>1, NoUserIsNobody DEF KeyedOn, ErasedBy
<1>3. Pending(h)
  BY <1>1 DEF Feed
<1>4. tx[h].adds = {} /\ r \in tx[h].drops
  BY <1>1, <1>2, <1>3 DEF Pending, Commit
<1>5. records' = records \ tx[h].drops
  BY <1>1, <1>4 DEF Commit
<1>6. \A s \in records' : s.id # r.id
  BY <1>4, <1>5 DEF Feed, OneRecordPerSource
<1> QED BY <1>6 DEF Leaves, Ids

(* An erasure misses no record keyed on its user that it could have seen.  *)
THEOREM ThoroughErasure == Spec => ErasureReaches
<1>1. TypeOK /\ Feed /\ [Next]_vars => [Thorough]_vars
  BY ThoroughStep
<1>2. Spec => [][Thorough]_vars
  BY <1>1, FeedInvariant, TypeCorrect, PTL DEF Spec
<1> QED BY <1>2 DEF ErasureReaches, Thorough
(***************************************************************************)
(* Refinement of SinkContract, as long as relays give up before the inbox  *)
(* forgets.  The invariant: a row, and an insert that found its id taken,  *)
(* go back to an event that had its effect; rows about to be erased are    *)
(* there, and about to be erased by one transaction.                       *)
(***************************************************************************)

WasHandled(i) == \E e \in Taken : ~IsErasure(e) /\ e.id = i
Traced ==
  /\ \A r \in records : WasHandled(r.id)
  /\ \A h \in Handler : Open(h) /\ tx[h].phase = "written" /\ ~IsErasure(tx[h].of)
       /\ tx[h].adds = {} => WasHandled(tx[h].of.id)
Owned ==
  /\ \A h \in Handler : Open(h) => tx[h].drops \subseteq records
  /\ \A g, h \in Handler : Open(g) /\ Open(h) /\ g # h => tx[g].drops \cap tx[h].drops = {}

(* Nothing is handled but by a commit, and what was handled stays so.      *)
LEMMA TakenStays ==
  ASSUME TypeOK, [Next]_vars, \A h \in Handler : ~Commit(h)
  PROVE  Taken' = Taken
BY DEF Next, vars, Deliver, Erase, Insert, Fail, Mark, DayPasses, PruneInbox, StartPrune,
       PruneBatch, AbortPrune, Taken

LEMMA CommitTakes ==
  ASSUME TypeOK, NEW h \in Handler, Commit(h)
  PROVE  Taken' = Taken \cup {tx[h].of}
<1> DEFINE e == tx[h].of
<1>1. e \in Envelope /\ handled' = [handled EXCEPT ![e] = handled[e] + 1]
  BY OpenTxsAreTyped DEF Commit
<1>2. handled[e] \in Nat /\ handled'[e] > 0 /\ \A f \in Envelope \ {e} : handled'[f] = handled[f]
  BY <1>1 DEF TypeOK
<1> QED BY <1>1, <1>2 DEF Taken

LEMMA TracedStep == TypeOK /\ Feed /\ Traced /\ [Next]_vars => Traced'
<1> SUFFICES ASSUME TypeOK, Feed, Traced, [Next]_vars PROVE Traced'
  OBVIOUS
<1>0. \A i : WasHandled(i) => WasHandled(i)'
  <2>1. Taken \subseteq Taken'
    BY TakenStays, CommitTakes
  <2> QED BY <2>1 DEF WasHandled
<1>1. ASSUME NEW h \in Handler, NEW e \in Envelope, Deliver(h, e) PROVE Traced'
  <2>1. records' = records /\ (tx' = tx \/ tx' = [tx EXCEPT ![h] = Claimed(e)])
    BY <1>1 DEF Deliver
  <2> QED BY <1>0, <2>1, ClaimsAreTyped DEF Traced, TypeOK, Open
<1>2. ASSUME NEW h \in Handler, Erase(h) PROVE Traced'
  <2>1. records' = records /\ IsErasure(tx[h].of) /\ tx'[h].of = tx[h].of
        /\ \A g \in Handler \ {h} : tx'[g] = tx[g]
    BY <1>2, EraseWrites DEF Erase
  <2> QED BY <1>0, <2>1 DEF Traced, Open
<1>3. ASSUME NEW h \in Handler, Insert(h) PROVE Traced'
  <2>1. records' = records /\ tx'[h].of = tx[h].of /\ tx'[h].adds = Inserted(tx[h].of)
        /\ \A g \in Handler \ {h} : tx'[g] = tx[g]
    BY <1>3, InsertWrites DEF Insert
  <2>2. tx'[h].adds = {} => WasHandled(tx[h].of.id)
    BY <2>1 DEF Inserted, Traced, Ids
  <2> QED BY <1>0, <2>1, <2>2 DEF Traced, Open
<1>4. ASSUME NEW h \in Handler, Commit(h) PROVE Traced'
  <2> DEFINE e == tx[h].of
  <2>1. /\ Open(h) /\ e \in Envelope
        /\ records' = (records \ tx[h].drops) \cup tx[h].adds
        /\ \A g \in Handler \ {h} : tx'[g] = tx[g]
        /\ ~Open(h)'
    BY <1>4, OpenTxsAreTyped DEF Commit, TypeOK, Open
  <2>2. \A r \in tx[h].adds : r.id = e.id /\ ~IsErasure(e)
    BY <2>1, RecordsAreTyped DEF Feed, Pending
  <2>3. \A r \in tx[h].adds : WasHandled(r.id)'
    BY <1>4, <2>2, CommitTakes DEF WasHandled
  <2> QED BY <1>0, <2>1, <2>3 DEF Traced, Open
<1>5. ASSUME NEW h \in Handler, Fail(h) PROVE Traced'
  <2>1. /\ \A g \in Handler \ {h} : tx'[g] = tx[g]
        /\ ~Open(h)' /\ records' = records
    BY <1>5 DEF Fail, TypeOK, Open
  <2> QED BY <1>0, <2>1 DEF Traced, Open
<1>6. CASE DayPasses
  <2>1. tx' = tx /\ \A r \in records' : \E s \in records : s.id = r.id
    BY <1>6, DaysKeepRecords DEF DayPasses
  <2> QED BY <1>0, <2>1 DEF Traced, Open
<1>7. CASE PruneBatch \/ (\E e \in Envelope : Mark(e)) \/ PruneInbox \/ StartPrune \/ AbortPrune
           \/ UNCHANGED vars
  <2>1. records' \subseteq records /\ tx' = tx
    BY <1>7 DEF PruneBatch, Mark, PruneInbox, StartPrune, AbortPrune, vars
  <2> QED BY <1>0, <2>1 DEF Traced, Open
<1> QED BY <1>1, <1>2, <1>3, <1>4, <1>5, <1>6, <1>7 DEF Next

LEMMA OwnedStep == TypeOK /\ Feed /\ Owned /\ [Next]_vars => Owned'
<1> SUFFICES ASSUME TypeOK, Feed, Owned, [Next]_vars PROVE Owned'
  OBVIOUS
<1>1. ASSUME NEW h \in Handler, NEW e \in Envelope, Deliver(h, e) PROVE Owned'
  <2>1. records' = records /\ (tx' = tx \/ tx' = [tx EXCEPT ![h] = Claimed(e)])
    BY <1>1 DEF Deliver
  <2>2. CASE tx' = tx
    BY <2>1, <2>2 DEF Owned, Open
  <2>3. CASE tx' = [tx EXCEPT ![h] = Claimed(e)]
    <3>1. tx'[h].drops = {} /\ \A g \in Handler \ {h} : tx'[g] = tx[g]
      BY <2>3, ClaimsAreTyped DEF TypeOK
    <3> QED BY <2>1, <3>1 DEF Owned, Open
  <2> QED BY <2>1, <2>2, <2>3
<1>2. ASSUME NEW h \in Handler, Erase(h) PROVE Owned'
  <2>1. /\ records' = records /\ tx'[h].drops = Doomed(h) /\ Doomed(h) \cap Locked(h) = {}
        /\ \A g \in Handler \ {h} : tx'[g] = tx[g]
    BY <1>2, EraseWrites DEF Erase, Doomed
  <2>2. Doomed(h) \subseteq records
    BY DEF Doomed
  <2>3. \A g \in Handler \ {h} : Open(g) => tx[g].drops \cap Doomed(h) = {}
    BY <2>1 DEF Locked
  <2> QED BY <2>1, <2>2, <2>3 DEF Owned, Open
<1>3. ASSUME NEW h \in Handler, Insert(h) PROVE Owned'
  <2>1. records' = records /\ Open(h) /\ tx'[h].drops = tx[h].drops
        /\ \A g \in Handler \ {h} : tx'[g] = tx[g]
    BY <1>3, InsertWrites DEF Insert
  <2> QED BY <2>1 DEF Owned, Open
<1>4. ASSUME NEW h \in Handler, Commit(h) \/ Fail(h) PROVE Owned'
  <2>1. /\ Open(h) /\ ~Open(h)' /\ records \ tx[h].drops \subseteq records'
        /\ \A g \in Handler \ {h} : tx'[g] = tx[g]
    BY <1>4 DEF Commit, Fail, TypeOK, Open
  <2> QED BY <2>1 DEF Owned, Open
<1>5. CASE DayPasses
  BY <1>5 DEF DayPasses, Owned, Open
<1>6. CASE PruneBatch
  <2>1. PICK batch : /\ \A h \in Handler : Open(h) => batch \cap tx[h].drops = {}
                     /\ records' = records \ batch
    BY <1>6 DEF PruneBatch
  <2>2. tx' = tx
    BY <1>6 DEF PruneBatch
  <2> QED BY <2>1, <2>2 DEF Owned, Open
<1>7. CASE (\E e \in Envelope : Mark(e)) \/ PruneInbox \/ StartPrune \/ AbortPrune \/ UNCHANGED vars
  <2>1. records' = records /\ tx' = tx
    BY <1>7 DEF Mark, PruneInbox, StartPrune, AbortPrune, vars
  <2> QED BY <2>1 DEF Owned, Open
<1> QED BY <1>1, <1>2, <1>3, <1>4, <1>5, <1>6, <1>7 DEF Next
(* Rows without their days.                                                *)
LEMMA UndatedIsTyped ==
  ASSUME NEW r \in Record
  PROVE  /\ Undate(r).id = r.id
         /\ \A u : ErasedBy(Undate(r), u) <=> ErasedBy(r, u)
         /\ r.age = 0 => Undate(r) = r
         /\ Undate(AgedOf(r)) = Undate(r)
<1>1. /\ Undate(r).id = r.id /\ Undate(r).owner = r.owner /\ Undate(r).key = r.key
      /\ Undate(r).payload = r.payload
  BY DEF Undate, Record
<1>2. r.age = 0 => Undate(r) = r
  BY DEF Undate, Record
<1>3. Undate(AgedOf(r)) = Undate(r)
  BY DEF Undate, AgedOf, Record
<1> QED BY <1>1, <1>2, <1>3 DEF ErasedBy

LEMMA UndatedWithout ==
  ASSUME NEW S \in SUBSET Record, \A r, s \in S : r.id = s.id => r = s, NEW T \in SUBSET S
  PROVE  Undated(S \ T) = Undated(S) \ Undated(T)
<1>1. \A r \in S, s \in S : Undate(r) = Undate(s) => r = s
  BY UndatedIsTyped
<1> QED BY <1>1 DEF Undated

(* The erasures that have found their rows.                                *)
LEMMA FoundStays ==
  ASSUME \A h \in Handler : h \in Erasing' <=> h \in Erasing,
         \A h \in Erasing : tx'[h] = tx[h]
  PROVE  Found' = Found
BY DEF Found, FoundBy, Erasing

LEMMA FoundLeaves ==
  ASSUME Once, NEW h \in Erasing, ~Open(h)', \A g \in Handler \ {h} : tx'[g] = tx[g]
  PROVE  Found' = Found \ {FoundBy(h)}
<1>1. Erasing' = Erasing \ {h}
  BY DEF Erasing, Open
<1>2. \A g \in Erasing \ {h} : FoundBy(g)' = FoundBy(g) /\ FoundBy(g) # FoundBy(h)
  BY DEF Erasing, FoundBy, Once, OneOpenEach
<1> QED BY <1>1, <1>2 DEF Found

LEMMA FoundGrows ==
  ASSUME NEW h \in Handler \ Erasing, h \in Erasing', \A g \in Handler \ {h} : tx'[g] = tx[g]
  PROVE  Found' = Found \cup {FoundBy(h)'}
<1>1. Erasing' = Erasing \cup {h}
  BY DEF Erasing, Open
<1>2. \A g \in Erasing : FoundBy(g)' = FoundBy(g)
  BY DEF Erasing, FoundBy
<1> QED BY <1>1, <1>2 DEF Found

LEMMA SinkStep ==
  ASSUME Horizon <= InboxDays, TypeOK, Once, Dated, Feed, Traced, Owned, [Next]_vars
  PROVE  Sink!Next \/ UNCHANGED Sink!vars
<1>0. records \subseteq Record
  BY DEF TypeOK
<1>1. ASSUME NEW h \in Handler, NEW e \in Envelope, Deliver(h, e) PROVE UNCHANGED Sink!vars
  <2>1. Rows' = Rows /\ Taken' = Taken
    BY <1>1 DEF Deliver, Rows, Taken, Undated
  <2>2. ~Open(h) /\ (tx' = tx \/ tx' = [tx EXCEPT ![h] = Claimed(e)])
    BY <1>1 DEF Deliver, MayDeliver
  <2>3. h \notin Erasing' /\ h \notin Erasing
    BY <2>2, ClaimsAreTyped DEF Erasing, TypeOK, Open
  <2>4. \A g \in Handler \ {h} : tx'[g] = tx[g]
    BY <2>2 DEF TypeOK
  <2>5. Found' = Found
    BY <2>3, <2>4, FoundStays DEF Erasing, Open
  <2> QED BY <2>1, <2>5 DEF Sink!vars
<1>2. ASSUME NEW h \in Handler, Erase(h) PROVE Sink!Next
  <2> DEFINE e == tx[h].of
  <2>1. /\ Open(h) /\ e \in Envelope /\ IsErasure(e) /\ tx[h].phase = "claimed"
        /\ UNCHANGED <<records, handled>>
    BY <1>2, OpenTxsAreTyped DEF Erase
  <2>2. /\ tx'[h].phase = "written" /\ tx'[h].of = e /\ tx'[h].drops = Doomed(h)
        /\ \A g \in Handler \ {h} : tx'[g] = tx[g]
    BY <1>2, EraseWrites
  <2>3. Rows' = Rows /\ Taken' = Taken
    BY <2>1 DEF Rows, Taken, Undated
  <2>4. h \notin Erasing /\ h \in Erasing'
    BY <2>1, <2>2 DEF Erasing, Open, NoTx
  <2>5. Undated(Doomed(h)) = {r \in Rows : Reached(r, e)}
    BY <1>0, UndatedIsTyped DEF Undated, Doomed, Rows, Reached
  <2>6. FoundBy(h)' = [of |-> e, rows |-> {r \in Rows : Reached(r, e)}]
    BY <2>2, <2>5 DEF FoundBy, Undated
  <2>7. \A f \in Found : f.of # e
    BY <2>1, <2>4 DEF Found, FoundBy, Erasing, Once, OneOpenEach
  <2>8. e \notin Taken
    BY <2>1, OpenIsFirst DEF Taken
  <2>9. Sink!TakeUp(e)
    BY <2>1, <2>2, <2>3, <2>4, <2>6, <2>7, <2>8, FoundGrows DEF Sink!TakeUp
  <2> QED BY <2>1, <2>9 DEF Sink!Next
<1>3. ASSUME NEW h \in Handler, Insert(h) PROVE UNCHANGED Sink!vars
  <2>1. ~IsErasure(tx[h].of) /\ UNCHANGED <<records, handled>> /\ tx'[h].of = tx[h].of
        /\ \A g \in Handler \ {h} : tx'[g] = tx[g]
    BY <1>3, InsertWrites DEF Insert
  <2>2. Rows' = Rows /\ Taken' = Taken
    BY <2>1 DEF Rows, Taken, Undated
  <2>3. Found' = Found
    BY <2>1, FoundStays DEF Erasing, Open
  <2> QED BY <2>2, <2>3 DEF Sink!vars
<1>4. ASSUME NEW h \in Handler, Commit(h) PROVE Sink!Next
  <2> DEFINE e == tx[h].of
  <2>1. /\ Open(h) /\ e \in Envelope /\ tx[h].phase = "written" /\ Pending(h)
        /\ records' = (records \ tx[h].drops) \cup tx[h].adds
        /\ \A g \in Handler \ {h} : tx'[g] = tx[g]
        /\ ~Open(h)'
    BY <1>4, OpenTxsAreTyped DEF Commit, TypeOK, Open, Feed
  <2>2. e \notin Taken /\ Taken' = Taken \cup {e}
    BY <1>4, <2>1, OpenIsFirst, CommitTakes DEF Taken
  <2>3. CASE IsErasure(e)
    <3>1. tx[h].adds = {} /\ tx[h].drops \subseteq records /\ OneRecordPerSource
      BY <2>1, <2>3 DEF Pending, Owned, Feed
    <3>2. Rows' = Rows \ Undated(tx[h].drops)
      <4>1. records' = records \ tx[h].drops
        BY <2>1, <3>1
      <4> QED BY <1>0, <3>1, <4>1, UndatedWithout DEF Rows, OneRecordPerSource
    <3>3. h \in Erasing /\ FoundBy(h) \in Found
      BY <2>1, <2>3 DEF Erasing, Found
    <3>4. Found' = Found \ {FoundBy(h)}
      BY <2>1, <3>3, FoundLeaves
    <3>5. FoundBy(h).of = e /\ FoundBy(h).rows = Undated(tx[h].drops)
      BY DEF FoundBy
    <3>6. Sink!Erase(FoundBy(h))
      BY <2>2, <3>2, <3>4, <3>5 DEF Sink!Erase
    <3> QED BY <3>3, <3>6 DEF Sink!Next
  <2>4. CASE ~IsErasure(e)
    <3> DEFINE new == tx[h].adds
    <3>1. tx[h].drops = {} /\ new \subseteq {RecordOf(e)} /\ RecordOf(e) \in Record
          /\ RecordOf(e).id = e.id /\ RecordOf(e).age = 0
      BY <2>1, <2>4, RecordsAreTyped DEF Pending
    <3>2. Rows' = Rows \cup new
      <4>1. Undated(new) = new
        BY <3>1, UndatedIsTyped DEF Undated
      <4>2. records' = records \cup new
        BY <2>1, <3>1
      <4> QED BY <4>1, <4>2 DEF Rows, Undated
    <3>3. Sink!Slots(new) \cap Sink!Slots(Rows) = {}
      <4>1. new # {} => \A r \in records : r.id # e.id
        BY <2>1 DEF Pending, Ids
      <4>2. \A r \in Rows : \E s \in records : SourceOf(r) = s.id
        BY <1>0, UndatedIsTyped DEF Rows, Undated, SourceOf
      <4>3. \A r \in new : SourceOf(r) = e.id
        BY <3>1 DEF SourceOf
      <4> QED BY <4>1, <4>2, <4>3 DEF Sink!Slots
    <3>4. ASSUME NEW r \in RecordsOf(e) \ new
          PROVE  \E f \in Taken : ~IsErasure(f) /\ SourceOf(r) \in Sink!Slots(RecordsOf(f))
      <4>1. new = {} /\ SourceOf(r) = e.id
        BY <3>1, <3>4 DEF RecordsOf, SourceOf
      <4>2. PICK f \in Taken : ~IsErasure(f) /\ f.id = e.id
        BY <2>1, <2>4, <4>1 DEF Traced, WasHandled
      <4>3. f \in Envelope
        BY DEF Taken
      <4>4. SourceOf(RecordOf(f)) = e.id /\ RecordOf(f) \in RecordsOf(f)
        BY <4>2, <4>3, RecordsAreTyped DEF SourceOf, RecordsOf
      <4> QED BY <4>1, <4>2, <4>4 DEF Sink!Slots
    <3>5. Found' = Found
      BY <2>1, <2>4, FoundStays DEF Erasing, Open
    <3>6. new \in SUBSET RecordsOf(e)
      BY <3>1 DEF RecordsOf
    <3> HIDE DEF new
    <3>7. Sink!Take(e)
      BY <2>2, <2>4, <3>2, <3>3, <3>4, <3>5, <3>6 DEF Sink!Take
    <3> QED BY <2>1, <3>7 DEF Sink!Next
  <2> QED BY <2>3, <2>4
<1>5. ASSUME NEW h \in Handler, Fail(h) PROVE Sink!Next \/ UNCHANGED Sink!vars
  <2>1. /\ \A g \in Handler \ {h} : tx'[g] = tx[g]
        /\ ~Open(h)' /\ UNCHANGED <<records, handled>>
    BY <1>5 DEF Fail, TypeOK, Open
  <2>2. Rows' = Rows /\ Taken' = Taken
    BY <2>1 DEF Rows, Taken, Undated
  <2>3. CASE h \in Erasing
    <3>1. FoundBy(h) \in Found /\ Found' = Found \ {FoundBy(h)}
      BY <2>1, <2>3, FoundLeaves DEF Found
    <3>2. Sink!GiveUp(FoundBy(h))
      BY <2>2, <3>1 DEF Sink!GiveUp
    <3> QED BY <3>1, <3>2 DEF Sink!Next
  <2>4. CASE h \notin Erasing
    <3>1. Found' = Found
      BY <2>1, <2>4, FoundStays DEF Erasing, Open
    <3> QED BY <2>2, <3>1 DEF Sink!vars
  <2> QED BY <2>3, <2>4
<1>6. CASE DayPasses
  <2>1. Rows' = Rows
    <3>1. records' = {AgedOf(r) : r \in records} /\ \A r \in records : Undate(AgedOf(r)) = Undate(r)
      BY <1>0, <1>6, DaysKeepRecords, UndatedIsTyped
    <3> QED BY <3>1 DEF Rows, Undated
  <2>2. tx' = tx /\ Taken' = Taken
    BY <1>6 DEF DayPasses, Taken
  <2>3. Found' = Found
    BY <2>2, FoundStays DEF Erasing, Open
  <2> QED BY <2>1, <2>2, <2>3 DEF Sink!vars
<1>7. CASE PruneBatch
  <2>1. records' \subseteq records /\ tx' = tx /\ Taken' = Taken
    BY <1>7 DEF PruneBatch, Taken
  <2>2. Rows' \subseteq Rows
    BY <2>1 DEF Rows, Undated
  <2>3. Found' = Found
    BY <2>1, FoundStays DEF Erasing, Open
  <2>4. Sink!Lapse
    BY <2>1, <2>2, <2>3 DEF Sink!Lapse
  <2> QED BY <2>4 DEF Sink!Next
<1>8. CASE (\E e \in Envelope : Mark(e)) \/ PruneInbox \/ StartPrune \/ AbortPrune \/ UNCHANGED vars
  <2>1. UNCHANGED <<records, tx, handled>>
    BY <1>8 DEF Mark, PruneInbox, StartPrune, AbortPrune, vars
  <2>2. Found' = Found
    BY <2>1, FoundStays DEF Erasing, Open
  <2> QED BY <2>1, <2>2 DEF Rows, Taken, Undated, Sink!vars
<1> QED BY <1>1, <1>2, <1>3, <1>4, <1>5, <1>6, <1>7, <1>8 DEF Next

(* Whatever transactions, redeliveries, failures, days and prunes do, the  *)
(* feed is a sink where an event takes effect once and in one step.        *)
THEOREM ImplementsSink ==
  ASSUME Horizon <= InboxDays
  PROVE  Spec => RefinesSink
<1>1. Init => Sink!Init
  BY DEF Init, Sink!Init, Taken, Rows, Undated, Found, Erasing, Open
<1>2. Init => Traced /\ Owned
  BY DEF Init, Traced, Owned, Open
<1>3. TypeOK /\ Once /\ Dated /\ Feed /\ Traced /\ Owned /\ [Next]_vars => [Sink!Next]_(Sink!vars)
  BY SinkStep
<1> QED BY <1>1, <1>2, <1>3, TypeCorrect, OnceInvariant, DatedInvariant, FeedInvariant,
           TracedStep, OwnedStep, PTL DEF Spec, RefinesSink, Sink!Spec
=============================================================================
