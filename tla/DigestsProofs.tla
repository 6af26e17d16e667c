--------------------------- MODULE DigestsProofs ---------------------------
(***************************************************************************)
(* Theorems about Digests, for every finite set of items, every set of     *)
(* users and runs and every value of the bounds.                           *)
(***************************************************************************)
EXTENDS Digests, FiniteSetTheorems, TLAPS

(***************************************************************************)
(* Types.                                                                  *)
(***************************************************************************)

(* Records of the tables and of the runs, well formed.                     *)
LEMMA RecordsAreTyped ==
  /\ New \in ItemState
  /\ Absent \in DigestRow
  /\ Idle \in Run
  /\ NotErasing \in Erasure
BY BoundsTyped DEF NotErasing, Erasure, New, ItemState, ItemPhase, Window, Absent, DigestRow, Idle, Run

LEMMA TypeStep == TypeOK /\ [Next]_vars => TypeOK'
<1> SUFFICES ASSUME TypeOK, [Next]_vars PROVE TypeOK'
  OBVIOUS
<1> USE DEF TypeOK
<1>1. ASSUME NEW i \in Item, Route(i) PROVE TypeOK'
  <2>1. now + 1 \in Window
    BY <1>1, BoundsTyped DEF Route, NextWindow, Window
  <2>2. [items[i] EXCEPT !.phase = "routed", !.window = now + 1] \in ItemState
    BY <2>1 DEF ItemState, ItemPhase
  <2> QED BY <1>1, <2>2 DEF Route, NextWindow
<1>2. ASSUME NEW i \in Item, Join(i) PROVE TypeOK'
  <2>1. PICK d \in Item : items' = [items EXCEPT ![i].phase = "joined", ![i].digest = d]
    BY <1>2 DEF Join, Rows
  <2>2. [items[i] EXCEPT !.phase = "joined", !.digest = d] \in ItemState
    <3>1. d # None
      BY NoneIsNoItem
    <3>2. items[i] \in [phase : ItemPhase, window : Window, digest : Item \cup {None}]
      BY DEF ItemState
    <3> QED BY <3>1, <3>2 DEF ItemState, ItemPhase
  <2> QED BY <1>2, <2>1, <2>2 DEF Join
<1>3. ASSUME NEW i \in Item, Commit(i) PROVE TypeOK'
  <2>1. [items[i] EXCEPT !.phase = "batched"] \in ItemState
    BY <1>3 DEF ItemState, ItemPhase, Commit
  <2>2. [state |-> "open", window |-> items[i].window] \in DigestRow
    BY DEF ItemState, DigestRow
  <2>3. items' \in [Item -> ItemState]
    BY <1>3, <2>1 DEF Commit
  <2>4. digests' \in [Item -> DigestRow]
    BY <1>3, <2>2 DEF Commit
  <2> QED BY <1>3, <2>3, <2>4 DEF Commit
<1>4. ASSUME NEW i \in Item, Fail(i) PROVE TypeOK'
  BY <1>4, RecordsAreTyped, BoundsTyped DEF Fail
<1>5. CASE Tick
  <2>1. now + 1 \in Window
    BY <1>5, BoundsTyped DEF Tick, Window
  <2>2. IsFiniteSet(Outlived)
    BY ItemsFinite, FS_Subset DEF Outlived
  <2>3. Cardinality(Outlived) \in Nat
    BY <2>2, FS_CardinalityType
  <2>4. late' \in 0 .. MaxLate
    BY <1>5, <2>3, BoundsTyped DEF Tick
  <2> QED BY <1>5, <2>1, <2>4 DEF Tick
<1>6. ASSUME NEW f \in Flusher, FindDue(f) PROVE TypeOK'
  <2>1. PICK found \in SUBSET Due : flush' = [flush EXCEPT ![f].todo = found]
    BY <1>6 DEF FindDue
  <2>2. [flush[f] EXCEPT !.todo = found] \in Run
    BY DEF Run, Due
  <2> QED BY <1>6, <2>1, <2>2 DEF FindDue
<1>7. ASSUME NEW f \in Flusher, ReadItems(f) PROVE TypeOK'
  <2>1. PICK d \in flush[f].todo :
          flush' = [flush EXCEPT ![f].todo = @ \ {d},
                                 ![f].due = @ \cup {[digest |-> d, items |-> Entries(d)]}]
    BY <1>7 DEF ReadItems
  <2>2. [digest |-> d, items |-> Entries(d)] \in Summary
    BY DEF Run, Summary, Entries
  <2> DEFINE read == [digest |-> d, items |-> Entries(d)]
  <2> HIDE DEF read
  <2>3. [flush[f] EXCEPT !.todo = @ \ {d}, !.due = @ \cup {read}] \in Run
    BY <2>2 DEF Run, read
  <2> QED BY <1>7, <2>1, <2>3 DEF ReadItems, read
<1>8. ASSUME NEW f \in Flusher, Summarise(f) PROVE TypeOK'
  <2>1. PICK s \in flush[f].due :
          /\ flush' = [flush EXCEPT ![f].due = @ \ {s}, ![f].marking = s.digest]
          /\ IF s.items = {} \/ IsSummarised(s.digest)
             THEN UNCHANGED <<summaries, told>>
             ELSE /\ summaries' = [summaries EXCEPT ![s.digest] = Append(@, s.items)]
                  /\ told' = told \cup s.items
    BY <1>8 DEF Summarise
  <2>2. s.digest \in Item /\ s.items \subseteq Item
    BY DEF Run, Summary
  <2>3. [flush[f] EXCEPT !.due = @ \ {s}, !.marking = s.digest] \in Run
    BY <2>2 DEF Run
  <2>4. flush' \in [Flusher -> Run]
    BY <2>1, <2>3
  <2>5. summaries' \in [Item -> Seq(SUBSET Item)]
    <3>1. Append(summaries[s.digest], s.items) \in Seq(SUBSET Item)
      BY <2>2
    <3> QED BY <2>1, <3>1
  <2> QED BY <1>8, <2>1, <2>2, <2>4, <2>5 DEF Summarise
<1>9. ASSUME NEW f \in Flusher, Mark(f) PROVE TypeOK'
  <2>1. [flush[f] EXCEPT !.marking = None] \in Run
    BY DEF Run
  <2>2. \A d \in Item : [digests[d] EXCEPT !.state = "flushed"] \in DigestRow
    BY DEF DigestRow
  <2>3. flush' \in [Flusher -> Run]
    BY <1>9, <2>1 DEF Mark
  <2>4. digests' \in [Item -> DigestRow]
    BY <1>9, <2>2 DEF Mark, Run
  <2> QED BY <1>9, <2>3, <2>4 DEF Mark
<1>10. ASSUME NEW f \in Flusher, CutShort(f) PROVE TypeOK'
  BY <1>10, RecordsAreTyped, BoundsTyped DEF CutShort
<1>11. ASSUME NEW u \in User, EraseItems(u) PROVE TypeOK'
  <2> DEFINE gone == {i \in Item : UserOf[i] = u /\ items[i].phase = "batched"}
             told_ == {d \in Item : UserOf[d] = u /\ IsSummarised(d)}
             e == [on |-> TRUE, items |-> gone, summaries |-> told_]
  <2>1. e \in Erasure
    BY DEF Erasure
  <2>2. erasing' = [erasing EXCEPT ![u] = e]
    BY <1>11 DEF EraseItems
  <2> HIDE DEF e
  <2>3. erasing' \in [User -> Erasure]
    BY <2>1, <2>2
  <2>4. erasures' \in 0 .. MaxErasures
    BY <1>11, BoundsTyped DEF EraseItems
  <2> QED BY <1>11, <2>3, <2>4 DEF EraseItems
<1>12. ASSUME NEW u \in User, EraseDigests(u) PROVE TypeOK'
  <2>1. \A i \in Item, p \in {"erased", "stranded"} : [items[i] EXCEPT !.phase = p] \in ItemState
    BY DEF ItemState, ItemPhase
  <2>2. items' \in [Item -> ItemState]
    BY <1>12, <2>1 DEF EraseDigests
  <2>3. digests' \in [Item -> DigestRow]
    BY <1>12, RecordsAreTyped DEF EraseDigests
  <2>4. summaries' \in [Item -> Seq(SUBSET Item)]
    <3>1. << >> \in Seq(SUBSET Item)
      OBVIOUS
    <3> QED BY <1>12, <3>1 DEF EraseDigests
  <2>5. erasing' \in [User -> Erasure]
    BY <1>12, RecordsAreTyped DEF EraseDigests
  <2> QED BY <1>12, <2>2, <2>3, <2>4, <2>5 DEF EraseDigests
<1>13. ASSUME NEW u \in User, AbortErasure(u) PROVE TypeOK'
  BY <1>13, RecordsAreTyped, BoundsTyped DEF AbortErasure
<1>14. CASE UNCHANGED vars
  BY <1>14 DEF vars
<1> QED BY <1>1, <1>2, <1>3, <1>4, <1>5, <1>6, <1>7, <1>8, <1>9, <1>10, <1>11, <1>12, <1>13,
           <1>14 DEF Next

(* Every reachable state of the digests is well formed.                    *)
THEOREM TypeCorrect == Spec => []TypeOK
<1>1. Init => TypeOK
  <2> SUFFICES ASSUME Init PROVE TypeOK
    OBVIOUS
  <2>1. << >> \in Seq(SUBSET Item)
    OBVIOUS
  <2> QED BY <2>1, RecordsAreTyped, BoundsTyped DEF Init, TypeOK, Window
<1> QED BY <1>1, TypeStep, PTL DEF Spec

(***************************************************************************)
(* One summary for each digest.                                            *)
(***************************************************************************)

LEMMA OneStep == TypeOK /\ OneSummaryEach /\ [Next]_vars => OneSummaryEach'
<1> SUFFICES ASSUME TypeOK, OneSummaryEach, [Next]_vars PROVE OneSummaryEach'
  OBVIOUS
<1> USE DEF OneSummaryEach
<1>1. ASSUME NEW f \in Flusher, Summarise(f) PROVE OneSummaryEach'
  <2>1. PICK s \in flush[f].due :
          IF s.items = {} \/ IsSummarised(s.digest)
          THEN UNCHANGED <<summaries, told>>
          ELSE summaries' = [summaries EXCEPT ![s.digest] = Append(@, s.items)]
    BY <1>1 DEF Summarise
  <2>2. s.digest \in Item /\ s.items \in SUBSET Item
    BY DEF TypeOK, Run, Summary
  <2>3. CASE ~IsSummarised(s.digest) /\ summaries' = [summaries EXCEPT ![s.digest] = Append(@, s.items)]
    <3>1. Len(Append(summaries[s.digest], s.items)) = 1
      BY <2>2, <2>3 DEF IsSummarised, TypeOK
    <3> QED BY <2>3, <3>1 DEF TypeOK
  <2> QED BY <2>1, <2>3
<1>2. ASSUME NEW u \in User, EraseDigests(u) PROVE OneSummaryEach'
  BY <1>2 DEF EraseDigests
<1>3. CASE UNCHANGED summaries
  BY <1>3
<1> QED BY <1>1, <1>2, <1>3
    DEF Next, vars, Route, Join, Commit, Fail, Tick, FindDue, ReadItems, Mark, CutShort,
        EraseItems, AbortErasure

(* A flush that is retried, or run twice at once, writes no second summary *)
(* of a digest (src/src/notify/pipeline.ts, flushDueDigests).              *)
THEOREM SummarisedOnce == Spec => []OneSummaryEach
<1>1. Init => OneSummaryEach
  BY DEF Init, OneSummaryEach
<1> QED BY <1>1, OneStep, TypeCorrect, PTL DEF Spec

(***************************************************************************)
(* No user is told early.  The item that created a digest has its window,  *)
(* so that a digest is past its window exactly when that item is.          *)
(***************************************************************************)

Past(i) == items[i].phase \in {"batched", "erased", "stranded"} /\ items[i].window <= now

(* The digests that a run has found, or has dealt with.                    *)
InHand(f, d) ==
  d \in flush[f].todo \/ flush[f].marking = d \/ \E s \in flush[f].due : s.digest = d
Taken(d) ==
  digests[d].state = "flushed" \/ IsSummarised(d) \/ \E f \in Flusher : InHand(f, d)

RowsFit ==
  \A d \in Item :
    digests[d].state # "absent" =>
      items[d].phase = "batched" /\ digests[d].window = items[d].window

JoinsFit ==
  \A i, d \in Item :
    items[i].phase \in {"joined", "batched"} /\ items[i].digest = d =>
      \/ items[i].phase = "joined" /\ d = i /\ digests[d].state = "absent"
      \/ /\ digests[d].state # "absent"
         /\ digests[d].window = items[i].window
         /\ UserOf[d] = UserOf[i]

TakenIsPast == \A d \in Item : Taken(d) => Past(d)
ReadIsPast == \A f \in Flusher : \A s \in flush[f].due : \A i \in s.items : Past(i)

Timely == RowsFit /\ JoinsFit /\ TakenIsPast /\ ReadIsPast

(* What is past stays past.                                                *)
LEMMA PastStays ==
  ASSUME TypeOK, [Next]_vars, NEW i \in Item, Past(i)
  PROVE  Past(i)'
<1> USE DEF Past
<1>0. now \in Int /\ items[i].window \in Int
  BY DEF TypeOK, ItemState, Window
<1>1. ASSUME NEW j \in Item, Route(j) PROVE Past(i)'
  BY <1>1 DEF Route, TypeOK
<1>2. ASSUME NEW j \in Item, Join(j) PROVE Past(i)'
  BY <1>2 DEF Join, TypeOK
<1>3. ASSUME NEW j \in Item, Commit(j) PROVE Past(i)'
  BY <1>3 DEF Commit, TypeOK
<1>4. ASSUME NEW j \in Item, Fail(j) PROVE Past(i)'
  BY <1>4 DEF Fail, TypeOK
<1>5. CASE Tick
  BY <1>0, <1>5 DEF Tick
<1>6. ASSUME NEW u \in User, EraseDigests(u) PROVE Past(i)'
  <2>1. \/ items'[i] = items[i]
        \/ \E p \in {"erased", "stranded"} : items'[i] = [items[i] EXCEPT !.phase = p]
    BY <1>6 DEF EraseDigests
  <2>2. items'[i].window = items[i].window
    BY <2>1 DEF TypeOK, ItemState
  <2>3. items'[i].phase \in {"batched", "erased", "stranded"}
    BY <2>1 DEF TypeOK, ItemState
  <2> QED BY <1>6, <2>2, <2>3 DEF EraseDigests
<1>7. CASE UNCHANGED <<now, items>>
  BY <1>7
<1> QED BY <1>1, <1>2, <1>3, <1>4, <1>5, <1>6, <1>7
    DEF Next, vars, FindDue, ReadItems, Summarise, Mark, CutShort,
        EraseItems, AbortErasure

(* A run takes a digest in hand by finding it due, and in no other way.    *)
LEMMA TakenOrDue ==
  ASSUME TypeOK, [Next]_vars, NEW d \in Item, Taken(d)'
  PROVE  Taken(d) \/ d \in Due
<1> USE DEF Taken, InHand, IsSummarised
<1>1. ASSUME NEW f \in Flusher, FindDue(f) PROVE Taken(d) \/ d \in Due
  <2>1. PICK found \in SUBSET Due : flush' = [flush EXCEPT ![f].todo = found]
    BY <1>1 DEF FindDue
  <2>2. \A g \in Flusher : InHand(g, d)' => InHand(g, d) \/ d \in Due
    BY <2>1 DEF TypeOK, Run
  <2> QED BY <1>1, <2>2 DEF FindDue
<1>2. ASSUME NEW f \in Flusher, ReadItems(f) PROVE Taken(d)
  <2>1. PICK e \in flush[f].todo :
          flush' = [flush EXCEPT ![f].todo = @ \ {e},
                                 ![f].due = @ \cup {[digest |-> e, items |-> Entries(e)]}]
    BY <1>2 DEF ReadItems
  <2> DEFINE read == [digest |-> e, items |-> Entries(e)]
  <2>2. read.digest = e
    OBVIOUS
  <2>3. \A g \in Flusher : InHand(g, d)' => InHand(g, d)
    BY <2>1, <2>2 DEF TypeOK, Run
  <2> QED BY <1>2, <2>3 DEF ReadItems
<1>3. ASSUME NEW f \in Flusher, Summarise(f) PROVE Taken(d)
  <2>1. PICK s \in flush[f].due :
          /\ flush' = [flush EXCEPT ![f].due = @ \ {s}, ![f].marking = s.digest]
          /\ \/ summaries' = summaries
             \/ summaries' = [summaries EXCEPT ![s.digest] = Append(@, s.items)]
    BY <1>3 DEF Summarise
  <2>2. \A g \in Flusher : InHand(g, d)' => InHand(g, d)
    BY <2>1 DEF TypeOK, Run
  <2>3. IsSummarised(d)' => IsSummarised(d) \/ d = s.digest
    BY <2>1 DEF TypeOK
  <2> QED BY <1>3, <2>1, <2>2, <2>3 DEF Summarise
<1>4. ASSUME NEW f \in Flusher, Mark(f) PROVE Taken(d)
  <2>1. \A g \in Flusher : InHand(g, d)' => InHand(g, d)
    BY <1>4, NoneIsNoItem DEF TypeOK, Run, Mark
  <2>2. digests'[d].state = "flushed" => digests[d].state = "flushed" \/ flush[f].marking = d
    BY <1>4 DEF TypeOK, Mark
  <2> QED BY <1>4, <2>1, <2>2 DEF Mark
<1>5. ASSUME NEW f \in Flusher, CutShort(f) PROVE Taken(d)
  <2>1. \A g \in Flusher : InHand(g, d)' => InHand(g, d)
    BY <1>5, NoneIsNoItem DEF TypeOK, Run, CutShort, Idle
  <2> QED BY <1>5, <2>1 DEF CutShort
<1>6. ASSUME NEW u \in User, EraseDigests(u) PROVE Taken(d)
  BY <1>6 DEF EraseDigests, Absent
<1>7. ASSUME NEW i \in Item, Commit(i) PROVE Taken(d)
  BY <1>7 DEF Commit, TypeOK
<1>8. CASE UNCHANGED <<digests, flush, summaries>>
  BY <1>8
<1> QED BY <1>1, <1>2, <1>3, <1>4, <1>5, <1>6, <1>7, <1>8
    DEF Next, vars, Route, Join, Fail, Tick,
        EraseItems, AbortErasure

(* The rows and the items agree on windows, and who holds which row.       *)
LEMMA FitStep ==
  ASSUME TypeOK, RowsFit, JoinsFit, [Next]_vars
  PROVE  RowsFit' /\ JoinsFit'
<1> USE DEF RowsFit, JoinsFit
<1>1. ASSUME NEW i \in Item, Route(i) PROVE RowsFit' /\ JoinsFit'
  <2>1. /\ items[i].phase = "new" /\ items'[i].phase = "routed"
        /\ \A j \in Item \ {i} : items'[j] = items[j]
    BY <1>1 DEF Route, TypeOK, ItemState
  <2>2. digests' = digests
    BY <1>1 DEF Route
  <2>3. RowsFit'
    BY <2>1, <2>2
  <2>4. JoinsFit'
    BY <2>1, <2>2
  <2> QED BY <2>3, <2>4
<1>2. ASSUME NEW i \in Item, Join(i) PROVE RowsFit' /\ JoinsFit'
  <2>1. PICK d \in Item :
          /\ items' = [items EXCEPT ![i].phase = "joined", ![i].digest = d]
          /\ d \in Rows(i) \/ (d = i /\ Rows(i) = {})
    BY <1>2 DEF Join, Rows
  <2>2. digests' = digests /\ items[i].phase = "routed"
    BY <1>2 DEF Join
  <2>3. d = i => digests[i].state = "absent"
    BY <2>2
  <2>4. d \in Rows(i) => /\ digests[d].state # "absent"
                         /\ digests[d].window = items[i].window
                         /\ UserOf[d] = UserOf[i]
    BY DEF Rows
  <2>5. /\ items'[i].phase = "joined" /\ items'[i].digest = d
        /\ items'[i].window = items[i].window
        /\ \A j \in Item \ {i} : items'[j] = items[j]
    BY <2>1 DEF TypeOK, ItemState
  <2>6. RowsFit'
    BY <2>2, <2>5
  <2>7. JoinsFit'
    <3> SUFFICES ASSUME NEW j \in Item, NEW e \in Item,
                        items'[j].phase \in {"joined", "batched"}, items'[j].digest = e
                 PROVE  \/ items'[j].phase = "joined" /\ e = j /\ digests'[e].state = "absent"
                        \/ /\ digests'[e].state # "absent"
                           /\ digests'[e].window = items'[j].window
                           /\ UserOf[e] = UserOf[j]
      OBVIOUS
    <3>1. CASE j = i
      <4>1. e = d
        BY <2>5, <3>1
      <4> QED BY <2>1, <2>2, <2>3, <2>4, <2>5, <3>1, <4>1
    <3>2. CASE j # i
      BY <2>2, <2>5, <3>2
    <3> QED BY <3>1, <3>2
  <2> QED BY <2>6, <2>7
<1>3. ASSUME NEW i \in Item, Commit(i) PROVE RowsFit' /\ JoinsFit'
  <2>1. /\ items[i].phase = "joined" /\ items'[i].phase = "batched"
        /\ items'[i].digest = items[i].digest /\ items'[i].window = items[i].window
        /\ \A j \in Item \ {i} : items'[j] = items[j]
    BY <1>3 DEF Commit, TypeOK, ItemState
  <2>2. \A d \in Item \ {i} : digests'[d] = digests[d]
    BY <1>3 DEF Commit, TypeOK
  <2>3. CASE items[i].digest = i
    <3>1. digests'[i].state = "open" /\ digests'[i].window = items[i].window
      BY <1>3, <2>3 DEF Commit, TypeOK
    <3>2. digests[i].state = "absent"
      BY <2>1
    <3>3. RowsFit'
      BY <2>1, <2>2, <3>1
    <3>4. JoinsFit'
      BY <2>1, <2>2, <2>3, <3>1, <3>2
    <3> QED BY <3>3, <3>4
  <2>4. CASE items[i].digest # i
    <3>1. digests' = digests
      BY <1>3, <2>4 DEF Commit
    <3>2. RowsFit'
      BY <2>1, <3>1
    <3>3. ASSUME NEW d \in Item, items[i].digest = d
          PROVE  /\ digests[d].state # "absent"
                 /\ digests[d].window = items[i].window
                 /\ UserOf[d] = UserOf[i]
      BY <2>1, <2>4, <3>3
    <3>4. JoinsFit'
      BY <2>1, <3>1, <3>3
    <3> QED BY <3>2, <3>4
  <2> QED BY <2>3, <2>4
<1>4. ASSUME NEW i \in Item, Fail(i) PROVE RowsFit' /\ JoinsFit'
  BY <1>4 DEF Fail, TypeOK, New
<1>5. ASSUME NEW f \in Flusher, Mark(f) PROVE RowsFit' /\ JoinsFit'
  <2>1. \A d \in Item : /\ digests'[d].window = digests[d].window
                        /\ digests'[d].state = "absent" <=> digests[d].state = "absent"
    <3> SUFFICES ASSUME NEW d \in Item
                 PROVE  /\ digests'[d].window = digests[d].window
                        /\ digests'[d].state = "absent" <=> digests[d].state = "absent"
      OBVIOUS
    <3>1. CASE digests' = digests
      BY <3>1
    <3>2. CASE /\ digests[flush[f].marking].state # "absent"
               /\ digests' = [digests EXCEPT ![flush[f].marking].state = "flushed"]
      <4>1. CASE d = flush[f].marking
        BY <3>2, <4>1 DEF TypeOK, DigestRow
      <4>2. CASE d # flush[f].marking
        BY <3>2, <4>2 DEF TypeOK
      <4> QED BY <4>1, <4>2
    <3> QED BY <1>5, <3>1, <3>2 DEF Mark
  <2>2. items' = items
    BY <1>5 DEF Mark
  <2> QED BY <2>1, <2>2
<1>6. ASSUME NEW u \in User, EraseDigests(u) PROVE RowsFit' /\ JoinsFit'
  <2>1. \A i \in Item : /\ items'[i].window = items[i].window
                        /\ items'[i].digest = items[i].digest
                        /\ UserOf[i] = u /\ items[i].phase = "batched" => items'[i].phase \in {"erased", "stranded"}
                        /\ ~(UserOf[i] = u /\ items[i].phase = "batched") => items'[i] = items[i]
    BY <1>6 DEF EraseDigests, TypeOK, ItemState
  <2>2. \A d \in Item : IF UserOf[d] = u THEN digests'[d].state = "absent" ELSE digests'[d] = digests[d]
    BY <1>6 DEF EraseDigests, Absent
  <2>3. \A d \in Item : UserOf[d] = u /\ digests[d].state # "absent" => ~Locked(d)
    BY <1>6 DEF EraseDigests
  <2>4. RowsFit'
    BY <2>1, <2>2
  <2>5. JoinsFit'
    <3> SUFFICES ASSUME NEW i \in Item, NEW d \in Item,
                        items'[i].phase \in {"joined", "batched"}, items'[i].digest = d
                 PROVE  \/ items'[i].phase = "joined" /\ d = i /\ digests'[d].state = "absent"
                        \/ /\ digests'[d].state # "absent"
                           /\ digests'[d].window = items'[i].window
                           /\ UserOf[d] = UserOf[i]
      OBVIOUS
    <3>1. items'[i] = items[i] /\ items[i].digest = d
      BY <2>1
    <3>2. CASE items[i].phase = "joined" /\ d = i /\ digests[d].state = "absent"
      BY <2>2, <3>1, <3>2
    <3>3. CASE /\ digests[d].state # "absent"
               /\ digests[d].window = items[i].window
               /\ UserOf[d] = UserOf[i]
      <4>1. UserOf[d] # u
        <5>1. CASE items[i].phase = "joined"
          BY <2>3, <3>1, <3>3, <5>1 DEF Locked, Holds
        <5>2. CASE items[i].phase = "batched"
          BY <2>1, <3>1, <3>3, <5>2
        <5> QED BY <3>1, <5>1, <5>2
      <4> QED BY <2>2, <3>1, <3>3, <4>1
    <3> QED BY <3>1, <3>2, <3>3
  <2> QED BY <2>4, <2>5
<1>7. CASE UNCHANGED <<items, digests>>
  BY <1>7
<1> QED BY <1>1, <1>2, <1>3, <1>4, <1>5, <1>6, <1>7
    DEF Next, vars, Tick, FindDue, ReadItems, Summarise, CutShort,
        EraseItems, AbortErasure

(* What a run holds of a digest that it did not hold before, it reads now. *)
LEMMA ReadNow ==
  ASSUME TypeOK, [Next]_vars, NEW f \in Flusher, NEW s \in flush'[f].due, s \notin flush[f].due
  PROVE  \E d \in flush[f].todo : s = [digest |-> d, items |-> Entries(d)]
<1>1. ASSUME NEW g \in Flusher, ReadItems(g)
      PROVE  \E d \in flush[f].todo : s = [digest |-> d, items |-> Entries(d)]
  <2>1. PICK e \in flush[g].todo :
          flush' = [flush EXCEPT ![g].todo = @ \ {e},
                                 ![g].due = @ \cup {[digest |-> e, items |-> Entries(e)]}]
    BY <1>1 DEF ReadItems
  <2> DEFINE read == [digest |-> e, items |-> Entries(e)]
  <2> HIDE DEF read
  <2>2. flush' = [flush EXCEPT ![g].todo = @ \ {e}, ![g].due = @ \cup {read}]
    BY <2>1 DEF read
  <2>3. f = g
    BY <2>2 DEF TypeOK
  <2>4. flush'[f].due = flush[f].due \cup {read}
    BY <2>2, <2>3 DEF TypeOK, Run
  <2>5. s = read
    BY <2>4
  <2> QED BY <2>3, <2>5 DEF read
<1>2. ASSUME NEW g \in Flusher, FindDue(g) \/ Mark(g) PROVE FALSE
  <2>1. flush'[f].due = flush[f].due
    <3>1. CASE FindDue(g)
      BY <3>1 DEF FindDue, TypeOK, Run
    <3>2. CASE Mark(g)
      BY <3>2 DEF Mark, TypeOK, Run
    <3> QED BY <1>2, <3>1, <3>2
  <2> QED BY <2>1
<1>3. ASSUME NEW g \in Flusher, CutShort(g) PROVE FALSE
  BY <1>3 DEF CutShort, TypeOK, Idle
<1>4. ASSUME NEW g \in Flusher, Summarise(g) PROVE FALSE
  BY <1>4 DEF Summarise, TypeOK, Run
<1>5. CASE UNCHANGED flush
  BY <1>5
<1> QED BY <1>1, <1>2, <1>3, <1>4, <1>5
    DEF Next, vars, Route, Join, Commit, Fail, Tick, EraseItems, EraseDigests, AbortErasure

(* What a run has taken is past its window, and so is what it has read.    *)
LEMMA TimelyStep ==
  ASSUME TypeOK, Timely, [Next]_vars
  PROVE  Timely'
<1> USE DEF Timely
<1>1. RowsFit' /\ JoinsFit'
  BY FitStep
<1>2. TakenIsPast'
  <2> SUFFICES ASSUME NEW d \in Item, Taken(d)' PROVE Past(d)'
    BY DEF TakenIsPast
  <2>1. Taken(d) \/ d \in Due
    BY TakenOrDue
  <2>2. d \in Due => Past(d)
    BY DEF Due, RowsFit, Past
  <2>3. Past(d)
    BY <2>1, <2>2 DEF TakenIsPast
  <2> QED BY <2>3, PastStays
<1>3. ReadIsPast'
  <2> SUFFICES ASSUME NEW f \in Flusher, NEW s \in flush'[f].due, NEW i \in s.items
               PROVE  Past(i)'
    BY DEF ReadIsPast, Past
  <2>1. TypeOK'
    BY TypeStep
  <2>2. i \in Item
    BY <2>1 DEF TypeOK, Run, Summary
  <2>3. CASE s \in flush[f].due
    BY <2>2, <2>3, PastStays DEF ReadIsPast
  <2>4. CASE s \notin flush[f].due
    <3>1. PICK d \in flush[f].todo : s = [digest |-> d, items |-> Entries(d)]
      BY <2>4, ReadNow
    <3>2. d \in Item /\ i \in Entries(d)
      BY <3>1 DEF TypeOK, Run
    <3>3. Past(d)
      BY <3>2 DEF Taken, InHand, TakenIsPast
    <3>4. items[d].window = items[i].window
      BY <2>2, <3>2 DEF Entries, JoinsFit, RowsFit
    <3>5. Past(i)
      BY <3>2, <3>3, <3>4 DEF Past, Entries
    <3> QED BY <2>2, <3>5, PastStays
  <2> QED BY <2>3, <2>4
<1> QED BY <1>1, <1>2, <1>3

LEMMA TimelyStart == Init => Timely
<1> SUFFICES ASSUME Init PROVE Timely
  OBVIOUS
<1>1. \A i \in Item : items[i].phase = "new" /\ digests[i].state = "absent" /\ summaries[i] = << >>
  BY DEF Init, New, Absent
<1>2. \A f \in Flusher : flush[f].todo = {} /\ flush[f].due = {} /\ flush[f].marking = None
  BY DEF Init, Idle
<1>3. \A d \in Item : ~Taken(d)
  BY <1>1, <1>2, NoneIsNoItem DEF Taken, InHand, IsSummarised
<1> QED BY <1>1, <1>2, <1>3 DEF Timely, RowsFit, JoinsFit, TakenIsPast, ReadIsPast

(* No user is told of an item before the window they asked for, whatever   *)
(* the runs, the crashes and the erasures (src/src/notify/store.ts,        *)
(* dueDigests).                                                            *)
THEOREM NobodyToldEarly == Spec => WindowIsKept
<1>1. ASSUME TypeOK, Timely, [Next]_vars, NEW i \in told' \ told
      PROVE  items[i].window <= now
  <2>1. ASSUME NEW f \in Flusher, Summarise(f) PROVE items[i].window <= now
    <3>1. \E s \in flush[f].due : i \in s.items
      BY <1>1, <2>1 DEF Summarise
    <3> QED BY <1>1, <3>1 DEF Timely, ReadIsPast, Past
  <2>2. CASE UNCHANGED told
    BY <1>1, <2>2
  <2> QED BY <1>1, <2>1, <2>2
      DEF Next, vars, Route, Join, Commit, Fail, Tick, FindDue, ReadItems, Mark,
          CutShort, EraseItems, EraseDigests, AbortErasure
<1>2. TypeOK /\ Timely /\ [Next]_vars => [\A i \in told' \ told : items[i].window <= now]_vars
  BY <1>1
<1> QED BY <1>2, TimelyStart, TimelyStep, TypeCorrect, PTL DEF Spec, WindowIsKept

(***************************************************************************)
(* Nothing is lost in a flushed digest, if no transaction outlives the     *)
(* window it chose before it joins: then nothing joins what a run has      *)
(* taken, and what the run read is all there will be.                      *)
(***************************************************************************)

InTime == \A i \in Item : items[i].phase = "routed" => items[i].window > now
TakenIsClosed == \A d \in Item : Taken(d) => ~Locked(d)

Dealt(d) ==
  digests[d].state = "flushed" \/ IsSummarised(d) \/ \E f \in Flusher : flush[f].marking = d
DealtIsTold == \A d \in Item : Dealt(d) => Entries(d) \subseteq told
ReadIsAll == \A f \in Flusher : \A s \in flush[f].due : Entries(s.digest) \subseteq s.items

Complete == InTime /\ TakenIsClosed /\ DealtIsTold /\ ReadIsAll

(* Lateness is not forgotten.                                              *)
LEMMA LateStays ==
  ASSUME TypeOK, [Next]_vars, late' = 0
  PROVE  late = 0
<1>1. CASE Tick
  <2>1. late \in Nat /\ IsFiniteSet(Outlived)
    BY BoundsTyped, ItemsFinite, FS_Subset DEF TypeOK, Outlived
  <2>2. Cardinality(Outlived) \in Nat
    BY <2>1, FS_CardinalityType
  <2>3. late + Cardinality(Outlived) = 0
    BY <1>1 DEF Tick
  <2> QED BY <2>1, <2>2, <2>3
<1>2. CASE late' = late
  BY <1>2
<1> QED BY <1>1, <1>2 DEF Next, vars, Route, Join, Commit, Fail, FindDue, ReadItems, Summarise,
           Mark, CutShort, EraseItems, EraseDigests, AbortErasure

LEMMA InTimeStep ==
  ASSUME late = 0, late' = 0, TypeOK, InTime, [Next]_vars
  PROVE  InTime'
<1> SUFFICES ASSUME NEW i \in Item, items'[i].phase = "routed" PROVE items'[i].window > now'
  BY DEF InTime
<1>1. now \in Nat /\ \A j \in Item : items[j].window \in Nat
  BY BoundsTyped DEF TypeOK, ItemState, Window
<1>2. CASE Tick
  <2>1. IsFiniteSet(Outlived)
    BY ItemsFinite, FS_Subset DEF TypeOK, Outlived
  <2>2. Cardinality(Outlived) = 0
    BY <1>2, <2>1, FS_CardinalityType DEF Tick
  <2>3. Outlived = {}
    BY <2>1, <2>2, FS_EmptySet
  <2>4. items[i].phase = "routed" /\ items[i].window > now /\ items[i].window # now + 1
    BY <1>2, <2>3 DEF Tick, Outlived, InTime
  <2> QED BY <1>1, <1>2, <2>4 DEF Tick
<1>3. ASSUME NEW j \in Item, Route(j) PROVE items'[i].window > now'
  <2>1. now' = now /\ items'[j].window = now + 1
    BY <1>3 DEF Route, NextWindow, TypeOK, ItemState
  <2>2. i # j => items'[i] = items[i]
    BY <1>3 DEF Route, TypeOK
  <2> QED BY <1>1, <2>1, <2>2 DEF InTime
<1>4. CASE now' = now /\ items'[i] = items[i]
  BY <1>4 DEF InTime
<1>5. ASSUME NEW j \in Item, Join(j) \/ Commit(j) \/ Fail(j) PROVE now' = now /\ items'[i] = items[i]
  BY <1>5 DEF Join, Commit, Fail, TypeOK, ItemState, New
<1>6. ASSUME NEW u \in User, EraseDigests(u) PROVE now' = now /\ items'[i] = items[i]
  BY <1>6 DEF EraseDigests, TypeOK, ItemState
<1>7. CASE UNCHANGED <<now, items>>
  BY <1>7, <1>4
<1> QED BY <1>2, <1>3, <1>4, <1>5, <1>6, <1>7
    DEF Next, vars, FindDue, ReadItems, Summarise, Mark, CutShort,
        EraseItems, AbortErasure

(* Nothing joins a digest that a run has taken.                            *)
LEMMA ClosedStep ==
  ASSUME TypeOK, Timely, InTime, TakenIsClosed, [Next]_vars, NEW d \in Item, Taken(d)'
  PROVE  ~Locked(d)'
<1>1. Past(d) /\ ~Locked(d)
  <2>1. Taken(d) \/ d \in Due
    BY TakenOrDue
  <2>2. d \in Due => Past(d) /\ ~Locked(d)
    BY DEF Due, Past, Timely, RowsFit
  <2> QED BY <2>1, <2>2 DEF Timely, TakenIsPast, TakenIsClosed
<1>2. ASSUME NEW i \in Item, Holds(i, d)', ~Holds(i, d) PROVE FALSE
  <2>1. items'[i].phase = "joined" /\ items'[i].digest = d
    BY <1>2 DEF Holds
  <2>2. ASSUME NEW j \in Item, Join(j) PROVE FALSE
    <3>1. i = j
      BY <1>2, <2>2 DEF Holds, Join, TypeOK
    <3>2. d \in Rows(i) \/ d = i
      BY <2>1, <2>2, <3>1 DEF Join, Rows, TypeOK, ItemState
    <3>3. items[i].phase = "routed" /\ items[i].window > now
      BY <2>2, <3>1 DEF Join, InTime
    <3>4. d # i
      BY <1>1, <3>3 DEF Past
    <3>5. items[d].window = items[i].window
      BY <3>2, <3>4 DEF Rows, Timely, RowsFit
    <3>6. now \in Int /\ items[d].window \in Int
      BY DEF TypeOK, ItemState, Window
    <3> QED BY <1>1, <3>3, <3>5, <3>6 DEF Past
  <2>3. ASSUME NEW j \in Item, Route(j) \/ Commit(j) \/ Fail(j) PROVE FALSE
    <3>1. items'[j].phase # "joined" /\ (i # j => items'[i] = items[i])
      <4>1. CASE Route(j)
        BY <4>1 DEF Route, TypeOK, ItemState
      <4>2. CASE Commit(j)
        BY <4>2 DEF Commit, TypeOK, ItemState
      <4>3. CASE Fail(j)
        BY <4>3 DEF Fail, TypeOK, New
      <4> QED BY <2>3, <4>1, <4>2, <4>3
    <3> QED BY <1>2, <3>1 DEF Holds
  <2>4. ASSUME NEW u \in User, EraseDigests(u) PROVE FALSE
    BY <1>2, <2>4 DEF Holds, EraseDigests, TypeOK, ItemState
  <2>5. CASE UNCHANGED items
    BY <1>2, <2>5 DEF Holds
  <2> QED BY <2>2, <2>3, <2>4, <2>5
      DEF Next, vars, Tick, FindDue, ReadItems, Summarise, Mark, CutShort,
        EraseItems, AbortErasure
<1> QED BY <1>1, <1>2 DEF Locked

(* So that nothing is added to it.                                         *)
LEMMA EntriesClosed ==
  ASSUME TypeOK, [Next]_vars, NEW d \in Item, ~Locked(d)
  PROVE  Entries(d)' \subseteq Entries(d)
<1> SUFFICES ASSUME NEW i \in Item, items'[i].phase = "batched", items'[i].digest = d
             PROVE  items[i].phase = "batched" /\ items[i].digest = d
  BY DEF Entries
<1>0. ~(items[i].phase = "joined" /\ items[i].digest = d)
  BY DEF Locked, Holds
<1>1. ASSUME NEW j \in Item, Commit(j) PROVE items[i].phase = "batched" /\ items[i].digest = d
  <2>1. i # j
    BY <1>0, <1>1 DEF Commit, TypeOK, ItemState
  <2> QED BY <1>1, <2>1 DEF Commit, TypeOK
<1>2. ASSUME NEW j \in Item, Route(j) \/ Join(j) \/ Fail(j)
      PROVE  items[i].phase = "batched" /\ items[i].digest = d
  <2>1. items'[j].phase # "batched" /\ (i # j => items'[i] = items[i])
    <3>1. CASE Route(j)
      BY <3>1 DEF Route, TypeOK, ItemState
    <3>2. CASE Join(j)
      BY <3>2 DEF Join, TypeOK, ItemState
    <3>3. CASE Fail(j)
      BY <3>3 DEF Fail, TypeOK, New
    <3> QED BY <1>2, <3>1, <3>2, <3>3
  <2> QED BY <2>1
<1>3. ASSUME NEW u \in User, EraseDigests(u) PROVE items[i].phase = "batched" /\ items[i].digest = d
  BY <1>3 DEF EraseDigests, TypeOK, ItemState
<1>4. CASE UNCHANGED items
  BY <1>4
<1> QED BY <1>1, <1>2, <1>3, <1>4
    DEF Next, vars, Tick, FindDue, ReadItems, Summarise, Mark, CutShort,
        EraseItems, AbortErasure

(* What a digest's summary names is all that the digest holds.             *)
LEMMA CompleteStep ==
  ASSUME late = 0, late' = 0, TypeOK, Timely, Complete, [Next]_vars
  PROVE  Complete'
<1> USE DEF Complete
<1>1. InTime'
  BY InTimeStep
<1>2. TakenIsClosed'
  BY ClosedStep DEF TakenIsClosed
<1>3. TypeOK'
  BY TypeStep
<1>4. told \subseteq told'
  BY DEF Next, vars, Route, Join, Commit, Fail, Tick, FindDue, ReadItems, Summarise, Mark,
         CutShort, EraseItems, EraseDigests, AbortErasure
<1>5. ASSUME NEW d \in Item, Taken(d) PROVE Entries(d)' \subseteq Entries(d)
  BY <1>5, EntriesClosed DEF TakenIsClosed
<1>6. DealtIsTold'
  <2> SUFFICES ASSUME NEW d \in Item, Dealt(d)' PROVE Entries(d)' \subseteq told'
    BY DEF DealtIsTold
  <2>1. ASSUME Dealt(d) PROVE Entries(d)' \subseteq told'
    <3>1. Taken(d)
      BY <2>1 DEF Dealt, Taken, InHand
    <3> QED BY <1>4, <1>5, <2>1, <3>1 DEF DealtIsTold
  <2>2. ASSUME NEW f \in Flusher, Summarise(f) PROVE Entries(d)' \subseteq told'
    <3>1. PICK s \in flush[f].due :
            /\ flush' = [flush EXCEPT ![f].due = @ \ {s}, ![f].marking = s.digest]
            /\ IF s.items = {} \/ IsSummarised(s.digest)
               THEN UNCHANGED <<summaries, told>>
               ELSE /\ summaries' = [summaries EXCEPT ![s.digest] = Append(@, s.items)]
                    /\ told' = told \cup s.items
      BY <2>2 DEF Summarise
    <3>2. CASE d = s.digest
      <4>1. Taken(d) /\ Entries(d) \subseteq s.items
        BY <3>2 DEF Taken, InHand, ReadIsAll
      <4>2. IsSummarised(d) => Entries(d) \subseteq told
        BY DEF DealtIsTold, Dealt
      <4>3. Entries(d) \subseteq told'
        BY <3>1, <3>2, <4>1, <4>2
      <4> QED BY <1>5, <4>1, <4>3
    <3>3. CASE d # s.digest
      <4>1. IsSummarised(d)' => IsSummarised(d)
        BY <3>1, <3>3 DEF IsSummarised, TypeOK
      <4>2. \A g \in Flusher : flush'[g].marking = d => flush[g].marking = d
        BY <3>1, <3>3 DEF TypeOK, Run
      <4>3. Dealt(d)
        BY <2>2, <4>1, <4>2 DEF Dealt, Summarise
      <4> QED BY <2>1, <4>3
    <3> QED BY <3>2, <3>3
  <2>3. ASSUME NEW f \in Flusher, Mark(f) PROVE Dealt(d)
    <3>1. digests'[d].state = "flushed" => digests[d].state = "flushed" \/ flush[f].marking = d
      BY <2>3 DEF Mark, TypeOK
    <3>2. \A g \in Flusher : flush'[g].marking = d => flush[g].marking = d
      BY <2>3, NoneIsNoItem DEF Mark, TypeOK, Run
    <3> QED BY <2>3, <3>1, <3>2 DEF Mark, Dealt, IsSummarised
  <2>4. ASSUME NEW f \in Flusher, FindDue(f) \/ ReadItems(f) \/ CutShort(f) PROVE Dealt(d)
    <3>1. \A g \in Flusher : flush'[g].marking = d => flush[g].marking = d
      <4>1. CASE FindDue(f)
        BY <4>1 DEF FindDue, TypeOK, Run
      <4>2. CASE ReadItems(f)
        BY <4>2 DEF ReadItems, TypeOK, Run
      <4>3. CASE CutShort(f)
        BY <4>3, NoneIsNoItem DEF CutShort, TypeOK, Idle
      <4> QED BY <2>4, <4>1, <4>2, <4>3
    <3>2. UNCHANGED <<digests, summaries>>
      BY <2>4 DEF FindDue, ReadItems, CutShort
    <3> QED BY <3>1, <3>2 DEF Dealt, IsSummarised
  <2>5. ASSUME NEW u \in User, EraseDigests(u) PROVE Dealt(d)
    BY <2>5 DEF EraseDigests, Dealt, IsSummarised, Absent
  <2>6. ASSUME NEW i \in Item, Commit(i) PROVE Dealt(d)
    <3>1. digests'[d].state = "flushed" => digests[d].state = "flushed"
      BY <2>6 DEF Commit, TypeOK
    <3> QED BY <2>6, <3>1 DEF Commit, Dealt, IsSummarised
  <2>7. CASE UNCHANGED <<digests, flush, summaries>>
    BY <2>1, <2>7 DEF Dealt, IsSummarised
  <2> QED BY <2>1, <2>2, <2>3, <2>4, <2>5, <2>6, <2>7
      DEF Next, vars, Route, Join, Fail, Tick,
        EraseItems, AbortErasure
<1>7. ReadIsAll'
  <2> SUFFICES ASSUME NEW f \in Flusher, NEW s \in flush'[f].due
               PROVE  Entries(s.digest)' \subseteq s.items
    BY DEF ReadIsAll, Entries
  <2>1. CASE s \in flush[f].due
    <3>1. s.digest \in Item /\ Taken(s.digest)
      BY <2>1 DEF TypeOK, Run, Summary, Taken, InHand
    <3> QED BY <1>5, <2>1, <3>1 DEF ReadIsAll
  <2>2. CASE s \notin flush[f].due
    <3>1. PICK d \in flush[f].todo : s = [digest |-> d, items |-> Entries(d)]
      BY <2>2, ReadNow
    <3>2. d \in Item /\ Taken(d)
      BY <3>1 DEF TypeOK, Run, Taken, InHand
    <3> QED BY <1>5, <3>1, <3>2
  <2> QED BY <2>1, <2>2
<1> QED BY <1>1, <1>2, <1>6, <1>7

(* A digest that is flushed has told what is in it, if no transaction      *)
(* outlives the window it chose (src/src/notify/pipeline.ts,               *)
(* flushDueDigests): the locks of the ingest transactions are enough.      *)
THEOREM FlushLosesNothing == Spec => []FlushedIsTold
<1> DEFINE Inv == late = 0 => Complete
<1>1. Init => Inv
  <2> SUFFICES ASSUME Init PROVE Complete
    OBVIOUS
  <2>1. \A i \in Item : items[i].phase = "new" /\ digests[i].state = "absent" /\ summaries[i] = << >>
    BY DEF Init, New, Absent
  <2>2. \A f \in Flusher : flush[f].todo = {} /\ flush[f].due = {} /\ flush[f].marking = None
    BY DEF Init, Idle
  <2>3. \A d \in Item : ~Taken(d) /\ ~Dealt(d)
    BY <2>1, <2>2, NoneIsNoItem DEF Taken, Dealt, InHand, IsSummarised
  <2> QED BY <2>1, <2>2, <2>3 DEF Complete, InTime, TakenIsClosed, DealtIsTold, ReadIsAll
<1>2. TypeOK /\ Timely /\ Inv /\ [Next]_vars => Inv'
  BY LateStays, CompleteStep
<1>3. Inv => FlushedIsTold
  BY DEF Complete, DealtIsTold, Dealt, FlushedIsTold
<1> QED BY <1>1, <1>2, <1>3, TimelyStart, TimelyStep, TypeCorrect, PTL DEF Spec

(***************************************************************************)
(* A summary names its own.                                                *)
(***************************************************************************)

Written(i) == items[i].phase \in {"batched", "erased", "stranded"}
Owned(i, d) == Written(i) /\ Written(d) /\ BelongsTo(i, d)

(* An entry of a digest is of its user and window.                         *)
LEMMA EntriesAreOwned ==
  ASSUME TypeOK, RowsFit, JoinsFit, NEW d \in Item, NEW i \in Entries(d)
  PROVE  Owned(i, d)
<1>1. i \in Item /\ items[i].phase = "batched" /\ items[i].digest = d
  BY DEF Entries
<1>2. digests[d].state # "absent" /\ digests[d].window = items[i].window /\ UserOf[d] = UserOf[i]
  BY <1>1 DEF JoinsFit
<1>3. items[d].phase = "batched" /\ digests[d].window = items[d].window
  BY <1>2 DEF RowsFit
<1> QED BY <1>1, <1>2, <1>3 DEF Owned, Written, BelongsTo

(* What is committed keeps its digest and its window.                      *)
LEMMA WrittenStays ==
  ASSUME TypeOK, [Next]_vars, NEW i \in Item, Written(i)
  PROVE  Written(i)' /\ items'[i].digest = items[i].digest /\ items'[i].window = items[i].window
<1> USE DEF Written
<1>1. ASSUME NEW j \in Item, Route(j) \/ Join(j) \/ Commit(j) \/ Fail(j) PROVE items'[i] = items[i]
  <2>1. i # j
    BY <1>1 DEF Route, Join, Commit, Fail
  <2> QED BY <1>1, <2>1 DEF Route, Join, Commit, Fail, TypeOK
<1>2. ASSUME NEW u \in User, EraseDigests(u)
      PROVE  Written(i)' /\ items'[i].digest = items[i].digest /\ items'[i].window = items[i].window
  <2>1. \/ items'[i] = items[i]
        \/ \E p \in {"erased", "stranded"} : items'[i] = [items[i] EXCEPT !.phase = p]
    BY <1>2 DEF EraseDigests
  <2> QED BY <2>1 DEF TypeOK, ItemState
<1>3. CASE UNCHANGED items
  BY <1>3
<1> QED BY <1>1, <1>2, <1>3
    DEF Next, vars, Tick, FindDue, ReadItems, Summarise, Mark, CutShort, EraseItems, AbortErasure

LEMMA OwnedStays ==
  ASSUME TypeOK, [Next]_vars, NEW d \in Item, NEW i \in Item, Owned(i, d)
  PROVE  Owned(i, d)'
BY WrittenStays DEF Owned, BelongsTo

(* So is what a run has read, and what a summary names.                    *)
ReadIsOwned == \A f \in Flusher : \A s \in flush[f].due : \A i \in s.items : Owned(i, s.digest)
NamedIsOwned ==
  \A d \in Item : \A n \in DOMAIN summaries[d] : \A i \in summaries[d][n] : Owned(i, d)

LEMMA ReadOwnedStep ==
  ASSUME TypeOK, RowsFit, JoinsFit, ReadIsOwned, [Next]_vars
  PROVE  ReadIsOwned'
<1> SUFFICES ASSUME NEW f \in Flusher, NEW s \in flush'[f].due, NEW i \in s.items
             PROVE  Owned(i, s.digest)'
  BY DEF ReadIsOwned, Owned, Written, BelongsTo
<1>1. TypeOK'
  BY TypeStep
<1>2. i \in Item /\ s.digest \in Item
  BY <1>1 DEF TypeOK, Run, Summary
<1>3. CASE s \in flush[f].due
  BY <1>2, <1>3, OwnedStays DEF ReadIsOwned
<1>4. CASE s \notin flush[f].due
  <2>1. PICK d \in flush[f].todo : s = [digest |-> d, items |-> Entries(d)]
    BY <1>4, ReadNow
  <2>2. d \in Item /\ i \in Entries(d) /\ s.digest = d
    BY <2>1 DEF TypeOK, Run
  <2>3. Owned(i, d)
    BY <2>2, EntriesAreOwned
  <2> QED BY <1>2, <2>2, <2>3, OwnedStays
<1> QED BY <1>3, <1>4

LEMMA NamedOwnedStep ==
  ASSUME TypeOK, ReadIsOwned, NamedIsOwned, [Next]_vars
  PROVE  NamedIsOwned'
<1> SUFFICES ASSUME NEW d \in Item, NEW n \in DOMAIN summaries'[d], NEW i \in summaries'[d][n]
             PROVE  Owned(i, d)'
  BY DEF NamedIsOwned, Owned, Written, BelongsTo
<1>1. TypeOK'
  BY TypeStep
<1>2. i \in Item
  BY <1>1 DEF TypeOK
<1>3. CASE n \in DOMAIN summaries[d] /\ i \in summaries[d][n]
  BY <1>2, <1>3, OwnedStays DEF NamedIsOwned
<1>4. ASSUME NEW f \in Flusher, Summarise(f), ~(n \in DOMAIN summaries[d] /\ i \in summaries[d][n])
      PROVE  Owned(i, d)'
  <2>1. PICK s \in flush[f].due :
          IF s.items = {} \/ IsSummarised(s.digest)
          THEN UNCHANGED <<summaries, told>>
          ELSE summaries' = [summaries EXCEPT ![s.digest] = Append(@, s.items)]
    BY <1>4 DEF Summarise
  <2>2. s.digest \in Item /\ s.items \in SUBSET Item
    BY DEF TypeOK, Run, Summary
  <2>3. summaries' = [summaries EXCEPT ![s.digest] = Append(@, s.items)]
    BY <1>4, <2>1
  <2>4. d = s.digest
    BY <1>4, <2>2, <2>3 DEF TypeOK
  <2>5. summaries[d] \in Seq(SUBSET Item) /\ summaries'[d] = Append(summaries[d], s.items)
    BY <2>2, <2>3, <2>4 DEF TypeOK
  <2>6. i \in s.items
    BY <1>4, <2>2, <2>5
  <2>7. Owned(i, d)
    BY <2>4, <2>6 DEF ReadIsOwned
  <2> QED BY <1>2, <2>7, OwnedStays
<1>5. ASSUME NEW u \in User, EraseDigests(u), ~(n \in DOMAIN summaries[d] /\ i \in summaries[d][n])
      PROVE  FALSE
  <2>1. summaries'[d] \in {<< >>, summaries[d]}
    BY <1>5 DEF EraseDigests
  <2> QED BY <1>5, <2>1
<1>6. CASE UNCHANGED summaries
  BY <1>3, <1>6
<1> QED BY <1>3, <1>4, <1>5, <1>6
    DEF Next, vars, Route, Join, Commit, Fail, Tick, FindDue, ReadItems, Mark, CutShort,
        EraseItems, AbortErasure

(* A summary names items of its digest's own user and window and of no     *)
(* other digest, whatever joined, failed or was erased after it was read   *)
(* (src/src/notify/store.ts:940-964).                                      *)
THEOREM SummariesStayApart == Spec => []SummariesNameTheirOwn
<1>1. Init => ReadIsOwned /\ NamedIsOwned
  BY DEF Init, Idle, ReadIsOwned, NamedIsOwned
<1>2. TypeOK /\ Timely /\ ReadIsOwned /\ NamedIsOwned /\ [Next]_vars => ReadIsOwned' /\ NamedIsOwned'
  BY ReadOwnedStep, NamedOwnedStep DEF Timely
<1>3. NamedIsOwned => SummariesNameTheirOwn
  BY DEF NamedIsOwned, SummariesNameTheirOwn, Owned
<1> QED BY <1>1, <1>2, <1>3, TimelyStart, TimelyStep, TypeCorrect, PTL DEF Spec
=============================================================================
