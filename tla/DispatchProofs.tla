--------------------------- MODULE DispatchProofs ---------------------------
(***************************************************************************)
(* Theorems about Dispatch, for every set of deliveries, users and passes  *)
(* and every value of the bounds.                                          *)
(***************************************************************************)
EXTENDS Dispatch, FiniteSetTheorems, TLAPS

USE DEF State, Settled, Outcome, history

(***************************************************************************)
(* Rows.                                                                   *)
(***************************************************************************)

(* Each statement of store.ts writes a well-formed row.                    *)
LEMMA RowsAreTyped ==
  /\ NoRow \in Row /\ Gone \in Row
  /\ \A t \in BOOLEAN : NewRow(t) \in Row
  /\ \A r \in Row : /\ AfterClaim(r) \in Row
                    /\ AfterSent(r) \in Row
                    /\ \A o \in Outcome : AfterFailed(r, o) \in Row
<1>1. NoRow \in Row /\ Gone \in Row
  BY DEF NoRow, Gone, Row
<1>2. \A t \in BOOLEAN : NewRow(t) \in Row
  BY DEF NewRow, NoRow, Row
<1>3. ASSUME NEW r \in Row
      PROVE  /\ AfterClaim(r) \in Row
             /\ AfterSent(r) \in Row
             /\ \A o \in Outcome : AfterFailed(r, o) \in Row
  <2>1. AfterClaim(r) \in Row
    <3>1. r.attempts + 1 \in Nat
      BY DEF Row
    <3> QED BY <3>1 DEF AfterClaim, Row
  <2>2. AfterSent(r) \in Row
    BY DEF AfterSent, Row
  <2>3. ASSUME NEW o \in Outcome PROVE AfterFailed(r, o) \in Row
    <3> DEFINE again == Retryable(o) /\ (Refunded(r, o) \/ r.attempts < MaxAttempts)
               a  == IF Refunded(r, o) /\ r.attempts > 0 THEN r.attempts - 1 ELSE r.attempts
               s  == IF ~Retryable(o) THEN "undeliverable"
                     ELSE IF again THEN "pending" ELSE "dead"
               du == IF again THEN FALSE ELSE r.due
    <3>0. r.attempts \in Nat /\ r.due \in BOOLEAN
      BY DEF Row
    <3>1. a \in Nat /\ s \in State /\ du \in BOOLEAN
      <4>1. a \in Nat
        BY <3>0
      <4>2. s \in State
        OBVIOUS
      <4>3. du \in BOOLEAN
        BY <3>0
      <4> QED BY <4>1, <4>2, <4>3
    <3>2. AfterFailed(r, o) = [r EXCEPT !.lease = "none", !.attempts = a, !.state = s, !.due = du]
      BY DEF AfterFailed
    <3> HIDE DEF a, s, du
    <3> QED BY <3>1, <3>2 DEF Row
  <2> QED BY <2>1, <2>2, <2>3
<1> QED BY <1>1, <1>2, <1>3

(***************************************************************************)
(* Types.                                                                  *)
(***************************************************************************)

LEMMA InitTyped == Init => TypeOK
  BY RowsAreTyped, BoundsType DEF Init, TypeOK, Answer

LEMMA NextTyped == TypeOK /\ [Next]_vars => TypeOK'
<1> SUFFICES ASSUME TypeOK, [Next]_vars PROVE TypeOK'
  OBVIOUS
<1> USE BoundsType DEF TypeOK
<1>1. ASSUME NEW d \in Delivery, NEW t \in BOOLEAN, Enqueue(d, t) PROVE TypeOK'
  BY <1>1, RowsAreTyped DEF Enqueue
<1>2. ASSUME NEW d \in Delivery, NEW c \in Delivery, Resend(d, c) PROVE TypeOK'
  BY <1>2, RowsAreTyped DEF Resend
<1>3. ASSUME NEW u \in User, EraseUser(u) PROVE TypeOK'
  <2>1. row' \in [Delivery -> Row]
    BY <1>3, RowsAreTyped DEF EraseUser
  <2> QED BY <1>3, <2>1 DEF EraseUser
<1>4. ASSUME NEW p \in Dispatcher, NEW ids \in SUBSET Delivery, Claim(p, ids)
      PROVE  TypeOK'
  <2>1. row' \in [Delivery -> Row]
    BY <1>4, RowsAreTyped DEF Claim
  <2> QED BY <1>4, <2>1 DEF Claim
<1>5. ASSUME NEW p \in Dispatcher, NEW d \in Delivery, NEW o \in Outcome, Send(p, d, o)
      PROVE  TypeOK'
  <2>1. [id |-> d, outcome |-> o] \in Answer
    BY DEF Answer
  <2> QED BY <1>5, <2>1 DEF Send
<1>6. ASSUME NEW p \in Dispatcher, Record(p) PROVE TypeOK'
  <2>1. answer[p].id \in Delivery /\ answer[p].outcome \in Outcome
    BY <1>6 DEF Record, Answer
  <2>2. row' \in [Delivery -> Row]
    BY <1>6, <2>1, RowsAreTyped DEF Record
  <2>3. NoAnswer \in Answer
    BY DEF Answer
  <2> QED BY <1>6, <2>2, <2>3 DEF Record
<1>7. ASSUME NEW p \in Dispatcher, Abandon(p) PROVE TypeOK'
  BY <1>7 DEF Abandon, Answer
<1>8. ASSUME NEW d \in Delivery, LeaseExpires(d) PROVE TypeOK'
  BY <1>8 DEF LeaseExpires, Row
<1>9. ASSUME NEW d \in Delivery, BackoffElapses(d) PROVE TypeOK'
  BY <1>9 DEF BackoffElapses, Row
<1>10. ASSUME NEW d \in Delivery, QuotaWindowPasses(d) PROVE TypeOK'
  BY <1>10 DEF QuotaWindowPasses, Row
<1>11. CASE UNCHANGED vars
  BY <1>11 DEF vars
<1> QED BY <1>1, <1>2, <1>3, <1>4, <1>5, <1>6, <1>7, <1>8, <1>9, <1>10, <1>11 DEF Next

(* Every reachable state of the queue is well formed: no sequence of       *)
(* claims, refunds and stale records drives `attempts' below zero or a row *)
(* into a state the table's CHECK constraint would refuse.                 *)
THEOREM TypeCorrect == Spec => []TypeOK
<1>1. Init => TypeOK BY InitTyped
<1>2. TypeOK /\ [Next]_vars => TypeOK' BY NextTyped
<1> QED BY <1>1, <1>2, PTL DEF Spec

(***************************************************************************)
(* What a pass has in hand.                                                *)
(***************************************************************************)

(* An answer is about a row of the pass's own batch, and an `ok' answer    *)
(* means that a provider took the message.  A row in a batch was inserted. *)
InHand ==
  /\ \A p \in Dispatcher : answer[p] # NoAnswer =>
       /\ answer[p].id \in batch[p]
       /\ answer[p].outcome = "ok" => accepted[answer[p].id] > 0
  /\ \A p \in Dispatcher : \A d \in batch[p] : ~Unused(d)

Base == TypeOK /\ InHand

LEMMA InitInHand == Init => InHand
  BY DEF Init, InHand

(* What recording an answer does, in terms of the one row it is about.     *)
LEMMA RecordWrites ==
  ASSUME Base, NEW p \in Dispatcher, Record(p)
  PROVE  LET d == answer[p].id
             o == answer[p].outcome
         IN /\ d \in Delivery /\ o \in Outcome /\ d \in batch[p]
            /\ ~Unused(d)
            /\ batch' = [batch EXCEPT ![p] = @ \ {d}]
            /\ answer' = [answer EXCEPT ![p] = NoAnswer]
            /\ UNCHANGED <<accepted, ambiguous, abandoned, overruns, erased>>
            /\ \A e \in Delivery : e # d => row'[e] = row[e]
            /\ row[d].state = "gone" => row'[d] = row[d]
            /\ row[d].state # "gone" =>
                 row'[d] = IF o = "ok" THEN AfterSent(row[d]) ELSE AfterFailed(row[d], o)
<1>1. answer[p].id \in Delivery /\ answer[p].outcome \in Outcome
  BY DEF Base, TypeOK, Record, Answer
<1> QED BY <1>1 DEF Base, TypeOK, Record, InHand, Exists, Unused

(* The states the two record statements leave a row in.                    *)
LEMMA RecordedStates ==
  ASSUME NEW r \in Row, NEW o \in Outcome
  PROVE  /\ AfterSent(r).state = "sent"
         /\ AfterSent(r).attempts = r.attempts
         /\ AfterSent(r).lease = "none"
         /\ AfterFailed(r, o).lease = "none"
         /\ AfterFailed(r, o).state \in {"pending", "undeliverable", "dead"}
         /\ AfterFailed(r, o).state = "dead" =>
              /\ r.attempts >= MaxAttempts
              /\ AfterFailed(r, o).attempts = r.attempts
         /\ AfterFailed(r, o).attempts \in Nat
         /\ AfterFailed(r, o).attempts <= r.attempts
         /\ AfterFailed(r, o).state = "pending" =>
              \/ AfterFailed(r, o).attempts < MaxAttempts
              \/ AfterFailed(r, o).attempts < r.attempts
<1>1. /\ AfterSent(r).state = "sent"
      /\ AfterSent(r).attempts = r.attempts
      /\ AfterSent(r).lease = "none"
  BY DEF AfterSent, Row
<1> DEFINE again == Retryable(o) /\ (Refunded(r, o) \/ r.attempts < MaxAttempts)
           f == AfterFailed(r, o)
<1>2. r.attempts \in Nat /\ MaxAttempts \in Nat \ {0}
  BY MaxAttemptsType DEF Row
<1>3. f.lease = "none"
  BY DEF AfterFailed, Row
<1>4. f.state = IF ~Retryable(o) THEN "undeliverable"
                ELSE IF again THEN "pending" ELSE "dead"
  BY DEF AfterFailed, Row
<1>5. f.attempts = IF Refunded(r, o) /\ r.attempts > 0 THEN r.attempts - 1 ELSE r.attempts
  BY DEF AfterFailed, Row
<1>6. CASE Refunded(r, o)
  <2>1. Retryable(o)
    BY <1>6 DEF Refunded, ConsumesAttempt, Retryable
  <2>2. f.state = "pending"
    BY <2>1, <1>4, <1>6
  <2>3. f.attempts = IF r.attempts > 0 THEN r.attempts - 1 ELSE r.attempts
    BY <1>5, <1>6
  <2> HIDE DEF f
  <2>4. f.attempts \in Nat /\ f.attempts <= r.attempts
    BY <2>3, <1>2
  <2>5. f.attempts < MaxAttempts \/ f.attempts < r.attempts
    BY <2>3, <1>2
  <2> QED BY <1>1, <1>3, <2>2, <2>4, <2>5 DEF f
<1>7. CASE ~Refunded(r, o)
  <2>1. f.attempts = r.attempts
    BY <1>5, <1>7
  <2>2. f.state = "dead" => ~(r.attempts < MaxAttempts)
    BY <1>4, <1>7
  <2>3. f.state = "pending" => r.attempts < MaxAttempts
    BY <1>4, <1>7
  <2>4. f.state \in {"pending", "undeliverable", "dead"}
    BY <1>4
  <2> HIDE DEF f
  <2> QED BY <1>1, <1>2, <1>3, <2>1, <2>2, <2>3, <2>4 DEF f
<1> QED BY <1>6, <1>7

LEMMA NextInHand == Base /\ [Next]_vars => InHand'
<1> SUFFICES ASSUME Base, [Next]_vars PROVE InHand'
  OBVIOUS
<1> USE DEF Base, TypeOK, InHand, Unused
<1>1. ASSUME NEW d \in Delivery, NEW t \in BOOLEAN, Enqueue(d, t) PROVE InHand'
  BY <1>1 DEF Enqueue, NewRow, NoRow
<1>2. ASSUME NEW d \in Delivery, NEW c \in Delivery, Resend(d, c) PROVE InHand'
  BY <1>2 DEF Resend, NewRow, NoRow
<1>3. ASSUME NEW u \in User, EraseUser(u) PROVE InHand'
  BY <1>3 DEF EraseUser, Gone, NoRow
<1>4. ASSUME NEW p \in Dispatcher, NEW ids \in SUBSET Delivery, Claim(p, ids)
      PROVE  InHand'
  <2>1. \A d \in Delivery : ~Unused(d) => ~Unused(d)'
    BY <1>4 DEF Claim, AfterClaim, Row
  <2>2. \A d \in ids : ~Unused(d)
    BY <1>4 DEF Claim, Claimable
  <2> QED BY <1>4, <2>1, <2>2 DEF Claim
<1>5. ASSUME NEW p \in Dispatcher, NEW d \in Delivery, NEW o \in Outcome, Send(p, d, o)
      PROVE  InHand'
  <2>1. \A e \in Delivery : accepted'[e] >= accepted[e]
    BY <1>5 DEF Send
  <2>2. o = "ok" => accepted'[d] > 0
    BY <1>5 DEF Send
  <2>3. ASSUME NEW q \in Dispatcher, answer'[q] # NoAnswer
        PROVE  /\ answer'[q].id \in batch'[q]
               /\ answer'[q].outcome = "ok" => accepted'[answer'[q].id] > 0
    <3>1. CASE q = p
      BY <1>5, <3>1, <2>2 DEF Send
    <3>2. CASE q # p
      <4>1. answer'[q] = answer[q] /\ answer[q].id \in Delivery
        BY <1>5, <3>2, <2>3 DEF Send, Answer
      <4>2. accepted[answer[q].id] \in Nat /\ accepted'[answer[q].id] \in Nat
        BY <4>1, <1>5 DEF Send
      <4> QED BY <1>5, <4>1, <4>2, <2>1, <2>3 DEF Send
    <3> QED BY <3>1, <3>2
  <2> QED BY <1>5, <2>3 DEF Send
<1>6. ASSUME NEW p \in Dispatcher, Record(p) PROVE InHand'
  <2> DEFINE d == answer[p].id
  <2>1. \A e \in Delivery : ~Unused(e) => ~Unused(e)'
    <3> SUFFICES ASSUME NEW e \in Delivery, ~Unused(e) PROVE ~Unused(e)'
      OBVIOUS
    <3>1. CASE e # d \/ row[d].state = "gone"
      BY <3>1, <1>6, RecordWrites
    <3>2. CASE e = d /\ row[d].state # "gone"
      <4>1. row[d] \in Row /\ answer[p].outcome \in Outcome
        BY <3>2, <1>6, RecordWrites
      <4>2. row'[d].state \in {"sent", "pending", "undeliverable", "dead"}
        BY <3>2, <4>1, <1>6, RecordWrites, RecordedStates
      <4> QED BY <3>2, <4>2
    <3> QED BY <3>1, <3>2
  <2>2. \A q \in Dispatcher : answer'[q] # NoAnswer => q # p /\ answer'[q] = answer[q]
    BY <1>6 DEF Record
  <2>3. \A q \in Dispatcher : q # p => batch'[q] = batch[q]
    BY <1>6 DEF Record
  <2>4. \A q \in Dispatcher : batch'[q] \subseteq batch[q] /\ batch[q] \subseteq Delivery
    BY <1>6 DEF Record
  <2> QED BY <1>6, <2>1, <2>2, <2>3, <2>4 DEF Record
<1>7. ASSUME NEW p \in Dispatcher, Abandon(p) PROVE InHand'
  BY <1>7 DEF Abandon
<1>8. ASSUME NEW d \in Delivery, LeaseExpires(d) PROVE InHand'
  BY <1>8 DEF LeaseExpires, Row
<1>9. ASSUME NEW d \in Delivery, BackoffElapses(d) PROVE InHand'
  BY <1>9 DEF BackoffElapses, Row
<1>10. ASSUME NEW d \in Delivery, QuotaWindowPasses(d) PROVE InHand'
  BY <1>10 DEF QuotaWindowPasses, Row
<1>11. CASE UNCHANGED vars
  BY <1>11 DEF vars
<1> QED BY <1>1, <1>2, <1>3, <1>4, <1>5, <1>6, <1>7, <1>8, <1>9, <1>10, <1>11 DEF Next

LEMMA AlwaysBase == Spec => []Base
<1>1. Init => Base BY InitTyped, InitInHand DEF Base
<1>2. Base /\ [Next]_vars => Base' BY NextTyped, NextInHand DEF Base
<1> QED BY <1>1, <1>2, PTL DEF Spec

(***************************************************************************)
(* Exclusive claims.                                                       *)
(***************************************************************************)

LEMMA OverrunsGrow == TypeOK /\ [Next]_vars /\ overruns' = 0 => overruns = 0
<1> SUFFICES ASSUME TypeOK, [Next]_vars PROVE overruns' = 0 => overruns = 0
  OBVIOUS
<1>1. overruns \in Nat
  BY BoundsType DEF TypeOK
<1>2. overruns' = overruns \/ overruns' = overruns + 1
  BY DEF Next, vars, Enqueue, Resend, EraseUser, Claim, Send, Record, Abandon,
         LeaseExpires, BackoffElapses, QuotaWindowPasses
<1> QED BY <1>1, <1>2

LEMMA NextExclusive == Base /\ ClaimsAreExclusive /\ [Next]_vars => ClaimsAreExclusive'
<1> SUFFICES ASSUME Base, ClaimsAreExclusive, [Next]_vars, overruns' = 0
             PROVE  ClaimsAreExclusive'
  BY DEF ClaimsAreExclusive
<1>0. overruns = 0
  BY OverrunsGrow DEF Base
<1> USE DEF Base, TypeOK, ClaimsAreExclusive
<1>1. ASSUME NEW d \in Delivery, NEW t \in BOOLEAN, Enqueue(d, t) PROVE ClaimsAreExclusive'
  BY <1>0, <1>1 DEF Enqueue, Unused
<1>2. ASSUME NEW d \in Delivery, NEW c \in Delivery, Resend(d, c)
      PROVE  ClaimsAreExclusive'
  BY <1>0, <1>2 DEF Resend, Unused
<1>3. ASSUME NEW u \in User, EraseUser(u) PROVE ClaimsAreExclusive'
  BY <1>0, <1>3 DEF EraseUser, Gone, NoRow
<1>4. ASSUME NEW p \in Dispatcher, NEW ids \in SUBSET Delivery, Claim(p, ids)
      PROVE  ClaimsAreExclusive'
  <2>1. \A q \in Dispatcher : batch[q] \cap ids = {}
    BY <1>0, <1>4 DEF Claim, Claimable
  <2>2. \A d \in ids : row'[d].state = "pending" /\ row'[d].lease = "live"
    BY <1>4 DEF Claim, Claimable, AfterClaim, Row
  <2>3. \A d \in Delivery : d \notin ids => row'[d] = row[d]
    BY <1>4 DEF Claim
  <2>4. batch' = [batch EXCEPT ![p] = ids] /\ batch[p] = {}
    BY <1>4 DEF Claim
  <2>5. \A q, r \in Dispatcher : q # r => batch'[q] \cap batch'[r] = {}
    BY <1>0, <2>1, <2>4
  <2>6. ASSUME NEW q \in Dispatcher, NEW d \in batch'[q]
        PROVE  row'[d].state = "gone" \/ (row'[d].state = "pending" /\ row'[d].lease = "live")
    <3>1. CASE q = p
      BY <3>1, <2>2, <2>4, <2>6
    <3>2. CASE q # p
      BY <1>0, <3>2, <2>1, <2>3, <2>4, <2>6
    <3> QED BY <3>1, <3>2
  <2> QED BY <2>5, <2>6
<1>5. ASSUME NEW p \in Dispatcher, NEW d \in Delivery, NEW o \in Outcome, Send(p, d, o)
      PROVE  ClaimsAreExclusive'
  BY <1>0, <1>5 DEF Send
<1>6. ASSUME NEW p \in Dispatcher, Record(p) PROVE ClaimsAreExclusive'
  <2> DEFINE d == answer[p].id
  <2>1. d \in batch[p] /\ batch' = [batch EXCEPT ![p] = @ \ {d}]
    BY <1>6, RecordWrites DEF Base
  <2>2. \A q \in Dispatcher : d \notin batch'[q]
    BY <1>0, <2>1
  <2>3. \A q \in Dispatcher : batch'[q] \subseteq batch[q] /\ batch[q] \subseteq Delivery
    BY <2>1
  <2>4. \A e \in Delivery : e # d => row'[e] = row[e]
    BY <1>6, RecordWrites DEF Base
  <2> HIDE DEF d
  <2>5. \A q \in Dispatcher : \A e \in batch'[q] :
          row'[e].state = "gone" \/ (row'[e].state = "pending" /\ row'[e].lease = "live")
    BY <1>0, <2>2, <2>3, <2>4
  <2>6. \A q, r \in Dispatcher : q # r => batch'[q] \cap batch'[r] = {}
    BY <1>0, <2>3
  <2> QED BY <2>5, <2>6
<1>7. ASSUME NEW p \in Dispatcher, Abandon(p) PROVE ClaimsAreExclusive'
  BY <1>0, <1>7 DEF Abandon
<1>8. ASSUME NEW d \in Delivery, LeaseExpires(d) PROVE ClaimsAreExclusive'
  <2>1. ~Held(d)
    BY <1>0, <1>8 DEF LeaseExpires
  <2> QED BY <1>0, <1>8, <2>1 DEF LeaseExpires, Held
<1>9. ASSUME NEW d \in Delivery, BackoffElapses(d) PROVE ClaimsAreExclusive'
  BY <1>0, <1>9 DEF BackoffElapses, Row
<1>10. ASSUME NEW d \in Delivery, QuotaWindowPasses(d) PROVE ClaimsAreExclusive'
  BY <1>0, <1>10 DEF QuotaWindowPasses, Row
<1>11. CASE UNCHANGED vars
  BY <1>0, <1>11 DEF vars
<1> QED BY <1>1, <1>2, <1>3, <1>4, <1>5, <1>6, <1>7, <1>8, <1>9, <1>10, <1>11 DEF Next

(* However many replicas drain the queue, a delivery is in the hands of at *)
(* most one of them, as long as no lease runs out under a live pass: what  *)
(* `for update skip locked' and the lease columns of claimDeliveries are   *)
(* for.                                                                    *)
THEOREM ExclusiveClaims == Spec => []ClaimsAreExclusive
<1>1. Init => ClaimsAreExclusive
  BY DEF Init, ClaimsAreExclusive
<1>2. Base /\ ClaimsAreExclusive /\ [Next]_vars => ClaimsAreExclusive'
  BY NextExclusive
<1> QED BY <1>1, <1>2, AlwaysBase, PTL DEF Spec

(***************************************************************************)
(* Recorded outcomes.                                                      *)
(***************************************************************************)

LEMMA NextTrue == Base /\ OutcomesAreTrue /\ [Next]_vars => OutcomesAreTrue'
<1> SUFFICES ASSUME Base, OutcomesAreTrue, [Next]_vars PROVE OutcomesAreTrue'
  OBVIOUS
<1> USE MaxAttemptsType DEF Base, TypeOK, OutcomesAreTrue
<1>1. ASSUME NEW d \in Delivery, NEW t \in BOOLEAN, Enqueue(d, t) PROVE OutcomesAreTrue'
  BY <1>1 DEF Enqueue, NewRow, NoRow
<1>2. ASSUME NEW d \in Delivery, NEW c \in Delivery, Resend(d, c) PROVE OutcomesAreTrue'
  BY <1>2 DEF Resend, NewRow, NoRow
<1>3. ASSUME NEW u \in User, EraseUser(u) PROVE OutcomesAreTrue'
  BY <1>3 DEF EraseUser, Gone, NoRow
<1>4. ASSUME NEW p \in Dispatcher, NEW ids \in SUBSET Delivery, Claim(p, ids)
      PROVE  OutcomesAreTrue'
  <2>1. \A d \in Delivery : row'[d] = row[d] \/ row'[d].state = "pending"
    BY <1>4 DEF Claim, Claimable, AfterClaim, Row
  <2> QED BY <1>4, <2>1 DEF Claim
<1>5. ASSUME NEW p \in Dispatcher, NEW d \in Delivery, NEW o \in Outcome, Send(p, d, o)
      PROVE  OutcomesAreTrue'
  BY <1>5 DEF Send
<1>6. ASSUME NEW p \in Dispatcher, Record(p) PROVE OutcomesAreTrue'
  <2> DEFINE d == answer[p].id
             o == answer[p].outcome
  <2>1. /\ d \in Delivery /\ o \in Outcome /\ row[d] \in Row
        /\ accepted' = accepted
        /\ \A e \in Delivery : e # d => row'[e] = row[e]
    BY <1>6, RecordWrites
  <2>2. o = "ok" => accepted[d] > 0
    BY <1>6 DEF InHand, Record
  <2>3. row'[d].state = "sent" => accepted[d] > 0
    <3>1. CASE row[d].state = "gone"
      BY <3>1, <1>6, RecordWrites
    <3>2. CASE row[d].state # "gone" /\ o = "ok"
      BY <3>2, <2>2
    <3>3. CASE row[d].state # "gone" /\ o # "ok"
      BY <3>3, <2>1, <1>6, RecordWrites, RecordedStates
    <3> QED BY <3>1, <3>2, <3>3
  <2>4. row'[d].state = "dead" => row'[d].attempts >= MaxAttempts
    <3>1. CASE row[d].state = "gone"
      BY <3>1, <1>6, RecordWrites
    <3>2. CASE row[d].state # "gone"
      <4>1. row'[d] = IF o = "ok" THEN AfterSent(row[d]) ELSE AfterFailed(row[d], o)
        BY <3>2, <1>6, RecordWrites
      <4> QED BY <4>1, <2>1, RecordedStates
    <3> QED BY <3>1, <3>2
  <2> QED BY <2>1, <2>3, <2>4
<1>7. ASSUME NEW p \in Dispatcher, Abandon(p) PROVE OutcomesAreTrue'
  BY <1>7 DEF Abandon
<1>8. ASSUME NEW d \in Delivery, LeaseExpires(d) PROVE OutcomesAreTrue'
  BY <1>8 DEF LeaseExpires, Row
<1>9. ASSUME NEW d \in Delivery, BackoffElapses(d) PROVE OutcomesAreTrue'
  BY <1>9 DEF BackoffElapses, Row
<1>10. ASSUME NEW d \in Delivery, QuotaWindowPasses(d) PROVE OutcomesAreTrue'
  BY <1>10 DEF QuotaWindowPasses, Row
<1>11. CASE UNCHANGED vars
  BY <1>11 DEF vars
<1> QED BY <1>1, <1>2, <1>3, <1>4, <1>5, <1>6, <1>7, <1>8, <1>9, <1>10, <1>11 DEF Next

(* The history that GET /admin/deliveries shows an operator never claims a *)
(* delivery that did not happen nor a budget that was not spent, even when *)
(* leases are overrun and two passes record about the same row.            *)
THEOREM TrueOutcomes == Spec => []OutcomesAreTrue
<1>1. Init => OutcomesAreTrue
  BY DEF Init, OutcomesAreTrue, NoRow
<1>2. Base /\ OutcomesAreTrue /\ [Next]_vars => OutcomesAreTrue'
  BY NextTrue
<1> QED BY <1>1, <1>2, AlwaysBase, PTL DEF Spec

(***************************************************************************)
(* The attempt budget.                                                     *)
(***************************************************************************)

(* A row that a pass may come for: now, or when the lease of one that died *)
(* runs out.                                                               *)
Waiting(d) == row[d].state = "pending" /\ (row[d].lease # "live" \/ ~Held(d))

Budget == MaxAttempts + abandoned + overruns

(* Nothing compares attempts at the claim: it is what failed before that   *)
(* leaves a row that waits an attempt.                                     *)
AttemptLeft ==
  \A d \in Delivery :
    /\ row[d].attempts <= Budget
    /\ Waiting(d) => row[d].attempts < Budget

LEMMA BudgetGrows == TypeOK /\ [Next]_vars => Budget \in Nat /\ Budget' \in Nat /\ Budget <= Budget'
<1> SUFFICES ASSUME TypeOK, [Next]_vars
             PROVE  Budget \in Nat /\ Budget' \in Nat /\ Budget <= Budget'
  OBVIOUS
<1>1. abandoned \in Nat /\ overruns \in Nat /\ MaxAttempts \in Nat
  BY BoundsType, MaxAttemptsType DEF TypeOK
<1>2. abandoned' = abandoned \/ abandoned' = abandoned + 1
  BY DEF Next, vars, Enqueue, Resend, EraseUser, Claim, Send, Record, Abandon,
         LeaseExpires, BackoffElapses, QuotaWindowPasses
<1>3. overruns' = overruns \/ overruns' = overruns + 1
  BY DEF Next, vars, Enqueue, Resend, EraseUser, Claim, Send, Record, Abandon,
         LeaseExpires, BackoffElapses, QuotaWindowPasses
<1> QED BY <1>1, <1>2, <1>3 DEF Budget

(* A step that leaves a row its attempts, and does not put it out to wait, *)
(* leaves it within the budget.                                            *)
LEMMA StaysWithinBudget ==
  ASSUME TypeOK, AttemptLeft, [Next]_vars, NEW d \in Delivery,
         row'[d].attempts = row[d].attempts, Waiting(d)' => Waiting(d)
  PROVE  row'[d].attempts <= Budget' /\ (Waiting(d)' => row'[d].attempts < Budget')
<1>1. row[d].attempts \in Nat
  BY DEF TypeOK, Row
<1> QED BY <1>1, BudgetGrows DEF AttemptLeft

LEMMA NextAttemptLeft == Base /\ AttemptLeft /\ [Next]_vars => AttemptLeft'
<1> SUFFICES ASSUME Base, AttemptLeft, [Next]_vars, NEW e \in Delivery
             PROVE  row'[e].attempts <= Budget' /\ (Waiting(e)' => row'[e].attempts < Budget')
  BY DEF AttemptLeft
<1>0. Budget \in Nat /\ Budget' \in Nat /\ Budget <= Budget'
  BY BudgetGrows DEF Base
<1>a. /\ row[e].attempts \in Nat /\ row[e] \in Row
      /\ row[e].attempts <= Budget
      /\ Waiting(e) => row[e].attempts < Budget
  BY DEF Base, TypeOK, Row, AttemptLeft
<1>b. MaxAttempts \in Nat \ {0} /\ abandoned \in Nat /\ overruns \in Nat
  BY MaxAttemptsType, BoundsType DEF Base, TypeOK
<1>c. Budget >= MaxAttempts
  BY <1>b DEF Budget
<1>d. ASSUME row'[e].attempts = 0 PROVE row'[e].attempts <= Budget' /\ (Waiting(e)' => row'[e].attempts < Budget')
  BY <1>0, <1>b, <1>c, <1>d
<1>e. ASSUME row'[e].attempts = row[e].attempts, Waiting(e)' => Waiting(e)
      PROVE  row'[e].attempts <= Budget' /\ (Waiting(e)' => row'[e].attempts < Budget')
  BY <1>e, StaysWithinBudget DEF Base
<1> USE DEF Base, TypeOK
<1>1. ASSUME NEW d \in Delivery, NEW t \in BOOLEAN, Enqueue(d, t)
      PROVE  row'[e].attempts = 0 \/ (row'[e].attempts = row[e].attempts /\ (Waiting(e)' => Waiting(e)))
  BY <1>1 DEF Enqueue, NewRow, NoRow, Held, Waiting
<1>2. ASSUME NEW d \in Delivery, NEW c \in Delivery, Resend(d, c)
      PROVE  row'[e].attempts = 0 \/ (row'[e].attempts = row[e].attempts /\ (Waiting(e)' => Waiting(e)))
  BY <1>2 DEF Resend, NewRow, NoRow, Held, Waiting
<1>3. ASSUME NEW u \in User, EraseUser(u)
      PROVE  row'[e].attempts = 0 \/ (row'[e].attempts = row[e].attempts /\ (Waiting(e)' => Waiting(e)))
  BY <1>3 DEF EraseUser, Gone, NoRow, Held, Waiting
<1>4. ASSUME NEW p \in Dispatcher, NEW ids \in SUBSET Delivery, Claim(p, ids)
      PROVE  row'[e].attempts <= Budget' /\ (Waiting(e)' => row'[e].attempts < Budget')
  <2>1. CASE e \in ids
    <3>1. Waiting(e)
      BY <1>4, <2>1 DEF Claim, Claimable, Waiting
    <3>2. row'[e].attempts = row[e].attempts + 1
      BY <1>4, <2>1, <1>a DEF Claim, AfterClaim, Row
    <3>3. ~Waiting(e)'
      BY <1>4, <2>1, <1>a DEF Claim, AfterClaim, Row, Waiting, Held
    <3> QED BY <1>0, <1>a, <3>1, <3>2, <3>3
  <2>2. CASE e \notin ids
    <3>1. row'[e] = row[e] /\ (Held(e) => Held(e)')
      BY <1>4, <2>2 DEF Claim, Held
    <3> QED BY <1>e, <3>1 DEF Waiting
  <2> QED BY <2>1, <2>2
<1>5. ASSUME NEW p \in Dispatcher, NEW d \in Delivery, NEW o \in Outcome, Send(p, d, o)
      PROVE  row'[e].attempts = row[e].attempts /\ (Waiting(e)' => Waiting(e))
  BY <1>5 DEF Send, Held, Waiting
<1>6. ASSUME NEW p \in Dispatcher, Record(p)
      PROVE  row'[e].attempts <= Budget' /\ (Waiting(e)' => row'[e].attempts < Budget')
  <2>1. CASE e # answer[p].id \/ row[e].state = "gone"
    <3>1. row'[e] = row[e]
      BY <1>6, <2>1, RecordWrites
    <3>2. CASE row[e].state = "gone"
      BY <1>e, <3>1, <3>2 DEF Waiting
    <3>3. CASE e # answer[p].id
      <4>1. Held(e) => Held(e)'
        BY <1>6, <3>3 DEF Record, Held
      <4> QED BY <1>e, <3>1, <4>1 DEF Waiting
    <3> QED BY <2>1, <3>2, <3>3
  <2>2. CASE e = answer[p].id /\ row[e].state # "gone"
    <3> DEFINE o == answer[p].outcome
    <3>1. /\ o \in Outcome
          /\ row'[e] = IF o = "ok" THEN AfterSent(row[e]) ELSE AfterFailed(row[e], o)
      BY <2>2, <1>6, RecordWrites
    <3> HIDE DEF o
    <3>2. CASE o = "ok"
      <4>1. row'[e].state = "sent" /\ row'[e].attempts = row[e].attempts
        BY <1>a, <3>1, <3>2, RecordedStates
      <4> QED BY <1>e, <4>1 DEF Waiting
    <3>3. CASE o # "ok"
      <4>1. /\ row'[e].attempts \in Nat
            /\ row'[e].attempts <= row[e].attempts
            /\ row'[e].state = "pending" => \/ row'[e].attempts < MaxAttempts
                                            \/ row'[e].attempts < row[e].attempts
        BY <1>a, <3>1, <3>3, RecordedStates
      <4>2. row'[e].attempts <= Budget' /\ (row'[e].state = "pending" => row'[e].attempts < Budget')
        BY <4>1, <1>0, <1>a, <1>b, <1>c
      <4> QED BY <4>2 DEF Waiting
    <3> QED BY <3>2, <3>3
  <2> QED BY <2>1, <2>2
<1>7. ASSUME NEW p \in Dispatcher, Abandon(p)
      PROVE  row'[e].attempts <= Budget' /\ (Waiting(e)' => row'[e].attempts < Budget')
  <2>1. row' = row /\ Budget' = Budget + 1
    BY <1>7, <1>b DEF Abandon, Budget
  <2> QED BY <1>0, <1>a, <2>1
<1>8. ASSUME NEW d \in Delivery, LeaseExpires(d)
      PROVE  row'[e].attempts <= Budget' /\ (Waiting(e)' => row'[e].attempts < Budget')
  <2>1. row'[e].attempts = row[e].attempts /\ row'[e].state = row[e].state
    BY <1>8 DEF LeaseExpires, Row
  <2>2. CASE Held(d)
    <3>1. Budget' = Budget + 1
      BY <1>8, <2>2, <1>b DEF LeaseExpires, Budget
    <3> QED BY <1>0, <1>a, <2>1, <3>1
  <2>3. CASE ~Held(d)
    <3>1. Waiting(e)' => Waiting(e)
      BY <1>8, <2>1, <2>3 DEF LeaseExpires, Held, Waiting, Row
    <3> QED BY <1>e, <2>1, <3>1
  <2> QED BY <2>2, <2>3
<1>9. ASSUME NEW d \in Delivery, BackoffElapses(d)
      PROVE  row'[e].attempts = row[e].attempts /\ (Waiting(e)' => Waiting(e))
  BY <1>9 DEF BackoffElapses, Held, Waiting, Row
<1>10. ASSUME NEW d \in Delivery, QuotaWindowPasses(d)
       PROVE  row'[e].attempts = row[e].attempts /\ (Waiting(e)' => Waiting(e))
  BY <1>10 DEF QuotaWindowPasses, Held, Waiting, Row
<1>11. ASSUME UNCHANGED vars
       PROVE  row'[e].attempts = row[e].attempts /\ (Waiting(e)' => Waiting(e))
  BY <1>11 DEF vars, Held, Waiting
<1> QED BY <1>d, <1>e, <1>1, <1>2, <1>3, <1>4, <1>5, <1>6, <1>7, <1>8, <1>9, <1>10, <1>11 DEF Next

(* A delivery is attempted at most max_attempts times, plus once for every *)
(* pass that died and every lease that was overrun: the refund of          *)
(* quota_exhausted never buys more, nor does a stale record.               *)
THEOREM BoundedAttempts == Spec => []AttemptsWithinBudget
<1>1. Init => AttemptLeft
  BY MaxAttemptsType DEF Init, AttemptLeft, Budget, NoRow, Waiting
<1>2. Base /\ AttemptLeft /\ [Next]_vars => AttemptLeft'
  BY NextAttemptLeft
<1>3. AttemptLeft => AttemptsWithinBudget
  BY DEF AttemptLeft, AttemptsWithinBudget, Budget
<1> QED BY <1>1, <1>2, <1>3, AlwaysBase, PTL DEF Spec

(***************************************************************************)
(* Duplicates.                                                             *)
(***************************************************************************)

(* The passes that may still send a row they hold.                         *)
Senders(d) == {p \in Dispatcher : d \in batch[p] /\ answer[p] # [id |-> d, outcome |-> "ok"]}

(* Whether a pass may still come for a row, or it may still be queued.     *)
Open(d) == IF Unused(d) \/ Waiting(d) THEN 1 ELSE 0

(* What may make the message of a row go out again.                        *)
Causes(d) == 1 + ambiguous[d] + abandoned + overruns

(* How often the message of a row went out, and how often it still can     *)
(* without another cause.                                                  *)
SendsAreAccounted == \A d \in Delivery : accepted[d] + Cardinality(Senders(d)) + Open(d) <= Causes(d)

LEMMA SendersAreFinite ==
  ASSUME NEW d PROVE IsFiniteSet(Senders(d)) /\ Cardinality(Senders(d)) \in Nat
BY PassesAreFinite, FS_Subset, FS_CardinalityType DEF Senders

LEMMA SendersAreFiniteNext ==
  ASSUME NEW d PROVE IsFiniteSet(Senders(d)') /\ Cardinality(Senders(d)') \in Nat
BY PassesAreFinite, FS_Subset, FS_CardinalityType DEF Senders

(* Counting passes: no more when none is added, one less when one goes,    *)
(* one more when one comes.                                                *)
LEMMA FewerSenders ==
  ASSUME NEW S, NEW T, IsFiniteSet(T), S \subseteq T
  PROVE  Cardinality(S) <= Cardinality(T)
BY FS_Subset

LEMMA OneSenderLess ==
  ASSUME NEW S, NEW T, IsFiniteSet(T), NEW p \in T, S \subseteq T \ {p}
  PROVE  Cardinality(S) + 1 <= Cardinality(T)
<1>1. /\ IsFiniteSet(T \ {p})
      /\ Cardinality(T \ {p}) = Cardinality(T) - 1
  BY FS_RemoveElement
<1>2. Cardinality(S) <= Cardinality(T \ {p})
  BY <1>1, FS_Subset
<1>3. Cardinality(S) \in Nat /\ Cardinality(T) \in Nat
  BY <1>1, FS_Subset, FS_CardinalityType
<1> QED BY <1>1, <1>2, <1>3

LEMMA OneSenderMore ==
  ASSUME NEW S, NEW T, IsFiniteSet(T), NEW p, S \subseteq T \cup {p}
  PROVE  Cardinality(S) <= Cardinality(T) + 1
<1>1. /\ IsFiniteSet(T \cup {p})
      /\ Cardinality(T \cup {p}) <= Cardinality(T) + 1
  <2>1. CASE p \in T
    <3>1. T \cup {p} = T
      BY <2>1
    <3>2. Cardinality(T) \in Nat
      BY FS_CardinalityType
    <3> QED BY <3>1, <3>2
  <2>2. CASE p \notin T
    <3>1. /\ IsFiniteSet(T \cup {p})
          /\ Cardinality(T \cup {p}) = Cardinality(T) + 1
      BY <2>2, FS_AddElement
    <3>2. Cardinality(T) \in Nat
      BY FS_CardinalityType
    <3> QED BY <3>1, <3>2
  <2> QED BY <2>1, <2>2
<1>2. Cardinality(S) <= Cardinality(T \cup {p})
  BY <1>1, FS_Subset
<1>3. Cardinality(S) \in Nat /\ Cardinality(T) \in Nat /\ Cardinality(T \cup {p}) \in Nat
  BY <1>1, FS_Subset, FS_CardinalityType
<1> QED BY <1>1, <1>2, <1>3

LEMMA CountsAreTyped ==
  ASSUME TypeOK, NEW d \in Delivery
  PROVE  /\ accepted[d] \in Nat /\ ambiguous[d] \in Nat /\ abandoned \in Nat /\ overruns \in Nat
         /\ Open(d) \in 0..1 /\ Open(d)' \in 0..1
BY BoundsType DEF TypeOK, Open

(* A step that sends nothing, adds no pass and opens nothing.              *)
LEMMA NothingIsSent ==
  ASSUME TypeOK, SendsAreAccounted, NEW d \in Delivery,
         UNCHANGED <<accepted, ambiguous, abandoned, overruns>>,
         Senders(d)' \subseteq Senders(d), Open(d)' <= Open(d)
  PROVE  accepted'[d] + Cardinality(Senders(d)') + Open(d)' <= Causes(d)'
<1>1. Cardinality(Senders(d)') <= Cardinality(Senders(d))
  BY SendersAreFinite, FewerSenders
<1>2. Cardinality(Senders(d)) \in Nat /\ Cardinality(Senders(d)') \in Nat
  BY SendersAreFinite, SendersAreFiniteNext
<1>3. accepted[d] + Cardinality(Senders(d)) + Open(d) <= Causes(d) /\ Causes(d) \in Nat
  BY CountsAreTyped DEF SendsAreAccounted, Causes
<1>4. Causes(d)' = Causes(d) /\ accepted'[d] = accepted[d]
  BY DEF Causes
<1> QED BY <1>1, <1>2, <1>3, <1>4, CountsAreTyped

LEMMA NextAccounted == Base /\ SendsAreAccounted /\ [Next]_vars => SendsAreAccounted'
<1> SUFFICES ASSUME Base, SendsAreAccounted, [Next]_vars, NEW e \in Delivery
             PROVE  accepted'[e] + Cardinality(Senders(e)') + Open(e)' <= Causes(e)'
  BY DEF SendsAreAccounted
<1> DEFINE Goal == accepted'[e] + Cardinality(Senders(e)') + Open(e)' <= Causes(e)'
<1>a. /\ accepted[e] \in Nat /\ ambiguous[e] \in Nat /\ abandoned \in Nat /\ overruns \in Nat
      /\ Open(e) \in 0..1 /\ Open(e)' \in 0..1
      /\ Cardinality(Senders(e)) \in Nat /\ Cardinality(Senders(e)') \in Nat
  BY CountsAreTyped, SendersAreFinite, SendersAreFiniteNext DEF Base
<1>b. accepted[e] + Cardinality(Senders(e)) + Open(e) <= 1 + ambiguous[e] + abandoned + overruns
  BY DEF SendsAreAccounted, Causes
<1>c. row[e] \in Row
  BY DEF Base, TypeOK
<1> USE DEF Base, TypeOK
<1>1. ASSUME NEW d \in Delivery, NEW t \in BOOLEAN, Enqueue(d, t) PROVE Goal
  <2>1. Senders(e)' = Senders(e)
    BY <1>1 DEF Enqueue, Senders
  <2>2. Open(e)' <= Open(e)
    <3>1. (Unused(e) \/ Waiting(e))' => Unused(e) \/ Waiting(e)
      BY <1>1 DEF Enqueue, Unused, NewRow, NoRow, Waiting, Held
    <3> QED BY <3>1, <1>a DEF Open
  <2> QED BY <1>1, <2>1, <2>2, NothingIsSent DEF Enqueue
<1>2. ASSUME NEW d \in Delivery, NEW c \in Delivery, Resend(d, c) PROVE Goal
  <2>1. Senders(e)' = Senders(e)
    BY <1>2 DEF Resend, Senders
  <2>2. Open(e)' <= Open(e)
    <3>1. (Unused(e) \/ Waiting(e))' => Unused(e) \/ Waiting(e)
      BY <1>2 DEF Resend, Unused, NewRow, NoRow, Waiting, Held
    <3> QED BY <3>1, <1>a DEF Open
  <2> QED BY <1>2, <2>1, <2>2, NothingIsSent DEF Resend
<1>3. ASSUME NEW u \in User, EraseUser(u) PROVE Goal
  <2>1. Senders(e)' = Senders(e)
    BY <1>3 DEF EraseUser, Senders
  <2>2. Open(e)' <= Open(e)
    <3>1. (Unused(e) \/ Waiting(e))' => Unused(e) \/ Waiting(e)
      BY <1>3 DEF EraseUser, Unused, Gone, NoRow, Waiting, Held
    <3> QED BY <3>1, <1>a DEF Open
  <2> QED BY <1>3, <2>1, <2>2, NothingIsSent DEF EraseUser
<1>4. ASSUME NEW p \in Dispatcher, NEW ids \in SUBSET Delivery, Claim(p, ids) PROVE Goal
  <2>1. CASE e \in ids
    <3>1. Senders(e)' \subseteq Senders(e) \cup {p}
      BY <1>4 DEF Claim, Senders
    <3>2. Cardinality(Senders(e)') <= Cardinality(Senders(e)) + 1
      BY <3>1, SendersAreFinite, OneSenderMore
    <3>3. Open(e) = 1
      BY <1>4, <2>1 DEF Claim, Claimable, Waiting, Open
    <3>4. Open(e)' = 0
      BY <1>4, <2>1, <1>c DEF Claim, Claimable, AfterClaim, Row, Waiting, Held, Unused, Open
    <3>5. accepted'[e] = accepted[e] /\ Causes(e)' = 1 + ambiguous[e] + abandoned + overruns
      BY <1>4 DEF Claim, Causes
    <3> HIDE DEF Base, TypeOK
    <3> QED BY <1>a, <1>b, <3>2, <3>3, <3>4, <3>5
  <2>2. CASE e \notin ids
    <3>1. Senders(e)' = Senders(e)
      BY <1>4, <2>2 DEF Claim, Senders
    <3>2. Open(e)' <= Open(e)
      <4>1. (Unused(e) \/ Waiting(e))' => Unused(e) \/ Waiting(e)
        BY <1>4, <2>2 DEF Claim, Unused, Waiting, Held
      <4> QED BY <4>1, <1>a DEF Open
    <3> QED BY <1>4, <3>1, <3>2, NothingIsSent DEF Claim
  <2> QED BY <2>1, <2>2
<1>5. ASSUME NEW p \in Dispatcher, NEW d \in Delivery, NEW o \in Outcome, Send(p, d, o) PROVE Goal
  <2>1. Open(e)' = Open(e)
    BY <1>5 DEF Send, Open, Unused, Waiting, Held
  <2>2. Senders(e)' \subseteq Senders(e)
    <3> SUFFICES ASSUME NEW q \in Senders(e)' PROVE q \in Senders(e)
      OBVIOUS
    <3>1. q \in Dispatcher /\ e \in batch[q] /\ answer'[q] # [id |-> e, outcome |-> "ok"]
      BY <1>5 DEF Send, Senders
    <3>2. CASE q = p
      <4>1. answer[q] = [id |-> None, outcome |-> "ok"]
        BY <1>5, <3>2 DEF Send, NoAnswer
      <4> QED BY <3>1, <4>1, NoneIsNoId DEF Senders
    <3>3. CASE q # p
      BY <1>5, <3>1, <3>3 DEF Send, Senders
    <3> QED BY <3>2, <3>3
  <2>3. CASE e = d /\ o = "ok"
    <3>1. p \in Senders(e)
      BY <1>5, <2>3, NoneIsNoId DEF Send, Senders, NoAnswer
    <3>2. p \notin Senders(e)'
      BY <1>5, <2>3 DEF Send, Senders
    <3>3. Cardinality(Senders(e)') + 1 <= Cardinality(Senders(e))
      BY <2>2, <3>1, <3>2, SendersAreFinite, OneSenderLess
    <3>4. accepted'[e] = accepted[e] + 1 /\ Causes(e)' = 1 + ambiguous[e] + abandoned + overruns
      BY <1>5, <2>3 DEF Send, Causes
    <3> HIDE DEF Base, TypeOK
    <3> QED BY <1>a, <1>b, <2>1, <3>3, <3>4
  <2>4. CASE e = d /\ o = "ambiguous"
    <3>1. Cardinality(Senders(e)') <= Cardinality(Senders(e))
      BY <2>2, SendersAreFinite, FewerSenders
    <3>2. accepted'[e] = accepted[e] + 1 /\ ambiguous'[e] = ambiguous[e] + 1
      BY <1>5, <2>4 DEF Send
    <3>3. Causes(e)' = 1 + ambiguous'[e] + abandoned + overruns
      BY <1>5 DEF Send, Causes
    <3> HIDE DEF Base, TypeOK
    <3> QED BY <1>a, <1>b, <2>1, <3>1, <3>2, <3>3
  <2>5. CASE ~(e = d /\ o \in {"ok", "ambiguous"})
    <3>1. Cardinality(Senders(e)') <= Cardinality(Senders(e))
      BY <2>2, SendersAreFinite, FewerSenders
    <3>2. accepted'[e] = accepted[e] /\ ambiguous'[e] = ambiguous[e]
      BY <1>5, <2>5 DEF Send
    <3>3. Causes(e)' = 1 + ambiguous'[e] + abandoned + overruns
      BY <1>5 DEF Send, Causes
    <3> HIDE DEF Base, TypeOK
    <3> QED BY <1>a, <1>b, <2>1, <3>1, <3>2, <3>3
  <2> QED BY <2>3, <2>4, <2>5
<1>6. ASSUME NEW p \in Dispatcher, Record(p) PROVE Goal
  <2>0. UNCHANGED <<accepted, ambiguous, abandoned, overruns>>
    BY <1>6 DEF Record
  <2>1. Senders(e)' \subseteq Senders(e) \ (IF e = answer[p].id THEN {p} ELSE {})
    BY <1>6 DEF Record, Senders, NoAnswer
  <2>2. CASE e # answer[p].id
    <3>1. row'[e] = row[e] /\ (Held(e) => Held(e)')
      BY <1>6, <2>2, RecordWrites DEF Record, Held
    <3>2. Open(e)' <= Open(e)
      <4>1. (Unused(e) \/ Waiting(e))' => Unused(e) \/ Waiting(e)
        BY <3>1 DEF Unused, Waiting
      <4> QED BY <4>1, <1>a DEF Open
    <3> QED BY <2>0, <2>1, <3>2, NothingIsSent
  <2>3. CASE e = answer[p].id /\ Open(e)' = 0
    <3>1. Open(e)' <= Open(e)
      BY <2>3, <1>a
    <3> QED BY <2>0, <2>1, <3>1, NothingIsSent
  <2>4. CASE e = answer[p].id /\ Open(e)' # 0
    <3> DEFINE o == answer[p].outcome
    <3>1. /\ o \in Outcome /\ e \in batch[p] /\ ~Unused(e)
          /\ row[e].state = "gone" => row'[e] = row[e]
          /\ row[e].state # "gone" =>
               row'[e] = IF o = "ok" THEN AfterSent(row[e]) ELSE AfterFailed(row[e], o)
      BY <2>4, <1>6, RecordWrites
    <3>2. row'[e].state \in {"absent", "pending"}
      BY <2>4 DEF Open, Unused, Waiting
    <3>3. o # "ok"
      BY <3>1, <3>2, <1>c, RecordedStates DEF Unused
    <3>4. p \in Senders(e)
      BY <3>1, <3>3, <2>4 DEF Senders
    <3>5. Cardinality(Senders(e)') + 1 <= Cardinality(Senders(e))
      BY <2>1, <2>4, <3>4, SendersAreFinite, OneSenderLess
    <3>6. accepted'[e] = accepted[e] /\ Causes(e)' = 1 + ambiguous[e] + abandoned + overruns
      BY <2>0 DEF Causes
    <3> HIDE DEF Base, TypeOK
    <3> QED BY <1>a, <1>b, <3>5, <3>6
  <2> QED BY <2>2, <2>3, <2>4
<1>7. ASSUME NEW p \in Dispatcher, Abandon(p) PROVE Goal
  <2>1. Senders(e)' \subseteq Senders(e)
    BY <1>7 DEF Abandon, Senders
  <2>2. Cardinality(Senders(e)') <= Cardinality(Senders(e))
    BY <2>1, SendersAreFinite, FewerSenders
  <2>3. accepted'[e] = accepted[e] /\ Causes(e)' = 1 + ambiguous[e] + (abandoned + 1) + overruns
    BY <1>7 DEF Abandon, Causes
  <2> HIDE DEF Base, TypeOK
  <2> QED BY <1>a, <1>b, <2>2, <2>3
<1>8. ASSUME NEW d \in Delivery, LeaseExpires(d) PROVE Goal
  <2>1. Senders(e)' = Senders(e)
    BY <1>8 DEF LeaseExpires, Senders
  <2>2. CASE Held(d)
    <3>1. accepted'[e] = accepted[e] /\ Causes(e)' = 1 + ambiguous[e] + abandoned + (overruns + 1)
      BY <1>8, <2>2 DEF LeaseExpires, Causes
    <3> HIDE DEF Base, TypeOK
    <3> QED BY <1>a, <1>b, <2>1, <3>1
  <2>3. CASE ~Held(d)
    <3>1. Open(e)' <= Open(e)
      <4>1. (Unused(e) \/ Waiting(e))' => Unused(e) \/ Waiting(e)
        BY <1>8, <2>3 DEF LeaseExpires, Held, Waiting, Unused, Row
      <4> QED BY <4>1, <1>a DEF Open
    <3>2. UNCHANGED <<accepted, ambiguous, abandoned, overruns>>
      BY <1>8, <2>3 DEF LeaseExpires
    <3> QED BY <2>1, <3>1, <3>2, NothingIsSent
  <2> QED BY <2>2, <2>3
<1>9. ASSUME NEW d \in Delivery, BackoffElapses(d) PROVE Goal
  <2>1. Senders(e)' = Senders(e)
    BY <1>9 DEF BackoffElapses, Senders
  <2>2. Open(e)' <= Open(e)
    <3>1. (Unused(e) \/ Waiting(e))' => Unused(e) \/ Waiting(e)
      BY <1>9 DEF BackoffElapses, Held, Waiting, Unused, Row
    <3> QED BY <3>1, <1>a DEF Open
  <2> QED BY <1>9, <2>1, <2>2, NothingIsSent DEF BackoffElapses
<1>10. ASSUME NEW d \in Delivery, QuotaWindowPasses(d) PROVE Goal
  <2>1. Senders(e)' = Senders(e)
    BY <1>10 DEF QuotaWindowPasses, Senders
  <2>2. Open(e)' <= Open(e)
    <3>1. (Unused(e) \/ Waiting(e))' => Unused(e) \/ Waiting(e)
      BY <1>10 DEF QuotaWindowPasses, Held, Waiting, Unused, Row
    <3> QED BY <3>1, <1>a DEF Open
  <2> QED BY <1>10, <2>1, <2>2, NothingIsSent DEF QuotaWindowPasses
<1>11. CASE UNCHANGED vars
  <2>1. Senders(e)' = Senders(e) /\ Open(e)' = Open(e)
    BY <1>11 DEF vars, Senders, Open, Unused, Waiting, Held
  <2> QED BY <1>11, <2>1, <1>a, NothingIsSent DEF vars
<1> QED BY <1>1, <1>2, <1>3, <1>4, <1>5, <1>6, <1>7, <1>8, <1>9, <1>10, <1>11 DEF Next

(* A second copy of a message needs a lost answer, a pass that died or a   *)
(* lease that was overrun, whatever else happens to the row.               *)
THEOREM DuplicatesNeedACause == Spec => []DuplicatesHaveACause
<1>1. Init => SendsAreAccounted
  <2> SUFFICES ASSUME Init, NEW d \in Delivery
               PROVE  accepted[d] + Cardinality(Senders(d)) + Open(d) <= Causes(d)
    BY DEF SendsAreAccounted
  <2>1. Senders(d) = {}
    BY DEF Init, Senders
  <2>2. Cardinality(Senders(d)) = 0
    BY <2>1, FS_EmptySet
  <2>3. accepted[d] = 0 /\ ambiguous[d] = 0 /\ abandoned = 0 /\ overruns = 0 /\ Open(d) \in 0..1
    BY DEF Init, Open
  <2> QED BY <2>2, <2>3 DEF Causes
<1>2. Base /\ SendsAreAccounted /\ [Next]_vars => SendsAreAccounted'
  BY NextAccounted
<1>3. Base /\ SendsAreAccounted => DuplicatesHaveACause
  <2> SUFFICES ASSUME Base, SendsAreAccounted, NEW d \in Delivery
               PROVE  accepted[d] <= 1 + ambiguous[d] + abandoned + overruns
    BY DEF DuplicatesHaveACause
  <2>1. accepted[d] + Cardinality(Senders(d)) + Open(d) <= 1 + ambiguous[d] + abandoned + overruns
    BY DEF SendsAreAccounted, Causes
  <2>2. Cardinality(Senders(d)) \in Nat /\ Open(d) \in 0..1
    BY SendersAreFinite DEF Open
  <2>3. accepted[d] \in Nat /\ ambiguous[d] \in Nat /\ abandoned \in Nat /\ overruns \in Nat
    BY CountsAreTyped DEF Base
  <2> QED BY <2>1, <2>2, <2>3
<1> QED BY <1>1, <1>2, <1>3, AlwaysBase, PTL DEF Spec

(***************************************************************************)
(* Refinement of DeliveryContract, when no lease is overrun.               *)
(***************************************************************************)

(* A message goes out only for a row that is queued, or was erased under   *)
(* the pass that holds it.                                                 *)
LEMMA SendTakes ==
  ASSUME Base, ClaimsAreExclusive, overruns = 0,
         NEW p \in Dispatcher, NEW d \in Delivery, NEW o \in Outcome, Send(p, d, o)
  PROVE  Contract!Next \/ UNCHANGED Contract!vars
<1>1. Status[d] \in {"queued", "gone"}
  BY DEF ClaimsAreExclusive, Send, Status
<1>2. Status' = Status
  BY DEF Send, Status
<1>3. CASE o \in {"ok", "ambiguous"}
  <2>1. accepted' = [accepted EXCEPT ![d] = @ + 1]
    BY <1>3 DEF Send
  <2>2. Contract!Take(d)
    BY <1>1, <1>2, <2>1 DEF Contract!Take
  <2> QED BY <2>2 DEF Contract!Next
<1>4. CASE o \notin {"ok", "ambiguous"}
  <2>1. accepted' = accepted
    BY <1>4 DEF Send, Base, TypeOK
  <2> QED BY <1>2, <2>1 DEF Contract!vars
<1> QED BY <1>3, <1>4

(* Recording an answer settles the row, or leaves it queued.               *)
LEMMA RecordSettles ==
  ASSUME Base, ClaimsAreExclusive, overruns = 0, NEW p \in Dispatcher, Record(p)
  PROVE  Contract!Next \/ UNCHANGED Contract!vars
<1> DEFINE d == answer[p].id
           o == answer[p].outcome
<1>1. /\ d \in Delivery /\ o \in Outcome /\ d \in batch[p]
      /\ accepted' = accepted
      /\ \A e \in Delivery : e # d => row'[e] = row[e]
  BY RecordWrites
<1>2. row[d].state = "gone" \/ row[d].state = "pending"
  BY <1>1 DEF ClaimsAreExclusive
<1>3. row[d] \in Row /\ row' \in [Delivery -> Row]
  <2>1. TypeOK'
    BY NextTyped DEF Base, Next
  <2> QED BY <1>1, <2>1 DEF Base, TypeOK
<1>4. CASE row[d].state = "gone"
  <2>1. \A e \in Delivery : row'[e] = row[e]
    BY <1>1, <1>4, RecordWrites
  <2>2. Status' = Status
    BY <2>1 DEF Status
  <2> QED BY <1>1, <2>2 DEF Contract!vars
<1>5. CASE row[d].state = "pending"
  <2>1. row'[d] = IF o = "ok" THEN AfterSent(row[d]) ELSE AfterFailed(row[d], o)
    BY <1>5, RecordWrites
  <2>2. row'[d].state \in {"pending", "sent", "undeliverable", "dead"}
    BY <1>1, <1>3, <2>1, RecordedStates
  <2>3. o = "ok" => accepted[d] > 0
    BY DEF Base, InHand, Record
  <2>4. row'[d].state = "sent" => o = "ok"
    BY <1>1, <1>3, <2>1, RecordedStates
  <2> HIDE DEF d, o
  <2>5. Status[d] = "queued"
    BY <1>1, <1>5 DEF Status
  <2>6. \A e \in Delivery : e # d => Status'[e] = Status[e]
    BY <1>1 DEF Status
  <2>7. Status'[d] = CASE row'[d].state = "pending" -> "queued"
                       [] row'[d].state \in {"undeliverable", "dead"} -> "failed"
                       [] OTHER -> row'[d].state
    BY <1>1 DEF Status
  <2>8. Status' = [Status EXCEPT ![d] = Status'[d]]
    BY <1>1, <2>6 DEF Status
  <2>9. CASE row'[d].state = "pending"
    <3>1. Status' = Status
      BY <2>5, <2>7, <2>8, <2>9 DEF Status
    <3> QED BY <1>1, <3>1 DEF Contract!vars
  <2>10. CASE row'[d].state = "sent"
    <3>1. Contract!Settle(d, "sent")
      BY <1>1, <2>3, <2>4, <2>5, <2>7, <2>8, <2>10 DEF Contract!Settle
    <3> QED BY <1>1, <3>1 DEF Contract!Next
  <2>11. CASE row'[d].state \in {"undeliverable", "dead"}
    <3>1. Contract!Settle(d, "failed")
      BY <1>1, <2>5, <2>7, <2>8, <2>11 DEF Contract!Settle
    <3> QED BY <1>1, <3>1 DEF Contract!Next
  <2> QED BY <2>2, <2>9, <2>10, <2>11
<1> QED BY <1>2, <1>4, <1>5

LEMMA StepRefines ==
  ASSUME Base, ClaimsAreExclusive, overruns = 0, [Next]_vars
  PROVE  Contract!Next \/ UNCHANGED Contract!vars
<1> USE DEF Base, TypeOK
<1>1. ASSUME NEW d \in Delivery, NEW t \in BOOLEAN, Enqueue(d, t)
      PROVE  Contract!Next
  <2>1. Contract!Queue(d)
    BY <1>1 DEF Enqueue, Unused, NewRow, NoRow, Status, Contract!Queue
  <2> QED BY <2>1 DEF Contract!Next
<1>2. ASSUME NEW d \in Delivery, NEW c \in Delivery, Resend(d, c)
      PROVE  Contract!Next
  <2>1. Contract!Queue(c)
    BY <1>2 DEF Resend, Unused, NewRow, NoRow, Status, Contract!Queue
  <2> QED BY <2>1 DEF Contract!Next
<1>3. ASSUME NEW u \in User, EraseUser(u) PROVE Contract!Next
  <2> DEFINE ids == {d \in Delivery : UserOf[d] = u /\ Exists(d)}
  <2>1. \A d \in ids : Status[d] \in {"queued", "sent", "failed"}
    BY DEF Exists, Status, Row
  <2>2. Status' = [d \in Delivery |-> IF d \in ids THEN "gone" ELSE Status[d]]
    BY <1>3 DEF EraseUser, Gone, NoRow, Status
  <2>3. Contract!Erase(ids)
    BY <1>3, <2>1, <2>2 DEF EraseUser, Contract!Erase
  <2> QED BY <2>3 DEF Contract!Next
<1>4. ASSUME NEW p \in Dispatcher, NEW ids \in SUBSET Delivery, Claim(p, ids)
      PROVE  UNCHANGED Contract!vars
  <2>1. \A d \in Delivery : row'[d].state = row[d].state
    BY <1>4 DEF Claim, AfterClaim, Row
  <2> QED BY <1>4, <2>1 DEF Claim, Status, Contract!vars
<1>5. ASSUME NEW p \in Dispatcher, NEW d \in Delivery, NEW o \in Outcome, Send(p, d, o)
      PROVE  Contract!Next \/ UNCHANGED Contract!vars
  BY <1>5, SendTakes
<1>6. ASSUME NEW p \in Dispatcher, Record(p)
      PROVE  Contract!Next \/ UNCHANGED Contract!vars
  BY <1>6, RecordSettles
<1>7. ASSUME NEW p \in Dispatcher, Abandon(p) PROVE UNCHANGED Contract!vars
  BY <1>7 DEF Abandon, Status, Contract!vars
<1>8. ASSUME NEW d \in Delivery, LeaseExpires(d) PROVE UNCHANGED Contract!vars
  <2>1. \A e \in Delivery : row'[e].state = row[e].state
    BY <1>8 DEF LeaseExpires, Row
  <2> QED BY <1>8, <2>1 DEF LeaseExpires, Status, Contract!vars
<1>9. ASSUME NEW d \in Delivery, BackoffElapses(d) PROVE UNCHANGED Contract!vars
  <2>1. \A e \in Delivery : row'[e].state = row[e].state
    BY <1>9 DEF BackoffElapses, Row
  <2> QED BY <1>9, <2>1 DEF BackoffElapses, Status, Contract!vars
<1>10. ASSUME NEW d \in Delivery, QuotaWindowPasses(d) PROVE UNCHANGED Contract!vars
  <2>1. \A e \in Delivery : row'[e].state = row[e].state
    BY <1>10 DEF QuotaWindowPasses, Row
  <2> QED BY <1>10, <2>1 DEF QuotaWindowPasses, Status, Contract!vars
<1>11. CASE UNCHANGED vars
  BY <1>11 DEF vars, Status, Contract!vars
<1> QED BY <1>1, <1>2, <1>3, <1>4, <1>5, <1>6, <1>7, <1>8, <1>9, <1>10, <1>11 DEF Next

(* Leases, batches, retries, refunds and crashes are invisible from the    *)
(* outside: where no lease is overrun, every behaviour of the queue is one *)
(* in which each delivery is queued once, settles once and never goes out  *)
(* after it settled.                                                       *)
THEOREM ImplementsContract == ASSUME MaxOverruns = 0 PROVE Spec => RefinesContract
<1>1. Init => Contract!Init
  BY DEF Init, NoRow, Status, Contract!Init
<1>2. Base /\ ClaimsAreExclusive /\ [Next]_vars => [Contract!Next]_(Contract!vars)
  <2>1. Base => overruns = 0
    BY DEF Base, TypeOK
  <2> QED BY <2>1, StepRefines
<1> QED BY <1>1, <1>2, AlwaysBase, ExclusiveClaims, PTL DEF Spec, RefinesContract, Contract!Spec

(***************************************************************************)
(* Where no lease is overrun an outcome is final, which the contract says  *)
(* of `sent' and `failed' and this of each outcome by its name: the run    *)
(* dispatch_overrun needs its overrun.                                     *)
(***************************************************************************)
LEMMA OutcomeStays ==
  ASSUME Base, ClaimsAreExclusive, overruns = 0, [Next]_vars,
         NEW d \in Delivery, row[d].state \in Settled
  PROVE  row'[d].state \in {row[d].state, "gone"}
<1> USE DEF Base, TypeOK, Settled
<1>1. ASSUME NEW e \in Delivery, NEW t \in BOOLEAN, Enqueue(e, t)
      PROVE  row'[d].state = row[d].state
  BY <1>1 DEF Enqueue, Unused
<1>2. ASSUME NEW e \in Delivery, NEW c \in Delivery, Resend(e, c)
      PROVE  row'[d].state = row[d].state
  BY <1>2 DEF Resend, Unused
<1>3. ASSUME NEW u \in User, EraseUser(u) PROVE row'[d].state \in {row[d].state, "gone"}
  BY <1>3 DEF EraseUser, Gone, NoRow
<1>4. ASSUME NEW p \in Dispatcher, NEW ids \in SUBSET Delivery, Claim(p, ids)
      PROVE  row'[d].state = row[d].state
  BY <1>4 DEF Claim, Claimable
<1>5. ASSUME NEW p \in Dispatcher, Record(p) PROVE row'[d].state = row[d].state
  <2>1. answer[p].id \in batch[p] /\ \A e \in Delivery : e # answer[p].id => row'[e] = row[e]
    BY <1>5, RecordWrites
  <2>2. answer[p].id # d
    BY <2>1 DEF ClaimsAreExclusive
  <2> QED BY <2>1, <2>2
<1>6. ASSUME NEW e \in Delivery, LeaseExpires(e) \/ BackoffElapses(e) \/ QuotaWindowPasses(e)
      PROVE  row'[d].state = row[d].state
  BY <1>6 DEF LeaseExpires, BackoffElapses, QuotaWindowPasses, Row
<1>7. CASE UNCHANGED row
  BY <1>7
<1> QED BY <1>1, <1>2, <1>3, <1>4, <1>5, <1>6, <1>7 DEF Next, vars, Send, Abandon

(* An outcome that is recorded is taken back by no later answer, retry,    *)
(* resend or crash (src/src/notify/pipeline.ts:597-598).                   *)
THEOREM OutcomesAreFinal == ASSUME MaxOverruns = 0 PROVE Spec => SettledIsFinal
<1>1. Base => overruns = 0
  BY DEF Base, TypeOK
<1>2. Base /\ ClaimsAreExclusive /\ [Next]_vars =>
        \A d \in Delivery : row[d].state \in Settled => row'[d].state \in {row[d].state, "gone"}
  BY <1>1, OutcomeStays
<1> QED BY <1>2, AlwaysBase, ExclusiveClaims, PTL DEF Spec, SettledIsFinal
=============================================================================
