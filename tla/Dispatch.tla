------------------------------ MODULE Dispatch ------------------------------
(***************************************************************************)
(* The delivery queue of notify: the `deliveries' table of                 *)
(* src/src/notify/store.ts and the passes of `dispatchDue' (pipeline.ts)   *)
(* that drain it.                                                          *)
(*                                                                         *)
(* One pass claims a batch of due rows under a lease in a single           *)
(* statement, then sends them one after the other and records each outcome *)
(* in a statement of its own.  Several passes run at once (two replicas,   *)
(* or two runs of the dispatch job after the first lost its job lease); a  *)
(* pass can die between any two of its steps.                              *)
(*                                                                         *)
(* Time is abstracted to what the code reads off it.  `leased_until' is a  *)
(* lease that is absent, live or expired; `next_attempt_at' is a flag that *)
(* says whether it has been reached; `created_at' says whether the row is  *)
(* still inside QUOTA_WAIT_LIMIT.  Each elapses by a step of its own, so   *)
(* the rows of one batch may expire in any order.                          *)
(***************************************************************************)
EXTENDS Naturals, FiniteSets

CONSTANTS
  Delivery,      \* ids the table may ever use, those of resent copies included
  User,
  UserOf,        \* whose delivery an id is: deliveries.user_id
  Dispatcher,    \* passes of dispatchDue that may be under way at once
  MaxAttempts,   \* deliveries.max_attempts
  BatchSize,     \* the limit of one claim
  MaxAbandoned,  \* bound: passes that may die with a batch in hand
  MaxOverruns,   \* bound: leases that may expire while their pass still runs
  MaxErased      \* bound: erasures of a user that held rows

None == "none"

ASSUME UserOfType      == UserOf \in [Delivery -> User]
ASSUME MaxAttemptsType == MaxAttempts \in Nat \ {0}
ASSUME BatchSizeType   == BatchSize \in Nat \ {0}
ASSUME BoundsType      == /\ MaxAbandoned \in Nat
                          /\ MaxOverruns \in Nat
                          /\ MaxErased \in Nat
ASSUME NoneIsNoId      == None \notin Delivery
ASSUME PassesAreFinite == IsFiniteSet(Dispatcher)

VARIABLES
  row,        \* the deliveries table
  batch,      \* rows each pass has claimed and not yet recorded an outcome for
  answer,     \* what the adapter has just answered each pass, and for which row
  accepted,   \* history: how often a provider took the message of a delivery
  ambiguous,  \* history: how often it took it and the answer was lost
  abandoned,  \* how many passes have died with a batch in hand
  overruns,   \* how many leases have expired under a live pass
  erased      \* how many erasures have removed rows

vars == <<row, batch, answer, accepted, ambiguous, abandoned, overruns, erased>>
history == <<accepted, ambiguous>>

-----------------------------------------------------------------------------
(* Data.                                                                   *)

State == {"absent", "pending", "sent", "undeliverable", "dead", "gone"}
Settled == {"sent", "undeliverable", "dead"}

Row == [state    : State,
        attempts : Nat,
        lease    : {"none", "live", "expired"},
        due      : BOOLEAN,               \* next_attempt_at <= now()
        fresh    : BOOLEAN,               \* created_at > now() - 25 hours
        target   : BOOLEAN]               \* target_id is not null

NoRow == [state |-> "absent", attempts |-> 0, lease |-> "none", due |-> FALSE,
          fresh |-> FALSE, target |-> FALSE]

(* Erased; the id is never given out again.                                *)
Gone == [NoRow EXCEPT !.state = "gone"]

(* `insert into deliveries': every other column takes its default.         *)
NewRow(target) ==
  [NoRow EXCEPT !.state = "pending", !.due = TRUE, !.fresh = TRUE, !.target = target]

(***************************************************************************)
(* The answers of an adapter.  "permanent" is every refusal marked not     *)
(* retryable (rejected, no_address, no_transport, reserved_domain, ...)    *)
(* and the channel that has no adapter at all; "transient" is a retryable  *)
(* refusal, a timeout or a throw; "ambiguous" is a timeout or a dropped    *)
(* connection after the provider had taken the message; "quota" is         *)
(* quota_exhausted, the one answer that does not consume an attempt.       *)
(***************************************************************************)
Outcome == {"ok", "permanent", "transient", "ambiguous", "quota"}
Retryable(o) == o \in {"transient", "ambiguous", "quota"}
ConsumesAttempt(o) == o # "quota"

NoAnswer == [id |-> None, outcome |-> "ok"]
Answer == [id : Delivery, outcome : Outcome] \cup {NoAnswer}

Exists(d) == row[d].state \notin {"absent", "gone"}
Unused(d) == row[d].state = "absent"
Held(d) == \E p \in Dispatcher : d \in batch[p]

-----------------------------------------------------------------------------
(* The statements of store.ts.                                             *)

(* Faults: a claim that forgets the lease, and one that never takes over   *)
(* an expired one.                                                         *)
ClaimableLeased(r) == r.state = "pending" /\ r.due
ClaimableOnce(r) == r.state = "pending" /\ r.due /\ r.lease = "none"

Claimable(r) == r.state = "pending" /\ r.due /\ r.lease # "live"

(* `attempts' is charged here, not when the send fails.                    *)
AfterClaim(r) == [r EXCEPT !.lease = "live", !.attempts = @ + 1]

(* Fault: the lease is released and the state forgotten.                   *)
AfterSentReleased(r) == [r EXCEPT !.lease = "none"]

(* Conditional on the id alone: neither the owner nor the state is read.   *)
AfterSent(r) == [r EXCEPT !.state = "sent", !.lease = "none"]

Refunded(r, o) == ~ConsumesAttempt(o) /\ r.fresh

(* Faults: one attempt too many; every failure that is not refunded is the *)
(* last.                                                                   *)
AfterFailedLate(r, o) ==
  LET again == Retryable(o) /\ (Refunded(r, o) \/ r.attempts <= MaxAttempts)
  IN [r EXCEPT !.lease = "none", !.due = IF again THEN FALSE ELSE @,
               !.state = IF ~Retryable(o) THEN "undeliverable"
                         ELSE IF again THEN "pending" ELSE "dead"]
AfterFailedEarly(r, o) ==
  [r EXCEPT !.lease = "none",
            !.state = IF ~Retryable(o) THEN "undeliverable"
                      ELSE IF Refunded(r, o) THEN "pending" ELSE "dead"]
AfterFailed(r, o) ==
  LET refunded == Refunded(r, o)
      again    == Retryable(o) /\ (refunded \/ r.attempts < MaxAttempts)
  IN [r EXCEPT
        !.lease    = "none",
        !.attempts = IF refunded /\ @ > 0 THEN @ - 1 ELSE @,
        !.state    = IF ~Retryable(o) THEN "undeliverable"
                     ELSE IF again THEN "pending" ELSE "dead",
        !.due      = IF again THEN FALSE ELSE @]

Resendable(r) == r.state \in Settled /\ r.target

TypeOK ==
  /\ row \in [Delivery -> Row]
  /\ batch \in [Dispatcher -> SUBSET Delivery]
  /\ answer \in [Dispatcher -> Answer]
  /\ accepted \in [Delivery -> Nat]
  /\ ambiguous \in [Delivery -> Nat]
  /\ abandoned \in 0..MaxAbandoned
  /\ overruns \in 0..MaxOverruns
  /\ erased \in 0..MaxErased

Init ==
  /\ row = [d \in Delivery |-> NoRow]
  /\ batch = [p \in Dispatcher |-> {}]
  /\ answer = [p \in Dispatcher |-> NoAnswer]
  /\ accepted = [d \in Delivery |-> 0]
  /\ ambiguous = [d \in Delivery |-> 0]
  /\ abandoned = 0
  /\ overruns = 0
  /\ erased = 0

-----------------------------------------------------------------------------
(* What fills and empties the table from outside the dispatcher.           *)

(* The transaction that creates a notification inserts its deliveries.     *)
Enqueue(d, target) ==
  /\ Unused(d)
  /\ row' = [row EXCEPT ![d] = NewRow(target)]
  /\ UNCHANGED <<batch, answer, history, abandoned, overruns, erased>>

(* Fault: the settled row itself is queued again.                          *)
ResendInPlace(d, copy) ==
  /\ Resendable(row[d])
  /\ copy = d
  /\ row' = [row EXCEPT ![d] = NewRow(TRUE)]
  /\ UNCHANGED <<batch, answer, history, abandoned, overruns, erased>>

(* POST /admin/deliveries/:id/resend queues a copy beside a settled row.   *)
Resend(d, copy) ==
  /\ Resendable(row[d])
  /\ Unused(copy) /\ UserOf[copy] = UserOf[d]
  /\ row' = [row EXCEPT ![copy] = NewRow(TRUE)]
  /\ UNCHANGED <<batch, answer, history, abandoned, overruns, erased>>

(* identity.user.deleted: deliveries go with their notifications.  What a  *)
(* pass already read of them it still has.                                 *)
EraseUser(u) ==
  /\ erased < MaxErased
  /\ \E d \in Delivery : UserOf[d] = u /\ Exists(d)
  /\ row' = [d \in Delivery |-> IF UserOf[d] = u /\ Exists(d) THEN Gone ELSE row[d]]
  /\ erased' = erased + 1
  /\ UNCHANGED <<batch, answer, history, abandoned, overruns>>

-----------------------------------------------------------------------------
(* A dispatch pass.                                                        *)

(* claimDeliveries: one statement.  The limit and `skip locked' make the   *)
(* batch any non-empty part of what is due.                                *)
Claim(p, ids) ==
  /\ batch[p] = {}
  /\ ids # {} /\ Cardinality(ids) <= BatchSize
  /\ \A d \in ids : Claimable(row[d])
  /\ row' = [d \in Delivery |-> IF d \in ids THEN AfterClaim(row[d]) ELSE row[d]]
  /\ batch' = [batch EXCEPT ![p] = ids]
  /\ UNCHANGED <<answer, history, abandoned, overruns, erased>>

(* adapter.send, on the address read at claim time: the row is not read    *)
(* again, so the message may go out for a row that has changed or gone.    *)
Send(p, d, o) ==
  /\ d \in batch[p]
  /\ answer[p] = NoAnswer
  /\ answer' = [answer EXCEPT ![p] = [id |-> d, outcome |-> o]]
  /\ accepted' = [accepted EXCEPT ![d] = IF o \in {"ok", "ambiguous"} THEN @ + 1 ELSE @]
  /\ ambiguous' = [ambiguous EXCEPT ![d] = IF o = "ambiguous" THEN @ + 1 ELSE @]
  /\ UNCHANGED <<row, batch, abandoned, overruns, erased>>

(* markDeliverySent or markDeliveryFailed; an update of a row that was     *)
(* erased meanwhile touches nothing.                                       *)
Record(p) ==
  /\ answer[p] # NoAnswer
  /\ LET d == answer[p].id
         o == answer[p].outcome
     IN /\ row' = IF Exists(d)
                  THEN [row EXCEPT ![d] = IF o = "ok" THEN AfterSent(@)
                                                      ELSE AfterFailed(@, o)]
                  ELSE row
        /\ batch' = [batch EXCEPT ![p] = @ \ {d}]
  /\ answer' = [answer EXCEPT ![p] = NoAnswer]
  /\ UNCHANGED <<history, abandoned, overruns, erased>>

(* The process dies, or a statement throws out of dispatchDue: what was    *)
(* claimed stays leased, what was sent and not recorded is forgotten.      *)
Abandon(p) ==
  /\ batch[p] # {}
  /\ abandoned < MaxAbandoned
  /\ batch' = [batch EXCEPT ![p] = {}]
  /\ answer' = [answer EXCEPT ![p] = NoAnswer]
  /\ abandoned' = abandoned + 1
  /\ UNCHANGED <<row, history, overruns, erased>>

-----------------------------------------------------------------------------
(* The passage of time.                                                    *)

(* leased_until < now().  Rows are sent serially and SMTP has no timeout   *)
(* of its own, so a lease can run out under a pass that is still going.    *)
LeaseExpires(d) ==
  /\ row[d].lease = "live"
  /\ row' = [row EXCEPT ![d].lease = "expired"]
  /\ IF Held(d) THEN overruns < MaxOverruns /\ overruns' = overruns + 1
                ELSE UNCHANGED overruns
  /\ UNCHANGED <<batch, answer, history, abandoned, erased>>

BackoffElapses(d) ==
  /\ row[d].state = "pending" /\ ~row[d].due
  /\ row' = [row EXCEPT ![d].due = TRUE]
  /\ UNCHANGED <<batch, answer, history, abandoned, overruns, erased>>

QuotaWindowPasses(d) ==
  /\ Exists(d) /\ row[d].fresh
  /\ row' = [row EXCEPT ![d].fresh = FALSE]
  /\ UNCHANGED <<batch, answer, history, abandoned, overruns, erased>>

-----------------------------------------------------------------------------
Next ==
  \/ \E d \in Delivery, t \in BOOLEAN : Enqueue(d, t)
  \/ \E d, copy \in Delivery : Resend(d, copy)
  \/ \E u \in User : EraseUser(u)
  \/ \E p \in Dispatcher, ids \in SUBSET Delivery : Claim(p, ids)
  \/ \E p \in Dispatcher, d \in Delivery, o \in Outcome : Send(p, d, o)
  \/ \E p \in Dispatcher : Record(p)
  \/ \E p \in Dispatcher : Abandon(p)
  \/ \E d \in Delivery : LeaseExpires(d)
  \/ \E d \in Delivery : BackoffElapses(d)
  \/ \E d \in Delivery : QuotaWindowPasses(d)

Spec == Init /\ [][Next]_vars

(***************************************************************************)
(* Fairness.  Clocks advance; an adapter answers sooner or later (its own  *)
(* deadline or the operating system's TCP timeout) and the answer is       *)
(* recorded; the dispatch job runs again and again, and because claims are *)
(* ordered by next_attempt_at a row that stays due comes to the head of    *)
(* the queue however many others there are.                                *)
(***************************************************************************)
SomeClaimOf(d) == \E p \in Dispatcher, ids \in SUBSET Delivery : d \in ids /\ Claim(p, ids)
SomeSend(p) == \E d \in Delivery, o \in Outcome : Send(p, d, o)

Fairness ==
  /\ \A d \in Delivery : /\ SF_vars(SomeClaimOf(d))
                         /\ WF_vars(LeaseExpires(d) /\ ~Held(d))
                         /\ WF_vars(BackoffElapses(d))
                         /\ WF_vars(QuotaWindowPasses(d))
  /\ \A p \in Dispatcher : WF_vars(SomeSend(p)) /\ WF_vars(Record(p))

FairSpec == Spec /\ Fairness

-----------------------------------------------------------------------------
(* Properties.                                                             *)

(* While no lease runs out under a live pass, two passes never hold the    *)
(* same delivery, and what a pass holds is a pending row under a live      *)
(* lease (or a row that was erased meanwhile): claimDeliveries.            *)
ClaimsAreExclusive ==
  overruns = 0 =>
    /\ \A p, q \in Dispatcher : p # q => batch[p] \cap batch[q] = {}
    /\ \A p \in Dispatcher : \A d \in batch[p] :
         row[d].state = "gone" \/ (row[d].state = "pending" /\ row[d].lease = "live")

(* Attempts go past the budget only by as much as passes died or leases    *)
(* were overrun, whatever mixture of refunds, charges and stale records    *)
(* the row went through: claimDeliveries and markDeliveryFailed.           *)
AttemptsWithinBudget ==
  \A d \in Delivery : row[d].attempts <= MaxAttempts + abandoned + overruns

(* A provider takes the message of one delivery a second time only after   *)
(* an answer was lost, a pass died or a lease was overrun.                 *)
DuplicatesHaveACause ==
  \A d \in Delivery : accepted[d] <= 1 + ambiguous[d] + abandoned + overruns

(* The history an operator reads is true: a row says `sent' only if a      *)
(* provider took it, and `dead' only if its budget was really spent.       *)
OutcomesAreTrue ==
  \A d \in Delivery :
    /\ row[d].state = "sent" => accepted[d] > 0
    /\ row[d].state = "dead" => row[d].attempts >= MaxAttempts

(* A pending row is settled or erased in the end: no path through refunds, *)
(* charges and crashes leaves one that no pass looks at any more, or that  *)
(* is refunded for ever (claimDeliveries, markDeliveryFailed).             *)
Drains == \A d \in Delivery : (row[d].state = "pending") ~> (row[d].state # "pending")

(* What the queue promises to the rest of notify (DeliveryContract).       *)
Status == [d \in Delivery |->
             CASE row[d].state = "pending" -> "queued"
               [] row[d].state \in {"undeliverable", "dead"} -> "failed"
               [] OTHER -> row[d].state]

Contract == INSTANCE DeliveryContract WITH status <- Status, taken <- accepted
RefinesContract == Contract!Spec

(* An outcome already recorded is not taken back: by a late answer, a      *)
(* retry, or a resend, which queues a copy (store.ts:574).                 *)
SettledIsFinal ==
  [][\A d \in Delivery : row[d].state \in Settled
                            => row'[d].state \in {row[d].state, "gone"}]_vars

(* The comment on dispatchDue (pipeline.ts:597-598): "The lease on each    *)
(* row means two dispatchers running at once is safe".  At the least, what *)
(* one of them recorded as sent is not queued again by the other.          *)
SentIsNotQueuedAgain ==
  [][\A d \in Delivery : row[d].state = "sent" => row'[d].state # "pending"]_vars
=============================================================================
