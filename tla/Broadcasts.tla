----------------------------- MODULE Broadcasts -----------------------------
(***************************************************************************)
(* Operator broadcasts: POST /admin/broadcasts of src/src/notify/server.ts *)
(* and `fanOutBroadcast' of src/src/notify/pipeline.ts, run by the job     *)
(* `notify.broadcast'.                                                     *)
(*                                                                         *)
(* A fan-out goes through its audience in the order of user ids, a page at *)
(* a time: it reads a page, then writes one notification for each user of  *)
(* it in a transaction.  Where it stands is in memory alone, so a run that *)
(* follows a failed one begins again.  The handler does not renew its      *)
(* lease, so two runs of one broadcast may be under way at once.  Users    *)
(* come and are erased meanwhile.                                          *)
(***************************************************************************)
EXTENDS Integers, FiniteSets

None == "none"

CONSTANTS
  User,         \* user ids, numbers for their order
  Broadcast,
  Key,
  KeyOf,        \* the dedupe key of each; of two posts of one, the same
  Lists,        \* what an operator may list: sets of users, {} for everyone
  Run,          \* runs of the job that may be under way at once
  PageSize,
  MaxAttempts,  \* of a job row
  MaxFailures,  \* bound: runs and requests that are cut short
  MaxErasures   \* bound

ASSUME UsersTyped == User \subseteq Nat \ {0} /\ IsFiniteSet(User)
ASSUME BroadcastsTyped ==
  /\ KeyOf \in [Broadcast -> Key]
  /\ Lists \subseteq SUBSET User
  /\ None \notin Broadcast
ASSUME BoundsTyped ==
  /\ PageSize \in Nat \ {0} /\ MaxAttempts \in Nat \ {0}
  /\ MaxFailures \in Nat /\ MaxErasures \in Nat

VARIABLES
  known,          \* users with an active address, a preference or another notification
  notifications,  \* how many rows each user has of each key
  broadcasts,     \* the rows of broadcasts
  audience,       \* whom each lists, if anybody
  jobs,           \* the job row of each
  attempts,       \* of each job row
  holder,         \* the run that claimed each job row last
  runs,           \* what each run holds in memory
  intended,       \* history: those of the audience that were there ever since
  erased,         \* history
  failures

vars == <<known, notifications, broadcasts, audience, jobs, attempts, holder, runs, intended, erased, failures>>

(* A row is stored, and its fan-out is done (fanned).                      *)
BroadcastState == {"absent", "stored", "fanned"}
JobState == {"absent", "due", "leased", "dead"}

(* A run is idle, between two pages, writing a page, marking its broadcast *)
(* or returning.  It has been through the ids up to `after', and has yet   *)
(* to write those in `todo' of its page.                                   *)
RunPhase == {"idle", "between", "page", "marking", "returning"}
RunState ==
  [phase : RunPhase, of : Broadcast \cup {None}, after : Nat,
   page : SUBSET User, todo : SUBSET User, wrote : SUBSET User]
Idle == [phase |-> "idle", of |-> None, after |-> 0, page |-> {}, todo |-> {}, wrote |-> {}]
Started(b) == [Idle EXCEPT !.phase = "between", !.of = b]

Working(r, b) == runs[r].phase # "idle" /\ runs[r].of = b

(* reachableUsers.                                                         *)
Reachable == known \cup {u \in User : \E k \in Key : notifications[u][k] > 0}
Everyone(listed) == IF listed = {} THEN Reachable ELSE listed

-----------------------------------------------------------------------------
Init ==
  /\ known \in SUBSET User
  /\ notifications = [u \in User |-> [k \in Key |-> 0]]
  /\ broadcasts = [b \in Broadcast |-> "absent"]
  /\ audience = [b \in Broadcast |-> {}]
  /\ jobs = [b \in Broadcast |-> "absent"]
  /\ attempts = [b \in Broadcast |-> 0]
  /\ holder = [b \in Broadcast |-> None]
  /\ runs = [r \in Run |-> Idle]
  /\ intended = [b \in Broadcast |-> {}]
  /\ erased = {}
  /\ failures = 0

(* The row, committed on its own.                                          *)
InsertBroadcast(b, listed) ==
  /\ broadcasts[b] = "absent"
  /\ broadcasts' = [broadcasts EXCEPT ![b] = "stored"]
  /\ audience' = [audience EXCEPT ![b] = listed]
  /\ intended' = [intended EXCEPT ![b] = Everyone(listed)]
  /\ UNCHANGED <<known, notifications, jobs, attempts, holder, runs, erased, failures>>

(* The job, and the 202.  A request that fails here leaves a row that      *)
(* nothing fans out.                                                       *)
EnqueueBroadcast(b) ==
  /\ broadcasts[b] = "stored" /\ jobs[b] = "absent"
  /\ jobs' = [jobs EXCEPT ![b] = "due"]
  /\ attempts' = [attempts EXCEPT ![b] = 0]
  /\ UNCHANGED <<known, notifications, broadcasts, audience, holder, runs, intended, erased, failures>>

Claim(r, b) ==
  /\ runs[r] = Idle
  /\ jobs[b] = "due"
  /\ jobs' = [jobs EXCEPT ![b] = "leased"]
  /\ holder' = [holder EXCEPT ![b] = r]
  /\ runs' = [runs EXCEPT ![r] = Started(b)]
  /\ UNCHANGED <<known, notifications, broadcasts, audience, attempts, intended, erased, failures>>

(* The first users after the last one, as many as a page holds.            *)
IsPage(page, after, all) ==
  LET left == {u \in all : u > after}
  IN  /\ page \subseteq left
      /\ \A u \in page, v \in left \ page : u < v
      /\ \/ page = left /\ Cardinality(page) <= PageSize
         \/ Cardinality(page) = PageSize

ReadPage(r) ==
  /\ runs[r].phase = "between"
  /\ \E page \in SUBSET Everyone(audience[runs[r].of]) :
       /\ IsPage(page, runs[r].after, Everyone(audience[runs[r].of]))
       /\ runs' = [runs EXCEPT ![r].phase = IF page = {} THEN "marking" ELSE "page",
                               ![r].page = page, ![r].todo = page]
  /\ UNCHANGED <<known, notifications, broadcasts, audience, jobs, attempts, holder, intended, erased, failures>>

(* Fault: an insert that does not look for its key.                        *)
IsNewAlways(u, k) == u \in User /\ k \in Key
IsNew(u, k) == notifications[u][k] = 0

(* Another transaction has inserted the key and not committed.             *)
MustWait(r, u) ==
  \E q \in Run \ {r} : u \in runs[q].wrote /\ KeyOf[runs[q].of] = KeyOf[runs[r].of]

(* createNotification for the next user of the page: nothing, where the    *)
(* user has the key.                                                       *)
Notify(r, u) ==
  /\ u \in runs[r].todo /\ \A v \in runs[r].todo : u <= v
  /\ ~MustWait(r, u)
  /\ runs' = [runs EXCEPT ![r].todo = @ \ {u},
                          ![r].wrote = IF IsNew(u, KeyOf[runs[r].of]) THEN @ \cup {u} ELSE @]
  /\ UNCHANGED <<known, notifications, broadcasts, audience, jobs, attempts, holder, intended, erased, failures>>

(* Fault: a page that is full is the last.                                 *)
LastPageEarly(page) == Cardinality(page) <= PageSize

LastPage(page) == Cardinality(page) < PageSize

CommitPage(r) ==
  LET k == KeyOf[runs[r].of]
  IN  /\ runs[r].phase = "page" /\ runs[r].todo = {}
      /\ notifications' =
           [u \in User |-> [notifications[u] EXCEPT ![k] = IF u \in runs[r].wrote THEN @ + 1 ELSE @]]
      /\ \E last \in runs[r].page :
           /\ \A u \in runs[r].page : u <= last
           /\ runs' = [runs EXCEPT ![r].phase = IF LastPage(runs[r].page) THEN "marking" ELSE "between",
                                   ![r].after = last, ![r].page = {}, ![r].wrote = {}]
      /\ UNCHANGED <<known, broadcasts, audience, jobs, attempts, holder, intended, erased, failures>>

MarkBroadcastFannedOut(r) ==
  /\ runs[r].phase = "marking"
  /\ broadcasts' = [broadcasts EXCEPT ![runs[r].of] = "fanned"]
  /\ runs' = [runs EXCEPT ![r].phase = "returning"]
  /\ UNCHANGED <<known, notifications, audience, jobs, attempts, holder, intended, erased, failures>>

Holds(r) == jobs[runs[r].of] = "leased" /\ holder[runs[r].of] = r

(* The handler returns, and its row is deleted if it is still its own.     *)
Return(r) ==
  /\ runs[r].phase = "returning"
  /\ jobs' = [jobs EXCEPT ![runs[r].of] = IF Holds(r) THEN "absent" ELSE @]
  /\ runs' = [runs EXCEPT ![r] = Idle]
  /\ UNCHANGED <<known, notifications, broadcasts, audience, attempts, holder, intended, erased, failures>>

(* Fault: an error is logged and the handler returns.                      *)
ThrowDone(r) ==
  /\ runs[r].phase \in {"between", "page", "marking"}
  /\ failures < MaxFailures
  /\ failures' = failures + 1
  /\ runs' = [runs EXCEPT ![r] = Idle]
  /\ jobs' = [jobs EXCEPT ![runs[r].of] = IF Holds(r) THEN "absent" ELSE @]
  /\ UNCHANGED <<known, notifications, broadcasts, audience, attempts, holder, intended, erased>>

(* A statement throws: the page is rolled back; tried again, or dead.      *)
Throw(r) ==
  LET b == runs[r].of
  IN  /\ runs[r].phase \in {"between", "page", "marking"}
      /\ failures < MaxFailures
      /\ failures' = failures + 1
      /\ runs' = [runs EXCEPT ![r] = Idle]
      /\ attempts' = [attempts EXCEPT ![b] = IF Holds(r) THEN @ + 1 ELSE @]
      /\ jobs' = [jobs EXCEPT ![b] = IF ~Holds(r) THEN @
                                     ELSE IF attempts[b] + 1 < MaxAttempts THEN "due" ELSE "dead"]
      /\ UNCHANGED <<known, notifications, broadcasts, audience, holder, intended, erased>>

(* Its process dies, the job row still leased.                             *)
Crash(r) ==
  /\ runs[r].phase # "idle"
  /\ failures < MaxFailures
  /\ failures' = failures + 1
  /\ runs' = [runs EXCEPT ![r] = Idle]
  /\ UNCHANGED <<known, notifications, broadcasts, audience, jobs, attempts, holder, intended, erased>>

(* A lease that nobody renews lapses, whether its run goes on or not.      *)
Lapse(b) ==
  /\ jobs[b] = "leased"
  /\ jobs' = [jobs EXCEPT ![b] = "due"]
  /\ UNCHANGED <<known, notifications, broadcasts, audience, attempts, holder, runs, intended, erased, failures>>

(* An event or a preference of a user who was not known.                   *)
Come(u) ==
  /\ u \notin known /\ u \notin erased
  /\ known' = known \cup {u}
  /\ UNCHANGED <<notifications, broadcasts, audience, jobs, attempts, holder, runs, intended, erased, failures>>

(* eraseUser, which leaves the rows of broadcasts as they are.             *)
EraseUser(u) ==
  /\ u \in Reachable
  /\ Cardinality(erased) < MaxErasures
  /\ known' = known \ {u}
  /\ notifications' = [notifications EXCEPT ![u] = [k \in Key |-> 0]]
  /\ intended' = [b \in Broadcast |-> intended[b] \ {u}]
  /\ erased' = erased \cup {u}
  /\ UNCHANGED <<broadcasts, audience, jobs, attempts, holder, runs, failures>>

Next ==
  \/ \E b \in Broadcast : \/ EnqueueBroadcast(b) \/ Lapse(b)
                          \/ \E listed \in Lists : InsertBroadcast(b, listed)
  \/ \E r \in Run : \/ ReadPage(r) \/ CommitPage(r) \/ MarkBroadcastFannedOut(r)
                    \/ Return(r) \/ Throw(r) \/ Crash(r)
                    \/ \E b \in Broadcast : Claim(r, b)
                    \/ \E u \in User : Notify(r, u)
  \/ \E u \in User : Come(u) \/ EraseUser(u)

Spec == Init /\ [][Next]_vars

(* A runner claims what is due, a run goes on to its end, a lease lapses.  *)
(* A request may always fail before it enqueues.                           *)
GoesOn(r) ==
  ReadPage(r) \/ (\E u \in User : Notify(r, u)) \/ CommitPage(r) \/ MarkBroadcastFannedOut(r) \/ Return(r)

FairSpec ==
  /\ Spec
  /\ \A b \in Broadcast : SF_vars(\E r \in Run : Claim(r, b)) /\ WF_vars(Lapse(b))
  /\ \A r \in Run : WF_vars(GoesOn(r))

-----------------------------------------------------------------------------
(* Properties.                                                             *)

TypeOK ==
  /\ known \in SUBSET User
  /\ notifications \in [User -> [Key -> Nat]]
  /\ broadcasts \in [Broadcast -> BroadcastState]
  /\ audience \in [Broadcast -> SUBSET User]
  /\ jobs \in [Broadcast -> JobState]
  /\ attempts \in [Broadcast -> 0 .. MaxAttempts]
  /\ holder \in [Broadcast -> Run \cup {None}]
  /\ runs \in [Run -> RunState]
  /\ \A r \in Run :
       /\ runs[r].phase # "idle" => runs[r].of \in Broadcast
       /\ runs[r].phase # "page" => runs[r].page = {} /\ runs[r].wrote = {}
       /\ runs[r].todo \cup runs[r].wrote \subseteq runs[r].page
       /\ \A u \in runs[r].page : u > runs[r].after
  /\ intended \in [Broadcast -> SUBSET User]
  /\ erased \in SUBSET User
  /\ failures \in 0 .. MaxFailures

(* "A re-run of the fan-out after a crash produces nothing new"            *)
(* (src/src/notify/pipeline.ts:914).  Nobody has two notifications of one  *)
(* key, with two runs at once, pages rolled back and a broadcast posted    *)
(* twice.                                                                  *)
OneEach == \A u \in User, k \in Key : notifications[u][k] <= 1

(* A broadcast that is marked as fanned out has reached each user of its   *)
(* audience who was there ever since it was posted, whoever comes or is    *)
(* erased before or behind the cursor (src/src/notify/pipeline.test.ts,    *)
(* "reaches every reachable user exactly once").                           *)
FannedOutIsTold ==
  \A b \in Broadcast : broadcasts[b] = "fanned" =>
    \A u \in intended[b] : notifications[u][KeyOf[b]] > 0

(* The job of a broadcast is deleted only when everybody is told who was   *)
(* to be: whatever run returns, for itself or beside a successor that its  *)
(* lapsed lease has let in (src/src/notify/jobs.ts:163-172).               *)
DoneIsTold ==
  [][\A b \in Broadcast : jobs[b] # "absent" /\ jobs'[b] = "absent" =>
       \A u \in intended[b] : notifications[u][KeyOf[b]] > 0]_vars

(* Nobody is told who is not of the audience of a broadcast of that key:   *)
(* an operator who lists users reaches those and no others, though a run   *)
(* begins again and two posts share a key (fanOutBroadcast,                *)
(* src/src/notify/pipeline.ts:899-903).                                    *)
Meant(b, u) == broadcasts[b] # "absent" /\ (audience[b] = {} \/ u \in audience[b])
OnlyTheAudience ==
  \A u \in User, k \in Key : notifications[u][k] > 0 =>
    \E b \in Broadcast : KeyOf[b] = k /\ Meant(b, u)

(* A broadcast whose job is enqueued is fanned out, or its job is dead.    *)
QueuedIsFannedOut ==
  \A b \in Broadcast : jobs[b] = "due" ~> (broadcasts[b] = "fanned" \/ jobs[b] = "dead")
=============================================================================
