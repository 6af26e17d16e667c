-------------------------- MODULE BroadcastsProofs --------------------------
(***************************************************************************)
(* Theorems about Broadcasts, for every set of users, broadcasts and runs, *)
(* every page size and every value of the bounds.                          *)
(***************************************************************************)
EXTENDS Broadcasts, FiniteSetTheorems, TLAPS

(* A job row that may yet be claimed has an attempt left.                  *)
AttemptsLeft == \A b \in Broadcast : jobs[b] \in {"due", "leased"} => attempts[b] < MaxAttempts

(* TypeOK in two parts: what each variable is, and what a run holds.       *)
Tables ==
  /\ known \in SUBSET User
  /\ notifications \in [User -> [Key -> Nat]]
  /\ broadcasts \in [Broadcast -> BroadcastState]
  /\ audience \in [Broadcast -> SUBSET User]
  /\ jobs \in [Broadcast -> JobState]
  /\ attempts \in [Broadcast -> 0 .. MaxAttempts]
  /\ holder \in [Broadcast -> Run \cup {None}]
  /\ intended \in [Broadcast -> SUBSET User]
  /\ erased \in SUBSET User
  /\ failures \in 0 .. MaxFailures

RunOK(s) ==
  /\ s.phase # "idle" => s.of \in Broadcast
  /\ s.phase # "page" => s.page = {} /\ s.wrote = {}
  /\ s.todo \cup s.wrote \subseteq s.page
  /\ \A u \in s.page : u > s.after

Memory == runs \in [Run -> RunState] /\ \A r \in Run : RunOK(runs[r])

LEMMA TypeParts == TypeOK <=> Tables /\ Memory
BY DEF TypeOK, Tables, Memory, RunOK

LEMMA IdleIsOK == Idle \in RunState /\ RunOK(Idle)
BY DEF Idle, RunState, RunPhase, RunOK

LEMMA StartedIsOK ==
  ASSUME NEW b \in Broadcast
  PROVE  Started(b) \in RunState /\ RunOK(Started(b))
BY DEF Started, Idle, RunState, RunPhase, RunOK

LEMMA EveryoneIsUsers ==
  ASSUME Tables, NEW listed \in SUBSET User
  PROVE  Everyone(listed) \subseteq User
BY DEF Tables, Everyone, Reachable

LEMMA TablesNotified ==
  ASSUME Tables, Memory, NEW r \in Run, CommitPage(r)
  PROVE  notifications' \in [User -> [Key -> Nat]]
<1> DEFINE k == KeyOf[runs[r].of]
           row(u) == [notifications[u] EXCEPT ![k] = IF u \in runs[r].wrote THEN @ + 1 ELSE @]
<1>1. notifications' = [u \in User |-> row(u)]
  BY DEF CommitPage
<1>2. ASSUME NEW u \in User PROVE row(u) \in [Key -> Nat]
  <2>1. notifications[u] \in [Key -> Nat]
    BY DEF Tables
  <2>2. k \in Key
    BY BroadcastsTyped DEF CommitPage, Memory, RunOK
  <2>3. (IF u \in runs[r].wrote THEN notifications[u][k] + 1 ELSE notifications[u][k]) \in Nat
    BY <2>1, <2>2
  <2> QED BY <2>1, <2>2, <2>3
<1> HIDE DEF row
<1> QED BY <1>1, <1>2

LEMMA TablesStep == Tables /\ Memory /\ AttemptsLeft /\ [Next]_vars => Tables'
<1> SUFFICES ASSUME Tables, Memory, AttemptsLeft, [Next]_vars PROVE Tables'
  OBVIOUS
<1> USE DEF Tables, BroadcastState, JobState
<1>0. /\ MaxAttempts \in Nat \ {0} /\ MaxFailures \in Nat
      /\ KeyOf \in [Broadcast -> Key] /\ Lists \subseteq SUBSET User
  BY BoundsTyped, BroadcastsTyped
<1>1. ASSUME NEW b \in Broadcast, NEW listed \in Lists, InsertBroadcast(b, listed) PROVE Tables'
  <2>1. Everyone(listed) \subseteq User
    BY <1>0, EveryoneIsUsers
  <2> QED BY <1>0, <1>1, <2>1 DEF InsertBroadcast
<1>2. ASSUME NEW b \in Broadcast, EnqueueBroadcast(b) PROVE Tables'
  BY <1>0, <1>2 DEF EnqueueBroadcast
<1>3. ASSUME NEW b \in Broadcast, Lapse(b) PROVE Tables'
  BY <1>3 DEF Lapse
<1>4. ASSUME NEW r \in Run, NEW b \in Broadcast, Claim(r, b) PROVE Tables'
  BY <1>4 DEF Claim
<1>5. ASSUME NEW r \in Run, ReadPage(r) \/ \E u \in User : Notify(r, u) PROVE Tables'
  BY <1>5 DEF ReadPage, Notify
<1>6. ASSUME NEW r \in Run, CommitPage(r) PROVE Tables'
  <2>1. notifications' \in [User -> [Key -> Nat]]
    BY <1>6, TablesNotified
  <2> QED BY <1>6, <2>1 DEF CommitPage
<1>7. ASSUME NEW r \in Run, MarkBroadcastFannedOut(r) PROVE Tables'
  BY <1>7 DEF MarkBroadcastFannedOut, Memory, RunOK
<1>8. ASSUME NEW r \in Run, Return(r) PROVE Tables'
  BY <1>8 DEF Return, Memory, RunOK
<1>9. ASSUME NEW r \in Run, Throw(r) PROVE Tables'
  <2>1. runs[r].of \in Broadcast
    BY <1>9 DEF Throw, Memory, RunOK
  <2>2. failures' \in 0 .. MaxFailures
    BY <1>0, <1>9 DEF Throw
  <2>3. attempts' \in [Broadcast -> 0 .. MaxAttempts]
    <3>1. Holds(r) => attempts[runs[r].of] + 1 \in 0 .. MaxAttempts
      BY <1>0, <2>1 DEF Holds, AttemptsLeft
    <3> QED BY <1>9, <2>1, <3>1 DEF Throw
  <2> QED BY <1>9, <2>1, <2>2, <2>3 DEF Throw
<1>10. ASSUME NEW r \in Run, Crash(r) PROVE Tables'
  BY <1>0, <1>10 DEF Crash
<1>11. ASSUME NEW u \in User, Come(u) \/ EraseUser(u) PROVE Tables'
  BY <1>11 DEF Come, EraseUser
<1>12. CASE UNCHANGED vars
  BY <1>12 DEF vars
<1> QED BY <1>1, <1>2, <1>3, <1>4, <1>5, <1>6, <1>7, <1>8, <1>9, <1>10, <1>11, <1>12 DEF Next

LEMMA Writes ==
  ASSUME Memory, NEW r \in Run, NEW u \in User, Notify(r, u)
  PROVE  \E new \in SUBSET {u} :
           runs' = [runs EXCEPT ![r].todo = @ \ {u}, ![r].wrote = @ \cup new]
<1> USE DEF Memory, RunState
<1>1. CASE IsNew(u, KeyOf[runs[r].of])
  <2> WITNESS {u} \in SUBSET {u}
  <2> QED BY <1>1 DEF Notify
<1>2. CASE ~IsNew(u, KeyOf[runs[r].of])
  <2>1. runs[r].wrote \cup {} = runs[r].wrote
    OBVIOUS
  <2> WITNESS {} \in SUBSET {u}
  <2> QED BY <1>2, <2>1 DEF Notify
<1> QED BY <1>1, <1>2

LEMMA MemoryStep == Tables /\ Memory /\ [Next]_vars => Memory'
<1> SUFFICES ASSUME Tables, Memory, [Next]_vars PROVE Memory'
  OBVIOUS
<1> USE DEF Memory
<1>0. ASSUME NEW r \in Run, runs' = [runs EXCEPT ![r] = Idle] PROVE Memory'
  BY <1>0, IdleIsOK
<1>1. ASSUME NEW r \in Run, NEW b \in Broadcast, Claim(r, b) PROVE Memory'
  BY <1>1, StartedIsOK DEF Claim
<1>2. ASSUME NEW r \in Run, ReadPage(r) PROVE Memory'
  <2> DEFINE all == Everyone(audience[runs[r].of])
  <2>1. runs[r].phase = "between" /\ runs[r].of \in Broadcast /\ runs[r].wrote = {}
    BY <1>2 DEF ReadPage, RunOK
  <2>2. all \subseteq User
    BY <2>1, EveryoneIsUsers DEF Tables
  <2>3. PICK page \in SUBSET all :
          /\ IsPage(page, runs[r].after, all)
          /\ runs' = [runs EXCEPT ![r].phase = IF page = {} THEN "marking" ELSE "page",
                                  ![r].page = page, ![r].todo = page]
    BY <1>2 DEF ReadPage
  <2>4. page \subseteq User /\ \A u \in page : u > runs[r].after
    BY <2>2, <2>3 DEF IsPage
  <2>5. runs'[r] \in RunState /\ RunOK(runs'[r])
    BY <2>1, <2>3, <2>4 DEF RunOK, RunState, RunPhase
  <2> HIDE DEF all
  <2> QED BY <2>3, <2>5
<1>3. ASSUME NEW r \in Run, NEW u \in User, Notify(r, u) PROVE Memory'
  <2>1. PICK new \in SUBSET {u} :
          runs' = [runs EXCEPT ![r].todo = @ \ {u}, ![r].wrote = @ \cup new]
    BY <1>3, Writes
  <2>2. u \in runs[r].page /\ runs[r].phase = "page"
    BY <1>3 DEF Notify, RunOK
  <2> DEFINE s == [runs[r] EXCEPT !.todo = @ \ {u}, !.wrote = @ \cup new]
  <2>3. s \in RunState
    BY DEF RunState
  <2>4. RunOK(s)
    <3>1. /\ s.phase = "page" /\ s.of = runs[r].of /\ s.after = runs[r].after
          /\ s.page = runs[r].page
          /\ s.todo = runs[r].todo \ {u} /\ s.wrote = runs[r].wrote \cup new
      BY <2>2 DEF RunState
    <3>2. RunOK(runs[r])
      OBVIOUS
    <3> HIDE DEF s
    <3> QED BY <2>2, <3>1, <3>2 DEF RunOK
  <2>5. runs' = [runs EXCEPT ![r] = s]
    BY <2>1
  <2> HIDE DEF s
  <2> QED BY <2>3, <2>4, <2>5
<1>4. ASSUME NEW r \in Run, CommitPage(r) PROVE Memory'
  <2>1. PICK last \in runs[r].page :
          runs' = [runs EXCEPT ![r].phase = IF LastPage(runs[r].page) THEN "marking" ELSE "between",
                               ![r].after = last, ![r].page = {}, ![r].wrote = {}]
    BY <1>4 DEF CommitPage
  <2>2. last \in Nat /\ runs[r].todo = {} /\ runs[r].phase = "page"
    BY <1>4, UsersTyped DEF CommitPage, RunState
  <2>3. runs'[r] \in RunState /\ RunOK(runs'[r])
    BY <2>1, <2>2 DEF RunOK, RunState, RunPhase
  <2> QED BY <2>1, <2>3
<1>5. ASSUME NEW r \in Run, MarkBroadcastFannedOut(r) PROVE Memory'
  <2>1. runs'[r] \in RunState /\ RunOK(runs'[r])
    BY <1>5 DEF MarkBroadcastFannedOut, RunOK, RunState, RunPhase
  <2> QED BY <1>5, <2>1 DEF MarkBroadcastFannedOut
<1>6. ASSUME NEW r \in Run, Return(r) \/ Throw(r) \/ Crash(r) PROVE Memory'
  BY <1>0, <1>6 DEF Return, Throw, Crash
<1>7. CASE UNCHANGED runs
  BY <1>7
<1> QED BY <1>1, <1>2, <1>3, <1>4, <1>5, <1>6, <1>7
    DEF Next, vars, InsertBroadcast, EnqueueBroadcast, Lapse, Come, EraseUser

LEMMA AttemptsStep == Tables /\ Memory /\ AttemptsLeft /\ [Next]_vars => AttemptsLeft'
<1> SUFFICES ASSUME Tables, Memory, AttemptsLeft, [Next]_vars PROVE AttemptsLeft'
  OBVIOUS
<1> USE DEF AttemptsLeft, Tables
<1>0. MaxAttempts \in Nat \ {0}
  BY BoundsTyped
<1>1. ASSUME NEW b \in Broadcast, EnqueueBroadcast(b) PROVE AttemptsLeft'
  BY <1>0, <1>1 DEF EnqueueBroadcast
<1>2. ASSUME NEW b \in Broadcast, Lapse(b) \/ \E r \in Run : Claim(r, b) PROVE AttemptsLeft'
  BY <1>2 DEF Lapse, Claim
<1>3. ASSUME NEW r \in Run, Return(r) PROVE AttemptsLeft'
  BY <1>3 DEF Return
<1>4. ASSUME NEW r \in Run, Throw(r) PROVE AttemptsLeft'
  <2>1. ASSUME NEW b \in Broadcast, jobs'[b] \in {"due", "leased"} PROVE attempts'[b] < MaxAttempts
    <3>1. CASE b = runs[r].of /\ Holds(r)
      BY <1>0, <1>4, <2>1, <3>1 DEF Throw
    <3>2. CASE b # runs[r].of \/ ~Holds(r)
      <4>1. jobs'[b] = jobs[b] /\ attempts'[b] = attempts[b]
        BY <1>4, <3>2 DEF Throw
      <4> QED BY <2>1, <4>1
    <3> QED BY <3>1, <3>2
  <2> QED BY <2>1
<1>5. CASE UNCHANGED <<jobs, attempts>>
  BY <1>5
<1> QED BY <1>1, <1>2, <1>3, <1>4, <1>5
    DEF Next, vars, InsertBroadcast, ReadPage, Notify, CommitPage, MarkBroadcastFannedOut, Crash, Come, EraseUser

LEMMA InitIsGood == Init => Tables /\ Memory /\ AttemptsLeft
<1> SUFFICES ASSUME Init PROVE Tables /\ Memory /\ AttemptsLeft
  OBVIOUS
<1>1. MaxAttempts \in Nat \ {0} /\ MaxFailures \in Nat
  BY BoundsTyped
<1>2. Tables
  BY <1>1 DEF Init, Tables, BroadcastState, JobState
<1>3. Memory
  BY IdleIsOK DEF Init, Memory
<1>4. AttemptsLeft
  BY DEF Init, AttemptsLeft
<1> QED BY <1>2, <1>3, <1>4

LEMMA WellFormed == Spec => [](Tables /\ Memory)
<1> QED BY InitIsGood, TablesStep, MemoryStep, AttemptsStep, PTL DEF Spec

(* The tables and what the runs hold are well formed; no job row is tried  *)
(* more often than it may be (src/src/notify/pipeline.ts, fanOutBroadcast).*)
THEOREM TypeCorrect == Spec => []TypeOK
<1> QED BY WellFormed, TypeParts, PTL

-----------------------------------------------------------------------------
(* What a page has written and not committed is new, and nobody else has   *)
(* written it.                                                             *)
KeyOfRun(r) == KeyOf[runs[r].of]
Fresh == \A r \in Run : \A u \in runs[r].wrote : notifications[u][KeyOfRun(r)] = 0
Apart ==
  \A r, q \in Run : r # q /\ KeyOfRun(r) = KeyOfRun(q) => runs[r].wrote \cap runs[q].wrote = {}

LEMMA ApartStep == Memory /\ Apart /\ [Next]_vars => Apart'
<1> SUFFICES ASSUME Memory, Apart, [Next]_vars PROVE Apart'
  OBVIOUS
<1> USE DEF Memory, RunState, Apart, KeyOfRun
<1>1. ASSUME NEW r \in Run, \A q \in Run \ {r} : runs'[q] = runs[q],
             runs'[r].wrote = {} \/ (runs'[r].wrote = runs[r].wrote /\ runs'[r].of = runs[r].of)
      PROVE  Apart'
  BY <1>1
<1>2. ASSUME NEW r \in Run, NEW b \in Broadcast, Claim(r, b) PROVE Apart'
  BY <1>1, <1>2, StartedIsOK DEF Claim, Started, Idle
<1>3. ASSUME NEW r \in Run, ReadPage(r) PROVE Apart'
  <2>1. PICK page \in SUBSET Everyone(audience[runs[r].of]) :
          runs' = [runs EXCEPT ![r].phase = IF page = {} THEN "marking" ELSE "page",
                               ![r].page = page, ![r].todo = page]
    BY <1>3 DEF ReadPage
  <2>2. /\ \A q \in Run \ {r} : runs'[q] = runs[q]
        /\ runs'[r].wrote = runs[r].wrote /\ runs'[r].of = runs[r].of
    BY <2>1
  <2> QED BY <1>1, <2>2
<1>4. ASSUME NEW r \in Run, NEW u \in User, Notify(r, u) PROVE Apart'
  <2>1. PICK new \in SUBSET {u} :
          runs' = [runs EXCEPT ![r].todo = @ \ {u}, ![r].wrote = @ \cup new]
    BY <1>4, Writes
  <2>2. \A q \in Run \ {r} : KeyOfRun(r) = KeyOfRun(q) => u \notin runs[q].wrote
    BY <1>4 DEF Notify, MustWait
  <2> QED BY <2>1, <2>2
<1>5. ASSUME NEW r \in Run, CommitPage(r) PROVE Apart'
  <2>1. (\A q \in Run \ {r} : runs'[q] = runs[q]) /\ runs'[r].wrote = {}
    BY <1>5 DEF CommitPage
  <2> QED BY <1>1, <2>1
<1>6. ASSUME NEW r \in Run, MarkBroadcastFannedOut(r) PROVE Apart'
  BY <1>1, <1>6 DEF MarkBroadcastFannedOut
<1>7. ASSUME NEW r \in Run, Return(r) \/ Throw(r) \/ Crash(r) PROVE Apart'
  BY <1>1, <1>7 DEF Return, Throw, Crash, Idle
<1>8. CASE UNCHANGED runs
  BY <1>8
<1> QED BY <1>2, <1>3, <1>4, <1>5, <1>6, <1>7, <1>8
    DEF Next, vars, InsertBroadcast, EnqueueBroadcast, Lapse, Come, EraseUser

LEMMA FreshStep ==
  Tables /\ Memory /\ Fresh /\ Apart /\ OneEach /\ [Next]_vars => Fresh' /\ OneEach'
<1> SUFFICES ASSUME Tables, Memory, Fresh, Apart, OneEach, [Next]_vars PROVE Fresh' /\ OneEach'
  OBVIOUS
<1> USE DEF Memory, RunState, Fresh, KeyOfRun
<1>1. ASSUME NEW r \in Run, \A q \in Run \ {r} : runs'[q] = runs[q], UNCHANGED notifications,
             runs'[r].wrote = {} \/ (runs'[r].wrote = runs[r].wrote /\ runs'[r].of = runs[r].of)
      PROVE  Fresh' /\ OneEach'
  BY <1>1 DEF OneEach
<1>2. ASSUME NEW r \in Run, NEW b \in Broadcast, Claim(r, b) PROVE Fresh' /\ OneEach'
  BY <1>1, <1>2 DEF Claim, Started, Idle
<1>3. ASSUME NEW r \in Run, ReadPage(r) PROVE Fresh' /\ OneEach'
  <2>1. PICK page \in SUBSET Everyone(audience[runs[r].of]) :
          /\ runs' = [runs EXCEPT ![r].phase = IF page = {} THEN "marking" ELSE "page",
                                  ![r].page = page, ![r].todo = page]
          /\ UNCHANGED notifications
    BY <1>3 DEF ReadPage
  <2> QED BY <1>1, <2>1
<1>4. ASSUME NEW r \in Run, NEW u \in User, Notify(r, u) PROVE Fresh' /\ OneEach'
  <2>1. CASE IsNew(u, KeyOf[runs[r].of])
    <3>1. /\ runs' = [runs EXCEPT ![r].todo = @ \ {u}, ![r].wrote = @ \cup {u}]
          /\ notifications[u][KeyOf[runs[r].of]] = 0
          /\ UNCHANGED notifications
      BY <1>4, <2>1 DEF Notify, IsNew
    <3> QED BY <3>1 DEF OneEach
  <2>2. CASE ~IsNew(u, KeyOf[runs[r].of])
    <3>1. /\ runs' = [runs EXCEPT ![r].todo = @ \ {u}, ![r].wrote = @]
          /\ UNCHANGED notifications
      BY <1>4, <2>2 DEF Notify
    <3> QED BY <1>1, <3>1
  <2> QED BY <2>1, <2>2
<1>5. ASSUME NEW r \in Run, CommitPage(r) PROVE Fresh' /\ OneEach'
  <2> DEFINE k == KeyOfRun(r)
  <2>0. k \in Key
    BY <1>5, BroadcastsTyped DEF CommitPage, RunOK
  <2>1. /\ \A q \in Run \ {r} : runs'[q] = runs[q]
        /\ runs'[r].wrote = {}
    BY <1>5 DEF CommitPage
  <2>2. ASSUME NEW u \in User, NEW j \in Key
        PROVE  notifications'[u][j] = IF j = k /\ u \in runs[r].wrote
                                      THEN notifications[u][j] + 1 ELSE notifications[u][j]
    <3>1. notifications'[u] = [notifications[u] EXCEPT ![k] = IF u \in runs[r].wrote THEN @ + 1 ELSE @]
      BY <1>5 DEF CommitPage
    <3>2. notifications[u] \in [Key -> Nat]
      BY DEF Tables
    <3> HIDE DEF k
    <3> QED BY <2>0, <3>1, <3>2
  <2>3. OneEach'
    <3> SUFFICES ASSUME NEW u \in User, NEW j \in Key PROVE notifications'[u][j] <= 1
      BY DEF OneEach
    <3>1. CASE j = k /\ u \in runs[r].wrote
      <4>1. notifications[u][j] = 0
        BY <3>1
      <4> QED BY <2>2, <3>1, <4>1
    <3>2. CASE ~(j = k /\ u \in runs[r].wrote)
      BY <2>2, <3>2 DEF OneEach
    <3> QED BY <3>1, <3>2
  <2>4. Fresh'
    <3> SUFFICES ASSUME NEW q \in Run, NEW u \in runs'[q].wrote
                 PROVE  notifications'[u][KeyOf[runs'[q].of]] = 0
      OBVIOUS
    <3>1. q # r /\ runs'[q] = runs[q]
      BY <2>1
    <3>2. u \in User /\ KeyOf[runs[q].of] \in Key
      BY <3>1, BroadcastsTyped DEF RunOK
    <3>3. ~(KeyOf[runs[q].of] = k /\ u \in runs[r].wrote)
      BY <3>1 DEF Apart
    <3> QED BY <2>2, <3>1, <3>2, <3>3
  <2> QED BY <2>3, <2>4
<1>6. ASSUME NEW r \in Run, MarkBroadcastFannedOut(r) PROVE Fresh' /\ OneEach'
  BY <1>1, <1>6 DEF MarkBroadcastFannedOut
<1>7. ASSUME NEW r \in Run, Return(r) \/ Throw(r) \/ Crash(r) PROVE Fresh' /\ OneEach'
  BY <1>1, <1>7 DEF Return, Throw, Crash, Idle
<1>8. ASSUME NEW u \in User, EraseUser(u) PROVE Fresh' /\ OneEach'
  <2>1. UNCHANGED runs
    BY <1>8 DEF EraseUser
  <2>2. \A v \in User, j \in Key :
          notifications'[v][j] = IF v = u THEN 0 ELSE notifications[v][j]
    BY <1>8 DEF EraseUser, Tables
  <2>3. \A r \in Run : \A v \in runs[r].wrote : v \in User /\ KeyOf[runs[r].of] \in Key
    BY BroadcastsTyped DEF RunOK
  <2>4. Fresh'
    BY <2>1, <2>2, <2>3
  <2>5. OneEach'
    BY <2>2 DEF OneEach
  <2> QED BY <2>4, <2>5
<1>9. CASE UNCHANGED <<runs, notifications>>
  BY <1>9 DEF OneEach
<1> QED BY <1>2, <1>3, <1>4, <1>5, <1>6, <1>7, <1>8, <1>9
    DEF Next, vars, InsertBroadcast, EnqueueBroadcast, Lapse, Come

LEMMA NothingWritten == Init => Fresh /\ Apart /\ OneEach
BY DEF Init, Fresh, Apart, OneEach, Idle

(* No user has two notifications of one key, for any number of runs at     *)
(* once, failures, erasures and posts of one broadcast: fanOutBroadcast.   *)
THEOREM NobodyTwice == Spec => []OneEach
<1> QED BY NothingWritten, ApartStep, FreshStep, WellFormed, PTL DEF Spec

-----------------------------------------------------------------------------
(* How far a run has come.  Of those of its audience who were there ever   *)
(* since it was posted, all up to its cursor are told; its page has all    *)
(* from there to the last of the page, and the last page has all the rest. *)
Told(b, u) == notifications[u][KeyOf[b]] > 0

Behind(r, b) == \A u \in intended[b] : u <= runs[r].after => Told(b, u)
OnPage(r, b) ==
  runs[r].phase = "page" =>
    \A u \in intended[b] :
      u > runs[r].after /\ (LastPage(runs[r].page) \/ \E v \in runs[r].page : u <= v)
        => u \in runs[r].page /\ (u \in runs[r].todo \/ u \in runs[r].wrote \/ Told(b, u))
Ended(r, b) == runs[r].phase \in {"marking", "returning"} => \A u \in intended[b] : Told(b, u)
Position(r, b) == Working(r, b) => Behind(r, b) /\ OnPage(r, b) /\ Ended(r, b)
Progress == \A r \in Run, b \in Broadcast : Position(r, b)

There == \A b \in Broadcast : intended[b] \subseteq Everyone(audience[b])
Stored ==
  \A b \in Broadcast :
    jobs[b] # "absent" \/ (\E r \in Run : Working(r, b)) => broadcasts[b] # "absent"

(* A step after which those who are intended yet and were told are told.   *)
Keeps(b) ==
  /\ intended'[b] \subseteq intended[b]
  /\ \A u \in intended'[b] : Told(b, u) => Told(b, u)'

LEMMA KeepsStep ==
  ASSUME Tables, Memory, Next, NEW b \in Broadcast,
         \A listed \in Lists : ~InsertBroadcast(b, listed)
  PROVE  Keeps(b)
<1>0. intended \in [Broadcast -> SUBSET User] /\ KeyOf[b] \in Key
  BY BroadcastsTyped DEF Tables
<1>1. ASSUME NEW u \in User, EraseUser(u) PROVE Keeps(b)
  <2>1. intended'[b] = intended[b] \ {u}
    BY <1>0, <1>1 DEF EraseUser
  <2>2. \A v \in User \ {u} : notifications'[v] = notifications[v]
    BY <1>1 DEF EraseUser, Tables
  <2> QED BY <1>0, <2>1, <2>2 DEF Keeps, Told
<1>2. ASSUME NEW r \in Run, CommitPage(r) PROVE Keeps(b)
  <2> DEFINE k == KeyOf[runs[r].of]
  <2>1. UNCHANGED intended
    BY <1>2 DEF CommitPage
  <2>2. ASSUME NEW u \in User PROVE notifications'[u][KeyOf[b]] >= notifications[u][KeyOf[b]]
    <3>1. notifications'[u] = [notifications[u] EXCEPT ![k] = IF u \in runs[r].wrote THEN @ + 1 ELSE @]
      BY <1>2 DEF CommitPage
    <3>2. notifications[u] \in [Key -> Nat]
      BY DEF Tables
    <3> HIDE DEF k
    <3>3. CASE k = KeyOf[b]
      BY <1>0, <3>1, <3>2, <3>3
    <3>4. CASE k # KeyOf[b]
      BY <1>0, <3>1, <3>2, <3>4
    <3> QED BY <3>3, <3>4
  <2>3. ASSUME NEW u \in User, Told(b, u) PROVE Told(b, u)'
    <3>1. notifications[u][KeyOf[b]] \in Nat /\ notifications[u][KeyOf[b]] > 0
      BY <1>0, <2>3 DEF Tables, Told
    <3>2. notifications'[u][KeyOf[b]] \in Nat
      BY <1>0, <1>2, TablesNotified
    <3> QED BY <2>2, <3>1, <3>2 DEF Told
  <2> QED BY <1>0, <2>1, <2>3 DEF Keeps
<1>3. ASSUME NEW c \in Broadcast, NEW listed \in Lists, InsertBroadcast(c, listed) PROVE Keeps(b)
  <2>1. c # b
    BY <1>3
  <2>2. intended'[b] = intended[b] /\ UNCHANGED notifications
    BY <1>0, <1>3, <2>1 DEF InsertBroadcast
  <2> QED BY <2>2 DEF Keeps, Told
<1>4. CASE UNCHANGED <<notifications, intended>>
  BY <1>4 DEF Keeps, Told
<1> QED BY <1>1, <1>2, <1>3, <1>4
    DEF Next, EnqueueBroadcast, Lapse, Claim, ReadPage, Notify, MarkBroadcastFannedOut,
        Return, Throw, Crash, Come

(* Where a run that does not move stands.                                  *)
LEMMA StandsStill ==
  ASSUME NEW r \in Run, NEW b \in Broadcast, Position(r, b), Keeps(b), runs'[r] = runs[r]
  PROVE  Position(r, b)'
BY DEF Position, Working, Behind, OnPage, Ended, Keeps

(* A run that goes on stays with its broadcast; the others stand still.    *)
LEMMA Moves ==
  ASSUME Memory, NEW r \in Run,
         ReadPage(r) \/ (\E u \in User : Notify(r, u)) \/ CommitPage(r) \/ MarkBroadcastFannedOut(r)
  PROVE  /\ runs'[r].of = runs[r].of
         /\ \A q \in Run \ {r} : runs'[q] = runs[q]
         /\ runs[r].phase # "idle"
<1> USE DEF Memory, RunState, RunOK
<1>1. CASE ReadPage(r)
  <2>1. PICK page \in SUBSET Everyone(audience[runs[r].of]) :
          runs' = [runs EXCEPT ![r].phase = IF page = {} THEN "marking" ELSE "page",
                               ![r].page = page, ![r].todo = page]
    BY <1>1 DEF ReadPage
  <2>2. runs[r].phase = "between"
    BY <1>1 DEF ReadPage
  <2> QED BY <2>1, <2>2
<1>2. ASSUME NEW u \in User, Notify(r, u)
      PROVE  runs'[r].of = runs[r].of /\ (\A q \in Run \ {r} : runs'[q] = runs[q]) /\ runs[r].phase # "idle"
  BY <1>2 DEF Notify
<1>3. CASE CommitPage(r)
  <2>1. PICK last \in runs[r].page :
          runs' = [runs EXCEPT ![r].phase = IF LastPage(runs[r].page) THEN "marking" ELSE "between",
                               ![r].after = last, ![r].page = {}, ![r].wrote = {}]
    BY <1>3 DEF CommitPage
  <2>2. runs[r].phase = "page"
    BY <1>3 DEF CommitPage
  <2> QED BY <2>1, <2>2
<1>4. CASE MarkBroadcastFannedOut(r)
  BY <1>4 DEF MarkBroadcastFannedOut
<1> QED BY <1>1, <1>2, <1>3, <1>4

LEMMA StoredStep == Memory /\ Tables /\ Stored /\ [Next]_vars => Stored'
<1> SUFFICES ASSUME Memory, Tables, Stored, [Next]_vars, NEW b \in Broadcast,
                    jobs'[b] # "absent" \/ \E r \in Run : Working(r, b)'
             PROVE  broadcasts'[b] # "absent"
  BY DEF Stored
<1> USE DEF Memory, RunState, Tables, Working, Stored
<1>1. broadcasts[b] # "absent" => broadcasts'[b] # "absent"
  BY DEF Next, vars, InsertBroadcast, EnqueueBroadcast, Lapse, Claim, ReadPage, Notify, CommitPage,
         MarkBroadcastFannedOut, Return, Throw, Crash, Come, EraseUser
<1>2. ASSUME NEW c \in Broadcast, EnqueueBroadcast(c) PROVE broadcasts[b] # "absent"
  BY <1>2 DEF EnqueueBroadcast
<1>3. ASSUME NEW c \in Broadcast, Lapse(c) PROVE broadcasts[b] # "absent"
  BY <1>3 DEF Lapse
<1>4. ASSUME NEW r \in Run, NEW c \in Broadcast, Claim(r, c) PROVE broadcasts[b] # "absent"
  <2>1. jobs[c] # "absent" /\ (jobs'[b] # "absent" => jobs[b] # "absent" \/ b = c)
    BY <1>4 DEF Claim
  <2>2. ASSUME NEW q \in Run, Working(q, b)' PROVE Working(q, b) \/ b = c
    BY <1>4, <2>2 DEF Claim, Started, Idle
  <2> QED BY <2>1, <2>2
<1>5. ASSUME NEW r \in Run, ReadPage(r) \/ (\E u \in User : Notify(r, u)) \/ CommitPage(r)
                              \/ MarkBroadcastFannedOut(r)
      PROVE  broadcasts[b] # "absent"
  <2>1. UNCHANGED jobs
    BY <1>5 DEF ReadPage, Notify, CommitPage, MarkBroadcastFannedOut
  <2>2. /\ runs'[r].of = runs[r].of /\ \A q \in Run \ {r} : runs'[q] = runs[q]
        /\ runs[r].phase # "idle"
    BY <1>5, Moves
  <2> QED BY <2>1, <2>2
<1>6. ASSUME NEW r \in Run, Return(r) \/ Throw(r) \/ Crash(r) PROVE broadcasts[b] # "absent"
  <2>1. \A q \in Run : runs'[q] = Idle \/ runs'[q] = runs[q]
    BY <1>6 DEF Return, Throw, Crash
  <2>2. jobs'[b] # "absent" => jobs[b] # "absent"
    BY <1>6 DEF Return, Throw, Crash, Holds
  <2> QED BY <2>1, <2>2 DEF Idle
<1>7. CASE UNCHANGED <<jobs, runs>>
  <2>1. jobs[b] # "absent" \/ \E r \in Run : Working(r, b)
    BY <1>7
  <2> QED BY <1>1, <2>1
<1> QED BY <1>1, <1>2, <1>3, <1>4, <1>5, <1>6, <1>7
    DEF Next, vars, InsertBroadcast, Come, EraseUser

LEMMA ThereStep == Memory /\ Tables /\ There /\ [Next]_vars => There'
<1> SUFFICES ASSUME Memory, Tables, There, [Next]_vars, NEW b \in Broadcast
             PROVE  intended'[b] \subseteq Everyone(audience[b])'
  BY DEF There
<1> USE DEF Tables, There, Everyone
<1>1. ASSUME NEW c \in Broadcast, NEW listed \in Lists, InsertBroadcast(c, listed)
      PROVE  intended'[b] \subseteq Everyone(audience[b])'
  BY <1>1 DEF InsertBroadcast, Reachable
<1>2. ASSUME NEW r \in Run, CommitPage(r) PROVE intended'[b] \subseteq Everyone(audience[b])'
  <2>1. UNCHANGED <<intended, audience, known>>
    BY <1>2 DEF CommitPage
  <2>2. ASSUME NEW u \in User, NEW k \in Key, notifications[u][k] > 0 PROVE notifications'[u][k] > 0
    <3> DEFINE j == KeyOf[runs[r].of]
    <3>1. notifications'[u] = [notifications[u] EXCEPT ![j] = IF u \in runs[r].wrote THEN @ + 1 ELSE @]
      BY <1>2 DEF CommitPage
    <3>2. notifications[u] \in [Key -> Nat]
      OBVIOUS
    <3> HIDE DEF j
    <3>3. notifications'[u][k] \in {notifications[u][k], notifications[u][k] + 1}
      BY <3>1, <3>2
    <3> QED BY <2>2, <3>2, <3>3
  <2>3. Reachable \subseteq Reachable'
    BY <2>1, <2>2 DEF Reachable
  <2> QED BY <2>1, <2>3
<1>3. ASSUME NEW u \in User, EraseUser(u) PROVE intended'[b] \subseteq Everyone(audience[b])'
  <2>1. intended'[b] = intended[b] \ {u} /\ UNCHANGED audience
    BY <1>3 DEF EraseUser
  <2>2. Reachable \ {u} \subseteq Reachable'
    BY <1>3 DEF EraseUser, Reachable
  <2> QED BY <2>1, <2>2
<1>4. ASSUME NEW u \in User, Come(u) PROVE intended'[b] \subseteq Everyone(audience[b])'
  BY <1>4 DEF Come, Reachable
<1>5. CASE UNCHANGED <<known, notifications, audience, intended>>
  BY <1>5 DEF Reachable
<1> QED BY <1>1, <1>2, <1>3, <1>4, <1>5
    DEF Next, vars, EnqueueBroadcast, Lapse, Claim, ReadPage, Notify, MarkBroadcastFannedOut,
        Return, Throw, Crash

(* No user is between the first and the last of a page and not on it, and  *)
(* a page that is not full has all who are left.                           *)
LEMMA PageHasAll ==
  ASSUME NEW all \in SUBSET User, NEW after \in Nat, NEW page, IsPage(page, after, all),
         NEW u \in all, u > after, LastPage(page) \/ \E v \in page : u <= v
  PROVE  u \in page
<1> DEFINE left == {v \in all : v > after}
<1>0. User \subseteq Nat /\ PageSize \in Nat
  BY UsersTyped, BoundsTyped
<1>1. page \subseteq left /\ u \in left
  BY DEF IsPage
<1>2. CASE LastPage(page)
  <2>1. Cardinality(page) # PageSize
    BY <1>0, <1>2 DEF LastPage
  <2>2. page = left
    BY <2>1 DEF IsPage
  <2> QED BY <1>1, <2>2
<1>3. ASSUME NEW v \in page, u <= v PROVE u \in page
  <2>1. u \notin page => v < u
    BY <1>1, <1>3 DEF IsPage
  <2>2. u \in Nat /\ v \in Nat
    BY <1>0, <1>1
  <2> QED BY <1>3, <2>1, <2>2
<1> QED BY <1>2, <1>3

LEMMA EmptyPage ==
  ASSUME NEW all \in SUBSET User, NEW after \in Nat, IsPage({}, after, all)
  PROVE  \A u \in all : u <= after
<1>1. Cardinality({}) # PageSize
  BY FS_EmptySet, BoundsTyped
<1>2. {u \in all : u > after} = {}
  BY <1>1 DEF IsPage
<1> QED BY <1>2, UsersTyped

LEMMA ReadPageMoves ==
  ASSUME Tables, Memory, There, Progress, NEW r \in Run, NEW b \in Broadcast, ReadPage(r), runs[r].of = b
  PROVE  Position(r, b)'
<1> DEFINE all == Everyone(audience[b])
           s == runs[r]
<1>1. PICK page \in SUBSET all :
        /\ IsPage(page, s.after, all)
        /\ runs' = [runs EXCEPT ![r].phase = IF page = {} THEN "marking" ELSE "page",
                                ![r].page = page, ![r].todo = page]
  BY DEF ReadPage
<1>2. all \in SUBSET User /\ s.after \in Nat /\ s \in RunState /\ s.phase = "between"
  BY EveryoneIsUsers DEF Tables, Memory, RunState, ReadPage
<1>3. UNCHANGED <<intended, notifications>> /\ intended[b] \subseteq all
  BY DEF ReadPage, There
<1>4. Behind(r, b)
  BY <1>2 DEF Progress, Position, Working
<1>5. /\ runs'[r].phase = IF page = {} THEN "marking" ELSE "page"
      /\ runs'[r].page = page /\ runs'[r].todo = page /\ runs'[r].after = s.after
      /\ runs'[r].of = b
  BY <1>1, <1>2 DEF Memory, RunState
<1> HIDE DEF all, s
<1>6. Behind(r, b)'
  BY <1>3, <1>4, <1>5 DEF Behind, Told, s
<1>7. OnPage(r, b)'
  <2> SUFFICES ASSUME NEW u \in intended[b], u > s.after,
                      LastPage(page) \/ \E v \in page : u <= v
               PROVE  u \in page
    BY <1>3, <1>5 DEF OnPage
  <2> QED BY <1>1, <1>2, <1>3, PageHasAll
<1>8. Ended(r, b)'
  <2> SUFFICES ASSUME page = {}, NEW u \in intended[b] PROVE Told(b, u)
    BY <1>3, <1>5 DEF Ended, Told
  <2>1. u <= s.after
    BY <1>1, <1>2, <1>3, EmptyPage
  <2> QED BY <1>4, <2>1 DEF Behind, s
<1> QED BY <1>6, <1>7, <1>8 DEF Position

LEMMA NotifyMoves ==
  ASSUME Tables, Memory, Progress, NEW r \in Run, NEW b \in Broadcast, NEW v \in User, Notify(r, v),
         runs[r].of = b
  PROVE  Position(r, b)'
<1>1. PICK new \in SUBSET {v} :
        /\ runs' = [runs EXCEPT ![r].todo = @ \ {v}, ![r].wrote = @ \cup new]
  BY Writes
<1>2. /\ runs'[r].phase = runs[r].phase /\ runs'[r].of = b /\ runs'[r].after = runs[r].after
      /\ runs'[r].page = runs[r].page
      /\ runs'[r].todo = runs[r].todo \ {v} /\ runs[r].wrote \subseteq runs'[r].wrote
  BY <1>1 DEF Memory, RunState
<1>3. v \in runs'[r].wrote \/ Told(b, v)
  <2>1. CASE IsNew(v, KeyOf[b])
    BY <2>1 DEF Notify, Memory, RunState
  <2>2. CASE ~IsNew(v, KeyOf[b])
    <3>1. notifications[v][KeyOf[b]] \in Nat
      BY BroadcastsTyped DEF Tables
    <3> QED BY <2>2, <3>1 DEF IsNew, Told
  <2> QED BY <2>1, <2>2
<1>4. UNCHANGED <<intended, notifications>> /\ runs[r].phase = "page"
  BY DEF Notify, Memory, RunOK
<1>5. Behind(r, b) /\ OnPage(r, b)
  BY <1>4 DEF Progress, Position, Working
<1>6. Behind(r, b)'
  BY <1>2, <1>4, <1>5 DEF Behind, Told
<1>7. OnPage(r, b)'
  <2>1. \A u \in User : Told(b, u) => Told(b, u)'
    BY <1>4 DEF Told
  <2> SUFFICES ASSUME NEW u \in intended[b], u > runs[r].after,
                      LastPage(runs[r].page) \/ \E w \in runs[r].page : u <= w
               PROVE  u \in runs[r].page /\ (u \in runs'[r].todo \/ u \in runs'[r].wrote \/ Told(b, u))
    BY <1>2, <1>4 DEF OnPage, Told
  <2>2. u \in runs[r].page /\ (u \in runs[r].todo \/ u \in runs[r].wrote \/ Told(b, u))
    BY <1>4, <1>5 DEF OnPage
  <2> QED BY <1>2, <1>3, <2>2
<1>8. Ended(r, b)'
  BY <1>2, <1>4 DEF Ended
<1> QED BY <1>6, <1>7, <1>8 DEF Position

LEMMA CommitPageMoves ==
  ASSUME Tables, Memory, Progress, NEW r \in Run, NEW b \in Broadcast, CommitPage(r), runs[r].of = b,
         Keeps(b)
  PROVE  Position(r, b)'
<1>1. PICK last \in runs[r].page :
        runs' = [runs EXCEPT ![r].phase = IF LastPage(runs[r].page) THEN "marking" ELSE "between",
                             ![r].after = last, ![r].page = {}, ![r].wrote = {}]
  BY DEF CommitPage
<1>2. /\ runs'[r].phase = (IF LastPage(runs[r].page) THEN "marking" ELSE "between")
      /\ runs'[r].after = last
  BY <1>1 DEF Memory, RunState
<1>3. /\ runs[r].phase = "page" /\ runs[r].todo = {} /\ UNCHANGED intended
      /\ intended[b] \subseteq User /\ User \subseteq Nat /\ runs[r].after \in Nat
  BY UsersTyped DEF CommitPage, Tables, Memory, RunState
<1>4. ASSUME NEW u \in runs[r].wrote PROVE Told(b, u)'
  <2>1. u \in User /\ KeyOf[b] \in Key /\ notifications[u] \in [Key -> Nat]
    BY BroadcastsTyped DEF Tables, Memory, RunState
  <2>2. notifications'[u] = [notifications[u] EXCEPT ![KeyOf[b]] = @ + 1]
    BY <1>4, <2>1 DEF CommitPage
  <2>3. notifications'[u][KeyOf[b]] = notifications[u][KeyOf[b]] + 1
    BY <2>1, <2>2
  <2>4. notifications[u][KeyOf[b]] \in Nat
    BY <2>1
  <2> QED BY <2>3, <2>4 DEF Told
<1>5. ASSUME NEW u \in intended[b], LastPage(runs[r].page) \/ u <= last PROVE Told(b, u)'
  <2>1. Behind(r, b) /\ OnPage(r, b)
    BY <1>3 DEF Progress, Position, Working
  <2>2. Told(b, u) => Told(b, u)'
    BY <1>3 DEF Keeps
  <2>3. CASE u <= runs[r].after
    BY <2>1, <2>2, <2>3 DEF Behind
  <2>4. CASE u > runs[r].after
    <3>1. u \in runs[r].wrote \/ Told(b, u)
      BY <1>3, <1>5, <2>1, <2>4 DEF OnPage
    <3> QED BY <1>4, <2>2, <3>1
  <2>5. u \in Nat /\ runs[r].after \in Nat
    BY <1>3
  <2> QED BY <2>3, <2>4, <2>5
<1>6. Behind(r, b)'
  BY <1>2, <1>3, <1>5 DEF Behind
<1>7. OnPage(r, b)' /\ Ended(r, b)'
  BY <1>2, <1>3, <1>5 DEF OnPage, Ended
<1> QED BY <1>6, <1>7 DEF Position

LEMMA MarkMoves ==
  ASSUME Memory, Progress, NEW r \in Run, NEW b \in Broadcast, MarkBroadcastFannedOut(r), runs[r].of = b
  PROVE  Position(r, b)' /\ \A u \in intended'[b] : Told(b, u)'
<1>1. /\ runs'[r].phase = "returning" /\ runs'[r].after = runs[r].after /\ runs[r].phase = "marking"
      /\ UNCHANGED <<intended, notifications>>
  BY DEF MarkBroadcastFannedOut, Memory, RunState
<1>2. Behind(r, b) /\ Ended(r, b)
  BY <1>1 DEF Progress, Position, Working
<1> QED BY <1>1, <1>2 DEF Position, Behind, OnPage, Ended, Told

LEMMA ClaimMoves ==
  ASSUME NEW r \in Run, NEW b \in Broadcast, Claim(r, b), Tables, Memory
  PROVE  Position(r, b)'
<1>1. runs'[r].after = 0 /\ runs'[r].phase = "between" /\ UNCHANGED intended
  BY DEF Claim, Started, Idle, Memory
<1>2. \A u \in intended[b] : ~(u <= 0)
  BY UsersTyped DEF Tables
<1> QED BY <1>1, <1>2 DEF Position, Behind, OnPage, Ended

LEMMA ProgressStep ==
  Tables /\ Memory /\ There /\ Stored /\ Progress /\ [Next]_vars => Progress'
<1> SUFFICES ASSUME Tables, Memory, There, Stored, Progress, [Next]_vars,
                    NEW r \in Run, NEW b \in Broadcast, Working(r, b)'
             PROVE  Position(r, b)'
  BY DEF Progress, Position
<1>0. Position(r, b)
  BY DEF Progress
<1>1. CASE UNCHANGED vars
  BY <1>0, <1>1, StandsStill DEF vars, Keeps, Told
<1>2. ASSUME NEW listed \in Lists, InsertBroadcast(b, listed) PROVE Position(r, b)'
  BY <1>2 DEF InsertBroadcast, Stored, Working
<1>3. ASSUME Next, \A listed \in Lists : ~InsertBroadcast(b, listed) PROVE Position(r, b)'
  <2>0. Keeps(b)
    BY <1>3, KeepsStep
  <2>1. CASE runs'[r] = runs[r]
    BY <1>0, <2>0, <2>1, StandsStill
  <2>2. ASSUME NEW q \in Run, ReadPage(q) \/ (\E u \in User : Notify(q, u)) \/ CommitPage(q)
                                \/ MarkBroadcastFannedOut(q)
        PROVE  Position(r, b)'
    <3>1. CASE q # r
      BY <2>1, <2>2, <3>1, Moves
    <3>2. CASE q = r
      <4>1. runs[r].of = b
        BY <2>2, <3>2, Moves DEF Working
      <4> QED BY <2>0, <2>2, <3>2, <4>1, ReadPageMoves, NotifyMoves, CommitPageMoves, MarkMoves
    <3> QED BY <3>1, <3>2
  <2>3. ASSUME NEW q \in Run, NEW c \in Broadcast, Claim(q, c) PROVE Position(r, b)'
    <3>1. CASE q # r
      BY <2>1, <2>3, <3>1 DEF Claim
    <3>2. CASE q = r
      <4>1. b = c
        BY <2>3, <3>2 DEF Claim, Started, Working, Idle, Memory
      <4> QED BY <2>3, <3>2, <4>1, ClaimMoves
    <3> QED BY <3>1, <3>2
  <2>4. ASSUME NEW q \in Run, Return(q) \/ Throw(q) \/ Crash(q) PROVE Position(r, b)'
    <3>1. q # r
      BY <2>4 DEF Return, Throw, Crash, Working, Idle, Memory
    <3>2. runs' = [runs EXCEPT ![q] = Idle]
      BY <2>4 DEF Return, Throw, Crash
    <3> QED BY <2>1, <3>1, <3>2 DEF Memory
  <2>5. CASE UNCHANGED runs
    BY <2>1, <2>5
  <2> QED BY <1>3, <2>2, <2>3, <2>4, <2>5
      DEF Next, InsertBroadcast, EnqueueBroadcast, Lapse, Come, EraseUser
<1> QED BY <1>1, <1>2, <1>3

LEMMA FannedStep ==
  Tables /\ Memory /\ Progress /\ FannedOutIsTold /\ [Next]_vars => FannedOutIsTold'
<1> SUFFICES ASSUME Tables, Memory, Progress, FannedOutIsTold, [Next]_vars,
                    NEW b \in Broadcast, broadcasts'[b] = "fanned"
             PROVE  \A u \in intended'[b] : Told(b, u)'
  BY DEF FannedOutIsTold, Told
<1>1. CASE UNCHANGED vars
  BY <1>1 DEF vars, FannedOutIsTold, Told
<1>2. ASSUME NEW listed \in Lists, InsertBroadcast(b, listed) PROVE FALSE
  BY <1>2 DEF InsertBroadcast, Tables
<1>3. ASSUME NEW r \in Run, MarkBroadcastFannedOut(r), runs[r].of = b
      PROVE  \A u \in intended'[b] : Told(b, u)'
  BY <1>3, MarkMoves
<1>4. ASSUME Next, \A listed \in Lists : ~InsertBroadcast(b, listed), broadcasts[b] = "fanned"
      PROVE  \A u \in intended'[b] : Told(b, u)'
  BY <1>4, KeepsStep DEF Keeps, FannedOutIsTold, Told
<1>5. ASSUME Next, broadcasts[b] # "fanned", \A r \in Run : ~(MarkBroadcastFannedOut(r) /\ runs[r].of = b)
      PROVE  FALSE
  BY <1>5 DEF Next, InsertBroadcast, EnqueueBroadcast, Lapse, Claim, ReadPage, Notify, CommitPage,
              MarkBroadcastFannedOut, Return, Throw, Crash, Come, EraseUser, Tables
<1> QED BY <1>1, <1>2, <1>3, <1>4, <1>5

LEMMA NothingBegun == Init => There /\ Stored /\ Progress /\ FannedOutIsTold
BY DEF Init, There, Stored, Progress, Position, Working, FannedOutIsTold, Idle

(* A broadcast marked as fanned out has told all of its audience who were  *)
(* there from its post on, for any page size, any arrivals and erasures    *)
(* around the cursor and any failures: fanOutBroadcast.                    *)
THEOREM NobodyMissed == Spec => []FannedOutIsTold
<1> QED BY NothingBegun, ThereStep, StoredStep, ProgressStep, FannedStep, WellFormed, PTL DEF Spec

(* The job row of a broadcast is deleted by a run that has told everybody  *)
(* it was to tell, however many runs there are and whoever holds the row   *)
(* (src/src/notify/jobs.ts:163-172).                                       *)
THEOREM NoJobEndsEarly == Spec => DoneIsTold
<1>1. ASSUME Tables, Memory, Progress, [Next]_vars,
             NEW b \in Broadcast, jobs[b] # "absent", jobs'[b] = "absent"
      PROVE  \A u \in intended[b] : Told(b, u)
  <2> USE DEF Tables
  <2>1. ASSUME NEW r \in Run, Return(r) PROVE \A u \in intended[b] : Told(b, u)
    <3>1. runs[r].of = b
      BY <1>1, <2>1 DEF Return
    <3>2. Position(r, b) /\ Working(r, b)
      BY <1>1, <2>1, <3>1 DEF Progress, Return, Working
    <3> QED BY <2>1, <3>2 DEF Position, Ended, Return
  <2>2. ASSUME NEW r \in Run, Throw(r) PROVE FALSE
    BY <1>1, <2>2 DEF Throw
  <2>3. ASSUME NEW c \in Broadcast, EnqueueBroadcast(c) \/ Lapse(c) \/ \E r \in Run : Claim(r, c)
        PROVE  FALSE
    BY <1>1, <2>3 DEF EnqueueBroadcast, Lapse, Claim
  <2>4. CASE UNCHANGED jobs
    BY <1>1, <2>4
  <2> QED BY <1>1, <2>1, <2>2, <2>3, <2>4
      DEF Next, vars, InsertBroadcast, ReadPage, Notify, CommitPage, MarkBroadcastFannedOut, Crash,
          Come, EraseUser
<1>2. Tables /\ Memory /\ Progress /\ [Next]_vars =>
        \A b \in Broadcast : jobs[b] # "absent" /\ jobs'[b] = "absent" =>
          \A u \in intended[b] : notifications[u][KeyOf[b]] > 0
  BY <1>1 DEF Told
<1> QED BY <1>2, NothingBegun, ThereStep, StoredStep, ProgressStep, WellFormed, PTL
        DEF Spec, DoneIsTold

-----------------------------------------------------------------------------
(* Nobody else is told: a page holds none but those who are meant.         *)
PageIsMeant == \A r \in Run : \A u \in runs[r].page : Meant(runs[r].of, u)

LEMMA MeantStays ==
  ASSUME Tables, [Next]_vars, NEW b \in Broadcast, NEW u, Meant(b, u)
  PROVE  Meant(b, u)'
BY DEF Tables, Meant, Next, vars, InsertBroadcast, EnqueueBroadcast, Lapse, Claim, ReadPage, Notify,
       CommitPage, MarkBroadcastFannedOut, Return, Throw, Crash, Come, EraseUser

LEMMA PageMeantStep ==
  ASSUME Tables, Memory, Stored, PageIsMeant, [Next]_vars
  PROVE  PageIsMeant'
<1> SUFFICES ASSUME NEW r \in Run, NEW u \in runs'[r].page PROVE Meant(runs[r].of, u)'
  BY DEF PageIsMeant, Meant
<1> USE DEF Memory, RunOK
<1>1. runs[r].phase # "idle" => runs[r].of \in Broadcast
  OBVIOUS
<1>2. CASE runs'[r].page \subseteq runs[r].page /\ runs'[r].of = runs[r].of
  <2>1. runs[r].of \in Broadcast /\ Meant(runs[r].of, u)
    BY <1>1, <1>2 DEF PageIsMeant
  <2> QED BY <1>2, <2>1, MeantStays
<1>3. ASSUME NEW q \in Run, ReadPage(q) PROVE Meant(runs[r].of, u)'
  <2>1. CASE q # r
    BY <1>2, <1>3, <2>1 DEF ReadPage
  <2>2. CASE q = r
    <3>1. PICK page \in SUBSET Everyone(audience[runs[r].of]) :
            runs' = [runs EXCEPT ![r].phase = IF page = {} THEN "marking" ELSE "page",
                                 ![r].page = page, ![r].todo = page]
      BY <1>3, <2>2 DEF ReadPage
    <3>2. runs'[r].page = page /\ runs'[r].of = runs[r].of
      <4> DEFINE next == IF page = {} THEN "marking" ELSE "page"
      <4>1. runs' = [runs EXCEPT ![r].phase = next, ![r].page = page, ![r].todo = page]
        BY <3>1
      <4> HIDE DEF next
      <4>2. runs'[r] = [runs[r] EXCEPT !.phase = next, !.page = page, !.todo = page]
        BY <4>1
      <4> QED BY <4>2 DEF RunState
    <3>3. runs[r].of \in Broadcast /\ broadcasts[runs[r].of] # "absent"
      BY <1>1, <1>3, <2>2 DEF ReadPage, Stored, Working
    <3>4. Meant(runs[r].of, u)
      BY <3>1, <3>2, <3>3 DEF Everyone, Meant
    <3> QED BY <3>2, <3>3, <3>4, MeantStays
  <2> QED BY <2>1, <2>2
<1>4. ASSUME NEW q \in Run, NEW v \in User, Notify(q, v) PROVE Meant(runs[r].of, u)'
  <2>1. runs'[r].page = runs[r].page /\ runs'[r].of = runs[r].of
    BY <1>4 DEF Notify, RunState
  <2> QED BY <1>2, <2>1
<1>5. ASSUME NEW q \in Run,
             CommitPage(q) \/ MarkBroadcastFannedOut(q) \/ Return(q) \/ Throw(q) \/ Crash(q)
               \/ \E b \in Broadcast : Claim(q, b)
      PROVE  Meant(runs[r].of, u)'
  <2>1. CASE q # r
    <3>1. runs'[r] = runs[r]
      BY <1>5, <2>1 DEF CommitPage, MarkBroadcastFannedOut, Return, Throw, Crash, Claim
    <3> QED BY <1>2, <3>1
  <2>2. CASE q = r
    <3>1. CASE CommitPage(r)
      BY <3>1 DEF CommitPage, RunState
    <3>2. CASE MarkBroadcastFannedOut(r)
      <4>1. runs'[r].page = runs[r].page /\ runs'[r].of = runs[r].of
        BY <3>2 DEF MarkBroadcastFannedOut, RunState
      <4> QED BY <1>2, <4>1
    <3>3. CASE Return(r) \/ Throw(r) \/ Crash(r)
      BY <3>3 DEF Return, Throw, Crash, Idle
    <3>4. ASSUME NEW b \in Broadcast, Claim(r, b) PROVE FALSE
      BY <3>4 DEF Claim, Started, Idle
    <3> QED BY <1>5, <2>2, <3>1, <3>2, <3>3, <3>4
  <2> QED BY <2>1, <2>2
<1>6. CASE UNCHANGED runs
  BY <1>2, <1>6
<1> QED BY <1>3, <1>4, <1>5, <1>6
    DEF Next, vars, InsertBroadcast, EnqueueBroadcast, Lapse, Come, EraseUser

LEMMA OnlyStep ==
  ASSUME Tables, Memory, PageIsMeant, OnlyTheAudience, [Next]_vars
  PROVE  OnlyTheAudience'
<1> SUFFICES ASSUME NEW u \in User, NEW k \in Key, notifications'[u][k] > 0
             PROVE  \E b \in Broadcast : KeyOf[b] = k /\ Meant(b, u)'
  BY DEF OnlyTheAudience
<1>1. CASE notifications[u][k] > 0
  BY <1>1, MeantStays DEF OnlyTheAudience
<1>2. ASSUME NEW r \in Run, CommitPage(r), ~(notifications[u][k] > 0)
      PROVE  \E b \in Broadcast : KeyOf[b] = k /\ Meant(b, u)'
  <2> DEFINE j == KeyOf[runs[r].of]
  <2>1. notifications'[u] = [notifications[u] EXCEPT ![j] = IF u \in runs[r].wrote THEN @ + 1 ELSE @]
    BY <1>2 DEF CommitPage
  <2>2. notifications[u] \in [Key -> Nat]
    BY DEF Tables
  <2>3. u \in runs[r].wrote /\ k = j
    <3> HIDE DEF j
    <3>1. notifications'[u][k] # notifications[u][k]
      BY <1>2
    <3> QED BY <2>1, <2>2, <3>1
  <2>4. runs[r].of \in Broadcast /\ Meant(runs[r].of, u)
    BY <1>2, <2>3 DEF CommitPage, Memory, RunOK, PageIsMeant
  <2> QED BY <2>3, <2>4, MeantStays
<1>3. ASSUME NEW v \in User, EraseUser(v) PROVE notifications[u][k] > 0
  BY <1>3 DEF EraseUser, Tables
<1>4. CASE UNCHANGED notifications
  BY <1>1, <1>4
<1> QED BY <1>1, <1>2, <1>3, <1>4
    DEF Next, vars, InsertBroadcast, EnqueueBroadcast, Lapse, Claim, ReadPage, Notify,
        MarkBroadcastFannedOut, Return, Throw, Crash, Come

(* An operator who lists users reaches nobody else, whoever comes, however *)
(* often a fan-out begins again and whatever posts share a key             *)
(* (src/src/notify/pipeline.ts:899-903).                                   *)
THEOREM NobodyElse == Spec => []OnlyTheAudience
<1>1. Init => PageIsMeant /\ OnlyTheAudience
  BY DEF Init, Idle, PageIsMeant, OnlyTheAudience
<1>2. Tables /\ Memory /\ Stored /\ PageIsMeant /\ OnlyTheAudience /\ [Next]_vars
        => PageIsMeant' /\ OnlyTheAudience'
  BY PageMeantStep, OnlyStep
<1> QED BY <1>1, <1>2, NothingBegun, StoredStep, WellFormed, PTL DEF Spec
=============================================================================
