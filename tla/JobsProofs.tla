----------------------------- MODULE JobsProofs ----------------------------
(***************************************************************************)
(* Theorems about Jobs, for every set of replicas and kinds, every budget  *)
(* and every value of the bounds.                                          *)
(***************************************************************************)
EXTENDS Jobs, TLAPS

(* What is left of a bound only shrinks.                                   *)
LEMMA Spending ==
  ASSUME Types, NEW b \in DOMAIN Bounds, Spend(b)
  PROVE  /\ budgets' \in [DOMAIN Bounds -> Nat]
         /\ \A c \in DOMAIN Bounds : budgets'[c] <= Bounds[c]
<1>1. Bounds[b] \in Nat /\ \A c \in DOMAIN Bounds : Bounds[c] \in Nat
  BY BoundsTyped DEF Bounds
<1>2. budgets[b] \in Nat /\ budgets[b] > 0
  BY DEF Types, Spend
<1>3. budgets[b] - 1 \in Nat /\ budgets[b] - 1 <= Bounds[b]
  <2>1. budgets[b] <= Bounds[b]
    BY DEF Types
  <2> QED BY <1>1, <1>2, <2>1
<1> DEFINE left == budgets[b] - 1
<1>4. budgets' = [budgets EXCEPT ![b] = left]
  BY DEF Spend
<1> HIDE DEF left
<1>5. left \in Nat /\ left <= Bounds[b]
  BY <1>3 DEF left
<1> QED BY <1>4, <1>5 DEF Types

LEMMA BoundNames ==
  DOMAIN Bounds = {"failures", "stops", "enqueues"}
BY DEF Bounds

(* A process that runs a kind whose handlers return in time holds its row. *)
RunsWhatItHolds ==
  \A p \in Process, k \in Kind \ Wedging : handlers[p][k] = "running" => Holds(p, k)

(* The steps that enqueue with `keep'.                                     *)
Seeds(p) == Start(p) \/ StartFails(p) \/ SeedNotify(p) \/ SeedNotifyFails(p) \/ CloseNotify(p)

LEMMA TypeStep == Types /\ AttemptsLeft /\ [Next]_vars => Types'
<1> SUFFICES ASSUME Types, AttemptsLeft, [Next]_vars PROVE Types'
  OBVIOUS
<1> USE DEF Types, RowState, HostState, HandlerState
<1>0. ASSUME NEW kinds PROVE Seeded(kinds) \in [Kind -> RowState]
  BY DEF Seeded
<1>1. ASSUME NEW p \in Process, Boot(p) PROVE Types'
  BY <1>1 DEF Boot
<1>2. ASSUME NEW p \in Process, Start(p) PROVE Types'
  BY <1>0, <1>2 DEF Start, Module
<1>3. ASSUME NEW p \in Process, StartFails(p) PROVE Types'
  BY <1>0, <1>3, Spending, BoundNames DEF StartFails
<1>4. ASSUME NEW p \in Process, SeedNotify(p) PROVE Types'
  BY <1>0, <1>4 DEF SeedNotify, Module
<1>5. ASSUME NEW p \in Process, SeedNotifyFails(p) PROVE Types'
  BY <1>0, <1>5, Spending, BoundNames DEF SeedNotifyFails
<1>6. ASSUME NEW p \in Process, Pull(p) PROVE Types'
  BY <1>6, KindsTyped DEF Pull
<1>7. ASSUME NEW p \in Process, Drain(p) PROVE Types'
  BY <1>7, Spending, BoundNames DEF Drain
<1>8. ASSUME NEW p \in Process, CloseNotify(p) PROVE Types'
  BY <1>0, <1>8 DEF CloseNotify
<1>9. ASSUME NEW p \in Process, Exit(p) PROVE Types'
  BY <1>9 DEF Exit, Gone
<1>10. ASSUME NEW p \in Process, Crash(p) PROVE Types'
  <2>1. /\ budgets' \in [DOMAIN Bounds -> Nat]
        /\ \A c \in DOMAIN Bounds : budgets'[c] <= Bounds[c]
    BY <1>10, Spending, BoundNames DEF Crash
  <2> QED BY <1>10, <2>1 DEF Crash, Gone
<1>11. ASSUME NEW p \in Process, NEW k \in Kind, Claim(p, k) PROVE Types'
  BY <1>11 DEF Claim
<1>12. ASSUME NEW p \in Process, NEW k \in Kind, Return(p, k) PROVE Types'
  BY <1>12, BoundsTyped DEF Return
<1>13. ASSUME NEW p \in Process, NEW k \in Kind, Throw(p, k) PROVE Types'
  <2>1. /\ budgets' \in [DOMAIN Bounds -> Nat]
        /\ \A c \in DOMAIN Bounds : budgets'[c] <= Bounds[c]
    BY <1>13, Spending, BoundNames DEF Throw
  <2>2. attempts[k] + 1 \in 0 .. MaxAttempts
    BY <1>13, BoundsTyped DEF AttemptsLeft, Throw, Holds
  <2>3. attempts' \in [Kind -> 0 .. MaxAttempts]
    BY <1>13, <2>2 DEF Throw
  <2>4. rows' \in [Kind -> RowState] /\ handlers' \in [Process -> [Kind -> HandlerState]]
    BY <1>13 DEF Throw
  <2> QED BY <1>13, <2>1, <2>3, <2>4 DEF Throw
<1>14. ASSUME NEW p \in Process, NEW k \in Kind, Lose(p, k) PROVE Types'
  BY <1>14 DEF Lose
<1>15. ASSUME NEW p \in Process, NEW k \in Kind, Rearm(p, k) PROVE Types'
  BY <1>15 DEF Rearm
<1>16. ASSUME NEW p \in Process, NEW k \in Kind, RearmFails(p, k) PROVE Types'
  <2>1. /\ budgets' \in [DOMAIN Bounds -> Nat]
        /\ \A c \in DOMAIN Bounds : budgets'[c] <= Bounds[c]
    BY <1>16, Spending, BoundNames DEF RearmFails
  <2> QED BY <1>16, <2>1 DEF RearmFails
<1>17. ASSUME NEW k \in Kind, FallDue(k) \/ Lapse(k) PROVE Types'
  BY <1>17 DEF FallDue, Lapse
<1>18. CASE UNCHANGED vars
  BY <1>18 DEF vars
<1> QED BY <1>1, <1>2, <1>3, <1>4, <1>5, <1>6, <1>7, <1>8, <1>9, <1>10, <1>11, <1>12, <1>13,
           <1>14, <1>15, <1>16, <1>17, <1>18 DEF Next

LEMMA AttemptsStep == Types /\ AttemptsLeft /\ [Next]_vars => AttemptsLeft'
<1> SUFFICES ASSUME Types, AttemptsLeft, [Next]_vars, NEW k \in Kind, rows'[k] # "dead"
             PROVE  attempts'[k] < MaxAttempts
  BY DEF AttemptsLeft
<1> USE DEF Types
<1>1. ASSUME NEW p \in Process, NEW j \in Kind, Return(p, j) PROVE attempts'[k] < MaxAttempts
  <2>1. j # k => rows'[k] = rows[k] /\ attempts'[k] = attempts[k]
    BY <1>1 DEF Return
  <2>2. j = k => attempts'[k] = 0
    BY <1>1 DEF Return
  <2> QED BY <2>1, <2>2, BoundsTyped DEF AttemptsLeft
<1>2. ASSUME NEW p \in Process, NEW j \in Kind, Throw(p, j) PROVE attempts'[k] < MaxAttempts
  <2>1. j # k => rows'[k] = rows[k] /\ attempts'[k] = attempts[k]
    BY <1>2 DEF Throw
  <2>2. j = k => attempts'[k] = attempts[k] + 1 /\ (attempts[k] + 1 < MaxAttempts \/ rows'[k] = "dead")
    BY <1>2 DEF Throw
  <2> QED BY <2>1, <2>2 DEF AttemptsLeft
<1>3. CASE attempts' = attempts /\ rows[k] # "dead"
  BY <1>3 DEF AttemptsLeft
<1>4. ASSUME NEW p \in Process, Seeds(p) PROVE attempts' = attempts /\ rows[k] # "dead"
  BY <1>4 DEF Seeds, Start, StartFails, SeedNotify, SeedNotifyFails, CloseNotify, Seeded
<1>5. ASSUME NEW p \in Process, Pull(p) PROVE attempts' = attempts /\ rows[k] # "dead"
  BY <1>5, KindsTyped DEF Pull
<1>6. ASSUME NEW p \in Process, NEW j \in Kind, Claim(p, j) \/ Rearm(p, j)
      PROVE  attempts' = attempts /\ rows[k] # "dead"
  BY <1>6 DEF Claim, Rearm
<1>7. ASSUME NEW j \in Kind, FallDue(j) \/ Lapse(j) PROVE attempts' = attempts /\ rows[k] # "dead"
  BY <1>7 DEF FallDue, Lapse
<1>8. CASE UNCHANGED <<rows, attempts>>
  BY <1>8 DEF AttemptsLeft
<1> QED BY <1>1, <1>2, <1>3, <1>4, <1>5, <1>6, <1>7, <1>8
    DEF Next, Seeds, vars, Boot, Drain, Exit, Crash, Lose, RearmFails

LEMMA InitIsGood == Init => TypeOK /\ RunsWhatItHolds
<1> SUFFICES ASSUME Init PROVE TypeOK /\ RunsWhatItHolds
  OBVIOUS
<1>1. \A b \in DOMAIN Bounds : Bounds[b] \in Nat
  BY BoundsTyped DEF Bounds
<1>2. Bounds \in [DOMAIN Bounds -> Nat] /\ \A b \in DOMAIN Bounds : Bounds[b] <= Bounds[b]
  BY <1>1 DEF Bounds
<1>3. Types
  BY <1>2, BoundsTyped DEF Init, Types, RowState, HostState, HandlerState
<1>4. AttemptsLeft /\ RunsWhatItHolds
  BY BoundsTyped DEF Init, AttemptsLeft, RunsWhatItHolds
<1> QED BY <1>3, <1>4 DEF TypeOK

(* Every reachable state of the queues and the processes is well formed.   *)
THEOREM TypeCorrect == Spec => []TypeOK
<1>1. TypeOK /\ [Next]_vars => TypeOK'
  BY TypeStep, AttemptsStep DEF TypeOK
<1> QED BY <1>1, InitIsGood, PTL DEF Spec

(***************************************************************************)
(* One process at a time.                                                  *)
(***************************************************************************)

LEMMA HoldingStep == TypeOK /\ RunsWhatItHolds /\ [Next]_vars => RunsWhatItHolds'
<1> SUFFICES ASSUME TypeOK, RunsWhatItHolds, [Next]_vars,
                    NEW p \in Process, NEW k \in Kind \ Wedging, handlers'[p][k] = "running"
             PROVE  Holds(p, k)'
  BY DEF RunsWhatItHolds
<1> USE DEF TypeOK, Types, Holds
<1>0. handlers[p][k] = "running" => Holds(p, k)
  BY DEF RunsWhatItHolds
<1>1. ASSUME NEW q \in Process, NEW j \in Kind, Claim(q, j) PROVE Holds(p, k)'
  <2>1. CASE j = k
    <3>1. p = q
      BY <1>0, <1>1, <2>1 DEF Claim
    <3> QED BY <1>1, <2>1, <3>1 DEF Claim
  <2>2. CASE j # k
    BY <1>0, <1>1, <2>2 DEF Claim
  <2> QED BY <2>1, <2>2
<1>2. ASSUME NEW q \in Process, NEW j \in Kind, Return(q, j) \/ Throw(q, j) PROVE Holds(p, k)'
  <2>1. /\ Holds(q, j) /\ holder' = holder /\ handlers'[q][j] # "running"
        /\ p # q \/ k # j => handlers'[p][k] = handlers[p][k]
        /\ k # j => rows'[k] = rows[k]
    <3>1. CASE Return(q, j)
      BY <3>1 DEF Return
    <3>2. CASE Throw(q, j)
      BY <3>2 DEF Throw
    <3> QED BY <1>2, <3>1, <3>2
  <2> QED BY <1>0, <2>1
<1>3. ASSUME NEW q \in Process, NEW j \in Kind, Lose(q, j) \/ Rearm(q, j) \/ RearmFails(q, j)
      PROVE  Holds(p, k)'
  <2>1. handlers[p][k] = "running"
    <3>1. CASE Lose(q, j)
      BY <3>1 DEF Lose
    <3>2. CASE Rearm(q, j)
      BY <3>2 DEF Rearm
    <3>3. CASE RearmFails(q, j)
      BY <3>3 DEF RearmFails
    <3> QED BY <1>3, <3>1, <3>2, <3>3
  <2>2. holder' = holder /\ (rows[k] = "leased" => rows'[k] = "leased")
    BY <1>3 DEF Lose, Rearm, RearmFails
  <2> QED BY <1>0, <2>1, <2>2
<1>4. ASSUME NEW q \in Process, Exit(q) \/ Crash(q) PROVE Holds(p, k)'
  <2>1. handlers[p][k] = "running" /\ UNCHANGED <<rows, holder>>
    BY <1>4 DEF Exit, Crash, Gone
  <2> QED BY <1>0, <2>1
<1>5. ASSUME NEW q \in Process, Seeds(q) \/ Pull(q) PROVE Holds(p, k)'
  <2>1. /\ UNCHANGED <<holder, handlers>>
        /\ rows[k] = "leased" => rows'[k] = "leased"
    BY <1>5, KindsTyped DEF Seeds, Start, StartFails, SeedNotify, SeedNotifyFails, CloseNotify, Pull, Seeded
  <2> QED BY <1>0, <2>1
<1>6. ASSUME NEW j \in Kind, FallDue(j) \/ Lapse(j) PROVE Holds(p, k)'
  <2>1. UNCHANGED <<holder, handlers>>
    BY <1>6 DEF FallDue, Lapse
  <2>2. rows'[k] = rows[k] \/ (j = k /\ Lapse(k)) \/ (j = k /\ FallDue(k))
    BY <1>6 DEF FallDue, Lapse
  <2>3. ~(Lapse(k) /\ Holds(p, k) /\ handlers[p][k] = "running") /\ ~(FallDue(k) /\ Holds(p, k))
    BY DEF Lapse, FallDue
  <2> QED BY <1>0, <2>1, <2>2, <2>3
<1>7. CASE UNCHANGED <<rows, holder, handlers>>
  BY <1>0, <1>7
<1> QED BY <1>1, <1>2, <1>3, <1>4, <1>5, <1>6, <1>7
    DEF Next, Seeds, vars, Boot, Drain

(* Two runs of one kind never overlap (src/src/notify/jobs.ts, the table   *)
(* of lease keys), whatever the restarts, seeds, pulls and drains, if its  *)
(* handlers renew their lease.                                             *)
THEOREM NeverTwoAtOnce == Spec => []OneAtATime
<1>1. RunsWhatItHolds => OneAtATime
  BY DEF RunsWhatItHolds, OneAtATime, Holds
<1> QED BY <1>1, InitIsGood, HoldingStep, TypeCorrect, PTL DEF Spec

(***************************************************************************)
(* No job is let fall.                                                     *)
(***************************************************************************)

(* A process that has closed notify has no job of notify left to re-arm.   *)
ClosedIsQuiet ==
  \A p \in Process : host[p] = "closed" =>
    \A k \in KindsOf("notify") : handlers[p][k] # "returned"

LEMMA QuietStep == TypeOK /\ ClosedIsQuiet /\ [Next]_vars => ClosedIsQuiet'
<1> SUFFICES ASSUME TypeOK, ClosedIsQuiet, [Next]_vars,
                    NEW p \in Process, host'[p] = "closed", NEW k \in KindsOf("notify")
             PROVE  handlers'[p][k] # "returned"
  BY DEF ClosedIsQuiet, KindsOf
<1> USE DEF TypeOK, Types
<1>0. k \in Kind /\ ModuleOf[k] = "notify" /\ (host[p] = "closed" => handlers[p][k] # "returned")
  BY DEF KindsOf, ClosedIsQuiet
<1>1. ASSUME NEW q \in Process, CloseNotify(q) PROVE handlers'[p][k] # "returned"
  <2>1. p = q => handlers[p][k] # "returned"
    BY <1>1 DEF CloseNotify, Stopped
  <2>2. p # q => host[p] = "closed"
    BY <1>1 DEF CloseNotify
  <2> QED BY <1>0, <1>1, <2>1, <2>2 DEF CloseNotify
<1>2. ASSUME NEW q \in Process, NEW j \in Kind, Return(q, j) PROVE handlers'[p][k] # "returned"
  <2>1. host[p] = "closed"
    BY <1>2 DEF Return
  <2>2. ~(q = p /\ j = k)
    BY <1>0, <1>2, <2>1 DEF Return, PoolIsOpen
  <2>3. handlers'[p][k] = handlers[p][k]
    BY <1>0, <1>2, <2>2 DEF Return
  <2> QED BY <1>0, <2>1, <2>3
<1>3. ASSUME NEW q \in Process, NEW j \in Kind,
             Claim(q, j) \/ Throw(q, j) \/ Lose(q, j) \/ Rearm(q, j) \/ RearmFails(q, j)
      PROVE  handlers'[p][k] # "returned"
  <2>1. host' = host
    BY <1>3 DEF Claim, Throw, Lose, Rearm, RearmFails
  <2>2. \E now \in {"running", "idle"} : handlers' = [handlers EXCEPT ![q][j] = now]
    BY <1>3 DEF Claim, Throw, Lose, Rearm, RearmFails
  <2> QED BY <1>0, <2>1, <2>2
<1>4. ASSUME NEW q \in Process, Exit(q) \/ Crash(q) PROVE handlers'[p][k] # "returned"
  <2>1. host' = [host EXCEPT ![q] = "down"] /\ handlers' = [handlers EXCEPT ![q] = [j \in Kind |-> "idle"]]
    BY <1>4 DEF Exit, Crash, Gone
  <2> QED BY <1>0, <2>1
<1>5. ASSUME NEW q \in Process,
             Boot(q) \/ Start(q) \/ StartFails(q) \/ SeedNotify(q) \/ SeedNotifyFails(q)
               \/ Pull(q) \/ Drain(q)
      PROVE  handlers'[p][k] # "returned"
  <2>1. handlers' = handlers
    BY <1>5 DEF Boot, Start, StartFails, SeedNotify, SeedNotifyFails, Pull, Drain
  <2>2. \/ host' = host
        \/ \E now \in {"booting", "up", "down", "draining"} : host' = [host EXCEPT ![q] = now]
    BY <1>5 DEF Boot, Start, StartFails, SeedNotify, SeedNotifyFails, Pull, Drain
  <2> QED BY <1>0, <2>1, <2>2
<1>6. ASSUME NEW j \in Kind, FallDue(j) \/ Lapse(j) PROVE handlers'[p][k] # "returned"
  BY <1>0, <1>6 DEF FallDue, Lapse
<1>7. CASE UNCHANGED vars
  BY <1>0, <1>7 DEF vars
<1> QED BY <1>1, <1>2, <1>3, <1>4, <1>5, <1>6, <1>7 DEF Next

LEMMA CarryingStep ==
  ASSUME TypeOK, ClosedIsQuiet, [Next]_vars, NEW k \in Kind, Carried(k)
  PROVE  Carried(k)' \/ Dies \/ budgets'.enqueues < budgets.enqueues
<1> USE DEF TypeOK, Types
<1> DEFINE Goal == Carried(k)' \/ Dies \/ budgets'.enqueues < budgets.enqueues
<1>1. ASSUME NEW q \in Process, Seeds(q) \/ Pull(q) \/ Boot(q) \/ Drain(q) PROVE Goal
  <2>1. handlers' = handlers
    BY <1>1 DEF Seeds, Start, StartFails, SeedNotify, SeedNotifyFails, CloseNotify, Pull, Boot, Drain
  <2>2. rows[k] # "absent" => rows'[k] # "absent"
    BY <1>1, KindsTyped
       DEF Seeds, Start, StartFails, SeedNotify, SeedNotifyFails, CloseNotify, Seeded, Pull, Boot, Drain
  <2> QED BY <2>1, <2>2 DEF Carried
<1>2. ASSUME NEW q \in Process, NEW j \in Kind, Claim(q, j) \/ Lose(q, j) PROVE Goal
  <2>1. handlers[q][j] # "returned"
        /\ \E now \in {"running", "idle"} : handlers' = [handlers EXCEPT ![q][j] = now]
    BY <1>2 DEF Claim, Lose
  <2>2. rows[k] # "absent" => rows'[k] # "absent"
    BY <1>2 DEF Claim, Lose
  <2>3. \A p \in Process : handlers[p][k] = "returned" => handlers'[p][k] = "returned"
    BY <2>1
  <2> QED BY <2>2, <2>3 DEF Carried
<1>3. ASSUME NEW q \in Process, NEW j \in Kind, Return(q, j) \/ Throw(q, j) \/ Rearm(q, j) PROVE Goal
  <2>1. CASE j # k
    <3>1. rows'[k] = rows[k] /\ \A p \in Process : handlers'[p][k] = handlers[p][k]
      BY <1>3, <2>1 DEF Return, Throw, Rearm
    <3> QED BY <3>1 DEF Carried
  <2>2. CASE j = k /\ Return(q, j)
    <3>1. handlers'[q][k] = "returned"
      BY <2>2 DEF Return
    <3> QED BY <3>1 DEF Carried
  <2>3. CASE j = k /\ (Throw(q, j) \/ Rearm(q, j))
    <3>1. rows'[k] # "absent"
      BY <2>3 DEF Throw, Rearm
    <3> QED BY <3>1 DEF Carried
  <2> QED BY <1>3, <2>1, <2>2, <2>3
<1>4. ASSUME NEW q \in Process, NEW j \in Kind, RearmFails(q, j) PROVE Goal
  <2>1. "enqueues" \in DOMAIN Bounds /\ budgets \in [DOMAIN Bounds -> Nat]
    BY BoundNames
  <2>2. budgets'.enqueues = budgets.enqueues - 1
    BY <1>4, <2>1 DEF RearmFails, Spend
  <2> QED BY <2>1, <2>2
<1>5. ASSUME NEW q \in Process, Exit(q) PROVE Goal
  <2>1. handlers[q][k] # "returned"
    <3>1. CASE ModuleOf[k] = "activity"
      BY <1>5, <3>1 DEF Exit, Stopped, KindsOf
    <3>2. CASE ModuleOf[k] = "notify"
      BY <1>5, <3>2 DEF Exit, ClosedIsQuiet, KindsOf
    <3> QED BY <3>1, <3>2, KindsTyped DEF Module
  <2>2. rows' = rows /\ \A p \in Process \ {q} : handlers'[p][k] = handlers[p][k]
    BY <1>5 DEF Exit, Gone
  <2> QED BY <2>1, <2>2 DEF Carried
<1>6. ASSUME NEW q \in Process, Crash(q) PROVE Goal
  <2>1. "stops" \in DOMAIN Bounds /\ budgets \in [DOMAIN Bounds -> Nat]
    BY BoundNames
  <2>2. budgets'.stops = budgets.stops - 1
    BY <1>6, <2>1 DEF Crash, Spend
  <2>3. host[q] # "down" /\ host'[q] = "down"
    BY <1>6 DEF Crash, Gone
  <2> QED BY <2>1, <2>2, <2>3 DEF Dies
<1>7. ASSUME NEW j \in Kind, FallDue(j) \/ Lapse(j) PROVE Goal
  <2>1. handlers' = handlers /\ (rows[k] # "absent" => rows'[k] # "absent")
    BY <1>7 DEF FallDue, Lapse
  <2> QED BY <2>1 DEF Carried
<1>8. CASE UNCHANGED vars
  BY <1>8 DEF vars, Carried
<1> QED BY <1>1, <1>2, <1>3, <1>4, <1>5, <1>6, <1>7, <1>8 DEF Next, Seeds

(* A recurring job that was seeded has its row, or a handler about to      *)
(* re-arm it, until a process dies in between or the re-arm fails          *)
(* (src/src/jobs.ts:55-76, src/src/index.ts:332-361).                      *)
THEOREM NoJobIsDropped == Spec => JobsAreCarried
<1>1. Init => ClosedIsQuiet
  BY DEF Init, ClosedIsQuiet
<1>2. TypeOK /\ ClosedIsQuiet /\ [Next]_vars =>
        \A k \in Kind : Carried(k) => Carried(k)' \/ Dies \/ budgets'.enqueues < budgets.enqueues
  BY CarryingStep
<1> QED BY <1>1, <1>2, QuietStep, TypeCorrect, PTL DEF Spec, JobsAreCarried
=============================================================================
