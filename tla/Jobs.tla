------------------------------- MODULE Jobs --------------------------------
(***************************************************************************)
(* Recurring jobs and the life of the process that runs them: boot, drain  *)
(* and shutdown of src/src/index.ts with start() and stop() of             *)
(* src/src/notify/module.ts, and the seeds and re-arms of src/src/jobs.ts  *)
(* and src/src/notify/jobs.ts.                                             *)
(*                                                                         *)
(* Two modules live in one process.  Each has a queue, which is a table of *)
(* its own database, and a runner with a budget of its own.  The queue is  *)
(* a library: a row is claimed under a lease, deleted when its handler     *)
(* returns, armed for later when it throws, and dead after too many        *)
(* throws.  A lease that its holder does not renew lapses, as that of a    *)
(* dispatch that waits for a mail host does.                               *)
(***************************************************************************)
EXTENDS Integers, FiniteSets

Module == {"activity", "notify"}

CONSTANTS
  Process,          \* replicas
  Kind,             \* kinds of recurring job
  ModuleOf,         \* the module of each
  Pulled,           \* the kind that an ingest pulls forward: notify.dispatch
  Wedging,          \* kinds whose handler may never return
  Budget,           \* the concurrency of each module's runner
  MaxAttempts,
  MaxFailures,      \* bound: handlers that throw
  MaxStops,         \* bound: drains and crashes
  MaxEnqueueFailures \* bound: seeds and re-arms that fail

ASSUME KindsTyped ==
  /\ ModuleOf \in [Kind -> Module] /\ Wedging \subseteq Kind
  /\ Pulled \in Kind /\ ModuleOf[Pulled] = "notify"
ASSUME BoundsTyped ==
  /\ Budget \in [Module -> Nat \ {0}]
  /\ MaxAttempts \in Nat \ {0}
  /\ {MaxFailures, MaxStops, MaxEnqueueFailures} \subseteq Nat

VARIABLES
  rows,      \* the job rows, by kind
  attempts,  \* of each row
  holder,    \* the process that claimed each row last
  host,      \* how far each process is
  seeding,   \* processes whose start() of notify has not seeded yet
  claims,    \* the modules whose runner claims, in each process
  handlers,  \* what each process does with each kind
  budgets    \* what is left of each bound

vars == <<rows, attempts, holder, host, seeding, claims, handlers, budgets>>

(* A row is armed for later, due, leased or dead.                          *)
RowState == {"absent", "armed", "due", "leased", "dead"}

(* A process is down, booting until activity is seeded, up, and draining;  *)
(* then notify is closed, then activity, and it exits.                     *)
HostState == {"down", "booting", "up", "draining", "closed"}

(* A handler runs, or has returned, its row deleted and not armed again.   *)
HandlerState == {"idle", "running", "returned"}

KindsOf(m) == {k \in Kind : ModuleOf[k] = m}
Running(p, m) == {k \in KindsOf(m) : handlers[p][k] = "running"}

(* The pool of notify is open until stop() has closed it.                  *)
PoolIsOpen(p, m) ==
  IF m = "notify" THEN host[p] \in {"booting", "up", "draining"} ELSE host[p] # "down"

Spend(bound) == budgets[bound] > 0 /\ budgets' = [budgets EXCEPT ![bound] = @ - 1]

-----------------------------------------------------------------------------
Bounds ==
  [failures |-> MaxFailures, stops |-> MaxStops, enqueues |-> MaxEnqueueFailures]

Init ==
  /\ rows = [k \in Kind |-> "absent"]
  /\ attempts = [k \in Kind |-> 0]
  /\ \E p \in Process : holder = [k \in Kind |-> p]
  /\ host = [p \in Process |-> "down"]
  /\ seeding = {}
  /\ claims = [p \in Process |-> {}]
  /\ handlers = [p \in Process |-> [k \in Kind |-> "idle"]]
  /\ budgets = Bounds

Boot(p) ==
  /\ host[p] = "down"
  /\ host' = [host EXCEPT ![p] = "booting"]
  /\ UNCHANGED <<rows, attempts, holder, seeding, claims, handlers, budgets>>

(* Fault: the seed replaces a row that exists.                             *)
SeededOver(kinds) == [k \in Kind |-> IF k \in kinds THEN "due" ELSE rows[k]]

(* seedRecurring: enqueued with `keep', so that an existing row stays as   *)
(* it is.                                                                  *)
Seeded(kinds) == [k \in Kind |-> IF k \in kinds /\ rows[k] = "absent" THEN "due" ELSE rows[k]]

(* index.ts, steps 9 to 12: activity is seeded, both are started, and the  *)
(* process listens.                                                        *)
Start(p) ==
  /\ host[p] = "booting"
  /\ rows' = Seeded(KindsOf("activity"))
  /\ claims' = [claims EXCEPT ![p] = {"activity"}]
  /\ host' = [host EXCEPT ![p] = "up"]
  /\ seeding' = seeding \cup {p}
  /\ UNCHANGED <<attempts, holder, handlers, budgets>>

(* The seed of activity is awaited: where it fails the process exits, with *)
(* some of its rows enqueued.                                              *)
StartFails(p) ==
  /\ host[p] = "booting"
  /\ Spend("enqueues")
  /\ \E kinds \in SUBSET KindsOf("activity") : rows' = Seeded(kinds)
  /\ host' = [host EXCEPT ![p] = "down"]
  /\ UNCHANGED <<attempts, holder, seeding, claims, handlers>>

(* The seed of notify is not awaited; its runner starts after it...        *)
SeedNotify(p) ==
  /\ p \in seeding
  /\ seeding' = seeding \ {p}
  /\ rows' = Seeded(KindsOf("notify"))
  /\ claims' = [claims EXCEPT ![p] = @ \cup {"notify"}]
  /\ UNCHANGED <<attempts, holder, host, handlers, budgets>>

(* ...and where it fails, that is logged, and the runner does not start.   *)
SeedNotifyFails(p) ==
  /\ p \in seeding
  /\ Spend("enqueues")
  /\ seeding' = seeding \ {p}
  /\ \E kinds \in SUBSET KindsOf("notify") : rows' = Seeded(kinds)
  /\ UNCHANGED <<attempts, holder, host, claims, handlers>>

(* Fault: one runner carries both modules, with the budget of activity.    *)
HasRoomInOne(p, m) ==
  Cardinality(Running(p, "activity") \cup Running(p, "notify")) < Budget["activity"]
    /\ m \in Module

HasRoom(p, m) == Cardinality(Running(p, m)) < Budget[m]

Claim(p, k) ==
  /\ host[p] = "up"
  /\ ModuleOf[k] \in claims[p]
  /\ HasRoom(p, ModuleOf[k])
  /\ rows[k] = "due"
  /\ handlers[p][k] = "idle"
  /\ rows' = [rows EXCEPT ![k] = "leased"]
  /\ holder' = [holder EXCEPT ![k] = p]
  /\ handlers' = [handlers EXCEPT ![p][k] = "running"]
  /\ UNCHANGED <<attempts, host, seeding, claims, budgets>>

Holds(p, k) == rows[k] = "leased" /\ holder[k] = p

(* The handler returns: its row is deleted, then `completed' is raised.    *)
Return(p, k) ==
  /\ handlers[p][k] = "running" /\ Holds(p, k)
  /\ PoolIsOpen(p, ModuleOf[k])
  /\ rows' = [rows EXCEPT ![k] = "absent"]
  /\ attempts' = [attempts EXCEPT ![k] = 0]
  /\ handlers' = [handlers EXCEPT ![p][k] = "returned"]
  /\ UNCHANGED <<holder, host, seeding, claims, budgets>>

(* It throws: tried again later, or dead.                                  *)
Throw(p, k) ==
  /\ handlers[p][k] = "running" /\ Holds(p, k)
  /\ PoolIsOpen(p, ModuleOf[k])
  /\ Spend("failures")
  /\ attempts' = [attempts EXCEPT ![k] = @ + 1]
  /\ rows' = [rows EXCEPT ![k] = IF attempts[k] + 1 < MaxAttempts THEN "armed" ELSE "dead"]
  /\ handlers' = [handlers EXCEPT ![p][k] = "idle"]
  /\ UNCHANGED <<holder, host, seeding, claims>>

(* Its lease has lapsed meanwhile: the row is no longer its own.           *)
Lose(p, k) ==
  /\ handlers[p][k] = "running" /\ ~Holds(p, k)
  /\ handlers' = [handlers EXCEPT ![p][k] = "idle"]
  /\ UNCHANGED <<rows, attempts, holder, host, seeding, claims, budgets>>

(* rescheduleRecurring: enqueued for later with `earliest', which leaves a *)
(* row that is due sooner, or claimed, as it is.                           *)
Rearm(p, k) ==
  /\ handlers[p][k] = "returned"
  /\ PoolIsOpen(p, ModuleOf[k])
  /\ rows' = [rows EXCEPT ![k] = IF @ = "absent" THEN "armed" ELSE @]
  /\ handlers' = [handlers EXCEPT ![p][k] = "idle"]
  /\ UNCHANGED <<attempts, holder, host, seeding, claims, budgets>>

(* A re-arm that fails is logged.                                          *)
RearmFails(p, k) ==
  /\ handlers[p][k] = "returned"
  /\ Spend("enqueues")
  /\ handlers' = [handlers EXCEPT ![p][k] = "idle"]
  /\ UNCHANGED <<rows, attempts, holder, host, seeding, claims>>

(* The time a row is armed for comes.                                      *)
FallDue(k) ==
  /\ rows[k] = "armed"
  /\ rows' = [rows EXCEPT ![k] = "due"]
  /\ UNCHANGED <<attempts, holder, host, seeding, claims, handlers, budgets>>

(* enqueueDispatch, called by a route of p: due at once, with `earliest'.  *)
Pull(p) ==
  /\ host[p] = "up"
  /\ rows[Pulled] \in {"absent", "armed"}
  /\ rows' = [rows EXCEPT ![Pulled] = "due"]
  /\ UNCHANGED <<attempts, holder, host, seeding, claims, handlers, budgets>>

(* A lease that nobody renews lapses.                                      *)
Lapse(k) ==
  /\ rows[k] = "leased"
  /\ handlers[holder[k]][k] = "running" => k \in Wedging
  /\ rows' = [rows EXCEPT ![k] = "due"]
  /\ UNCHANGED <<attempts, holder, host, seeding, claims, handlers, budgets>>

(* SIGTERM: nothing more is claimed, in either module, and the server      *)
(* closes.                                                                 *)
Drain(p) ==
  /\ host[p] = "up"
  /\ Spend("stops")
  /\ host' = [host EXCEPT ![p] = "draining"]
  /\ UNCHANGED <<rows, attempts, holder, seeding, claims, handlers>>

(* Fault: the runner waits for its handlers as long as they take.          *)
StoppedClean(p, m) == \A k \in KindsOf(m) : handlers[p][k] = "idle"

(* Fault: nothing waits for the re-arms that are under way.                *)
StoppedForgetful(p, m) == Running(p, m) \subseteq Wedging

(* runner.stop waits for the handlers, but no longer than its timeout;     *)
(* closing a pool waits for the statements that are under way.             *)
Stopped(p, m) ==
  /\ \A k \in KindsOf(m) : handlers[p][k] # "returned"
  /\ Running(p, m) \subseteq Wedging

(* stop() of notify: its runner, then its pool, in which a seed that is    *)
(* still going on ends.                                                    *)
CloseNotify(p) ==
  /\ host[p] = "draining"
  /\ Stopped(p, "notify")
  /\ \E kinds \in SUBSET KindsOf("notify") : rows' = IF p \in seeding THEN Seeded(kinds) ELSE rows
  /\ host' = [host EXCEPT ![p] = "closed"]
  /\ seeding' = seeding \ {p}
  /\ UNCHANGED <<attempts, holder, claims, handlers, budgets>>

Gone(p) ==
  /\ host' = [host EXCEPT ![p] = "down"]
  /\ seeding' = seeding \ {p}
  /\ claims' = [claims EXCEPT ![p] = {}]
  /\ handlers' = [handlers EXCEPT ![p] = [k \in Kind |-> "idle"]]

(* The runner of activity, its pools, and the end of the process.          *)
Exit(p) ==
  /\ host[p] = "closed"
  /\ Stopped(p, "activity")
  /\ Gone(p)
  /\ UNCHANGED <<rows, attempts, holder, budgets>>

Crash(p) ==
  /\ host[p] # "down"
  /\ Spend("stops")
  /\ Gone(p)
  /\ UNCHANGED <<rows, attempts, holder>>

Next ==
  \/ \E p \in Process :
       \/ Boot(p) \/ Start(p) \/ StartFails(p) \/ SeedNotify(p) \/ SeedNotifyFails(p)
       \/ Pull(p) \/ Drain(p) \/ CloseNotify(p) \/ Exit(p) \/ Crash(p)
       \/ \E k \in Kind :
            Claim(p, k) \/ Return(p, k) \/ Throw(p, k) \/ Lose(p, k) \/ Rearm(p, k) \/ RearmFails(p, k)
  \/ \E k \in Kind : FallDue(k) \/ Lapse(k)

Spec == Init /\ [][Next]_vars

(* Processes are restarted, what they have begun goes on, runners poll and *)
(* time passes.  Nothing is assumed of a handler that may wedge, and an    *)
(* ingest need never come.  A row that some runner has room for again and  *)
(* again is claimed.                                                       *)
HostGoesOn(p) == Boot(p) \/ Start(p) \/ SeedNotify(p) \/ CloseNotify(p) \/ Exit(p)
HandlerGoesOn(p, k) == Rearm(p, k) \/ (k \notin Wedging /\ Return(p, k))

Fairness ==
  /\ \A p \in Process :
       /\ WF_vars(HostGoesOn(p))
       /\ \A k \in Kind : WF_vars(HandlerGoesOn(p, k))
  /\ \A k \in Kind :
       /\ SF_vars(\E p \in Process : Claim(p, k))
       /\ WF_vars(FallDue(k) \/ Lapse(k))

FairSpec == Spec /\ Fairness

-----------------------------------------------------------------------------
(* Properties.                                                             *)

Types ==
  /\ rows \in [Kind -> RowState]
  /\ attempts \in [Kind -> 0 .. MaxAttempts]
  /\ holder \in [Kind -> Process]
  /\ host \in [Process -> HostState]
  /\ seeding \subseteq Process
  /\ claims \in [Process -> SUBSET Module]
  /\ handlers \in [Process -> [Kind -> HandlerState]]
  /\ budgets \in [DOMAIN Bounds -> Nat] /\ \A b \in DOMAIN Bounds : budgets[b] <= Bounds[b]

(* A row that is not dead has attempts left.                               *)
AttemptsLeft == \A k \in Kind : rows[k] # "dead" => attempts[k] < MaxAttempts

TypeOK == Types /\ AttemptsLeft

(* A kind whose handler returns in time is run by one process at a time:   *)
(* two flushers, or two prunes, never run at once.                         *)
OneAtATime ==
  \A k \in Kind \ Wedging, p, q \in Process :
    handlers[p][k] = "running" /\ handlers[q][k] = "running" => p = q

(* A kind is carried by its row, or by a handler that has returned and is  *)
(* about to re-arm it.  Only a crash in between, or a re-arm that fails,   *)
(* lets it fall: no drain, whichever module it has closed already, no      *)
(* handler that throws or wedges, no pull and no lapse                     *)
(* (src/src/index.ts:332-361, src/src/jobs.ts:55-76).                      *)
Carried(k) == rows[k] # "absent" \/ \E p \in Process : handlers[p][k] = "returned"
Dies == budgets'.stops < budgets.stops /\ \E p \in Process : host[p] # "down" /\ host'[p] = "down"
JobsAreCarried ==
  [][\A k \in Kind : Carried(k) =>
       Carried(k)' \/ Dies \/ budgets'.enqueues < budgets.enqueues]_vars

(* Each recurring job runs again and again, or is dead, unless a seed or a *)
(* re-arm has failed: through crashes, drains, throws and a job that       *)
(* wedges its runner (src/src/starvation.test.ts).                         *)
RunsOrDead(k) == rows[k] = "dead" \/ \E p \in Process : handlers[p][k] = "running"
JobsGoOn == \A k \in Kind : []<>(RunsOrDead(k) \/ budgets.enqueues < MaxEnqueueFailures)

(* A drain ends, even if a handler never returns.                          *)
DrainsEnd == \A p \in Process : host[p] = "draining" ~> host[p] = "down"
=============================================================================
