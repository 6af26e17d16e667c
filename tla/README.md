# micro-activity in TLA+

`micro-activity` is one Node process that holds two modules, each with a
PostgreSQL database of its own:

- **activity** (`src/src/*.ts`) turns events of the estate's event bus into the
  records of a user's activity feed, keeps them for the period of their class,
  and deletes them when the user is erased;
- **notify** (`src/src/notify/*.ts`) turns events into notifications, decides the
  channels of each from its priority and the user's preferences, delivers them
  through a leased queue with retries, batches some into digests, and fans out
  operator broadcasts.

These modules model the parts of that program whose correctness depends on
order, concurrency or failure, and the tables by which both modules read one
event. Eight specifications are model-checked with TLC, three of them against
an abstract specification, and every safety property that holds is also proved
with TLAPS for every value of the constants.

Paths below are those of the repository: `src/src/ingest.ts` is its
`src/ingest.ts`, and `notify/x.ts` is short for `src/src/notify/x.ts`.

## 1. The system

| Component | State | Operations | Hard behaviour |
|---|---|---|---|
| Activity ingest (`ingest.ts`, `records.ts`, `classify.ts`) | `inbox`, `activity_records` | claim an event, insert a record, erase a user | redelivery while the first delivery is served; one event id under two topics; erasure beside ingest; failure between statements |
| Prunes (`jobs.ts`, `retention.ts`) | the same tables | prune the inbox, prune records class by class | inbox horizon against redelivery; bounded batches and passes; drains; erasure in the way |
| Notification creation and routing (`notify/pipeline.ts`, `routing.ts`, `store.ts`, `catalogue.ts`) | `inbox`, `notifications`, `deliveries`, `digest_entries`, `channel_targets`, `preferences` | ingest an event, learn an address, notify each recipient, erase a user, set preferences | dedupe keys under concurrent transactions; two events that teach one user an address; opposite lock orders; preferences read before a wait |
| Delivery queue (`notify/store.ts`, `pipeline.ts` `dispatchDue`) | `deliveries` | claim under a lease, send, record, retry, dead-letter, resend | two passes at once; death between send and record; a lease that expires under a live pass; lost answers; refunds |
| Digests (`notify/store.ts`, `pipeline.ts` `flushDueDigests`) | `digests`, `digest_entries`, summaries | join, flush, mark, erase | joining what is being flushed; several flushes at once; windows |
| Broadcasts (`notify/server.ts`, `pipeline.ts` `fanOutBroadcast`) | `broadcasts`, its job row, the cursor in memory | post, fan out a page, mark | a fan-out that begins again; two at once; users who come and go around the cursor |
| Jobs, boot and drain (`jobs.ts`, `notify/jobs.ts`, `index.ts`, `notify/module.ts`) | job rows of each queue, runners, the process lifecycle | seed, claim, complete, re-arm, drain, close | a crash between completion and re-arm; failed enqueues; a handler that wedges; drains |
| Tables of the feed (`classify.ts`, `categories.ts`, `redact.ts`) | none | classify an event, redact its payload | whose record it is, who is mentioned in it, what an unknown topic is worth |
| Tables of notify (`notify/catalogue.ts`, `templates.ts`, `topics.ts`) | none | recipients, dedupe key, priority and wording of a topic | keys that two facts share, two keys for one fact, two tables that read one payload differently |
| Paging and read marks (`records.ts`, `notify/store.ts`, `routes.ts`, `notify/server.ts`) | cursors held by clients, `read_at` | list a page, get one record, mark read | cursors over a table that changes, and of another resolution than its column |
| Request kernel, network selection (`kernel.ts`, `routes.ts`, `index.ts`) | handles per network | attribute, refuse, select | the right handle for the right estate; handles that do not follow the request |
| Channel adapters (`notify/channels.ts`, `email.ts`, `webhook.ts`) | none | send | timeouts and lost answers, which `Dispatch` has |
| Rendering (`notify/templates.ts`, `emailhtml.ts`) | none | fill in a template | - |
| Migrator (`migrator.ts`, `migratortargets.ts`) | ledgers | migrate each target | two modules in one ledger |
| Authentication, configuration, metrics | read once, or read by nobody here | verify, load, count | - |

How they interact. A relay posts an event to `/ingest/activity` or
`/ingest/notify`; each is served in one transaction of the database of its
module. Ingest in notify writes deliveries and digest entries and then pulls the
job `notify.dispatch` forward; that job drains `deliveries`. The job
`notify.digest` closes digests and writes summaries, which are notifications
with deliveries of their own. `POST /admin/broadcasts` writes a row and enqueues
the job `notify.broadcast`, which creates notifications in the same way. The
erasure of a user is an event like another, and reaches every table while
everything else goes on. Jobs are rows in the database of their module, claimed
by a runner of each replica. Readers ask for pages of the feed or of their
notifications; the kernel finds out which estate a request is for and hands the
route a database, of which activity may have two and notify has one.

## 2. The modules

```
DeliveryContract   <-- Dispatch <-- MCDispatch, DispatchProofs
SinkContract       <-- ActivityFeed <-- MCActivityFeed, ActivityFeedProofs
                   <-- Notifications <-- MCNotifications, NotificationsProofs
           Routing <---^
                       Digests <-- MCDigests, DigestsProofs
                       Jobs <-- MCJobs, JobsProofs
                       Broadcasts <-- MCBroadcasts, BroadcastsProofs
Wire <-- Classification  <--+
     <-- Catalogue       <--+-- Estate <-- MCEstate, EstateProofs
           ^-- Templates
                       Serving <-- MCServing, ServingProofs
```

Common to all: a statement of the program is a step; a transaction is several
steps and its writes are seen by others at its commit; a statement that would
wait for a row lock or for the unique index of an uncommitted insert is not
enabled. The history variables (`accepted`, `handled`, `told`, `intended`, ...)
are read by properties and, in one place, by a bound of the environment
(`ActivityFeed.since`, the retry horizon of the relay). Every other bound on the
environment is a constant of the module, marked `bound:` where it is declared.

Definitions called `...Early`, `...Always` and so on, with the comment `Fault:`,
are mutations: what a plausible mistake would make of the definition after them.
No specification uses them. With the definition replaced by its fault, TLC finds
the property the pair is listed for in `PROJECT.json` violated, which shows that
the property can fail.

### Dispatch

`row` is the table `deliveries`, `batch` what each pass of `dispatchDue` has
claimed and not recorded, `answer` what an adapter has just said.

| Action | Code |
|---|---|
| `Enqueue` | the inserts of `createNotification` |
| `Claim` | `claimDeliveries`: `skip locked`, attempts charged at the claim |
| `Send` | `adapter.send` with the address read at claim time |
| `Record` | `markDeliverySent`, `markDeliveryFailed`: by id alone |
| `Resend` | `POST /admin/deliveries/:id/resend` |
| `EraseUser` | the cascade of `eraseUser` |
| `Abandon` | the process dies, or a statement throws out of the pass |
| `LeaseExpires`, `BackoffElapses`, `QuotaWindowPasses` | the clock |

`leased_until`, `next_attempt_at` and `created_at` are abstracted to what the
code compares them with. The order of claims, which `next_attempt_at` gives, is
left open. The backoff's length is left out.

`DeliveryContract` is what the queue promises: a delivery is queued, its message
is taken by a provider, and it is settled once as sent or failed, or erased;
`sent` only after a provider took it. `Dispatch` implements it
(`RefinesContract`) as long as no lease is overrun.

### SinkContract

What either service promises to make of events that are delivered to it at least
once: each has its effect once and in one step. `taken` are the events that have
had it, `rows` what they left, `found` the erasures taken up, each with the rows
it found. `Take` adds the rows an event is worth and leaves out a row only where
an event before it had one in the same place; `Erase` takes away just what the
erasure found when it was taken up (`TakeUp`), so that a row committed in between
stays; `GiveUp` is an erasure that fails; `Lapse` the end of a row's period, which
only the feed has. There are no requests, transactions, inboxes, locks or
failures. `ActivityFeed` and `Notifications` both implement it (`RefinesSink`):

| | `ActivityFeed` | `Notifications` |
|---|---|---|
| `taken` | the events handled at least once | the inbox |
| `rows` | the records without their age | user, key and fact of each notification |
| `SlotOf` | the source event of a record | user and key |
| `found` | what the deletes of each open erasure saw | the rows each open erasure deletes |

### ActivityFeed

`inbox` and `records` are the tables, `tx` the open transaction of each request,
`prune` the place of the record prune, `marked` what relays have recorded as
delivered. `Deliver`, `Erase`, `Insert`, `Commit`, `Fail` are `ingest` of
`ingest.ts` with `eraseUser` and `insertRecord` of `records.ts`; `Mark` is the
relay, an external; `PruneInbox`, `StartPrune`, `PruneBatch`, `AbortPrune` are
the two jobs. `RetentionClassFor` is the class that the insert trigger of
`migrations.ts` writes. An envelope is reduced to what decides anything: whether
its topic is known, whom its classifier reads as the owner, which users it names
and where, its category and visibility.

### Routing and Notifications

`Routing` is `resolveRouting` with `applyPreferences`, `dominantReason` and
`deliverNow`, as operators. `Notifications` is `ingestEvent` on the tables:
`Ingest`, `LearnAddress` and `RetireOthers` (the two statements of
`learnTarget`), `CreateNotification` for one recipient after another,
`EraseNotifications`, `FindTargets`, `EraseTargets`, `FindDigests` and
`EraseDigests` (`eraseUser`, statement by statement), `Commit`, `CommitErasure`,
`Fail`, and `SetPreferences`. The entries of a digest go with the digest, by the
cascade of `digest_entries`; so a notification that was committed after the first
statement of its user's erasure and before the last is left without the entries it
was counted by, and `CountIsTrue` says of erased users less than of others.

What waits for what between two erasures decides whether this is a sink: an
erasure that finds a notification another erasure is deleting waits for it, and so
does one that finds no notification but a target that deliveries deleted by
another still refer to (the foreign key of `deliveries.target_id`), as `eraseUser`
deletes notifications before targets. Without these waits a second erasure would
commit having deleted less than it saw, which the refinement does not allow.

Abstractions: preferences of one category; every address is on the e-mail
channel (no route creates another, and events teach nothing else); the reads and
the insert of one `createNotification` are one step, with what it waits for as
its guard; a rule of the catalogue is reduced to its recipients, key, priority,
flags and address; a user has one open digest of each cadence.

### Digests

`Route`, `Join`, `Commit`, `Fail` are the ingest transaction as far as a digest
is concerned: the window is chosen when the clock is read, the row locked later
by the upsert of `joinDigest`. `FindDue`, `ReadItems`, `Summarise`, `Mark`,
`CutShort` are `flushDueDigests`, each statement a step, run by several flushers.
`EraseItems`, `EraseDigests`, `AbortErasure` are `eraseUser`. Time counts windows
of one cadence on one channel: `nextDigestWindow` (`notify/routing.ts:205`) is "the
next window", and its calendar arithmetic, the full hour and nine o'clock UTC, is
not in the model. `WindowIsKept` is about the comparison of `due_at` with the clock
and about joins that race it, and would not notice an hour miscounted.

### Jobs

The rows of both queues, the runners of each process and its lifecycle: `Boot`,
`Start`, `StartFails`, `SeedNotify`, `SeedNotifyFails` follow steps 9 to 12 of
`index.ts` and `start()` of the notify module; `Claim`, `Return`, `Throw`,
`Lose`, `Lapse` the job runner; `Rearm`, `RearmFails` `rescheduleRecurring`;
`Pull` `enqueueDispatch`; `Drain`, `CloseNotify`, `Exit`, `Crash` the shutdown
hooks in the order they run. The queue and the runner are packages outside the
repository, modelled from how they are configured and used. A process does not
claim a row of a kind that it is itself running.

### Broadcasts

`InsertBroadcast` and `EnqueueBroadcast` are the two halves of the route, between
which a request may fail; `Claim`, `ReadPage`, `Notify`, `CommitPage`,
`MarkBroadcastFannedOut`, `Return` are the fan-out; `Throw`, `Crash`, `Lapse`
what may happen to it; `Come` and `EraseUser` the users. User ids are numbers for
their order. Routing is left out: a user has a notification of the key or not.

### Wire, Classification, Templates, Catalogue

`Wire` is what the producers of the estate put on the bus, external to this
repository and read off its comments and test fixtures: for each of the topics,
where the event names its owner, the other party and the thing it is about (the
envelope key, the actor, a payload field), and whether the id it carries is that of
the fact, of a lasting thing, or of either as the payload has it. An event is a
record of those choices: the owner, the other party, the fact, whether the payload
carries an id, and what the deciding field says (the value the tables look for, a
misspelt or a false one, nothing).

`Classification` is `classify.ts` row by row: owner reader, category, visibility,
declared payload keys, the rows that split a topic into two facts, the
quarantine, and of `redact.ts` which names survive. `Catalogue` is
`catalogue.ts` rule by rule: recipients, dedupe key with its fallbacks, priority,
template, condition, variant, the topics that are silent on purpose and the
erasure topic. `Templates` is `templates.ts` without its words. Agreements the
tests of the repository check over the tables (every topic of the registry is
accounted for, every rule has its template, a credential leaves by mail alone,
...) are `ASSUME`s, which TLC evaluates with every run of `Estate`.

### Estate

`Estate` composes the two tables: one bus of published events, and two sinks that
take each event in their own time. `Record` and `eraseUser` are the ingest of
activity, `Tell` and `EraseNotices` that of notify. Each delivery is one step:
that is what `SinkContract` allows, and `ActivityFeed` and `Notifications`
implement. (An erasure is one step as well: a row committed between an erasure's
reads and its commit is as one that comes after it.) Notify tells an event only
where everybody it is for is a user (`Insertable`): `user_id` is a uuid there, and
an insert with another string throws. What is
compared is the events themselves: which news swallowed which, who was told whose,
what remains of somebody erased.

### Serving

`pod` is the process (its estate, and whether it was given a second database),
`rows` the tables a reader can list, with the database each row is in, `walk`
the pages one reader has followed. The server keeps nothing between two pages,
so one reader at a time is enough.

| Action or operator | Code |
|---|---|
| `requestNetwork`, `Serves`, `Resolves`, `handleFor` | the attribution in `kernel.ts`, and the selectors that `index.ts` gives it |
| `feedOwner`, `FeedQueries`, `NotificationQueries`, `Matches` | whom a principal may read, and the where clauses |
| `encodeCursor`, `IsPast`, `IsPage`, `Turned` | the keyset cursor, a `Date` with an id, and one row more than asked for |
| `IngestActivity`, `IngestNotify`, `eraseUser`, `pruneRecords` | what moves the tables meanwhile, through the handles that inboxes and jobs hold |
| `listFeed`, `listNotifications`, `NextPage`, `getRecord`, `markRead` | the routes |

A column holds microseconds; an event's instant comes through a `Date` and has
none, `now()` has. Filters by category and product and the unread count are left
out: each narrows a where clause.

## 3. The runs

Deadlock checking is off in every run: the environment is bounded, so that each
instance comes to an end once its events, failures and erasures are used up. That
what is to happen does happen is the matter of the properties with fairness.

| Run | Instance | Shows |
|---|---|---|
| `dispatch_safety` | 2 deliveries, 2 passes, 2 attempts, batches of 2; one abandoned pass, one overrun, one erasure | exclusive claims, the attempt budget, a cause for every duplicate, true outcomes |
| `dispatch_contract` | the same without overruns, with fairness | the queue implements its contract, no recorded outcome is taken back, and every pending delivery settles |
| `dispatch_overrun` | 1 delivery, 2 passes, 3 attempts, one overrun | *violation*: see finding 1 |
| `feed_safety` | payment, the same id under another topic, an unknown topic naming a user, an erasure; 2 requests at once, one failure, days 0-3 | exactly once, answers that are true, lawful and thorough deletion |
| `feed_live` | 3 events, batch 1 and 1 pass, one failure, with fairness | every event has its effect, every overdue record is pruned |
| `notify_safety` | two events that teach addresses, two critical notices of one key with opposite recipients, an erasure; 2 requests, one failure, three choices of preferences, a reserved address | critical notices, credentials, addresses kept, nothing answered is lost |
| `digests` | 2 items of one user, 2 flushers, limit 1, windows 0-2, one late transaction, one erasure, one failure; with fairness | a summary names what is of its own digest and window, one summary each, nothing lost, nobody told early, everybody told |
| `jobs_recurring` | 2 replicas, one kind of each module, the one of notify may wedge; two throws, one drain or crash, one failed enqueue; with fairness | one run at a time, no job let fall by a drain, a throw or a pull, jobs go on, drains end |
| `broadcasts` | 3 users, a broadcast for all or two of them, pages of 2, 2 fan-outs, one failure, one erasure; with fairness | nobody twice, nobody missed, no job row deleted before everybody is told, queued ones fanned out |
| `estate` | every topic with each way its payload may be filled in: alone, twice with the same or another fact and owner, beside the topics of its kin, and before, after and again after an erasure; 2 users, an organisation, nobody; 2 facts, 3 event ids | news goes to whom it concerns, both sinks read it alike, nothing is left of the erased, no identified fact swallows another, one fact of one key is one notice |
| `estate_recurring` | a factor removed after it was added, a wallet linked again, a parcel lost again | *violation*: see finding 2 |
| `serving` | a feed with a page boundary inside one instant, notifications in two milliseconds of 2 us, rows of two users; a user, an administrator, a service; pages of 1 and 2; processes of either estate, with one database or two | every lasting row shown once, or lost to the cursor by its truncation, estates kept apart, owners shown their own |

Why these bounds. Every race in the code is between two actors on one row: two
passes, two requests, two flushes, two fan-outs, two replicas; a third meets the
same locks and the same conditions. Two deliveries, items or kinds are enough
for "this one and another in the same batch". `MaxAttempts` 2 has an attempt
that is not the last and one that is; `dispatch_overrun` has 3, of which two
passes use two. A batch or a page of one or two is full, half full and empty
with two or three members. One failure at any place, and then a run to the end,
is what the retry and recovery code is written for. The inbox is remembered for
one day, and three days are before, at and after every period (`Days`): the
comparisons are with `>`, so what matters is the order of the ages. The proofs
say that for the safety properties no other value is different, except those
named in section 5. In `broadcasts` `MaxAttempts` is 1: a run that throws is
dead at once and the second run comes from a crash or a lapsed lease; the proofs
cover every value, and two posts under one key, which the run does not have.
`estate` needs two of everything that two tables can confuse: owner and other
party, this fact and the next, before and after. `serving` has three rows, so
that a page may end before, inside and after an instant, and one reader, as the
server keeps nothing between pages.

Symmetry: of passes and requests, in safety runs only, and only over sets that
no property and no constant tells apart.

### Fairness

- *Dispatch*: clocks advance (weak); an adapter answers and the answer is
  recorded (weak: `gatewayAdapter` has its own deadline, SMTP in the end the one
  of the operating system); a row that is claimable again and again is claimed
  (strong: claims are ordered by `next_attempt_at` and the job recurs each
  second).
- *ActivityFeed*: a relay retries until it is answered, and requests go on to
  their end (strong, as they wait for locks that come and go); the prune recurs.
  Failures are bounded, which is to say that outages end.
- *Digests*: time passes, transactions end, the job runs every thirty seconds
  (weak).
- *Jobs*: processes are restarted and runners poll; nothing is assumed of a
  handler of a kind that may wedge, and ingest need never pull.
- *Broadcasts*: a due job is claimed (strong), a run goes on, a lease lapses
  (weak). A request may always fail before it enqueues.
- *Notifications*, *Estate*, *Serving*: none, their properties are safety.

## 4. Findings

Each is a run that TLC must find violated, with the statement of the repository
that it contradicts quoted in `PROJECT.json`.

1. `dispatch_overrun` - an outcome is recorded by id alone (`notify/store.ts:682`
   and the statement before it). A batch is sent serially under one lease, so
   that it may run out under a live pass. Of three attempts two passes use two:
   the second records the delivery as sent, and the late answer of the first, one
   that is worth a retry, puts it back in the queue (`SentIsNotQueuedAgain`); the
   table allows six attempts (`notify/migrations.ts:231`). Where the late answer
   finds the budget spent, the row says dead of what was sent.
   `notify/pipeline.ts:597` says two dispatchers at once are safe. `OutcomesAreFinal`
   proves that it takes an overrun: without one no order of claims, answers,
   deaths and resends takes an outcome back.
2. `estate_recurring` - `identity.mfa.added` and `identity.mfa.removed` share the
   key `security.mfa_changed:<factor>` (`notify/catalogue.ts:741`), and
   notifications are never pruned, so the critical notice that a factor was
   removed is dropped as a duplicate of the one that it was added; the comment at
   `:734` is about just that notice. A wallet that is linked again (`:990`) and a
   parcel that is lost again (`:1998`) are dropped in the same way, against what
   their comments say.

Met while modelling, and without a run of their own. About facts and tables:

- a redelivery after its inbox row was pruned is said to be refused by the unique
  constraint (`jobs.ts:97-99`, `README.md:269-271`); after an erasure there is no
  row to refuse it, and the record comes back. `HandledAtMostOnce` holds only as
  long as relays do not retry longer than the inbox remembers, which is a
  constant of `ActivityFeed` and an assumption of `ExactlyOnce`;
- `trading.bot_paused:<bot>` (`notify/catalogue.ts:1322`) and
  `security.key_exported:<key or wallet>` (`:800`) name a lasting thing too, and so
  does a request to export that carries no id of its own (`:782` falls back to
  `wallet_id`): the second pause, the second export are never told. `Identified`
  leaves out of `DistinctFactsAreTold` the events that carry no id but the thing's;
- the comment at `notify/catalogue.ts:652` says that a new session and a new
  device produce one key for one fact. They do where the payload names the device;
  where it does not both fall back to the envelope key (`:654`, `:673`), which is
  the session's id for the one and the device's for the other
  (`classify.ts:642-646`, `:685`), and one login is told twice. `HasOneKey` leaves
  just that case out of `OneFactOneNotice`: a session that names no device;
- whom an event is about may be any string or number of the payload
  (`notify/catalogue.ts:216`), and the column is a uuid (`notify/migrations.ts:175`):
  an event whose owner is no user throws at the insert, and is retried for as long
  as the relay retries. `Insertable` keeps it from being told to anybody;
- whose news an event is falls back to the actor (`notify/catalogue.ts:303-305`).
  `WellFormed` assumes that a producer who names the owner nowhere else has the
  owner act; `NewsReachesTheConcerned` is as true as that;
- notify reads whom to erase from `user_id` or else the key
  (`notify/pipeline.ts:445-453`), activity by its classifier: for the one topic
  there is they agree, which `ErasureIsComplete` needs;
- the message of `settlement.withdrawal.completed` prints the payload's `amount`
  beside the asset code (`notify/catalogue.ts:1135`), which the feed withholds
  (`classify.ts:196`) because that producer counts smallest units; the templates
  say themselves why they should not (`notify/templates.ts:402-408`). Amounts and
  what fills a parameter are not in the model.

About what is served:

- a cursor names a millisecond, a notification a microsecond: those of one
  millisecond in which a page ends may be missed, though `notify/store.ts:203-207`
  says that nothing is. `LostToTheCursor` says which rows they are, and
  `WalksShowEveryRowOnce` that there are no others and none in the feed;
- `kernel.ts:73-80` says that every route works on the handle of its request. The
  ingest of activity does not (`index.ts:237-243`), nor do the prunes: a process
  with two databases files what is stamped for the other estate in its primary
  one, and never prunes the second. `EstatesAreKeptApart` carries that exception;
- an unstamped request is served for the estate of the process, as `index.ts:236`
  always names one, though `kernel.ts:181-184` says that it is never set in
  production. `requestNetwork` does as the code does.

About order and failure:

- two events that teach one user different addresses at once leave both active:
  the second statement of each does not see the row of the other, which is not
  committed yet. `notify/catalogue.ts:902` says that `learnTarget` keeps it to one
  active row, and `notify/store.ts:395-400` what follows from two: every
  notification goes twice, once to an inbox the user has left, until a third event
  teaches an address. `AddressIsKept` is the other half, and holds;
- a re-arm is tried once and its failure logged (`jobs.ts:74`), and so is the seed
  of notify (`notify/module.ts:392`): the job has no row until a process boots.
  `JobsAreCarried` says that there is no other way but a death between the two,
  and `JobsGoOn` assumes that processes are restarted;
- a delivery whose pass dies every time is claimed again although its attempts
  are spent, as they are compared with `max_attempts` only where a failure is
  recorded (against `notify/store.ts:517-519`); `AttemptsWithinBudget` says by
  how much at most;
- a notification that is committed while its user is erased may outlive the
  erasure, and then loses its digest entries to it (`notify/store.ts:1157`,
  `notify/migrations.ts:290-292`) and keeps the `channel_count` it was given: it
  says it reached a channel it never will. `CountIsTrue` holds of it only as far as
  it says;
- Resend pressed twice queues two copies, as the guard reads the row that was
  copied (`notify/store.ts:585-587`);
- a delayed event with an old address puts it back in force
  (`notify/catalogue.ts:902` says so itself);
- an event about a user that arrives after the user's erasure is stored, there
  being no order between topics;
- an item may join a digest that is already flushed, and is in no summary
  (`notify/store.ts:1168`): `FlushedIsTold` and `BatchedIsTold` say that this
  takes a transaction that outlives the window it chose;
- an erasure during a flush or a fan-out is followed by a summary or a
  notification of what was read before it;
- the pool of notify is closed under a dispatch that does not return in time
  (`index.ts:331-334` says nothing is left to use it);
- a broadcast whose job is not enqueued is a row nothing fans out, and a retried
  post without a `dedupeKey` has another key.

## 5. What is proved

Eight modules of proofs, checked by TLAPS to the last leaf. Assumptions are those
the modules declare: the types of the constants, bounds that are natural numbers,
`None` that is no member of a set, finiteness of `Dispatcher`, `Channel`, `Item`
and the users of `Broadcasts`, and for `Estate` what the tables are to satisfy.
Two theorems about `Dispatch`, `ImplementsContract` and `OutcomesAreFinal`, assume
that no lease is overrun, which the contract does not know; `ExactlyOnce` and
`ImplementsSink` of the feed that relays do not retry longer than the inbox
remembers.

| Module | Theorems | Along which invariant |
|---|---|---|
| `DispatchProofs` | `TypeCorrect`, `ExclusiveClaims`, `TrueOutcomes`, `BoundedAttempts`, `DuplicatesNeedACause`, `OutcomesAreFinal`, `ImplementsContract` | `InHand`: an answer is about a row of the pass's own batch, and an `ok` was taken by a provider. `AttemptLeft`: a row that waits has an attempt left, not counting those that a death or an overrun gave back. `SendsAreAccounted`: what was sent, the passes that may send yet, and the one that may come while the row waits, are at most the causes there were. An outcome is final because claims are exclusive: a row in a batch is leased, and so not settled. The last maps each step to one of `DeliveryContract` or a stutter |
| `ActivityFeedProofs` | `TypeCorrect`, `AnsweredOnlyWhenHandled`, `ExactlyOnce`, `RecordsAreUnique`, `LawfulDepartures`, `ThoroughErasure`, `ImplementsSink` | `Once`: one transaction per event, and none for an event in the inbox. `Dated`: an inbox row is as old as its effect. `Feed`: what open transactions will add and drop is apart, and is what the statements saw. `Traced`: a record is that of an event that was handled, and so is the one for which an ingest left out its own. `Owned`: what an open erasure drops is there, no other drops it, and it is the user's own or an ownerless record that names him (`KeyedOn`) |
| `NotificationsProofs` | `TypeCorrect`, `CriticalAlwaysReaches`, `CountAlwaysTrue`, `SecretsNeverBatched`, `KeysAreUnique`, `NothingAnsweredIsLost`, `AddressAlwaysKept`, `ImplementsSink` | `Base`: the writes of a transaction fit its phase, and every row, committed or not, is good (what the lemmas on `Routing` give). `KeysApart`: uncommitted rows share no key with each other or the table. `Told`: whom a transaction has passed has a row or was erased. `Kept`: a transaction that teaches an address commits it active, and one that does not writes none. `OneEach`: one transaction per event. `Traced`: a row tells of an event in the inbox, or in its own transaction. `Locks`: what an erasure removes is there, removed by nobody else, refers to no target that another erasure takes, and is in no digest that another takes; a row whose user was never erased counts the channels it has |
| `DigestsProofs` | `TypeCorrect`, `SummarisedOnce`, `NobodyToldEarly`, `FlushLosesNothing`, `SummariesStayApart` | `Timely`: whatever a flush has taken is of a window that has passed. `Complete`: as long as nobody is late, what a flush has taken nobody holds or joins, so that what it read is all there is. `ReadIsOwned`, `NamedIsOwned`: what was read, and what a summary names, is committed and stays of its digest, user and window |
| `JobsProofs` | `TypeCorrect`, `NeverTwoAtOnce`, `NoJobIsDropped` | `RunsWhatItHolds`: whoever runs a kind whose handlers return in time is the holder of its row. `ClosedIsQuiet`: a process that has closed notify has none of its jobs left to re-arm |
| `BroadcastsProofs` | `TypeCorrect`, `NobodyTwice`, `NobodyMissed`, `NoJobEndsEarly`, `NobodyElse` | `Fresh`, `Apart`: what a run will add is not there and no other run of the key will add it. `Progress`: everybody intended up to the cursor is told (`Behind`), is on the page, told or about to be (`OnPage`), and at the end there is nobody left (`Ended`). `PageIsMeant`: a page has users of the audience only |
| `EstateProofs` | `TypeCorrect`, `NewsIsTheOwners`, `TablesAgree`, `ErasureReachesEverything`, `OneFactTellsOnce`, `FactsAreToldApart` | The first two of what a single event is worth, by the lemmas on the tables. `ErasedAreUsers`: what is erased is a person. `KeysAreUnique`: no two notices of one user and key. `KeyIsTold`: an event notify has heard has left its key with everybody it is for, or they were erased |
| `ServingProofs` | `TypeCorrect`, `EstatesApart`, `OwnersRead`, `EveryRowOnce` | `RowsAreFiled`: a row is in the database its inbox holds. `Admitted`: the query of a walk is one its reader may make. `CursorParts`: nothing shown is past the cursor, though it is rounded. `NothingIsForgotten`: what was there at the beginning and is not shown is still to come, lost to the cursor, read or gone |

The invariants the runs check are seldom inductive: that no key is in the table
twice says nothing of two transactions that are about to commit one, which is
what `KeysApart` adds; that nobody is missed needs to know where the cursor is.

The theorems of `EstateProofs` divide the labour. A table is finite data, and
nothing is gained by a prover reading it; so `Estate` states what the argument
needs of the rows, topic by topic, as `ASSUME`s (`ClassifiersReadTheOwner`,
`RulesTellTheOwner`, `FactsAreSplitAlike`, `PrefixesTellTopicsApart`,
`PrefixesTellOutcomesApart`, `OneRegisterHasOneKey`, `FactsAreKeyed`), and TLC
evaluates them over the tables as they are. What an event does is then derived:
lemmas say whom the reader of a row finds in any event of its topic, which key it
is given and when two keys are equal, for every user, fact and event id; and the
theorems that no order of deliveries, of any number of events, breaks the
property. A changed table that keeps the `ASSUME`s keeps the theorems.

The refinements are the strongest statements here, as they leave nothing about the
rows open. Each step of the detailed specification is a step of the abstract one
or a stutter: an ingest takes effect where it commits, an erasure is taken up
where its first delete runs. The attempt to prove it of `Notifications` failed at
first, for a second erasure of one user, because the model let it pass by a target
whose deliveries the first was still deleting; PostgreSQL makes it wait there, and
so does the model now.

Proved and in no run: `RecordsAreUnique`, `CountAlwaysTrue`, `KeysAreUnique`,
`NobodyElse`, and the types of all eight modules. The instance of
`digests` has one user, so that summaries of different users are kept apart is
known from the proof of `SummariesStayApart` alone.

Only model-checked: what needs fairness - `Drains`, `PublishedIsHandled`, `OverdueIsPruned`,
`BatchedIsTold`, `JobsGoOn`, `DrainsEnd`, `QueuedIsFannedOut` - as liveness is out
of this prover's reach.

## 6. What is not modelled, and the plan

Next, the most important behaviour first. The number of runs is kept small on
purpose: what comes is to share runs with what is there where it can.

1. The composition of `Notifications` with `Dispatch`: the target of a delivery
   that is retired or erased between creation and claim (`notify/store.ts:551`
   joins it without reading whether it is active), Resend pressed twice
   (`:595`), and `enqueueDispatch` after the commit.
2. The composition of `Digests` with `Notifications`: a summary as a notification
   with routes of its own, and an erasure between the reading of the items and the
   summary (`notify/pipeline.ts:807`).
3. The order in which events that teach an address were published
   (`notify/store.ts:418`), which `Notifications` does not know.

Left out for good: the SMTP and HTTP exchanges of the adapters (their answers are
in `Dispatch`), the wording and rendering of messages and the parameters that fill
them, verification of tokens, signatures and envelopes (external, or before
anything modelled begins), the matching of paths and the error replies, the
configuration (read once), the migrator (a script that runs its targets one after
another; the locking is in an external package), and metrics.
