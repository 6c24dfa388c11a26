# A verification of Feasible's concurrent core

Feasible is a web-analytics service in Go: a tracker posts events, an ingest
tier makes them durable and forwards them to the app process that owns the
site, and the app folds them into one SQLite database per account, around which
background jobs, customer webhooks, billing and the account lifecycle run. This
directory models the parts of it that are hard to test. TLC checks the models
on small instances, TLAPS proves the central safety properties for every
instance. `PROJECT.json` holds the machine-readable side: components, runs,
mutants, theorems, hazards, and for every definition the lines it models.

Run everything inside this directory:

    tlc -workers 2 -config OneShard.cfg MCStoreForward.tla
    tlapm StoreForwardProofs.tla

## 1. Inventory

What each component keeps, does, and must get right. **Bold** components are
modelled (those of which a part is left out are marked *partly* in
`PROJECT.json`, with the part).

| Component | State | Operations | What is hard, and what must hold |
|---|---|---|---|
| **Store-and-forward ingest** `internal/ingest/{outbox,remote_router,internal_handlers,receipts}.go` | `buffer.db` (`outbox`, dead letter, cached routes), merged routing map, receipts per account | append, deliver per shard, reroute, park, replay, poll routes, prune receipts | Lost, late and repeated requests; a map that changes between two reads; crashes. An accepted event is never lost and never folded twice, and the queue drains |
| **Write buffer** `internal/ingest/buffer.go`, shutdown in `internal/cli/runtime.go` | pending events, waiters, one flush at a time | append and wait, flush, requeue, notify, drain | Four kinds of flush overlap; UUIDs repeat; SIGTERM. A 202 means durable, everybody is answered |
| **Job queue** `internal/jobs/jobs.go` | rows of `jobs` in `system.db` | enqueue, claim, run, heartbeat, complete, fail, release | Processes that race, die, or sleep. One runner per job, a completed job stays completed |
| **Cron** `internal/jobs/cron.go` | `cron_slots` | look, queue what is due | Several processes, catch-up after an outage. Each bucket is queued once and run |
| **Customer webhooks** `internal/webhooks` | endpoints, deliveries, jobs | publish, redeliver, attempt, retry, warn, disable, edit, delete | Many statements per attempt around a slow request. A pending delivery has a schedule, and one only; disabled only after the warning |
| **Account database handles** `internal/accounts` | open handles, lock files, tombstones | acquire, scan, write guard, evict, delete, watch | Leases against eviction and a deletion in another process. A leased handle stays open, a deleted file stays deleted |
| **Account lifecycle and deletion** `internal/lifecycle`, the part of `internal/billing` it calls | clock, outbox, audit with checkpoints, holds at Stripe | sweep, warn, claim, purge, resume, restore | Leases, a purge resumed after any step, a payment in the middle. One winner, nothing half deleted |
| **Checkout and mirror** `internal/billing` (partly) | checkout claims, cleanup, mirror, Stripe events, leases | checkout, reconcile, clean up, mark | Two tabs, lost answers, repeated events, lease expiry. One subscription, no forgotten page, a true mirror |
| **Usage** `internal/usage` | in-memory counts, periods, notices, overage | record, flush, sweep, ask, lock, reply | Swap and put back; a claim before the mail it stands for. Counted once, locked out only after being asked |
| **Roll-ups** `internal/rollup` (partly) | rows per grain and the window they cover | build, backfill, reset, prune, reports | Two builders, late events, changes of zone. A covered row says what the events say |
| **Site reset and deletion** `internal/destructive` | claims with a lease, phases | claim, erase, finish | Two databases and files without a transaction. Only the owner erases, finished means erased |
| **Session fold** `internal/ingest/{writer,session,fold}.go` (partly) | sessions, fold state, parked pings | claim, fold, merge, adopt, prune | The result must not depend on order and batches |
| MCP OAuth, scheduled reports, health recorder, rate limiter, tracker stash | small state each | | single use, once per period, bounded. Not modelled yet |

How they interact. The public handler derives an event (reading the routing map
or the site cache), appends it to the write buffer and waits. The buffer's
flush calls a `Transport`: in direct mode the account writer, in http mode the
outbox. Outbox workers, one per app shard and one for events nobody claims yet,
post signed batches to `/internal/ingest` of the shards, whose handler calls
the same account writer; a poller keeps the routing map current from
`/internal/domains`. The writer borrows an account's handle, folds the batch
into sessions and reports what it stored to the usage recorder. The roll-up
worker reads the same events. The job queue is one table shared by all app
processes; imports, exports, reports and pruning are jobs on it, queued by
requests and by the cron, and its stale-claim sweep also serves the queue of the
webhook worker, which has a runner of its own. Billing and lifecycle share the
account lease and meet in the payment that arrives while a deletion runs; a
deletion fences off the account's handles before the files go, and removes its
sites as `internal/destructive` does.

Not modelled, and not planned: the query engine and the statistics APIs
(read-only computation over one database snapshot); settings, goals, shields,
annotations (single statements behind forms); authentication, sharing, teams,
API keys (request-scoped, single transactions); mail, templates, i18n, flags,
migrations, seeding, benchmarks, enrichment lookups (no concurrent state of
their own); front end, SDKs, plugins, deployment files (clients of the modelled
interfaces). These are most of the repository's lines: the models cover a tenth
of its Go code, the tenth in which several actors share state.

## 2. Plan

Most important behaviour first. Modelled and checked: `EventCustody`,
`StoreForward`, `WriteBuffer`, `JobQueue`, `WebhookDelivery`, `SiteErase`,
`AccountHandles`, `Cron` (composed with `JobQueue`), `BillingCheckout`,
`AccountDeletion`, `UsageLadder`, `Rollup`, `SessionFold`. Proved: the safety
properties of the first twelve (section 6).

Still wanted, in this order:

1. models of the OAuth authorization codes and refresh tokens, of the scheduled
   reports and of the rate limiter's buckets;
2. in `StoreForward`, the race of `ResolveEvent` (`remote_router.go:149`) and the
   clash of account ids (`remote_router.go:362`) as properties of their own.

## 3. The models

Every SQL statement, every transaction and every read of shared memory is one
step; between two of them anybody else may act, and a process may die. Payloads
are model values. A history variable is named as such where it is declared;
nothing in the modelled code reads one.

### StoreForward

| Variable | In the code |
|---|---|
| `owns` | the site cache of each app shard, as `handleDomains` publishes it and `handleIngest` consults it |
| `receipts`, `gone` | `recent_event_ids` of each account database; accounts deleted for good |
| `routes`, `lastSuccess`, `poll` | `byShard`, freshness and the poll in flight of `RemoteRouter` |
| `outbox`, `parked`, `diskRoutes` | the tables of `buffer.db` |
| `buffered` | events derived and not flushed |
| `work` | the locals of `deliver` and `resolveUnrouted`, per worker |
| `late` | requests whose sender stopped waiting |
| `accepted`, `folds`, `dropped`, `crossed`, `upsets` | history; `crossed` is set by a statement `WHERE id = ?` that hits the row of another event than the one its worker read (`Crosses`) |

`Deliver` selects a batch, `HandleIngest` is the whole handler of the app,
`DeleteCommitted`, `ResolveLookup`/`HandleNotMine` and `RetryRow`/`ParkRows`
apply its answer row by row in the order of `deliver`. `Sorted` is the order of
its tests: a domain in `not_mine` wins over nothing, so a row can be both
acknowledged and rerouted. `Handle` lets any subset of the accounts commit and
mangles the answer. `Send` models SQLite's rowids by what they do: a new row
gets the largest live rowid plus one.

Choices. `HandleIngest` is one step, since accounts are written under locks of
their own, the handler shares no state with the ingester but the two caches, and
`HandleAcrossRefresh` covers a cache refresh in the middle of it.
`PollPublish` joins the disk write and the publication: the disk copy is read
only after a restart. `Restart` joins death, start and the optional replay: no
worker runs before `runIngest` has replayed. A failed poll changes nothing and
is therefore no step. A batch's byte limit (it only shortens batches) and rows
whose payload cannot be decoded (they are parked when selected) are left out.
`folds` saturates at two, one past what the property allows.

### EventCustody

The promise without the machinery: an event answered 202 is in custody until it
is settled, that is folded into some account or given up on purpose, and no
account folds it twice unless it forgot the first time (`Forget`, the pruned
receipt). `StoreForward` implements it with the queue and the dead letter as
custody, up to the first statement that crosses to a reassigned rowid
(`ImplementsCustody`).

### WriteBuffer

`call`, `answer`, `waiters`, `pending`, `scheduled` are the fields of `Buffer`
and the state of each `AddAndWait`; `queued` and `active` are the mutex around
`flush`, its waiting goroutines and its holder; `run` and `phase` are `Run` and
the process. `shard` is the partition that `Derive` chose for each event. `Send`
and `SendFails` are what a `Transport` may do and report, the failing `INSERT` of
the outbox included: it names rows that the rollback then undoes, and the history
`phantom` remembers their UUIDs.

### JobQueue and Cron

`row` is the table, `runner` the locals of a `Runner` between two statements,
`old` the rows whose `attempted_at` is past `StaleClaim`, `silent` the processes
that cannot reach the database. `Pick` and `Take` are the two statements of
`Claim`. `GrowsOld` needs a claim without a live, answering owner: the heartbeat
interval is a third of `StaleClaim`, and the time between a worker's return and
its outcome is bounded by five seconds (`outcomeWriteTimeout`). A live process
may nevertheless be silent for longer (a laptop that sleeps, a database locked
for a quarter of an hour); `slept` remembers it, and the safety properties speak
of histories without.

`Cron` EXTENDS `JobQueue`: the jobs are the buckets of one entry, `latest` is
`MAX(bucket)` of `cron_slots`, `pass` the loop of `EnqueueDue` in each process.
A pass reads the clock and the newest slot once (`Look`) and then fills bucket
after bucket, a transaction each (`Fill`), so that it may be outdated at every
step. `CronInit` starts with no slot, the slot of the bucket before, or an older
one after an outage. Left out: entries without a lookback (they queue the current
bucket only), further entries, and the health report.

### WebhookDelivery

`endpoint`, `delivery` and `job` are rows; `worker` is the progress of
`RunOnce`, one stage per statement of `attempt`; `edit` is the row an `Update`
request has read. Ids of deliveries follow SQLite's rule, so an id is assigned
again once its row was the last and is gone. Jobs may take any free id, because
job rows of other queues keep the sequence moving. A failing request is an answer
(`Send`), and a failing notifier is only logged (`Warn`). The history `warning`
keeps the two apart, *told* from *lost* (the notifier failed, or the process died
before it was called), per endpoint and since its counter was last cleared; `old`
are the workers that read a counter which was cleared since. The notifier that
`cli/publicapi.go:166-189` wires, `loggingNotifier`, writes a line into the
operator's log and mails nobody, so *told* means that the notifier was called and
returned no error, not that a customer has read anything. Secrets, signatures,
event filters and team
scoping are left out, as is the message about a disabled endpoint (nothing
depends on it). `upsets` counts each kind of upset apart and `Without(K)` says
that none of the kinds in `K` has happened, so that one run serves properties
with different hypotheses.

### AccountHandles

`handle` are the `Account` objects, by an identity of their own: a handle stays
itself when the cache forgets it and opens another. `cached`, `rank` and
`blocked` are `Manager.open`, its recency list and the ids a deletion blocks, per
process; `op` is where an operation stands (in `BeginWrite`, on the slow path of
`openGuarded`, using a handle, in a scan), `purge` where a deletion does;
`tombstone` and `removed` are the files on disk. The guard and lifetime locks
are not variables: who holds them is a function of the stages, as `flock` makes
it. Whatever runs under a Manager's mutex is one step.

### AccountDeletion

`clock`, `age`, `gap`, `bill` and `noted` are the rows of lifecycle and billing,
`inv`, `held` and `news` are Stripe (external), `audit` with its checkpoints,
`busy` and `box` the deletion's rows, `rest` what is left of the account, `lock`
the two leases and the deletion fence. `me` is each worker's place and what it
has read: sweepers warn and delete, owners delete at once, handlers reconcile
after an event. A lease may be outlived (`stalls`), any call may fail, any
worker may die (`upsets`). Left out: the start of a trial, complimentary
accounts, the wording and the number of templates, several customers or
subscriptions of one team.

### BillingCheckout

`session`, `sub` and part of `event` are Stripe; `claim`, `cleanup`, `mirror`,
the rest of `event` (`stripe_events`) and `lock` (`billing_account_leases`) are
tables; `shown` are the pages customers have. A tab renews, looks for a
subscription, writes its intent, calls Stripe under the intent's idempotency
key, records the session, and expires what it replaces; a handler claims an
event, reads Stripe's current state under the lease, and saves it. `LoseLease`
is a pause between a `Renew` and the statement it guards. Left out: the ranks of
payment evidence, the portal, receipts and notices, the catalog.

### UsageLadder

`pending`, `batch` and `counter` are a count on its way from memory to
`system.db`; `notices`, `overage` and `mails` are the ladder and the
conversation, which a sweep of the server or of a command leads statement by
statement. Time goes in thirds of a month, and the two weeks to reply end in the
second third after the question. `cut` and `lost` remember what a stop or a
crash interrupted. Left out: the projection quoted in a mail, the gate that
caches who is locked, and the middle rung.

### Rollup

`raw` are the events, `row` the summary, `cover` the window of each grain,
`pass` what each builder does, statement by statement. Time is counted in the
site's local days; the hours of a day are one bucket, a week stands for week and
month. `Truth` is what a report over the events would say. Left out: the
summaries of imports, and dimensions other than one count of visitors.

### SiteErase

`op` is the site's row in `destructive_operations`, `request` what each request
is doing with it, `data`, `record` and `file` are what is to be erased, `job`
the exports that run meanwhile. `doomed` and `facts` are history, `overrun`
remembers that a request outlasted its lease. Left out: which tables a reset
keeps, and imports apart from exports.

### SessionFold

A pure algorithm wrapped in its transaction: one action commits a batch.
`events`, `sessions` and `orphans` are the stored rows, the sessions with their
fold state, and the parked pings; `FoldBatch` is the fold of a batch, with its
merges and adoptions in list order, and `Visits`, `Described` are the reference:
the visits of a set of events, defined without an order. A session is named by
the event that opened it. Left out: shields, path cleaning, usage, swarm marks,
the columns that follow the modelled ones, and what only the seed generator uses.

## 4. Runs

All bounds are constants of a `.cfg`. Those named `MaxUpsets`, `MaxFaults`,
`MaxLapses`, `MaxLate`, `MaxRowId`, `MaxDeliveries`, `MaxJobs`, `MaxHandles`,
`MaxSessions`, `MaxClaims`, `MaxEnds`, `MaxUnits`, `MaxTime`, `MaxDay`,
`MaxEvents`, `MaxFacts`, `LastBucket`, `MaxAt` bound the model only; the other
limits are small values of the code's own constants.

| Run | Instance | Distinct states | Shows |
|---|---|---|---|
| `one_shard` | 2 events of a domain, 1 shard, 2 upsets, 1 late request, batches of 2, refresh in mid-batch, 2 attempts, receipts expire | 829,567 | `RowOwnership`, `NoLoss`, `ImplementsCustody` |
| `two_shards` | 1 event that may be sent again, 2 shards that may both claim its domain, 1 late request, 1 upset; fair | 261,368 | `AtMostOnce`, `QueueDrains` |
| `buffer` | 2 requests with one UUID, each derived for either of 2 partitions, failing inserts and commits; fair | 206,709 | `AckDurable`, `WaiterCovered`, `Answered` |
| `jobs` | 2 buckets, lookback 1, 2 processes, 1 upset, long silences; fair | 315,050 | `OneAtATime`, `CompletedStays`, `TicksRun` |
| `webhooks` | 2 endpoints, 1 process, 2 delivery ids (assigned again after a deletion), redeliveries, 2 attempts, 1 upset of any kind, failing notifiers among them; fair | 318,524 | `PendingHasJob`, `OneSchedule`, `OffersBounded`, `WarnedFirst`, `Settles` |
| `handles` | 2 accounts of which 1 is deleted, 2 processes, a user and a scan, cache of 1, 1 upset; fair | 90,412 | `LeaseKeepsHandle`, `NeverRecreated`, `PurgeFinishes` |
| `deletion` | 1 sweeper, 1 owner, 1 handler, 1 lapse, 1 fault; fair | 298,341 | `GoneIsGone`, `OneWinner`, `HoldsRemembered`, `WarnsOnlyRunning`, `PaidFirst`, `DeletionFinishes`, `PaidRestores` |
| `checkout` | 2 tabs, 2 handlers, 2 plans, 2 sessions, 2 intents, 1 end, 1 fault | 2,297,756 | `OneSubscription`, `ShownIsTracked`, `MirrorTrue` |
| `usage` | 1 process, 1 command, 4 thirds of a month, 2 events a month, 1 upset; fair | 317,348 | `CountedOnce`, `LockedFairly`, `ReplyEndsIt`, `RungsHeard`, `QuietUnlocks` |
| `rollup` | server and command, 3 days, 3 events, weeks of 2 days, 1 upset; fair | 867,756 | `Trusted`, `CatchesUp` |
| `site_erase` | 2 teams, 2 requests, 2 exports, 2 claims, 2 upsets | 2,040,108 | `ErasedByOwner`, `FinishedIsErased` |
| `session_fold` | 4 events in 4 moments, batches of 2, midnight early or never, retention 2 | 70,175 | `SameVisits`, `RowsFollow` |

Why the bounds are enough to be interesting. Two upsets are the shortest way to
lose something and recover it wrongly (a crash and a site change, a deletion and
a reuse); where a run has one, larger instances were checked without liveness,
among them two sweepers with an owner, a crash together with a stall, and two
lapses of `deletion` (2.3, 1.1 million states), two upsets of any kinds of
`webhooks` (10.7 million) and two processes with one endpoint (529,540), two
upsets of `usage` (2.6 million), a server alone for six days with three upsets and
two builders for four days of `rollup` (2.3, 5.3 million), and the handling of
every event in `checkout` with one tab and fairness (479,118). Three rowids let a row's id be
assigned again while another row lives; two attempts separate the first failure
from the last; a batch of two mixes answers, and has its domain both claimed and
refused when the site cache changes between its events; thresholds one and two put a
warning before a disabling; a cache of one with two accounts evicts at every
change; two sessions let a checkout be replaced; four events are the fewest that
open, bridge and follow two visits. The run `rollup` is too short for a window to
be extended further back than it is rewritten anyway; the longer instances above
are not. One thing needs more than two events: a statement crosses to a reassigned
rowid only when two events of a batch had their domain claimed and refused, and a
third took the rowid of the acknowledged one. TLC reaches that with three events in
sixteen states, but cannot finish the instance in minutes; there the theorems speak.
`CHECK_DEADLOCK FALSE` stands where the
system may really stop: a process that ended, a queue with nothing to do.
Symmetry is used only in runs without temporal properties that depend on names.

Every property of a passing run has a mutant: an operator beside a definition,
marked *Mutant*, that changes it as a plausible bug would (a partition left out
of a query, an acknowledgement of the whole batch, a forgotten retry). With the
mutant in place of the definition, the run finds the property violated.

### Fairness

Weak fairness of a step means that whoever can take it does. The tickers of
`Outbox.Run`, `RemoteRouter.Run`, `Buffer.Run`, `Runner.Run`, `Worker.Run`,
`Cron.Run`, the watcher of tombstones and the sweeps never stop while the process
lives, timers fire, and every blocking call on the way has a timeout. Strong
fairness is used three times: for whoever waits for the flush mutex, since Go
hands a mutex to a goroutine that has starved for a millisecond; for claiming a
job of a webhook delivery, since processes poll the queue in the order of
`scheduled_at` and a job that stays due comes to the front; and for a cron's
insert, which `PassFails` may interrupt but not for ever, since a statement waits
for the lock and a pass is retried. `Tick` of `AccountDeletion` is fair because a lapse really ages.
Nothing is assumed that makes a receiver, an app or Stripe answer well, a client
send, a customer pay, or a process die or stay alive; `QueueDrains` says so
itself (*if failures stop*), and `TicksRun` excepts a bucket that a long outage
moved out of the lookback. `BillingCheckout`, `SiteErase` and `SessionFold` have
no liveness property in their runs: a checkout goes on only if a customer does,
and a crashed reset only if somebody asks again.

## 5. Where the code promises more

The passing runs and the theorems state the hypotheses under which the
properties hold. Each line below lifts one of them; the properties are then
violated by what the code does, and each contradicts what a comment there says
or what a reader would expect.

Ingest and jobs:

| Lifted | Then |
|---|---|
| no statement has `crossed` | a site appears, disappears or comes back under another id, in mid-batch or between selection and answer, so that a domain is both claimed and refused (`internal_handlers.go:161`); a row that is both acknowledged and refused is deleted, its rowid goes to a new event, and the reroute by rowid takes or drops that event (`outbox.go:548`): `NoLoss`, `RowOwnership`, `ImplementsCustody` |
| receipts outlive the rows that carry their events | a parked row older than its receipt is folded again (`outbox.go:191`): `AtMostOnce` |
| no two shards have an account with the same id | `remote_router.go:362` keeps one shard per account id, and one shard's events go to the other for ever: `QueueDrains` |
| the outbox names no row it rolls back (`phantom` is empty) | an `INSERT` fails in mid-batch, `Outbox.Send` names the rows before it, and their clients hear 202 (`outbox.go:131`): `AckDurable` |
| no process is silent for longer than `StaleClaim` | it writes its outcome over its successor's (`jobs.go:350`), and its heartbeat refreshes a claim that is no longer its own (`jobs.go:398`): `OneAtATime`, `CompletedStays` |
| no statement of a webhook attempt fails | `RunOnce` completes the job all the same (`deliver.go:380`) and the delivery stays pending with nobody to send it: `PendingHasJob`, `Settles` |
| no crash, or no deleted endpoint | the retry is queued and the old job comes back (`deliver.go:568`); a deleted endpoint's job attempts the delivery that got its id (`webhooks.go:511`): `OneSchedule`, `OffersBounded` |
| no attempt straddles the clearing of the counter (`old`) | an attempt writes the count it read before its request over another's success or over the reset by an edit (`deliver.go:664-665`), and the endpoint may be disabled for failures it has recovered from, without a new warning: `WarnedFirst` |
| a warning that was due was given (`warning` is *told*) | a process dies between the count and the warning (`deliver.go:669-676`), which is sent at one exact value of the count and never again; a failing notifier is only logged (680-682); another process disables while the warning is still being given; and the notifier that is wired mails nobody, against *the email goes out while the endpoint is still enabled*: `WarnedFirst` counts these as warnings due, not as warnings read |
| one bridging event per batch | in a batch A, C, B where B joins the visits of A and C, the row written into the absorbed session is inserted after the merge's `UPDATE` (`writer.go:1219-1260`), and names a session that is gone; contrary to `writer.go:1296`: `RowsFollow` |
| pings come after the page that anchors them | adoption is one pass in list order (`session.go:440-468`): of two pings parked out of order one stays parked for ever, contrary to `session.go:382-386`: `SameVisits` |
| one day, or events in order | visits under yesterday's and today's fingerprint are never merged and a parked ping is not adopted, contrary to `session.go:394-413`: `SameVisits` |
| no fold state was pruned | a live batch prunes what an older backlog still needs, and a hydrated session has lost its order keys, its automatic flag and its mark: `SameVisits` |

Three more can be read off the models though no run states them: a domain
published between the two reads of `ResolveEvent` is dropped as unclaimed
(`ResolveLookup`, then `HandleNotMine`); a job that kills its process is claimed
once more per crash, beyond `max_attempts`; and a job may be claimed during its
backoff from a candidate read earlier (`Take` tests the state only).

Accounts, billing and sites:

| Where | What happens |
|---|---|
| handles, `accounts.go:463-470`, `1031-1043` | whoever asks for an account that another process is deleting closes its cached handle, though an operation may be using it; 599-601 says such a handle is left alone, *which is what stops a deletion cutting an acknowledged write in half* (`NobodyCut` in the module does not hold). `LeaseKeepsHandle` therefore excepts tombstoned accounts |
| handles, `accounts.go:1455-1469` | `CloseAll` stops the watcher after it has cleared the map, so an open between the two keeps a handle that nobody watches; and the cache may stay above its cap after overlapping scans |
| deletion, `lifecycle.go:321-333`, `deletion.go:~1241` | a payment seen after day 90 but before the claim leaves an account that is neither deleted nor restored: the clock does not move in the phase *deleted*, and the claim refuses a paid mirror. `lifecycle.go:356-360` says otherwise; `PaidRestores` is about payments before that, `PaidRestoresLate` fails |
| deletion, `deletion.go:432-497` | a deletion called off by a payment leaves the team's row in `destructive_operations`: transfers and resets answer *busy* for ever |
| deletion, `service.go:276` | `advance` reopens a collection gap from a snapshot read before the payment closed it |
| deletion, `schedule.go:~70` | a crash between `Notify` and `FinishEmail` sends the warning twice, against *making a duplicate send impossible* |
| deletion, `deletion.go:908-978` | `removeControl` does not look at the audit again. With two workers that outlived their leases, one voids an invoice and reopens the deletion, a payment calls the claim off, and the other goes on and removes the account with no claim standing: `GoneIsGone` excepts a second stall |
| deletion, `deletion.go:502-519` | `authoritative` is read before the account lease is taken. With two lapses, a worker that read it, and then waited while the claim was called off and the account lapsed again, may void the new invoice before anything is claimed: `GoneIsGone` speaks of the first lapse |
| deletion | a stall between `Renew` and the call pauses the collection of a paying subscription; a payment between the authoritative claim and the listing of the final pass is not seen |
| checkout, `service.go:1278-1281` | a pause longer than the lease between `Renew` and the new intent gives two subscriptions, against the comment there: the hypothesis `stalls = 0` of `OneSubscription` |
| checkout | after such a pause `SaveReconciled` accepts an older snapshot when the subscription's id differs, the late path (1434-1446) expires the session the successor recovered, and `MarkCheckoutStatus` marks whatever claim is there. An event's claim lasts as long as the account lease (5 minutes), so both run out together |
| usage, `runtime.go:~183`, `recorder.go:120-121` | the recorder's last flush at SIGTERM does not wait for the writers that still count, and what comes after it is lost: `lost` |
| usage, `sweeper.go:304`, `ladder.go:104` | a reply recorded between a sweep's read and its `SaveOverage(locked)` is overwritten |
| usage, `sweeper.go:286-289` | a stop between `SaveOverage` and the mail locks out a customer who was never asked; a failed `SaveOverage` keeps the claim, so that nobody is asked either |
| roll-ups, `cli/rollup.go` | *Safe to run at any time*: two passes that overlap during a backfill, a rebuild beside the server's pass, and two passes of different zones can leave a window over rows that are stale or not built, also when neither had found a window: `overlapped` |
| roll-ups, `rollup.go:1046-1049`, `1089-1094` | rows built before there is a window, by a pass that died or on the first day of a site, are not thrown away when the timezone changes; the day before the first event of the new zone may keep one, and *everything before it is empty*: `strays` |
| roll-ups, `rollup.go:1061-1075` | after a `Reset` that died halfway the daily window stands over no rows, and the next pass sums its weeks and months out of them: `strays`, `clearing` |
| roll-ups, `rollup.go:1139-1142` | `Prune` deletes rows before it moves the window, contrary to its comment; `Reset` does the same over several statements: `clearing` |
| roll-ups | an event later than `reworkDays` - 1 days, or missed by a downtime, is never counted: `owed`, `missed` |
| reset, lease of 1 minute | `eraseSite` does not look at its token and does not renew: after an overrun a second operation and the first one erase together. `ErasedByOwner` and `FinishedIsErased` except it |
| reset | an export recorded between `siteFilePaths` and the transaction leaves its archive on disk with nothing that names it; an export's id assigned again is completed by the older job and offers the archive from before the reset (`NoOrphanFile`, `OffersItsOwn` in the module, neither holds) |
| reset | events stored after the erase stay as orphans when the site's row goes; a crashed reset blocks deletion and transfer until a reset is asked for again; a team's deletion does not look at operations of its sites |

## 6. Proofs

| Theorem | Hypothesis | Says |
|---|---|---|
| `StoreForwardProofs!TypeCorrect` | | `TypeOK` always |
| `StoreForwardProofs!FoldsAtMostOnce` | no receipt is pruned | `AtMostOnce` always |
| `StoreForwardProofs!OwnershipHolds`, `NothingLost` | | `RowOwnership`, `NoLoss` (which except what follows a crossing) |
| `StoreForwardProofs!CustodyImplemented` | | `Spec => ImplementsCustody` (up to a crossing) |
| `BufferAndJobsProofs!TypeCorrect`, `WaitersCovered` | | `TypeOK`, `WaiterCovered` always |
| `BufferAndJobsProofs!AcknowledgedIsDurable` | | `AckDurable` (which excepts the rows the outbox named and rolled back) |
| `BufferAndJobsProofs!OneRunner`, `CompletedIsFinal` | | `OneAtATime`, `CompletedStays` (which except long silences) |
| `BufferAndJobsProofs!OneRunnerOfTicks`, `TicksStayDone` | | the same of the queue with its crons |
| `WebhookDeliveryProofs!TypeCorrect`, `PendingIsScheduled`, `OneScheduleHolds`, `OffersAreBounded` | | `TypeOK`, `PendingHasJob`, `OneSchedule`, `OffersBounded` (each excepts the upsets it names) |
| `WebhookDeliveryProofs!WarnedFirstHolds` | | `WarnedFirst` (which excepts attempts that straddle a clearing), for any number of processes |
| `SiteProofs!TypeCorrect`, `ErasedByOwnerHolds`, `FinishedIsErasedHolds` | | `TypeOK`, `ErasedByOwner`, `FinishedIsErased` (which except an overrun lease) |
| `SiteProofs!RollupTypeCorrect` | | `RollupTypeOK` always |
| `SiteProofs!TrustedHolds` | | `Trusted` (which excepts the overlaps, strays and late events it names), weeks summed out of days included |
| `AccountHandlesProofs!TypeCorrect`, `LeaseHolds`, `NeverRecreatedHolds` | | `TypeOK`, `LeaseKeepsHandle`, `NeverRecreated` always |
| `BillingCheckoutProofs!TypeCorrect`, `ShownIsTrackedHolds` | | `TypeOK`, `ShownIsTracked` always, with any number of pauses |
| `BillingCheckoutProofs!OneSubscriptionHolds`, `MirrorTrueHolds` | | `OneSubscription`, `MirrorTrue` (which except a pause longer than the lease) |
| `AccountDeletionProofs!TypeCorrect`, `WinnerHolds` | | `TypeOK`, `OneWinner` always, with any number of pauses |
| `AccountDeletionProofs!GoneHolds`, `HoldsHold`, `WarnsHold` | | `GoneIsGone`, `HoldsRemembered`, `WarnsOnlyRunning` (each excepts the outlived leases it names) |
| `AccountDeletionProofs!PaidHolds` | | `PaidFirst` |
| `UsageLadderProofs!TypeCorrect`, `CountedHolds` | | `TypeOK`, `CountedOnce` always |
| `UsageLadderProofs!LockedHolds`, `ReplyHolds` | | `LockedFairly`, `ReplyEndsIt` (each excepts the fault or race it names) |

They hold for every value of the constants the modules' assumptions allow: any
number of events, shards, requests, processes, accounts, tabs and rows, any
thresholds and sizes. The bounds of the runs are constants too, so a theorem
covers every bound.

The arguments.

**StoreForward.** `TypeOK` is inductive but for one fact: a shard found through
the merged map is a configured one (`LastContributor` ranges over `Shards`).
`AtMostOnce` needs the strengthening that an account which has folded an event
still holds its receipt: a handler folds only what is not receipted and receipts
in the same transaction.

**Custody.** `OwnInv` holds until a statement has `crossed`. `RowInv`: rows and
parked rows carry their own event, and no two rows share a rowid. `WorkOK`: a copy
a worker still has to deal with is of an accepted event, which is settled or whose
row is still the one that was copied, in that worker's partition (`Holds`); no two
copies are of one event, and what is acknowledged is settled. A row may well be
both acknowledged and refused; then it is settled before it is deleted, and the
statement that would still reroute it finds nothing, or crosses. `LedgerInv`: a
receipt is written with the fold, and whatever is queued, parked or late was
accepted. A statement that does not cross touches the row of its own event only,
and unless that event is settled no other worker has a copy of it
(`StatementKeeps`). With these each step is one of `EventCustody` or a stutter
(`Kind`): most only move an event between places of custody, a handler folds or
abandons, a pruned receipt forgets, and only an unclaimed domain gives up.

**WriteBuffer.** `AckDurable` is strengthened to every good answer on its way:
whoever has been told *nil* has a UUID that is durable or `phantom` (`Vouched`),
and so has every UUID a flush's transport named, or its whole group when it did not
fail. `WaiterCovered` needs
that an event is in one place only (`Types`).

**JobQueue and Cron.** `OneAtATime` needs that a runner's job is executing, is
no other runner's, and is not old; only then does `ReleaseStale` never touch it.
For the cron, `PassInv` keeps an outdated pass within the buckets the model knows
and a bucket is queued only while its row is absent, so every step of `Cron` is
a step of `JobQueue` or a stutter of its variables, and the theorems carry over.

**Webhooks.** `PendingHasJob` is not inductive: when ids are assigned again, a
worker may hold a job of a pending delivery and yet be about to find another
endpoint gone, or to record an older success. `PendingHasUseful` counts only jobs
whose workers are not *astray*, and rests on `Basic`: a working process holds an
executing job of the delivery it works on, nobody else holds it, and every
logged delivery has its endpoint. `OneSchedule` is strengthened by two facts
about jobs: an executing one has its worker, so that no claim goes stale, and
the delivery of every one is in the log, so that a new delivery has none.
`OffersBounded` adds `Offering`: the offers made are those counted in the row,
and one more between the request and its record. `WarnedFirst` adds `WarnInv`:
of an endpoint whose row shows as many failures as the warning needs (`Reached`),
the warning was due and told or lost, or somebody is giving it (`Heard`), and so it
is of every endpoint of which a worker has read such a count, or that it is about to
disable, unless the counter was cleared since it read (`Informed`). A count just
below the threshold, read by several workers, sends each of them to the warning.

**SiteErase.** `ClaimInv`: while the operation's row is there the site keeps its
owner (`Frozen`), and without an overrun one request works, with the row's token
(`OneWorks`, `LeftAlone`). `EraseInv`: an archive stays where the job that
wrote it put it (`WrittenOnce`), an archive the operation was claimed over keeps
its record as long as it is there (`StillNamed`), and each phase has erased its
part (`ErasedSoFar`).

**Rollup.** `RollupInv` has two layers. `Basics` always holds: types, the clock, and
what a pass keeps of its own range (`PassOK`: it begins and stands at the start of
a bucket, it ends today, a week begins where the daily window does or later).
While nothing has `overlapped`, `Tables` says what is stored: every row inside the
window is `Good` (right, owed a rewrite, or due to be pruned; `Vouched`), and every
other row is empty or `Good` in the zone it was written in (`Rows`), which is why a
pass may cover a bucket it did not build: nothing happened in it, and no row of
another zone is in the way. `Passes` says what a pass under way may rely on, row by
row, whatever the others do: the buckets it built (`Made`), those before the first
event and after today (`Edges`), the window it read and is about to join with them
(`Seen`), and the days its weeks are summed out of (`Daily`). `Pairs` says what two
passes are to each other: of one zone, their windows overlap, and nobody works
beside a half-done `Reset`. The heart is that joining keeps the promise: a bucket
of two windows that touch lies in one of them (`JoinedWindow`, from the calendar
lemmas), and a window that lost a race still reaches into the one it lost against.
A week is right when its days are (`DerivedTrue`), the claim of `derivePairs` that
visitors may be added up, here for every length of a week: a visitor has two local
days at most, one after the other, so that what a day carried over is what it has in
common with the day before, and the units a week sums are in bijection with its
visitors, each counted on the first of his days.
TLC checked `RollupInv` on all states of the run's instance, and in simulations with
two commands, before it was proved; it found three states that the exceptions of
`Trusted` had missed (section 5).

**AccountHandles.** `HandleInv` is `TypeOK` with `OpInv` and `PurgeInv`. A
handle is taken out of the cache before it is closed, and only one that nobody
uses or whose account has its tombstone; so whoever got it from the cache keeps
it. A deletion may take the guard exclusively only while no operation holds it
shared, every operation on the slow path holds it, and after the guard the
tombstone turns every newcomer away: no operation can stand before the lifetime
lock when the fence has it.

**BillingCheckout.** Two layers. At any time, pauses or not: `StripeInv` (whatever
a row or a worker names exists at Stripe; a subscription is a completed
session's) and `TrackInv` (a page that was shown is the claim's or waits in the
cleanup table; to lose it, a worker would have to replace the claim's session
without queueing it, and `Past`, `Starting` and `Alone` say that whoever writes
the claim has inspected that session under the same token, or made it). Until a
pause: `LeaseInv` (a worker between its renewals has the lease) makes everybody
alone, and `PayInv` says that at most one page is open and none while a
subscription runs, that whoever may create finds its key's session or everything
closed (`Ready`, `Quiet`), and that whoever closes the others has those left that
are not closed (`Pending`). The mirror needs `EventInv` (Stripe's events are as
many as payments and ends together) and `MirrorInv`: once the last event is
handled the mirror matches, and what a worker has read under the lease is not
older than what is stored. TLC checked all of these on small instances before
they were proved.

**AccountDeletion.** `DeletionInv`, in layers. Without any condition: what a
worker claims it has a reason for (`KnownInv`), what is marked or about to be
marked is gone (`PartsInv`), the numbers of invoices only grow (`NumbersInv`), a
purge that found the invoice paid comes to no scheduled claim (`PaidInv`), and
nobody calls off a claim before an invoice was paid after a lapse (`EarlyInv`).
`OneWinner` is inductive once it is known that the clock moves to *deleted* and
back only in the transactions of the claim. Then the leases: with no stall
nobody works beyond his lease, with one stall at most one worker does
(`LeaseInv`), and a worker that is about to destroy the account has a claim that
stands: whoever might call it off needs the same lease, or is the one stale
worker, and that one finds nothing to pay (`DestroyInv`). `HoldsInv` carries the
order of note, hold, release and forget through every step and crash while no
lease was outlived. A warning goes out only from a worker with the transition
lease, under which the clock does not move (`ClockInv`). How often it goes out is
a count: the messages sent of a lapse, with the workers about to send it or to
cancel it without the lease, are at most one more than the faults and stalls, and
not one more while the row is neither finished nor in the hands of a worker that
holds the lease (`SentInv`). TLC checked these on small instances first; two of them
changed the model's properties, see the entries about `removeControl` and
`authoritative` in section 5.

**UsageLadder.** `CountInv` is `CountedOnce` with a bound for each process: what
waits is a set of tokens, a process and a number each, so that a sum over the
processes is a cardinality and a flush that gives back its batch moves tokens
about. `ClockOK` says that a sweep is at most a third of a month behind the clock,
because time waits for it. `ClaimInv`: a claimed notice is in the table and not
mailed, no two sweeps hold the same claim, and what was mailed stays claimed.
`TalkInv` and `AskedInv` follow the conversation through what sweeps have read of
it: whoever the row says was asked was asked or is being asked, and a sweep that
read the row before the mail went out cannot be late enough to lock. `ReplyInv`
says that after a reply that met nobody half way every sweep that is to decide has
read it.

Only model-checked. Liveness (`QueueDrains`, `Answered`, `TicksRun`, `Settles`,
`PurgeFinishes`, `DeletionFinishes`, `PaidRestores`, `RungsHeard`,
`QuietUnlocks`, `CatchesUp`): the prover does neither fairness nor `ENABLED`.
`SameVisits` and `RowsFollow` of `SessionFold`: they say what a fold over a list
of events computes, which needs induction over data. No module declares a
recursive operator.
