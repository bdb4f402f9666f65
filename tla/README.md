# Verification of backup-service

TLA+ models of the backup service, the TLC runs that check them and the TLAPS
proofs about them. The code is under `src/crates/` (`backup-service`,
`backup-worker`, `backup-common`); `PROJECT.json` maps every definition to the
lines it models.

## The system

| Part | State it keeps | Operations | Talks to |
|---|---|---|---|
| REST handlers (`handlers/backups.rs`) | none; rows of `backups` in PostgreSQL | create, get, list, update, delete, analyze, enqueue | PostgreSQL, Redis, RabbitMQ |
| `CacheLayer` (`cache.rs`) | Redis keys `backup:{id}`, `tenant_backups:{tenant}` with a TTL | get, set, invalidate; every failure is ignored | Redis, `AppConfig` |
| Rate limiter (`middleware/rate_limit.rs`) | per replica: `(count, start)` per tenant under a mutex | `check_and_increment` | `AppConfig` |
| gRPC server (`grpc.rs`) | none; the same rows | `update_status`, `report_result` | PostgreSQL |
| Worker (`backup-worker/src/main.rs`) | AMQP channel, prefetched deliveries, the delivery in hand, the shutdown flag | consume, call, ack, nack, shut down | RabbitMQ, gRPC |
| Publishing and topology (`backup-common/src/worker.rs`) | durable exchange and queue | `publish_job`, `connect_rabbitmq` | RabbitMQ |
| Apollo updater (`apollo/`) | interval and fetch under way; writes `AppConfig` under its `RwLock` | poll, fetch, merge | HTTP endpoint |
| Service process (`main.rs`, `db.rs`, `router.rs`) | pool, cache, channel, limiter | start-up, migrations, routing, timeout, shutdown | everything |
| Health (`handlers/health.rs`) | none | liveness, readiness | PostgreSQL, Redis |
| Auth, telemetry, entropy FFI | none | verify, log, compute | - |

What is hard in it:

* A job crosses four actors (handler, broker, worker, gRPC server), and any of
  them may fail between two steps. A call that failed for the worker may have
  been executed, or may still be.
* An `await` is a point where a request interleaves with others, and where it
  is dropped when the client hangs up or the 30 s timeout fires. The cache is
  filled and invalidated at such points, and its commands may fail silently.
* The limits and the cache settings change under running requests, and each
  replica has its own counters.
* A fetch of the settings may take longer than the interval between fetches,
  and its response may be older than what is served when it arrives.
* Replicas run `run_migrations` at once, without a lock, while the database may be
  migrated by someone else; the service's own migration is refused by PostgreSQL.
* A replica told to stop drains two servers, one after the other, against a
  grace period that is as long as the request timeout.
* A worker whose consumer has ended is a live process that does nothing; a
  replica that started without Redis serves and is never ready.

What makes the parts correct: the pipeline processes every accepted job at least
once, and a row it marks `running` under a delivery it owns has a report still to
come that resolves it (a stray write of an abandoned call is the exception, see
below); the cache never crosses tenants and is stale for a bounded time; the limiter bounds
what a tenant gets through; the settings change as a whole and the newest win;
replicas serve on a migrated schema and finish what they began when they stop.
The hazards are listed one by one in `PROJECT.json`.

## Modules

| Module | Models |
|---|---|
| `JobLedger` | what the pipeline promises: a job is settled only after its result was reported, and only what is no job may be thrown away |
| `JobPipeline` | enqueue handlers, RabbitMQ, workers, gRPC server; implements `JobLedger` |
| `JobPipelineProofs` | theorems about `JobPipeline` |
| `BackupCache` | the cache-aside handlers over PostgreSQL and Redis |
| `BackupCacheProofs` | theorems about `BackupCache` |
| `RateLimiter` | the middleware and its counters, on several replicas |
| `RateLimiterProofs` | theorems about `RateLimiter` |
| `SettingsStore` | what readers of `AppConfig` rely on: settings change as a whole |
| `ApolloUpdater` | the updater task, the lock, the endpoint; implements `SettingsStore` |
| `ApolloUpdaterProofs` | theorems about `ApolloUpdater` |
| `ServiceLifecycle` | replicas from start-up and migrations to shutdown, with their dependencies and orchestrator |
| `ServiceLifecycleProofs` | theorems about `ServiceLifecycle` |
| `MC...` | symmetry and structured constants for TLC |

### JobPipeline

`row` is the status column (`unborn` before the INSERT, `deleted` after the
DELETE). `at` says where RabbitMQ has a message: `ready`, unacked at a worker,
`done` (acked), `dropped` (nacked without requeue), `lost` (published into a
broken connection; there are no publisher confirms, the client got 202 all the
same). `buf`, `cur`, `wire` are a worker's prefetched deliveries, the one in its
hand, and the verdicts it has written that the broker has not read. `st` is the
place in `run_worker` or `main`, `call` the state of the awaited gRPC call.

| Actions | Code |
|---|---|
| `create_backup`, `update_backup`, `delete_backup`, `enqueue_backup`, `publish_job`, `publish_fails` | handlers; enqueue is split at the await between SELECT and publish |
| `update_status`, `report_result`, `LateCall` | gRPC handlers, the last for a caller that has gone |
| `take_job`, `reject_job`, `status_returns`, `analyze`, `report_returns`, `ack`, `nack`, `run_worker_ends` | `run_worker` and `process_and_report` |
| `start`, `connect`, `connect_fails`, `consume_fails`, `call_fails`, `shutdown_signal`, `shutdown_clean`, `shutdown_timeout`, `crash` | `main` of the worker and what may happen to it |
| `Deliver`, `Settle`, `ConnectionLost`, `ForeignPublish` | RabbitMQ (external) |

Tenants, sizes, paths and entropy are left out: no decision in this path depends
on them. `reported` and `runner` are history: messages whose report was recorded
for a waiting caller, and the delivery under which a row was last set to
`running` by a worker that still owned it. A write of `running` by anything else
(a client, `LateCall`, `update_status` for a delivery that was lost) clears
`runner`; the row is running all the same. `Due` says that a report for a message
is still to come. So `RunningIsOwned` (every owned mark has a due message) and
`RunningResolves` (a running row with a due message, whoever wrote it, leaves
`running`) together cover the owned marks. They do not cover a stray `running`
that is written after the last report for its backup: nothing resolves it, in the
model as in the code (`grpc.rs:35` does not look at the current status).

### BackupCache

A request is a record with a program counter; each of its steps is one Redis or
SQL command. A row is a version number that writes increase, and a value that
was read carries the time of its SELECT. `Faulty` lets Redis commands fail,
requests be dropped and keys be evicted; `Grpc` lets the worker write rows.
`Tick` expires keys and cannot pass a request's `RequestTimeout`. One service
process is modelled: replicas share Redis and PostgreSQL, and a replica without
Redis behaves as one whose commands fail. A command in flight when its request
is dropped takes effect within the tick or not at all. A status filter is an
arbitrary subset of the rows. A page is the set of its rows: `ORDER BY
created_at DESC` decides which rows these are (`older` has, for each row, those
created before it), and no property is about the order within a page.

### RateLimiter

A request copies the limits of its replica, then waits for the mutex;
`check_and_increment` is the critical section with the middleware's answer.
Apollo changes the limits in between, a restart forgets the counters. `MaxLimit`
and `MinWindow` are the largest `max_requests` and the shortest `window_secs`
that are ever configured. `told`, `last`, `life` and `admitted` are history: what
a denied tenant was told, the last decision, the restart a replica's process
began with, and every admission with the process, the window and the place in it
that it was counted in.

### ApolloUpdater and SettingsStore

`task` is the place in `run_updater_loop`: waiting for the interval, a request
sent, a request answered, merging under the write lock. Time is relative, so
that the state space is finite without a bound on time: `due` is the time to the
interval's next deadline (negative when overdue; `next_due` is
`MissedTickBehavior::Skip`), `age` the age of the fetch. `apply_update` writes
one field per step while `config`, the readers' guard, has to wait; a payload is
a function from the five updatable fields to a value or `Nil` for a missing one.
The endpoint (external) may change what it serves at any time, and answers with
what it serves at that moment. `whole`, `applied` and `stable` are history: the
settings when the lock was last free, the version merged last, and the time
since the last change, failure or start.

`SettingsStore` is the specification the readers use: `BackupCache` and
`RateLimiter` take an update of the settings as one step, which
`AtomicSettings` justifies.

### ServiceLifecycle

`pc` is the await of `main` a replica is at, `grpc` the state of the spawned
server, `db` what the database has of migration 001. Requests have an age; gRPC
calls have no time limit. `apply_001` always fails: `db.rs:41` passes a file of
several commands to `sqlx::query`, which prepares it, and PostgreSQL refuses to
prepare more than one command, so that the INSERT of the record (`db.rs:45`) is
never reached. A database gets its schema from `sqlx_migrate`, which the
integration tests run in place of `run_migrations`; it cannot work with a
`_sqlx_migrations` that the service has created, which has no `checksum`. The
signal is effective from `axum::serve` on; before, it ends the
process or, for PID 1 of a container, is ignored until the SIGKILL.

| Actions | Code |
|---|---|
| `start`, `create_pool`, `list_applied`, `apply_001`, `db_error` | `main`, `db.rs` |
| `sqlx_migrate` | the set-up of `tests/api_tests.rs` |
| `new_cache`, `connect_rabbitmq`, `spawn`, `grpc_serves`, `bind_http` | rest of the start-up; the first two never fail |
| `http_request`, `grpc_call`, `answer`, `readiness` | serving |
| `shutdown_signal`, `http_drained`, `main_ends`, `kill` | shutdown, with the grace period of `k8s/deployment.yaml` |
| `crash`, `outage`, `recover`, `Tick` | the environment |

`LifecycleAssumption` has `RequestTimeout <= Grace`. That is the Kubernetes
deployment (30 s and 30 s); `docker-compose.yml` sets no `stop_grace_period`, so
under Compose the SIGKILL comes after its default of 10 s and `StopFinishesWork`
does not apply. Handlers are abstracted to begin
and answer; what they do is in the other modules.

## Runs

| Run | Result | Shows |
|---|---|---|
| `pipeline` | pass | `SettledWasReported`, `RunningIsOwned`, `ChannelAgreement`, refinement of `JobLedger` (`AtLeastOnce`) |
| `pipeline_live` | pass | `JobSettles`, `RunningResolves` |
| `pipeline_poison` | violated | `README.md:211` lists dead-letter; a job whose row is gone is requeued for ever |
| `cache` | pass | `TenantIsolation`, `BoundedStaleness` under faults, concurrency and gRPC writes |
| `cache_grpc` | violated | `README.md:212` says invalidation on writes; gRPC writes do not invalidate |
| `cache_page` | violated | `config.rs:16` speaks of the limit in the cache key; the key has none |
| `limiter` | pass | `AdmissionBound`, `RetryAfterHonoured` |
| `limiter_sliding` | violated | `rate_limit.rs:1` says sliding window; it is a fixed one |
| `lifecycle` | pass | `ServesOnSchema`, `StopFinishesWork`, `ReplicasServe` |
| `lifecycle_migrate` | violated | `db.rs:16` says that pending migrations are run; on a new database the migration is refused at every start |
| `lifecycle_ready` | violated | `health.rs:13` says that readiness checks Redis connectivity; a replica that started without Redis is not ready after Redis is back |
| `updater` | pass | `NoTornSettings`, `Freshness`, `NewestWins`, refinement of `SettingsStore` (`AtomicSettings`), `Converges` |

`TypeOK` is checked in `pipeline`, `cache`, `limiter`, `lifecycle` and `updater`. Every property of a
passing run has a mutant of the code in `PROJECT.json` under which TLC finds it
violated.

### Bounds

* `pipeline`: one backup, two workers, two messages, two faults. Two messages
  for one backup give redelivery to another worker and two jobs that fight for a
  row; two faults give a crash during the recovery from a lost connection or a
  failed call. The proofs lift the safety part to any size.
* `pipeline_live`: one message, two workers, two faults, no symmetry (TLC's
  symmetry is not sound for liveness). Two jobs for one row are in `pipeline` and
  the proofs only.
* `cache`: one id, two tenants, two concurrent requests, TTL 1 and request
  timeout 1, with and without a filter, three ticks: long enough for an answer to
  be too old by one.
* `cache_grpc`, `cache_page`: one request at a time, two pages and filters, an
  Apollo update of the page size.
* `limiter`: two replicas, limit 1 that Apollo raises to 2, window 2, two ticks
  (the end of one window and the start of the next are in one span, and a denied
  tenant can come back), one restart. Longer windows and a limit of 0 are left to
  the proofs.
* `lifecycle`: two replicas and a new or a migrated database, which
  `sqlx::migrate!` may migrate in the middle; two requests give an HTTP
  request and a gRPC call in flight on a stopping replica; request timeout and
  grace period are equal, as the 30 s of the code are, and 2, so that a request
  can be older or younger than the signal; two faults give a stop during an
  outage, or a broken statement and then a crash.
* `updater`: interval 2 and timeout 3, so that a fetch overruns a deadline and
  ticks are skipped; two changes, so that an old response, a newer one and the
  newest settings exist at once; two faults; payloads that overlap in some
  fields and miss others. The bound of `Freshness` is reached: one tick less is
  violated.
* Counters are capped in guards: `MaxFaults`, `MaxVersion`, `MaxTime`,
  `MaxChecks`, `MaxRestarts`, `MaxChanges`.

Deadlock is checked except in the pipeline, where all workers can really come to
rest: after `run_worker` has returned, `main` waits for a signal that need not
come, and the liveness probe in `k8s/deployment.yaml` is the command `true`.

### Fairness

`FairSpec` assumes that a worker's task, the gRPC server and the broker keep
taking steps that stay possible (tokio schedules ready tasks, RabbitMQ delivers
to open consumers), that a process that is down is started again (the Kubernetes
deployment) and that a worker told to stop does so between deliveries. Nothing is
assumed of clients, faults, signals, late calls or the shutdown timeout. Faults
are finitely many by `MaxFaults`; with endless faults nothing could be promised.
`JobSettles` excuses a deleted row and the state where every worker is a process
without a consumer: both happen in the code and block the job for ever.

`ServiceLifecycle!FairSpec` assumes that the orchestrator starts what is down,
that `main` goes on in start-up and shutdown, that time passes and that
PostgreSQL comes back. Nothing is assumed of handlers and calls (a gRPC call may
never be answered), of Redis, of RabbitMQ and of `sqlx::migrate!`, so
`ReplicasServe` is stated for a migrated database. `FairDepsSpec`, for
`lifecycle_ready` only, lets Redis and RabbitMQ come back; `FairMigrateSpec`, for
`lifecycle_migrate` only, lets someone run `sqlx::migrate!`, which does not help.

`ApolloUpdater!FairSpec` assumes that the task runs, time passes and the
endpoint answers a request in the end; failed fetches are finitely many.

## Proofs

`JobPipelineProofs` proves, for any sets of backups, workers and messages and
any bound on faults, from `ConstantsAssumption` only (the special values differ
from the elements of the sets):

| Theorem | States |
|---|---|
| `TypeCorrect` | `Spec => []TypeOK` |
| `AckAfterReport` | `Spec => []SettledWasReported` |
| `DeliveriesAgree` | `Spec => []ChannelAgreement` |
| `RunningHasMessage` | `Spec => []RunningIsOwned` |
| `Refinement` | `Spec => AtLeastOnce` |

None of these invariants is inductive alone; `Inv` strengthens them:

* `Held` ties `cur`, `st`, `buf` and `chan` together: a delivery is in hand
  exactly between `take_job` and the verdict, and without a channel nothing is on
  the wire or unacked. `TypeOK` needs it (what is acked is a message).
* `Published` and `Seen`: a message has content once published, and what is in a
  worker's memory was accepted by the broker. They show that what is nacked
  without requeue is garbage (`DropsGarbage`) and that reports are for accepted
  messages.
* `AckEarned`: an ack that is on the wire, or is the next thing written, belongs
  to a recorded report. `SettledWasReported` follows when the broker reads it.
* `RunnerFree`: no row is marked running by a message whose ack is under way.
  `report_result` clears the mark, and no other worker can set it again, because
  by `ChannelAgreement` the message is unacked at one worker only.
* `MarkBacked`: a marked row is running and its message outstanding. It needs
  `RunnerFree` when the ack is read, and the two together are `RunningIsOwned`.

Each conjunct has a step lemma with one case per group of actions; `InvStep`
combines them. `LedgerStep` maps `publish_job` and `ForeignPublish` to `Accept`,
`report_result` to `Report`, the broker reading an ack or a drop to `Settle` or
`Reject`, and everything else to a stutter.

`ServiceLifecycleProofs` proves, for any sets of replicas and requests, any
number of faults and any request timeout within the grace period
(`LifecycleAssumption`):

| Theorem | States |
|---|---|
| `LifecycleTypeCorrect` | `Spec => []TypeOK` |
| `SchemaBeforeService` | `Spec => []ServesOnSchema` |
| `GracefulStop` | `Spec => StopFinishesWork` |

`SchemaInv` strengthens `ServesOnSchema` to the whole start-up: a replica past the
migrations has seen the record, which nothing takes back, and the gRPC server
runs only past them.
`DrainInv` carries `GracefulStop`: while HTTP drains, each request is at least as
old as the signal, so at the end of the grace period it has the age at which the
TimeoutLayer ends it.

`ApolloUpdaterProofs` proves, for any payloads, any interval and timeout above 0
and any number of changes and faults (`UpdaterAssumption`):

| Theorem | States |
|---|---|
| `UpdaterTypeCorrect` | `Spec => []TypeOK` |
| `ReadersSeeWholeUpdates` | `Spec => []NoTornSettings` |
| `UpdaterImplementsStore` | `Spec => AtomicSettings` |
| `UpdatesInOrder` | `Spec => NewestWins` |
| `SettingsInForce` | `Spec => []Freshness` |

The inductive invariant `Inv` has these parts:

* `DueInv`: during a fetch, the time to the next deadline and the age of the
  fetch add up to at most an interval. `TypeOK` needs it (how overdue a deadline
  can be), and so does `Freshness`.
* `LockInv` and `PartInv`: nothing is half-merged while the lock is free, and
  what is half-merged is exactly the fields before the next one. From them the
  last assignment equals `Merge` at once (`MergeWhole`), which is the step of the
  refinement.
* `ReplyInv` and `VersionInv`: one response at most, never older than what was
  merged, and if it has the served version it is what is served.
* `AppliedInv` and `TimeInv`: what was merged last is in force; settings that are
  not in force have been served no longer than until the next fetch, or, when a
  fetch was answered before they changed, less than that fetch. The case that
  decides: such a stale payload is merged at an age of at most `Timeout`, and by
  `DueInv` the next fetch is then due within what is left of the interval.

`RateLimiterProofs` proves, for any finite set of replicas, any tenants, requests
and restarts, and any partial limits within `MaxLimit` and `MinWindow`
(`LimiterAssumption`):

| Theorem | States |
|---|---|
| `LimiterTypeCorrect` | `Spec => []TypeOK` |
| `RetryLetsThrough` | `Spec => []RetryAfterHonoured` |
| `AdmissionsBounded` | `Spec => []AdmissionBound` |

The inductive invariant `Inv` has these parts:

* `LimitInv`: every copy of the limits, in a configuration or with a waiting
  request, is within `MaxLimit` and `MinWindow`. A request decides with its copy,
  which may be older than the configuration.
* `CounterInv`: a window began in the past, and what a tenant was told is at
  least one of its windows after that beginning. So the window is over when the
  tenant comes back, and its count restarts: `RetryLetsThrough`.
* `LifeInv`: each restart numbers one process.
* `AdmissionInv`: an admission belongs to the window its counter has now, or to
  one that was over when this one began, or to a process that was gone by then
  (`Current`); two admissions of a tenant at a replica differ in their place if
  they share a window, and otherwise the window of one was over, and the
  admission made, when the other's began (`Apart`). A window of 0 seconds breaks
  this (every request opens a window), so it is stated for `MinWindow > 0`; a
  span of no length is empty, which needs `TimeInv` only.

`AdmissionBound` follows by counting. Every admission in the span gets a slot: its
place (at most `MaxLimit`) in a window that began before the span (one per
replica, as the next one began after it) or in the span (one per process: per
replica for those never restarted, per restart for the others). `SlotsDiffer`
shows that no two share a slot, so that there are no more admissions than slots
(`FS_Injection`), and `SlotCount` counts these.

`BackupCacheProofs` proves, for any finite set of backups, any tenants, requests
and settings, with or without faults and writes by the worker
(`CacheAssumption`):

| Theorem | States |
|---|---|
| `CacheTypeCorrect` | `Spec => []TypeOK` |
| `TenantsIsolated` | `Spec => []TenantIsolation` |
| `StalenessBounded` | `Spec => []BoundedStaleness` |
| `SequentialWritesInvalidate` | `Spec => []WritesInvalidate` if `Sequential` |

`Inv` says what is true of a request between its steps and of an entry of the
cache, where the values come from that an answer may hold:

* `RequestOK`: what a request has read belongs to its tenant (and, in
  `get_backup`, is the row asked for), was read after the request began, and the
  request is within its timeout. `TypeOK` needs that a request for one backup has
  an id.
* `EntryOK`: the entry of an id holds that row, the entry of a tenant only rows of
  that tenant; an entry expires no later than the SELECT of its rows plus the
  longest TTL plus one request timeout, since it was stored by a request that
  had read after it began and was not yet timed out, with a TTL in range.
* `tenant_id` never changes once a row exists (`OwnerKept`), so both survive the
  writes of others.

`WritesInvalidate` holds only if requests do not overlap (a reader may store what
a writer has just invalidated), Redis does not fail and the worker does not write
(run `cache_grpc`): that is `Sequential`. `FreshInv` says that every entry agrees
with the table except those whose DEL the writer still owes (`Dirty`), that what
a reader is about to store agrees, and that only unfiltered pages are stored. A
write to row `i` of tenant `t` can only concern the keys `i` and `t`, because by
`EntryOK` no other entry has that row. This theorem has no run of its own.

Only model-checked: liveness (`JobSettles`, `RunningResolves`, `ReplicasServe`,
`Converges`), which needs fairness and ENABLED. Every invariant, action property
and refinement of the passing runs is proved.

## Not modelled

* Authentication: stateless; a request of the models carries its tenant.
* Telemetry: logging.
* Entropy and its classification: floating point; its value decides nothing.
* `analyze_backup`: computes and answers, changes nothing.
* Parsing of the environment, error texts, headers, compression, CORS: no state.
* The pool's size and its acquire timeout.

Seen while reading, without a run:

* The updater's first fetch is immediate (`tokio::time::interval`) while
  `docs/apollo-config-updater.md:8` says it happens after the first interval; an
  interval of 0 panics in the updater task, whose comment (`fetch.rs:28`) says
  "does not panic".
* The worker's README has "Connect RabbitMQ (retry loop)"; `main` connects once
  and ends when that fails (`connect_fails`).
* An error of the gRPC server, its bind included, is only logged, after `main`
  may have logged that it listens.
* A broken RabbitMQ channel is never opened again: `enqueue_backup` fails until
  the process is restarted.
* The worker never reports a failure, so `report_result`'s `failed` branch is not
  reached; `enqueue_backup` answers 202 without a publisher confirm.

## Plan

1. Done: every module with its runs, and the proofs of all safety properties of
   the passing runs.
2. Proofs that could be added: enabledness-free parts of the liveness argument
   (which steps bring a job nearer to its settlement) as action properties.
3. Not planned: operators for `validate_source_path` and the entropy
   classification, which are straight-line code that unit tests cover.
