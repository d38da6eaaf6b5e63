# Verification of Lasagna, multi-tenancy for AdonisJS

TLA+ models of the parts of `src/` whose correctness depends on order, failure and
concurrency, the TLC runs that check them, and the theorems TLAPS proves about them.
Paths below are relative to `src/src/` unless they start with `docs/` or `tests/`.

    tlc -workers 2 -config lifecycle.cfg MCTenantLifecycle.tla    # one run
    tlapm TenantLifecycleProofs.tla                               # one proof module

## The system: inventory

| Component | State | Operations | Interacts with | What is hard |
|---|---|---|---|---|
| Webhook ledger (`controllers/stripe_webhook_controller.ts`, `jobs/process_stripe_event_job.ts`, `commands/billing_replay.ts`, `jobs/billing_cleanup_job.ts`) | rows of `stripe_processed_events` | deliver, dispatch, execute, fail, replay, prune | Stripe, the queue, the dispatcher | duplicates, stale rows, retries, crashes, lost dispatches |
| Webhook intake (`middleware/verify_stripe_webhook_middleware.ts`, `services/billing/redact.ts`) | the stored payload | verify, store, fetch or rebuild | Stripe, the ledger | an event that Stripe has forgotten |
| Billing commands (`commands/billing_sync.ts`, `billing_backfill.ts`, `listeners/tenant_destroy_billing_listener.ts`) | none of their own | list, repair, assign, cancel, unmap | mirror, plans, Stripe | a listing that is old when it is used |
| Subscription mirror (`services/billing_service.ts`, `services/billing/stripe_event_dispatcher.ts`) | `stripe_subscriptions`, `stripe_customers` | one handler per Stripe event, sync, backfill | ledger, plans | events out of order, two writes per handler |
| Plans and quotas (`services/quota_service.ts`) | `tenant_plans`, its cache, counters in Redis | assign, read, consume, track, snapshot | mirror, metering | stale cache, check and increment, expiry |
| Usage metering (`listeners/usage_auto_bridge_listener.ts`, `jobs/report_usage_batch_job.ts`) | batches in memory, `stripe_meter_events` | add, flush, report, retry | quotas, Stripe, the queue | double and lost reports |
| Tenant lifecycle (`commands/*_tenant.ts`, `jobs/*install_tenant.ts`, `commands/tenant_purge_expired.ts`, `admin/admin_controller.ts`) | row of the tenant, its schema or database | create, provision, suspend, activate, destroy, restore, purge | drivers, hooks, the queue | no lock on the row, retries, drops that come late |
| Clone (`services/clone_service.ts`, `jobs/clone_tenant.ts`, `commands/tenant_clone.ts`) | row and schema of the destination | provision, migrate, copy, activate, undo | lifecycle, drivers | retry after success, source going away |
| Isolation drivers (`services/isolation/*`) | pool of tenant connections | provision, destroy, connect, disconnect, evict | every request | eviction of a connection in use |
| Tenancy scope (`tenancy.ts`, `services/bootstrapper_registry.ts`, `services/bootstrappers/*`) | async-local context, list of bootstrappers | run, enter, leave | every request and job | nesting, an enter that fails, a list that changes |
| Hooks (`services/hook_registry.ts`) | registered hooks | run before, run after | lifecycle, clone, backup | before-hooks abort, after-hooks only log |
| Outgoing webhooks (`services/webhook_service.ts`) | `tenant_webhook_deliveries` | dispatch, retry | HTTP receivers | two retriers, a crash in mid-delivery |
| Backups (`services/backup_service.ts`, `backup_retention_service.ts`) | archives, their list in Redis and in `backup.json` | back up, restore, prune | pg_dump, S3 | lost update of the list |
| Impersonation (`services/impersonation_service.ts`) | sessions in the cache | start, verify, stop | requests | revocation against a concurrent verify |
| Circuit breaker, resilience (`services/circuit_breaker_service.ts`) | breaker per tenant and process, copy in Redis | call, open, half-open, close, reset | database calls | state restored over a newer one |
| Rate limit, replicas (`middleware/rate_limit_middleware.ts`, `services/read_replica_service.ts`) | sorted set per key, cursor | admit, pick | requests | ties, wrap-around |
| Request path (`extensions/request.ts`, `services/resolvers/*`, `middleware/*`) | none between requests | resolve, guard | lifecycle | what is served in which state |
| SQL import (`services/sql_import_service.ts`, `utils/sql_splitter.ts`) | parser state | split, import | drivers | quoting |
| Feature satellites (`services/sso_service.ts`, `cross_domain_redirect_service.ts`, `metrics_service.ts`, ...) | one row or one cache key each | read, write, one-time tokens, flush | requests | a token used twice, a flush that loses counts |
| Provider (`providers/multitenancy_provider.ts`) | container, registries, configuration | register, boot, start, shut down | everything | references kept from an earlier boot |
| Fleet commands (`commands/tenant_migrate*.ts`, `tenant_seed.ts`, `tenant_exec.ts`) | none of their own | one call per tenant of a list | drivers, hooks | a failure for one tenant, a list that is old |
| Doctor (`services/doctor/*`) | probe connections | check, fix, watch | all | tenants that change under a run |
| Admin, health | none of their own | report | all | none |

What makes each component correct:

- **Ledger.** An event that Stripe has been told is received is never lost; it settles;
  a failure is announced; a completed event stays completed; a replay works on any event.
- **Mirror and plan.** Once all events are processed, the mirror shows each subscription as
  Stripe has it and the enforced plan is the mirror's, whatever the order and the errors; a
  cancellation is final.
- **Lifecycle.** A tenant that is served has its storage; only the storage of deleted
  tenants goes, and it does go; what is cloned is whole.
- **Quotas.** No more is consumed than the limit; an assigned plan is enforced soon.
- **Metering.** Each unit of usage is reported once.
- **Connections and scope.** A request works on its own tenant's open connection; each
  enter has its leave, in reverse order, also when an enter fails.
- **Outgoing webhooks.** Each event is sent at least once until it succeeds or is given up.
- **Backups.** Retention keeps the newest archives of the tier, whatever races over the list.
- **Impersonation, sign-on.** A revoked session ends everywhere; a state logs in once.
- **Intake, billing commands.** A handler gets what was signed; nothing is sold to a customer
  that the tenant's row does not name; a sync repairs the mirror.
- **Fleet, doctor, import.** What is reported is what was done, and what was found.
- **Process.** It serves with the parts of its own boot, and each helper for its tenant.
- **Breaker, rate limit.** A breaker closes again; a window admits its limit.

## What is modelled

| Module | Code it stands for | Run |
|---|---|---|
| `WebhookLedger` | `controllers/stripe_webhook_controller.ts`, `jobs/process_stripe_event_job.ts`, `jobs/billing_cleanup_job.ts`, `commands/billing_replay.ts` | `ledger_race`, `ledger_one_worker` |
| `EventLifecycle` | nothing: what the ledger promises of one event | `ledger_one_worker` |
| `StripeIntake` | `middleware/verify_stripe_webhook_middleware.ts`, `services/billing/redact.ts`, `stripe_ip_allowlist.ts`, `exceptions/billing_exception.ts`, `BillingService.verify` | `safety` |
| `SubscriptionSync` | `syncSubscription`, the checkout and payment handlers, `assignPlan` | `safety`, `progress` |
| `BillingReconcile` | `ensureCustomer` and the sessions, `commands/billing_sync.ts`, `billing_backfill.ts`, `listeners/tenant_destroy_billing_listener.ts` | `safety` |
| `UsageMetering` | the listener's buckets, `ReportUsageBatchJob`, `reportUsage` | `usage` |
| `PlanQuotas` | `services/quota_service.ts`, its cache, `middleware/enforce_quota_middleware.ts` | `safety`, `progress` |
| `TenantLifecycle` | create, install, uninstall, destroy, purge, suspend, activate, restore, clone | `lifecycle` |
| `FleetCommands` | `commands/tenant_migrate.ts`, `tenant_migrate_rollback.ts`, `tenant_migrate_fresh.ts`, `tenant_seed.ts`, `tenant_exec.ts` and the migration hooks | `safety`, `progress` |
| `TenantConnections` | `connect` and `disconnect` of the PostgreSQL drivers, with eviction | `safety` (in `RequestPath`) |
| `RequestPath` | `extensions/request.ts`, `services/resolvers/*`, the middlewares of the three groups, `models/adapters/tenant_adapter.ts` | `safety` |
| `TenancyScope` | `tenancy.ts`, `services/bootstrapper_registry.ts`, `models/scoping.ts` | `safety` |
| `ProcessBoot` | `providers/multitenancy_provider.ts`, the driver registry, the bootstrappers' helpers | `safety` |
| `WebhookDelivery` | `services/webhook_service.ts`, `commands/tenant_webhooks_retry.ts`, the admin's retry | `safety`, `progress` |
| `Impersonation` | `services/impersonation_service.ts` | `progress`, `safety` |
| `SsoLogin` | `services/sso_service.ts`, `admin/controllers/sso_controller.ts` | `safety` |
| `Backups` | `services/backup_service.ts`, `backup_retention_service.ts` | `safety` |
| `SqlImport` | `utils/sql_splitter.ts`, `services/sql_import_service.ts`, `commands/import_tenant_sql.ts` | `safety` |
| `CircuitBreaker` | `services/circuit_breaker_service.ts` | `progress`, `safety` |
| `RateLimit` | `middleware/rate_limit_middleware.ts` | `safety`, `rate_limit_errors` |
| `Doctor` | `services/doctor/*` and its command | `safety` |
| `ComponentProofs` | theorems about `StripeIntake`, `SubscriptionSync`, `BillingReconcile`, `SsoLogin`, `TenancyScope`, `ProcessBoot`, `FleetCommands`, `RateLimit`, `Backups`, `SqlImport` and `Doctor` | |
| `SafetyProofs` | the type invariants of the components, and `MCSafety` as a whole | |
| the other `*Proofs` | theorems about the module they are named after | |
| `MC*` | instances for TLC | |

Operators marked "(a mutant)" or "mutant:" are plausible bugs of the definition they stand
beside; the project substitutes each for its definition to see that a property notices. They
are part of no specification.

`RequestPath` EXTENDS `TenantConnections`: the queries of a request open, use and evict the
connections of its process. `MCSafety` and `MCProgress` do not compose: they choose one
component in the initial state (`part`) and run it alone, so that one run checks what many
components promise; their state space is the sum of the components'. `MCSafety` EXTENDS fourteen
of the components, each with names of its own, so that the properties it checks are the very
definitions the theorems state: a component that does not have its turn rests in one of its
initial states. The other two, `Impersonation` and `CircuitBreaker`, and all six of `MCProgress`, are instances with their
variables mapped to `v1`, `v2`, ... in the order of their module, whose properties read
`part = "..." => ...`. Assumptions on constants are operators (`QuotaAssumption`, ...) in the
modules so used; the two modules assert them with ASSUME for each instance (`SafetyAssumption` in
`MCSafety`).

### WebhookLedger

State: `ledger` is the table (status, and whether `attempts` is above 0), `req` the webhook
requests in flight, `job` the instances of `ProcessStripeEventJob` queued or running,
`replay` the replay command per event, `doomed` the ids a cleanup batch has selected.
`acked`, `stranded` and `announced` are history: what Stripe has its 200 for, whose replay
dispatch or `failed()` hook was lost, and what has been dead-lettered since the last replay.

Every `await` of the job is an action, because another job of the same event can run
there: `Skip`/`Start` (find), `Bump` (attempts, save), `HandlerSucceeds`,
`HandlerFatal`, `HandlerRetryable` (retrieve and dispatch), `Complete`, `CompleteFails` and
`Mark` (the save that fails and is repeated by `#markFailed`), `Fatal`
(`#shortCircuitIfFatal`), `Exhausted`, `GiveUp`, `DeadLetter`, `HookFails` (`failed()`).
`SaveStatus` is what an ORM save does: it writes the columns that differ from the row as it
was *read*, so that a save of the status the row had when read writes nothing.
The queue is external: it grants `MaxAttempts` executions, hands the job of a dead worker
out again, and calls `failed()` after the last one.

- `AckedPendingIsOwned` (proved, and checked): after the 200, a pending row has a job or a
  replay that will work on it, unless it is `stranded`.
- `FailedIsAnnounced` (proved, and checked): a failed row has been dead-lettered, will be, or is stranded.
- `AckedSettles` (liveness): an acknowledged event ends up completed, failed or pruned.
- `ImplementsLifecycle` (proved, and checked): with one job at a time, the ledger implements
  `EventLifecycle` under the refinement mapping at the end of the module.
- `CompletedIsFinal`: a completed event is never marked failed. Two workers violate it.

### SubscriptionSync

State: Stripe's own subscriptions (`truth`) and the events it has `sent`; `mirrored` rows, the
`planRow`, whether the `customer` is mapped, and one record per handler in progress
(`worker`). A handler is split where another can write: it reads the mirror, assigns the
plan, saves the mirror. Statuses that the code treats as it treats `active` are left out.
Times are Stripe's seconds: `Gap` apart, `Tolerance` is the guard's five seconds.

- `RestsInSync` (proved, and checked): when every event is processed and none was of a payment,
  the mirror is what Stripe has and the enforced plan is the mirror's; `ComesInSync`
  (liveness): that point is reached and kept, unless an event has spent the attempts the queue
  grants it and nobody replays it (`Dead`). Nothing is assumed of the operator who could.
- `CanceledStaysCanceled`, `CanceledAtRest` (proved, and checked): a cancellation is final,
  also with failing and paid invoices and the dunning downgrade on the way.

Handlers of two different events of one subscription that run at once can leave the older
status: the later save wins, and no document excludes it. The instance `racing` therefore has
two handlers, for the checkout and the subscription's first event (and its replay).

### StripeIntake, BillingReconcile

`StripeIntake` follows one event from the boot of the process to its handler. An event is the
set of its plain fields and, per reference, the form it has (an id, the expanded object,
absent), because `ToReplayablePayload` (an allow-list) and `RebuildStripeEvent` must give
back what a handler reads from either form. `HandlesWhatWasSigned` (proved, and checked): a handler gets what a
signed, fresh, complete delivery said, also once Stripe has forgotten the event; nothing
personal is stored in the ledger or logged; only errors no retry repairs end a job early.

`BillingReconcile` has the writers of a tenant's billing state other than the webhook jobs:
two requests in `ensureCustomer`, `tenant:billing:sync` (list, find, repair, orphans), the
backfill, and the listener under a destruction with each policy. Stripe answers the idempotency
key of `ensureCustomer` with the customer it made under it until it forgets the key, after about
a day; an insert fails on the row of another call or for any other reason, after which the row is
read again. So Stripe may come to have a second customer. `OneCustomer` (proved, and checked): no
session is opened for it and no subscription is its own: they are of a customer that the
tenant's row names, or named until it was deleted. `SyncRepairs`
(proved, and checked): a sync that nothing overlapped leaves the mirror with Stripe's statuses.
A sync that a webhook does overlap may not: see the observations.

### TenantLifecycle

State: `row` (status, `deleted_at` as not set, recent or expired, whether it is a clone, of the
rows or with `--schema-only`), `store` (no schema, empty, migrated, copied, or copied but for the
tables that the destination lacks), `source` (clones whose source still exists),
`proc` (commands, requests and jobs in progress, with the status their model of the tenant
was loaded with), `excused` (tenants an operator has put at risk).
One action per call that changes the row or the schema; `StepFails`, `Fail` and `Cleanup`
are the `catch` blocks, `Fails` every other failure including a dead worker.
A tenant is `excused` from a promise once an operator activates or restores it while its
storage is missing or being worked on, or the application queues `UninstallTenant`, which
drops before it soft-deletes.

- `ServedIsStored` (proved, and checked): a tenant that the guard lets through (active, not
  deleted) has its storage.
- `CloneIsWhole` (proved, and checked): a clone of the rows is served with those of every table
  it shares with its source, never with some of them or with some twice; a clone of the schema
  alone with its tables and no rows.
- `DeletedLosesStorage` (liveness): no deleted tenant keeps its storage for ever.
- `PurgesExpiredOnly`, `ServedCloneIsKept`: violated (see below).

### UsageMetering

State: `bucket` and `sending` (the listener's memory, per server), `job` (one per flushed
bucket), `row` with `order` (`stripe_meter_events` by key and by creation), `meter` (what
Stripe has counted under each key), `minute`, `tenant` (has a customer, has none, is gone).
A quantity is the set of the uses in it, so that a use can be followed; the idempotency key
is the minute, since tenants and meters share nothing. One action per await: the flush takes
its bucket before it awaits the dispatch, `Lookup`, `Insert`, the call to Stripe and the
saves are steps of their own, and so are the query and the save of `failed()`. Stripe
remembers a key: a repeated one is absorbed, or refused for other parameters
(`idempotency_conflict`); the code meets both.

- `UseIsInOnePlace` (proved, and checked): flushing and dispatching neither forget nor double a use.
- `CountedIsAudited` (proved, and checked): Stripe counts nothing that has no audit row.
- `SentIsCounted` (proved, and checked): a row says sent, and a job ends well, only when Stripe has counted a batch
  under the key. It need not be this batch: two batches of one minute share the key, the
  second ends as done and is not counted, and with the default flush of ten seconds that is
  five batches of six on a busy meter. The job's comment (59-62) has it so. The row can also
  carry the quantity of one batch while Stripe has counted the other's: the first to insert
  fails at Stripe, the second takes its row over.
- `UsageSettles` (liveness): no use stays in memory or in the queue.
- `CountedOnce`: violated (see below).

### PlanQuotas

State: the `row` of `tenant_plans`, the memory layer per server, the Redis layer, the `bus`
between them, the memoised storage mode, calls in progress, the `counter`. A read (`LooksUp`,
`FactoryReads`, `FactoryStores`) is split where a write can come between; a write saves the
row, then busts the cache, which may fail. `consume` is one script in Redis (`Grants`,
`Refuses`), `track` only adds (`Increments`), an unavailable Redis degrades.
`GrantsWithinLimit` (proved, and checked): a day's grants never exceed the largest limit one
of them was granted under. `OutdatedPlanLeaves` (liveness): a plan that was replaced leaves
every cache, also when a read stored it after the write had dropped the key.

### FleetCommands

State: per tenant `status` and `store`; per process the `run` of a command, with the list it
read at the start, its flags, what it did (`worked`) and announced (`told`). `Step` is one
call for one tenant: connect, before-hook, drop, create, migrate, event, seed, exec. Commands
run against destructions, and (instance `commands`) against each other. `ReportIsTrue` (proved,
and checked): each tenant listed is counted once, as a success only when every call for it went through; it is
announced as migrated only when it was; exit codes that tell of failures tell of these.
`DeletedStoreGoes` (liveness): the storage of a deleted tenant goes, though a refresh that
had listed it creates it again.

### TenantConnections, RequestPath

State of the first: the connections Lucid's manager has, the driver's `lru`, releases under way
and releases that failed. `OpenIsKnown` (proved, and checked): an open connection is in the order from which it can
be evicted, or on its way out, or its release has failed.
`RequestPath` follows a request: the custom domain, the chain of resolvers, the guards of the
tenant, universal and central groups, and a query, for which the adapter resolves the tenant a
second time with the synchronous code (`LegacyId`). `resolverChain` and `resolverStrategy` are
independent settings, and the keys of a header or of the request's data may be the host's own
(`ownKeys`); the synchronous code knows the strategy alone, and no ignored path. Tenants, circuits
and connections change while the request waits. `ServesItsTenant` (proved, and checked): a request
let in as one tenant's never queries another's connection, and on a tenant route its tenant was in
service at some moment since it arrived. The first half excepts one case, in which the code does
query another's: `tenancy.run()` was never called in the process, so that the adapter cannot ask
`tenancy.currentId`, and the resolver that answered was not the strategy's, or read other data
than `tenant_id` (`StrategyAnswers` is the condition).

### TenancyScope, ProcessBoot

`TenancyScope` has the stack of frames of a task, the registry's `order` (one list for the
process, read again after each await), and rows under row scoping. `LeavesWhatItEntered`
(proved, and checked): what a scope has entered it leaves, last first, whether the callback or an enter failed and
whatever was registered meanwhile. The hook before a create fills `tenant_id` in only where the
application left it open, and those before an update or a delete see only the instance, which may
have been read without the column, given another tenant, or be older than the row; the row is
written by its primary key. `RowsKeepToTheirScope` (proved, and checked): a row is written from
the scope of its own tenant, also by an instance carried from one scope into another; what is
excepted are creates that name a tenant and instances that do not have what is in the row.
`ProcessBoot` boots, serves, shuts down and boots again; modules keep references to a
container's services between boots, and `shutdown()` clears those to the driver and the log
context but not the one to the registry of resolvers (`extensions/request.ts:29-39`).
`ServesOnItsOwnBoot` (proved, and checked): a process that serves uses the registries and the
configuration of its own boot - the resolvers unless an earlier boot of the process has served a
request - and helpers reach the key of the tenant they are for.

### WebhookDelivery

State: the webhook, the rows of `tenant_webhook_deliveries`, which are `due`, and per worker
the rows of its list and those it is sending, as it read them. `Saves` writes the columns it
changed. A worker may die between any two awaits. `OutcomeIsTrue` (proved, and checked):
success only of what the receiver answered with 2xx, failed only after every attempt of the
schedule, whatever old copies are saved. `RetriesEnd` (liveness).

### Impersonation, SsoLogin

`Impersonation` is one session in the two layers of the cache; `verify` marks a first use by
writing it back, which can cross a revocation. `RevokedEnds` (liveness) is what holds: it ends
everywhere, at the latest when its time is over.
`SsoLogin` has states in Redis, callbacks that come twice, late or with another login's code,
and configurations that change between. `OneLoginPerState` (proved, and checked): a state
logs in at most once (GETDEL), and in its own tenant.

### Backups, SqlImport

`Backups`: the archives on disk and in S3, and the list in Redis and in `backup.json`, which
every process loads, changes and writes back. `NewestAreKept` (proved, and checked): whatever sweeps race with
backups and whatever of the lists is lost, the `keepLast` newest archives stay.
`SqlImport`: the name of the dump's schema is replaced in the text (`RewriteSchema`), in literals
and COPY rows too. The scanner is a fold over the characters that come of it, compared with
`Meaning`, which says what a dump of given lexemes means to the database; then the transaction
with a savepoint per statement, or psql. Among the lexemes are those the scanner misreads
(`Misread`: a quote escaped in E'', quoted identifiers, a comment in a comment, a COPY header in a
literal, lines that end in CRLF). `SplitsWhatIsSaid`: of every dump without these the splitter
makes the statements and the COPY blocks it says; TLC evaluates it as an assumption of the run, on
every dump of the bound. `AppliesTheDump` (proved from it, and checked): whatever the scanner makes
of a dump, a reported import has applied, in order, all of it that is not skipped or refused, and
its counts account for each piece; where the scanner understands the dump, the pieces are the
dump's statements. What the database says of pieces cut in the wrong place is left open.

### CircuitBreaker, RateLimit, Doctor

`CircuitBreaker`: each process's breaker, the state it has still to write, what a new one has
read, and the one `key` in Redis. `ClosesAgain` (liveness): once the database answers for good
no breaker stays open, whatever stale state it was restored from.
`RateLimit`: the four commands of the pipeline one by one, between those of other clients, and
their errors. Each request reads the clock of its own process, which may be up to `Skew` ticks
ahead of the slowest. `AdmitsWithinLimit` (proved, and checked): the requests whose commands ran in
the tick they read, and that are let through, fall into at most `Limit` ticks of any `Window` less
the `Skew`: a process that is ahead drops the oldest entries so much too early. `FailsClosed` is violated (below).
`Doctor`: the list of tenants, ten checks one after the other, queries that fail (of which one
check says nothing), fixes, `--watch`, the exit code;
two runs share probe connections. `ReportsWhatStays` (proved, and checked): what was wrong when
the list was read and until the end is in the report, unless the report says that the check could
not look. `steady` holds what has been wrong ever since; the proof of what a run owes to it is by
the position of the run in the list of checks.

## The runs

| Run | Instance | Shows |
|---|---|---|
| `ledger_race` | 1 event, 2 requests, 2 jobs on 2 workers, 2 attempts, 2 deliveries, 1 replay, 2 faults | types, the three promises of the ledger |
| `ledger_one_worker` | 2 events, 1 request, 2 jobs on 1 worker, 1 fault | implements `EventLifecycle` |
| `ledger_stale_fatal` | as `ledger_race`, no replay, 1 fault | `CompletedIsFinal` fails |
| `subscription_revived` | 3 events 1 s apart, tolerance 5 s | `CanceledStaysCanceled` fails |
| `lifecycle` | 1 tenant, 2 operations at a time, 4 requests, 2 attempts, 2 faults | types, storage, clones, retention |
| `usage` | 2 servers, 2 uses, 2 minutes, 2 workers, 2 attempts, 2 faults | types, no use lost or doubled on the way, audit before count, batches end |
| `usage_twice` | 1 server, 1 use, 2 minutes, 1 fault | `CountedOnce` fails |
| `lifecycle_purge` | 3 requests, no fault | `PurgesExpiredOnly` fails |
| `lifecycle_clone` | 1 request, 1 fault | `ServedCloneIsKept` fails |
| `rate_limit_errors` | 2 requests, limit 1, 1 fault | `FailsClosed` fails |
| `safety` | 16 components in 23 parts, below | 19 safety properties and the types of all |
| `progress` | 6 components, each with a fault (`mirror`: 2 attempts, 1 replay, 2 changes) | one liveness property each |

The instances of `safety` (MCSafety has the constants):

| `part` | Instance |
|---|---|
| `quotas` | 2 calls on 1 server, limits 1 and none, 2 writes, 1 fault |
| `webhooks` | 1 delivery, 2 workers, 3 attempts, 1 retry by hand, 1 crash |
| `acting` | 2 servers, 2 calls: for its types; `progress` adds faults |
| `fleet`, `commands` | 2 tenants and 1 command; 1 tenant and 2 commands; 1 fault, 1 destruction |
| `breakers` | 1 process, 1 exit, 1 reset, 1 outage, 1 fault |
| `mirror`, `invoiced`, `racing` | 1 subscription, 2 attempts: 1 worker, 3 products, one of them past due at times, 1 replay or 1 fault; 1 worker, 1 product, with payments and the downgrade, 1 replay, 1 fault; 2 workers on the checkout and the first event, 1 replay, 1 fault |
| `reconcile`, `customers` | 1 subscription, the three policies, 2 changes, 1 fault: 1 request for a session beside the sync, the backfill and the listener; 2 requests, a key that is forgotten, 2 customers, and the listener |
| `intake` | every form of an event, one thing out of order at a time, 2 tries |
| `scope`, `rows` | 1 task, 2 tenants (one with an unsafe id), 2 bootstrappers in every order, depth 3, 1 change; 2 tasks on 1 row, one of them outside every scope and writing by queries |
| `path`, `chains` | 2 tenants, 1 connection in the pool: subdomain or path alone, with each mode of the custom domain, 1 change of the world; chains of up to 2 of 4 resolvers beside 3 strategies, with default keys and others, ignored paths, hosts of several labels, no change |
| `sso` | 2 tenants, 2 states, 2 issuers, 2 callbacks, 1 edit |
| `archives` | 2 processes, 3 archives, a list of 2, keepLast 1, S3, 1 fault |
| `imports` | dumps of up to 3 of 16 lexemes, five of them misread; those of 3 for an active tenant, and a misread one applied in the usual way |
| `process` | 2 boots, 2 tenants, 2 drivers, 2 optional peers, 1 write |
| `checkup`, `probing` | 2 tenants, the first in any state at the start, and 3 checks, 1 fact, 1 change, 1 fault; 2 runs that share a replica's probe |
| `limiter` | 3 requests, limit 1, window 3, clocks 1 apart, 3 ticks |

Bounds. Events, and tenants, do not share state (each has its own row; the one exception,
a cleanup batch and the workers' slots, is why `ledger_one_worker` has two events), so one
of them with two actors on it has every interleaving of two actors. Two attempts are the
least with which a job is both retried and given up. Two faults allow a second failure in
the handling of the first. Four requests allow create, destroy, restore and one more; three
products allow a change between mapped products and to an unmapped one. Two uses are two
batches of one key, or one batch that grows while another is dispatched; two minutes are a
retry under the same key and one under the next.
In `safety` and `progress`, two actors on one tenant, key, row or session again stand for any
number that interleave: none of these components relates three of them. One fault is
allowed where the code handles one failure at a time; the pool holds one connection so that a
second tenant evicts; a limit of one is passed by two. `Listed` is 2 where the code keeps 30
entries, so that an archive does fall out; three lexemes hold an opening, a content and a
closing, or two statements and what parts them. `MaxStripeClock` 6 is three changes at Stripe at a
`Gap` of 2. A window of 3 less a skew of 1 is two ticks, the least in which one can be too many.
The run `safety` has `Strict = TRUE` (`rowScopeMode`); the theorems hold of both modes.
`CHECK_DEADLOCK FALSE` is said of the metering runs: with the uses and minutes of the bounds
used up and the tenant gone nothing is left to do. It is said of `safety`, `progress` and
`rate_limit_errors` because each component does come to its end within the bounds: the import
has reported, the command has exited, every request is answered.
No symmetry is used: the sets are too small to need it.

Fairness. `WebhookLedger`: requests, jobs and replays go on once begun (a server or worker
that dies is a fault, after which the queue redelivers), Stripe redelivers what it has no
200 for. `UsageMetering`: timers fire, dispatches return, a job that again and again finds a
free worker is taken, and goes on. `TenantLifecycle`: operations go on, time passes, and the
purge runs from cron. `progress`: for each component a list of steps (`QuotaStep` to
`MirrorStep`) that come when they stay possible - calls, handlers and commands go on, keys and
sessions expire, the bus delivers, timers fire, `tenant:webhooks:retry` and
`tenant:purge-expired` run from cron, a breaker goes on being asked, a free worker takes some open
event of Stripe's while one has attempts left; all of it weak fairness. Since `part` never changes, WF of the i-th steps together is WF of each
component's i-th step. No fairness is assumed of operators, of faults, or of any particular
order of jobs.

## Where code and documents disagree

1. `ledger_stale_fatal`: `process_stripe_event_job.ts:158` saves `failed` over the
   completion of another job of the same event, where the controller's comment (88-91) calls
   the second dispatch safe.
2. `subscription_revived`: within the five seconds of `billing_service.ts:353` an older
   update takes a canceled mirror back to the status it carries (active or past_due), where the
   comment at 315-318 says of the guard that without it a stale update "would revive a canceled
   subscription".
3. `usage_twice`: the key of a report is the minute in which the job runs
   (`report_usage_batch_job.ts:63`), so a retry in the next minute of what Stripe has counted
   is counted again; the job's comment (23-24) calls double reports impossible.
4. `lifecycle_purge`: `tenant:purge-expired` drops the storage of a tenant restored after
   the list was made.
5. `lifecycle_clone`: a `CloneTenant` job retried after the clone went into service marks it
   failed and drops it.

6. `rate_limit_errors`: an ioredis pipeline resolves although Redis has refused its commands,
   and `rate_limit_middleware.ts:77` takes a missing count for 0, so that the request is let
   through uncounted; lines 18-22 say that the default is to fail closed.

### Read in the code, with no run

The models follow the code here too; where a property would fail, its statement excepts the
case.

- Billing. After a dunning downgrade nothing in `handlePaymentSucceeded` restores the plan,
  which `docs/docs/satellites/billing.md:94` promises. A later stamp that the sync gives a row
  makes the guard drop a newer event. The backfill overwrites a plan assigned meanwhile.
  Deletion events after `customer.delete()` become dead letters (line 266 of the same document
  has the policy). A checkout that is repeated after its insert has failed and Stripe has forgotten
  the key (a day) makes a second customer, which stays at Stripe unused. `row.raw = sub` stores Stripe's whole subscription, where the controller
  says that nothing personal reaches the backoffice.
- Jobs. `docs/docs/jobs.md:19-20` says that migrations run during provisioning and that
  `tenant:destroy` triggers `UninstallTenant`, where the command calls the driver itself and
  leaves the tenant's queue in place.
- Fleet. `tenant:migrate` and the rollback exit 0 with failures. A refresh whose list holds a
  tenant that is destroyed meanwhile creates its schema again; only the purge removes it.
- Backups. A failed unlink or S3 delete is swallowed and the entry dropped, where
  `backup_retention_service.ts:95` says that the next run retries. An archive that falls out
  of the list of 30, or is lost in a race of two writers, is never deleted. A cut download
  leaves a file (`backup_service.ts:235`) that passes for the archive.
- Clones. A table that the destination lacks is skipped with a warning in the log, `tablesCopied` counts
  it all the same, and the clone is put in service (`clone_service.ts:114-143`). Access tokens that
  cannot be deleted from the copy are only logged (205).
- Request path. The adapter of a process in which `tenancy.run()` was never called resolves the
  tenant by `resolverStrategy` alone (`extensions/request.ts:51-82`), where
  `docs/docs/configuration.md:43` says that `resolverChain` overrides it and lines 44-47 make the
  keys of a header and of the request's data configurable: it can query another tenant, or none. For
  a strategy by domain it takes the first label of any host.
- Rows. `models/scoping.ts:153` keeps a `tenant_id` that a create names, as
  `tests/unit/models/scoping.spec.ts:143-154` asserts; the hook of an update compares the attribute of the
  instance, so that one read without the column, or changed in the table since, passes.
- Process. `shutdown()` clears two module caches but not `cachedResolverRegistry`
  (`extensions/request.ts:29-39`): a second container in the process answers with the resolvers of the
  first.
- SQL import. `#rewriteSchema` (`sql_import_service.ts:330-338`) replaces the schema's name with its
  dot anywhere in the file, in literals and in COPY rows too, so that data changes. The scanner takes
  the quote of E'\'' for the end of the literal, knows neither quoted identifiers nor comments in
  comments, takes a line `COPY ... FROM stdin;` for a header also inside a literal, and does not see
  the end of a COPY block whose lines end in CRLF. psql prefixes errors with its file and line, so that the filter at
  `sql_import_service.ts:231` matches none; statements counted as skipped are handed to psql;
  `tenant:import` exits 0 when the import throws; `/*/` closes a comment at once.
- Impersonation. A first use that crosses a revocation writes the session back, and it is in
  force until it expires.
- Circuit breaker. No code under `src/src/` calls `getCircuit`; `jobs/uninstall_tenant.ts`
  destroys on a service of its own.
- Rate limit. Requests of one millisecond are one member; the clock is read before the
  pipeline, so a late one may pass the limit; and it is that of the process, so that a process whose
  clock is ahead trims what the window of another still holds.
- Connections. The pool passes its cap while releases are under way; replica connections are
  neither closed by `disconnect` nor counted.
- Scope. A disk or a mailer kept across scopes keeps its first tenant, as it is meant to; a
  session helper follows the current one.
- Doctor. `provisioning_stalled --fix` saves `failed` over a row that became active meanwhile;
  a check that throws is not counted, and the exit code is 0; `long_running_queries` returns an empty
  list where it has no connection to look through (33-38), so that such queries are not reported; `schema_orphan` is reported for
  deleted tenants within their retention.
- Metrics. A late flush can overwrite a row with less when a key has expired;
  `metrics_collector.ts` makes a queue service of its own, which knows no queue.

## What is proved

For every value of the constants, from the assumptions on them stated in the modules
(`LedgerAssumption`, `LifecycleAssumption`, `UsageAssumption`, `PathAssumption`; and, as hypotheses of their
theorems, `QuotaAssumption`, `SsoAssumption`, `DeliveryAssumption`, `IntakeAssumption`,
`SyncAssumption`, `ReconcileAssumption`, `ScopeAssumption`, `RateAssumption`,
`BackupAssumption`, `DoctorAssumption`, and `BootAssumption` and `FleetAssumption` for the types
of processes and commands; what `OpenIsKnown`, `ServesOnItsOwnBoot`,
`ReportIsTrue`, `OneCustomer` and `LeavesWhatItEntered` say needs none). They say that bounds are
numbers, that sets which are counted are finite, and the like. What needs more names it: `HandledInTurn`, of the mirror, and `SplitsWhatIsSaid`, of imports.

Types. `LedgerTypes`, `LifecycleTypes`, `MeteringTypes`, `QuotaTypes`, `PathTypes`, `SsoTypes`,
`DeliveryTypes`, `DoctorTypes`, `ImportTypes`, `ReconcileTypes`, `ScopeTypes`, `BootTypes`,
`FleetTypes`, `RateTypes`, `BackupTypes`, `IntakeTypes`, `SyncTypes`: the type invariant of each
component. Most are inductive; these are not:

- `SyncTypes`, for any number of handlers at a time: a handler works on an event that was sent
  (`SentIsHandled`), so that no row gets a time Stripe never had.
- `BackupTypes`: a list names an archive once. An archive that is being saved is in no list yet,
  and one process saves it (`OnceSaved`), through loads, restores and the writes of the others.
- `ScopeTypes`: the position of a frame stays within the order although registering and
  unregistering moves it (`FramesBounded`), and the order names a bootstrapper once (`OrderIsShort`).
- `RateTypes`: a sorted set has no more scores than there are requests (`FewScores`).
- `ReconcileTypes`, `IntakeTypes`, `BootTypes` and `FleetTypes` build on the invariants of the
  properties below (`RepairInv`, `StagesOK`, `DriversOK`, ...).

The run `safety` as a whole (`SafetyProofs`)

- `ComponentsKeepToTheirSpecifications`: a behaviour of `MCSafety` is one of each component it
  EXTENDS, running alone or at rest in an initial state. This is what makes the run a check of
  the components, and what carries their theorems over.
- `ComponentTypes`: `TypeOK` of the run, including the instances `Acting` of `Impersonation` and
  `Breakers` of `CircuitBreaker`, which `MCSafety` has with mapped variables and which have no
  module of proofs of their own.
- `ComponentsAreSafe`: the sixteen safety invariants of the components it EXTENDS that hold of any
  number of handlers, together, of the run's specification.

The ledger (`WebhookLedgerProofs`)

- `NoAckedEventIsLost`: `AckedPendingIsOwned` is an invariant. By itself it is not
  inductive: a request about to answer 200 must already have handed the event over.
  `Handover` says that an event is *handed over* once its row is touched, it is acknowledged
  or a request is about to answer for it, and that a pending, handed-over row is owned
  (`PendingIsOwned`), nothing is handed over before the row exists (`NothingBeforeTheRow`),
  requests have rows (`RequestsHaveRows`), and the cleanup only holds expired rows
  (`DoomedAreExpired`). The proof shows that a step on a job keeps ownership of its event
  unless it settles the row, and that every other step leaves ownership alone.
- `GivenUpIsAnnounced`: `FailedIsAnnounced` is an invariant. What it lacks is that a job only
  works on with a row it read as unfinished (`ReadsUnfinished`): it can therefore not leave a
  failed row as it found it and end.
- `LedgerImplementsLifecycle`: under `Concurrency <= 1` and without replays of rows past their
  retention, `ImplementsLifecycle`: initial states map to initial states, and every step of a
  request, job, replay or cleanup to a step of `EventLifecycle` or a stutter (`StepRefines`). It
  stands on `Solo` (the one active job holds the row as it is, so that each save moves the row
  from the status it has) and `Retained` (what a cleanup batch has selected stays completed
  until it goes). `OneWorkerKeepsCompleted` is the case of a completed row. That one worker is
  needed is what `ledger_stale_fatal` shows.

Subscriptions and customers (`ComponentProofs`)

- `NoEventRevives`, `TheMirrorRestsInSync`, `CanceledAtStripeAndHere`: `CanceledStaysCanceled`,
  `RestsInSync` and `CanceledAtRest`, under `HandledInTurn`: at most one handler at a time, and
  events further apart than the guard's tolerance; the last two for a tenant with one
  subscription. `subscription_revived` shows that the tolerance matters, the remark above on two
  handlers that the other half does. `SyncInv`: events of one subscription have different
  times (`EventsOK`), the latest tells what Stripe has (`TruthOK`), a row is what one of them
  has made of it (`MirrorOK`) and not older than any that was handled (`DoneOK`), and a handler
  about to write has read the row as it is (`HandlerOK`). `PlansOK` adds the plan: it is the
  row's, or an event newer than the row is still to be handled.
- `StripeHasOneCustomer`: `OneCustomer`. Its invariant (`CustomersOK`) says nothing of the key, which
  Stripe may forget at any moment, nor of how many customers there are: a call that has some customer
  in hand goes on to a session only with the one its insert has put into the row, or with the one
  it finds there after its insert has failed (`NamedByRow`).
- `SyncRepairsTheMirror`: `SyncRepairs`. `NothingAhead`: no row, event or repair is ahead of
  Stripe, so that the stamp of a repair wins; `SyncKeepsUp`: undisturbed, the listing is still
  what Stripe has, and what the sync has passed is Stripe's unless it counts an error.
- `HandlersWorkWithWhatWasSigned`: `HandlesWhatWasSigned`; each stage has what those before it
  make sure of (`StagesOK`), and a lemma on the allow-list says that what is kept of an event
  leads its handler to the same work as the event.

Tenants and requests

- `ServedTenantsHaveStorage`: `ServedIsStored` is an invariant. `Custody` strengthens it: a
  tenant has at most one installer, the operation that created it (`OneInstaller`, with
  `TenantsExist`); a drop waits for the soft delete (`DropsTheDeleted`); what the installer
  has built is there until then (`BuiltIsStored`); and the installer's model knows of an
  active status (`ActiveIsSeen`), so that saving `failed` is never skipped as unchanged
  before the error path of a clone drops the schema. `StepKeepsCustody` reduces a step of one
  operation to what it owes to itself (`Sound`) and to the others on its tenant (`Fair`).
- `ServedClonesAreWhole`: `CloneIsWhole` is an invariant, on top of `Custody`. A clone that has
  got as far as a step has done the ones before it (`Stage`: a copy finds migrated tables, an
  activation finds what `Complete` asks of its kind), an active clone is whole while it is not deleted,
  whether served or suspended before, and nothing but the copy of a clone of rows fills a store with
  rows (`Whole`). `Heeds` is what a step of one operation owes to the
  clone of its tenant; that only its installer touches the storage comes from `OneInstaller`.
- `EveryRequestServesItsTenant`, `NoConnectionIsForgotten`: `ServesItsTenant` and `OpenIsKnown`.
  The first needs what a request has been resolved to at each stage (`Named`), that a tenant in
  service now, or whose status was loaded as that, was so since the request came (`Recent`), and
  that the synchronous code finds no other tenant than the chain's where the resolver that answered is
  the strategy's (`LegacyAgrees`), for every chain beside every strategy; what a request names does not
  change on its way (`ResolvedOnce`).
- `ScopesLeaveWhatTheyEnter`, `WritesKeepToTheirScope`: `LeavesWhatItEntered` and
  `RowsKeepToTheirScope`. A frame under which nothing was unregistered has entered the first
  `done` of the list (`Climbs`), and on its way down has left those above its position that can
  be left, the last first (`LeftDown`). An instance that was read with its column, and not touched
  since, carries the owner its row has (`HoldsTheOwner`), because every write to the column marks
  the other tasks' instances as stale (`RowBecoming`).
- `ServesOnTheBootItMade`: `ServesOnItsOwnBoot`; nothing but the registry of resolvers is cached while
  the process does not serve, and that is of a container which has served a request, this one or an
  earlier (`CachesOK`), the active driver is the configured one (`DriversOK`), a disk or a mailer
  keeps the tenant it was made for (`HandleOK`).
- `ReportsAreTrue`: `ReportIsTrue`; `ReportOK` says for each `pc` of a command which tenants it
  has counted, worked on and announced, the one it is at among them.
- `WhatStaysIsReported`: `ReportsWhatStays`. A problem that has been there since the list was
  read is still of a tenant as the list has it (`RowFits`), although the row may have changed and
  changed back; and once its check lies before the run's position, or has looked at its tenant or
  replica (`Behind`), the run has it or is blind there (`Told`). `CheckFinds` says that a check
  which gets to a problem finds it; `GoesOnTells` and `FoundTells` that going on to the next check
  with anything to look at, and ending a look, leave nothing untold behind.

Usage, quotas, deliveries, sign-on, limits, archives, imports

- `NothingCountedUnaudited`, `NothingSentUncounted`: `CountedIsAudited` and `SentIsCounted`
  are invariants. Neither is inductive: a job about to call Stripe must already have a row,
  and one about to save `sent` must have been counted. `JobIsSound` says so of each job, and
  `AuditTrail` joins it with the two. `KeepsAudit` is what a step owes to the other jobs of
  its key: no row goes, no count goes, no count without a row, no `sent` without a count;
  `TrailKept` reduces every step of a job to that and to the job's own soundness.
- `UsesAreInOnePlace`: `UseIsInOnePlace` is an invariant. `Handed` says it without counting
  (`IsHeld`: in this bucket, or being sent in this batch, or in this job, or lost, and in none
  of the others) and adds that a use still to come is nowhere, which Track relies on;
  `HeldOnce` goes from there to the cardinality.
- `GrantsStayWithinLimit`: `GrantsWithinLimit` is an invariant. It needs that what was granted
  is at most the counter (`CountsOK`), since the script compares the counter, not the grants.
- `StatesLogInOnce`: `OneLoginPerState` is an invariant. It needs that a state in Redis has
  logged nobody in (`StoredIsFresh`), that a callback which has taken one is alone with it
  (`HeldByOne`), and that it has the tenant the state was drawn for (`HeldIsFresh`).
- `OutcomesAreTrue`: `OutcomeIsTrue` is an invariant. It needs what every copy in a worker's
  hands claims (`Claims`): its attempts are at most one more than the failures, whichever copy
  is saved last.
- `LimitsTheWindow`: `AdmitsWithinLimit`. A request whose commands ran in the tick it read keeps
  its score in the set as long as no process, however far ahead, trims it (`StaysForAWindow`; before
  its `EXPIRE`, for its tick). Of such requests whose scores are nearer to each other than the window
  less the skew, the last one has counted all (`CountsThem`): it need not be the one with the highest
  score, since clocks differ, so the invariant speaks of every set of them.
- `NewestArchivesStay`: `NewestAreKept`. A list names only archives that were made (`Made`), so
  that what has `keepLast` newer ones in it is beyond the `keepLast` newest of all, and stays so
  (`Old`): a sweep may go by a list as old as it likes.
- `ImportAppliesTheDump`: `AppliesTheDump`, from `SplitsWhatIsSaid`, for whatever the scanner makes of
  the dump, misread or not, and whichever of it the database refuses. `ImportInv` says, for the
  statements the transaction has passed, which of them the open transaction holds and how many are
  counted as executed, skipped and failed; the lemmas on `Chosen` and `Ranked` say what appending
  the next statement does to a selection from the dump.

`Handover`, `Custody` and `AuditTrail` were checked with TLC before they were proved. Every safety
property of the passing runs is the statement of a theorem. Only model-checked are:

- Liveness: fairness and `ENABLED` are outside what the prover handles.
- `SplitsWhatIsSaid`: both sides are folds over characters, and what a fold computes for every
  input is an induction over data, for which the prover has no means. TLC evaluates it on every
  dump of up to three lexemes in the run.
- The mirror with two handlers at a time (`racing`): its types are proved, what it
  promises is checked on the events of the instance, since it is not true of any two.
- The six disagreements below the runs, which are counterexamples.

## Plan

What is left, in this order.

1. The retention of sent meter rows, and reports of callers that pass their own key.
2. Maintenance mode and the tenant's queue in `TenantLifecycle`, composed with
   `TenantConnections`, which it opens and closes.
3. The choice of a replica, the check of prices before a checkout, the redirect tokens between
   domains, feature flags and branding with their caches.

## Not modelled

- Signatures and tokens themselves, HTTP, the SQL the drivers send, S3, pg_dump, psql, Lucid,
  opossum and BullMQ: external, modelled as the code uses them.
- `services/read_replica_service.ts` beyond the doctor's probes: a cursor with no promise about
  its fairness.
- Feature flags, branding, audit log, metrics and redirect tokens: one row, or one key with one
  command, each.
- `admin/routes.ts`, `admin/openapi.ts`, `health/*`: reports and documents. What the admin
  interface changes is in the module of what it changes.
- `customer.deleted` and the handlers that only emit events; the commands that only print.
- Types, configuration declarations, test fixtures, and everything under `docs/`.

The `components` of `PROJECT.json` give what is left out of each part.
