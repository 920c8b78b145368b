# Verification of go-license-api

go-license-api is a multi-tenant license server: it issues license keys,
answers validations from a cache, counts seats in PostgreSQL and lets
administrators and tenants manage licenses.  This directory holds a TLA+ model
of the service, TLC configurations that check it on small instances, and
TLAPS proofs of its most important properties for instances of every size.
Paths are relative to the repository root.

## 1. The system

| Component | State | Operations | Hard behaviour |
|---|---|---|---|
| License entity (`internal/domain/license.go`, `license_resolution.go`) | fields of a license | IsExpired, IsRevoked, ValidateHardRules, ResolveFinalFeatures | boundaries: zero seats, -1, expiry |
| License cache (`internal/infrastructure/cache/license_store.go`, `l1_lru.go`) | per-process LRU with two entries per license (tenant-scoped and key-only), shared Redis, invalidation messages | Get, Set, Invalidate, InvalidateTenant, GetByGlobalKey, WarmUp, subscription | staleness, negative entries, messages against writes, restarts |
| Redis client and circuit breaker (`cache/l2_redis.go`) | three atomics (`enabled`, `failures`, `lastFail`), entries with a TTL | Get, Set, Invalidate, Publish, Subscribe | fields that change one by one, skipped and lost commands, recovery |
| Signed licenses (`http/handlers/signed_license_handler.go`, `security/signer.go`) | metadata of the cached license object | GetSignedLicense | one object shared by all requests, bindings that outlive their request |
| Migrations (`cmd/migrate/main.go`) | table `schema_migrations` | run, run with `-refresh` | overlapping runs, kills, lost commits, a file that commits itself |
| License repository (`internal/infrastructure/db/license_repo.go`) | table `licenses` | FindByKey, Create, Update, Revoke, GetRecent | blind updates, unique indexes |
| Activation repository and lock (`db/activation_repo.go`, `infrastructure/lock`) | table `activations`, row locks, 256 in-process mutexes | ActivateWithLock, ReleaseByClient, RecordUsage | several instances, lost commits, aborted transactions |
| Activation service and handlers (`app/activation_service.go`, `http/handlers`, `http/license`) | idempotency cache | Activate, Deactivate, RecordUsage, Validate | check-then-act on cached data, retries |
| License control plane (`app/admin_service.go`, `http/admin`, `http/tenant`) | none of its own | CreateLicense, UpdateLicense, RevokeLicense | database write and cache write are two steps |
| Tenants and API keys (`cache/tenant_store.go`, `db/tenant_repo.go`, `middleware/tenant_key_guard.go`) | table `tenants`, cached tenants by key | create, suspend, reinstate, delete, rotate, limits, allowlist, profile | key rotation, stale keys |
| Worker pool (`internal/worker`), shutdown (`server/server.go`) | bounded queue, workers | Start, Enqueue, Drain, panic recovery | shutdown order, lost jobs |
| Plans and features (`cache/plan_store.go`, `db/plan_repo.go`, `domain/license_resolution.go`) | table `plans`, write-through caches, resolved features of cached licenses | upsert, soft delete, restore, activate, resolve, warm-up | stale entries, features kept in memory only |
| Products (`cache/product_store.go`, `db/product_repo.go`) | table, write-through cache | upsert, soft delete, restore, activate | stale entries |
| Audit pipeline (`infrastructure/audit`, `db/audit_writer.go`) | bounded channel, batches | Write, flush, retry | drops, final flush |
| Webhooks (`internal/webhook`) | table `webhooks`, list loaded at start, in-memory queue, retry timers | Register, Dispatch, deliver, retry, Stop | full queue, duplicates, retry limit |
| Rate limiting (`infrastructure/ratelimit`, `public_license_rate_limiter.go`, `rate_limit.go`) | maps of token buckets | getOrCreate, Allow, eviction, Invalidate | refill arithmetic, buckets evicted while in use |
| Failure limiter (`middleware/adaptive_fail_limiter.go`) | counters, strikes and blocks in Redis or per instance | check, count, strike, block | several calls without a transaction, expiry that fails, midnight |
| JWKS, AES, URL guard, configuration, CLI | mostly stateless | | |

Components interact as follows.  The public data plane (`/licenses/*`)
validates from the key-only entry of the local LRU and activates through
`activationService`, which resolves the license from the cache or the
database, takes an in-process lock, runs one transaction and invalidates the
cache.  The control planes (`/admin/*`, `/tenant/*`) write to PostgreSQL and
then to the cache of their own instance and to Redis.  Other instances hear of
invalidations over Redis Pub/Sub only.

What makes the parts correct: seats are granted within the limit and on
active licenses whatever the interleaving; a cache agrees with the table once
nothing is going on; a request that is taken up is answered; revocation takes
effect and is final; a tenant's keys work exactly while the tenant is in good
standing.

## 2. Modules

| Module | Models | State | Actions |
|---|---|---|---|
| `License` | the license entity | – | operators |
| `LicenseStore` | license cache and invalidation messages | `l1`, `gk`, `l2`, `inbox` | StoreGet, StoreSet, StoreInvalidate, StoreGetByGlobalKey, DeliverInvalidation, L1Evict, L2Expire, StoreRestart |
| `LicenseDB` | PostgreSQL tables as the repositories use them | `db`, `acts`, `blankRid`, `rowLock`, `usage` | row lock, insert, release, update, revoke |
| `LicenseService` | requests on several instances over both | `args`, `pc`, `view`, `txn`, `resp`, `mutex`, `idem`, `now`, `crashes` | one per call of a handler that touches shared state |
| `SeatLedger` | abstract: what seat licensing promises | `seated`, `limit`, `open` | Claim, GiveBack, Govern |
| `WorkerPool` | `internal/worker` | `queue`, `closed`, `poolDone`, `wpc`, `wjob`, `outcome`, `restarts` | Enqueue, Receive, RangeEnds, CheckContext, Execute…, Restart, CloseQueue, PoolCancel |
| `AuditPipeline` | `internal/infrastructure/audit`, `db/audit_writer.go` | `auditCh`, `batch`, `writing`, `attempt`, `stored`, `written`, `missed`, `dbOpen` | AuditWrite, TakeEntry, TimerFires, InsertBatch, InsertErrs, WritePanics, CloseDB |
| `ServerLifecycle` | `cmd/server/main.go`, `server.Shutdown` over the two | `phase`, `httpOpen`, `expired` | requests, worker and audit steps, Signal, Expire, the phases of Shutdown |
| `TenantStore` | tenant cache: the entries by API key | `byKey`, `notices` | StoreSet, StoreInvalidate, StoreInvalidateByTenantID, DeliverNotice, StoreEvict, StoreRestart |
| `TenantAccess` | tenant operations of `admin_service.go`, events, warm-up, guards | `rows`, `owner`, `op`, `ops`, `now`; `shut`, `exact`, `deaf` | Start and one action per call of an operation, Fail, messages, eviction, time |
| `WebhookDispatcher` | `internal/webhook/dispatcher.go` | `table`, `cache`, `fanout`, `queue`, `current`, `timers`, `stopped`, `ended`; `fate`, `got` | Register, Dispatch, Offer, Take, Refuse, Accepted, Failed, TimerFires, Stop, LoopEnds |
| `RateLimiter` | token buckets and the maps that hold them | `now`, `heap`, `buckets`, `doomed`, `rest`, `held`, `pc`; `log`, `passes` | Lookup, Create, Allow, FindIdle, Evict, Invalidate, Tick |
| `FailLimiter` | the failure limiter | `now`, `useRedis`, `at`, `ctr`, `block`, `req`, `faults`, `again`; `hist`, `stuck`, `barred`, `promised` | Check, ReadTTL, CacheBlock, Handle, Incr, Expire, Strike, IncrLocal, SetBlock, SetRedis, CallFails, SendAgain, Tick |
| `PlanCatalog` | plan operations and the features of licenses | `plans`, `licenses`, `planCache`, `licCache`, `notices`, `op`, `ops`, `now`; `hist`, `writer`, `usurped`, `calm`, `deaf` | Start and one action per call of an operation, Fail, messages, eviction, Tick |
| `L2Cache` | the Redis client and its circuit breaker | `enabled`, `failures`, `age`, `up`, `row`, `entry`, `call`; `since` | the beginnings of calls, one action per access of a call to an atomic or to Redis, Outage, Elsewhere, L2Tick |
| `SignedLicense` | offline signed licenses | `active`, `owner`, `owed`, `gk`, `heap`, `cached`, `pc`, `req`, `payload`; `touched`, `over`, `barred`, `gone` | Activate, Release, Invalidate, Cache, Evict, the steps of GetSignedLicense and Sign, MapFault |
| `Migration` | the migration command | `table`, `recorded`, `times`, `pc`, `next`, `seen`; `late`, `faulty`, `dropped` | Start, one action per statement, Die, CommitUnacknowledged |
| `MCLicenseService`, `MCServerLifecycle`, `MCTenantAccess`, `MCWebhookDispatcher`, `MCRateLimiter`, `MCFailLimiter`, `MCPlanCatalog`, `MCL2Cache`, `MCSignedLicense`, `MCMigration` | small instances for TLC | | |
| `LicenseServiceProofs`, `LifecycleProofs`, `TenantProofs`, `WebhookProofs`, `RateProofs`, `MigrationProofs`, `GrantProofs` (`PlanCatalog` and `SignedLicense`), `RedisProofs` (`FailLimiter` and `L2Cache`) | theorems | | |

Variables after a semicolon record history for the properties; no action reads
them, except that Dispatch takes each event once (`fate`).  The flag `filed` of a
bucket (`RateLimiter`) is such a record too.

A request of `LicenseService` is a process; `pc` names its next call and the
steps are single cache calls, SQL statements or lock operations, so any other
request, on the same instance or another, can act in between.  The header of
`LicenseService` lists the steps of every operation.  The definitions keep the
names of the code (`ResolveFromCache`, `FindByKey` and `FillCache` are the
three calls of `resolveLicense`; `SelectForUpdate`, `CountSeats` and
`InsertAndCommit` are the statements of `ActivateWithLock`); `PROJECT.json`
gives the lines of each.

Abstractions.  A client is its normalised identifier; a license is its status,
seats, usage counter and expiry; the ID of a row is represented by its key,
and the empty ID by `NoID`; an activation ID by the request that generated it.
Time is a counter that only the expiry checks read; every cache entry may
disappear at any time (TTL or LRU), which includes every TTL policy.  Redis is
available in `LicenseService`; `L2Cache` looks at outages.  Every write may fail,
and may take effect and lose its acknowledgement (`CommitUnacknowledged`,
`ReleaseUnacknowledged`, `UsageUnacknowledged`, `WriteFails`).
`AnswerNamesOwnRow` assumes that clients use an `Idempotency-Key` for one license
and client only, as the workload does.  A call of `LicenseStore` is one step,
where the code goes to the LRU, the index, Redis and the channel one after the
other without a lock.  `sequential`, the run that is about the caches, has one
request at a time, so nothing can come between these but an eviction or a
message, which may as well come before or after; in the other runs no decision
about seats rests on the caches, whatever they hold.

In `ServerLifecycle` a handler enqueues jobs as `docs/architecture.md`
describes; no code outside the tests calls `Enqueue` yet.  The verdict of a job
is abstracted to the fact of an answer (an answer that finds no receiver is
dropped by `safeSendResult` and is not told apart), its audit entry is named by
the job, and a job of `Poisoned` is one whose requester has closed the result
channel.  Closing the database is one step; `pgxpool.Close` waits for
connections in use, that is for INSERTs under way, and these end.  `Worker.run` of the audit package returns only on a cancelled context
or a closed channel, and the server does neither, so these exits are no steps.

In `TenantAccess` an operation occupies a slot and advances call by call; its
`todo` holds the entries it is about to set or drop.  A tenant is its ID, key
hashes, grace period, status, allowlist and system mark; `owner` remembers for
which tenant a key was generated, `shut` which keys suspensions have closed,
`exact` which instances have been restarted while no operation that writes rows
was under way, with none since, and have had no eviction and no failed warm-up,
`deaf` which have missed a message.  Creation fills only the cache of its own instance, and nothing in the
server publishes `tenant:created` or `tenant:updated` (the load test's seeding
does): `refresh` models the handlers of these events.  The warm-up stands for a
table within `CACHE_WARMUP_TENANT_LIMIT`.  The limiter's invalidation and the
audit entry that end every operation touch other components.

In `WebhookDispatcher` a payload is its event, and `Unsendable` holds the
deliveries that `deliver` gives up because of size, URL or secret.  Nothing in
the server calls `Dispatch` or `Stop` yet; the model calls them at any time.  A
request that the client gives up has reached its receiver by then or never does;
one that a slow network delivers after its retry is not modelled.

In `RateLimiter` tokens are exact where the code has floating point.
`cleanupLoop` reads `LastSeen` of a bucket (`FindIdle`) and deletes it (`Evict`)
under the lock of the map, which a request that holds the bucket already does not
need: it may pass in between.  A bucket counts as filed until it is found idle.
Where it need not be full then (`FullWhenIdle`: the limits of the public routes
satisfy it, those of a tenant need not), the account of its key begins anew, as
after `Invalidate`.  The per-tenant
middleware of `rate_limit.go` is mounted nowhere; `MaxBuckets` is its bound.

In `FailLimiter` each client sends one request after another.  TTL answers the
remaining time rounded to the nearest whole second (either one at half a second)
and EXPIRE takes whole seconds, at least one; a tick is half a second in the
runs.  A counter past its end counts as absent, so that `pruneLocal`
is invisible; a call takes at most one tick of the clock, which answers of a
handler count as failures is a choice, and instances do not restart.  `stuck`
holds the counters whose first failure could not set the expiry.

In `PlanCatalog` negative entries and the Redis copies of plans are left out,
because no answer depends on them; the license cache is its key-only index and
a license has no status (`LicenseService` has it).  New plan IDs are fresh
unless a request names one, and the warm-up stands for tables within its
limits.

In `L2Cache` a call is a record that is used again once it has returned, so a
run has any number of calls.  One Redis entry is followed, that of a row which
changes once, from `old` to `new`; all other keys are calls of the kind `other`.
Ages saturate where they make no difference, so time is not bounded either.
`Elsewhere` is what other instances do to the row and the entry.

In `SignedLicense` there is one license at one instance; the objects that were
put into its cache are numbered, and an object is the two transient fields of
its metadata.  `owed` holds the invalidations that a committed activation or
release has yet to make.  The licensing rules around `Activate` and `Release`
are those of `LicenseService`.  A map access that Go leaves undefined either
happens in some order or ends the process (`MapFault`).

In `Migration` a file is its position, with the files it needs (`Needs`),
whether its SQL may be executed again (`Rerunnable`, true of 003 only) and
whether it ends with a COMMIT of its own (`SelfCommitting`, true of 001 only):
such a file takes effect in `ExecuteFile`, its record commits in `InsertVersion`,
and `Commit` has nothing left to do.  The table's and rows' locks are modelled as far as these statements meet them.
`Preloaded` holds files that were executed without a record, as the compose file
of `deployments/docker` does.

`SchemaComplete` and `TenantAuthWired` say whether the database has the
columns the code uses and whether the activation routes run the tenant
middleware.  The shipped migrations and router do neither; with them revocation
and activation always fail (`shipped_schema` and `tenant_unset` below), so the
other runs set both to look at the rest of the code.

## 3. Runs

* `seats` – three requests drawn from activations of two clients, a release,
  updates of the limit and a revocation, on two instances, every statement
  allowed to fail and every write to lose its acknowledgement.  Three
  requests are enough for one to act between any two statements of another
  while a third holds or waits for the row; one-seat and unlimited licenses
  give both sides of the seat check.
* `sequential` – one instance, one request at a time, all operations, two
  licenses (one stored, one created later), eviction, a crash, one tick of the
  clock.  It shows what the caches guarantee without concurrency, with writes of
  the control plane that are answered (`stale_fill`, `stale_node`, `reread_fails`
  and `lost_update` below show the rest).
* `live` – three requests that meet on a shard and the row, with failures, lost
  acknowledgements and a crash.

* `lifecycle` – two jobs, one of which makes its worker panic, and three audit
  entries on two workers and one audit worker; queues of one and batches of two,
  so that queues fill and both full and partial batches are written; the signal
  and the deadline come at any moment.  Two workers are needed for one to
  receive while another restarts; audit workers share nothing but the channel,
  and the safety properties are proved for any number of both.

* `tenants` – four operations on two tenants with three keys and two instances,
  two at a time: enough for create, rotate, suspend and one more that overlaps
  any of them, for a restart after a rotation, for a key that moves through
  current, old and expired, and for a second tenant whose keys must not be mixed
  up.  Every statement may fail, entries are evicted and messages lost at any
  moment.  `WarmIsExact` looks at an instance until a writing operation begins
  anywhere: what a change leaves stale in the caches is the matter of
  `SuspensionHolds` and of the variants below.  `SuspensionHolds` is about keys
  that a suspension has closed; what a suspension fails to close is shown by
  `suspend_old`, `suspend_reread` and `suspend_race` below.

* `webhooks` – two events to two webhooks, one of them with a delivery that
  cannot be sent, through a queue of one, with three attempts and a stop at any
  moment.  A queue of one fills, and three attempts give a first, a middle and
  a last one.
* `ratelimit` – four requests, one of which has to pass two buckets, with a
  bucket that is slower and one that is faster than the clock's tick, eviction
  and invalidation at any moment allowed.  Four requests are two more than the
  larger burst; five ticks are one more than the idle time.
* `faillimit` – two clients of one address and tenant that send up to four
  requests, at two instances or one that use Redis with one failing call, or at
  one instance without Redis.  A second failure is a strike, so that the four
  requests make two strikes and find the block of one; blocks of one and a half
  and of two seconds make TTL round either way, the shorter can replace the
  longer, and both end within the three ticks or after them.  The clock goes half
  a minute beyond a minute of two ticks, so that counters expire, begin again or,
  when the one failing call was to set the expiry, do neither.
* `plans` – three operations, two at a time, of eleven kinds, on a plan, a
  license, two tenants and two instances, with failing queries, writes that lose
  their answer, lost messages, evictions, restarts, and a trial that ends.  Two of the three can overlap
  after or before the third, so that a read meets a change of a plan that
  exists.

* `signed` – two requests for the signed license of one key, each with one of
  two clients or none, two activations and two cached objects.  Two requests
  are all it takes to share an object, at the same time or one after the other,
  and the second object shows what replacing the first one clears.
* `breaker` – two calls at a time through a breaker that opens at the second
  failure, with a cooldown of one tick and a TTL of two.  Two calls are enough
  for one to act between any two accesses of another; their number and the time
  are not bounded.
* `migrate` – three runs, one of which drops the schema first, over the three
  files of `migrations/`, killed at any step.  Two runs can stop each other
  while the third begins.  001 commits itself, 002 does not and needs 001, and 003
  may be executed again.

All runs pass.  The configurations below ask for what the documentation says and
the code does not do; each ends with the counterexample described.  They are
three files, `unrevoke.cfg`, `deleted_admitted.cfg` and `features_lost.cfg`, and
variants of these and of the runs' configurations, listed below the table.
`findings` in `PROJECT.json` has most of them with quotations.

| Configuration | Property | What the code does | What the documentation says |
|---|---|---|---|
| `stale_fill` | `PublicIndexCoherent` | resolveLicense caches what it read before a revocation (`activation_service.go:194`) | "Any write through the control plane immediately updates or invalidates the relevant cache entries." (`docs/architecture.md:106`) |
| `validate_after_activate` | `InvalidatedIsRefetched` | an activation invalidates the entry that validation reads, and validation does not refetch it (`license_store.go:165`) | "The full object is always written or the key is invalidated and refetched." (`docs/architecture.md:112`) |
| `unrevoke.cfg` | `RevokedIsTerminal` | an update sets the status whatever the row says (`license_repo.go:121`) | "`revoked` is terminal" (`docs/api.md:445`) |
| `drain_livelock` | `PoolDrains` | workers restart on the closed queue until the context is cancelled, which happens after Drain (`pool.go:51`) | "3. Wait for worker pool to drain (WORKER_DRAIN_TIMEOUT)" (`docs/architecture.md:204`) |
| `audit_unflushed` | `AuditFlushed` | FlushWithContext is empty (`audit_writer.go:134`) | "4. Flush audit log buffer" (`docs/architecture.md:205`) |
| `stale_node` | `PublicIndexCoherent` | Set publishes nothing, and Invalidate publishes the tenant-scoped key while validation reads the `gk:` entry: a revocation on one instance never reaches the others (`license_store.go:82`) | "In multi-node deployments, L1 invalidation events are propagated via Redis Pub/Sub so all instances evict stale entries without polling." (`docs/architecture.md:114`) |
| `reread_fails` | `PublicIndexCoherent` | RevokeLicense returns when reading the revoked row back fails, after the UPDATE was committed: the cache keeps the active license (`admin_service.go:355`) | "Any write through the control plane immediately updates or invalidates the relevant cache entries." (`docs/architecture.md:106`) |
| `lost_update` | `PublicIndexCoherent` | the same when the UPDATE is committed and its acknowledgement is lost (`admin_service.go:352`) | the same line |
| `tenant_unset` | `ActivationFindsStored` | `/licenses/activate` runs no tenant middleware (`http/router.go:110`): the license is looked up under the empty tenant | "Requests go through tenant auth, IP guard, …" (`docs/architecture.md:11`) |
| `usage_after_update` | `UsageNeverErrs` | UpdateLicense caches the object of the request, which has no ID; recording usage then errs (`admin_service.go:295`) | "The full object is always written or the key is invalidated and refetched." (`docs/architecture.md:112`) |
| `phantom` | `ValidIsStored` | an update of a key that was never created succeeds and makes validation answer valid (`license_repo.go:142`) | "L3: PostgreSQL (source of truth)" (`docs/architecture.md:89`) |
| `two_updates` | `ControlPlaneSucceeds` | Update blanks `revocation_id`, and the second blank violates the unique index (`license_repo.go:139`) | "Update a license" (`docs/api.md:354`) |
| `shipped_schema` | `ControlPlaneSucceeds` | Revoke sets columns that no migration creates (`license_repo.go:113`) | "Revoke a license" (`docs/api.md:355`) |
| `rotation` | `GoodKeysAdmitted` | a rotated-in key is admitted nowhere: rotation sets no entry, and the guards never read the database (`admin_service.go:449`) | "During rotation, both the old and new key are valid." (`docs/architecture.md:160`) |
| `retired_key` | `OldKeyRetired` | the entry of the old key keeps a tenant whose current key it is, and is admitted after the grace period (`admin_service.go:449`) | "After the grace window closes, the old key is retired from the cache and database." (`docs/architecture.md:160`) |
| `deleted_admitted.cfg` | `DeletedRefused` | DeleteTenant invalidates by the tenant's prefix only; its key is still admitted (`admin_service.go:428`) | "Any write through the control plane immediately updates or invalidates the relevant cache entries." (`docs/architecture.md:106`) |
| `allowlist_stale` | `AllowlistApplied` | the same after UpdateTenantIPAllowlist: the guard applies the old list (`admin_service.go:483`) | the same line |
| `suspend_race` | `SuspendedRefused` | a tenant read before a suspension is set after its invalidation (`admin_service.go:611`) | "Rejects with 401/403 if invalid or suspended" (`docs/architecture.md:28`) |
| `suspend_reread` | `SuspendedRefused` | a suspension that cannot read the row back invalidates nothing and reports success (`admin_service.go:386`) | the same line |
| `suspend_old` | `SuspendedRefused` | a suspension invalidates the current key alone; the entry of a key rotated away before still admits the tenant (`admin_service.go:389`) | the same line |
| `system_race` | `SystemProtected` | a tenant that becomes the system's after the check is deleted (`admin_service.go:422`) | "Protected system tenant operations: suspend/delete are rejected with `system_tenant_protected`." (`docs/api.md:332`) |
| `retry_dropped` | `RetriedToTheLast` | a retry that comes due while the queue is full is dropped (`dispatcher.go:213`) | "up to 5 attempts" (`docs/architecture.md:184`) |
| `registered` | `RegisteredHooksFire` | webhooks are loaded at start only (`server.go:431`): one registered later gets nothing | "Register a webhook" (`docs/api.md:345`) |
| `evicted_bucket` | `PerKeyLimit` | a request that holds a bucket when it is evicted passes besides those of the next one (`public_license_rate_limiter.go:78`) | "Per-license key bucket (primary)" (`docs/api.md:31`) |
| `full_map` | `PerKeyLimit` | with the map full, each request of a further tenant gets a bucket of its own (`rate_limit.go:74`) | "Per-tenant rate limiting (token bucket)" (`README.md:237`) |
| `stuck_counter` | `StrikeForExcess` | a counter whose expiry could not be set never ends, and every later failure is a strike (`adaptive_fail_limiter.go:226`) | "Adaptive fail limiter blocks IPs/tenants with repeated failures" (`docs/architecture.md:38`) |
| `strike_midnight` | `StrikesEndAtMidnight` | the seconds to midnight are computed before the call that sets them (`adaptive_fail_limiter.go:271`) | "Reset at midnight local-time by expiring strike key at next midnight" (`adaptive_fail_limiter.go:262`) |
| `never_blocks` | `BlockHolds` | without Redis and without the local cache a block is kept nowhere (`adaptive_fail_limiter.go:282`) | "Adaptive fail limiter blocks IPs/tenants with repeated failures" (`docs/architecture.md:38`) |
| `features_lost.cfg` | `FeaturesResolved` | no column holds the resolved features and no reader of the table computes them again: after a restart a plan license validates without features (`license_repo.go:38`) | "final resolved features are used for validation and signed-license payloads" (`docs/api.md:438`) |
| `foreign_plan` | `PlansAreTheTenants` | the upsert conflicts on the plan's ID alone and overwrites the plan of another tenant (`plan_repo.go:62`) | "Multi-tenant with strict isolation" (`README.md:89`) |
| `deleted_plan` | `DeletedExcluded` | GetPlan caches what it read before a deletion (`admin_service.go:144`) | "exclude rows where `deleted_at IS NOT NULL`" (`docs/api.md:451`) |
| `binding_own` | `BindingIsOwn` | the binding stays in the cached object, and later requests sign it as theirs (`signed_license_handler.go:40`) | "if client_id is provided and an active activation exists, include activation_id and client_id inside the signed payload (via transient metadata)" (`signed_license_handler.go:33`) |
| `binding_pair` | `BindingIsAPair` | two requests at a time mix their fields (`signed_license_handler.go:41`) | "`activation_id`: the server-side activation this payload is bound to" (`docs/offline_signed_licenses.md:43`) |
| `map_race` | `NoMapRace` | and access the map without synchronisation | – |
| `cooldown_kept` | `CooldownKept` | the breaker is opened before the time of the failure is stored, and a call in between closes it (`l2_redis.go:79`) | "atomic circuit breaker to auto-disable L2 on repeated failures" (`l2_redis.go:39`) |
| `preloaded` | `SomeoneCompletes` | the compose file executes the migrations without a record, and the command then fails at the first file (`deployments/docker/docker-compose.yml:39`) | "docker compose up -d", "go run ./cmd/migrate" (`README.md:107`) |
| `stopped_in_001` | `EndedIsRecorded` | 001 commits itself before it is recorded; stopped in between, it is executed again by every later run and fails (`migrations/001_init.sql:301`) | "skipping %s (already applied)" (`cmd/migrate/main.go:84`) |
| `shared_prefix` | `CompleteMeansAll` | a file whose prefix another file has is taken for applied by the next run (`cmd/migrate/main.go:295`) | "Expect: 001_init, 002_products, etc." (`cmd/migrate/main.go:290`) |

Variants, each with its own property in place of the properties of the
configuration it is made from:

* of `unrevoke.cfg`: `stale_fill` takes Workload `RevokeDuringActivate`,
  AllowEviction `TRUE` and MaxInFlight 2; `stale_node` Workload
  `RevokeOnOneNode` and Instances `{i1, i2}`; `usage_after_update` Workload
  `UsageAfterUpdate`; `validate_after_activate` Workload
  `ValidateAfterActivate`; `reread_fails` Workload `RevokeAndValidate` and
  FaultySteps `{"reread"}`; `lost_update` the same with `{"write"}`; `tenant_unset` Workload `ActivateTwice` and
  TenantAuthWired `FALSE`; `phantom` Workload `ValidateAfterUpdate` and InitDB
  `EmptyDB`; `two_updates` Workload `UpdateTwoLicenses` and Keys `{k1, k2}`;
  `shipped_schema` Workload `RevokeAndValidate` and SchemaComplete `FALSE`;
* of `deleted_admitted.cfg`: `rotation` and `retired_key` take Kinds `{"create",
  "rotate"}`; `allowlist_stale` Kinds `{"create", "settings"}`; `suspend_reread`
  Kinds `{"create", "suspend"}` and FaultySteps `RereadFails`; `suspend_race` Slots
  `{s1, s2}`, MaxOps 3 and Kinds `{"create", "suspend", "profile"}`; `suspend_old`
  MaxOps 3 and Kinds `{"create", "suspend", "rotate"}`;
  `system_race` Slots `{s1, s2}`, MaxOps 3 and Kinds `{"create", "delete", "profile"}`;
* of `features_lost.cfg`: `deleted_plan` takes Slots `{s1, s2}` and Kinds
  `{"createPlan", "getPlan", "deletePlan"}`; `foreign_plan` Tenants `{t1, t2}`
  and Kinds `{"createPlan"}`;
* of `lifecycle.cfg` with Workers `{w1}`: `audit_unflushed` takes SPECIFICATION
  Spec, `drain_livelock` SPECIFICATION UntimedSpec;
* of `webhooks.cfg`, with SPECIFICATION Spec: `registered`, `retry_dropped`;
* of `ratelimit.cfg`, with Managed `{}`: `evicted_bucket`, and with MaxBuckets 1
  too `full_map`;
* of `faillimit.cfg`: `stuck_counter` takes Setups `Shared`,
  `strike_midnight` Setups `Shared` and MaxFaults 0, `never_blocks` Setups
  `Alone` and LocalCacheEnabled `FALSE`;
* of `signed.cfg`: `binding_own`, `binding_pair`, `map_race`; of `breaker.cfg`:
  `cooldown_kept`; of `migrate.cfg`: `preloaded` takes Preloaded `{1, 2, 3}`,
  `shared_prefix` VersionOf `SharedPrefix`, and `stopped_in_001` nothing else.

`PublicIndexCoherent`, `ControlPlaneSucceeds`, `UsageNeverErrs`,
`GoodKeysAdmitted`, `OldKeyRetired`, `DeletedRefused`, `AllowlistApplied`,
`SuspendedRefused`, `AuditFlushed`, `RetriedToTheLast`, `PerKeyLimit`,
`StrikesEndAtMidnight`, `FeaturesResolved`, `DeletedExcluded`,
`SomeoneCompletes`, `EndedIsRecorded` and the three of `signed.cfg` are INVARIANTs, the others
PROPERTYs.

Bounds: `MaxInFlight` (requests at a time), `MaxCrashes`, `MaxNow`, the set of
requests, and `FaultySteps`, the steps whose statement may fail; `MaxOps`
(operations on tenants or plans), `MaxFaults` and `MaxAgain` (failing calls and
further requests of the failure limiter), `MaxActs` and `MaxCached` (activations and cached objects of
`signed`).  Deadlock checking is off where a run ends when every request is
answered or every migration has ended.

Fairness: strong fairness of each request's next step.  The Go scheduler runs
every runnable goroutine, a `sync.Mutex` in starvation mode and PostgreSQL's
row locks serve waiters in order of arrival, so a request whose lock becomes
free again and again gets it.  Starting a request, faults, crashes and cache
maintenance are not fair.  In `lifecycle` every goroutine and `Shutdown`
are weakly fair (executions end because of `WORKER_TIMEOUT`, INSERTs because the
connection answers or breaks) and so is the deadline, a timer; no signal and no
request need come.  `drain_livelock` leaves out the fairness of the deadline
only, to ask whether the workers end by themselves.  In `webhooks` the loop and
each Dispatch are weakly fair, a request ends within the client's timeout of 10
seconds, and timers fire; events and the stop need not come.  In `breaker` each
call is weakly fair (the client's timeouts are fractions of a second) and time
passes; that calls are made at all is a premise of `Recovers` and `OutageOpens`,
since the breaker acts in calls only, and outages come as they like.  In
`migrate` a statement that is not blocked is answered; starting a run is not
fair.

## 4. Proofs

For all sets of keys, clients, instances, shards and idempotency keys, all
finite sets of requests, all workloads and all bounds:

* `TypeCorrect`: `TypeOK` is inductive by itself.
* `SeatInvariant`: `SeatInv` is inductive relative to `TypeOK`.  The seat limit
  alone is not inductive: it has to be known that the transaction which counted
  still holds the row (`HoldsItsRow`), so that nobody else inserted and the
  limit did not move, and that from the count to the insert the client stays
  unseated and a seat stays free (`MaySeat`), which a release, the one
  operation that takes no row lock, cannot disturb.  That activation IDs belong
  to requests past their insert makes a new row new.
* `UniqueIndexUnused`, `SeatsWithinLimit`, `SeatsOnActiveLicense` follow from it.
* `ServiceImplementsLedger`: every step maps to a step of `SeatLedger` or a
  stutter; `OneRowPerClient` turns a released row into a released client, and
  the number of clients is at most the number of rows.
* `KnownLicensesAreFound`: for every request that knows its tenant, without a
  hypothesis (on the shipped router activations do not; `tenant_unset`).
  `NotFoundBy` shows that such an answer comes from a query or the locked row,
  whatever the caches hold.
* `AnswersNameOwnRows`: where clients and licenses do not share Idempotency-Keys
  (`IdemKeysApart`), which the cache does not check.  `OwnRowInv` adds to the
  property that what the idempotency cache holds names the row of an activation
  with that key; rows are released and never removed, so it stays true.

* `LifecycleTypeCorrect`: bounds of queues, batches and retries.  Every step of
  the server is a step of the pool and a step of the audit trail
  (`StepsOfComponents`), so each component's invariant is proved on its own
  actions.
* `EntriesAreConserved`: `EntryInOnePlace` is inductive relative to the types; the
  converse part (a queued entry is in the channel) is what makes it so.
* `WorkersSurvive`, `NoEarlyCutOff`: from `PhaseInv`, which ties the phase of the
  shutdown to the pool.  Its core is that no goroutine ends before the
  cancellation that follows Drain; hence Drain returns by the deadline only, and
  whatever is cut off afterwards is cut off after the deadline.

* `TenantTypeCorrect`, `KeysOpenTheirTenant`: for any number of overlapping
  operations.  `Owned` adds to the entries that rows carry keys generated for
  them and that every entry an operation is about to set belongs under its key;
  a key, once generated, never changes its owner (`OwnerKept`).
* `SuspensionLocksOut`: whatever overlaps or fails.  `LockedOut` says that the
  tenant of a closed key is suspended (`ShutSuspended`), that an entry which still admits a closed key has a message
  under way that drops it (`EntriesDropped`), and that whatever an operation is
  about to set under it is suspended (`ItemsSuspended`).  A rotation of a
  suspended tenant is safe because a fresh key has no entry, which is `Owned`
  again.
* `WarmedUpIsExact`: however operations overlap.  `Warm` has both directions: an
  exact instance holds rows of the table only and no message to drop one is on
  its way (`NothingStale`), and it holds every row the warm-up files, or, while it
  is being warmed up, has it on its list (`NothingMissing`).  Refreshes and
  warm-ups keep it because what they have read is still in the table
  (`ListsCurrent`) and because they drop and write nothing (`ReadsOnly`); while an
  operation that may write is under way, no instance is exact (`WritersAlone`).

* `WebhookTypeCorrect`, `DeliveriesAreNotDoubled`, `AttemptsAreOrdered`,
  `SettledStays`: for any number of webhooks, events, attempts and any queue.
  `JobInv` adds to `OneJobPerDelivery` that a delivery still to be offered is
  one of a running Dispatch and that a job's attempt is beyond every attempt its
  receiver has seen; with one job per delivery the attempts then come in order.

* `RateTypeCorrect`, `BucketsAreShared`, `RateIsKept`, `RefusalsHaveCause`: for
  any keys, limits, requests and clock.  That the passes of every stretch fit
  burst and refill is not inductive: `RateInv` relates, for every stretch that
  ends now, the passes in it to the tokens that are left (`Below`), and says
  that some stretch is used up unless the bucket is full (`Tight`).  The second
  gives refusals their cause.  An eviction keeps both because the bucket stops
  counting when it is found idle, and by then it has filled up again, or else
  the account begins anew (`FullWhenIdle`).

* `MigrationTypeCorrect`, and, where no two files share a version and nothing was
  applied before (`UniqueVersions`, `Preloaded = {}`; the variants show that both
  are needed), `MigrationsAreRecorded`, `MigrationsInOrder`, `CompletionIsTrue`:
  for any number of runs and files, any of which may commit themselves.
  `CommitIsFirst` says that an open transaction past its INSERT is the only one
  with its version and that the version is not recorded, and `SelfIsFirst` that
  of the runs which have executed a file that commits itself and not recorded it
  there is one; with them a file takes effect once.  For the order and for
  completion it has to be known that what a run has passed is recorded
  (`PassedIsRecorded`) and that the files before one in effect are too
  (`AppliedIsPrefix`), which a dropped schema breaks for the runs under way.  A
  completion is true because files in effect have what they need (`NeedsMet`),
  where a file that commits itself is needed by another (`SelfCommittingNeeded`,
  as 001 is by 002).
* `SomeRunCompletes`: under the same hypotheses, where files build on files with
  earlier names only (`NeedsEarlier`, as in the repository).  `SomeoneLeads` names
  the run that nobody can stop: every recorded file is behind it or in its map of
  applied versions.  When it loses the lead, the run that committed has it.

* `L2TypeCorrect`, `StaleEntriesEnd`: for any number of calls and any threshold,
  cooldown and TTL.  `StaleInv` adds to `StaleWithinTTL` that no time counts
  while a reader of the old row is under way, and that the rest of an old
  entry's life and the time that has counted are together at most the TTL.
  Nothing about the breaker is needed: whatever it skips, only `Set` starts a
  TTL.

* `FailTypeCorrect`, `BlocksEndAsPromised`, `BlocksHold`, `MinutesAreCounted`,
  `StrikesHaveCause`: for any requests, addresses, tenants, instances, thresholds,
  block times and failing calls.  `PromiseInv` carries the time to live a request
  was answered to the entry it caches: read at the clock of its start, it ends by
  what was promised, and the half second to which Redis may have rounded it up.  `BlocksHold` needs a place where the block is kept
  (`BlocksKept`: the local cache is on or every deployment has Redis);
  `Guarded` says that there it lasts as long as the last block at least; TTL may
  round the last half second of it to nothing.
  `WindowInv` says that a counter counts the last failures of its history
  (`Windows`), that those lie within a minute and a tick of its end, and that a
  counter without an end has a request about to set it, which counted the first
  of them at most a tick ago (`AwaitsRecent`), or is `stuck`.  A count over the
  threshold is then an excess within a minute; `HitsHaveCause` carries it from
  the counter of the pair past that of the address to the strike.

* `PlanTypeCorrect`, `CachedPlansAreGranted`, `FeaturesGranted`: for any tenants,
  plans, licenses, instances and operations that overlap, with failing queries,
  lost messages, evictions and restarts.  `FeaturesWereGranted` speaks of license
  caches only; what is filed there comes from a plan that the operation holds,
  which comes from a plan cache or the table.  `Catalog` says of all of these at
  once that they are contents which the row has had and, unless the ID was
  usurped, the tenant's own (`Granted`, `EntriesGranted`, `RowsGranted`).  It
  needs the step an operation can be at and what it holds there (`Shaped`), and
  that the fresh ID of an inline plan is in no other request (`InlineApart`), or
  its Upsert could change another tenant's row unnoticed.  It is inductive because
  rows are never removed, keep their tenant and only gain history (`Grows`).
* `WritersAreCurrent`, `DeletesHold`, `FeaturesAsDocumented`: until two operations
  overlap, which is a premise of the properties (`calm`; `deleted_plan` shows
  why) and so no hypothesis of the theorems.  `Calm` says that the one operation
  under way has checked, puts and files what is in the table (`AllCurrent`), that
  the writer's entries are what the table says (`WriterExact`), and that a
  deleted plan is cached only where a message is on its way or was lost
  (`DeletedDropped`).  Between the row and the cache a write has no writer, so
  the invariant asks nothing until the plan is put or dropped; then no other
  tenant has an entry of it, which is `EntriesGranted` again.  That the features
  are those of the documented order is `DocumentedFeatures`, a fact about
  `ResolveFinalFeatures` for terms that pass the hard rules.

* `SignedTypeCorrect`, `PayloadsAreOwn`, `BindingsAreRecent`,
  `ReleasesEndBindings`: for any requests, clients, activations and objects, with
  no further hypothesis.  `WrittenStays` says that what a request has written to
  the shared object is there until another one writes.  For the other two,
  `CleanInv` says that what was released stays released, that the entry is
  younger than every release that has been answered (`EntryIsFresh`), and that
  neither an object nor a request that has it holds an activation released
  before the object was cached (`ObjectsAreClean`).

The proofs use the named assumptions on the constants (`KeysAssumption`,
`EntryAssumption`, `DBAssumption`, `ServiceAssumption`, `PoolAssumption`,
`AuditAssumption`, `LifecycleAssumption`, `TenantAssumption`,
`AccessAssumption`, `WebhookAssumption`, `RateAssumption`,
`MigrationAssumption`, `L2Assumption`, `FailAssumption`, `SignedAssumption`,
`CatalogAssumption`);
hypotheses that the code does not guarantee (`IdemKeysApart`,
`UniqueVersions`, `NeedsEarlier`, `SelfCommittingNeeded`, `Preloaded = {}`,
`BlocksKept`) stand in the theorems that need them.
Some theorems state properties that no run checks besides: the type invariants,
`SeatInv`, `SeatGrantedOnActiveLicense`, `PoolNeverShrinks`,
`SettledIsFinal`, `OneBucketPerKey`, `CountsAMinute` and `EntriesGranted`.
Model-checked only: liveness (`EveryRequestAnswered`, `AcceptedJobsSettle`,
`AuditEntriesSettle`, `ShutdownEnds`, `DeliveriesSettle`, `MigratorsEnd`,
`Recovers`, `OutageOpens`), which needs fairness, and the coherence of the caches
(`PublicIndexCoherent`, `StoreCoherent`), which holds of one instance and one
request at a time only.  Every other property of a run has its theorem.

## 5. Plan

1. Licensing core (done): `License`, `LicenseStore`, `LicenseDB`,
   `LicenseService`, `SeatLedger`.
2. Worker pool, audit trail and shutdown (done): `WorkerPool`,
   `AuditPipeline`, `ServerLifecycle`.
3. Tenants, key rotation and the guards (done): `TenantStore`,
   `TenantAccess`.
4. Webhooks (done): `WebhookDispatcher`.
5. Limiters (done): `RateLimiter`, `FailLimiter`.
6. Plans and features (done): `PlanCatalog`.
7. Circuit breaker of the Redis cache, signed licenses, migrations (done):
   `L2Cache`, `SignedLicense`, `Migration`.
8. Proofs (done): all safety and action properties of the runs but the coherence
   of the license caches.
9. An abstract queue implemented by the worker pool.
10. The license warm-up as several steps, and `InvalidateTenant`, which a
    suspension calls.

Not modelled:

* Products: written through like plans, and nothing reads their cache.
* `validationService`: reached through jobs of the worker pool only, which
  nothing enqueues; the public endpoint has a path of its own, which is modelled.
* The sliding TTL of `LicenseStore.Get`, which after a hit keeps an entry for
  `ttlActive` instead of the 5 minutes of `docs/architecture.md:120`: entries of
  the LRU end at any time in the models, so no property rests on either.
* Cryptography, JWKS, configuration, DTOs, static handlers, the audit query:
  stateless, or pure input and output.
* The command line tools and `migrate admin`: front ends to the same services
  and repositories; a process of theirs is one more instance.  The load test
  measures the service and is not part of it.

`components` in `PROJECT.json` lists every part with its status.
