# Verification of the metering service

TLA+ models of the metering service, TLC runs on small instances and TLAPS
proofs for instances of any size. Paths below are relative to the repository
root.

## The system

The service records usage of applications, per tenant, against a catalog of
meters, and publishes what it records. It is a Go process (`cmd/api`) with an
HTTP and a gRPC front end over one `metering.Service`, a SQL database
(PostgreSQL, Kingbase or MySQL), Redis and an event bus. Several replicas run
at once; nothing is shared between requests but the database and Redis.

| Component | State it keeps | Operations | Interacts with | Correct when |
| --- | --- | --- | --- | --- |
| Meter catalog (`internal/metering`) | `meters` rows with an optimistic `version` | `CreateMeter`, `UpdateMeter`, `GetMeter`, `ListMeters` | writes `meter.changed` outbox rows in its transaction; read by ingestion and queries | no update is lost, codes are unique, events are the history of the rows, answers are true |
| Usage ingestion (`internal/metering`) | `usage_ingestion_keys`, `usage_facts` | `RecordUsage`, `AdjustUsage` | reads the catalog and asks the application-access service before its transaction; writes `usage.recorded` outbox rows in it | one fact per event, batches atomic, facts announced once and authorized, answers true |
| Usage queries (`internal/metering`) | none | `QueryUsage`, `GetUsage`, `AggregateUsage` | read facts outside transactions | pages lose nothing, totals match rows, windows are where they say, only authorized data is shown |
| Transactions (`internal/database`) | the open `sql.Tx` in a context | `Within` | every write path | all or nothing |
| Outbox runtime (`internal/app/metering_eventbus.go`) | outbox rows, a bus connection, two goroutines | dispatch, clean, start, stop | reads outbox rows, publishes on the bus | no event is lost, nothing runs on a closed bus, stop returns |
| HTTP front end (`internal/transport/http`) | idempotency records and rate-limit windows in Redis | middlewares, handlers | calls `Service` | a response stays with its request, success is true, a key is executed by one request at a time and never stays blocked |
| gRPC front end (`internal/transport/grpc`) | the same idempotency records | interceptors, handlers, start, stop | calls `Service` | the same; a call that stop cuts off still finds what it uses |
| Scheduler (`internal/scheduler`, `internal/cache`) | a Redis lock with a TTL | cron job, `TryLock`, `Unlock` | other replicas through Redis | one replica runs the job, a late unlock removes nothing of others |
| Outbound clients (`internal/outbound`, `internal/grpcclient`) | circuit breakers | retried calls | other services | plain calls are not repeated, bodies are closed, the breaker opens on failures only |
| Migrations (`internal/migration`, `migrations`, `cmd/migrate`) | schema, version and dirty mark, locks | `Run` up and down, `createSchema`, expand and contract files | the tables above; every starting replica | a clean version is the schema's, nobody collides, a replica serves rows that have an application |
| Lifecycle (`internal/app`, `cmd/api`) | hooks of the container, open resources | constructors, start, stop, rollback | everything | a dependency outlives its users, exit code 0 is true, replicas end up serving |
| Configuration, health, logging, metrics, tracing, auth primitives | none beyond start-up | | | |

What is hard here: requests of several replicas meet only inside the database,
where statements wait for uncommitted rows of others; `RecordUsage` and
`UpdateMeter` use values they read before their transaction; a commit may take
effect although its caller sees an error, and callers then resend; a batch can
fail at any of its inputs; the two drivers differ in isolation and collation;
locks and idempotency records expire while their holder is still running;
replicas and an operator migrate one database at once and may die half way; start
and stop have one deadline each, shared by ten hooks, while work goes on.

## Modules

| Module | Models |
| --- | --- |
| `MeterCatalog` | the meters table, its outbox rows, `CreateMeter` and `UpdateMeter` |
| `UsageIngestion` | `RecordUsage` and `AdjustUsage`, running against `MeterCatalog` (which it extends) |
| `UsageLedger` | what ingestion promises: batches posted atomically to a ledger |
| `UsageQueries` | `QueryUsage` and `AggregateUsage`, page by page, while facts are committed |
| `OutboxRuntime` | start and stop of the event runtime, its dispatching and cleaning goroutines |
| `HTTPRequests` | POST requests through the middlewares and unary gRPC calls through the interceptors, and their idempotency records |
| `CronLock` | the scheduled job and its Redis lock on every replica |
| `OutboundCalls` | retries and circuit breaker of the HTTP and gRPC clients |
| `Migrations` | `migration.Run` by replicas and by the migrate command, on a database the earlier release may still write to |
| `Lifecycle` | constructors, start and stop hooks of one replica, extending `Migrations`, whose `Run` is the replica's first step |
| `MC*` | instances for TLC |
| `MeterCatalogProofs`, `UsageIngestionProofs`, `UsageQueriesProofs`, `OutboxRuntimeProofs`, `HTTPRequestsProofs`, `CronLockProofs`, `OutboundCallsProofs`, `LifecycleProofs` | theorems and their proofs |

A definition that stands directly before one of nearly the same name
(`SetUnconditionally` before `SetKey`, `TickKeepingKey` before `Tick`) is a faulty
variant of it. No specification uses it; replacing the original by it must make
TLC report the property that guards against that fault.

### MeterCatalog

`Calls` are executions of the two operations, in any number and on any replica.
A call's `cpc` is where it is in the code: `get` is the `GetMeter` of
`UpdateMeter`, outside any transaction; `write`, `event` and `commit` are the two
statements and the commit of the transaction. `meters` and `meterEvents` hold
committed rows only: what an open transaction has written follows from the
call's input and from `cread`, and `ApplyCall` makes it visible. Locks are what
`RowLocked` and `CodeReserved` say: an `UPDATE` or `INSERT` waits for the row or
the unique-index entry of another open transaction, and evaluates its `WHERE`
on the committed row. A call's name stands for the uuid, name and description it
writes, which makes every write distinguishable.

`RejectCall` chooses freely whether the input is malformed: validation is
stateless and which inputs fail it does not matter to the properties.

### UsageIngestion

A request of `Requests` is one `RecordUsage`. `check` is the loop over the
inputs before the transaction (`RefuseItem`, `AcceptItem`), with `verified` and
`seen` for the `verifiedScopes` and `meters` maps of the code; `claim`, `select`
and `insert` are the statements of the loop inside the transaction; `events` the
outbox rows, one per scope; `commit` the commit; `fetch` the `GetUsage` with
which the gRPC `AdjustUsage` ends. `claimed`, `inserted` and `logged` are the
uncommitted rows of the open transaction. A claim waits while another open
transaction holds the key (`Blocked`), and a cycle of waits ends with one
`DeadlockVictim`, as both databases do.

The drivers differ in two constants. `Driver` decides what the `SELECT` of
`ClaimUsage` sees: committed rows on PostgreSQL, the read view fixed by the
transaction's first `SELECT` on MySQL (`Within` asks for the default isolation).
`Collate` maps an event id to its key under the column's collation, the identity
on PostgreSQL.

Faults, when `Faults` is set: a statement, the commit or the process fails at
any point (`Abort`), and a commit takes effect without its answer
(`CommitUnacknowledged`).

### UsageLedger

One action per visible outcome: `Post` records a batch at once, giving every
input either a new fact or the fact that already carries its event, and announces
the new ones; an answer may follow later. `ImplementsLedger` says that
ingestion, seen through its committed tables and its answers, behaves so.

### UsageQueries

A client walks through the pages of one query, each a call of `QueryUsage`, until
a page is not full. A call makes its checks (`Refused`, `Accepted`), then runs two
statements outside any transaction, the totals (`Summarize`) and the rows
(`SelectRows`). `CommitFacts` stands for the commits of `UsageIngestion` and may
come between any two of them; `FactsOnlyAdded` proves that ingestion commits nothing
else. `shown` are the points the client has received, page after page, and `since`
what was committed when it began. Time is counted in half hours from January 1 in
Asia/Shanghai, so that hours, days and months have boundaries; `ProcessZone` is
the location in which Go sees the timestamps, and `aggregation`, chosen at the
start, the meter's. Every year is a common year. The rows of a page are the groups whose `Rank`, the
number of groups before them in the `ORDER BY`, lies between `OFFSET` and `OFFSET` +
`LIMIT`. Two details of the code are kept:
the checks trim `tenant_id` while the `WHERE` clause compares it as sent (a padded
query passes and finds nothing), and a page past the end is empty, not an error.
A client that stops at the `total` of an earlier page instead of at a short page
may miss a group that a concurrent commit has pushed on: the properties are about
the walk up to the short page.

### OutboxRuntime

`phase` is the life of one replica's runtime, with the failure paths of `start`
and the order of `stop`: cancel, wait, close. `dispatch` and `clean` are the two
goroutines with their `select` loops. The dispatcher and the cleaner are a library
outside this repository, modelled from the columns of the outbox table and from
how they are configured: claim with a lease, publish, mark. A publish may store
its event and lose the answer, a claim comes back when its lease ends, and a
replica may die between any two steps. `CommitRow` stands for the commits of the
catalog and of ingestion. `MaxFaults` bounds failures, crashes and stops.

### HTTPRequests

A request is refused by one of the middlewares (`Refuse`) or admitted under its
deadline (`Admit`); with a key on an idempotent route it goes through
`IdempotencyExecution`, whose calls of `Manager.Begin`, `Complete` and `Fail` are
steps of Redis (external, modelled from their use). The handler is an effect that
becomes durable and an answer after it, which may be an error although the effect
took place; what handlers do is the subject of the modules above. `left` and `ttl`
count ticks to the deadline and to the expiry of a record. A request whose
deadline has passed returns before the next tick: every blocking call of the
handlers takes the request's context. Redis may fail in every call, and a replica or
a connection may be lost while a request is on its way (`Crash`). A panic may occur in the
middlewares behind `Recovery`, in `Begin` and in the handler (`Panic`); after the
response is written only the library's store call is left, and a panic there is not modelled.
`responseCapture` writes to the client while it captures, so the client of a POST
may have its answer before the record is stored or only when the request is done:
`Respond` allows both, and what has reached the client is not taken back (`Reply`).
The rate limiter is its verdict, including `rate_limit.fail_open`.

A request whose route is in `GRPCMethods` is a unary gRPC call. It shares the keys
and the Manager with HTTP and differs in two ways: the interceptors refuse it for
other reasons (`CallRefusals`; there is no rate limit, no body limit and no origin),
and nothing gives it a deadline but its client (`wait`), so a call may outlive
the processing TTL. `age` counts the ticks since a request took its key. The
interceptor that executes calls under a key is a library and is taken to use the
Manager as `IdempotencyExecution` does.

### Migrations

A table's shape is the number of the migration that last changed it; of its rows
only matters whether some have an `application_id` (`scoped`) and some have not
(`unscoped`). A process takes the advisory lock and creates the schema
(`LockAndCreate`, `CommitSchema`; not on MySQL), takes the migration lock, reads the
version and applies files one by one: `MarkDirty`, `Alter`, `ClearDirty`. On
PostgreSQL a file is one transaction, on MySQL every `ALTER TABLE` commits, so
`Alter` changes both tables or one (`Batch`). golang-migrate is external and modelled
from its documented protocol and from how `Run` treats its results. A replica migrates up whenever
it starts, the migrate command runs once, up or down, by some steps or to the end, and
never down under a running service. Its exit code is not modelled, so asking for more
steps than there are files, which golang-migrate reports as an error, ends it like any
other run. `OldWrite` and `StopOld` are the earlier release,
`Backfill` the operator's part of `migrations/README.md`. `createSchema` checks that
the schema exists only by `IF NOT EXISTS`, which two transactions can both pass: the
commit of the second fails (`CommitSchema`). `MaxFaults` bounds crashes, here and in
`Lifecycle`.

### Lifecycle

One replica, `App`, beside the processes of `Migrations`. Its migration done, the
constructors open what `Constructed` names, `Run` starts the hooks of `Hooks` in
order, and a signal stops them in reverse. The facts about fx that the module uses:
a hook that fails to start is not stopped itself, the ones before it are; an error
of a stopping hook does not end the chain, but the exit code is then 1 (`Stopped`); no hook is begun once the deadline has
passed, and fx does not wait for a running hook beyond it (`Abandon`). `Start`,
including its rollback, and `Stop` have one deadline each (`expired`). `work` is a
request, a call, a job and a pass of the event loops; it begins while its hook
accepts it and uses what `Needs` says. Stopping hooks differ as the code does: HTTP and cron return
at the deadline, gRPC then closes the connections of calls whose handlers
go on (`cut`), and the event runtime waits without looking at its context. A server whose `Serve`
fails is only logged: the replica stays up without it (`ServeFails`). After a
failing event bus, `outbound` and `verifier`, whose hooks come later, are never
closed; the process exits.

### CronLock

`Fire`, `SetKey` or `Taken`, `Acquired`, `JobEnds` and `Unlock` are `runSample` on
one replica; `LockFails` and the failing half of `Unlock` are lost calls to Redis,
`Die` a replica that ends. The lock library is external: `SET NX` with a random
value and deletion of the same value. A job may outlive the TTL
(`MaxAge`). `WithoutRedis` are replicas that have no
locker and run the job unguarded, as `redis.enabled = false` makes them; the
exclusion property does not speak of them.

### OutboundCalls

One module for both clients, since both put a shared breaker around a retry loop;
`protocol`, fixed from the start, selects what is retried, what the breaker counts and
its threshold. `bodies` are the responses a call still has to close or hand on:
`Attempt` closes one that is followed by another attempt, `Settle` gives the last one
to the caller (`Handed`), a busy one by way of the `statusError`. The breaker is
the gobreaker library (external), modelled from its settings. Whether it asks
`IsExcluded` about a gRPC call without error is left open: both verdicts are
allowed. Two details of the code are kept: an HTTP call with a malformed path
counts as a failure of the upstream, and over gRPC a deadline that passes during
the backoff counts as nothing because the error has no gRPC code.

## Runs

| Run | Instance | Shows |
| --- | --- | --- |
| `catalog` | 2 calls beside one that has created a meter, 2 codes, versions up to 2, faults | rows, codes, versions, events and answers agree in every interleaving; a call that starts is answered |
| `ingestion` | 2 requests from 13 batches, 2 catalog calls (one has created the meter, one runs), faults, PostgreSQL | one fact per event, batches atomic, outbox exact, answers true, scopes authorized; implements the ledger |
| `ingestion_mysql` | 3 requests from the 4 batches that race, faults, MySQL | the ledger is implemented under read views too; an accepted request is answered, deadlocks included |
| `mysql_snapshot`, `mysql_collation` | violations | see the findings |
| `http` | 2 requests or calls from 16 inputs, one key, TTL 2, deadlines of 1 and 1, clients that wait 1 or 2 | responses stay with their request, success is true, an execution younger than the TTL holds its key, late results of older ones replace nothing; every admitted request, with a key or without, is answered, no key stays blocked |
| `outbox` | 2 replicas, 2 events, 2 faults | no event is lost, nothing runs on a closed bus, ends are clean; committed events reach the bus, stop returns |
| `queries` | 6 facts around March, 18 queries, each of the four aggregations | a complete walk shows every earlier fact in the one window it lies in, quiet walks agree with the totals, points of `max` and `last` are never older than the walk, only authorized data is shown |
| `windows_utc` | violation | see the findings |
| `cron` | 3 replicas, one without Redis, jobs of up to 3 ticks with a TTL of 2 | two jobs younger than the TTL never run together, late unlocks remove nothing of others, no key stays |
| `lifecycle` | a replica and a migrate command, both drivers, an empty or an earlier database, 2 faults | clean versions are true, nobody collides, replicas serve scoped rows; work finds its resources open, exit code 0 is true; replicas serve in the end unless the version is dirty |
| `outbound` | 3 calls, 2 attempts, over HTTP with threshold 2 or over gRPC with threshold 1 | plain calls are applied at most once, bodies are closed or handed on, the breaker opens only on failures of calls it let through since it closed |

Bounds of the core runs. Two requests are enough for a claim to meet a committed
key, a held key, a rolled-back key, its own key and a cycle; the third request of
`ingestion_mysql` is needed for a read view that is older than a commit it
collides with. Two event ids allow opposite orders, and two scopes of two tenants
allow a conflict. Batches have at most `MaxRecordBatch = 2` inputs and one
submission exceeds it. `MaxExpected` bounds the version a client sends; every
version from invalid (0) to stale occurs.

Bounds of the others. Two catalog calls over an existing meter meet in every pair
of operations; the theorems cover any number. The facts of `queries` lie on both
sides of an hour, a day and a month, two of them share a group and a time, and page
sizes 1, 2 and 20 put boundaries everywhere; each query of `Refusable` fails a
different check. In `http` two requests meet under one key in every pair of inputs;
the ticks are the smallest that order deadline, persistence and expiry both ways:
a POST ends with its record (1 + 1 against 2), a call with a longer wait after it. Two replicas and two events let one replica hold a row
whose lease the other takes over, and two faults allow a crash after a failed
publish, or the failure of both dispatchers. Two executions per replica let an old
unlock meet a new lock. Three calls over HTTP make a threshold of two
add up and be tried again; over gRPC, with a threshold of one, the third call can end after
the breaker has opened on the first and closed again on the second. A replica and a command are
enough for two processes to meet at every step of `Run`, and two faults for a crash
in the middle of a migration followed by one in the next attempt, or for a failed
start whose rollback expires; three processes with one fault were checked as well.
Symmetry, where used, is on
requests or calls: they are only compared for equality, and the runs that use it
check no liveness.

Fairness. `CallStep`, `RequestStep`, `PostStep` and `JobStep` are weakly fair for
whatever has started: goroutines are scheduled, the database serves a statement
whose lock is free and resolves deadlocks, and calls to Redis have timeouts. Time
passes (`Tick`, `Reappear`). In the outbox runtime the loops run, a replica that
ends is started again by its deployment, and the `Done` case of a `select` is
strongly fair: Go chooses at random among ready cases, and the loop comes back to
the `select`. In `Lifecycle` migration
steps, constructors and start hooks are taken, the deadline of a stop passes, fx
gives up after it, and the deployment starts an ended replica again; work need not
end, and hooks need not stop in time. Nothing is assumed of clients, and no fault is ever required to
happen. No fairness is assumed between requests that compete for one key: a
request is passed over only finitely often because each competitor ends.

## Theorems

`MeterCatalogProofs` proves, for any number of calls and codes and any fault
pattern, the type invariant and all safety properties of the catalog. The
inductive invariant `CatalogInv` adds to them what open transactions rely on:
ids are unique, a call that holds a row's lock still finds the version it
matched, and the row read before the transaction agrees with the locked one
whenever the expected version matches (so the event filled from it is right).

`UsageIngestionProofs` proves, for any requests, batches of any size and either
driver:

| Theorem | States |
| --- | --- |
| `UsageTyped` | type invariant |
| `IngestionIdempotent` | `OneFactPerEvent` |
| `IngestionAnnounced` | `FactsAnnouncedOnce` |
| `IngestionAuthorized` | `FactsAuthorized` |
| `AnswersRecorded` | `AcknowledgedIsRecorded` |
| `BatchesAtomic` | `BatchAtomic` |
| `AdjustmentsReadable` | `AdjustmentReadable` |
| `IngestionImplementsLedger` | the refinement `ImplementsLedger` |
| `FactsOnActiveMeters` | the action property `MeterActiveWhenRead` |
| `FactsOnlyAdded` | `usage_facts` only grows, by finite batches, and ids are unique: what `UsageQueries` assumes of the commits during a walk |

The properties speak of committed rows only and are not inductive. `UsageInv`
adds that keys held by open transactions are exclusive and not committed, that
the facts and events of a transaction are those of its keys, that a fact's
request has left its transaction (so it commits once), and that inputs past the
checking loop are authorized. `AnswerInv` adds that a request's results name rows
that are committed or its own, and that a MySQL read view is a subset of what is
committed now. Each action has one lemma for its effect on its own request
(`...Effect`), a frame lemma covers the other requests, and only claims and
commits touch the global parts. The assumptions are `CatalogAssumption` and
`UsageAssumption`, which say what kind of values the constants have.

The refinement maps each step: a failure is the ledger's `Refuse`, either commit is
`Post`, the read that ends `AdjustUsage` is `Confirm`, and every other step leaves the
tables and answers as they are. `Post` asks that a result naming an input of its own
batch names one that does not come after it, which `LedgerInv` adds to `AnswerInv`
(`Backward`): a duplicate inside a batch points back to the input that was recorded.
`MeterInv` combines `UsageInv` with the invariant of the catalog and says that every
row a request has seen was active, is in the history of events, and has only been
replaced by later versions since (`MetersRead`); a commit then adds facts
of such meters only. `FactsOnlyAdded` needs beside the types that a fact is the one
built for the input its id names (`Identified`).

`UsageQueriesProofs` proves, for any facts, queries, page sizes and commits between the
statements:

| Theorem | States |
| --- | --- |
| `QueryTyped` | type invariant |
| `OnlyAuthorizedShown` | `ShownAuthorized` |
| `PointsNeverStale` | `PointsUpToDate` |
| `WalksSkipNothing` | `FactsInOneWindow`, if the process is not in a time zone behind that of the buckets (`ProcessZone` from 0 to 47) |
| `QuietWalksExact` | `QuietWalkExact` |

`QueryInv` says that rows are read only after the checks (`Checked`), that every point
received is a group of some state of the table between the start of the
walk and now (`PointsTrue`), and that every fact the walk began with has been received or
has its group at or after the offset of the next page (`NothingPassed`). The last
is stable because a commit adds groups and removes none, so that a group's rank only grows
(`RankGrows`). Ranks are a bijection with the positions because the `ORDER BY` is a total
order of the groups (`GroupsOrdered`, `BelowCovers`); the same lemmas show that `MAX` and
the latest row exist. `WindowOfBucket` is the calendar: a time lies in the window of a
bucket if and only if that is its bucket. Its premise on `ProcessZone` is the other
side of the finding `windows_utc`: in a process west of the buckets' zone it fails
for months. `QueryAssumption` says what kind of values the constants have and that ids
are unique.

For quiet walks `QuietPages` says more: as long as nothing has been committed since the
start, the points received are the groups of ranks 0, 1, 2 and so on, up to the offset of
the next page, and the totals read are those of the table; a page that is not full has
reached the last rank (`Slice`). A complete walk has then shown each group once. That the
points add up is a matter of sums over finite sets. `SumOf` is a fold, and the provers
cannot use an induction principle, but a set of counterexamples has a smallest
member (`SmallestSet`, from the well-foundedness of strict inclusion), which gives
the equation of the fold (`SumStep`), that any element may be added last (`SumElement`),
and that sums add up over a partition (`SumOfParts`). `GROUP BY` is such a partition
(`GroupsDivide`), so the total of a sum or count meter is that of its facts.

`OutboxRuntimeProofs` proves, for any number of replicas, events and faults,
`OutboxTyped`, `NothingIsLost` (`NothingLost`) and `LoopsRunOnBus` (`LoopsHaveBus`).
`OutboxInv` adds that what a dispatcher may mark is on the bus (`AckedStored`), that it
holds rows only inside `RunOnce` (`InHand`), that the bus is open
exactly in the phases between connecting and closing (`BusOpen`), and in which phases a
loop may run (`LoopsLive`): `stop` closes the bus only after both have returned.

`OutboundCallsProofs` proves, for any number of calls over either protocol, any number of
attempts and any threshold:

| Theorem | States |
| --- | --- |
| `OutboundTyped` | type invariant |
| `PlainCallsApplyOnce` | `PlainAppliedOnce` |
| `ResponseBodiesAccounted` | `BodiesAccounted` |
| `BreakerOpensOnFailures` | `OpensOnFailures` |
| `HalfOpenProbesOnce` | a half-open breaker has at most one call of its generation under way, an open one none |

`CallInv` relates, call by call, the stage of a call to its attempts, its result and its
open bodies. `OpensOnFailures` is about a count, so `FailuresBacked` says that there are
as many finished, failed calls of the breaker's generation as it has counted; in a new
generation there are none yet, because no call is of a later one (`ProbeInv`), and
canceled calls are no failures. `ProbeInv` also says that the one slot of the half-open
state is taken by the call that is under way in this generation.

`HTTPRequestsProofs` proves, for any requests, keys, timeouts and failures:

| Theorem | States |
| --- | --- |
| `HTTPTyped` | type invariant |
| `ResponsesStay` | `ResponsesStayWithRequest` |
| `SuccessIsEffect` | `SuccessMeansEffect` |
| `OwnersStay` | `RecordsKeepOwner` |
| `KeyHeld` | `KeyHeldWhileExecuting` |
| `KeyHeldThroughout` | every execution holds its key to its end, if its deadline and `PersistTimeout` fit into the TTL |

`HTTPInv` is the inductive invariant of the first four: admitted requests are
authorized (`StagesInv`), a record's fingerprint is its owner's and a completed
record's owner has had its effect (`RecordsInv`), and answers come from such
records or from their own handler (`AnswersInv`). `HeldInv` adds, for the last
two, that a request younger than the TTL owns its record with `ProcessingTTL - age`
ticks left, and that its age and the time it has left stay within its deadline. The
premise of `KeyHeldThroughout` holds for POSTs in the default configuration (10s and 2s
inside 30s), but `Config.Validate` (`config.go:563`) does not ask for it, and the
deadline of a gRPC call is its client's: `http` therefore also runs calls that
outlive their key.

`CronLockProofs` proves `CronTyped`, `CronExclusive` (`JobsExclusive`) and
`LateUnlockHarmless` (`OthersLockKept`), for any number of replicas, any durations and
any pattern of lost calls and deaths. `CronInv` adds to the types that an execution
whose `SET` has reached Redis owns the key, as long as it is younger than the TTL,
and that the key has at least `TTL - age` ticks left (`Covered`): it cannot expire
under a job that fits.

`LifecycleProofs` proves, for any number of replicas, migrate commands and faults:

| Theorem | States |
| --- | --- |
| `LifecycleTyped`, `MigrationsTyped` | type invariants |
| `VersionsTellSchema` | `VersionTellsSchema` |
| `MigrationsSerialized` | `NobodyCollides` |
| `ReplicasServeScoped` | `ServesScopedRows` |
| `ResourcesOutliveUsers` | `UsersHaveResources` |
| `CleanExitTrue` | `CleanExitFinishedAll` |

`MigrationsInv` adds to the properties who holds which lock (`LocksInv`), which
tables a running file has already changed (`FilesInv`), that a table which requires an
application has no row without one (`RowsInv`), and that nobody migrates down beside a
replica, which therefore always has enough migrations left to reach the last one
(`ReplicasInv`). `HooksInv` orders resources and work by the hook they belong to:
until the deadline work exists only at started hooks and needs only what
earlier hooks close (`NeedsPositions`); after it nothing is closed any more but the bus, whose
hook has waited for its loops. The assumptions are `MigrationsAssumption` and
`LifecycleAssumption`.

Most type invariants, and the uniqueness of codes in the catalog, are proved and not
repeated in the runs.

Each inductive invariant was checked with TLC, as an invariant of the run's instance or
of a smaller one, before it was proved.

Only model-checked: the eight liveness properties (`RequestsAnswered`, `CallsAnswered`,
`PostsAnswered`, `KeysFreed`, `EventsPublished`, `StopReturns`, `LockFreed` and
`ServesUnlessDirty`), because TLAPS does not handle fairness. Every other property that
a passing run checks is also a theorem.

## Findings

- `mysql_snapshot`: on MySQL, a batch that resends recorded events can fail with
  an internal error although nothing failed. The first duplicate fixes the
  transaction's read view; `INSERT IGNORE` collides with a key committed later,
  and the `SELECT` that follows does not see it (`repository.go:116`).
- `mysql_collation`: on MySQL the key column has the server's default collation,
  so an event id that differs from a recorded one only in case is acknowledged as
  its duplicate and never recorded (`migrations/mysql/000002_metering.up.sql:5`).
- `windows_utc`: on PostgreSQL, `nextWindow` adds a month in the time zone of the
  process. In UTC, which the image runs in, the window of a month starts where the
  month starts in Asia/Shanghai but does not end where it ends: March ends on
  March 29, 00:00 there (`service.go:330`).

The first two contradict `README.md:35`, "`event_id` makes usage ingestion
idempotent"; the third contradicts `README.md:43`, "with hour/day/month buckets in
Asia/Shanghai".

One more observation, which no run states as a violation: `migrations/README.md`
asks for a backfill, and for the end of the earlier release, between 000004 and
000005, but `config/config-production.yaml:28` sets `auto_up`, so the first new
replica applies both at once. On a populated database 000005 fails and leaves the version
dirty; `cmd/migrate` cannot force a version, and no replica starts until an
operator repairs the table by hand. The data is safe (`ServesScopedRows`,
`VersionTellsSchema`); `<>[]dirty` in `ServesUnlessDirty` is this case.

## Plan

Done, in this order: catalog, ingestion and its ledger; HTTP requests; outbox
runtime; queries; cron lock; outbound calls; gRPC calls; migrations; lifecycle.

The components are composed pairwise: ingestion extends the catalog, the lifecycle
contains the migrations, and queries run beside the commits that ingestion is proved to
make. A further step would be one module of ingestion, outbox and idempotency together
(a recorded fact is published at least once; a repeated HTTP request has one effect
whatever expires), which today has to be put together from `FactsAnnouncedOnce`, `NothingLost` and
`EventsPublished`, and from `KeyHeldThroughout` and `OneFactPerEvent`.

## Not modelled

`ListMeters`, the standalone `GetMeter` and `GetUsage` are single `SELECT`s that
change nothing. Configuration loading, health probes, token parsing and pattern
matching are pure or stateless. Logging, metrics, tracing, request ids and generated
OpenAPI have no influence on behaviour. Listening, headers, TLS and `pprof` are
I/O. Rate-limit counters belong to an external limiter. The service registers no
streaming method of its own, so the stream interceptors see only health watches
and reflection. `withMigrationOptions` builds the options of a URL; that
they carry the schema and the lock timeout to golang-migrate is assumed. The overflow of
`(page-1)*pageSize` for huge page numbers is outside the unbounded integers of
`UsageQueries`; the database then refuses a negative offset.
