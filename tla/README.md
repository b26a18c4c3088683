# IotEdgeDB in TLA+

IotEdgeDB is a time-series database: write calls append columnar batches to a
write-ahead log and to sharded memory buffers, buffers are flushed as Parquet
files to object storage, files are compacted, tiered and queried through DuckDB,
and several nodes may share one file manifest, their tokens and their RBAC tables
through Raft. This directory specifies the parts of it whose correctness depends
on the order in which concurrent steps, failures and restarts happen. All paths
are relative to `src/`.

## 1. The system

### Components

The last column names the modules; `PROJECT.json` says what each leaves out.

| component | source | state it keeps | hard behaviour | what makes it correct | modelled in |
|---|---|---|---|---|---|
| ingest buffer | `internal/ingest/arrow_writer.go` | shard maps, flush queue, failure flag | the shard lock is released around storage I/O; bounded queue; cancellation | a batch is in exactly one place; flushes are uniform; nothing is announced before it is stored | `ArrowBuffer`, `BufferContract` |
| write-ahead log | `internal/wal/*.go` | entry channel, current file, sync counter, directory | torn writes, crash, rotation against purge and recovery | the log keeps order and content; what is removed was replayed or is old | `Wal` |
| wiring of the two, shutdown | `cmd/iedb/main.go`, `internal/shutdown/shutdown.go` | failure flag, maintenance goroutine, hooks and components | purge against replay, order of hooks, timeout between steps | an entry always has a copy until it is durable | `IngestPipeline`, `Schedulers` |
| Raft FSM: tokens, RBAC | `internal/cluster/raft/fsm*.go` | primary maps and indexes | snapshots, cascades, entries applied by every node | every replica agrees, nothing dangles | `AuthState`, `AuthReplica` |
| Raft FSM: files | `internal/cluster/raft/fsm.go` | file manifest | callbacks against catch-up | see file replication | `FilePuller`, `Compaction` |
| mirror of tokens and RBAC | `internal/auth/cluster_apply.go`, `cluster_rbac_apply.go` | SQLite tables | replay after a restart, callbacks set late | the tables agree with the FSM | `AuthReplica` |
| auth and RBAC caches | `internal/auth/auth.go`, `rbac_manager.go` | verified tokens, loaded data, results | one connection, one lock; invalidation after the write; TTLs | staleness is bounded and its reasons are known | `AuthCaches` |
| coordinator, registry, health, compactor failover | `internal/cluster/*.go` | membership, lease, views of the nodes | hooks in goroutines, elections, lag, restarts | who compacts holds the lease; the lease moves on | `CompactorLease` |
| WAL replication | `internal/cluster/replication/*.go` | sequence, buffer, readers, positions | overtaking writers, full buffer, replaced connections, restarts | readers apply in order, lose only for known reasons, reconnect | `Replication` |
| file replication | `internal/cluster/filereplication/*.go`, `internal/storage/local.go` | queue, in-flight set, catch-up tags, staging files | callback against walker against workers; the gate read without a lock; resumed and corrupted fetches | one pull per path; only verified files get their name; the gate opens when catch-up's files are there | `FilePuller` |
| compaction, completion bridge | `internal/compaction/*.go`, `internal/cluster/compaction_bridge.go` | manifests in storage and on disk, running jobs | kill, crash and failing I/O between upload, manifests and deletions | a row is in exactly one live, listed file | `Compaction` |
| reconciliation | `internal/reconciliation/*.go` | - | two lists read at different times | no live file is removed | `Compaction` |
| tiering | `internal/tiering/*.go` | tier of each file (SQLite) | concurrent cycles, crash between copy, record, delete | the recorded tier holds the file; a cycle repairs | `StoredFiles` |
| deletes, retention, drops, tiers of a query | `internal/api/{delete,retention,databases,query}.go` | temporary files, cached SQL | no lock between them, tiering and compaction | no row is lost, hidden, counted twice or back from deletion | `StoredFiles` |
| continuous queries and retention schedules | `internal/scheduler/*.go`, `internal/api/{continuous_query,scheduler}.go` | goroutines of queries, last processed time, `runningJob` | overlapping restarts, failing executions, shutdown | one execution at a time; windows meet; `Stop` returns | `Schedulers` |
| storage backends | `internal/storage/*.go` | files | - | external, modelled from its use | in its users |
| query engine | `internal/database`, `query`, `pruning`, `sql` | pools, caches | the cache of SQL texts | see tiering | `StoredFiles` (the cache) |
| writer failover, router | `internal/cluster/{writer_failover,router}.go` | primary | nothing issues the first promotion | - | not modelled |
| ingest parsers; wire protocol and HMAC; circuit breaker; query registry and quotas; MQTT; backup; throttle and memory trimming; license, telemetry, audit, metrics, logging, agent, MCP | `internal/...` | little or none over calls | - | - | not modelled, see 7 |

### How they interact

A request handler calls `ArrowBuffer.WriteColumnar`, which appends the payload
to the log (`wal.Writer.AppendRaw`; an error is logged, never returned) and then
appends the batch to the buffer of its key under the shard lock. A full buffer
goes through the bounded `flushQueue` to a worker; an aged one is taken by
`periodicFlush`; a schema change makes the handler itself flush. Each flush
writes one file per hour, then announces the files to tiering and, through Raft,
to the manifest. A failed flush sets `hasFlushFailure`, which the maintenance
goroutine of `main` polls: it purges old log files on each tick and, when the
flag is set, replays the log into the buffer. At startup `main` replays the log
before the server accepts requests; at shutdown the coordinator runs all hooks
(among them the stops of the two schedulers and a purge of the log) and then
closes components (buffer, then log).

The hook of `AppendRaw` numbers the entry and hands it to the `Sender`, whose one
goroutine writes it to every connected reader. A file that the manifest gains is
pulled from a peer by every node that lacks it. The node that holds the compactor
lease, assigned by the leader through Raft, runs the compaction schedulers: jobs
are subprocesses that leave manifests, the completion watcher turns those into
Raft commands, and the reconciler compares the manifest with storage. Tiering,
deletes, retention and compaction work on the same files of a standalone node
without knowing of each other; a query reads the tiers that `tier_files` names.

Commands on tokens and RBAC go through Raft; every node's FSM calls back into
`auth`, which keeps SQLite tables; requests are checked against caches in front
of those tables. A continuous query is a goroutine that aggregates a window,
writes the result through the ingest buffer and records where the window ends.

## 2. The plan

What was modelled, in this order, most important first:

1. `ArrowBuffer`, its abstract specification `BufferContract`, `Wal`, and their
   composition `IngestPipeline`; theorems about `ArrowBuffer`, among them that it
   implements the contract, and about log and composition.
2. `FilePuller` with its theorems.
3. `AuthState` (the FSM as functions of state and entry) and `AuthReplica` (a
   node with log, snapshot and mirror).
4. `Compaction` with the watcher and the reconciler; its theorems.
5. `CompactorLease` over registry, failover manager, FSM callbacks and schedulers;
   its theorems.
6. `AuthCaches` with its theorems.
7. `StoredFiles`: tiering against deletes, retention, compaction, flush, queries; its theorems.
8. `Replication` with its theorems.
9. `Schedulers` with its theorems.

Left, in the order of what they would add: the first promotion and failover of
the writer, once the code issues one; reconnection, admission and the delete
workers of the coordinator; backup against concurrent flushes and migrations;
subscriptions of MQTT; the partition pruner as operators against a reference
definition. Proofs left: `PurgedIsDurable` and
`NeverWithoutCopy` with failing file writes, which takes what a reader may skip of a torn file.

## 3. The modules

Each module is one specification; an `MC` module gives the values that a
configuration cannot spell, and the symmetry sets. Bounds are constants with
"bound" in their comment, or named `Max...`. History variables (what was asked,
lost, blamed, excused) are declared as such and never read by a guard.

Where the code can break what its comments promise, the property names the
exception, and the exception is raised by the step of the code that causes it
(`excused`, `blame`, `lost`, `why`, `raced`...). So a property reads: this holds,
and these are all the ways in which it does not. Section 5 lists them.

### `ArrowBuffer`

One variable per field of `ArrowBuffer` and its shards that decides anything
(`buffers`, `counts`, `schemas`, `flushQueue`, `hasFlushFailure`, `closing`,
`ctxDone`), and the program counters of the goroutines: `pc` of each write call,
`fstate`/`flight`/`todoHours` of everything that can be inside
`flushPartitionedData`, `sweep` and its loop variables for each `FlushAll` call
and for `Close`. `stored`, `registered`, `failed`, `dropped` are what became of
the batches.

A batch stands for the rows of one call: it has a key, a column signature, a
number of rows and a set of hours. Conversion, sorting, merging and encoding of
columns are pure and left out; that batches merged together have one signature
is a property (`mergeBatches` type-asserts it).

The lock is not a variable: a critical section without I/O is one action, and a
flush releases the lock between `ExtractKey` and `FinishFlush`. Between two keys
of a sweep, and between two turns of the evolution loop, the code holds the lock
while the model lets others step; a step there commutes with the end of the
I/O just before it, so no state is reached that the code could not reach.

| action | code |
|---|---|
| `EvolveSchema`, `EvolveReturn`, `ChurnExceeded` | `flushOnSchemaChangeLocked` and its bound `schemaEvolutionMaxIters` |
| `CancelWrite` | the request context, looked at on each turn |
| `AppendBatch` | the append under the lock, extraction at `MaxBufferSize` |
| `CheckClosing`, `SendFlush` | `tryEnqueueFlush`: the flag, then the select with its three arms |
| `WriteHour`, `FlushError`, `RegisterFiles` | `flushPartitionedData` |
| `WorkerTake`, `TickerTake`, `BackgroundReturn`, `BackgroundExit` | `flushWorker`, `flushAgedBuffers` |
| `BeginFlushAll`, `SweepShard`, `SweepKey`, `SweepReturn`, `SweepEnd` | `FlushAll` and the same loop in `Close` |
| `CloseFlag`, `CloseCancel`, `CloseWait` | `Close` |
| `ResetFlushFailure` | called by maintenance |

`BufferContract` is the abstract specification: each batch is refused, or held
and then settled exactly once, together with the batches of its flush, as
durable, failed or dropped. `ArrowBuffer!StatusOf` is the refinement mapping.

### `Wal`

A file is a sequence of entries (and `Torn`, the bytes of a failed write); the
disk knows which files still have a name. `WriteEntry` is the whole of
`writeEntry`: write, on failure rotate and try once more, sync at the threshold,
rotate by size or age. `Readable` says what `Reader.ReadAll` may make of torn
bytes. `PurgeOlderThan` is two steps (read the path and the clock, then list and
remove) because the code drops the mutex in between; recovery is one step per
file listing, file, entry and deletion; `ReplayFails` keeps the file.

### `IngestPipeline`

Extends `Wal` with what `main.go` and the shutdown coordinator do. The buffer is
reduced to its contract: a copy in memory becomes durable, fails or is let go;
`ReplayRefused` is the buffer's answer to a replay. `MaxHold` bounds how long a
copy stays in memory, in the ticks of the log. `Exit` is a crash or an exit: only
the directory remains.

### `FilePuller`

One node with a local backend that pulls the files of the manifest from its
peers. Three kinds of goroutine meet: the Raft apply loop, whose callback
enqueues what it registers; the catch-up walker started after Raft is ready; and
the pull workers. A fourth, the query gate, only reads.

`manifest` is what the FSM has registered. `queue`, `inflight`, `tags`,
`failedPaths` and `droppedPaths` are the puller's fields (the atomic counters
beside the three sets are always their sizes). `call` holds the two `Enqueue`
calls, `walker` the page loop of `RunCatchUp`, `worker` the locals of
`processEntry`, `gate` how many of its four atomics a call of `FullyCaughtUp` has
loaded. A file is a sequence of blocks, each the version it belongs to or 0 when a
peer corrupted it; `final` and `part` are `<path>` and the staging file
`<path>.part`. The walker does not look at what its own call did but at the
differences of the three counters around it; `bumped` is the set of those that rose.

| action | code |
|---|---|
| `ApplyFile` | `applyRegisterFile`, `applyUpdateFile`, `onFileRegistered` |
| `InflightAdd`, `SendEntry`, `DropEntry` | `Enqueue`: dedupe, non-blocking send, undo of a drop |
| `FetchPage`, `WalkerAborts`, `SkipSelf`, `MarkCatchUp`, `Classify` | `RunCatchUp` and `GetFilesPaginated` |
| `WorkerTakes`, `WorkerExits`, `Cancelled`, `StartAttempt` | `worker` and the loop of `processEntry` |
| `PullRefused`, `PullBroken`, `PullReceived` | `pullOnce`, `FetchClient.Fetch`, `WriteReader`, `AppendReader`, `Delete` |
| `Settle`, `ReleaseInflight`, `ReleaseTag` | the deferred function of `processEntry` |
| `FullyCaughtUp`, `GateReturns` | `FullyCaughtUp` and the query it lets through |
| `Stop` | cancellation by `Coordinator.Stop` |

Atomicity follows the locks: `inflightRemove` takes two mutexes one after the
other and is two steps, `FullyCaughtUp` is four loads, and a whole fetch, which
nobody but its worker can see apart from the staging file, is one.

`GateMissesOnly` has five exceptions: a drop of the callback that takes the
walker's tag (`DropEntry`); a tag set while a worker is about to release the path or
an older version of it is held (`MarkCatchUp`); a drop that the walker misclassifies
(`Classify`); a size check that passes for the file (`StartAttempt`); no known peer at
the last attempt (`StartAttempt`). Without any one of them TLC finds the gate open
on a missing file.

### `AuthState` and `AuthReplica`

`AuthState` has no variables: `Apply(s, c, i)` is what the FSM makes of command
`c` at log index `i`, for the create, update, delete, rotate and revoke commands of tokens,
organizations, teams, roles, measurement permissions and memberships, with every secondary index; `Accepts` is the
validation, and snapshot and restore keep and rebuild what the code does.

`AuthReplica` is one node: `fsm` and `applied` in memory, `snap` and `raftLog` on
disk, `db` the SQLite tables. `Commit` is the cluster, `ApplyNext` applies and
calls back into the mirror, `Crash` and `Restart` lose memory and begin with the
snapshot, `SetAuthCallbacks` and `SetRBACCallbacks` come late as in `main.go`,
`InstallSnapshot` brings the leader's snapshot to a node that lags. `truth` is an
FSM that applied everything in order. Three history variables name the exceptions of
`MirrorAgrees`: `gap` (an entry came without its callback), `cut` (a crash ended a replay
that had callbacks, which puts rows back that a later entry of the log removes) and `renamed`.

### `Compaction`

The files of one day of a measurement. `StartCycle`, `RecoverManifest`,
`EndRecovery`, `FindCandidates`, `EndTier` are the Manager's cycle with its two tiers,
`TooSmall` the filters, and `StartJob`, `ReadInputs`, `WriteManifest`, `Upload`, `UploadFails`,
`OutputWritten`, `DeleteOldFiles`, `ForgetManifest`, `SourcesDeleted` the job in its
subprocess; `JobKilled` and `Crash` may come between any two. A failed job is
retried in halves. `ApplyCompletion` is the watcher's Raft commands and `Reconcile`
the two sweeps, which keep what is inside their grace windows. A row is named for its source file.

### `CompactorLease`

Nodes with a log of committed entries (`Raft` itself is external: a leader and a
sequence), each with its registry `view`, its failover goroutine `mgr`, the
goroutines `hooks` that the FSM's callbacks start, and its schedulers `running` and
`watching`. `Boot` and `SetCompactorCallbacks` are the two halves of `main`'s start, between
which entries are applied without hooks. `CheckCompactorHealth`, `ExecuteFailover`,
`AssignCompactor`, `AssignEnds`, `CooldownEnds` are the manager; `OnBecome` and `OnLose` the hooks in any order;
`Join`, `RegisterSelf`, `Heartbeat`, `ChecksFail`, `Leave`, `RemoveNode` the membership;
`Crash` and `Elect` the trouble. The log index at which a restart begins is that
of the last snapshot.

### `AuthCaches`

A standalone node: `token` and `rbac` are the tables, `conn` the only connection
(held while rows are open), `lock` is `tokenCacheMu`; the caches are `cache`
(verified tokens), `tokenCache` (loaded data), `permCache` (results), each entry
with the ticks it has `left`. `LookUp` and `Continue` are one request: `VerifyToken`, then
a check or a batch, one step per query or lock; `Write` and `Clear` are the handlers
that write and then invalidate; `Tick` is time.

### `StoredFiles`

The files of one measurement and day on a standalone node. `hot`, `cold` and
`temp` are files with their rows, `tier` the metadata table. A migration cycle registers
the files it listed, finds candidates, copies, records, deletes the source (or
rolls the copy back) and sweeps orphans; a delete request counts, rewrites or removes, one file after
the other, where a WHERE clause is TRUE, NULL or FALSE of a row: files are selected by rows of which it is TRUE
(`delete.go:602`, `:667`), rows kept if `NOT (WHERE)` is TRUE (`:700`, `:779`); `StartDrop`/`DropFile` drop the database, `Wipe`/`Forget` remove an empty
directory and its metadata; `RetentionDelete`, `StartCompaction`...`DeleteInputs`, `Flush`/`RegisterFlushed`
are the others; `Query` caches the tiers it names and `PlanExpires` forgets them. Each step
is one call on a store or the table. Nothing keeps these operations apart in the code.

### `Replication`

`TakeSequence` and `Replicate` are the two steps of a write call, `DistributionLoop` the
sender's goroutine that writes one entry to one reader after the other and a
checkpoint every so many; `Dial`, `Accept`, `Receive`, `LoopEnds` are both ends of a connection,
`Cut`, `ReaderRestarts`, `WriterStops`, `WriterStarts` the trouble. An entry is its
position among all entries ever; its sequence is that less `base`, which a restart of the
writer moves. `wire` is what was written and not read.

### `Schedulers`

One node. `cq` is the table, `jobs` the scheduler's map, `job[q][k]` goroutine `k` of
query `q` in `runJob`, `call` the handlers. `handleCreate`, `handleUpdate`, `handleDelete`,
`handleExecute`, `ReloadAll` and `TriggerNow` begin a request and `Handler` goes on with it: a
restart takes the old goroutine out of the map, waits for it without the mutex,
reads the definition and starts another. `Tick` and `Goroutine` are one execution: window,
result, record. `CronFires` and `runRetention` are retention; `BeginShutdown` and `Stops`
the shutdown hooks, `mu` is held by `RetentionScheduler.Stop` while it waits; `Restart` is a crash or the end of
a shutdown and a new process; `LicenseChanges`, `RoleChanges`, `TimePasses` the surroundings.
The shutdown waits for HTTP requests first (its hook has 30 s within the coordinator's
30 s), so none is in flight when the scheduler hooks run; these have one priority and
come in either order.

## 4. What is checked

| run | properties | shows |
|---|---|---|
| `arrow_core` | `SweepEmptiesBuffers`, `OneSchemaPerFlush`, `HeldExactlyOnce`, `RegisteredComplete` | Four calls on two keys with two schemas, a two-hour batch, a full buffer, a worker, the ticker, a `FlushAll` and failing storage: no batch is lost, held twice, written twice or mixed with another schema, no incomplete flush is announced, and what was accepted before `FlushAll` has left the buffers when it ends. |
| `arrow_live` | `KeepsContract`, `MemoryDrains`, `CallsReturn` | The buffer implements `BufferContract`; every appended batch leaves memory unless `Close` comes; every call returns, `Close` too. |
| `wal` | `EveryEntryAccounted`, `SyncedExceptTail`, `ChannelDrains` | The log stays in order, accounts for every entry under failing writes and rotations, power loss costs fewer than `SyncBytes` of the current file and the channel, and the channel drains, also during `Close`. |
| `pipeline_all` | `PurgedIsDurable`, `DeletedAfterReplay`, `NeverWithoutCopy` | With failing flushes and replays, full queues, a crash, a recovery at startup and a periodic one, and shutdown: only a failed flush or replay or a batch let go can cost an entry its last copy in a living process; while `SafeAge` covers the longest stay in memory a purge by age removes nothing that is still only in memory, and never the file in use; recovery removes only what it replayed in full. |
| `puller` | `InflightExact`, `TagsOwned`, `FinalVerified`, `GateMissesOnly` | Callback, walker and two workers against peers that are absent, refuse, break off or corrupt, and `Stop` at any time: every path in flight has exactly one holder and no other path has any, no tag leaks, what gets its final name is a whole version, and the gate misses a file only in the five ways. |
| `auth_replica` | `ReplicaAgrees`, `MirrorAgrees` | Every pair of commands of one family on a full seed, snapshots, two restarts with replays, an installed snapshot: nothing dangles, the replica is what its log says, and SQLite what the replica says once its callbacks are set. |
| `auth_caches` | `CachesCurrent`, `ResultCurrent`, `NoCircularWait` | A check and a batch against every pair of writes, failing queries and time: cached tokens and data are current but for writes that have not cleared them yet or never do, a result is stale for four reasons only and never beyond two TTLs, and nobody waits in a circle. |
| `compaction` | `RowsKept`, `OncePerRow`, `ListedAsStored` | Two cycles over both tiers with two failures, kills or crashes anywhere, the watcher and the reconciler: no row is lost, unlisted or kept twice but in the ways named, and Raft stops listing a file only after it left storage. |
| `lease` | `SoleCompactor`, `HolderCompacts`, `LeaseMoves` | A writing node and a dedicated compactor that joins, with two of crashes, elections, leaves, removals, late heartbeats and failed commands: a node that has applied the log and run its hooks compacts as the lease says, but for the excuses named, and a lease whose holder is gone moves on. |
| `stored_files` | `RowsSurvive`, `SeenExactlyOnce`, `DeletedStayDeleted`, `CycleRepairs` | Any three operations at once with one failure or crash, and a cached query: rows are lost, hidden, counted twice or back from deletion only through the races named and because a WHERE clause was NULL of them, and an undisturbed cycle repairs what a crash left. |
| `replication` | `EveryEntryKnown`, `RefusedOnly`, `AppliesInOrder`, `Reconnects` | Write calls that overtake each other, a full buffer, two readers with two connections each and one trouble: an entry is applied once and in order, on its way or lost for a reason the module names; an honest stream is refused in three cases only; every reader ends up on the one connection its writer knows. |
| `schedulers` | `OneAtATime`, `WindowsMeet`, `ScheduledAsStored`, `StopsEnd` | Two of requests, firings, crashes and changes of role, and a shutdown: unless restarts overlap one goroutine executes at a time and the scheduler runs what the table says; windows follow each other but for three reasons; a shutdown gets past both schedulers but for two ways to wait for ever. |

Composite properties: `HeldExactlyOnce` contains that counts, schemas and buffers
agree and that nothing is written twice; `EveryEntryAccounted` the order of the log;
`ReplicaAgrees` the referential integrity of the RBAC entities; `CachesCurrent` is
`VerifiedCurrent` and `DataCurrent`, `ResultCurrent` is `NamedStale` and `StaleForTwoTTLs`,
`SeenExactlyOnce` is `RowsSeen` and `SeenOnce`, `ListedAsStored` is `RowsListed` after every step and `DeletedFirst`,
`PurgedIsDurable` includes `CurrentFileKept` of `Wal`. Every module has a type invariant;
the runs do not repeat them; those of `ArrowBuffer`, `FilePuller`, `CompactorLease`,
`Compaction`, `AuthCaches`, `StoredFiles`, `Schedulers`, `Wal` and `IngestPipeline` are proved, and that of `Replication` is a part of its `RInv`, see 6.

### Bounds, and why they are enough

*ArrowBuffer*: three or four batches on one or two keys; two schemas on the first
key give evolution, with a competing writer of the old schema; `MaxBufferSize` 2 lets two batches fill a
buffer together and one alone, which is what it takes to fill the queue too; `QueueSize` 1 is full at once;
`MaxIters` 2 lets the loop be exhausted by one competing writer. One worker, the
ticker, handlers and a sweep are already four kinds of flusher on one key: a
second worker adds a flusher with no behaviour of its own.
*Wal*: two entries of size one, files of two, a sync every two entries, a channel of one,
which is full as long as the writer is busy; one purge with `SafeAge` 0 (any rotated
file is old) and one recovery; `MaxFiles` bounds rotations (`WriteEntry` waits when two more
files would not fit). *Pipeline*: two entries, two starts (a crash during a recovery, then the
recovery again), one periodic recovery; `SafeAge` and `MaxHold` are one tick and the clock has three,
so that a file can grow old after its entries have left memory.
*FilePuller*: three paths, one of them the node's own, so that every page, the
skip and the end of the walk occur; a queue of one is full at once (the high-water mark is
then one too), so the walker waits and the callback drops; two attempts give a
resume and a giving up; one candidate peer, because a second one repeats the same step with
the same staging file; pages of one path; one Raft command; two workers, because the
only resource two of them could share is one path.
*AuthReplica*: a seed with one entity of each kind below the one before, then two commands,
so that each command meets each other one's effect, with two names and two credentials to reuse;
a restart replays all of it, and the second one meets a replay that was cut short. The two commands are both of tokens and memberships or both
of the other kinds: the two meet only in memberships, which are in the first family with the seed's chain.
*Compaction*: four files of an hour and one of another, `MaxBatch` 3, so that a batch
is split, retried in halves and followed by the daily tier; three jobs, two cycles (a failure and its
recovery), two faults (a failure during the recovery).
*CompactorLease*: two nodes of different roles, one of which joins; a threshold of one check;
two troubles, so that one meets the consequences of another. Other voters keep the quorum and are not nodes of the model.
*AuthCaches*: one token with two secrets, a single check and a batch, one writer with two writes,
TTLs of one and two ticks: a second token touches the same locks only.
*StoredFiles*: an hourly, a daily and a fresh file, each with a row of three kinds (`low`, `high`, `blank`), and three
WHERE clauses: `WHERE` is TRUE of one and NULL of another, so that a file is rewritten without both; TRUE of two and NULL of the
third, so that the whole file goes; TRUE of one and NULL of none; three operations at once (every named race takes two and a third to look).
*Replication*: two readers, two connections each (one being replaced), a buffer of one, two
callers and two entries (one overtakes the other), a checkpoint after both, one trouble.
*Schedulers*: one query with three initial states (absent, fresh, processed), intervals of one and two ticks and
one that does not parse, two handlers and two goroutines (overlap), one cron goroutine and the API's, a clock of three.
`CHECK_DEADLOCK FALSE` everywhere: calls are made once each and the bounds run out,
so every behaviour may come to rest. That nothing hangs is `CallsReturn`,
`MemoryDrains`, `ChannelDrains`, `LeaseMoves`, `Reconnects`, `StopsEnd`.
Where a run checks safety only, alike values are symmetric: two batches of `arrow_core` with the same key,
schema, rows and hours, the entries of `pipeline_all`, the workers of `puller`, and cycles and requests of `stored_files`.

### Fairness

Weak fairness of each goroutine's own steps: the Go scheduler runs what can run.

* `ArrowBuffer`: a storage call ends: `flushTimeout` bounds it for workers, the ticker and `Close`
  (`arrow_writer.go:2328`); for a flush inside a request and for `FlushAll` it is
  the backend's own timeout, which is assumed. The ticker is fair because its timer
  is rearmed after every use. Nothing is assumed of the order in which a `select`
  chooses between ready arms, of `Close` being called, of requests being cancelled,
  or of storage ever succeeding.
* `Wal`: `writerLoop` runs.
* `CompactorLease`: the manager's loop, its cooldown, applying the log, and the checks of a node that cannot be
  reached go on in a process that is up. Nothing of elections, heartbeats, or the process being started again.
* `Replication`: write calls that have a sequence go on, and both ends of every connection.
  Nothing of new write calls, cuts, or restarts.
* `Schedulers`: handlers, goroutines, retention cycles and the hooks of a shutdown go on. Nothing of
  requests, ticks, firings, the clock or a shutdown beginning.

## 5. Where code and comments disagree, and what else the models show

No run is expected to fail: each disagreement is an exception that a property
names. Without the exception TLC finds the counterexample. The quoted comments
come first in each list.

*Buffer, log, shutdown*

* Import handlers call `FlushAll` to "ensure data is persisted before returning"
  (`internal/api/import.go:302`). `FlushAll` sees the shard maps only: a batch in the queue, in a
  worker's hands or on its way to the queue is not awaited, and its later failure is not reported.
* A batch that does not fit the queue is "preserved in WAL for recovery"
  (`arrow_writer.go:1460`); no failure is marked, so nothing replays it and maintenance purges the file by age.
* The `wal-purge` hook means to run "after ArrowBuffer flushes" (`cmd/iedb/main.go:687`), but
  all hooks run before all components (`shutdown.go:143`).
* `NewWriter` opens a file with a header only; the recovery at startup is called without a file
  to skip and removes it as empty and "safe to delete" (`internal/wal/recovery.go:187`). Until
  the next rotation the log goes to a file without a name.
* A file kept "for retry" after a refused replay (`recovery.go:202`) is retried only after another flush failure
  or a restart, and purge by age or at shutdown may remove it first.
* The other entries of such a file were replayed, and are only in memory, while the file keeps its old age: the next purge
  removes it although "after this duration, a rotated WAL file's data MUST have been flushed to parquet" (`main.go:740`).
  `KeptForRetry` is this exception of `PurgedIsDurable`; it takes three entries, so the proof met it and the run does not.
* Periodic recovery reads `CurrentFile` before it lists the directory (`main.go:778`, `recovery.go:100`): a
  rotation in between lets it read, and remove, the new current file.
* A write that fails half way, followed by a failed rotation, leaves torn bytes in the current
  file, and later entries of that file are out of the reader's reach (`wal.go:274`, `:281`).
* `safeAge` is at least 30 s (`main.go:743`), less than the age of a buffer and the flush timeout together;
  `PurgedIsDurable` holds, and is proved, under `SafeAge >= MaxHold`.
* A maintenance tick purges before it recovers (`main.go:764`, `:767`), and the failure flag is reset
  after a recovery even when the failed data was in the skipped file, or a flush failed meanwhile (`main.go:796`).
* Entries still in the channel at `PurgeAll` (`main.go:692`) are drained to a file that, after a rotation, has a
  name: they are replayed at the next start although they may be durable.

*File replication*

* Queries are let through when catch-up is complete and its pulls have drained
  (`internal/cluster/coordinator.go:2440`). When the callback applies a command for a path that
  the walker has just tagged and finds the queue full, its drop removes the tag
  (`puller.go:481`); the walker's own entry is then pulled, and may fail, without the gate knowing of it.
* An update is announced so that peers "fetch the updated content" (`internal/cluster/raft/fsm.go:1219`). If
  the older version is in flight, the update is a duplicate for `Enqueue`, and nothing enqueues it
  again before the next start.
* When `ResolvePeers` finds nobody at the last attempt, the pull ends as neither failed nor succeeded (`puller.go:715`).
* After a checksum mismatch `Delete` removes the final name only (`local.go:470`); a complete but corrupt
  staging file stays, and the size check of the next attempt takes it for the file (`puller.go:706`, `local.go:347`).
  After a rejected offset the staging file that caused it stays too.
* The walker can set a tag while a worker is past its look at the tags (`puller.go:677`); it attributes a drop
  by differences of global counters (`catchup.go:122`); a drop recorded after the callback's pull
  succeeded keeps the gate closed until that path is pulled again (`catchup.go:131`).

*Tokens and RBAC of a cluster*

* During a replay `ApplyCreateOrganization` makes room for a name by deleting the row of an
  organization that was renamed since (`cluster_rbac_apply.go:326`), against the consistency that `fsm.go:680` promises.
* `applyUpdateToken` takes an empty name; `Restore` quarantines such a token (`fsm.go:1446`).
* The callbacks are set after Raft has started, and an installed snapshot is never mirrored
  (against `cluster_apply.go:252`). During a replay deleted tokens and old secrets are in SQLite again for a while.
* If the node crashes in mid-replay they may stay: the replay after the second crash can be over before the callbacks
  are set (`cmd/iedb/main.go:1657`), and the entry that removed a membership or deleted a token does not
  reach SQLite again. A request is then granted what the FSM has taken away. The second crash is needed, and the
  proof attempt of `MirrorAgrees` found it; the property names it (`cut`).

*Auth caches*

* A standalone `DeleteOrganization` clears no cache (the cluster's apply does); `UpdateToken` leaves the results.
* A result computed while a write clears stays up to its TTL; two caches behind each other make it two TTLs.
* A check whose load failed goes on without RBAC and stores that answer; the batch does not.
* The three queries of a load may straddle a write and grant what the tables never granted together.
* An expired token is served until its cache entry expires.

*Compaction and reconciliation*

* A job that fails after its upload fails "so the next cycle retries" (`job.go:370`): recovery then
  deletes the inputs (`manifest.go:282`), nothing registers the output, and the storage sweep deletes it.
* A completion manifest may stay at `output_written` for ever (`job.go:392`).
* A transient error on reading a manifest deletes it (`manifest.go:222`), an upload reported as failed may have
  persisted, and a failed job is retried in halves: each may leave a row in two files.
* Recovery trusts an output whose size it cannot read (`manifest.go:258`).
* The cached list of files in manifests omits outputs.

*Compactor lease*

* A dedicated compactor starts its schedulers at once, whoever holds the lease, and only losing
  it later stops them (against `main.go:1443`).
* A lease given before `SetCompactorCallbacks` starts nothing, and `Restore` runs no callbacks.
* `onLose` of one move may run after `onBecome` of the next (`coordinator.go:2074`).
* No code issues the first `PromoteWriter` (against `coordinator.go:1738`).
* Assigning the holder again fires no hook; a leader that lags behind its own log judges by an old holder.

*Tiering and the other users of files*

* A delete of all hot rows removes the metadata of cold files as well, which stay unseen
  ("Guards against partial deletes", `delete.go:435`).
* A scan overtaken by a migration records the moved file as hot again: it is unseen.
* Of two cycles on one file, the one whose `UpdateTier` fails deletes the only copy (`migrator.go:248`).
* A delete drops the rows of which its WHERE clause is NULL, a nullable column being enough: a file is rewritten
  "excluding rows that match the WHERE clause" (`delete.go:687`), but keeps only those of which `NOT (WHERE)` is TRUE (`:700`,
  `:779`), and is deleted if there are none (`:711`). They count as deleted; a dry run, `MaxRowsPerDelete` and
  `ConfirmationThreshold` count the rows of which it is TRUE (`:335`).
* A directory found empty and removed takes along what a flush wrote since (`delete.go:443`).
* Two deletes share `.tmp/<file>.new`; a rename brings back a file removed meanwhile; an error
  of the deletion of a file is reported as deleted; the drop of a database leaves cold files that a later migration shows again.
* The SQL of a query is cached for a minute (`query.go:2521`) and names the tiers of before.

*WAL replication*

* The receiver calls a sequence that does not rise "misbehaving writer or tampered stream" and a checkpoint
  ahead of it "impossible on an in-order TCP stream" (`receiver.go:484`, `:540`): concurrent write calls, a
  writer restart and a failed apply produce them.
* `canResume` is only logged; nothing is sent again, so a reader misses what was sent while it was away.
* The loop of a replaced connection removes its successor by reader ID (`sender.go:536`). If that loop is
  later than every reconnect, the reader never stays connected.
* Acknowledgements are only reported. `StopReplication` has no caller.

*Schedulers*

* `RetentionScheduler.Stop` holds its mutex while it means to "wait for running jobs to complete"
  (`retention_scheduler.go:138`); the end of such a job needs the mutex. The shutdown hangs there, and
  the hooks and components behind it, the buffer's flush among them, do not run.
* Two overlapping restarts of a query start two goroutines "so that a long-running executeJob cannot overlap
  with the new job" (`cq_scheduler.go:161`); the one that the other overwrote is never stopped, and `Stop` waits for it.
* "Re-runs of the same window produce identical (tags, time) rows" (`continuous_query.go:768`): when the first window of a query was written and
  not recorded, the next run starts an hour before a later end, with another label.
* A reload that cannot read the query returns without waiting for the goroutine it stopped; `StartJobDirect`
  may start a definition that an update has replaced; deleting a query does not stop its goroutine; an interval that does not parse is
  accepted and never scheduled.
* `ReloadAll` without a license, or with a failing read, leaves nothing scheduled; so does a failing read at start, until a restart.
* A manual execution moves `last_processed_time` to the end of its own range, and runs beside a scheduled one.

## 6. What is proved

Each invariant was first checked by TLC. Every theorem holds for all values of the constants
that satisfy the assumption of its module. Where a run has one value (one version of
a file, one query), the theorem covers them all.

`BufferAuth_proofs`, its first part, about `ArrowBuffer`, from `BufferConstants` (types of the functions over batches
and keys, positive sizes; no set need be finite).

* `TypeCorrect`: `Spec => []TypeOK`, one lemma per group of actions.
* `OneSchemaCorrect`: `Spec => []OneSchemaPerFlush`. By itself the property does not
  survive `AppendBatch`, which compares with `schemas`, not with the batches.
  `BuffersDescribed` (what a buffer holds has its key, and the signature `schemas`
  records for it) makes it inductive, with `HandsUniform` for everything taken out.
* `RegisteredCorrect`: `Spec => []RegisteredComplete`. `HoursWritten` relates what
  a flusher has still to write to what is stored: every piece in its hands is in
  `todoHours` or in storage as long as it is in I/O.
* `SweepCorrect`: `Spec => []SweepEmptiesBuffers`. `AskedAccepted` (who was accepted stays
  accepted, so is never appended again) and `SweptKeysFree` (during a sweep a batch it was
  asked for sits only in a key of a shard to come or of the copied keys) carry it through the loop, and
  `DoneIsComplete` past its end. It covers the sweep of `Close` as well.
* `HeldExactlyOnceCorrect`: `Spec => []HeldExactlyOnce`. The property counts places; the proof speaks of
  them one by one. `HeldInv`: no batch is in two kinds of place (`OneKind`), nor in two places of a kind (`OneOfKind`),
  those that were appended are somewhere (`AppendedSomewhere`), and an hour is written once, by the
  flusher that has the batch (`HoursOnce`). That the counter of a key is the sum of the rows in it (`CountersTrue`) would be an
  induction over the buffer, which the prover cannot do; instead a least set on which the sum
  is wrong is shown not to exist (`MinimalSubset`).
* `KeepsContractCorrect`: `Spec => KeepsContract`, the refinement of `BufferContract` under `StatusOf`. The initial
  states map to initial states, and under `HeldInv` every step maps to a step of the contract or a stutter. `HeldInv` is what makes
  the outcome of one flush the outcome of exactly the batches that the contract settles together.

`IngestPipeline_proofs`, from `WalConstants` and `PipelineConstants`, about the log by itself and in the pipeline.
`PipelineIsLog` (`PSpec => Spec`: each step of the pipeline is one of `Wal` or leaves it alone) carries the former to the latter.

* `LogTypeCorrect`: `Spec => []TypeOK`; `TypeCorrect`: `PSpec => []PTypeOK`. `LogInv`, under all that follows, adds what
  every step relies on: nothing is written behind the current file, and no file is younger than the clock (`Shape`); who is at work
  with what (`AtWork`); a purge has read the path of the current file, or that file is younger than its clock (`PurgePath`).
  One step `writeEntry` is up to three rotations, two writes and two syncs. `WriteEntryStep` reduces it to a set of disks that sync,
  rotation and a torn write do not leave (`Closed`); each invariant below names its set.
* `DeletedAfterReplayCorrect`: `Spec => DeletedAfterReplay`, an action property. `Replaying` says what the recovery
  still has of a file and what it has replayed are together what the reader returned.
* `EveryEntryAccountedCorrect`: `Spec => []EveryEntryAccounted`. `OrderInv` takes the order apart: within the
  files, from the files to the channel, and within the channel; an entry that is before another is not the other
  (`NotBeforeItself`), so none is written twice.
* `SyncedExceptTailCorrect`: `Spec => []SyncedExceptTail`. In `SyncInv` `bytesSinceSync` is the number of entries behind the
  synced position of the current file, which a rotation must leave at 0 and a failed one must not.
* `PurgedIsDurableCorrect` and `NeverWithoutCopyCorrect`: both assume `~WritesMayFail`, the first
  `SafeAge >= MaxHold` as well. These are the values of the run. They are needed: entries behind torn bytes
  are lost to the reader, and a shorter `SafeAge` is the finding of section 5. `MemInv` follows the copies
  in memory (what was replayed, or waits in the channel, is covered; no copy outstays `MaxHold`), and `FileInv` joins log and memory: a
  linked file waits for the recovery at startup, or is being replayed by it, or each of its entries is durable, known to have
  failed or been let go, or came to memory no later than the file was last written (`Held`). The age of a file is then a bound on the
  time of its entries in memory, which is what the purge relies on; the file kept for retry is where that breaks, see section 5.

`FilePuller_proofs`, from `PullerConstants` (paths and sizes are positive
numbers, queue and attempts at least one) and `NoFileIsNone` (the value for a missing file is no
content); the set of workers may be infinite.

* `TypeCorrect`: `Spec => []TypeOK`, which includes the capacity of the queue and that a
  call under way and a busy worker have a registered path and version; without the latter
  nothing would bound `inflight`. Type groups that an action leaves alone are settled by one lemma.
* `TagsOwnedCorrect`: `Spec => []TagsOwned`. By itself the property does not survive
  `MarkCatchUp`, which overwrites the record of the walker's call: `TagInv` adds that the
  walker has no call while it is not classifying one. The interesting steps are those that
  hand a tag over: `SendEntry` at a full queue to its own `DropEntry`, `ReleaseInflight`
  to `ReleaseTag`.
* `FinalVerifiedCorrect`: `Spec => []FinalVerified`. A file is renamed only in `PullReceived`, which has compared the
  whole content, prefix and received blocks; the theorem covers several versions of a path, of equal or different sizes.
* `InflightExactCorrect`: `Spec => []InflightExact`. Cardinalities again become statements on pairs of holders
  (`HeldOnce`): a path is queued, worked on or being sent, one at a time, and in `inflight` exactly then.
* `GateMissesOnlyCorrect`: `Spec => []GateMissesOnly`. `GateInv` follows a path from the walker to the gate: nobody pulls a
  version the manifest does not have (`NoneAhead`) nor an older one of a path the gate answers for (`NoneBehind`); what a worker
  calls succeeded is there (`WorkersKnow`); a missing file is reported, or has a tag that no release will take, or its drop
  is about to be classified (`Owed`); and each of the four loads has made sure of
  its part (`GateKnows`), although they are not one step.

`Compaction_proofs` has two sections, since the lease says which node compacts. The one about `CompactorLease`,
from `LeaseConstants`:

* `LeaseTypeCorrect`, `SoleCompactorCorrect`, `HolderCompactsCorrect`. The two properties speak of nodes at rest;
  `NodeInv` says what holds before: a node that compacts without the lease has an `onLose` to come, or is
  dedicated and has not lost the lease since it set its hooks; a holder that does not compact has an `onBecome` to come.
  `AssignsFound` says that the holder at any index is the last assignment before it, which a longer log does not change: the
  reasoning about replay rests on it.

The one about `Compaction`, from `CompactionConstants` (the sources are the first natural numbers; batches are of at least two files).

* `TypeCorrect`: `Spec => []CPTypeOK`.
* `RowsKeptCorrect`: `Spec => []RowsKept`. `CPInv`: a job has written nothing before its upload (`UnwrittenInv`) and, past
  it, a whole output (`JobInv`), which holds the rows of its inputs, all of them files of earlier jobs
  (`InputsInv`). A deletion of inputs, by the job, by recovery or by a sweep, then leaves a file with their rows, unless it is one of the
  exposures the property names.
* `ListedAsStoredCorrect`: `Spec => ListedAsStored`, the state part from `ListedInv` (what is stored is
  listed, or announced to the watcher, or about to be), the action part step by step.
* `OncePerRowCorrect`: `Spec => []OncePerRow`. Half of `OnceInv` holds whatever happens: the batches of a tier hold each
  file once at most, and none that a job has yet to write (`WorkInv`); the job that runs works on the head of the first batch
  and has its manifest in storage (`TakenInv`). The other half holds while nothing is blamed: rows in two
  readable files are in the output and an input of a job whose manifest is in storage (`DoubledInv`), no batch still to be
  done holds a file of such a job (`BusyInv`), and what a job has read shares no row with another file (`ReadInv`). That a
  batch split after a kill stays free of repetitions rests on lemmas about the listing and the batches
  (`ListingFacts`, `SplitBatches`, `SucceededBatches`, `FailedBatches`).

`Replication_proofs`, from `ReplicationConstants`.

* `AppliesInOrderCorrect`: `Spec => AppliesInOrder`, an action property. `RInv` says of every stream that
  entries on it come from the same or an earlier sender than those behind them (`Rising`), from no later one than the present
  (`NotAfter`), and, where the reader still reads, from none before the one its position belongs to (`NotBefore`). A larger sequence
  is then a later entry: the check of the receiver, which compares sequences only, suffices even over restarts of the writer.
* `EveryEntryKnownCorrect`: `Spec => []EveryEntryKnown`. `LInv` keeps books for each reader: every entry that has a sequence
  is with a write call, in the queue, with the loop, on one connection, applied or lost, and in no two of these
  (`BooksInv`); the queue holds no entry twice and the loop writes to one connection of a reader (`QueueInv`).
* `RefusedOnlyCorrect`: `Spec => []RefusedOnly`. A stream without one of the three causes is in order (`SoundInv`), begins behind what the
  reader has (`HeadsInv`), and the reader's position is that of its latest entry (`TopsInv`).

`Schedulers_proofs`, from `SchedulerConstants`.

* `TypeCorrect`: `Spec => []SCTypeOK`.
* `OneAtATimeCorrect`: `Spec => []OneAtATime`. The property says nothing of a goroutine that has been told to
  stop, so it does not survive the start of its successor. `RestartInv` adds, for queries whose restarts have not
  overlapped, that one call at most is restarting the query, that it has one goroutine at most, which is the one in the map or
  was told to stop, and that the restarting call waits for one that was told; `CycleInv` adds
  that the retention cycle that runs holds `runningJob`.
* `WindowsMeetCorrect`: `Spec => []WindowsMeet`. `WindowsInv` says of a regular query that its windows follow each other from a
  first one (without it the least start of the property would not exist), reach its last
  processed time and are there for every tick before it (`Book`); that there is one execution of it at most, by a goroutine or by
  hand; and that its window begins where the book ends and, once written, is in the book (`Doing`). A failed execution or a
  crash then repeats the start, not the end, of a window, and the later one contains the earlier.
* `ScheduledAsStoredCorrect`: `Spec => []ScheduledAsStored`, from `RestartInv` and `StoredInv`: whoever carries a definition of a
  query carries the one in the table, unless a request is still to read it (`NoneStale`), so what a restart starts is what the
  table says when nothing is pending (`AtRest`); and nobody has a request about a row that is not there (`NoRequest`).

`AuthCaches_proofs`, from `CachesAssumption` (`Free` is no request, the TTLs and `MaxCacheSize` are at least one) and
`ContentsAssumption` (the tables at the start have their types, and no members without a team). Tokens,
secrets, requests and writers may be any number, infinitely many as well.

* `TypeCorrect`: `Spec => []ACTypeOK`.
* `NoCircularWaitCorrect`: `Spec => []NoCircularWait`, from `Held`: who has the connection is exactly who is about to
  store a verified token, who has the lock exactly who is loading.
* `CachesCurrentCorrect`: `Spec => []CachesCurrent`. What a cache holds was computed by a call before, so the invariant follows
  the call: a token about to be stored is the row, since nobody writes while it has the connection (`Identified`); what a load has
  read so far is what the tables hold, or a writer that has to wait for the lock will clear it, or a write that
  clears nothing is noted (`Reading`).
* `ResultCurrentCorrect`: `Spec => []ResultCurrent`. `Informed` says the same of a check that has its data. The bound on time
  goes through all three caches (`Recent`): what a verified token grants, the table grants or stopped granting in
  this tick; what data with `left` ticks to live grant, it granted at most `RbacTTL - left` ticks ago; and a result
  is computed from data in their last tick at the latest, so with another TTL for the result, the two add up. Writes enter the
  proof by what they have in common (`Written`): whatever takes a permission away, or changes what a load reads,
  clears or is noted.

`StoredFiles_proofs`, from `StoredFilesConstants` (files are numbers, those of the flush and of the compaction the last ones; the
value for no cycle is no cycle; a WHERE clause is any two sets of kinds). Sets of cycles and requests may be infinite.

* `TypeCorrect`: `SFSpec => []SFTypeOK`. One lemma per variable (`HotFrame`, `ColdFrame`...) says which actions change it; the
  later lemmas reason about these only.
* `RowsSurviveCorrect`: `SFSpec => []RowsSurvive`. A file can be in both tiers, under a temporary name, half rewritten by several
  requests and read by a compaction at once. `CopiesInv` says that all these copies agree on the rows that nobody asked
  to delete (`AgreeInv`), and that what a request has still to rewrite, retention to delete and a compaction to replace holds none
  of them, or has had them read (`AimInv`, `DoomedInv`, `InputsInv`). What deletes may take (`Taken`) are the rows they were asked for and
  those of which a WHERE clause was NULL when they were counted: the third of the exceptions that the property names. A file that somebody counts on being in cold storage - it is
  recorded there, or a cycle has copied it or is about to delete its source - is there, or holds nothing worth keeping (`CountedInv`). A deletion
  of any other row then leaves another copy, or is one of the two races (`KeptInv`).
* `SeenExactlyOnceCorrect`: `SFSpec => []SeenExactlyOnce`. `FoundInv` strengthens `KeptInv`: a row is in a file in the tier that is
  recorded for it, and for a cached plan in a tier of the plan, unless it was hidden at the moment it was
  recorded; `DelInv` keeps the deletion of a source from taking a row whose cold copy is not recorded.
  `OnceInv`, for the other half: a row in both tiers is in a file that a cycle is moving, a row in an input and in the output
  belongs to a compaction that has still to delete its inputs.
* `DeletedStayDeletedCorrect`: `SFSpec => []DeletedStayDeleted`, from `RemovedInv` (no tier, rewrite or compaction has the row) and `TempInv`
  (the temporary file at a rename is what some request still renaming has read).
* `CycleRepairsCorrect`: `SFSpec => []CycleRepairs`. `SoloInv` follows the undisturbed cycle: each daily file in hot storage is
  still to be listed, recorded hot, to be moved or being moved; `LostInv` says why a file in cold storage only is recorded elsewhere.

The proof corrected two properties of this module. The run starts three operations; with five, a directory can be removed between
a migration's copy and its `UpdateTier`, and with a failing call after it the file is in cold storage only
and recorded hot or nowhere. `SeenExactlyOnce` and `CycleRepairs` name that race now; simulation with larger bounds
shows it too, no run within three operations does.
Both also name the rows that a delete drops because its WHERE clause is NULL of them: such a row, in hot storage
while its cold copy is not recorded yet, is hidden like one that the directory took along, and the run reaches that.

The second part of `BufferAuth_proofs`, about `AuthReplica`, from `AuthConstants` (the empty name is none of the
names) and `ReplicaAssumption` (the seed and the families consist of the FSM's commands).

* `ReplicaTypeCorrect`: `ARSpec => []ARTypeOK`.
* `ReplicaAgreesCorrect`: `ARSpec => []ReplicaAgrees`, for every sequence of commands and any number of crashes and snapshots.
  `Good` is what each state of an FSM satisfies: identifiers are log indices, each reference leads to an older entry that exists,
  and each of the nine secondary indices is exactly that of its table (`Unique` for a unique key, `Grouping` otherwise). One
  lemma per command shows that its incremental updates and cascades keep it (`CreateTokenOK` to `RemoveMemberOK`),
  and `RestoreSame` that of such a state `Restore` drops nothing and rebuilds every index. What a node replays is a
  recursion over the log, which the prover cannot do: `Past` says instead that there are states, one for each index from the
  snapshot to the last commit, each made from the one before by the entry between, of which the snapshot is the first, `truth`
  the last and `fsm` the one at `applied`.
* `MirrorAgreesCorrect`: `ARSpec => []MirrorAgrees`. A replay after a restart applies to SQLite once more what is already
  in it, so between two entries the tables are not those of any state. `Between` says what they are: each row is one that
  some state from the place of the node (`Stand`) to the furthest entry that it ever applied (`reached`) has or had, a token's credential and revocation possibly
  of two such states, and no row is missing that both ends have. `StepMirrored` shows, command by command, that
  the callback of the entry at `Stand` moves the lower end by one; when it meets the upper one, `BetweenEnds` leaves only the
  tables of that state. What it needs of the past is `Fixed`: names, teams and references of a row do not change and no identifier
  comes back, which is why the renaming commands are the exception `renamed`. `Ahead` covers the replay before the RBAC
  callbacks are set: those tables wait, complete, while the tokens are replayed. A crash in mid-replay (`BetweenBack`) moves the lower end back to
  the snapshot; it is the case of `cut`.

Nothing that a run checks as an invariant or an action property is left to TLC alone. Liveness under fairness
(`MemoryDrains`, `CallsReturn`, `ChannelDrains`, `LeaseMoves`, `Reconnects`, `StopsEnd`) is out
of reach of the prover, and so is ENABLED.

## 7. What is not modelled

In the modelled parts:

* `ArrowBuffer`: the timer of `periodicFlush` (any buffered key may be due), column data, the LRU cache of schemas.
* `Wal`: `SyncModeAsync`, a failing `NewWriter`, files with equal modification times in the sort order of
  recovery, the file timestamps of replicated entries, `PurgeInactive` (no caller outside tests).
* `FilePuller`: backoff and timeouts (they are failures), errors of the local disk, the delete workers of the coordinator, the ranking of peers.
* `AuthReplica`: one node and the log; two nodes differ only in what they lag.
* `AuthCaches`: the buffered writer of `last_used`, errors of `rows.Err`, cluster mode; identifiers are not reused.
* `Compaction`: sorting and deduplication of rows, several measurements and days, an orphaned subprocess after its parent crashed.
* `CompactorLease`: the writer's failover (nothing issues the promotion it begins with), the manual failover (no
  caller outside tests), forwarding of commands by followers, the router.
* `StoredFiles`: clusters, policies per database, several measurements and days, a failing removal of a directory, DuckDB's errors on files that
  disappear while they are read, uploads that are not atomic. The tier cache equals the table; a delete's listing and its first count are one step.
* `Replication`: authentication tags, statistics of acknowledgements, the address of the writer (a receiver
  keeps its first), a frame cut by the read deadline, and entries written before `StartReplication`.
* `Schedulers`: the text and validation of queries and policies, late source rows (a window is computed from what is
  stored, so rows still in buffers are never aggregated), `last_processed_time` of other nodes, a cancelled context (it is not passed to the query).

Not modelled at all: the ingest parsers, the wire protocol and its HMAC, the partition pruner and SQL masking are functions of their
input; the circuit breaker has no user outside its test; the query registry, quotas, throttle and memory trimming
are bookkeeping under one mutex that nothing waits for; MQTT subscriptions are driven by the goroutines of the client library; a
backup is a sequential copy guarded by a flag; license, telemetry, audit, metrics, logging, the agent and MCP
observe or call external services. Most of the repository's lines are of this kind: request parsing, configuration, SQL
text, formatting and wiring. The models stand for a little under a fifth of the
implementation's lines, which are those where order and failure decide.
