# A verification development for onchain-backtest-engine

The repository is a single-host backtesting platform. Clients (HTTP API, CLI)
submit jobs into a durable SQLite queue; one controller process holds a lock,
claims jobs, runs each in a child process and decides it from a receipt the
child leaves on disk; children read and publish immutable artifacts in a local
store that garbage collection prunes. What a child computes is a backtest: an
engine that walks the transactions of a chain in order and keeps an exact ledger.
The modules here model the control of that machinery: what is written when, under
which guard, what a crash, a late answer or a cancel request does to it, and what
an engine does to its wallet.

Paths below are relative to `src/src/backtest/` unless they start with `src/`.

## 1. The system

| part | state it keeps | operations | spoken to by |
|---|---|---|---|
| durable queue (`adapters/catalog/sqlite/job_queue.py`, tables in `schema.py`) | rows of jobs, attempts, runtime leases, retry schedule, failures, indexed receipts, events | submit, request_cancel, request_retry, claim, register_process, heartbeat, record_progress, complete_verified, finish_cancelled, finish_unsuccessful, list_unfinished_attempts | clients and the supervisor, each call one `BEGIN IMMEDIATE` transaction |
| supervisor (`application/use_cases/supervise_jobs.py`, loop in `bootstrap/serve.py`) | in memory: active records, resource guards, progress state | reconcile_startup, run_cycle, shutdown | calls the queue, the process runner, admission, the completer |
| process runner (`adapters/process/local.py`) | owned children, launch envelopes | spawn, probe, terminate, cleanup_launch | supervisor |
| child (`bootstrap/job_child.py`) | none of its own; reads the envelope | execute, publish artifacts, publish receipt, exit code | artifact store, receipt store |
| receipts (`adapters/artifacts/localfs/completion_receipts.py`, `application/use_cases/complete_job_attempt.py`) | one file per attempt | publish (write, fsync, link, unlink), load, verify | child writes, supervisor reads |
| admission (`runtime/local_admission.py`) | reservations by attempt | can_reserve, try_reserve, release, emergency_stop_required | supervisor |
| controller and file locks (`runtime/controller_lock.py`, `runtime/file_locks.py`) | advisory locks | acquire, release | every process |
| artifact store (`adapters/artifacts/localfs/repository.py`) | staged, committed and quarantined directories, a verification cache | stage, commit, abort, open_committed | children, completer, collector |
| retention (`adapters/artifacts/localfs/retention.py`) | pins, leases, trash batches | create_pin, retire_pin, acquire_lease, plan, execute, purge | operator, children |
| launchpad engines (`engine/sniping.py`, `engine/copytrading*.py`, `engine/transaction_clock.py`, `engine/wallet_accounts.py`) | wallet accounts, account deposits, round trips or copied positions, a heap of due actions | decide, submit, land a buy or a sell, retry | one thread inside a child; quotes and prices come from the protocol adapter |
| canonical replay engines (`engine/reference.py`, `engine/state.py`, `engine/scheduler.py`, `adapters/columnar/numpy/optimized_engine.py`) | pools in three states, two schedulers (or two pointers), portfolio, audit, ledger and fill streams | the eight phases of a boundary | one thread inside a child; the two must agree |
| backups (`adapters/backup/local.py`) | generations in a target directory, a staging directory | create_generation, restore_generation | operator |
| artifact catalog (`adapters/catalog/sqlite/artifact_catalog.py`, `bootstrap/catalog_reconciliation.py`) | rows, build-key mapping and conflicts in SQLite; the restart receipt | controller_session, index_committed, rebuild_index, begin_ and finish_reconciliation_session | controller and operator commands, under controller.lock |
| progress pipe, dataset planning, columnar and ML storage, results, sources, interfaces | see `PROJECT.json` | | |

What is hard: the controller can die between any two steps while its children
and the queue live on; every client can act between any two steps of the
controller, so what it read may be stale; a child can finish while it is being
terminated; clock readings are sampled once per cycle; the store is shared by
processes that only advisory locks and atomic renames keep apart. `PROJECT.json`
lists each hazard at its line, with the properties that cover it.

What makes each part correct:

- queue: one live attempt per job; each attempt decided once; success only with
  a receipt for the job's own spec; a cancel request excludes success and retry;
  a backoff is honoured; one job per idempotency key;
- supervisor: its memory agrees with the queue; recovery always finds rows it
  can use; children end before their attempts; admission budgets hold across
  restarts; every submitted job is decided;
- store: what a reader was handed or a publisher was told is durable, with its
  inputs; nothing is replaced while it is read; no wait for a lock is circular;
- catalog: a clean receipt is exact, so trusting it equals hashing every file; a
  session starts with all that is committed; two contents under one build key are
  both out of service;
- retention: nothing pinned, leased or named by a job is collected, nor what it is
  built from, in any order of operator, readers and publishers; a sweep whose
  byte budget fits its candidates, and that is not killed, takes no input of what
  it leaves (any other may); receipts and trash batches tell the truth after a
  crash;
- backups: a generation with a marker holds all that its catalog and pins name,
  each tree as the inventory had it, whatever went on beside the copy and whatever
  a disk did to it;
- launchpad engines: an admitted run never raises, whatever is quoted; reserved
  is what orders in flight will settle; the trips' records explain the wallet; a
  deposit is paid once though several orders hold it; no trip is forgotten;
- canonical engines: both implementations decide and settle alike.

## 2. The modules

| module | what it is |
|---|---|
| `JobLifecycle` | abstract specification of one job: waiting, held by one fresh attempt, decided once |
| `JobQueue` | the queue's tables and operations, with callers that are late, repeated or wrong |
| `JobQueueProofs` | theorems about `JobQueue`: its rows and decisions, then its retry schedule, keys, leases and progress frames |
| `Supervisor` | the controller, its children, receipts and admission, on top of `JobQueue` |
| `SupervisorProofs` | theorems about what the controller remembers, leaves behind and reserves, then about cancel requests, automatic retries and budgets |
| `ArtifactStore` | the artifact repository: publication, readers and three file locks, over a file system that can lose what was not synced |
| `ArtifactStoreProofs` | theorems about durability, leases, lineage and lock order in it |
| `Catalog` | the index of committed artifacts and the restart receipt, on top of `ArtifactStore` |
| `CatalogProofs` | theorems about the receipt, the index and the store beside a controller |
| `Retention` | pins and garbage collection, on top of `ArtifactStore` |
| `Backup` | backup generations, on top of `Retention` |
| `RetentionProofs` | theorems about pins, lineage, sweeps, purges and generations |
| `TransactionClock` | blocks, positions and deadlines by which both launchpad engines schedule |
| `Settlement` | what both engines share: the wallet, account deposits and the heap |
| `Sniping` | the sniping engine: one buy and one sell for each launch |
| `CopyTrading` | the copy-trading engine: one copy for each mint, sells that are retried |
| `Trading` | both engines over the same wallet, a run being of one of them |
| `SnipingProofs` | lemmas about clocks, sums and what a settlement does to the books, and theorems about the sniping engine |
| `CopyTradingProofs` | theorems about the copy-trading engine and about `Trading` |
| `ReplayEngine` | what both canonical engines share: acceptance, the venue, settlement, records |
| `ReferenceEngine`, `OptimizedEngine` | what each of them does its own way |
| `EngineParity` | the two on the same inputs |
| `EngineParityProofs` | theorems about both: they stay in step and end alike |
| `MC*` | instances for TLC |

### JobQueue

One variable per table (`job`, `attempt`, `runtime`, `schedule`, `failure`,
`indexed`, `progress`) and the clock. A row that does not exist is a null record
(`NoJob`, ...). Each operation is one action because each is one transaction; a
call that raises rolls back and is a disabled action. `RequireCurrent` is
`_require_current_attempt`, the compare-and-set every supervisor call starts
with. The callers are arbitrary: any attempt id, any version the attempt ever
had, any clock reading up to now, any supervisor id, any receipt. That is more
than the shipped supervisor does, so what holds here holds for it.

Abstracted: canonical JSON and digests (a spec equals another iff their digests
do), event rows other than progress, timestamps nothing depends on, resource
columns of `attempt_runtime`. `transition()` is in the model because the port
has it, although only tests call it.

Some definitions are preceded by a variant (`HalfMove` before `Move`, ...): what
the code would be with one plausible mistake. No action uses them; each is used
to confirm that a property notices the mistake.

### JobLifecycle and the refinement

`JobLifecycle` states in five actions what a client may rely on. `JobQueue`
implements it under `Phase`, `holder` = the current attempt of a live job,
`withdrawn` = the cancel flag and `spent` = the decided attempts
(`ImplementsLifecycle`, checked as a property of `queue_core`). `INTERRUPTED`
and `FAILED` are one phase: both may be reopened and neither is a success.

### Supervisor

`Supervisor` extends `JobQueue` with the controller's memory (`phase`, `me`,
`plan`, `todo`, `seen`, `held`, `reserved`) and the host (`process`, `receipt`,
`lost`). The controller is one thread, and `plan` is its program counter with
the attempt it is working on. A step ends where another actor can matter: before
every queue transaction, before and after a termination, between spawn and
registration. Reads that commute with everything up to the next such point are
part of the step that uses them (the cancel flag and the probe of one visit, for
example).

- recovery: `Start` (list of unfinished attempts), `ReconcileVisit` (verify),
  `Kill` (terminate), then `CompleteReceipt`, `CompleteWithdrawn`,
  `CompleteInvalid`, `StartupAborts` (the conflict that is raised again),
  `Cancel`, `RecordFailure`, `EndReconcile`;
- cycle: `BeginCycle`, one `Visit...` per record in any order, then
  `ClaimJob`, `Reserve`, `Spawn`, `Register` and their failures, `EndCycle`;
- shutdown: `RequestStop` or a failed cycle, `ShutdownVisit`, `EndShutdown`;
- faults: `Crash` (anywhere), `CycleFails` and `BoundaryFails` (a queue call
  raises), `SpawnFails`, `VisitProbeFails`, `AdmissionLost`, `SpoilOutput`;
- children: `LinkReceipt`, `PublishReceipt`, `ChildExits`; a child without any
  step is one that hangs. Children run in sessions of their own, so they survive
  the controller (`start_new_session=True`).

`terminate` is SIGTERM, a grace period and SIGKILL: the child's steps before
`Kill` are the grace period. `lost` holds the children whose handle died with a
controller before it was stored. Ids are drawn at random in the code and the
first unused one in the model; nothing depends on which.

Abstracted: progress persistence (in `JobQueue`), the four resource samples
(one nondeterministic failure of a running child), memory, core and I/O sums of
admission (only the child and lane counts), the launch envelope.

### ArtifactStore

`tree` is what stands at each final path, `disk` what the fsyncs so far
guarantee; a directory there has a content and perhaps its `COMMITTED` marker.
The three locks of `runtime/file_locks.py` are `writer`, `publication` (a
process or nobody) and `retention` (a mode per process, plus one shared lock per
open handle: `flock` belongs to an open description, so a process with an open
handle excludes its own exclusive request). `step` is where each process stands
in `_publish`:

- `BeginStage`, `TakeWriter`, `Abort`, `BeginCommit`: `stage()` to `commit()`;
- `PublishTakesRetention`, then one of `InstallRename`, `Reuse`,
  `RefuseInputs`, `NeedExclusive`: what `_publish` finds at the final path;
- `TakeExclusive`, then `Quarantine` or `Conflict`:
  `_resolve_existing_path_under_exclusive_retention`;
- `SyncParent`, `Mark`, `SyncRoot`: the rest of `_install_staged_locked`;
- `OpenCommitted`, `CloseHandle`: readers.

Faults: `Die` (locks released, files stay), `PublishFails` (an `OSError` after
the rename) and `PowerLoss`, after which each path holds what was synced, what
was seen, or a directory whose marker was not yet on disk. `KeepsInputs` names
the processes that keep their input open over `commit()`, as `analyze()` in
`adapters/research/store.py` does. `returned` holds the artifacts whose
own publication returned.

Abstracted: manifests and hashes (a directory is what its content says or it is
unmarked), staging trees (private to one writer and synced before the rename),
the byte quota, the verification cache, and the polling and timeouts of
`FileLock`.

### Catalog

`Controller` is one of the processes of `ArtifactStore` and the only one that
writes the index. `phase` is where it stands in `controller_session`: waiting for
`writer.lock` (`StartController`, `EndSession`), then `ReuseReceipt` or
`RevokeReceipt` and `RebuildAtStart`, a session in which `VerifyOutput` and then
`IndexOutput` or `RecordCollision` are `index_committed`, and at the end
`PublishReceipt`, or `FindStale` and `RebuildAtEnd` before it. The hashing and the
transaction of `index_committed` are two steps; every transaction is one, and
`synchronous = FULL` makes it survive `CatalogPowerLoss`. The other processes are
children, or those a dead controller left behind: they publish between the steps
of a session and between sessions. `ControllerStops` is a kill or an exception:
the receipt stays unclean.

A receipt holds the inventory itself where the code holds its digest. `SharesKey`
says which contents have one build key; the status of a mapping is whether a
conflict is recorded under its key. Abstracted: `run_index` and lineage rows (both
follow from the VERIFIED rows, in the same transactions), the warming of the
verification cache, retention commands inside a session (`Retention` has them).

### Retention

`Retention` adds the one process that runs the retention commands. All of them
run under `controller.lock`, so one at a time and never beside a serving
controller, but beside children that outlived one: the other processes of
`ArtifactStore` take their steps between any two steps of `Operator`. `pins` and
`pinDisk` are the records as seen and as synced, `indexed` the SQLite
projection, `retained` what `retained_roots` reads from job rows, `batches` the
trash.

- pin: `BeginPin`, `LeaseOpens` for each artifact of the closure, `LinkPin`,
  `SyncPin`, `IndexPin`, and the ways out `LeaseFails`, `RefusePin`, `FindPin`.
  The record has two names between `LinkPin` and `SyncPin`, and no reader
  accepts it meanwhile;
- unpin: `RetirePin`, `SyncRetired`, `RetireAgain`;
- sweep: `PlanSweep`, `BeginMoving` (the plan revalidated under exclusive
  retention) or `SweepRefused`, `MoveOne` per candidate, `MarkBatch`;
- purge: `BeginPurge`, `TearOne` and `DeleteOne` per tree, `PurgeRefused`,
  `WriteReceipt`, `RemoveBatch`.

The plan is `SweepPlan`: the closure of roots, pins and young artifacts is kept,
of the rest the sweep takes what fits the byte budget, by id. A rename of the
collector and its fsyncs are one step, and so is the publication of a receipt.

### Backup

One more command of `Operator`: `BeginBackup` shares `retention.lock`,
`CaptureCut` reads catalog, pins and inventory while `publication.lock` is held
(`CutRefused` when they are inconsistent), `CutLeaseOpens` leases the closure,
`EndCut` gives retention back. From there the closure is copied beside everybody
else, artifact by artifact: `CopyOne` puts into `copies`, the staging directory, what
stands at the artifact's path at that moment, `CopySpoiled` something else (a write
that fell short without an error, or a bad disk), and `copy_tree_verified` reads back
what it wrote: `VerifyCopy` goes on with the next tree, `CopyRejected` raises and
leaves the staging directory behind. `PlaceGeneration` renames what `copies` holds by
then and `MarkGeneration` writes the marker, unless `FindGeneration` meets a
generation of that name.

`Successful` leaves open which of the roots that job rows name are results, and
`FindGeneration` whether a generation with the same roots is the same one: its
name is a digest, of the catalog file among others. The checks of
`restore_generation` on what it copied are `Restorable`; its own staging and
rename are not modelled. The target is another device, so a power loss of the
host leaves it as it is.

### TransactionClock, Settlement, Sniping and CopyTrading

A position is the global index of a transaction and stands for the code's
boundary ordinal, which it is ordered like; `OffClock` is either of the errors a
schedule beyond the clock raises. A trip is one launch or one signal. `trip`
holds what the books remember of it (fee, deposit held, paid, tokens), `status`
its `RoundTripStatus` or `CopyPositionStatus`, `live` the trips with an intent
that is not terminal, `scheduled` the heap, `now` and `stage` the boundary and
its phase.

- ledger (`Settlement`): `SubmitBuy` and `SubmitSell` move available to
  reserved, `FailBuy`, `FillBuy`, `FailSell` and `FillSell` settle exactly what
  the order held. Whatever the code's previews, the portfolio or the provisioning
  state would refuse is `BuyLandingError`, `SellLandingError` or `CloseError`, and
  ends the run in `Raise`: that none is reached is `NeverAborts`, not a guard;
- `Sniping`: `Preflight`, then per boundary `DecideSell` for the due decisions,
  `Launch` for its launches (`LaunchOutOfRange`, `LaunchSuppressed`,
  `LaunchEligible` with `AcceptBuy` and `StartCooldown`), `LandDue` for the
  landings;
- `CopyTrading`: `CopyPreflight`, then `VisitDueBoundary` or
  `VisitMarketBoundary`, `RunCallback` in the order of creation (`Exit`,
  `Signal`), `ServeRequest` (`BeginBuy`, `BeginSell`) and `CopyLandDue`.

Inputs of the engines are nondeterministic choices: whether a quote is accepted,
its fee and amounts, which watched positions a market event touches, whether a
price asks for an exit. Ties of the heap, broken by a digest in the code, are
open. `run` is the input of a run: clock, launches with mints and developers,
wallet, the asset fees are paid in, and the kind of engine.

Abstracted: how a quote comes about (only what `ProtocolQuote` admits matters),
cashback, synthetic liquidity, valuation, resource limits that end a run.

### ReplayEngine and EngineParity

One action per phase of a boundary: apply (10, 20), deliver (30), decide (40),
accept (50), execute (60), notify and checkpoint (70, 80). The two engines share
`ReplayEngine` for what both do with the same functions or in the same words,
and differ in how they find what is due: `ReferenceEngine` keeps pools and two
schedulers as sets ordered by `SchedulerKey`, `OptimizedEngine` pointers into
columns, a count of pending observations and one pending order. Streams are
sequences of records, an order is named by the event that caused it. The
strategy is `FirstSwap`, the one both admit. `EngineParity` runs
both abreast, phase by phase: they share nothing but the inputs and each is
deterministic, so no order of their steps changes how either ends, and this one
lets an invariant compare them all along. An engine waits only for one that is
behind and still runs (`RefMoves`, `OptMoves`).

Abstracted: the encoding and hashing of records, admission of packs, delivery
schedules materialized beforehand.

## 3. The runs

All bounds are constants of the `.cfg` files. `CHECK_DEADLOCK FALSE` is set only
where the system may stop: in the queue run, where attempts run out and callers
may stop, and in the engine runs, which end.

| run | instance | question |
|---|---|---|
| `queue_core` | 2 jobs, 2 attempts, 3 specs of 2 types, 1 key, clock 0..1 | consistency of the rows, finality, fencing, cancel, idempotency keys, backoff, refinement; `RetryScheduleSound` is proved and not repeated here. Two attempts are enough for a stale one beside a current one, two jobs for a receipt or an attempt of the wrong job; with one key two jobs are a run and a build that share it, and `supervisor_crash` has two jobs of one type under two keys |
| `supervisor_crash` | 2 run jobs, 2 attempts, lane limit 1, child limit 2, 2 outages anywhere, a disk that may be in an emergency; one job at most asked to cancel (`OneWithdrawn`); jobs and keys interchangeable. A child that exits without a receipt is taken for transient (retried) and an unusable receipt is not, which is one kind of failure on either side of `Retryable` | recovery after a crash in the recovery from a crash, and budgets across a restart |
| `supervisor_live` | 1 job, 2 attempts, 1 outage outside registration | `JobEnds` under fairness |
| `supervisor_receipt`, `supervisor_orphan` | 1 job, 2 attempts, 1 outage | findings 1 and 2 |
| `store_publish` | a controller and 2 other processes, two snapshots of one build key, two contents for one run path (the key of a run is its attempt), 2 faults of any kind, clock 0..1; the second snapshot and the runs in behaviours apart, and the clock still in those with a second content of either kind, or with a run and a fault (`CollisionOrRuns`) | durability, lineage and locks, and beside them the index and its receipt. Two processes besides the controller are a dead publisher's successor and a competitor or reader, or a child that publishes after the controller is gone; the snapshots are a collision that stands, the runs one of a stale row. Two faults are a crash in the recovery from a crash; more are left to the theorems, which bound nothing |
| `store_wait` | 2 processes that keep inputs open, 1 death | finding 3 |
| `retention_sweep` | operator and 1 other process, an artifact and its input, 1 pin name, 2 batches, minimum age 1, clock 0..1, 1 generation, 1 fault of any kind; batches used in order, and a second one only without a backup (`BackupOrSweep`) | pins, job roots, lineage, trash, backups; leases are proved. The second batch is a sweep after a pin, an unpin or a fault in the first; the chain is long enough for a closure to be wrong; a backup meets a sweep before it or after it, one cut short by the fault is found again by the next, and the fault may be a spoiled copy of either tree. No two artifacts share a path, so nothing displaces a source beside the copy: that is left to `CutsStayWhileCopied` |
| `retention_link` | the same with 1 batch, 1 death | finding 4 |
| `trading` | both engines; 3 trips, 3 mints, 2 developers; clocks of 13 and 6 transactions with empty blocks, blocks of equal time and a gap; wallets that afford one trip, or two at once and three in turn, with an account that exists already or not; fees in the paid asset or, when the account does not exist, in another; 3 sell attempts | admission, books, deposits, cooldown, the bound of the preflight. Three trips make two buys in flight that both hold the wallet's deposit and a third that finds it paid; on the long clock a run fits, on the short one preflight refuses late launches |
| `engine_outcome` | 3 boundaries of 1 or 2 events in 3 placements over blocks, 6 setups of delays, funds, budget, mode and sold asset | `OutcomeParity`. Three boundaries are a delivery, a decision and an execution one after another; delays of 0 and 1 with equal blocks are the boundaries of `bisect_left` and `searchsorted` |
| `engine_parity` | the same | finding 5 |

Fairness (`FairSpec`): weak fairness of the controller's own steps (the loop
thread runs until stopped, every wait in it is bounded), of `Start` (somebody
starts the controller again) and of the clock. Nothing is assumed of children
and clients. Outages are bounded by `MaxOutages`: liveness after finitely many
of them. The clock stops at `MaxTime` unless a backoff or a deadline lies ahead;
as deadlines are never renewed and attempts are finite, it stops in the end, and
every behaviour in which something waits for time gets it. `supervisor_live`
excludes outages in the registration step because of the first finding: with
them `JobEnds` is false.

### Findings

1. `supervisor_receipt`: a controller dies after `spawn` and before
   `register_process`; the child, which nobody knows, publishes its receipt. The
   next recovery verifies it, `complete_verified` refuses to move `STARTING` to
   `SUCCEEDED`, the conflict is not a cancellation, and `reconcile_startup`
   raises. The rows do not change, so every later start fails the same way until
   somebody cancels the job. The same happens without a crash when
   `register_process` itself fails after a fast child published.
   `src/docs/architecture.md:1416` promises recovery from the receipt.
2. `supervisor_orphan`: after the same crash without a receipt, recovery has no
   handle to terminate, interrupts the attempt and retries it beside the running
   child. The class comment promises termination before retry.
3. `store_wait`: a publisher is killed between rename and marker. The next
   attempt of a process that keeps its input open finds the unmarked directory
   at the same content-addressed path and asks for exclusive retention, without
   a timeout, while it holds retention itself through its handle. It waits for
   itself, with `writer.lock`, until the attempt is killed, and so does every
   retry. `adapters/research/store.py:299` takes the order of the locks for
   granted.
4. `retention_link`: a pin command is killed after the record was linked and
   before the temporary name is removed. Every reader refuses a file with two
   links, so listing, planning and unpinning raise from then on.
   `src/docs/architecture-deep-dive.md:1776` says the scanner ignores what is
   temporary or invalid.
5. `engine_parity`: with two swaps delivered at one boundary the optimized engine
   asks the strategy between the two deliveries, so `INTENT_PROPOSED` stands
   elsewhere in its audit stream than in the reference's. When the first of them
   leaves the pool without reserves, the two name different events as the cause
   of the order. `src/README.md:99` promises byte-identical outputs;
   `OutcomeParity` states what does agree.

### What the passing runs leave out

Each of these limits is in a constant or in the statement of a property, and
lifting it makes TLC find the behaviour described:

- `NoWaitCycle` holds in `store_publish` because `KeepsInputs = {}`; finding 3 is
  the other case;
- `KnownIsDurable` speaks of the `commit()` that installed an artifact. One
  that finds it committed by a killed publisher returns it without the last
  fsyncs (`repository.py:1549`), which `open_committed` repeats;
- `CleanIsExact` speaks of `verified_at_ns`, which `index_committed` reads in its
  transaction, after the hashing: a change in between bears an earlier time and
  counts as verified (`artifact_catalog.py:157`);
- `SessionIsComplete` speaks of the opening of a session. What a child publishes
  during one is served only once its receipt is verified, and a row whose run was
  replaced stays: it can put a newcomer with its key into quarantine until the
  next rebuild;
- `PinnedStays` needs `MaxFaults = 1` in `retention_sweep`: an unpin cut short
  before its fsyncs, a sweep, then a power loss leave an active pin without its
  artifacts (`retention.py:221`);
- `LineageIsComplete` needs a budget that fits the candidates. With
  `MaxSweep = 1` the sweep takes the input, which has the smaller id, and passes
  over its dependent (`retention.py:630`). It also excepts batches without a
  marker: a sweep killed in the middle does the same damage. What holds for every
  budget and every kill is proved: `SweepsSpareTheProtected` and
  `MissingInputsWereSwept`;
- no property says that trash is purged in the end: a purge killed inside a tree
  leaves one that differs from its manifest, and every later purge raises
  (`safe_io.py:308`);
- `engine_outcome` cannot reach the rejection `UNKNOWN_POOL`: the strategy asks
  only about a pool that was observed;
- `CooldownHolds` counts every launch that was acted upon. One that was
  suppressed starts no cooldown, and neither does one outside the range;
- a backup killed between rename and marker leaves a generation without one; as
  long as the catalog stays the same, its repetition has the same name, finds it
  and is refused (`local.py:341`), so no property says that a backup succeeds in
  the end;
- `GenerationsAreWhole` speaks of results and pins. The inputs of queued and
  running jobs are protected by the sweep and yet not in the closure of a cut
  (`backup.py:141`): after a restore such a job lacks its inputs, and planning a
  sweep raises until it has ended;
- no property says that a failed pin can be repeated: the second request has
  another `created_at_ns` and is refused (`manage_retention.py:80`).

## 4. The proofs

`JobQueueProofs` proves for all values of the constants that satisfy
`QueueAssumption`:

- `TypeCorrect`: `Spec => []TypeOK`;
- `NeverCorrupt`: `Spec => []JobMirrorsAttempt`;
- `AtMostOneLiveAttempt`: `Spec => []OneLiveAttempt`;
- `SuccessNeedsReceipt`: `Spec => []SuccessIsVerified`;
- `DecisionsAreFinal`, `VersionsFence`, `CancelRequestsHold`: the action
  properties `TerminalIsFinal`, `VersionFence` and `CancelFence`;
- `QueueImplementsLifecycle`: `Spec => ImplementsLifecycle`, the refinement of
  `JobLifecycle`;
- `KeysNameOneJob`, `SchedulesAreSound`, `BackoffsAreHonoured`: the invariants
  `OneJobPerKey`, `RetryScheduleSound` and `BackoffHonoured`;
- `LeasesBelong`, `FramesIncrease`: `LeaseOnlyWhileRunning` and
  `ProgressIncreases`, which like `RetryScheduleSound` no run repeats.

`TypeOK` alone is not inductive: `Claim` numbers the attempt after the maximum
of a set that must be shown to have one, and every attempt operation writes the
job row `JobOf(a)`, which must exist. `TInv` adds `AttemptHasJob` and
`NumbersHaveMax`. The other three are proved together as `QInv`, since each
needs the others: a stale attempt cannot touch a succeeded job only because
the live attempts are the current ones and the rows mirror each other. Each
action first gets a lemma that says which rows it leaves and what it writes into
the others (`MoveRows`, `ClaimRows`, ...), then preservation is a case split on
those rows. Nothing but `QueueAssumption` is assumed.

The action properties and the refinement share one more lemma, `StepHasShape`:
under `QInv` every step is a client operation on one job, a claim, a `MoveStep`
(a live current attempt moves with its job) or a `FinishAndRequeue`, and
otherwise leaves jobs and attempts alone. The refinement needs one invariant
more (`AbsentUnmarked`): a job that is not stored yet carries no cancel mark.

The retry schedule has an invariant of its own, `BInv`. `BackoffHonoured` speaks
of an attempt and the next one, which may start long after, so something must
remember the backoff meanwhile: the schedule row of a newest attempt that failed
with a retry is there until the job is claimed or cancelled (`RetryPending`).
That needs the numbering (`CurrentIsNewest`, `NumbersDistinct`), and the claim
needs that a next number exceeds every earlier one (`NextNumberExceeds`).

`SupervisorProofs` proves about the composition of controller, children, clients
and queue, for all values that satisfy `QueueAssumption`, `SupervisorAssumption`
and `BackoffAssumption`:

- `SupervisorTypes`, `MemoryIsTrue`, `RowsRecoverable`, `NoReservationLeaks`,
  `ChildrenEndFirst`: `SupervisorSpec => []` of `SupervisorTypeOK`,
  `MemoryMatchesQueue`, `RecoverableRows`, `ReservationsMatch` and
  `ChildEndsFirst`;
- `SupervisedQueueConsistent`, `SupervisedBackoffsHonoured`: the supervised
  program, whose clock and backoffs are not those of `JobQueue!Next`, keeps the
  queue's invariants too;
- `CancelAlwaysPrevails`: the action property `CancelPrevails`;
- `RetriesAreBounded`, `BudgetsBoundChildren`: `AutomaticRetriesBounded` and
  `ChildrenWithinBudget`.

`MemoryMatchesQueue` is true where the controller stands between two
transactions only because of how it got there, so its inductive invariant `SInv`
follows the program counter. `PlanShape` says which attempts and reasons each
step may be about, `StartsFresh` that an attempt on its way from claim to
registration is still `STARTING` and unregistered, `BoundaryRecords` that
recovery works on copies of the rows and shutdown on registered records only.
`Bookkeeping` ties the three notions of a supervised attempt together: live in
the queue, known in memory, reserved in admission; they agree for every attempt
but the one `plan` names. `ChildrenHeld` says by which handle a running child
can be ended. Of the queue `SInv` needs `BInv` and two facts about rows:
`Claimed` (a stored attempt was numbered, a stored job has a spec) and
`RuntimeRows` (a lease exactly while running). Every action has its lemma
(`KillKeeps`, `RegisterKeeps`, ...); those that end an attempt share
`FinishKeeps`, those that only move on share `GotoKeeps`, the ways the controller
ends share `ExitKeeps`, and the steps of others share `OthersKeep`.

`StepCalls` reduces every step to one queue call of the controller, one of a
client, or none; the cancel and retry theorems are case splits on it. The retry
bound maps the retried attempts of a job to their numbers, which are distinct
(`NumbersDistinct`) and below `max_attempts` (`RetriesCounted`). The budget
theorem carries two sets, the reservations and the running children: only
`Reserve` enlarges the first, under `Fits`, and only `Spawn` the second, where
every running child is reserved (`RunningReserved`); meanwhile no stored
attempt changes its lane.

`BackoffAssumption` says that the backoff of each attempt is a natural number.
It holds of every choice of the other constants, but the prover cannot show that
powers of natural numbers are natural; TLC evaluates it in the supervisor's
runs.

`ArtifactStoreProofs` proves about any number of processes, artifacts, paths and
faults that satisfy `StoreAssumption`:

- `StoreTypes`, `KnownStaysDurable`, `LeasesProtect`: `StoreSpec => []` of
  `StoreTypeOK`, `KnownIsDurable` and `LeasedIsWhole`;
- `LineageIsDurable`: `LineageSurvives`, when inputs are at paths of their own
  (`InputsAddressed`);
- `LocksNeverCycle`: `NoWaitCycle`, when no process keeps a handle open over
  `stage()` or `commit()` (`KeepsInputs = {}`).

The invariant is `StoreInv`: types, `LockInv` and `FileInv`. `LockInv(P)` says of
the processes that publish which lock each step of a publication holds, that one
process at most is installing, and that exclusive retention is alone, without any
open handle. `LockOrder` is what is left of it for `NoWaitCycle`. `FileInv` says
that a synced marker is what stands there, that an installing process finds at
its destination what it placed, and that leased, opened and returned artifacts
are where they belong. Most steps keep whatever is marked (`MarkedStays`,
`FilesStay`); only `Quarantine`, `Conflict` and `PowerLoss` take something away,
the first two under exclusive retention and so when no handle is open
(`FilesReplace`), the third never what is synced (`PowerKeeps`). `LineageBut({})`
adds that what is committed, or about to be, has durable inputs; its parameter is what
something else than a publication may have taken away, here nothing.

Both hypotheses are needed. Without `InputsAddressed` a `Conflict` at a path that
two contents share moves a committed artifact to the trash, whoever was built
from it; in the code only runs share a path, by their attempt. Without
`KeepsInputs = {}` the run `store_wait` shows the cycle (finding 3). The run
`store_publish` satisfies both.

`CatalogProofs` proves for all values that satisfy `StoreAssumption` and
`CatalogAssumption`:

- `ReceiptsTellTruth`: `CatalogSpec => []CleanIsExact`;
- `SessionsAreComplete`: `CatalogSpec => SessionIsComplete`;
- `CatalogTypes`: `CatalogSpec => []CatalogTypeOK`;
- `CatalogKeepsKnown`, `CatalogKeepsLineage`, `SessionsNeverCycle`: what
  `ArtifactStoreProofs` proves of the store alone holds beside a controller as well,
  under the same hypotheses.

The first two need no invariant of the store: the controller compares and rebuilds
from what it sees under `writer.lock`. The first rests on `CleanAtRest`: a receipt is
clean only while no session is open, and only an open session writes the index. The
second rests on `IndexInv`, which relates the three tables: a key names an artifact
that has it, whatever is in the index or in conflict has a key that names something,
and what is served is what its key names, without a conflict. `IndexOutput` needs
all of it to meet no other artifact of its key, `RecordCollision` to know that the
one it displaces is the only one served. `LeastIsOne` is the one fact about numbers
(a set of ids has a least one).

The others rest on `CatalogStoreInv`. The controller takes `writer.lock` without
publishing, which `LockInv` does not allow, so `LockInv` is stated of the `Others`
and `ControllerInv` of the controller: it asks for the lock only when a session
begins and ends, and has given it back when the session is open. Every step of it
is a `ControllerShape`: it changes no directory, syncs some, and asks for the lock
or gives it back (`SessionShape`, `SessionKeeps`); the steps of the others are those
of the store (`BesideKeeps`, `OthersLeave`).

`RetentionProofs` proves about the commands of the operator beside any number of
processes, batches, generations and faults, for all values that satisfy
`StoreAssumption`, `RetentionAssumption`, `FittingAssumption` and
`BackupAssumption`:

- `MaintenanceTypes`, `MarkersAreTrue`, `MarkedGenerationsAreWhole`,
  `LeasesProtectFromSweeps`: `BackupSpec => []` of `BackupTypeOK`,
  `TrashIsAsMarked`, `GenerationsAreWhole` and `LeasedIsWhole`;
- `RetainedAreKept`: `RetainedStays`, when no other artifact goes to the path of
  one that job rows name (`RetainableAddressed`);
- `PinnedAreKept`: `PinnedStays`, when that is so of what pins may protect
  (`PinnableAddressed`) and kills and power losses do not both strike
  (`PowerOrDeath`);
- `CutsStayWhileCopied` (`CutStays`): what a backup has still to copy is committed in
  its place, also when publishers displace what stands at shared paths;
- `SweepsSpareTheProtected` (`SweepsSpare`): for every byte budget and at every
  artifact that a sweep moves, what is left to move is outside the closure of what
  job rows and active pins name and of what is young;
- `MissingInputsWereSwept` (`OnlySweepsTakeInputs`): for every byte budget and any
  faults, an input that a committed artifact lacks stands in the record of a batch,
  when inputs are at paths of their own (`InputsAddressed`).

The invariant is `MaintenanceInv`. Its part about the store is not `StoreInv`: the
operator holds `publication.lock` or exclusive retention without publishing
anything, so `LockInv` is false of it, and `CoreLock` is what is left and still
enough for the lemmas about files, as it is beside a controller. `OperatorInv` says that whoever moves or deletes
holds retention exclusively, from which nobody else installs, replaces or reads
(`AloneInStore`); `MoveInv` that candidates are in their place until they are moved;
`BatchInv` follows a purge, which works on the smallest of what is left and may be
cut short between any two trees; `GenerationInv` follows a backup from the capture of
the cut, when all of the closure is on the list, over copies that may be spoiled: a
tree that is off the list was read back whole (`CutCopied`), so a generation is whole
when it is placed and stays so until its marker. `CutInv` is about the other side: the
lease holds the whole list when retention is given back, and an open handle keeps its
artifact where it is. Most actions only take or give back locks (`LocksOnly`,
`QuietLocks`). `RetainedInv` and `PinsInv` rest on three lemmas more: what is alone
at its path stays durable over every step but its own move (`DurableKept`), a sweep
begins to move only what neither rows nor pins reach (`MovingSpares`), and a pin is
linked when its closure is open and so durable (`ClosureIsLeast`).

`PinsInv` also covers the record that a power loss may bring back, and there
`PowerOrDeath` is needed: an unpin killed between rename and fsync, a sweep, and a
power loss leave an active pin without its artifacts. The run `retention_sweep` has
both kinds of fault but one fault only; the theorem has any number of one of them.
`SweepsSpare` is inductive beside `MaintenanceInv`. A sweep establishes it when it
confirms its plan under exclusive retention; while it moves nobody else commits
anything (`MovingAlone`), so nothing becomes young, and rows and pins stand still, so
what is protected can only shrink (`ProtectedShrinks`). `LineageBesideInv` is
`LineageBut(Swept)`, the store's own lineage but for what batches record: every step
of the others keeps it for the same reasons as in the store (`LineageOutside`), a move
adds what it takes to the record (`LineageMoves`), and no purge removes anything from
it (`MovedIsRecorded`). Neither theorem says that lineage is complete between sweeps,
as `LineageIsComplete` does of the budget of the run: for a budget that binds it is
false (section 3).

`FittingAssumption` says that a sweep takes nothing it was not offered. It holds of
every choice of the other constants, but `Fitting` is a fold over a sorted sequence
and its proof an induction; TLC evaluates it in the runs of `Retention`.

`SnipingProofs` and `CopyTradingProofs` prove about both
launchpad engines, for any number of trips, mints and developers, any amounts, fees,
delays, cooldowns and clocks that satisfy the assumptions of `TransactionClock`,
`Settlement`, `Sniping` and `CopyTrading` listed below:

- `TypesHold`, `RunsNeverAbort`, `ReservationsAreOrders`, `RecordsExplainTheWallet`,
  `DepositsArePaidOnce`, `TripsArePursued`, `CooldownsAreKept`, `PreflightIsABound`:
  `TradingSpec => []` of every invariant of the run `trading`;
- `MintsAreEnteredOnce`: the copy engine enters a mint once at most, which no run
  repeats.

The assumptions are what the policies and the input contracts validate:
`DelaysArePositive`, `AmountsAreNatural` and `CopyPolicy` (an order lands after its
decision, amounts are unsigned, a position may be sold in one attempt at least),
`CooldownIsNatural`, `TripsAreFinite`, `TokensAreApart` (a mint is neither the quote
nor the native asset) and `RunsAreValid` (blocks ascend, every launch has a position).

The invariant is `TradingInv`: `SnipingInv` of a sniping run, `CopyInv` of a copying
one. Both contain `Books`: each asset's reservation is the sum of what the orders in
flight hold, what is paid and received is the sum of what the trips' records say,
deposits are those of the open accounts, and what an order would be refused for when
it lands is excluded (a balance that covers it, an account that is there or is held
for). `BooksExplained` and `ReservedIsInFlight` alone are not inductive: a landing
settles what its own order holds, so the proof must know that each live trip has one
order (`OneOrderEach`), that its status says which, and that the wallet's account is
held by every buy that was submitted before it existed. The rest is about time: what
is scheduled lies ahead, at a boundary of the clock, in the phase that serves it, and
as far as the preflight went (`CopyOnTime`, `SnipingOnTime`). For
`PreflightIsABound` and `RunsNeverAbort` that is an induction over the attempts: the
next attempt of a trip lands no later than the preflight's, since `TransactionAfter`
and `HoldingDeadline` are monotone in the position they start from and a rejected or
a triggered sell is decided no later than one that waited.

The sums are folds over finite sets. `SnipingProofs` characterizes them without
induction over data: a sum is a function on the subsets of the trips, given by one
recursive equation, and what adding, removing or changing one trip does to it follows
by well-founded induction on a set of naturals (the set of the sizes at which a claim
fails has no least element). Each operation of `Settlement` then has a lemma that
says that it keeps the books (`FailBuyKeepsBooks`, `FillBuyKeepsBooks`, ...), each
action of an engine one that composes them.

`EngineParityProofs` proves about the two canonical engines, for every replay that
satisfies the assumptions of `EngineParity`:

- `ObservationReleases`, `OrderReleases`: `bisect_left` from a first candidate on and
  `searchsorted` find the same release boundary, equal blocks, delays of 0 and the
  horizon included;
- `ReadyIsDue`: the heap of the reference, popped in the order of `SchedulerKey`,
  gives the rows the optimized engine's pointer walks, in their order, and keeps the
  rest;
- `EnginesStayInStep`: `ParitySpec => []InStep`;
- `EnginesEndAlike`: `ParitySpec => []OutcomeParity`.

The assumptions are `ReplaysAreValid` (`BoundaryTimeline` refuses blocks that
descend and an empty index, `reference.py:285`; delays are unsigned),
`ReplayAmounts`, and `NoneIsApart` (`None` is no number, event, order or reason of a refusal).
Nothing bounds the boundaries, the rows, the budget or the funds.

`OutcomeParity` says something of ended runs only. `InStep` relates two runs
under way, as a simulation does: `SameQueue` says that the scheduler holds exactly
the rows from `next_delivery_source` on whose release exists, that
`pending_observations` counts them, and that none of them was due earlier
(`NotBefore`), without which a pointer could not replace a heap. That they are due
consecutively follows from `ReleasesAscend`: blocks ascend, so releases do.
`SameOrder` holds the one pending order against the scheduler of orders,
`SamePools` the three pools against the payload indexes. Two differences had to be
found for the invariant to be inductive: the venue's pool is compared only as long
as an order may still meet it (`VenueIsUsed`), since the swap stays in the
reference's pool in shadow mode and in nothing of the optimized engine; and
whether a pool is known is compared only until the strategy has submitted, since
the optimized engine stops to look. The readable engine delivers a whole boundary
before it asks the strategy, so between the two it is ahead by the deliveries
(`AuditsAgree`). `SameAuditAmong` is what `OutcomeParity` allows there: an intent
recorded among the deliveries, or after them, maybe for another row.

Each pair of steps has its lemma (`ApplyTogether`, `DeliverFirst`,
`DecideTogether`, `AcceptTogether`, `SameExecution`, `CheckpointTogether`,
`FinishTogether`); `TheyMove` shows that the schedule pairs no others. The facts
about data that would be inductions (what a concatenation, a filter, a flattened
sequence or a popped heap contains) are proved from the recursive equation of a
function and the least natural at which a claim fails (`NatSetInduction`).

Every invariant and action property of a passing run but `LineageIsComplete` is
stated by a theorem. Only model-checked: `JobEnds`, because liveness under fairness
is out of the prover's reach, and `LineageIsComplete`, because it depends on the
budget of the run; `SweepsSpareTheProtected` and `MissingInputsWereSwept` are what is
proved of every budget.

## 5. Plan

In this order:

1. an abstract specification `ArtifactVisibility` (an id is absent, then
   complete until collected) implemented by `ArtifactStore`, and the
   verification cache with its metadata fingerprint;
2. `Admission` with the memory, core, I/O and disk sums, `ControllerLock`,
   `ProgressPipe`;
3. the reads of the catalog (`find_committed` beside a collision), `ShardLedger`
   with its contiguous frontier, the restore of a generation with its staging and
   reconciliation;
4. cashback and synthetic liquidity in `Settlement`, the vectorised sniping
   engine beside `Sniping` as `OptimizedEngine` is beside `ReferenceEngine`.

### Not modelled

The progress pipe, the reads of the catalog, the restore of a backup and dataset
planning have control state of their own and are planned (2, 3). Of the
launchpad engines, quotes, prices and valuation are arithmetic on inputs, and
the resource limits only end a run. Columnar formats, ML publication, result and
research stores, source decoding, HTTP, CLI and the web interface transform data
or call the operations above; they keep no state between two calls that another
actor could see half done, and are not planned.
