# Market Monitor: TLA+ models, model checking and proofs

This directory specifies the parts of Market Monitor whose correctness depends on
interleavings, crashes, retries and restores, and checks them with TLC and TLAPS. Paths
below are relative to the repository root.

## 1. The system

Market Monitor watches a stock market, evaluates sectors minute by minute and notifies its
owner. One process (the API application, `apps/api/.../app.py` lifespan) holds an exclusive
runtime lock and owns one SQLite database, one writer thread, one delivery loop and one
production worker.

| Part | State | Operations | Interacts with |
|---|---|---|---|
| Writer queue (`persistence/writer.py`) | bounded queue, lock, accepting flag, one thread | `start`, `submit`, `barrier`, `close`, `_run` | every component writes through it |
| Analysis Commit (`analysis/analysis_commit.py`) | `analysis_commit`, state, Guardian, Scout, event and intent tables | `commit` | snapshots, thresholds, writer, outbox |
| State, Guardian, Scout rules (`analysis/state.py`, `guardian.py`, `scout.py`, `facts.py`) | rule tables | evaluations | Analysis Commit |
| Official cycle (`analysis/official_orchestrator.py`, `production_worker.py`, `scripts/official_runner.py`) | `official_cycle_run` journal, volatile last key | `tick`, `run`, journal `get`/`begin`/`save` | pipeline, Analysis Commit, delivery |
| Notification delivery (`notifications/*.py`) | intents, delivery rows with leases, attempts | `run_once`, `advance_restore_generation`, loop | writer, adapters, recovery |
| Backup and recovery (`persistence/backup.py`, `recovery.py`) | backup sets, generation, recovery state | create, verify, restore, complete | everything in the database |
| Artifacts, maintenance, capacity (`persistence/*.py`) | content-addressed files, leases, retention | put, reconcile, quarantine, retain | backup, snapshots |
| Snapshots, metrics, thresholds (`analysis/snapshots.py`, `market_metrics.py`, `metric_runner.py`, `thresholds.py`, `calibration.py`) | manifests, bundles, snapshots, facts, threshold versions | build, seal, run, register, activate | ingestion, Analysis Commit |
| Ingestion, health, clock, reference data (`data/*.py`) | epochs, watermarks, health reports, calendars, versions | ingest, report, resolve | TDX gateway, snapshots |
| Native TDX (`data/tdx/*`, `scripts/tdx_runner.py`) | connections, server list | requests, failover, backfill | ingestion |
| API (`apps/api`) | sessions, idempotency records, settings | login, claim, complete, settings | writer, read views |
| Web client (`apps/web`) | browser state | pages | API |

What is hard here and hard to test:

* a delivery is claimed in one transaction, sent outside any, and recorded in another; leases
  run out, workers die, and a restore may replace the database in between;
* `submit` and `close` hold a lock while they block on a full queue;
* the Analysis Commit looks for an existing commit outside its transaction and relies on an
  optimistic version inside it;
* the official cycle records its progress in a journal in separate transactions from the
  work, and must survive death between any two of them;
* events recur, lifecycles must move along a table even across outages, and the current rows
  must be rebuildable from the append-only history.

`PROJECT.json` lists every such hazard at its line with the properties about it.

## 2. Modules

| Module | Models |
|---|---|
| `Delivery` | outbox, `DeliveryWorker.run_once`, loop, generation advance, backup, restore, recovery |
| `SerialExecutor` | abstract: what the writer queue promises |
| `WriterQueue` | the queue, its lock and its thread; refines `SerialExecutor` |
| `CommitStore` | the Analysis Commit transaction, the rule tables, the rebuild queries, as operators |
| `AnalysisCommit` | concurrent callers of `commit` over `CommitStore` |
| `OfficialCycle` | worker, journal and orchestrated run over `CommitStore`, with crashes |
| `Rules`, `Evaluation` | Guardian and Scout rules as functions; the evaluation services and their races |
| `Calibration` | verdicts over stored metric runs against a candidate pair of thresholds |
| `Thresholds` | threshold registry and its reading by an official cycle |
| `MetricRules`, `Metrics` | the CR-004 metrics as functions; the runner that stores them |
| `Artifacts` | content-addressed files, leases, retention, backup sets, restore |
| `Evidence` | quotes, bars, manifests and snapshots under retention |
| `Recovery` | epochs, health, watermarks, and the way back to `NORMAL` |
| `ApiWrites` | idempotent API writes, analysis queries, online backups |
| `Acquisition`, `Catchup` | TDX sweep and minute bars; TDX historical catch-up |
| `StorageParts` | `Delivery` and `Artifacts` side by side |
| `ServiceParts` | `ApiWrites`, `Evaluation` and `Calibration` side by side |
| `CommitParts` | `AnalysisCommit` and `Thresholds` side by side |
| `DataParts` | `Recovery`, `Catchup` and `Acquisition` side by side |
| `AnalysisParts` | `Metrics` and `Evidence` side by side |
| `DeliveryProofs`, `WriterQueueProofs`, `AnalysisCommitProofs`, `OfficialCycleProofs`, `ArtifactsProofs`, `AnalysisProofs`, `RecoveryProofs`, `ApiWritesProofs` | the theorems about the module each is named after, `AnalysisProofs` those about `Metrics` and `Evidence`; `AnalysisCommitProofs` also those about `Thresholds`, `ApiWritesProofs` those about `Evaluation` and `Calibration`, `RecoveryProofs` those about `Catchup` and `Acquisition` |
| `MC*` | instances, model values, evidence sets and symmetry for TLC |

The composition follows the code. A writer transaction is one step in every module because
`WriterQueue` implements `SerialExecutor`: one command at a time, each in one transaction.
What a caller reads before it submits its command is a step of its own. `AnalysisCommit` and
`OfficialCycle` share the transaction of `CommitStore`; the intents it inserts enter `Delivery`
through `Enqueue`. `Evaluation` and `Calibration` share `Rules`; `Metrics` extends `MetricRules`.
The five `*Parts` modules put components of one service beside each other: a behaviour is of one
of them (`part`), and what a run checks of a component is stated there once, where the proofs
state it too.

### Delivery

`db` holds `system_metadata` (generation, recovery), the webhook setting, the intents, their
delivery rows and attempts. A worker's `pc` says where it is in `run_once`: `claiming` (the
clock was read, line 50), `checking` (claimed, 106), `sending` (claim still current, 110),
`finishing` (the adapter answered, 120), then `idle`. The claim is three actions
(`ClaimRefused`, `ClaimNothing`, `ClaimOne`) for its three returns. `Die` covers a closed loop,
an exception out of `run_once` and a killed process; a later process brings fresh worker ids
(`Start`). `Restore` needs every worker stopped, as `OPERATIONS_RUNBOOK.md` demands, and is
atomic: the restored directory is published by one rename. `CompleteRecovery` keeps the
generation condition; its other conditions (fresh watermarks and commits) only delay it.
`sent`, `epoch` and `born` are history variables.

Abstracted: time is a counter; payloads, error codes and audit rows are left out; the row's
version column cannot conflict inside one transaction; `adapter.send` returns any outcome
the adapter's code can return. A channel without an adapter is a permanent failure, which
is among the webhook's outcomes.

### WriterQueue and SerialExecutor

The state is that of the class (`_queue`, `_state_lock`, `_accepting`, `_thread`,
`_worker_ident`) and of the Futures. `submit` is two steps, taking the lock and the put, so
that a put blocked on a full queue keeps the lock. `close` is five: enter, put the stop object,
join, reset; a second `close` only joins. `start` on a started queue and `close` on a closed
one change nothing and are left out. A client thread submits one command; `barrier` is such a
command. `RunCommit` and `RunRollback` are the two ends of `engine.begin()`. The refinement
maps the line to the taken item followed by the queue without the stop object (`Waiting`, `Line`),
and the outcome of a command to that of its Future, where a transaction that has committed counts
as done before its Future says so (`Fate`).

`OwnerAssumption`: a queue that is closed by several threads is started once. Every queue of the
program is started and closed by the thread that made it (`recovery.py:107-116`, `app.py:541-597`).
The class alone would allow more: with two closers and a restart in between, the second closer's
late reset would forget the new thread.

### CommitStore, AnalysisCommit

A snapshot is its as-of instant, subject, disposition and evidence: the two quality statuses,
which facts have values, and which meet their threshold. The request stands for its own
hash. `Refusal` is the sequence of checks in `command` and `_insert_state`, `Committed` all
its inserts and updates. An event is named by its key and the commit that created it.
`rewarm_required`, severity, strength, reason texts and the frozen context are left out.
Callers interleave at `MakeRequest` (the version is read), `Lookup` (`_existing`) and
`Execute` (the transaction); provenance and threshold verification may raise (`Fail`).

### OfficialCycle

One action per step of `OfficialOrchestrator.run` between two durable effects; each may
`Raise` into the handler of lines 636-645, whose own save may fail as well. `Crash` happens
anywhere and forgets `lastKey` and the run. The gates before `begin` write nothing to these
tables and pass, block or raise. A run observes at its own number, so as-of instants increase
with the runs of the one worker. Metrics of a taken-up snapshot are the same as before.

### Rules, Evaluation and Calibration

`Rules` translates the rule tables and the decisions of `guardian.py` and `scout.py`: severity,
effect, suppression. A metric value is a small number; a metric without a value is not in the
domain. In `Evaluation` a caller records facts with a threshold version, looks up the stored
evaluation, computes and inserts; another may insert in between. The commit's own copy of the
rules is a second translation, and `SameAsOfficial` compares the two. `Calibration` checks runs
one by one, then records the two verdicts in two commands; the process may die between them.

### Thresholds

The four tables are variables. Activation inserts two rows in one command. A cycle reads the
registry six times outside every transaction: two reads each for the permit, the metrics and the
commit. The checks that compare the pair (`cycle.permit`, the evidence's pair) are in
`RunOfficial` and `EvidenceNames`. A document is its pair, scope, origin, time and soundness;
the numbers in it are data. Every check of a pair compares values, so a pair that was never
activated together can pass them all if the registry changes back and forth under the cycle: two
pairs activated in turn, each at an instant of its own before the cycle's. The first read may find
an old row, each of the other five must find a row recorded since: five activations during the
cycle, ten rows, suffice and fewer do not. `CommitOfOnePair` says so for any number of activations:
a commit names one pair, or `during`, the rows recorded since its cycle began, are ten at least.
Nothing in the code limits the activations of a cycle; `begun` and `during` are history variables.
With eleven in place of ten the instance of `commit` violates it.

### MetricRules and Metrics

The formulas are those of `market_metrics.py` in integers per ten thousand (`K`); a value that may
be missing is a set with at most one element. Sectors stay below twenty members, where the
robust return is the median. `EARLY_SIGNAL_FAILURE_PPM` is left out: the runner gives it no
input. Windows of 2 and 4 minutes stand for 5 and 10. `Metrics` adds what a sealed snapshot
shows of quotes and bars, the sessions and minute indices of `TradingClock`, the continuity
observations read from earlier runs, and two recording commands that a failure can separate.
A snapshot is sealed within its minute; there is one sector and one day.

### Artifacts

`put_bytes` is its file-system steps, `register` and `reference` are writer commands. Retention
plans, refreshes its plan, removes rows and leases in one command and unlinks files later. A
backup copies the database with leases in one step, then file by file, verifies and publishes
by a rename. A restore replaces database and files. Every process may crash between two steps. A
digest stands for its bytes; corruption is left out because every read verifies the hash.

### Evidence

Quotes are versions of lineages, with corrections that arrive while a manifest is built; bars are
single rows. The builder reads, writes the manifest and seals a snapshot in separate steps.
Quote and bar retention each have a plan, a second look, and deletions in batches. One epoch and
one instrument.

### Recovery

Watermarks and health reports are rows per epoch and capability (`Feed`), as in the tables:
`QUOTES` and what an OFFICIAL snapshot requires besides (`Support`). Quotes arrive, also late;
their source time is that of the batch, an earlier one, or missing, as `tdx_quote_time` gives it
in and outside the continuous sessions (`SourceTimes`). `Advanced` are the capabilities whose
watermark somebody advances: `demo-replay` those of `QUOTES`, on databases marked as
demonstrations; the acquisition command those of the bars; nobody that of `TDX_BLOCKS`; and the
cycle of the production worker none. A restore sets `recovery_state`, deletes every watermark and
rebuilds those of `QUOTES` from the stored quotes; `complete_recovery` is a check outside the
writer (`reconcile`, of which the count that depends on this state, unrevoked sessions, is kept)
and a command inside it.

### ApiWrites

A request validates its key, finds, claims or takes over the row under the per-process key lock,
does its work and completes. The work is an analysis query (a chain of evaluations, each stored
once) or an online backup. The client repeats a call whose answer it did not get; leases expire;
the process may crash between any two steps. The limit of new queries per minute is counted
when the record is inserted. A query is pinned to the commit its record names. Two kinds of commit can
never be evaluated: those whose manifest demands an age limit that `analyze` does not pass
(`Realtime`), and those without complete metrics of one lineage (`Unmeasured`). Every attempt at them
raises at the same stage (`Raises`, `EvaluationRefused`); a passing failure is `EvaluationFails`.

### Acquisition and Catchup

`Acquisition` is `poll_once` on one thread and `refresh_primary_minute_bars` on another. A batch whose
answer does not match is split; a single symbol that still fails is quarantined; a symbol whose
cumulative volume falls is quarantined as well (the previous quote is only known within one
process). A restart forgets the sweep. A batch of three stands for the 75 of the code; one
epoch, one day. `Catchup` is `warm` with its ledger row and checkpoints, beside the daily bars that
a cycle captures while the day is open. One day of history in two pages stands for the 5 and 20
days in pages of 800 bars.

## 3. Runs

| Run | Config | Parts | Shows |
|---|---|---|---|
| `live` | `MCLive.cfg` | `WriterQueue`, `ApiWrites` | `WriterDrains`, `FutureTellsTruth`, `SerialExecution`, `EveryCallReturns`, `ClaimsComplete` |
| `service` | `MCService.cfg` | `ServiceParts` | `AnswersAgree`, `AnswersTellTruth`, `RateLimit`, `RulesSound`, `WorseNeverAllowsMore`, `AnswersAreStored`, `CalibrationSound` |
| `commit` | `MCCommit.cfg` | `CommitParts` | `StateFollowsLedger`, `EventsFollowLedger`, `CommittedOnce`, `ThresholdsSound`, `CommitOfOnePair` |
| `cycle` | `MCCycle.cfg` | `OfficialCycle`, `Delivery` | `JournalSound`, `RebuildIsFaithful`, `CompletedIsFinal`, `EventuallySettled` |
| `storage` | `MCStorage.cfg` | `StorageParts` | `TypeOK`, `OneLiveSender`, `AttemptLedger`, `SendsSpaced`, `NoResendAfterRestore`, `SentInLifetime`, `SettledIsFinal`, `ArtifactsReadable`, `BackupFindsFiles` |
| `analysis` | `MCAnalysis.cfg` | `AnalysisParts` | `EvidenceSound`, `LineagesKept`, `MetricsRestOnEvidence`, `MetricsAreMonotone` |
| `data` | `MCData.cfg` | `DataParts` | `ReportsTellTruth`, `OnlyTheFaultyAreQuarantined`, `CatchupTellsTruth`, `WatermarkFollowsQuotes`, `RecoveryOnFreshEvidence` |
| `commit_old_task` | `MCAnalysisCommitOld.cfg` | `AnalysisCommit` | `NewerStateStands` is violated |
| `cycle_retry` | `MCOfficialCycleRetry.cfg` | `OfficialCycle` | `RetryFindsItsCommit` is violated |
| `query_realtime` | `MCApiWritesRealtime.cfg` | `ApiWrites` | `QueriesAnswered` is violated |
| `recovery_tdx` | `MCRecoveryTdx.cfg` | `Recovery` | `RecoveryCompletes` is violated |
| `catchup_daily` | `MCCatchupDaily.cfg` | `Catchup` | `DailyBarIsTheDay` is violated |

A run with several parts is a disjoint union. The variable `part` is chosen in the initial state and
never changes; only that part takes steps, and the variables of the others keep a constant
value. The parts do not interact in such a run; it only saves a run for each of them. For `storage`,
`service`, `commit`, `analysis` and `data` the union is the module in the table, and `MCService`, `MCCommit` and
`MCAnalysis` pick scenes of it (`scene`): sets of behaviours with fewer inputs, each of which is about one question.
`MCLive` and `MCCycle` form their own union of an extended component (`WriterQueue`,
`OfficialCycle`) and instances of others. A property of an instance names one of its
module, often a conjunction, which its comment lists. `ArtifactAssumption`, `EvidenceAssumption`,
`MetricsAssumption`, `WritesAssumption`,
`CycleAssumption`, `RegistryAssumption`, `EvaluationAssumption`, `CalibrationAssumption`,
`SweepAssumption` and
`CatchupAssumption` are evaluated by an ASSUME of the MC module, for the constants of each of its parts.

Bounds.

* `storage`: of the outbox, a worker and the one that takes over; four ticks hold two leases, two
  attempts and the expiry; one backup and one restore. Of the files, one content with two callers, a
  retention and a backup. The proofs have none of these bounds.
* `live`: three submitters fill a queue of two (with the stop object) and two starts show a restart;
  with two closers the queue has one place, so that a put or a stop waits with the lock held; one
  crash or one passing failure of the API; of two commits of the subject the newer cannot be evaluated, so a key is pinned
  to one of either kind.
* `service`: two requests, a crash and a failure show a takeover; of three commits the second has a
  realtime manifest; a limit of one is reached; two
  rules are evaluated under two versions, and one version by two callers; five runs are the least
  that separate the shares of 80 and 60 percent of a calibration, which sums over its runs: they come in
  one order.
* `commit`: three commits open, resolve and reopen an event and put an outage between two
  lifecycles; two callers race over two snapshots; two documents of five kinds are recorded and two
  activations accepted; in a scene of their own six activations of two pairs, at successive instants,
  one before a cycle and five between its reads, are the fewest that mix a pair, so the exception of `CommitOfOnePair` is reached.
* `cycle`: four runs over two minutes give two retries; three runs over three minutes with two kinds
  of evidence open and resolve events; two intents and two workers whose clock reaches the
  expiry.
* `analysis`: two versions of one lineage for a correction during a build; two bars and batches of
  one for a plan that changes half way; 480 constructed market days cross six trends, ten data faults
  and eight minutes, with one more day of several runs.
* `data`: three symbols on two exchanges, of which the outer two may break the batch and the one
  between may lack a quote when the sweep starts, bisect a batch twice; two catch-up runs show a kill and a repetition; two epochs and one restore of a
  demonstration database, which has `QUOTES` alone, stamped in any way.
* `query_realtime`, `recovery_tdx`: the least that shows the cause: one request without crashes or
  failures; one epoch, all four capabilities, every quote stamped. With `QUOTES` and
  `TDX_BLOCKS` required and both advanced fairly recovery completes, with `QUOTES` left out it does not.

Where a configuration switches deadlock checking off, the instance ends by design: time, starts or
runs are used up, or the queue is closed, or the workers are dead.

Fairness. `Delivery`: time passes, and a running loop keeps calling `run_once` (`_run` polls
until stopped); nothing is assumed of deaths, starts or the owner, and `EventuallySettled`
assumes a worker that stays alive. `WriterQueue`: the threads run, and lock and put are served
(Python's `Queue` and `Lock` wake their waiters); weak fairness of each client's put is
enough, since only the lock holder can put. `ApiWrites`: a request that has begun proceeds, its
lease and the rate window pass, and a client repeats what was answered with an error; crashes and
passing failures are bounded and not fair, while a commit that cannot be evaluated is refused at
every attempt, without a bound. `Recovery`: time passes, the cycle stores quotes, records
reports and commits, the acquisition command for bars is repeated and so is the completion; no
fairness is assumed of `QUOTES` and `TDX_BLOCKS` watermarks, which nothing in a live service advances.

Findings, each with a run.

1. `cycle_retry`: after a crash between the Analysis Commit and the `COMPLETED` save, the retry
   computes another request hash, because the hash covers the projection version the commit
   itself raised, and is refused; the cycle stays `FAILED` though its commit stands. The
   repository's test of this case asserts `COMMITTED`, with a pipeline whose version never
   changes. `OneCommitPerCycle` shows that nothing is duplicated.
2. `commit_old_task`: an older snapshot can replace newer state when its caller reads the version
   late; the architecture baseline excludes this. It takes the official-run command beside
   the production worker.
3. `recovery_tdx`: `complete_recovery` asks for a watermark newer than the restore for `QUOTES` and for
   every capability the current snapshots required. Native quotes are stamped and the restore rebuilds
   a `QUOTES` watermark, with its old arrival; but the only call that advances `QUOTES` is that of
   `demo-replay`, and none advances `TDX_BLOCKS`. So the live input of the production provider
   cannot end a recovery, which the runbook says it does. The safety of leaving `RECOVERING`
   (`RecoveryOnFreshEvidence`) is not affected.
4. `catchup_daily`: the first daily bar of an open day is stored and never replaced, so the
   bar of a finished day can hold a partial turnover; the data semantics call it the day's.
5. `query_realtime`: `analyze` calls `create_snapshot` without `max_age_ms`, which a realtime manifest
   always refuses, and the production pipeline writes no other for OFFICIAL snapshots. The source is
   fixed with the record, so every repetition is refused and the key is never answered, where the
   API contract promises an answer. What is answered is right all the same (`AnswersAgree`,
   `AnswersTellTruth`), and every other claimed operation is completed (`ClaimsComplete`).

Other disagreements are stated as properties in the modules and are violated too, without a run:

* `Artifacts.BackupIsComplete`: the query of `backup.py:455` does not list the block, mapping and listing
  evidence, so a set may miss a file its database names (runbook line 46).
* `Artifacts.RetentionKeepsRuleEvidence`: the protected references of `maintenance.py:694` leave out
  `rule_execution.output_hash`, which no foreign key holds either (runbook line 77).
* `Artifacts.RegisterIsIdempotent`: a second `register` of the same content at another time is a
  conflict (`artifacts.py:96`).
* `Evidence.OnlyPlannedBarsDeleted`: the batches ask again by cutoff and so take old bars that arrived
  after the plan (`maintenance.py:275`).
* `Evidence.UnchangedPlanApplies`: a quote with a TDX detail row restricts its deletion and rolls the
  whole command back (`maintenance.py:459`).
* `Evidence.SoundManifestsDoNotRefuse`: a manifest of the second schema version is refused as malformed
  (`maintenance.py:527`).
* `Metrics.ReturnSpansTheWindow`: a return is measured between bar closes that need not span the
  window the CR-004 specification names (`metric_runner.py:482`).

## 4. Proofs

Each component has one inductive invariant, a lemma per action that preserves it, the theorem that
it holds, and the theorems that follow from it: `IInv` and `Invariance` in the component a proof
module is named after, `MetricsInv` and `MetricsInvariance` for `Metrics`, `EvidenceInv` and
`EvidenceInvariance` for `Evidence`, `RegistryInv` and `RegistryInvariance` for `Thresholds`,
`JudgeInv` and `JudgeInvariance` for `Evaluation`, `CalibrationInv` and `CalibrationInvariance` for
`Calibration`, `PairInv` and `PairInvariance` for the reads of a cycle, `SweepInv` and
`SweepInvariance` for `Acquisition`, `LoaderInv` with `LoaderInvariance` and `RowsInv` with
`RowsInvariance` for `Catchup`. Every one was first checked by TLC on the instance of its run. The
theorems hold for all values of the constants that satisfy the named assumptions; the bounds of
section 3 (times, crashes, runs, restores) are parameters here, so the proofs cover any number of
each.

| Theorem | States | Checked in run |
|---|---|---|
| `DeliveryProofs`: `TypeCorrect`, `LeaseExclusion`, `AttemptAccounting`, `SendSpacing`, `RestoreSuppression`, `SendLifetime`, `SettledStaysSettled` | all invariants and the action property of the outbox | `storage` |
| `WriterQueueProofs`: `SingleWriter`, `FuturesAreTrue` | `WriterDrains`, `FutureTellsTruth` | `live` |
| `WriterQueueProofs.Refinement` | `SerialExecution`: the queue implements `SerialExecutor` | `live` |
| `AnalysisCommitProofs`: `OnceCommitted`, `StateFollows`, `EventsFollow` | `CommittedOnce`, `StateFollowsLedger`, `EventsFollowLedger` | `commit` |
| `OfficialCycleProofs`: `JournalTruth`, `OneCommit`, `Refused`, together `SoundJournal` | `JournalTellsTruth`, `OneCommitPerCycle`, `RefusalsExplained`, together with the types `JournalSound` | `cycle` |
| `OfficialCycleProofs`: `FaithfulRebuild`, `CompletedFinal` | `RebuildIsFaithful`, `CompletedIsFinal` (an action property) | `cycle` |
| `ArtifactsProofs`: `Readable`, `BackupComplete` | `ArtifactsReadable`, `BackupFindsFiles` of `Artifacts` | `storage` |
| `AnalysisProofs`: `ContinuityRests`, `WindowsWhole`, together `AnalysisMetricsRest` | `ContinuityIsReal`, `WindowsAreWhole` of `Metrics`, together `MetricsRestOnEvidence` | `analysis` |
| `AnalysisProofs`: `LossIsNoGain`, `HealthyOrCollapsing`, together `AnalysisMetricsMonotone` | `DataLossNeverHelps`, `NeverBothHealthyAndCollapsing` of `Metrics`, together `MetricsAreMonotone` | `analysis` |
| `AnalysisProofs`: `TypeCorrect`, `EvidenceKept`, `SnapshotsRest`, together `EvidenceIsSound` | `TypeOK`, `EvidenceStands`, `SnapshotsSound`, together `EvidenceSound` | `analysis` |
| `AnalysisProofs`: `HistoryKept` | `LineagesKept` | `analysis` |
| `RecoveryProofs`: `WatermarksFollow`, `FreshRecovery` | `WatermarkFollowsQuotes`, `RecoveryOnFreshEvidence` (an action property) | `data` |
| `ApiWritesProofs`: `OneAnswer`, `AnswersTrue`, `RateHolds`, `TypeCorrect` | `AnswersAgree` (one answer per key, for its body), `AnswersTellTruth`, `RateLimit`, `TypeOK` | `service` |
| `AnalysisCommitProofs`: `RegistryTypes`, `PairsInForce`, `ActivationsProven`, `ScopesStayApart`, together `RegistryIsSound` | `TypeOK`, `PairInForce`, `ActivationProven`, `ScopesApart` of `Thresholds`, together `ThresholdsSound` | `commit` |
| `ApiWritesProofs`: `CalibrationTypes`, `PassesAreSane`, `SharesHold`, `VerdictIsOne`, together `CalibrationIsSound` | `TypeOK`, `PassIsSane`, `ShareOfFit`, `OneVerdict` of `Calibration`, together `CalibrationSound` | `service` |
| `ApiWritesProofs`: `JudgeTypes`, `VersionsRespected`, `ServicesDecideAsOfficial`, `UnfitSuppressed`, together `RulesAreSound` | `TypeOK`, `JudgedByItsVersion`, `SameAsOfficial`, `UnfitIsSuppressed` of `Evaluation`, together `RulesSound` | `service` |
| `ApiWritesProofs`: `GuardianNeverWeakens`, `EvaluationsAreStored` | `WorseNeverAllowsMore`, `AnswersAreStored` of `Evaluation` | `service` |
| `AnalysisCommitProofs.OnePairCommitted` | `CommitOfOnePair` of `Thresholds`, for any number of activations | `commit` |
| `RecoveryProofs`: `MembersAnswered`, `MinutesCounted`, together `ReportsTrue` | `EveryMemberAnswered`, `MinutesBehindTheReport` of `Acquisition`, together `ReportsTellTruth` | `data` |
| `RecoveryProofs`: `FaultyQuarantined` | `OnlyTheFaultyAreQuarantined` (an action property) | `data` |
| `RecoveryProofs`: `CountsFetched`, `RowsExist`, `FitEarned`, together `CatchupTrue` | `CountedRowsAreFetched`, `LedgerTellsTruth`, `FitIsEarned` of `Catchup`, together `CatchupTellsTruth` | `data` |

The theorems about instances carry over to the unions the runs check. The lemmas `EvaluationIsJudge`,
`CalibrationIsCalibrator`, `PartIsRegistry`, `PartIsFiles`, `CatchupIsLoader`, `PartIsSweep`,
`AnalysisIsMetrics` and `AnalysisIsEvidence` say that a behaviour of
the union either never is of that component or is one of its specification, `StorageIsDelivery`, `ServiceIsApi`,
`CommitIsAnalysis` and `DataIsRecovery` that it always is one of the extended component. So the run's
own definitions are theorems of the union: `StorageReadable` and `StorageBackupComplete` of
`StorageSpec`; `ServiceRulesSound`, `ServiceNeverWeakens`,
`ServiceAnswersStored` and `ServiceCalibrationSound` of `ServiceSpec`; `CommitRegistrySound` and
`CommitOnePair` of `CommitSpec`; `DataLedgerTrue`, `DataReportsTrue` and `DataFaultyQuarantined` of
`DataSpec`; `AnalysisMetricsRest`, `AnalysisMetricsMonotone`, `AnalysisEvidenceSound` and
`AnalysisLineagesKept` of `AnalysisSpec`.

Why each invariant is needed, beyond the properties themselves:

* **Delivery.** Assumes numbered intents, positive lease, retry delay, lifetime and attempt limit,
  and that `Null` is no number and no worker. `Locals` says what a worker remembers at each point,
  `DatabaseOK` gives the shape of each row by status in the live database and in the backup.
  `Traffic` is what the properties miss: an outstanding row was born in the current epoch
  (`Provenance`); a `PROCESSING` row's lease ends a lease after its holder's clock reading
  (`Timely`); every claim in flight is the current one or has lapsed (`ClaimOK`); a retry is due
  only after every claim and send of its intent (`SendOK`). A new claim then finds all earlier ones
  lapsed, from which exclusion and spacing follow.
* **Writer queue.** Assumes a positive queue size, distinct names and `OwnerAssumption`. Only the last
  thread can be alive and it is the one on record (`ThreadsOK`); a close past its join found that
  thread ended (`ClosingOK`); the stop object is the last item (`LineOK`); a command is in one
  place, in the queue, taken or resolved (`FuturesOK`), and in the database exactly when its
  transaction committed (`CommitsOK`). For the refinement, the initial states map to initial
  states, and every action to one action of `SerialExecutor` or to a stutter.
* **Analysis Commit.** Assumes that the lifecycles are of the transition table, that what is met is a
  fact, and that `Null` is no row. A caller's request is of a sealed snapshot (`CallersOK`); the
  rows of an event are numbered from one without a gap, the first creates it and a resolution is the
  last (`EventsOK`); the current row of a key is the last row of the only event of that key that
  can be open (`CurrentOK`). The optimistic version then makes the projection the fold of the
  ledger whoever read what before.
* **Official cycle.** `CycleAssumption`: at least one minute, run and subject; `OBSERVING` is a lifecycle;
  `Null` is no number and no row. Snapshots are named by their run, and later runs belong to no
  earlier minute (`SealedOK`); what the run remembers is what its journal row says (`WorkerOK`);
  the projection is that of the last commit, numbered by the length of the ledger (`LedgerOK`);
  the current event row is the newest of its key (`HistoryOK`). A run that takes a cycle up
  again finds its snapshot in the journal row, so a second commit meets the first.
* **Artifacts.** `ArtifactAssumption`: periods and bounds are numbers. A registered
  row has its file unless retention removed the row (`CallersOK`); the items of a copying backup are leased until its time and have their files (`BackupOK`); a
  published set has row and file of every protected reference (`SetsOK`), which a restore brings back.
* **Evidence.** `EvidenceAssumption`: at least one version, natural times, finitely many bars. What a job
  protects is what the catalog of its plan names (`JobsProtect`), so a fence that compares only the
  catalog is enough; what a builder holds was received by the as-of time of its document
  (`BuilderReads`). `LargestExists` gives the current version and the newest report, which the
  model chooses by a maximum.
* **Metrics.** `MetricsAssumption`: instruments are numbers, finitely many; the short window has a
  minute; a session closes after it opens (`import_day` checks it), and the sessions of a day are
  entered in their order and do not overlap (nothing in the code checks that; it is assumed of the
  imported calendar); a bar has a time and an integer amount. A frozen input is that of the present
  minute and a sealed output that of its own minute (`FrozenNow`, `SealedFromInput`), so that what is
  true of the functions of `MetricRules` is true of what is stored. The run keeps what its evaluation
  read, and what that rests on is only added to (`Rests`, `RestsGrows`), so that neither a second
  run nor a failure takes it away. Four lemmas about the functions carry the rest. `MinutesAreLabels`:
  the minutes the clock counts between two times are the bar labels between them. `WholeWindows`: a
  bar two windows back in a tail exists only with every label after it, in one session.
  `LossNeverHelps`: coverage is a quotient with a fixed denominator, and the history does not look at
  quotes. `NotBoth`: the two scores are the breadth and what is left of it, each out of 10000. Sums,
  maxima and medians are not computed for every input; that they are integers, and what a maximum
  bounds, is enough, and is proved by taking a least counterexample (`LeastNat`).
* **Recovery.** Nothing is dated in the future (`DatesOK`), at most one epoch is active (`OneActive`), and
  a `QUOTES` watermark names a stored quote (`MarkNamesQuote`). Which evidence ends a recovery follows from
  the command reading it again.
* **API writes.** `WritesAssumption`: a key is used for one operation, there is a source, and `Nobody` is no
  request, key or body. `Holds` says what a request owns at each of its points (the entry in
  `_active_claims`, the row with its lease, the query lock, the record); `Tells` says what the tables
  of a key say of one another. A takeover needs an expired lease and the free entry, so the earlier
  holder is gone with its process or has answered; the rate is read and the record inserted
  under one hold of the lock.
* **Thresholds.** `RegistryAssumption`: the two families share no name, there is a time after zero, and
  what the registry starts from are rows. Every Guardian row is followed by the Scout row of the
  same activation, at the same instant, and the instants of a family only advance (`RowsOK`); so
  whatever time is asked, the last due rows of the two families stand side by side. For the pair of a
  commit, `PairInv` counts, relative to the rows there were when the cycle began: as long as the
  versions read so far were never activated together, each read found a row after the one before
  (`ScoutRead`, `GuardianRead`). The first may be an old row; the second version is then of a later
  activation, recorded since, and so on to the sixth read, whose row is the tenth of the cycle at least.
* **Evaluation.** `EvaluationAssumption`: the rules are those of the tables, there is a Guardian rule,
  values and versions are numbers. Every stored or pending evaluation is what the rules decide on
  the stored state, with the one version its facts carry (`StoredOK`, `CallsOK`); these stay because
  value, quality and state do. That no worse input weakens an effect is the lemma
  `WorseIsStronger`: a worse input has all the causes of the better one, each as strong or stronger
  (`TopGrows`), unless it is not fit to judge, and then the effect is the strongest, `PAUSE`.
* **Calibration.** `CalibrationAssumption`: the rules are those of the two tables, the shares and the
  bound on runs are natural. The counters are the cardinalities of sets of the runs looked at so far, so that at the
  end they speak of all runs; and the verdict is a function of the runs alone, so that what a killed
  calibration has recorded of one family is what the next one records of the other.
* **Acquisition.** `SweepAssumption`: the universe names an instrument once, batches and retry delay are
  positive. During a sweep each eligible symbol
  is in exactly one place (a batch to ask for, the answer, the accepted quotes, the store) or in
  quarantine (`InOnePlace`, `Somewhere`, `OnceEach`), through every bisection; so when nothing is left to
  ask or store, every symbol is answered or quarantined, and the count of an exchange is the
  cardinality of its stored symbols. Bars of a minute are only added, so a whole tail stays whole.
* **Catch-up.** `CatchupAssumption`: there is an instrument and a day. Bars are only added (`BarsGrow`), so
  what a run has earned is not lost (`EarnedStays`); a page is counted as fetched before it is stored
  and as inserted after. `RowsInv` compares the rows claimed, with the counters of the running run in
  place of its row, with the rows stored: one step adds as many of the one as of the other, by a
  bijection between the new bars of the page and the new rows (`NewBarsStored`), and a kill or a failure
  only loses claims.

Only model-checked:

* liveness (`EventuallySettled`, `EveryCallReturns`, `ClaimsComplete`), which needs fairness and
  ENABLED, beyond this prover;
* the five properties that are violated.

## 5. Not modelled

`PROJECT.json` gives the reason per component. In short: parsing of the TDX wire protocol,
sockets and server failover, SQL and file-system mechanics, database migrations, capacity
measurements, read views, operation scripts and the web client hold no state of their own that
another part relies on, or are pure I/O. Reference data are rows with validity intervals
written by one bootstrap command; the models take membership as constant. Left out of modelled
components: login throttling, quarantine of orphan files, the remaining reconciliation counts,
reference bundles, how one snapshot aggregates the quality of several capabilities, and the
calendar of trading days.

## 6. Plan

What is left, in this order:

1. Reference data: versions, bundles and their use by the snapshot builder.
2. TDX transport: connection pool, failover and retries of one request.
3. API sessions and login throttling.
4. Orphan quarantine and the remaining counts of `reconcile`.
