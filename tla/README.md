# CivicFlow Analytics: a TLA+ verification project

CivicFlow ingests municipal service cases with their status events, keeps them
in a SQLite or PostgreSQL warehouse, and derives reports, forecasts, snapshots
and recovery evidence from them. This directory models the parts of it that
are hard to test: what concurrent replicas, lost answers, crashes, refreshes
and retries can do to the ledger, and the algorithms whose corner cases the
reports depend on. Modules are checked with TLC on small instances; the
theorems are checked with TLAPS for every value of the constants.

## 1. Inventory

| Part | State | Operations | Talks to |
|---|---|---|---|
| Ingestion API (`api.py`, `auth.py`) | counters, credentials | authorize, ingest, list_cases, metrics, health | a case store |
| Case store (`store.py`) | - | initialize, readiness, ingest, list_cases | one backend |
| PostgreSQL store (`postgres_store.py`, `migrations/`) | three tables, migration table | the same, multi-replica | PostgreSQL |
| SQLite warehouse (`warehouse.py`) | one file, three tables, a view | ingest_case_batch, load_warehouse | SQLite |
| Data contract (`model.py`, `validation.py`) | - | validate_cases, validate_status_events | every producer |
| Pipeline (`cli.py`, `synthetic.py`, `io.py`) | report files | generate, report, refresh | the warehouse, files |
| Analytics (`analytics.py`, `workflow.py`, `geography.py`) | - | SLA, backlog, cycle time, cohorts, districts | cases, events |
| Risk model (`prediction.py`) | fitted model | train, calibrate, drift, score | cases |
| Staffing (`staffing.py`) | assumptions | scenarios, rolling backtest | cases |
| Forecast governance (`governance.py`) | audit chain file | thresholds, hash-chain verification | backtest, assumptions |
| Snapshots (`snapshots.py`, `snapshot_cli.py`) | snapshot directories | create, verify, retain | pipeline files |
| Disaster recovery (`recovery.py`, `recovery_cli.py`) | backup file, scratch database | backup, restore, reconcile, drop | PostgreSQL |
| Dashboard (`dashboard.py`, `reporting.py`) | - | bootstrap, read, filter, export | the warehouse |

The hard behaviours are in the parts that share state: several API replicas on
one PostgreSQL database; API, pipeline and dashboard on one SQLite file;
snapshot creation, retention and the pipeline on one directory tree; recovery
next to live ingestion. The full list, with source lines, is `hazards` in
`PROJECT.json`.

What makes each part correct, and what makes that hard:

| Part | Correct when | Hard because |
|---|---|---|
| Case store | a batch is stored whole or not at all; a `request_id` is bound to one batch for ever; an answer is never contradicted later | replicas race for one key and for overlapping ids; answers get lost; clients retry with other offsets |
| PostgreSQL store | it does the above statement by statement; every call ends | advisory locks, row locks and deadlocks interleave; `COMMIT` can succeed unheard |
| SQLite warehouse | the same, and a refresh never leaves a mixture | one file for three programs, busy timeouts of 15 and 5 s, full replacement |
| Schema migration | the schema appears once and whole | replicas start together and die in between |
| Ingestion API | counters never exceed the ledger, nothing is written without authorization, rotation is seamless | worker threads, restarts, expiry between decision and commit, rolling restarts |
| Data contract and view | true histories are accepted; the view and the cycle times agree with an accepted one | payload order, ties, offsets, reopened cases, partial histories |
| Snapshots | the retention floor and window hold; a bundle is never overwritten; an unfit one stops deletions | overlapping jobs act on listings of different moments; `--as-of`; damage; kills |
| Pipeline and snapshot | a snapshot holds complete reports | nothing but the scheduler separates writer and reader, or two writers |
| Recovery | a report means restored, reconciled and cleaned up; only own databases are dropped | names are drawn at random, tools fail anywhere, ingestion goes on |
| Readers | paging loses nothing | every statement sees another snapshot |
| Generator | its own data passes the contract, and the views show its status | events at one instant, truncated durations |
| Analytics, districts, risk queue | reports and console count the same cases, for every filter; percentiles are the defined ones; suppression and comparison are consistent | written twice, in Python and in pandas; bounds of buckets, ranks and thresholds |
| Dashboard and exports | an extract is whole; what it shows is what the backlog report announced | two queries per page, refreshes and batches between them, reports of an earlier hour |
| Staffing | backtests use what was known at the time, in whole weeks | calendar boundaries; cases that arrive late |
| Governance | only approved histories pass, and all of them do; what is called verified was approved | edits, merges and lost lines combine; verdict and figures are separate files |

## 2. Modules

`MC<Module>.tla` instantiates `<Module>` for TLC; the modules whose names end in
`Proofs` hold the theorems (section 4 says which). `map` in `PROJECT.json` names the
lines of every definition. The initial predicate and the specification are `Init` and
`Spec`, or carry the component's name (`BundleSpec`, `StaffingSpec`, `AuditSpec`,
`MigrationSpec`, `RehearsalSpec`, `ApiSpec`) where a proof module extends several
components.

```
Batches --- CaseStore <== refines === PostgresStore
               ^    ^======= refines === SqliteStore
               |
          IngestionApi (extends)

CaseReader ---+
              +--- OperationsConsole (extends both)
OutcomeReports+

SchemaMigration   SnapshotStore     EvidenceBundle   RecoveryRehearsal
CaseLifecycle     StaffingWindows   AssumptionAudit
```

**Batches** defines what the stores share: batches, their row ids in insertion
order, their digest, the results and answers of `ingest`. A batch is a model
value; `Fingerprint` gives batches the same digest when their instants are equal
though their texts are not (`payload_fingerprint` normalises to UTC).

**CaseStore** is the abstract store: what `CaseStore.ingest` promises. State: the
committed rows `stored` (which batch each row id came from), `receipts` (which
batch each key is bound to), and of every session its call, result and, as a
history, all `answered`. An action is a call, an atomic effect (accept, replay,
refuse or fail), an answer, or the loss of one. It is small enough that its
properties can be read as the store's documentation.

**PostgresStore** is `PostgresCaseStore.ingest` statement by statement: the
transaction begins with `pg_advisory_xact_lock` (`AcquireLock`), looks for the
receipt (`FindNoReceipt`, `ReplayReceipt`, `RejectReusedKey`), inserts row after
row (`InsertRow`), each of which can wait for another transaction's uncommitted
row or fail on a committed one (`ViolateUnique`), then the receipt
(`InsertReceipt`), then commits (`Commit`). `AbortDeadlock` is PostgreSQL's
detector, `LoseDatabase` and `CrashReplica` end a transaction anywhere, and a
commit may succeed without the caller hearing of it. `ImplementsLedger` is
refinement of `CaseStore`: a session's open transaction is invisible, the commit
is the abstract effect.

**SqliteStore** has the same sessions over one file whose single write lock is
`BEGIN IMMEDIATE`, with its busy timeout, plus the pipeline's refresh
(`load_warehouse`) and the dashboard's `ensure_demo_database`, which tests for
the file, generates, and then replaces everything. `ImplementsLedger` says that
every step is one of `CaseStore`'s or the commit of a refresh.

**SchemaMigration** is `PostgresCaseStore.initialize` on replicas that start,
die and start again: lock, bookkeeping table, version look-up, the six
statements of the script, the version row, commit. A transaction's objects are
invisible to others until its commit but block their creation.

**IngestionApi** extends the abstract store, whose actions are parts of the
handler's steps, with `auth.py` and `api.py`: credentials with scopes and expiry,
authorization at one instant and the store's effect at a later one, `ApiMetrics`
of each replica, the middleware that counts after the handler, restarts that zero
the counters, and the rollout of successive values of `CIVICFLOW_API_KEYS`.

**CaseLifecycle** follows one case: the transitions as they happened (`log`), the
case and events a client submits (any part of the log, in any order, with any
status and `closed_at`), the verdict of `validate_cases` and
`validate_status_events`, and of accepted submissions what the SQLite view, the
PostgreSQL view, the cycle-time report (the last time of a status in payload order)
and the dashboard (the first time) show. `Generate` is the other source of cases:
`generate_cases` and `generate_status_events`, which derive a history from a
snapshot and put it through the same contract.

**SnapshotStore** is the snapshot directory under overlapping
`civicflow-snapshot` jobs: publish (write aside, then rename), list and verify,
decide retention with the job's `--as-of`, verify each candidate again, remove it
file by file. Storage may damage a bundle and a job may be killed anywhere.

**EvidenceBundle** is the boundary between `civicflow`, which rewrites its report
files one by one, and `create_snapshot`, which copies them one by one and
validates each by reading it again. Any number of runs of `civicflow` may write at
once: each has its own position in the list (`stage`, `written`), opens and thereby
truncates a file, flushes and closes it, whatever the others do to the same file; a
run whose open file another has touched (`shared`) may leave a mixture. The history
variables record what nothing but the schedule decides: whether a run was writing
during the snapshot (`overlapped`), and whether the newest run began while no other
was writing (`alone`).

**RecoveryRehearsal** is `run_recovery_rehearsal` from backup to cleanup, for several runs
next to ingestion. The exported snapshot, the evidence table by table, the dump,
the scratch database, the restore, the reconciliation and the drop are separate
steps, and every external call may fail.

**CaseReader**: the warehouse as readers see it, and a client that pages through
`list_cases` with OFFSET while batches are committed, and refreshes replace
everything, between any two statements.

**OutcomeReports** is a module of operators: what `analytics.py`, `workflow.py` and
`geography.py` compute from a set of cases for the pipeline's reports, what
`dashboard.py` computes of the same figures with pandas, and the training split and
queue of `prediction.py`. Reports are functions from a group to its row. A group's
values are a function of its cases, so that `Nth` is `sorted(values)[k - 1]`. Rates
stay pairs of counts; the Wilson interval is the integer inequality it is derived
from (a rate lies outside the interval exactly when the score test rejects it).

**OperationsConsole** composes the two: a script run of the dashboard loads its two
frames in two queries, filters, computes the figures, the queue, the briefing and
the extract, while time passes, batches arrive and the pipeline writes its reports
(`WriteReports`) and later replaces the warehouse (`LoadWarehouse`).

**StaffingWindows**: which weeks the rolling backtest uses (`BacktestWeeks`: cli.py:65
and dashboard.py:187 ask for eight), against the planner's forecasts
(`PlannerWeeks`: twelve by default, staffing.py:95). Days are added to the history
(`Day`), a case may arrive after its day (`ArriveLate`), and the planner may forecast
at any time (`Forecast`); `live` keeps the counts the last forecast of each week was
made from, `arrived` the late cases since.

**AssumptionAudit**: the verification of the hash-chained assumption history
against edits, losses, swaps and wrong merges, over an ideal hash (a hash is the
value hashed, so collisions do not exist); and the pipeline runs around it, any number
of them side by side. A run loads the active assumptions, computes with them, audits
them only afterwards, writes the staffing report and later the audit report, and may
be killed between any two of these steps, while the configuration and the history
change. A report that is being written is the subject of `EvidenceBundle`; here it
appears at once.

## 3. Runs

One run per component, and one that shows a disagreement.

| Run | Shows | Bounds |
|---|---|---|
| `ingestion_api` | the store's promises, counters, alerts, authorization and rotation together | 2 replicas, 2 requests, 2 keys, 2 batches that share a case, 2 instants, 3 successive configurations |
| `postgres_store` | the statement-by-statement store implements the abstract one under races, deadlocks, crashes and lost connections, no repetition is refused, and every call ends | 2 sessions, 2 keys, 2 batches with the same ids in opposite orders: enough for a deadlock |
| `sqlite_store` | the file does, too, but for the commit of a refresh; data sets never mix; every writer ends | 2 sessions, 1 key, an ingested and a generated batch that share a case, a pipeline, a dashboard |
| `snapshot_store` | floor, window, immutability, unfit bundles block | 2 jobs, 5 instants, window and floor of 2, `--as-of` in the past and in the future, one bundle that may be damaged |
| `evidence_bundle` | published reports are complete, and of the newest run when it completed and no other overlapped it | 2 pipeline runs, overlapping or not, killed anywhere |
| `recovery_rehearsal` | no false alarm, no foreign drop, no report before cleanup | 2 rehearsals with their own paths, 2 names, 2 commits |
| `case_lifecycle` | the contract accepts every true history and everything generated, the views and the cycle times make sense | 4 events, 3 instants, 1 offset, 4 ids; generated histories of every status and lag |
| `schema_migration` | starts never collide, the schema appears whole and once, every start ends | 3 replicas |
| `operations_console` | nothing committed before a walk is skipped; reports and console agree for every selection, percentiles fit, breaches were announced, extracts are whole | 20 cases in 3 batches, 2 departments, 2 districts, pages of 7, 3 hours (0, 24 and 25 hours after the first), 2 pipeline runs |
| `staffing_windows` | whole weeks, full windows, no look-ahead | 10 days in weeks of 2, every intake pattern, 1 late case, forecasts at any time from 3 weeks, backtests of 2 weeks from 2 |
| `assumption_audit` | only approved histories pass, and all of them do; a run that reports verified used approved assumptions | 3 entries, 2 mishaps, 2 runs |
| `lifecycle_offsets` | the finding below | 2 events, 2 offsets |

Two sessions show every race for a key, and a deadlock; more of either, colliding
lock keys and repetitions in another UTC offset are covered by the theorem
`Implementation`, which holds for every `Sessions`, `LockOf` and `Fingerprint`. In
`sqlite_store` one key is enough because the write lock is one for all keys. Two
retention jobs are enough to disturb each other's listings and deletions; the
theorem `FloorAlwaysHolds` removes this bound. Instants are ordinals: only their
order and the policy's distances matter. Weeks of two days have a first, a last
and a boundary day, which is all the calendar arithmetic distinguishes; ten days reach
a backtest that judges a week which is no longer the newest, and the windows of three
and two weeks differ as the real twelve and eight do. Two pipeline runs can overlap,
spoil each other's reports or follow each other; a third, and any more, is covered by
the theorems `AlwaysReadable`, `CompletedAlwaysOneRun` and `AuditVerifiesApproved`. The twenty
cases of `operations_console` have ages and times left at, just inside and just
outside every bound the code compares with (24, 72 and 168 hours, the target, the
bands' 0.35 and 0.65), and the sizes of closed groups run from none to twelve,
where ranks of 50 and 90 percent fall on, before and after whole positions; its
training minimum and suppression threshold are 10 and 3 instead of 300 (prediction.py:194)
and 30.
Four events are what it takes to resolve a case, reopen it and resolve it again
out of payload order; the second offset is what `lifecycle_offsets` adds. Requests
are two because the properties checked there relate at most two of them (a batch
and its repetition or rival); a replica may restart before, between and after.
Sessions of `postgres_store` and `sqlite_store` call without such a bound.

`CHECK_DEADLOCK FALSE` stands where a behaviour really ends: snapshot, pipeline
and recovery commands are batch jobs that exit; a case is submitted once and has a
bounded history; the API's requests have a budget (`MaxRequests`), and the
staffing history a last day (`MaxDays`). Everywhere else TLC also checks that no
state is stuck. Symmetry is used only in runs without liveness properties.

Type invariants are theorems (`TypeCorrect`, or the component's name before it;
`BundleInv` contains that of `EvidenceBundle`, `AuditInv` and `RunsInv` those of the
audit's files and runs); the runs leave them out.

Each property of a passing run has a mutant in `PROJECT.json`: one definition of
the code changed as a plausible bug would, with the property violated.

### Fairness

* `PostgresStore`: strong fairness of lock grants and statements (PostgreSQL's
  lock queues are first come, first served, so a session that can proceed again
  and again does), weak fairness of the deadlock detector and of answering. No
  call, crash or lost connection is ever required.
* `SqliteStore`: weak fairness of a started call's and refresh's next step; SQLite
  has no queue, and the busy timeout is what ends the wait of a starved writer.
* `SchemaMigration`: weak fairness of statements, strong of the lock grant (again
  the queue). A crash may always happen, so the property ends in "serving" or
  "off".

### Finding

`TextViewShowsLatest`: README.md:173 of the repository says that "the
`current_case_state` view resolves the latest event". The SQLite view orders
`occurred_at`, a text that keeps the client's UTC offset, so of two accepted
events written in different offsets it can show the earlier one.

### Preconditions and known limits

The passing properties are stated with these preconditions, because the code does
not ensure more; each was met while modelling:

* **Refresh.** `load_warehouse` deletes every receipt and every row. A pipeline
  run or a dashboard bootstrap on the file the API serves removes acknowledged
  batches, whose repetition then answers 201 or 409 (README.md:129 calls
  `request_id` durable; dashboard.py:40 says that demo data is only created when
  no warehouse has been supplied, but the test for the file comes before the
  generation of the data). Hence `RefreshCommits` in `ImplementsLedger`.
* **Retention** verifies and deletes candidate by candidate. With two overlapping
  jobs one may delete a bundle and then find the next one torn by the other, and
  stop (docs/snapshot-retention.md:18 says "before any deletion begins"). The
  floor holds all the same.
* **Snapshots of a pipeline run.** Nothing marks a run as completed: a killed one
  leaves reports of two runs that `create_snapshot` accepts. Nothing keeps two runs
  apart either (cli.py:45-87 takes no lock): when they overlap on one output
  directory, both can end and leave a mixture of their reports, and a later snapshot
  accepts that too. And a snapshot that overlaps a run may publish a truncated report,
  since the bytes come from one read and `_read_json` makes another. Hence
  `~overlapped`, `alone # Missing` and `written[alone] = Count`: the newest run
  completed, began while no other was writing, and none was writing during the
  snapshot. Keeping runs apart is the caller's to see to. A report that two runs wrote
  into at once is taken not to parse: a hole, or the end of the other's longer text,
  makes `json.load` fail; that two texts are joined exactly where the result is JSON
  again is left out.
* **Backup path.** It is looked at once, long before `replace()`: two rehearsals
  given one path overwrite each other (docs/disaster-recovery.md:25 says "never").
  Hence paths of their own in `recovery_rehearsal`.
* **Simultaneous events** are ordered by payload position in the contract and by
  event id in the view. Hence `NewestAlone` in `ViewShowsStatus`.
* **Reopened cases.** The report keeps one timestamp per status, the last in
  payload order, and can measure a negative active work; the dashboard keeps the
  first one. A case may also be resolved without ever having been in progress and
  be started later, which makes either negative. Hence `Straight` for the report, and
  "only resolved while in progress" for both, in `CycleTimesOrdered`.
* **`closed_at` and status** of an ingested case may disagree; the contract
  compares `closed_at` with the last event only when it is set.
* **Staffing scenario.** It takes the weeks before the current one whether or not
  the data reaches back that far, and counts missing weeks as weeks without cases;
  the backtest drops the boundary week.
* **Backtest and planner.** The backtest does not judge the forecasts the planner made:
  it trains on eight weeks (README.md:201 of the repository), the planner forecasts
  from twelve (README.md:193). And it counts the cases known today: one that arrived
  after a week's forecast, with an older `opened_at` (the API accepts it), enters the
  training counts of that week. Hence `BacktestIsLive` compares the weeks both windows
  have, and adds the late cases of these weeks; what it excludes is any case of the
  judged week or a later one.
* **Assumption audit.** An active configuration that differs from the latest
  approved one is reported (`action_required`), not rejected, although
  docs/forecast-governance.md:23 counts it among what pipeline validation rejects:
  the audit has a status for it. "Verified" speaks of the assumptions the run
  loaded, not of those configured when the report is read. The staffing report and
  the audit report are two writes (cli.py:82 and 85), and reports do not name their
  run: after a run that was killed in between, or beside another run, figures of
  unapproved assumptions can stand next to an older "verified". Hence
  `audit.run = scenario.run` in `VerifiedMeansApproved`; `CompletedRunIsOneRun` says
  when the two reports of a snapshot are of one run.
* **Two percentiles, two cohorts.** README.md:175 ("the p90 uses the auditable
  nearest-rank definition", "open cases remain in cohort volume") describes the
  reports. The dashboard interpolates its p90 and counts closed cases only in its
  cohorts. `PercentilesFit` bounds the difference and `FiguresAddUp` compares the
  cohorts by their closed cases. The report takes the cohort's month in the offset
  the client wrote, the dashboard in UTC; the model has one offset.
* **Selections.** The "citywide" rate of the dashboard's district comparison is that
  of the current selection, and `FiguresAddUp` speaks of that one.
* **Pages the dashboard does not show.** `Render` leaves out where a page fails on the
  frames it was given: the KeyError of dashboard.py:98 for a selection without
  `in_progress` or `resolved` events, and the ValueErrors of staffing.py:195-213 and
  354-376 for one without enough weeks. The model shows such pages, so that its
  properties speak of more pages than the program produces.
* **Frames of two editions.** A refresh between the dashboard's two queries pairs
  the cases of one data set with the events of another, in one extract. Hence
  "frames of one edition" in `ExtractIsWhole` and `PercentilesFit`.
* **Paging under a refresh** promises nothing. Hence the edition in `NothingSkipped`.
* **Training split.** Ties in `opened_at` at a boundary of the split may fall on
  either side, and a label of the training part may only have become known after
  the test part began; the model states when a model exists, not what it is worth.

## 4. Proofs

| Module | Proves about |
|---|---|
| `CaseStoreProofs` | `CaseStore` |
| `PostgresProofs` | `PostgresStore`, `SchemaMigration`, `RecoveryRehearsal` |
| `SqliteStoreProofs` | `SqliteStore` |
| `IngestionApiProofs` | `IngestionApi` |
| `SnapshotProofs` | `SnapshotStore`, `EvidenceBundle` |
| `CaseLifecycleProofs` | `CaseLifecycle` |
| `AnalysisProofs` | `AssumptionAudit`, `StaffingWindows`, `CaseReader`, `OutcomeReports`, `OperationsConsole` |
| `FiniteSums` | sums over finite sets |

All theorems are checked by TLAPS for every value of the constants that satisfies
the named `ASSUME`s: `None` is no payload, id lists have no repetitions
(`validate_*` rejects them), equal digests mean equal id lists (SHA-256 taken as
injective), the retention policy has a window and a floor of at least one, and so
on. TLC evaluates each assumption on the instances.

* **CaseStore.** `LedgerAlwaysMatches`, `AckedAlwaysDurable`, `ConflictAlwaysFinal`
  and `NeverRewritten`. Durability of answers is not inductive: between effect and
  answer only the session knows the result. `ResultsHold` says that a pending
  result is already true of the store; with it every conjunct survives because the
  store only grows (`Stable`).
* **PostgresStore.** `Implementation`: every step is an abstract step or a stutter.
  The invariant has three parts: the advisory lock is exclusive
  (`LockIsExclusive`); a receipt found missing stays missing until its finder ends
  (`LookupStaysValid`), which needs the lock; and uncommitted rows collide with
  neither committed nor other uncommitted rows (`PendingIsFresh`), so a commit
  stores a whole batch into free space. The abstract theorems then carry over to
  every replica (`LedgerAlwaysMatches`, `AckedAlwaysDurable`,
  `ConflictAlwaysFinal`, `NeverRewritten`). `DeadlockAlwaysSpansKeys` follows from the lock's
  exclusivity.
* **SnapshotStore.** `FloorAlwaysHolds`: a bundle that is gone or condemned has the
  floor's number of newer bundles on disk. The proof takes the oldest of the newer
  ones somebody may delete next: it is itself protected. `Published` ties records
  and disk to publishers. `AlwaysImmutable` follows from the rename's failing on an
  existing name. `UnfitAlwaysBlocks`: the unfit directories of a listing stay ahead
  of the scan, since only a publication mends one. `WindowAlwaysHolds`: what is
  condemned is outside the window of the job's own instant, which does not change
  any more, and only the condemned goes.
* **EvidenceBundle.** `AlwaysReadable`: between a read and the re-read that validates
  it, nothing but `~overlapped` says that the file is still the one that was copied,
  so the invariant (`BundleInv`) says it of every report copied so far, and of the one
  whose copy awaits its validation (`Undisturbed`, `CopiedReadable`,
  `BriefedReadable`). `CompletedAlwaysOneRun`: a run that began alone and is still the
  newest is the only one that writes, so nobody else touches the file it has open and
  those it has completed stay its own (`WrittenByOne`). For any number of runs that
  overlap or are killed before.
* **RecoveryRehearsal.** `AlwaysDropsOwn` for any paths. `NeverFalseAlarm` and
  `AlwaysClean` assume paths of their own (`OwnPaths`), which is necessary (section
  3); the invariant `Faithful` says, step by step of a run, what its dump,
  evidence and restored file have in common.
* **SchemaMigration.** `StartsAlwaysClear`, `AlwaysUsable`, `AlwaysOnce`: committed
  objects are nothing or everything (`AllOrNothing`), and `Progress` says of each
  point of `initialize` what its transaction has created and that it holds the
  lock; so everybody else's transaction is empty (`Alone`).
* **SqliteStore.** `Implementation`: under the one write lock every step but the
  commit of a refresh is an abstract step or a stutter, for any sessions, refreshers
  and digests. `BatchesAlwaysWhole`: the lock has one holder (`OneWriter`), what the
  holder looked up stays true until it commits (`FoundStaysTrue`), rows and receipts
  come with the whole of their batch, and rows without a receipt are of one generated
  data set (`OneDataSet`). `OnlyRefreshesForget`: between refreshes the ledger is
  append-only.
* **IngestionApi.** A step of the service is a step of `CaseStore` or restarts a
  replica (`StoreSimulation`), and a restart ends calls but takes nothing out of
  the store (`RestartKeepsStore`), so the store's invariant is one of the service
  (`LedgerSurvivesRestarts`, `AcksSurviveRestarts`,
  `ConflictsSurviveRestarts`, `ServiceNeverRewrites`). `WritesAlwaysAuthorized`: what
  is in the store, and every call on its way there, was granted (`AccessInv`);
  authorization and commit lie at different instants, so the history of grants is
  what connects them. `RotationAlwaysSeamless`: the runbook's conditions keep the
  client's token known to the deployed value and to every running replica
  (`ClientKnown`), and a request in flight is known to its replica until that
  replica restarts and forgets the request (`RequestsKnown`).
  `CountersNeverOvercount`: the sum of the counters alone is not inductive, since a
  counter rises one step after the commit. `CountInv` says that what is counted and
  what accepted calls still owe the counters is together at most the ledger; a commit
  turns stored cases into a debt, an answer a debt into a count, and a restart only
  forgets. It needs finitely many replicas and sessions (`DeploymentAssumption`: a
  deployment has a number of containers with a number of threads each).
  `AlertsAlwaysAgree` is inductive once only ingest requests reach the store.
* **FiniteSums** proves what the community modules define: `SumFunction` is the value of
  a recursive function over the subsets of an index set, whose existence is shown here
  by cardinality, with a smallest counterexample in place of an induction theorem. From
  it follow the laws the other modules cite: a sum may begin with any element
  (`SumRemove`), is monotone, moves with one value (`SumMoves`), and counts a partition
  (`SumOfCells`). Sums in the properties are `SumFunction` of a function, never an
  operator argument, so that these laws apply to them.
* **CaseLifecycle.** `ViewAlwaysShowsStatus`, for histories of any length: what is
  accepted was checked against the last event (`AcceptedIsValid`), and the view picks
  the same one. `TruthAlwaysAccepted`: a true payload is a rearrangement of the log
  that keeps simultaneous events in order, so its sorted neighbours are the log's.
  `CycleTimesAlwaysOrdered` goes back along the chain of `from` and `to` from a
  resolution to the event before it. `GeneratedAlwaysPasses` is arithmetic over the
  four statuses. Where an argument is by induction over positions it is made with a
  least counterexample (`NatLessThanWellFounded`, `WFMin`), since the library's
  induction theorems take an operator as a parameter, which the installed provers
  cannot instantiate.
* **AssumptionAudit.** `AuditAcceptsApproved`: mishaps may move, lose, merge or edit
  lines any number of times, but they sign nothing, so every line of the file carries
  the version, the predecessor and the hash of an entry that was signed (`Traced`). A
  file that passes has genuine lines (`FittingLineIsSigned`), and two genuine chains
  with one line in common agree up to it (`ChainsMeet`), which makes the file the
  beginning of the chain its last line was signed in. `AuditVerifiesApproved` combines
  this with `ApprovedGrows` (what was approved stays approved) and `RunsInv`: a run
  whose verdict is "verified" loaded something approved, which its later steps do not
  change, and either report says what the run it is from holds. For any number of runs.
* **StaffingWindows.** `BacktestSeesThePast`: a new day adds nothing to the weeks before
  the current one (`CountStays`), a late case adds one to its own week (`CountOfLate`,
  by `SumUpdate`), so a week's count is what the forecast saw and what arrived since
  (`LiveInv`); and the backtest's training window lies in the planner's whenever it
  accepts the data, for any `PlannerWeeks >= BacktestWeeks`.
  `BacktestWeeksAreWhole` is arithmetic over week numbers with a division by the length
  of the week.
* **CaseReader.** `WalkSkipsNothing`: `WalkInv` says that a case the walk began with was
  seen or ranks behind the offset. New rows raise ranks only (`RankGrows`); a page takes
  exactly the ranks up to its limit, because the ranks of a finite set are 1 to its
  size (`RanksAreAll`); a short page is therefore the last (`ShortPageIsLast`).
* **OperationsConsole.** `FrameInv` says of which edition the frames are and what
  follows for their contents: from it `ExtractsAreWhole`, with `HeadOfRanking` for the
  queue, whose first cases hold all the high-risk ones or nothing else.
  `BreachesWereAnnounced` needs `ReportInv`, which ties the report to the cases of its
  edition, and `BacklogForecasts`: a case overdue a day later was overdue or due soon.
* **OutcomeReports.** `TheFiguresAddUp` is a statement about every set of cases: each
  report's groups are a partition, whether its keys are the groups that occur or fixed
  ones (`SumOfGroups`, `SumOfColumn`), and the age buckets cover the hours without
  overlap. Its last part, `NotAllAreLower`, multiplies out: if a district's rate is
  below the overall one, some other district's is above. `ThePercentilesFit`:
  `NthSplits` characterises the k-th of a group by how many values lie below and at
  most at it; the two definitions of a percentile pick positions less than one apart
  (`RanksOfPercentiles`), and an interpolated value lies between its neighbours.

Every safety property and every refinement the passing runs check is a theorem. Only
model-checked are the three liveness properties, `EveryCallEnds`, `EveryWriterEnds` and
`EveryStartEnds`: TLAPS does not handle `ENABLED` and fairness. No module uses a
`RECURSIVE` operator. Arguments over positions, sizes and sums are made with a least
counterexample throughout.

What the theorems assume of the constants is what the runs assume. Two assumptions
deserve a word. `ReportAssumption` takes a closed case to have been closed after its
opening, which `validate_cases` checks, and, if it was in progress at all, to have
entered that status in between, which the order of events that
`validate_status_events` checks implies; cases that enter a status twice are the
subject of `CaseLifecycle`. `ConsoleAssumption` numbers cases in the order
`list_cases` sorts them.

## 5. Not modelled

The risk model's features, fitting, calibration, drift index and quality figures
(scikit-learn and numpy arithmetic; a score is a constant of a case), staffing costs and
quantiles, the averages of SLA and backlog rows, the monitoring thresholds of
`governance.py` (one comparison each), and the seeded draws of the generator: numbers
computed from one list, without state and without a second definition to agree with.
Command-line parsing, pydantic field bounds, HTML, CSV and zip layout, containers
and CI have no behaviour a model would explore. `components` in `PROJECT.json` lists
them with reasons. Five hazards have no property. Four are not excluded by the code: two rehearsals given
one backup path, a scratch database left by a killed run, zero-filled weeks of the
staffing scenario, and the report's cycle times of a reopened case. The fifth, a digest
that depends on how instants are written, is an assumption on `Fingerprint`. Their notes
and section 3 say so.

In `OutcomeReports` durations are whole hours and nothing is rounded: the code
rounds rates and interval bounds to four decimals, so a comparison within that
margin may differ. The ceil and int of the ranks are those of floating-point
products, which agree with the integer ones up to 200,000 values. Cases of equal
score are in any order in the queue.

Abstractions that matter: a batch is one value, its rows known by id only; row
contents are compared through the digest. PostgreSQL and SQLite are modelled as
the code uses them (`external` entries of `map`): READ COMMITTED snapshots per
statement, unique indexes, advisory locks, one SQLite writer.

## 6. Plan

Done, in this order: stores (abstract, PostgreSQL, SQLite), snapshots and
evidence, recovery, case lifecycle and generator, API, migration, readers, reports
and console, staffing, audit; proofs in the same order.

What would come next:
1. The API over the PostgreSQL store with its migration: readiness while replicas
   roll, which needs the refinement of the store composed with restarts.
2. The drift levels of `prediction.py` at their thresholds, once a second
   definition exists that they must agree with.
3. Proofs about the compositions: that the API keeps its promises over any store that
   implements the abstract one, and that the refresh of `SqliteStore` gives the readers
   the editions `CaseReader` speaks of.
