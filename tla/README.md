# A TLA+ development of batch-api-snowflake

The program fetches hourly weather observations, one (city, day) *partition* at a
time, lands each as a Parquet file, merges it into Snowflake, records the load and
lets dbt rebuild the marts. Every partition is ingested by an Airflow task that may
be killed, retried, or run beside another task. This directory models that program
in TLA+, checks small instances with TLC and proves theorems with TLAPS for every
value of the constants. Four groups of modules look at it from four sides:

* one partition, statement by statement (`Landing`, `Warehouse`, `Ingest`, `LoadPromise`);
* one command over many partitions, value by value (`QualityGate`, `RunLoop`);
* one outage, second by second (`ApiClient`, `Outage`);
* many days, from schedule to marts (`Dags`, `Pipeline`).

Each takes from the others what they have established: `Pipeline` and `RunLoop` load a
partition in one step, as `LoadPromise` says `Ingest` does; `Ingest` and `Pipeline`
leave to `Outage` how often a fetch is tried.

Source paths below are relative to the repository; in `PROJECT.json` they carry the
prefix `src/`.

## 1. Inventory

| Component | State it keeps | Operations that change it | Interacts with |
|---|---|---|---|
| Landing zone, `src/pipeline/landing.py` | per partition a published file and a temporary file | `write_batch` (mkdir, write, rename), `clear_partition`, `cleanup_temp_files` | every task writes it; `load_batch` PUTs from it |
| Warehouse loader, `src/pipeline/warehouse/loader.py`, `ddl/003_merge.sql` | staged files, `RAW.WEATHER_OBSERVATION`, `OPS.LOAD_AUDIT`, the session's transaction | `load_batch` = PUT, MERGE, REMOVE, commit, or rollback; `write_audit`; reads by `already_loaded` | called by `ingest_day` |
| Snowflake session, `warehouse/connection.py` | one connection per process | connect, close, `split_statements`, `apply_ddl` | loader, CLI |
| Ingestion run, `src/pipeline/run.py` | locals of a process: payload, hash, accepted rows, summary | `run` (clamp, sweep, loop), `ingest_day` | calls everything above and below |
| Quality gate, `quality.py`, `contracts.py` | quarantine files | `check_batch`, `_write_quarantine` | `ingest_day` |
| Payload model, `models.py` | none | `payload_hash`, `batch_id`, `flatten_hourly` | `ingest_day`, landing |
| API client, `api/client.py` | attempt counter of one call | `_get` with retries, `_get_once` | producer, `ingest_day` |
| Daily DAG, `airflow/dags/weather_batch_daily.py` | Airflow's task instances | target date, preflight, mapped ingest tasks (3 retries), dbt tasks, report | runs `run()` once per city |
| Backfill DAG, `airflow/dags/weather_backfill.py` | task instances, pool `weather_api` | plan, mapped ingest tasks (2 retries), mart rebuild, verify | runs `run()` once per (city, day) |
| dbt marts, `dbt/models`, `dbt/macros` | hourly and daily mart tables | incremental merge over a restatement window | read RAW |
| Command line, `src/pipeline/cli.py`, and city catalogue, `catalogue.py` | the command's options, the window they become | `ingest`; `apply-ddl`, `check-contract` | calls `run()`, makes an exit code of its exception |
| Alerting, `airflow/dags/alerting.py` | none; posts to two webhooks | `page_on_failure`, `notify_on_retry`, `page_on_dag_failure`, `notify_on_sla_miss` | called by Airflow for a task instance or a run |
| Configuration, logging, DDL files, DAG validation script, build files | none of the protocol | parsing, formatting, CI | |

How they interact: `ingest_day` is a straight line of calls — fetch, hash, guard,
flatten, gate, (clear,) write, load — whose shared state is the landing directory, the
stage, RAW and LOAD_AUDIT. There are no locks of the program's own and no messages
between tasks. What makes it hard:

* **names are functions of the partition alone**: the temporary file, the published
  file and the staged file of a partition are shared by all its writers;
* **every task sweeps the whole landing root** at its start;
* **the guard reads history** (`LOAD_AUDIT`), the MERGE compares the present (RAW);
* **load_batch's try block is a transaction only if AUTOCOMMIT is off**, which the
  program does not set;
* **an attempt can end between any two statements**, with or without its last
  statement having taken effect, and Airflow then starts again from the top;
* **two layers retry**, the HTTP client inside a task instance and Airflow outside it,
  and neither knows of the other;
* **the marts are derived, twice**: the daily mart from the hourly one and that from RAW,
  each merged over a window counted back from its own newest day, by builds of up to
  three daily runs and a backfill at once;
* **the clock moves**: a window is clamped to the day the command starts on, the producer
  publishes late and corrects what it has published.

What makes each component correct: the landing zone, that readers see complete files
only; the gate, that refused payloads and rows reach nothing; the loader, that a
reload changes nothing and audit rows tell the truth, one per attempt; the run, that
green means RAW shows the payload; the schedule, that no try fails for what an earlier
one left and every task ends; the command, that green means all it was asked for; the client, that it bounds
what an outage costs and outlasts what its waits add up to; the DAGs, that days do not
block one another and a green run's rows are in both marts. `PROJECT.json` lists the hazards behind these, at their lines.

## 2. Modules

| Module | Models | State | Actions and operators |
|---|---|---|---|
| `Landing` | `landing.py` over a POSIX file system | `tmp`, `final`, `handle` | `OpenTmp`, `CloseTmp`, `AbandonTmp`, `PublishTmp`, `ClearPartition`, `CleanupTempFiles`, `DropHandle` |
| `Warehouse` | `loader.py`, `003_merge.sql`, Snowflake's stage, lock and transactions | `stage`, `raw`, `txn`, `audit` | `PutFile`, `Merged` + `ExecuteMerge`, `RemoveStaged`, `CommitTxn`, `RollbackTxn`, `WriteAudit`, `AlreadyLoaded` |
| `Ingest` | `run.py` and the tasks of both DAGs, composing the two above | `pc`, `task`, `proc`, `served`, `past`, `code`, counters | one action per statement of `ingest_day` and `load_batch`, schedulers, producer, deployment, failures |
| `IngestProperties` | — | — | the properties, and the refinement mapping to `LoadPromise` |
| `LoadPromise` | the promise to readers of RAW and LOAD_AUDIT | `table`, `reported` | `Load` (one atomic overlay), `Report` |
| `MCIngest` | instances for TLC | — | payloads, modes, symmetry |
| `IngestProofs`, `IngestGateProofs` | — | — | theorems `TypeCorrect`, `GateHolds` |
| `IngestReloadProofs`, `IngestAuditProofs` | — | — | theorems `ReloadKeeps`; `AuditOnce`, `CountsHonest` |
| `IngestExclusiveProofs` | — | — | theorems `ReadersSafe`, `AuditTrue`, `PromiseKept` (the refinement), `GreenCurrent`, `GreenNotEmpty`, `RetriesSafe` |
| `QualityGate` | `flatten_hourly`, `FieldSpec.violations`, `split_valid`, `check_batch`, the quarantine file | `quarantine` | `Rows`, `Unreadable`, `Violations`, `Accepted`, `Rejected`, `Exceeds`, `OpenQuarantine`, `WriteLine` |
| `RunLoop` | `cli.ingest` and `run()` over a window, with the gate of every partition | `today`, `served`, `landed`, `raw`, `loaded`, `pc`, `span`, `todo`, `at`, `payload`, `summary`, `exit`; history `asked`, `done`, `changed` | `Ingest`, `Start`, `Connect`, `Skip`, `Check`, `Unusable`, `Quarantine`, `Refuse`, `Load`, `Fail` (with `LoadDies`), `Finish`; `Tick`, `Restate` |
| `MCRunLoop` | an instance for TLC | — | ten payloads, seven commands |
| `RunLoopProofs` | — | — | theorems about `RunLoop`'s seven properties |
| `ApiClient` | `api/client.py` | — | `Outcome`, `Stops`, `GivesUp`, `Power`, `Waits` |
| `Outage` | the client's and Airflow's retries of the tasks of a run, the callbacks of `alerting.py` | `service`, `task`, `try`, `attempt`, `rest`, `run`, `pages`; history `requests`, `elapsed`, `began`, `refused` | `Request`, `Wake`, `Hang`, `TimeOut`, `Retry`, `EndRun`, `Change` |
| `MCOutage` | an instance for TLC | — | — |
| `OutageProofs` | — | — | theorems about `Outage`'s four safety properties |
| `Dags` | both DAG files as graphs | — | `DailyDag`, `BackfillDag` |
| `Pipeline` | runs and tasks of both DAGs, RAW, the two marts | `today`, `served`, `raw`, `loaded`, `hourly`, `daily`, `run`, `ti`, `item`, `got`, `tries` | `CreateRun`, `TriggerBackfill`, `RunTask`, `Expand`, `Start`, `Load`, `CheckFreshness`, `BuildHourly`, `BuildDaily`, `TestMarts`, `EndRun`, `Clear`; `Tick`, `Restate`, `Lose`, `LandOrphan`, `BuildDies`, `TaskFails` |
| `PipelineProperties` | — | — | its properties |
| `MCPipeline` | instances for TLC | — | partial days, plans |
| `PipelineProofs` | — | — | theorems about `TypeOK` and `GreenRunPublishes` of `Pipeline` |

`Landing` and `Warehouse` define *operators* on their own variables; `Ingest` conjoins
them into actions and says what stays unchanged. Definitions marked "Faulty" are
plausible bugs of the definition that follows them. No action uses them: they show
that a property notices the bug (`mutants` in `PROJECT.json`).

### One partition: `Ingest`

How code and model correspond, for one task (`pc`):

| `pc` | Statement | Action |
|---|---|---|
| `ready` | process start, contract, `cleanup_temp_files` (`run.py:134-148`) | `Begin` |
| `fetch` | connect, `fetch_hourly`, `payload_hash` (`run.py:154-166,72-73`) | `Fetch` |
| `check` | `already_loaded` (`run.py:75-81`) | `Skip`, `CheckMisses` |
| `gate` | `flatten_hourly`, empty window, `check_batch` (`run.py:83-95`) | `Gate`, `Raises` |
| `clear` | `clear_partition` (`run.py:98-99`) | `Clear` |
| `open`, `write`, `rename` | `write_batch` (`landing.py:100-107`) | `Open`, `Write`, `Publish`, `WriteFails`, `Raises` |
| `put`, `merge`, `remove`, `commit` | the try block (`loader.py:71-86`) | `Put`, `Merge`, `Remove`, `Commit`, `StatementFails`, `LoadRaises` |
| `rollback`, `auditfail` | the except block (`loader.py:96-110`) | `Rollback`, `AuditFailure` |
| `audit` | the success row, outside the try (`loader.py:114-125`) | `AuditSuccess` |
| `failed` | Airflow's retry policy | `Retry`, `GiveUp` |
| any of the running ones | a kill, or an exception nothing catches | `Die` |

Abstractions, and why they are sound for the properties:

* A **payload** is one value per `payload_hash`; `HoursOf` and `BadOf` say which hours
  it has and which of their rows violate the contract. A **row** is (payload, code
  version): the measurements are a function of the two.
* A **file** is the rows it will hold and how complete it is. Two writers of one inode
  leave either the last closer's rows or no Parquet at all (`torn`); opening truncates;
  a rename moves the inode with every handle on it. A torn or partial file makes the
  MERGE raise.
* A **sweep** is one step although `rglob` walks the tree; `mkdir` and `open`
  are one step. A directory that disappears between the two raises, which is the
  fault action `Die` at `open`.
* Connecting is part of `Fetch`: no shared state changes between them.
* A MERGE over a staged path **without a file** merges nothing or raises; both are
  enabled, since the code does not determine which.
* A **statement** succeeds, fails without effect (`StatementFails`), or takes effect
  while its caller sees an error (`LostReplies`).
* `proc.wrote` (the rows of RAW the attempt has changed) and `past` are history: they exist
  for the properties about counts and for `Reverts`, and no guard of the program's own steps
  reads them.
* A **zombie** attempt that still runs while Airflow retries it is, for the shared
  state, a second run of the same partition: `Overlap = TRUE`.

### One command: `RunLoop` over `QualityGate`

| `pc` | Statement | Action |
|---|---|---|
| `idle` | options become a window, a new run id (`cli.py:54-70`) | `Ingest` |
| `resolved` | catalogue, clamp, nothing to do (`run.py:134-149`) | `Start` |
| `connecting` | the session, before anything is fetched (`run.py:151-166`) | `Connect` |
| `looping` | next partition, fetch, guard (`run.py:167-170,72-81`) | `Skip`, `Check`, `Unusable`, `Finish` |
| `quarantining` | `_write_quarantine`, a line a step (`quality.py:119-132`) | `Quarantine` |
| `deciding` | the ratio, the exception or land and load (`quality.py:86-91`, `run.py:96-122`) | `Refuse`, `Load` |
| any of the last three | any other exception, or a kill | `Fail` |

A command begins where the one before left the landing zone, the quarantine and the
warehouse. Midnight (`Tick`) may fall between any two steps. Abstractions:

* Landing, MERGE and success row of a partition are one step; a `Fail` leaves any prefix
  of them (nothing, a removed directory under `--full-refresh`, a new file, RAW, the
  record). What lies between is `Ingest`'s.
* `raw[p]` is the payload merged last, not its rows; which rows of a payload go into the
  file is `landed[p].rows`.
* The rows of a payload go by their place in its time array; what is rejected is a set of
  places, what is accepted a function on the others, so that order and neighbours are
  part of the data. A quarantine file is the set of its lines, each with its place: they
  are written in the order of the places, none twice.
* `todo` are the partitions the loops have not come to and `at` the one they are at; the
  next one is the first by `Before`, days outside, the catalogue's cities inside. `asked`,
  `done` and `changed` are history, for `GreenIsComplete` and `SummaryHonest`. `asked` is
  what the options name of what is published when they are given (`Named`), stated apart
  from the window, the clamp and the loop.
* A value is its kind (null, number, bool, a text that is a number, any other text) and a
  number, counted in units of `1/Unit` so that there are fractions. `Coerced` is what
  pydantic makes of it: a bool becomes 0 or 1, digits their number; `Unparsable` is what it
  raises on, a word or a fraction for an int. A series has values, is there but empty
  (`Ragged`, it raises) or is missing (null in every row).
* The threshold is a whole percentage. With three hours to a day it is set to 40, so that
  one bad row passes and two do not.

### One outage: `Outage` over `ApiClient`

A task is `requesting`, `hanging`, `sleeping` (in the client), `up_for_retry` (in Airflow) or done.
`Request` is `_get_once` and the decision of tenacity after it, `Hang` a request that no
timeout of the client ends, `TimeOut` the `execution_timeout` that does, `Retry` Airflow's
next try with a new client. `elapsed` adds up what requests (`Durations`), sleeps and delays
take; `began` is what it was when the present try began, which is where `execution_timeout`
counts from.
Posts go to one webhook that may not take them (`_post` swallows the error).
`notify_on_retry` posts to the other channel, which no property is about.

### Many days: `Pipeline` over `Dags`

A scheduled run goes by the day it targets (`data_interval_start - 2`, so it may start
once `today > day + 2`); the backfill is run 0. A task instance is `none` until all its
predecessors succeeded (trigger rule `all_success` everywhere) or one failed. The mapped
task is a set of items, one per partition. `dbt build` is three steps: hourly mart, daily
mart, tests; other runs step in between. Abstractions:

* A partition's content is the number of the version the producer served. `HoursOf` says
  how many rows a version has, for the test that counts them.
* `Start` is `run()` up to the guard, `Load` the rest: the version is fetched in the first
  and merged in the second, so an older one can arrive last.
* Tasks that only compute (`start`, `target_date`, `preflight`, `plan`, `dbt_deps`,
  `dbt_seed`, `restatement_window_days`, `report`, `verify`, `finish`) change nothing but
  their own state (`Plain`), after the exceptions they may raise (`Raises`).
* `Lose` stands for everything that can become of an attempt: its MERGE took effect, did
  not, or still goes on in the warehouse (`orphans`, `LandOrphan`).
* 48 hours without a write are one or two calendar days: in between both outcomes of
  `CheckFreshness` are possible. As `_sources.yml` declares it, freshness is also asked of
  `load_audit`, which has no `_INGESTED_AT_UTC`, and fails always. `AuditFreshness` is the
  set of possibilities: `{TRUE}` the declaration (run `freshness`), `{FALSE}` a repaired
  one, both in the other runs. With `{TRUE}` alone no run would get to the marts, and what
  is to be checked of them would hold of nothing.
* `TestMarts` may find another run's build between its two models, also when it is a retry:
  no lock, pool or delay of the DAGs prevents it.
* The calendar (`Tick`) waits for nothing: a run may outlive its day, or stay where it is
  for ever (`Stuck`).

## 3. Runs

"Passes" means no property is violated over the whole state space, of the size given in
distinct states. The first six runs use `MCIngest`.

| Run | Instance | Properties | Outcome |
|---|---|---|---|
| `daily` | 2 workers, 2 partitions, payloads a, b, bad; 2 tasks, 2 tries, 1 restatement, 1 fault, AUTOCOMMIT | `TypeOK`, `ReadersSeeWholeFiles`, `RawOnlyGated`, `OneAuditRowPerAttempt`, `AuditTruthful`, `KeepsPromise`, `NoTryIsWasted` | passes, 525,000 |
| `rerun` | 1 worker, 1 partition, payloads a, b, c, empty; normal, full, land-only; 3 tasks, 2 tries, 1 restatement, 1 deployment, 1 fault | `GreenMeansCurrent`, `ReloadChangesNothing`, `NoTryIsWasted`, `GreenHasRows`, `LoadedCountsHonest` | passes, 280,000 |
| `overlap` | 2 workers on 1 partition, payloads a, b, empty, ragged; explicit transactions, normal and full, 1 try, 1 restatement, 1 fault | `AuditCountsHonest`, `EveryTaskEnds` | passes, 225,000 |
| `revert` | the producer goes back to an earlier payload | `GreenMeansCurrent` | violated |
| `shared_paths` | two overlapping runs, one restatement, no fault | `AuditTruthful` | violated |
| `autocommit` | one partition, default AUTOCOMMIT, one failing statement | `AuditCountsHonest` | violated |
| `run_loop` (`MCRunLoop`) | 2 commands of 7 forms, 2 cities, 2 published days, 10 payloads, 1 restatement, 1 fault, midnight at any moment | `TypeOK`, `GateIsExact`, `ValuesOnTheirHour`, `RefusedIsExplained`, `GreenIsComplete`, `SummaryHonest`, `UnpublishedIsNoFailure` | passes, 371,000 |
| `outage` (`MCOutage`) | 2 tasks, 2 tries of 2 requests, 2 changes of the producer's condition, 1 hang, 2 lost posts | `TypeOK`, `RequestsBounded`, `PagesAreReal`, `PatienceIsKept`, `OutageRiddenOut`, `RunEnds` | passes, 411,000 |
| `patience` (`MCOutage`) | 1 task, the configured 4 tries of 5 requests with their delays, requests of 30 s, a producer that is down | `NinetyMinutes` | violated |
| `pipeline_daily` (`MCPipeline`) | 1 city, 3 days, 2 slots, 6 calendar days, the run of day 1 may be stuck or its record missing, 1 clear, freshness as declared or repaired | `TypeOK`, `GreenRunPublishes`, `EveryDueDayEnds` | passes, 105,000 |
| `pipeline_backfill` (`MCPipeline`) | a backfill (accepted, inverted, too long) beside a daily run, 2 versions, 1 fault, late MERGEs, freshness as declared or repaired | `GreenRunPublishes`, `BackfillWaitsForUnits` | passes, 164,000 |
| `freshness` (`MCPipeline`) | 1 day of the daily DAG as declared, no gap, no fault | `CatchUpRepairs` | violated |

What the passing runs show: as long as the runs of one partition do not overlap and
the producer does not return to an earlier payload, landing, loading and auditing
behave as *one atomic load per payload* (`KeepsPromise`), whatever single fault
strikes. No attempt fails for what an earlier one left behind (`NoTryIsWasted`): it leaves
the way to green only for a fault that hits it in that step, for a temporary file that
another task's sweep has taken, or at the gate for a payload not fit to load. Counting, a
task is given up only if each of its tries met one of these. That `MaxTries` attempts
absorb `MaxTries - 1` faults cannot be said, since a sweep of another task uses up a try
as well. The counts of 'loaded' rows are true under either AUTOCOMMIT; with overlapping
runs under explicit transactions those of failed rows are true too and no task is left
waiting.

`run_loop`: what is landed is exactly what the contract allows of the payload it was made
from, each value on the hour the payload gives it; when a batch is refused the quarantine
file is that batch's, all of it; a green command has done every published partition its
options name, and its counts are true; days the producer has not published end no
command. `outage`: `MaxRetries * Tries` requests are the most a task sends, an outage
that ends while a request is left is ridden out, no task is given up sooner than the two
backoffs add up to, nobody is paged for a task that recovers, a failed run pages
unless every post is lost, and a request that is never answered ends with its try.
`pipeline_daily` and `pipeline_backfill`: a green run has put what it loaded, and all that
had been loaded when its build began, into both marts, whatever other builds did meanwhile;
every due day gets a run that ends, while another day's run stands still or fails for good;
a backfill waits for nothing but its own units.

`GreenRunPublishes` excepts two kinds of partition (`Excepted`): those of which RAW itself
went back to an older payload, and those further behind the newest day of the mart than
the build's window is wide. Both happen; section 4 says when.

What the violated ones show (details and the quoted documentation are under
`findings`):

* `revert` — the guard of `already_loaded` is satisfied by any old row: after A, B, A a
  green run leaves RAW at B.
* `shared_paths` — overlapping runs merge each other's files and report their own
  payload; "Safe to run while the daily DAG is running" does not hold when the producer
  restates in between.
* `autocommit` — under Snowflake's default a "failed" row with 0 rows may stand for a
  load that changed RAW.
* `patience` — with the configured retries of both layers a task is given up after 25
  minutes of an outage even if every request takes its full timeout: 15 minutes of waits
  and 10 of requests, where `failure_modes.md` counts on 90.
* `freshness` — the freshness check is asked of `load_audit` as well, which has no such
  column: the run of a day without any fault ends failed.

**Bounds and why they are enough.** Two workers: every conflict here is between two
tasks (one name, one lock). Two partitions where the question is whether one partition's task
disturbs another's, one partition where the question is about its own history. Two hours:
one a restated payload keeps and one it drops or rejects. With two hours a single bad
row exceeds 2 %, as it does with the 24 hours of a real day (1/24 = 4.2 %). Three tasks and two
payloads are the shortest history with a skip, a change and a return. One fault with
two tries exercises every failure point of an attempt and the recovery from it; in
`daily` a fault and a sweep together use up both tries. The counters `triggered`,
`restated`, `faults` and `code` carry the bounds `MaxTriggers`, `MaxRestates`,
`MaxFaults`, `MaxDeploys` in the guards of the actions that raise them; the system's
own steps have no other bound.

`run_loop`: two commands are the shortest history in which one meets what another left;
two cities and two published days make every position of a failing partition (first, in
the middle, last) happen; the third day is not published at first, or at all. The payloads
are one per way a row or a batch can fare: on the bounds, one and two bad rows, a
required value missing, short, long, a series without values, empty, a word, a fraction
for an int, a missing series beside a number sent as text. `outage`: two
tries of two requests have a first, a last and an inner boundary of both layers; two
changes are an outage with its end; two posts are the pages of one task and its run.
`patience` has no bound: the values are the
configured ones. `pipeline_daily`: three days with two slots, so that `max_active_runs`
holds a run back, also while one slot is taken for ever; six calendar days are the
last day's publication and one more; `Window = 1` puts the first day on the edge of the second
one's window. In `pipeline_backfill` the daily run and the backfill fetch different
versions of day 1, and `MaxBackfillDays = 2` is one less than the longest plan. One city:
cities only meet in the slots and in the state of the run, which the days and the
backfill's items meet as well.

**Fairness.** In `Ingest`, `FairSpec` assumes weak fairness of `Progress(w)`, the next statement of
each process and the scheduler's retry. The code justifies it: the HTTP client has a
timeout and a bounded number of attempts (`api/client.py:73-124`), a Snowflake
statement has `STATEMENT_TIMEOUT_IN_SECONDS` (`connection.py:70-71`), the
daily task an execution timeout (`weather_batch_daily.py:57`), and the scheduler starts
due retries. Nothing is assumed of the producer, of deployments, of new tasks or of
faults. Waiting for the table lock is a disabled action, so it is not assumed to
end: `EveryTaskEnds` depends on the holder's commit, rollback or death.

`Outage` assumes weak fairness of `Works(t)`, a task's own next step (requests come back,
sleeps and delays end, due tries are started, and `execution_timeout` ends what hangs), and
of `EndRun`; the producer may stay down for ever.

`Pipeline` assumes it of `Inevitable`, the steps that cannot stay undone: time passes, due
runs are created, the scheduler goes on with the runs that are not `Stuck`, and the work
that has an `execution_timeout` ends: the loads of the daily DAG
(`weather_batch_daily.py:57`) and both builds (`weather_backfill.py:158`). `ingest_unit` has
none (`weather_backfill.py:35-42`), so that the loads of a backfill end is not assumed, and
`BackfillWaitsForUnits` claims no more than that nothing else holds it. One condition for
all these steps is as strong as one for each: a step of `Inevitable` can be taken a bounded
number of times only (the calendar, the runs and their tasks are finite, and what starts a
task anew is bounded), so each that stays enabled gets its turn. Loss, clears, restatements
and late MERGEs are assumed of nobody. `RunLoop` states safety only and assumes nothing.

**Deadlock** is checked in every run. `Rest` (`Over` in `RunLoop` and `Outage`) is the
only stuttering of a finished system: a state where some task is neither finished nor able to step is an error.

## 4. Where the documents say more than the code does

Besides the five runs above, modelling met these places. No run is about them: the models
do what the code does. A property that could be read as promising more says what it
excepts.

*Marts and schedule.*

* `restatement_filter.sql:12` counts its window back from the newest day of the mart
  itself and a backfill passes `(end - start) + 2` (`weather_backfill.py:140`): a range
  further back than that reaches RAW and neither mart, and the backfill is green
  (`docs/failure_modes.md:173` sends operators to it).
* A scheduled run asks for one day (`weather_batch_daily.py:86`). The restatement window
  re-reads RAW, not the producer, so a day completed later stays as it was
  (`assert_hourly_completeness.sql:6-9` says it resolves itself).
* One failed city makes `transform` `upstream_failed` (`weather_batch_daily.py:214`): the
  others' rows wait for the next green run (`failure_modes.md:15`: "Other cities
  continue").
* Only `ingest_unit` names the pool (`weather_backfill.py:103`); the comment above it and
  `failure_modes.md:201-202` speak of both DAGs.
* `assert_daily_matches_hourly` compares counts (`:40`); a restatement rarely changes
  them.
* Freshness is a task of the DAG it watches (`weather_batch_daily.py:164`), so a scheduler
  that is down goes unnoticed (`docs/runbook.md:20-23`).
* Freshness at 48 hours also turns a day red that need not load: when a backfill loaded it
  days ago its own run skips it and writes nothing (`run.py:80`), so days are not
  independent for *green*, only for getting a run that ends.

*Loads.*

* A MERGE that commits last wins, also with an older payload, of an overlapping run
  (`loader.py:78`) or of an abandoned session (`loader.py:81`). LOAD_AUDIT then says that
  the newer one is loaded, and the guard skips it (`README.md:186-187`).
* `cleanup_temp_files` unlinks every temporary file under the landing root
  (`landing.py:182`), at the start of every task (`run.py:148`), also those that live tasks
  of other partitions are writing (`landing.py:180`: "leftovers from tasks that were killed
  mid-write"). Their rename raises, and costs a try.
* `--full-refresh` does not repair rows made by faulty flattening
  (`docs/idempotency.md:120-121`): the payload hash is that of the raw answer
  (`models.py:67-70`), and the MERGE rewrites nothing whose hash has not changed
  (`003_merge.sql:36`).
* Hours that a restated payload no longer has stay in RAW: the MERGE has no delete branch
  (`003_merge.sql:50`). `LoadPromise` says so.
* A skipped partition leaves no audit row (`run.py:80`), although
  `002_raw_objects.sql:53` has a status for it.

*Client.*

* `PermanentApiError` is an ordinary exception to Airflow, which tries again
  (`failure_modes.md:24-25`: "no retry").
* `Retry-After` only goes into the text of the error (`client.py:134`; `client.py:8-9`:
  "honoured").
* Each failed instance pages, and the run once more (`weather_batch_daily.py:55`;
  `runbook.md:12`: one message per run).

*Gate and command.*

* 1/24 is above 2 % (`quality.py:86`), so one bad hour does refuse the day
  (`quality.py:5-6`).
* `flatten_hourly` copies mapped series only (`models.py:102`): a new field never reaches
  the unknown-field warning, a renamed one becomes null and, not being required, passes
  (`docs/data_contract.md:59-61`).
* pydantic coerces before the contract looks (`models.py:107`): a bool or a text of digits
  in a number field passes (`contracts.py:46` rejects a bool it never gets to see).
* `source_lag_days` is configured twice, in the settings (`cli.py:60`) and in the contract
  (`run.py:139`): with the smaller one in the settings a plain `ingest` clamps to nothing and
  ends green. The run gives both one value.
* A value pydantic cannot parse raises before the contract sees it (`models.py:107`):
  nothing is quarantined (`failure_modes.md:70-72`).
* The first partition that raises ends the command (`run.py:168`); `--end` without
  `--start` is ignored (`cli.py:59`); the connection comes before the first fetch
  (`run.py:158`), so expired credentials leave no Parquet (`runbook.md:104-106`).

*Deployment.* `split_statements` cuts at semicolons in comments too (`connection.py:92`),
and `001_warehouses_and_roles.sql:11` has one. `EXPECTED_EDGES` of `validate_dags.py:52`
has four edges, not all.

## 5. Proofs

Each theorem holds for every set of workers, partitions, payloads, hours, cities and
tasks and for every bound. The runs check the same properties.

*Assumptions on the constants*, all of them evaluated by TLC on the runs of the module
that states them: `WarehouseAssumption` (hours are finite, bad rows among a payload's
rows), `IngestAssumption` (kinds of the parameters, versions numbered from 0),
`NoneAssumption` (`None` is not a payload, file, row, task, ...); `GateAssumption` and
`RunLoopAssumption` (types of contract, answers and options; a catalogue names a city
once; an option is given at most once; the calendar is long enough for what becomes
due); `ApiClientAssumption`, `OutageAssumption` (at least one request and one try,
delays above 0), `PipelineAssumption` (at least a city, a day, a slot and a try; the
calendar does not end before the first day is published), and `TimeoutAssumption`: `execution_timeout` is no shorter than the
sleeps of one try, which the configured 45 minutes and 15 seconds satisfy by far.

### `Ingest`

Hypotheses are part of a theorem's statement; the run that refutes the property without
it is named.

| Theorem | States | Under | Without it |
|---|---|---|---|
| `TypeCorrect` | `TypeOK` | | |
| `GateHolds` | `RawOnlyGated` | | |
| `AuditOnce` | `OneAuditRowPerAttempt` | | |
| `ReloadKeeps` | `ReloadChangesNothing` | | |
| `CountsHonest` | `LoadedCountsHonest` | | |
| `ReadersSafe`, `AuditTrue` | `ReadersSeeWholeFiles`, `AuditTruthful` | `~Overlap` | `shared_paths` |
| `PromiseKept`, `GreenNotEmpty`, `RetriesSafe` | `KeepsPromise`, `GreenHasRows`, `NoTryIsWasted` | `~Overlap` | |
| `GreenCurrent` | `GreenMeansCurrent` | `~Overlap`, `~Reverts` | `revert` |

* `TypeCorrect`. `TypeOK` is inductive because of its
  relational parts: an open handle that goes by a name implies a file of that name
  (otherwise closing it would write into nothing), a process exists exactly in the
  running states, and from `check` on it has a payload. Lemmas give the types of each
  operator of `Landing` and `Warehouse` (`LandingTypes`, `MergeTypes`,
  `WarehouseTypes`); then one lemma per group of actions (`TypeOutside`,
  `TypeIngestDay`, `TypeLoad`, `TypeFailures`).
* `GateHolds`. Not inductive alone, since a
  MERGE takes its rows from a staged file. The invariant is
  `GateInv = ProcGated /\ FilesGated /\ RawOnlyGated`: a process past the gate holds a
  payload fit to load (`PassedIsTrustworthy` derives the documented 2 % from the
  comparison of `check_batch`), every file in the landing zone or on the stage was made from
  such a payload, and then RAW and open transactions are gated. It needs no exclusion
  between runs: it holds for shared and torn files too, because whoever wrote the bytes
  had passed the gate.
* `AuditOnce`. The invariant
  `AuditInv` adds that live tasks have different run numbers, that rows belong to runs
  already started, and that a row of a live task belongs to an earlier attempt, or to
  the one that has just ended: so the attempt that writes has no row yet.
* `ReloadKeeps`. A commit happens
  several steps after its MERGE, so the invariant must say that RAW has not moved
  meanwhile. `LockInv`: at most one transaction is open, of a live process, none under
  AUTOCOMMIT, and what it will commit keeps the rows of its partition *as they are now*.
  `TxnPlaced` says at which statements a transaction may be open, so that the commit of
  `write_audit` commits nothing but its own row.
* `CountsHonest`. ROWS_INSERTED and ROWS_UPDATED are what the MERGE reported; the rows
  change at the MERGE under AUTOCOMMIT, at the commit under an explicit transaction.
  `Counted` says of each process between MERGE and commit: without a transaction it has
  changed as many rows as it reports; with one it has changed none, and what the
  transaction differs in from RAW *now* has the reported size (`MergeCounts`: inserted and
  updated hours are disjoint and are where the tables differ); after the commit it has
  changed what it reports. It needs the table lock, not exclusion: overlapping runs count
  honestly. A lost reply before the success row leads to a 'failed' row, whose counts are
  not claimed here: `AuditCountsHonest` is about those too, and is violated in run
  `autocommit`.
* `ReadersSafe`, `AuditTrue`. `DayInv` has three parts: live tasks work on different partitions
  (`Exclusive`), only temporary files are incomplete (`FilesPure`), and a task's payload
  is the one in its temporary file, then its published file, then the staged file, then
  the rows of its transaction or of RAW (`OwnFiles`). The other tasks interfere with it
  in one way only, by sweeping its temporary file away (`OthersKeep`): the rename then
  raises. Each action is shown to keep `OthersKeep` and its own `OwnFiles`; `OwnStep`
  concludes for all tasks. `AuditTrue` also needs `LockInv`.
* `PromiseKept`, the refinement of `LoadPromise`, step by step: initial states map to
  the initial state; a MERGE under AUTOCOMMIT and a commit map to `Load`
  (`LoadImplements`), the success row maps to `Report` (`ReportImplements`), the failed
  row and every other step to a stutter (`RawWriters`, `AuditWriters`,
  `StepImplements`). `LayInv` supplies what the MERGE's file does not show: the payload
  has passed the gate, and the open transaction is `Overlay` of that payload on the rows
  *as they are now*, which makes MERGE and commit one step for readers.
* `GreenCurrent`. A skip trusts a 'loaded' row of any age. `CurrentInv` says why that is
  right when the producer does not go back: `Current`, what is reported is what it has
  answered, its present answer is none it answered before, and once that is reported RAW
  shows it; `Fresh`, once it is reported, no process holds an earlier answer that it
  could still load over it, and a process at the guard that finds its payload reported
  finds it in RAW. `RestateFresh` is where `~Reverts` enters: a new answer was never
  reported. `OthersFresh` is where exclusion does.
* `GreenNotEmpty`. `LoadedHasRows`: a partition with a 'loaded' row has rows in RAW. The
  success row is written over rows that agree with a payload past the gate, and such a
  payload has acceptable rows (`GoodHasRows`: two in a hundred bad ones are not all); what is
  there is never lost (`RawKept`). A skip rests on such a row.
* `RetriesSafe`. Without a fault an attempt fails only where the gate, the rename, the PUT
  or the MERGE raises (`DerailSteps`). `DayInv` gives the PUT its published file and the
  MERGE its staged one, both whole; the gate refuses no payload that is fit to load
  (`GoodPasses`); and a process that runs alone never loses its temporary file
  (`AloneKeepsFile`), so that a missing one is the sweep of another.

### `RunLoop`

`Inv` has seven parts: `TypeInv` (only readable payloads are landed or merged),
`WindowInv` (a clamped window ends on a day that is due), `AskedInv` (what the options name
is in the window, before the clamp and after it), `ProgressInv` (each partition
asked for is to do, at work or done, and one of them only), `CountInv` (the summary
counts the history), `FileInv` (the quarantine file of the partition at work has lines of
its payload only, and all of them when the batch is decided on) and `RecordInv` (what is
done is landed or recorded as it was fetched).

* `GateExact` rests on `SplitIsExact` and `ViolationsAreExact`: the list of problems that
  `FieldSpec.violations` returns is empty exactly if the value is what the contract file
  says. The case worth a lemma is a value of another type than number against bounds:
  `RowsAreNumbers`, what pydantic lets through is null or a number.
* `ValuesInPlace`: what is landed is `Accepted` of a readable payload; the flattening takes
  hour and value from one place, and the test for ragged series leaves none of another length.
* `RefusalExplained`: `FileInv`, and that a batch beyond the threshold has a rejected row
  (`RefusalHasCause`), so that the file has been opened anew.
* `GreenComplete`: `NamedInWindow`, that `First` and `Final` enclose what the options name;
  `AskedStep`, that the clamp takes nothing off that was published when the command was
  given; then `ProgressInv` with an empty `todo`, and `RecordInv`.
* `HonestSummary`: `CountInv`; `LoopTypeOK` adds cardinalities of windows (`WindowIsFinite`).
* `UnpublishedHarmless`: `ClampIsDue`; the clamp of the moment stays true as days pass.

### `Outage`

`TypeInv` ties the counters to the states (a sleeping client has a request left, a failed
task had its last try). `RequestInv` counts the request about to be sent. `PageInv`: as long as
no page arrived, a post was lost for each that was due. `PatienceInv`: the least a task has
spent before its try began (`began`), and in it, sleep by sleep. `FewRequests`,
`RealPages`, `PatienceKept` and `OutageTypeOK` follow.

`Power`, `Slept` and `Delayed` are recursive functions. That such a function exists and
satisfies its equation is an induction; the library's theorems for it take an operator,
so `OutageProofs` proves it for sets: `NatInduct` (a set with 0 and each successor has
all naturals, from `NatLessThanWellFounded`) and `Recursion` (a first value and a function
of the last one define a function on the naturals).

### `Pipeline`

`PipelineTypes` is `TypeOK` from `TypeInv`. What has to be added to make it inductive: RAW
and every MERGE under way are of a version the producer has served (`Known`, without it
`reverted` could hold partitions that were never restated), an item past waiting is a
partition of the calendar, a task that is not `none` belongs to a run, and a backfill that
exists to a plan (`Begun`).

`GreenPublishes` is `GreenRunPublishes` from `PublishInv`, `TypeInv` and

* `Forward`: unless RAW of a partition went back, `daily <= hourly <= raw`, and RAW is no
  older than anything recorded as loaded; no day is in the daily mart that is not in the
  hourly one;
* `Chain`: a task at work or done has its predecessors succeeded, a fan-out with all its
  items; so a leaf that succeeded has the build behind it (`BuildBeforeLeaf`), and a build
  the ingest (`MappedBeforeBuild`), through the edges of `Dags`;
* `Counted`: an item that ended well had nothing to load, or its version is recorded;
* `Built`: once the hourly model of a run's build is through, the items' versions are in
  `base`, and what is in `base` is in the hourly mart, or excepted; once the daily model is,
  in the daily mart as well.

The argument has two halves. The models publish (`HourlyBuilds`, `DailyBuilds`): what a
window leaves out is behind the newest day of the mart the model writes by more than the window
(`OutOfWindow`), and that day is in the hourly mart too, so the partition is excepted. And
nothing takes it back (`KeepsBuilt`): every step of whatever run moves the marts onward
(`MartsOnward`), an exception stays one, the items of a fan-out that succeeded stay as they
are, also when a run is cleared (`ItemMoves`), and the window of a run is fixed with it.
`BuildMoves` says that no step but those two gets a build further. A retry of a build takes
a new `base`; a green run has passed both models after that.

### Only model-checked, and why

* Liveness (`EveryTaskEnds`, `OutageRiddenOut`, `RunEnds`, `EveryDueDayEnds`,
  `BackfillWaitsForUnits`): fairness and `ENABLED` are outside the prover's reach.
* `AuditCountsHonest`: its half about 'loaded' rows
  is `CountsHonest`; the rest needs explicit transactions.
* The five violated properties are counterexamples; nothing is to be proved of them.

## 6. Plan

*Done*: `Ingest` and what it composes, `QualityGate` with `RunLoop`, `ApiClient` with
`Outage`, `Dags` with `Pipeline`, each with the theorems of its safety properties.

Open: `split_statements` and `apply_ddl` as a module of their own.

## 7. Not modelled

* Configuration, logging and build files: no state of the protocol.
* `split_statements`, `apply_ddl` and the DDL files: run by hand at deployment; the tables
  they create are variables of `Warehouse`. The DAG validation script: a CI check; the
  graphs it looks at are `Dags`.
* `notify_on_sla_miss`: called by Airflow's wall clock and read by nothing.
  `check-contract` prints a file.
* `dim_city`, the staging view, the generic column tests and the warn-level tests of dbt:
  they change no state and stop no run.
* `unknown_fields`: a log line under `warn_and_keep`, the only action the contract file
  uses.
* The layout of Parquet, JSON and SQL text; timestamps and coordinates.
  `existing_payload_hash` has no caller, and `skipped_unchanged`, a status named by the comment of
  `002_raw_objects.sql:53`, is written by no code.
