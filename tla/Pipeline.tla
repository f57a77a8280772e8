------------------------------ MODULE Pipeline ------------------------------
(***************************************************************************)
(* The schedule around ingestion: runs of both DAGs, their tasks and slots, *)
(* the days the producer publishes and restates, RAW and the two marts      *)
(* that dbt derives from it.  A partition's content is the number of the    *)
(* version the producer served (0: none).  Loading a partition is one step, *)
(* as LoadPromise says of Ingest.                                           *)
(***************************************************************************)
EXTENDS Dags

CONSTANTS
  City,
  LastDay,          \* observation days are 1 .. LastDay
  Horizon,          \* bound: the calendar ends here
  MaxVersion,       \* bound: versions the producer makes of a partition
  HoursOf,          \* HoursOf[v]: how many hourly rows version v has
  Gaps,             \* partitions the producer may have no usable record of
  Restated,         \* partitions the producer may restate
  Window,           \* dbt's var restatement_window_days
  MaxActiveRuns,    \* max_active_runs of the daily DAG
  DailyCap,         \* max_active_tis_per_dag of ingest_city
  UnitCap,          \* max_active_tis_per_dag of ingest_unit
  PoolSlots,        \* slots of the weather_api pool
  MaxBackfillDays,  \* MAX_BACKFILL_DAYS
  Plans,            \* the parameters backfills are triggered with
  Tries,            \* attempts of a dbt task: retries + 1
  AuditFreshness,   \* is freshness also asked of load_audit: {TRUE}, as _sources.yml
                    \* declares, {FALSE}, once that is repaired, or either
  Stuck,            \* runs the scheduler may leave where they are for ever
  Abandons,         \* may a MERGE outlive the attempt that sent it
  MaxFaults,        \* bound: attempts that die or fail by themselves
  MaxClears         \* bound: failed runs an operator clears

SourceLagDays == 2
Day == 1 .. LastDay
Part == City \X Day
Version == 0 .. MaxVersion
Backfill == 0                    \* the run of the backfill DAG
Run == {Backfill} \cup Day       \* a scheduled run goes by the day it targets

VARIABLES
  today,                         \* the calendar day
  served,                        \* served[p]: the version the producer has
  gap,                           \* the partitions it never has
  raw, loaded, written,          \* RAW; (partition, version) pairs recorded as
                                 \* 'loaded'; the day RAW was last written
  hourly, daily,                 \* the marts fct_weather_hourly, agg_weather_daily
  run, ti,                       \* the state of a DAG run, of its task instances
  item, got,                     \* its mapped task instances; the version each fetched
  tries,                         \* attempts the dbt task at work has lost
  plan,                          \* the parameters of the backfill
  base,                          \* history: base[r]: 'loaded' when r's build began
  orphans,                       \* MERGEs whose attempt is gone
  reverted,                      \* history: partitions of which RAW went back to an
                                 \* older version
  hurt,                          \* history: the (run, task) pairs a fault hit
  faults, clears

martVars == <<hourly, daily, base>>
rawVars == <<raw, loaded, written, reverted, orphans>>
timeVars == <<today, served, gap>>
runVars == <<run, plan>>
boundVars == <<hurt, faults, clears>>
vars == <<timeVars, rawVars, martVars, runVars, ti, item, got, tries, boundVars>>

ASSUME PipelineAssumption ==
  /\ City # {} /\ {LastDay, MaxVersion} \subseteq Nat \ {0}
  /\ Horizon \in Nat /\ 1 + SourceLagDays <= Horizon
  /\ HoursOf \in [Version -> Nat]
  /\ Gaps \subseteq Part /\ Restated \subseteq Part
  /\ {Window, MaxBackfillDays, MaxFaults, MaxClears} \subseteq Nat
  /\ {MaxActiveRuns, DailyCap, UnitCap, PoolSlots, Tries} \subseteq Nat \ {0}
  /\ Plans \subseteq [from : Day, to : Nat, cities : SUBSET City]
  /\ AuditFreshness \subseteq BOOLEAN /\ Abandons \in BOOLEAN
  /\ Stuck \subseteq Run

DagOf(r) == IF r = Backfill THEN BackfillDag ELSE DailyDag

Mapped(r) == CHOOSE t \in MappedTasks : t \in DagOf(r).node
Build(r) == CHOOSE t \in BuildTasks : t \in DagOf(r).node

\* One work item per partition: the cities of preflight for the day of the run,
\* or the expansion of the backfill's range (no cities given: all of them).
Work(r) ==
  IF r = Backfill
  THEN (IF plan.cities = {} THEN City ELSE plan.cities) \X (plan.from .. plan.to)
  ELSE City \X {r}

\* 'success' of a mapped task only says that it has been expanded.
TaskState == {"none", "hourly", "daily", "success", "failed", "upstream_failed"}
ItemState == {"todo", "running", "loaded", "skipped", "failed"}
RunState == {"none", "running", "success", "failed"}

TypeOK ==
  /\ today \in 0 .. Horizon /\ written \in 0 .. Horizon
  /\ {served, raw, hourly, daily} \subseteq [Part -> Version] /\ gap \subseteq Part
  /\ loaded \subseteq Part \X Version /\ orphans \subseteq Part \X Version
  /\ reverted \subseteq {p \in Part : served[p] > 1}
  /\ run \in [Run -> RunState] /\ base \in [Run -> SUBSET (Part \X Version)]
  /\ \A r \in Run : /\ ti[r] \in [DagOf(r).node -> TaskState]
                    /\ item[r] \in [DOMAIN item[r] -> ItemState]
                    /\ got[r] \in [DOMAIN item[r] -> Version]
                    /\ ti[r][Mapped(r)] = "success" => DOMAIN item[r] = Work(r)
                    /\ \A p \in DOMAIN item[r] :
                         item[r][p] = "loaded" => <<p, got[r][p]>> \in loaded
  /\ tries \in [Run -> 0 .. Tries - 1]
  /\ plan \in Plans \cup {<<>>}
  /\ hurt \subseteq Run \X (DailyDag.node \cup BackfillDag.node)
  /\ faults \in 0 .. MaxFaults /\ clears \in 0 .. MaxClears

Init ==
  /\ today = 1 + SourceLagDays /\ written = 0
  /\ gap \in SUBSET Gaps
  /\ served = [p \in Part |-> IF p[2] = 1 /\ p \notin gap THEN 1 ELSE 0]
  /\ raw = [p \in Part |-> 0] /\ hourly = raw /\ daily = raw
  /\ loaded = {} /\ orphans = {} /\ reverted = {}
  /\ run = [r \in Run |-> "none"] /\ base = [r \in Run |-> {}]
  /\ ti = [r \in Run |-> [t \in DagOf(r).node |-> "none"]]
  /\ item = [r \in Run |-> <<>>] /\ got = [r \in Run |-> <<>>]
  /\ tries = [r \in Run |-> 0]
  /\ plan = <<>>
  /\ hurt = {} /\ faults = 0 /\ clears = 0

----------------------------------------------------------------------------
(* The calendar, the producer and the triggers                              *)

\* A day passes, whatever is running.  The producer publishes with its lag.
Tick ==
  /\ today < Horizon
  /\ today' = today + 1
  /\ served' = [p \in Part |->
                  IF p[2] + SourceLagDays = today' /\ p \notin gap THEN 1 ELSE served[p]]
  /\ UNCHANGED <<gap, rawVars, martVars, runVars, ti, item, got, tries, boundVars>>

\* The producer corrects or completes a day it has published.
Restate(p) ==
  /\ served[p] \in 1 .. MaxVersion - 1
  /\ served' = [served EXCEPT ![p] = @ + 1]
  /\ UNCHANGED <<today, gap, rawVars, martVars, runVars, ti, item, got, tries, boundVars>>

\* Faulty: a failed run keeps its slot.
CreateRunWhileClean(d) ==
  /\ run[d] = "none" /\ today > d + SourceLagDays
  /\ \A e \in Day : e < d => run[e] # "none"
  /\ Cardinality({e \in Day : run[e] \in {"running", "failed"}}) < MaxActiveRuns
  /\ run' = [run EXCEPT ![d] = "running"]
  /\ UNCHANGED <<timeVars, rawVars, martVars, plan, ti, item, got, tries, boundVars>>

\* catchup=True, depends_on_past=False: the run of the interval that began
\* SourceLagDays after day d is created once that interval is over, oldest
\* first, while fewer than max_active_runs are active.
CreateRun(d) ==
  /\ run[d] = "none" /\ today > d + SourceLagDays
  /\ \A e \in Day : e < d => run[e] # "none"
  /\ Cardinality({e \in Day : run[e] = "running"}) < MaxActiveRuns
  /\ run' = [run EXCEPT ![d] = "running"]
  /\ UNCHANGED <<timeVars, rawVars, martVars, plan, ti, item, got, tries, boundVars>>

\* schedule=None, max_active_runs=1: an operator triggers the backfill.
TriggerBackfill(p) ==
  /\ run[Backfill] = "none"
  /\ run' = [run EXCEPT ![Backfill] = "running"]
  /\ plan' = p
  /\ UNCHANGED <<timeVars, rawVars, martVars, ti, item, got, tries, boundVars>>

----------------------------------------------------------------------------
(* Task instances.  All tasks have the trigger rule all_success.            *)

Succeeded(r, t) ==
  /\ ti[r][t] = "success"
  /\ t = Mapped(r) => \A p \in DOMAIN item[r] : item[r][p] \in {"loaded", "skipped"}

Broken(r, t) ==
  \/ ti[r][t] \in {"failed", "upstream_failed"}
  \/ t = Mapped(r) /\ \E p \in DOMAIN item[r] : item[r][p] = "failed"

\* No instance of the task is waiting or at work.
Settled(r, t) ==
  /\ ti[r][t] \in {"success", "failed", "upstream_failed"}
  /\ t = Mapped(r) => \A p \in DOMAIN item[r] : item[r][p] \notin {"todo", "running"}

Ready(r, t) ==
  /\ run[r] = "running" /\ t \in DagOf(r).node /\ ti[r][t] = "none"
  /\ \A u \in Predecessors(DagOf(r), t) : Succeeded(r, u)

Becomes(r, t, state) == ti' = [ti EXCEPT ![r][t] = state]

\* Exceptions of the tasks' own: plan refuses an inverted or too long range,
\* preflight an empty catalogue.
Raises(r, t) ==
  \/ t = "plan" /\ (plan.to < plan.from \/ plan.to - plan.from + 1 > MaxBackfillDays)
  \/ t = "preflight" /\ City = {}

\* Tasks that change nothing but their own state.
Plain(r) == DagOf(r).node \ (MappedTasks \cup BuildTasks \cup
                             {"dbt_source_freshness", "dbt_test"})

RunTask(r, t) ==
  /\ Ready(r, t) /\ t \in Plain(r)
  /\ Becomes(r, t, IF Raises(r, t) THEN "failed" ELSE "success")
  /\ UNCHANGED <<timeVars, rawVars, martVars, runVars, item, got, tries, boundVars>>

\* The scheduler expands the mapped task over what preflight or plan returned.
Expand(r) ==
  /\ Ready(r, Mapped(r))
  /\ Becomes(r, Mapped(r), "success")
  /\ item' = [item EXCEPT ![r] = [p \in Work(r) |-> "todo"]]
  /\ got' = [got EXCEPT ![r] = [p \in Work(r) |-> 0]]
  /\ UNCHANGED <<timeVars, rawVars, martVars, runVars, tries, boundVars>>

\* Faulty: only a failed predecessor fails a task, not one that failed upstream.
UpstreamFailedOnce(r, t) ==
  /\ run[r] = "running" /\ t \in DagOf(r).node /\ ti[r][t] = "none"
  /\ \E u \in Predecessors(DagOf(r), t) : ti[r][u] = "failed"
  /\ Becomes(r, t, "upstream_failed")
  /\ UNCHANGED <<timeVars, rawVars, martVars, runVars, item, got, tries, boundVars>>

UpstreamFailed(r, t) ==
  /\ run[r] = "running" /\ t \in DagOf(r).node /\ ti[r][t] = "none"
  /\ \E u \in Predecessors(DagOf(r), t) : Broken(r, u)
  /\ Becomes(r, t, "upstream_failed")
  /\ UNCHANGED <<timeVars, rawVars, martVars, runVars, item, got, tries, boundVars>>

\* The run takes the state of its leaves once every task has settled.
EndRun(r) ==
  /\ run[r] = "running" /\ \A t \in DagOf(r).node : Settled(r, t)
  /\ run' = [run EXCEPT ![r] = IF \A t \in Leaves(DagOf(r)) : Succeeded(r, t)
                               THEN "success" ELSE "failed"]
  /\ UNCHANGED <<timeVars, rawVars, martVars, plan, ti, item, got, tries, boundVars>>

\* "Clear the failed tasks and let Airflow retry" (runbook.md).
Clear(r) ==
  /\ run[r] = "failed" /\ clears < MaxClears
  /\ clears' = clears + 1
  /\ run' = [run EXCEPT ![r] = "running"]
  /\ ti' = [ti EXCEPT ![r] = [t \in DOMAIN @ |->
              IF @[t] \in {"failed", "upstream_failed"} THEN "none" ELSE @[t]]]
  /\ item' = [item EXCEPT ![r] = [p \in DOMAIN @ |->
                IF @[p] = "failed" THEN "todo" ELSE @[p]]]
  /\ UNCHANGED <<timeVars, rawVars, martVars, plan, got, tries, hurt, faults>>

----------------------------------------------------------------------------
(* Ingest tasks                                                             *)

Working(R) == UNION {{<<r, p>> : p \in {q \in DOMAIN item[r] : item[r][q] = "running"}}
                     : r \in R}

\* The limits on a fan-out task: the cap of its own DAG, and for the backfill the pool.
Slot(r) ==
  IF r = Backfill THEN Cardinality(Working({Backfill})) < Min({UnitCap, PoolSlots})
                  ELSE Cardinality(Working(Day)) < DailyCap

\* run() for one partition, up to its fetch and the guard of already_loaded:
\* a day the clamp cuts off and a payload already loaded are successes without a
\* load, a partition without hourly rows raises.
Start(r, p) ==
  LET late == p[2] > today - SourceLagDays
  IN /\ p \in DOMAIN item[r] /\ item[r][p] = "todo" /\ Slot(r)
     /\ item' = [item EXCEPT ![r][p] =
                   IF late \/ <<p, served[p]>> \in loaded THEN "skipped"
                   ELSE IF served[p] = 0 THEN "failed" ELSE "running"]
     /\ got' = [got EXCEPT ![r][p] = IF late THEN 0 ELSE served[p]]
     /\ UNCHANGED <<timeVars, rawVars, martVars, runVars, ti, tries, boundVars>>

\* RAW takes the fetched version; rows that were already of it are not rewritten.
Land(p, v) ==
  /\ raw' = [raw EXCEPT ![p] = v]
  /\ written' = IF raw[p] = v THEN written ELSE today
  /\ reverted' = IF v < raw[p] THEN reverted \cup {p} ELSE reverted

Load(r, p) ==
  /\ p \in DOMAIN item[r] /\ item[r][p] = "running"
  /\ Land(p, got[r][p])
  /\ loaded' = loaded \cup {<<p, got[r][p]>>}
  /\ item' = [item EXCEPT ![r][p] = "loaded"]
  /\ UNCHANGED <<timeVars, orphans, martVars, runVars, ti, got, tries, boundVars>>

Fault == faults < MaxFaults /\ faults' = faults + 1

\* An attempt ends without its success row: its MERGE took effect, did not, or
\* is still going on in the warehouse.  Airflow retries it, or has no retry left.
Lose(r, p) ==
  /\ p \in DOMAIN item[r] /\ item[r][p] = "running" /\ Fault
  /\ \/ Land(p, got[r][p]) /\ UNCHANGED orphans
     \/ UNCHANGED <<raw, written, reverted, orphans>>
     \/ /\ Abandons /\ orphans' = orphans \cup {<<p, got[r][p]>>}
        /\ UNCHANGED <<raw, written, reverted>>
  /\ \/ item' = [item EXCEPT ![r][p] = "todo"] /\ UNCHANGED hurt
     \/ /\ item' = [item EXCEPT ![r][p] = "failed"]
        /\ hurt' = hurt \cup {<<r, Mapped(r)>>}
  /\ UNCHANGED <<timeVars, loaded, martVars, runVars, ti, got, tries, clears>>

\* A MERGE whose client is gone comes to its end.
LandOrphan(o) ==
  /\ o \in orphans
  /\ Land(o[1], o[2])
  /\ orphans' = orphans \ {o}
  /\ UNCHANGED <<timeVars, loaded, martVars, runVars, ti, item, got, tries, boundVars>>

----------------------------------------------------------------------------
(* dbt                                                                      *)

\* dbt source freshness: an error after 48 hours without a write, which is one
\* or two calendar days.  Asked of load_audit, which has no column _INGESTED_AT_UTC,
\* it is an error always.
CheckFreshness(r) ==
  /\ Ready(r, "dbt_source_freshness")
  /\ \/ /\ FALSE \in AuditFreshness /\ written # 0 /\ today - written <= 2
        /\ Becomes(r, "dbt_source_freshness", "success")
     \/ /\ TRUE \in AuditFreshness \/ written = 0 \/ today - written >= 2
        /\ Becomes(r, "dbt_source_freshness", "failed")
  /\ UNCHANGED <<timeVars, rawVars, martVars, runVars, item, got, tries, boundVars>>

Newest(mart) == Max({0} \cup {d \in Day : \E c \in City : mart[<<c, d>>] # 0})

\* Faulty: the filter `> max(date)`.
NewerOnly(mart, d, w) == d > Newest(mart)

\* restatement_filter: counted back from the newest day in the mart itself.  An
\* empty mart takes everything.
InWindow(mart, d, w) == Newest(mart) = 0 \/ d >= Newest(mart) - w

WindowOf(r) == IF r = Backfill THEN plan.to - plan.from + 2 ELSE Window

\* An incremental model merges what its source has within the window.
Refreshed(mart, source, w) ==
  [p \in Part |-> IF source[p] # 0 /\ InWindow(mart, p[2], w) THEN source[p] ELSE mart[p]]

\* `dbt build` begins: the hourly fact is merged from RAW.
BuildHourly(r) ==
  /\ Ready(r, Build(r))
  /\ hourly' = Refreshed(hourly, raw, WindowOf(r))
  /\ base' = [base EXCEPT ![r] = loaded]
  /\ Becomes(r, Build(r), "hourly")
  /\ UNCHANGED <<timeVars, rawVars, daily, runVars, item, got, tries, boundVars>>

\* The daily aggregate is merged from the hourly fact.
BuildDaily(r) ==
  /\ run[r] = "running" /\ ti[r][Build(r)] = "hourly"
  /\ daily' = Refreshed(daily, hourly, WindowOf(r))
  /\ Becomes(r, Build(r), "daily")
  /\ UNCHANGED <<timeVars, rawVars, hourly, base, runVars, item, got, tries, boundVars>>

\* Faulty: one retry more than configured.
LoseTryMore(r, t) ==
  IF tries[r] < Tries
  THEN Becomes(r, t, "none") /\ tries' = [tries EXCEPT ![r] = @ + 1]
  ELSE Becomes(r, t, "failed") /\ tries' = [tries EXCEPT ![r] = 0]

\* A failed attempt of a dbt task is retried from its beginning, or was the last.
LoseTry(r, t) ==
  IF tries[r] + 1 < Tries
  THEN Becomes(r, t, "none") /\ tries' = [tries EXCEPT ![r] = @ + 1]
  ELSE Becomes(r, t, "failed") /\ tries' = [tries EXCEPT ![r] = 0]

\* assert_daily_matches_hourly: for every partition the daily mart counts as many
\* hours as the hourly one has rows.
CountsAgree == \A p \in Part : HoursOf[hourly[p]] = HoursOf[daily[p]]

\* The tests run at the end of `dbt build`, and again as the task dbt_test; the
\* build of another run may be between its two models at that moment.
TestMarts(r, t) ==
  /\ \/ t = Build(r) /\ run[r] = "running" /\ ti[r][t] = "daily"
     \/ t = "dbt_test" /\ Ready(r, t)
  /\ IF CountsAgree
     THEN Becomes(r, t, "success") /\ tries' = [tries EXCEPT ![r] = 0]
     ELSE LoseTry(r, t)
  /\ UNCHANGED <<timeVars, rawVars, martVars, runVars, item, got, boundVars>>

\* A build dies after one of its models.
BuildDies(r) ==
  /\ run[r] = "running" /\ ti[r][Build(r)] \in {"hourly", "daily"} /\ Fault
  /\ LoseTry(r, Build(r))
  /\ hurt' = hurt \cup {<<r, Build(r)>>}
  /\ UNCHANGED <<timeVars, rawVars, martVars, runVars, item, got, clears>>

\* Any other task uses up its retries.
TaskFails(r, t) ==
  /\ Ready(r, t) /\ t \in DagOf(r).node \ (MappedTasks \cup BuildTasks) /\ Fault
  /\ Becomes(r, t, "failed")
  /\ hurt' = hurt \cup {<<r, t>>}
  /\ UNCHANGED <<timeVars, rawVars, martVars, runVars, item, got, tries, clears>>

----------------------------------------------------------------------------
\* What the scheduler does for a run, and the workers for the build it is in.
Schedules(r) ==
  \/ \E t \in DagOf(r).node : RunTask(r, t) \/ UpstreamFailed(r, t) \/ TestMarts(r, t)
  \/ Expand(r) \/ \E p \in Part : Start(r, p)
  \/ CheckFreshness(r) \/ BuildHourly(r) \/ EndRun(r)

Loads(r) == \E p \in Part : Load(r, p)
Builds(r) == BuildDaily(r) \/ TestMarts(r, Build(r))

Goes(r) ==
  \/ Schedules(r) \/ Loads(r) \/ Builds(r) \/ Clear(r) \/ BuildDies(r)
  \/ \E p \in Part : Lose(r, p)
  \/ \E t \in DagOf(r).node : TaskFails(r, t)

\* Nothing is active: the system may rest.
Rest == (\A r \in Run : run[r] # "running") /\ orphans = {} /\ UNCHANGED vars

Next ==
  \/ Tick \/ Rest
  \/ \E d \in Day : CreateRun(d)
  \/ \E p \in Plans : TriggerBackfill(p)
  \/ \E r \in Run : Goes(r)
  \/ \E p \in Restated : Restate(p)
  \/ \E o \in orphans : LandOrphan(o)

Spec == Init /\ [][Next]_vars

\* What cannot stay undone: time passes, the runs that are due are created, runs that
\* are not stuck go on.  Work that has begun ends where an execution_timeout says so:
\* ingest_city and the builds have one, ingest_unit has none.
Inevitable ==
  \/ Tick \/ \E d \in Day : CreateRun(d)
  \/ \E r \in Run \ Stuck : Schedules(r)
  \/ \E d \in Day : Loads(d)
  \/ \E r \in Run : Builds(r)

\* Each of these steps can be taken a bounded number of times only, so fairness of
\* all of them together says as much as fairness of each.
FairSpec == Spec /\ WF_vars(Inevitable)

=============================================================================
