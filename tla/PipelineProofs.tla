---------------------------- MODULE PipelineProofs ----------------------------
(***************************************************************************)
(* Proofs about the schedule: what its variables hold, and that a run that  *)
(* ends green has published.  For any cities, days and versions, any        *)
(* number of runs at a time, slots, retries, faults and clears.             *)
(***************************************************************************)
EXTENDS PipelineProperties, FiniteSetTheorems, WellFoundedInduction, TLAPS

\* The fan-out task and the build task of either DAG.
LEMMA DagFacts ==
  /\ MappedTasks \cap DailyDag.node = {"ingest_city"}
  /\ MappedTasks \cap BackfillDag.node = {"ingest_unit"}
  /\ BuildTasks \cap DailyDag.node = {"dbt_run"}
  /\ BuildTasks \cap BackfillDag.node = {"rebuild_marts"}
BY DEF MappedTasks, BuildTasks, DailyDag, BackfillDag

\* Each DAG has one of each, which Mapped and Build choose.
LEMMA TasksOf ==
  \A r \in Run :
    /\ Mapped(r) \in DagOf(r).node /\ Mapped(r) \in MappedTasks
    /\ Build(r) \in DagOf(r).node /\ Build(r) \in BuildTasks
    /\ DagOf(r).node \cap MappedTasks = {Mapped(r)}
    /\ DagOf(r).node \cap BuildTasks = {Build(r)}
<1> TAKE r \in Run
<1>1. DagOf(r) = DailyDag \/ DagOf(r) = BackfillDag
  BY DEF DagOf
<1>2. \E t \in MappedTasks : t \in DagOf(r).node
  BY <1>1, DagFacts
<1>3. \E t \in BuildTasks : t \in DagOf(r).node
  BY <1>1, DagFacts
<1>4. Mapped(r) \in DagOf(r).node /\ Mapped(r) \in MappedTasks
  BY <1>2 DEF Mapped
<1>5. Build(r) \in DagOf(r).node /\ Build(r) \in BuildTasks
  BY <1>3 DEF Build
<1>6. QED
  BY <1>1, <1>4, <1>5, DagFacts

----------------------------------------------------------------------------
(* TypeOK in parts, with what makes it inductive                            *)

\* The clock, the runs and the counters.
Clocks ==
  /\ today \in 0 .. Horizon /\ written \in 0 .. Horizon
  /\ run \in [Run -> RunState] /\ tries \in [Run -> 0 .. Tries - 1]
  /\ plan \in Plans \cup {<<>>} /\ gap \subseteq Part
  /\ hurt \subseteq Run \X (DailyDag.node \cup BackfillDag.node)
  /\ faults \in 0 .. MaxFaults /\ clears \in 0 .. MaxClears

\* What the producer, RAW, its record, the marts and the warehouse hold.
Contents ==
  /\ served \in [Part -> Version] /\ raw \in [Part -> Version]
  /\ hourly \in [Part -> Version] /\ daily \in [Part -> Version]
  /\ loaded \subseteq Part \X Version /\ orphans \subseteq Part \X Version
  /\ reverted \subseteq {p \in Part : served[p] > 1}
  /\ base \in [Run -> SUBSET (Part \X Version)]

\* Every run has the tasks of its DAG.
Tasks ==
  /\ DOMAIN ti = Run
  /\ \A r \in Run : ti[r] \in [DagOf(r).node -> TaskState]

\* Work items: one that is past waiting is a partition of the calendar, one that runs has
\* fetched a version the producer served.
Items ==
  /\ DOMAIN item = Run /\ DOMAIN got = Run
  /\ \A r \in Run :
       /\ item[r] \in [DOMAIN item[r] -> ItemState]
       /\ got[r] \in [DOMAIN item[r] -> Version]
       /\ \A p \in DOMAIN item[r] :
            /\ item[r][p] # "todo" => p \in Part
            /\ item[r][p] = "loaded" => <<p, got[r][p]>> \in loaded
            /\ item[r][p] = "running" => 1 <= got[r][p] /\ got[r][p] <= served[p]

\* An expanded task has the work items its run targets.
Expanded ==
  \A r \in Run : ti[r][Mapped(r)] = "success" => DOMAIN item[r] = Work(r)

\* Nothing is in RAW, or on its way there, that the producer has not served, and nothing
\* is served before its day is over by the lag.
Known ==
  /\ \A p \in Part : raw[p] <= served[p] /\ (served[p] # 0 => p[2] + SourceLagDays <= today)
  /\ \A o \in orphans : 1 <= o[2] /\ o[2] <= served[o[1]]

\* Tasks belong to runs that exist, and the backfill's run to a plan.
Begun ==
  /\ \A r \in Run : run[r] = "none" => \A t \in DagOf(r).node : ti[r][t] = "none"
  /\ run[Backfill] # "none" => plan \in Plans

TypeInv == Clocks /\ Contents /\ Tasks /\ Items /\ Expanded /\ Known /\ Begun

\* The parts are TypeOK, and more.
LEMMA TypeParts == TypeInv => TypeOK
BY DEF TypeInv, TypeOK, Clocks, Contents, Tasks, Items, Expanded

\* They hold at the start.
LEMMA TypeInit == Init => TypeInv
<1> SUFFICES ASSUME Init PROVE TypeInv
  OBVIOUS
<1> USE PipelineAssumption
<1>1. Clocks
  BY DEF Init, Clocks, RunState, SourceLagDays
<1>2. Contents
  BY DEF Init, Contents, Version
<1>3. Tasks
  BY DEF Init, Tasks, TaskState
<1>4. DOMAIN <<>> = {}
  OBVIOUS
<1>5. Items
  BY <1>4 DEF Init, Items
<1>6. Expanded
  BY TasksOf DEF Init, Expanded
<1>7. Known
  BY DEF Init, Known, SourceLagDays, Part
<1>8. Begun
  BY DEF Init, Begun, Run
<1>9. QED
  BY <1>1, <1>2, <1>3, <1>5, <1>6, <1>7, <1>8 DEF TypeInv

----------------------------------------------------------------------------
\* A task instance changes its state: it alone does.
LEMMA TaskStep ==
  ASSUME NEW r \in Run, NEW t \in DagOf(r).node, NEW s \in TaskState, Tasks, Becomes(r, t, s)
  PROVE  /\ Tasks' /\ ti'[r][t] = s
         /\ \A q \in Run : \A u \in DagOf(q).node :
              <<q, u>> # <<r, t>> => ti'[q][u] = ti[q][u]
<1>1. DOMAIN ti' = Run
  BY DEF Tasks, Becomes
<1>2. \A q \in Run : ti'[q] = IF q = r THEN [ti[r] EXCEPT ![t] = s] ELSE ti[q]
  BY DEF Tasks, Becomes
<1>3. ti[r] \in [DagOf(r).node -> TaskState]
  BY DEF Tasks
<1>4. ti'[r] \in [DagOf(r).node -> TaskState] /\ ti'[r][t] = s
  BY <1>2, <1>3
<1>5. \A q \in Run : ti'[q] \in [DagOf(q).node -> TaskState]
  BY <1>2, <1>4 DEF Tasks
<1>6. \A q \in Run : \A u \in DagOf(q).node : <<q, u>> # <<r, t>> => ti'[q][u] = ti[q][u]
  BY <1>2, <1>3
<1>7. QED
  BY <1>1, <1>4, <1>5, <1>6 DEF Tasks

\* The parts about tasks and items survive it.
LEMMA TaskOnly ==
  ASSUME NEW r \in Run, NEW t \in DagOf(r).node, NEW s \in TaskState, TypeInv,
         Becomes(r, t, s), run[r] # "none", t = Mapped(r) => s # "success",
         UNCHANGED <<served, loaded, run, plan, item, got>>
  PROVE  Tasks' /\ Items' /\ Expanded' /\ Begun'
<1>1. Tasks' /\ ti'[r][t] = s
  BY TaskStep DEF TypeInv
<1>2. \A q \in Run : \A u \in DagOf(q).node : <<q, u>> # <<r, t>> => ti'[q][u] = ti[q][u]
  BY TaskStep DEF TypeInv
<1>3. Items'
  BY DEF TypeInv, Items
<1>4. Expanded'
  <2> SUFFICES ASSUME NEW q \in Run, ti'[q][Mapped(q)] = "success"
               PROVE  DOMAIN item[q] = Work(q)
    BY DEF Expanded, Work
  <2>1. ti[q][Mapped(q)] = "success"
    BY <1>1, <1>2, TasksOf
  <2>2. QED
    BY <2>1 DEF TypeInv, Expanded
<1>5. Begun'
  BY <1>2 DEF TypeInv, Begun
<1>6. QED
  BY <1>1, <1>3, <1>4, <1>5

\* A lost attempt of a dbt task stays within the retries.
LEMMA BuildTypes ==
  ASSUME TypeInv, NEW r \in Run, NEW t \in DagOf(r).node, run[r] # "none", t # Mapped(r),
         LoseTry(r, t)
  PROVE  /\ tries' \in [Run -> 0 .. Tries - 1]
         /\ \E s \in {"none", "failed"} : Becomes(r, t, s)
<1>1. \E s \in {"none", "failed"} : Becomes(r, t, s)
  BY DEF LoseTry
<1>2. tries \in [Run -> 0 .. Tries - 1] /\ Tries \in Nat \ {0}
  BY PipelineAssumption DEF TypeInv, Clocks
<1>3. \/ tries' = [tries EXCEPT ![r] = @ + 1] /\ tries[r] + 1 < Tries
      \/ tries' = [tries EXCEPT ![r] = 0]
  BY DEF LoseTry
<1>4. QED
  BY <1>1, <1>2, <1>3

\* RAW stays within what the producer served; what goes back was restated.
LEMMA LandTypes ==
  ASSUME TypeInv, NEW p \in Part, NEW v \in Version, 1 <= v, v <= served[p], Land(p, v),
         UNCHANGED served
  PROVE  /\ raw' \in [Part -> Version] /\ written' \in 0 .. Horizon
         /\ reverted' \subseteq {q \in Part : served[q] > 1}
         /\ \A q \in Part : raw'[q] <= served[q]
<1>1. raw \in [Part -> Version] /\ served \in [Part -> Version]
  BY DEF TypeInv, Contents
<1>2. raw' \in [Part -> Version] /\ raw' = [raw EXCEPT ![p] = v]
  BY <1>1 DEF Land
<1>3. written' \in 0 .. Horizon
  BY DEF Land, TypeInv, Clocks
<1>4. \A q \in Part : raw'[q] <= served[q]
  BY <1>1, <1>2 DEF TypeInv, Known
<1>5. v < raw[p] => served[p] > 1
  BY <1>1, PipelineAssumption DEF TypeInv, Known, Version
<1>6. reverted' \subseteq {q \in Part : served[q] > 1}
  BY <1>5 DEF Land, TypeInv, Contents
<1>7. QED
  BY <1>2, <1>3, <1>4, <1>6

----------------------------------------------------------------------------
\* Versions and days are naturals.
LEMMA Values ==
  /\ Version \subseteq Nat /\ 0 \in Version /\ 1 \in Version /\ Day \subseteq Nat
  /\ \A p \in Part : p[2] \in Day
BY PipelineAssumption DEF Version, Day, Part

\* The producer goes on, and nothing else does.
LEMMA ServedGrows ==
  ASSUME TypeInv, served' \in [Part -> Version], \A p \in Part : served[p] <= served'[p],
         UNCHANGED <<rawVars, martVars, item, got>>
  PROVE  /\ Contents' /\ Items'
         /\ \A p \in Part : raw'[p] <= served'[p]
         /\ \A o \in orphans' : 1 <= o[2] /\ o[2] <= served'[o[1]]
<1>1. served \in [Part -> Version] /\ raw \in [Part -> Version]
  BY DEF TypeInv, Contents
<1>2. \A p \in Part : served[p] \in Nat /\ served'[p] \in Nat /\ raw[p] \in Nat
  BY <1>1, Values
<1>3. \A p \in Part, v \in Nat : v <= served[p] => v <= served'[p]
  BY <1>2
<1>4. reverted' \subseteq {p \in Part : served'[p] > 1}
  BY <1>2 DEF TypeInv, Contents, rawVars
<1>5. Contents'
  BY <1>4 DEF TypeInv, Contents, rawVars, martVars
<1>6. Items'
  <2>1. ASSUME NEW r \in Run, NEW p \in DOMAIN item[r], item[r][p] = "running"
        PROVE  got[r][p] <= served'[p]
    <3>1. p \in Part /\ got[r][p] <= served[p] /\ got[r][p] \in Version
      BY <2>1 DEF TypeInv, Items
    <3>2. QED
      BY <1>3, <3>1, Values
  <2>2. QED
    BY <2>1 DEF TypeInv, Items, rawVars
<1>7. \A p \in Part : raw'[p] <= served'[p]
  BY <1>2, <1>3 DEF TypeInv, Known, rawVars
<1>8. ASSUME NEW o \in orphans PROVE 1 <= o[2] /\ o[2] <= served'[o[1]]
  <2>1. o[1] \in Part /\ o[2] \in Nat
    BY Values DEF TypeInv, Contents
  <2>2. 1 <= o[2] /\ o[2] <= served[o[1]]
    BY DEF TypeInv, Known
  <2>3. QED
    BY <1>3, <2>1, <2>2
<1>9. QED
  BY <1>5, <1>6, <1>7, <1>8 DEF rawVars

\* A day passes: partitions published now were not before.
LEMMA TypeTick == TypeInv /\ Tick => TypeInv'
<1> SUFFICES ASSUME TypeInv, Tick PROVE TypeInv'
  OBVIOUS
<1> USE PipelineAssumption
<1>1. served \in [Part -> Version] /\ today \in Nat /\ today' = today + 1
  BY DEF Tick, TypeInv, Contents, Clocks
<1>2. served' = [p \in Part |-> IF p[2] + 2 = today' /\ p \notin gap THEN 1 ELSE served[p]]
  BY DEF Tick, SourceLagDays
<1>3. served' \in [Part -> Version]
  BY <1>1, <1>2, Values
<1>4. \A p \in Part : p[2] \in Nat /\ served[p] \in Nat /\ (served[p] # 0 => p[2] + 2 <= today)
  BY <1>1, Values DEF TypeInv, Known, SourceLagDays
<1>5. \A p \in Part : served[p] <= served'[p] /\ (served'[p] # 0 => p[2] + 2 <= today')
  BY <1>1, <1>2, <1>4
<1>6. Contents' /\ Items' /\ Known'
  BY <1>3, <1>5, ServedGrows DEF Tick, Known, SourceLagDays
<1>7. Clocks'
  <2>1. today' \in 0 .. Horizon
    <3>1. today < Horizon /\ Horizon \in Nat
      BY DEF Tick
    <3>2. QED
      BY <1>1, <3>1
  <2>2. QED
    BY <2>1 DEF Tick, TypeInv, Clocks, rawVars, runVars, boundVars
<1>8. Tasks' /\ Expanded' /\ Begun'
  BY DEF Tick, TypeInv, Tasks, Expanded, Begun, runVars, Work
<1>9. QED
  BY <1>6, <1>7, <1>8 DEF TypeInv

\* The producer restates a partition.
LEMMA TypeRestate == ASSUME NEW p \in Part, TypeInv, Restate(p) PROVE TypeInv'
<1> USE PipelineAssumption
<1>1. served \in [Part -> Version] /\ served[p] \in 1 .. MaxVersion - 1
  BY DEF Restate, TypeInv, Contents
<1>2. served' = [served EXCEPT ![p] = served[p] + 1]
  BY DEF Restate
<1>3. served' \in [Part -> Version]
  <2>1. MaxVersion \in Nat
    OBVIOUS
  <2>2. PICK v \in 1 .. MaxVersion - 1 : v = served[p]
    BY <1>1
  <2>3. v + 1 \in Version
    BY <2>1 DEF Version
  <2>4. QED
    BY <1>1, <1>2, <2>2, <2>3
<1>4. \A q \in Part : served[q] <= served'[q] /\ (served'[q] # 0 => served[q] # 0)
  <2>1. \A q \in Part : served[q] \in Nat /\ served'[q] = IF q = p THEN served[p] + 1 ELSE served[q]
    BY <1>1, <1>2, Values
  <2>2. QED
    BY <1>1, <2>1
<1>5. \A q \in Part : served'[q] # 0 => q[2] + SourceLagDays <= today'
  BY <1>4 DEF Restate, TypeInv, Known
<1>6. Contents' /\ Items' /\ Known'
  BY <1>3, <1>4, <1>5, ServedGrows DEF Restate, Known
<1>7. Clocks'
  BY DEF Restate, TypeInv, Clocks, rawVars, runVars, boundVars
<1>8. Tasks' /\ Expanded' /\ Begun'
  BY DEF Restate, TypeInv, Tasks, Expanded, Begun, runVars, Work
<1>9. QED
  BY <1>6, <1>7, <1>8 DEF TypeInv

\* A run of either DAG is created.
LEMMA TypeTriggers ==
  TypeInv /\ ((\E d \in Day : CreateRun(d)) \/ \E p \in Plans : TriggerBackfill(p)) => TypeInv'
<1>1. ASSUME TypeInv, NEW d \in Day, CreateRun(d) PROVE TypeInv'
  <2>1. Clocks'
    BY <1>1 DEF CreateRun, TypeInv, Clocks, timeVars, rawVars, boundVars, RunState, Run
  <2>2. Contents' /\ Known'
    BY <1>1 DEF CreateRun, TypeInv, Contents, Known, timeVars, rawVars, martVars
  <2>3. Tasks' /\ Items' /\ Expanded'
    BY <1>1 DEF CreateRun, TypeInv, Tasks, Items, Expanded, timeVars, rawVars, Work
  <2>4. Begun'
    <3>1. d # Backfill /\ run' = [run EXCEPT ![d] = "running"] /\ run \in [Run -> RunState]
      <4>1. d # Backfill
        BY DEF Day, Backfill
      <4>2. QED
        BY <1>1, <4>1 DEF CreateRun, TypeInv, Clocks
    <3>2. \A r \in Run : run'[r] = "none" => run[r] = "none"
      BY <3>1 DEF Run
    <3>3. run'[Backfill] # "none" => run[Backfill] # "none"
      BY <3>1
    <3>4. QED
      BY <1>1, <3>2, <3>3 DEF CreateRun, TypeInv, Begun
  <2>5. QED
    BY <2>1, <2>2, <2>3, <2>4 DEF TypeInv
<1>2. ASSUME TypeInv, NEW p \in Plans, TriggerBackfill(p) PROVE TypeInv'
  <2>1. Clocks'
    BY <1>2 DEF TriggerBackfill, TypeInv, Clocks, timeVars, rawVars, boundVars, RunState, Run
  <2>2. Contents' /\ Known'
    BY <1>2 DEF TriggerBackfill, TypeInv, Contents, Known, timeVars, rawVars, martVars
  <2>3. Tasks' /\ Items'
    BY <1>2 DEF TriggerBackfill, TypeInv, Tasks, Items, timeVars, rawVars
  <2>4. Begun'
    BY <1>2 DEF TriggerBackfill, TypeInv, Begun, Clocks
  <2>5. Expanded'
    <3>1. Backfill \in Run
      BY DEF Run
    <3>2. ti[Backfill][Mapped(Backfill)] = "none"
      BY <1>2, <3>1, TasksOf DEF TriggerBackfill, TypeInv, Begun
    <3>3. QED
      BY <1>2, <3>2 DEF TriggerBackfill, TypeInv, Expanded, Work
  <2>6. QED
    BY <2>1, <2>2, <2>3, <2>4, <2>5 DEF TypeInv
<1>3. QED
  BY <1>1, <1>2

----------------------------------------------------------------------------
\* A step of a task that leaves RAW, the producer and its work items alone.
LEMMA TaskStepTypes ==
  ASSUME NEW r \in Run, NEW t \in DagOf(r).node, NEW s \in TaskState, TypeInv,
         Becomes(r, t, s), run[r] # "none", t = Mapped(r) => s # "success",
         UNCHANGED <<timeVars, rawVars, runVars, item, got>>,
         hourly' \in [Part -> Version], daily' \in [Part -> Version],
         base' \in [Run -> SUBSET (Part \X Version)],
         tries' \in [Run -> 0 .. Tries - 1],
         hurt' \subseteq Run \X (DailyDag.node \cup BackfillDag.node),
         faults' \in 0 .. MaxFaults, clears' \in 0 .. MaxClears
  PROVE  TypeInv'
<1>1. Tasks' /\ Items' /\ Expanded' /\ Begun'
  BY TaskOnly DEF timeVars, rawVars, runVars
<1>2. Clocks'
  BY DEF TypeInv, Clocks, timeVars, rawVars, runVars
<1>3. Contents' /\ Known'
  BY DEF TypeInv, Contents, Known, timeVars, rawVars
<1>4. QED
  BY <1>1, <1>2, <1>3 DEF TypeInv

\* Every action of a task that keeps its own state only, or writes the marts.
LEMMA TypeTaskActions ==
  ASSUME NEW r \in Run, TypeInv,
         \/ \E t \in DagOf(r).node : \/ RunTask(r, t) \/ UpstreamFailed(r, t)
                                     \/ TestMarts(r, t) \/ TaskFails(r, t)
         \/ CheckFreshness(r) \/ BuildHourly(r) \/ BuildDaily(r) \/ BuildDies(r)
  PROVE  TypeInv'
<1> USE PipelineAssumption
<1>0. /\ hourly \in [Part -> Version] /\ daily \in [Part -> Version]
      /\ base \in [Run -> SUBSET (Part \X Version)] /\ tries \in [Run -> 0 .. Tries - 1]
      /\ hurt \subseteq Run \X (DailyDag.node \cup BackfillDag.node)
      /\ faults \in 0 .. MaxFaults /\ clears \in 0 .. MaxClears
      /\ raw \in [Part -> Version] /\ loaded \subseteq Part \X Version
  BY DEF TypeInv, Contents, Clocks
<1>1. DagOf(r).node \subseteq DailyDag.node \cup BackfillDag.node
  BY DEF DagOf
<1>2. Mapped(r) \in MappedTasks /\ Build(r) \in BuildTasks /\ Build(r) \in DagOf(r).node
  BY TasksOf
<1>3. Build(r) # Mapped(r)
  BY <1>2 DEF MappedTasks, BuildTasks
<1>4. CASE \E t \in DagOf(r).node : RunTask(r, t)
  <2> PICK t \in DagOf(r).node : RunTask(r, t)
    BY <1>4
  <2>1. t # Mapped(r)
    BY <1>2 DEF RunTask, Plain
  <2>2. PICK s \in TaskState : Becomes(r, t, s)
    BY DEF RunTask, TaskState
  <2>3. QED
    BY <1>0, <2>1, <2>2, TaskStepTypes DEF RunTask, Ready, martVars, boundVars
<1>5. CASE \E t \in DagOf(r).node : UpstreamFailed(r, t)
  <2> PICK t \in DagOf(r).node : UpstreamFailed(r, t)
    BY <1>5
  <2>1. "upstream_failed" \in TaskState
    BY DEF TaskState
  <2>2. QED
    BY <1>0, <2>1, TaskStepTypes DEF UpstreamFailed, martVars, boundVars
<1>6. CASE \E t \in DagOf(r).node : TestMarts(r, t)
  <2> PICK t \in DagOf(r).node : TestMarts(r, t)
    BY <1>6
  <2>1. t # Mapped(r)
    BY <1>2, <1>3 DEF TestMarts, MappedTasks
  <2>2. run[r] # "none"
    BY DEF TestMarts, Ready
  <2>3. /\ tries' \in [Run -> 0 .. Tries - 1]
        /\ \E s \in TaskState : Becomes(r, t, s)
    <3>1. CASE Becomes(r, t, "success") /\ tries' = [tries EXCEPT ![r] = 0]
      BY <1>0, <3>1 DEF TaskState
    <3>2. CASE LoseTry(r, t)
      BY <2>1, <2>2, <3>2, BuildTypes DEF TaskState
    <3>3. QED
      BY <3>1, <3>2 DEF TestMarts
  <2>4. PICK s \in TaskState : Becomes(r, t, s)
    BY <2>3
  <2>5. QED
    BY <1>0, <2>1, <2>2, <2>3, <2>4, TaskStepTypes DEF TestMarts, martVars, boundVars
<1>7. CASE \E t \in DagOf(r).node : TaskFails(r, t)
  <2> PICK t \in DagOf(r).node : TaskFails(r, t)
    BY <1>7
  <2>1. "failed" \in TaskState /\ run[r] # "none" /\ faults' \in 0 .. MaxFaults
    BY <1>0 DEF TaskState, TaskFails, Ready, Fault
  <2>2. hurt' \subseteq Run \X (DailyDag.node \cup BackfillDag.node)
    BY <1>0, <1>1 DEF TaskFails
  <2>3. QED
    BY <1>0, <2>1, <2>2, TaskStepTypes DEF TaskFails, martVars
<1>8. CASE CheckFreshness(r)
  <2>1. "dbt_source_freshness" \in DagOf(r).node /\ "dbt_source_freshness" # Mapped(r)
    BY <1>2, <1>8 DEF CheckFreshness, Ready, MappedTasks
  <2>2. PICK s \in TaskState : Becomes(r, "dbt_source_freshness", s)
    BY <1>8 DEF CheckFreshness, TaskState
  <2>3. QED
    BY <1>0, <1>8, <2>1, <2>2, TaskStepTypes DEF CheckFreshness, Ready, martVars, boundVars
<1>9. CASE BuildHourly(r)
  <2>1. hourly' \in [Part -> Version] /\ base' \in [Run -> SUBSET (Part \X Version)]
    BY <1>0, <1>9 DEF BuildHourly, Refreshed
  <2>2. "hourly" \in TaskState
    BY DEF TaskState
  <2>3. QED
    BY <1>0, <1>2, <1>3, <1>9, <2>1, <2>2, TaskStepTypes DEF BuildHourly, Ready, boundVars
<1>10. CASE BuildDaily(r)
  <2>1. daily' \in [Part -> Version] /\ "daily" \in TaskState
    BY <1>0, <1>10 DEF BuildDaily, Refreshed, TaskState
  <2>2. QED
    BY <1>0, <1>2, <1>3, <1>10, <2>1, TaskStepTypes DEF BuildDaily, boundVars
<1>11. CASE BuildDies(r)
  <2>1. run[r] # "none" /\ faults' \in 0 .. MaxFaults
    BY <1>0, <1>11 DEF BuildDies, Fault
  <2>2. hurt' \subseteq Run \X (DailyDag.node \cup BackfillDag.node)
    BY <1>0, <1>1, <1>2, <1>11 DEF BuildDies
  <2>3. tries' \in [Run -> 0 .. Tries - 1] /\ \E s \in {"none", "failed"} : Becomes(r, Build(r), s)
    BY <1>2, <1>3, <1>11, <2>1, BuildTypes DEF BuildDies
  <2>4. PICK s \in TaskState : Becomes(r, Build(r), s)
    BY <2>3 DEF TaskState
  <2>5. QED
    BY <1>0, <1>2, <1>3, <1>11, <2>1, <2>2, <2>3, <2>4, TaskStepTypes DEF BuildDies, martVars
<1>12. QED
  BY <1>4, <1>5, <1>6, <1>7, <1>8, <1>9, <1>10, <1>11

----------------------------------------------------------------------------
\* A run ends.
LEMMA TypeEndRun == ASSUME NEW r \in Run, TypeInv, EndRun(r) PROVE TypeInv'
<1>1. Clocks'
  BY DEF EndRun, TypeInv, Clocks, timeVars, rawVars, boundVars, RunState
<1>2. Contents' /\ Known'
  BY DEF EndRun, TypeInv, Contents, Known, timeVars, rawVars, martVars
<1>3. Tasks' /\ Items' /\ Expanded'
  BY DEF EndRun, TypeInv, Tasks, Items, Expanded, timeVars, rawVars, Work
<1>4. Begun'
  <2>1. \A q \in Run : run'[q] = "none" => run[q] = "none"
    BY DEF EndRun, TypeInv, Clocks
  <2>2. Backfill \in Run /\ (run'[Backfill] # "none" => run[Backfill] # "none")
    BY DEF EndRun, TypeInv, Clocks, Run
  <2>3. QED
    BY <2>1, <2>2 DEF EndRun, TypeInv, Begun
<1>5. QED
  BY <1>1, <1>2, <1>3, <1>4 DEF TypeInv

\* A failed run is cleared: work items that failed wait again.
LEMMA TypeClear == ASSUME NEW r \in Run, TypeInv, Clear(r) PROVE TypeInv'
<1>1. Clocks'
  <2>1. clears' \in 0 .. MaxClears
    <3>1. MaxClears \in Nat
      BY PipelineAssumption
    <3>2. clears \in 0 .. MaxClears /\ clears < MaxClears /\ clears' = clears + 1
      BY DEF Clear, TypeInv, Clocks
    <3>3. QED
      BY <3>1, <3>2
  <2>2. run' \in [Run -> RunState]
    BY DEF Clear, TypeInv, Clocks, RunState
  <2>3. QED
    BY <2>1, <2>2 DEF Clear, TypeInv, Clocks, timeVars, rawVars
<1>2. Contents' /\ Known'
  BY DEF Clear, TypeInv, Contents, Known, timeVars, rawVars, martVars
<1>3. DOMAIN ti' = Run /\ DOMAIN item' = Run
  BY DEF Clear, TypeInv, Tasks, Items
<1>4. ti'[r] = [t \in DagOf(r).node |->
                  IF ti[r][t] \in {"failed", "upstream_failed"} THEN "none" ELSE ti[r][t]]
  BY DEF Clear, TypeInv, Tasks
<1>5. item'[r] = [p \in DOMAIN item[r] |->
                   IF item[r][p] = "failed" THEN "todo" ELSE item[r][p]]
  BY DEF Clear, TypeInv, Items
<1>6. \A q \in Run \ {r} : ti'[q] = ti[q] /\ item'[q] = item[q]
  BY DEF Clear, TypeInv, Tasks, Items
<1>7. Tasks'
  BY <1>3, <1>4, <1>6 DEF TypeInv, Tasks, TaskState
<1>8. Items'
  <2>1. \A q \in Run :
          /\ item'[q] \in [DOMAIN item'[q] -> ItemState] /\ got[q] \in [DOMAIN item'[q] -> Version]
          /\ \A p \in DOMAIN item'[q] : item'[q][p] # "todo" => item'[q][p] = item[q][p]
    BY <1>5, <1>6 DEF TypeInv, Items, ItemState
  <2>2. \A q \in Run : DOMAIN item'[q] = DOMAIN item[q]
    BY <1>5, <1>6
  <2>3. QED
    BY <1>3, <2>1, <2>2 DEF Clear, TypeInv, Items, timeVars, rawVars
<1>9. Expanded'
  <2>1. \A q \in Run : DOMAIN item'[q] = DOMAIN item[q]
    BY <1>5, <1>6
  <2>2. \A q \in Run : ti'[q][Mapped(q)] = "success" => ti[q][Mapped(q)] = "success"
    BY <1>4, <1>6, TasksOf
  <2>3. QED
    BY <2>1, <2>2 DEF Clear, TypeInv, Expanded, Work
<1>10. Begun'
  <2>1. run' = [run EXCEPT ![r] = "running"] /\ run \in [Run -> RunState]
        /\ run[r] = "failed" /\ plan' = plan
    BY DEF Clear, TypeInv, Clocks
  <2>2. \A q \in Run : run'[q] = "none" => run[q] = "none" /\ q # r
    BY <2>1
  <2>3. Backfill \in Run /\ (run'[Backfill] # "none" => run[Backfill] # "none")
    BY <2>1 DEF Run
  <2>4. QED
    BY <1>6, <2>1, <2>2, <2>3 DEF TypeInv, Begun
<1>11. QED
  BY <1>1, <1>2, <1>7, <1>8, <1>9, <1>10 DEF TypeInv

\* The mapped task is expanded.
LEMMA TypeExpand == ASSUME NEW r \in Run, TypeInv, Expand(r) PROVE TypeInv'
<1>1. Mapped(r) \in DagOf(r).node /\ "success" \in TaskState
  BY TasksOf DEF TaskState
<1>2. Tasks' /\ \A q \in Run : \A u \in DagOf(q).node :
                  <<q, u>> # <<r, Mapped(r)>> => ti'[q][u] = ti[q][u]
  BY <1>1, TaskStep DEF Expand, TypeInv
<1>3. Clocks' /\ Contents' /\ Known'
  BY DEF Expand, TypeInv, Clocks, Contents, Known, timeVars, rawVars, martVars, runVars, boundVars
<1>4. /\ DOMAIN item' = Run /\ DOMAIN got' = Run
      /\ item'[r] = [p \in Work(r) |-> "todo"] /\ got'[r] = [p \in Work(r) |-> 0]
      /\ \A q \in Run \ {r} : item'[q] = item[q] /\ got'[q] = got[q]
  BY DEF Expand, TypeInv, Items
<1>5. Items'
  BY <1>4, Values DEF Expand, TypeInv, Items, ItemState, timeVars, rawVars
<1>6. Expanded'
  <2> SUFFICES ASSUME NEW q \in Run, ti'[q][Mapped(q)] = "success"
               PROVE  DOMAIN item'[q] = Work(q)
    BY DEF Expanded, Expand, runVars, Work
  <2>1. CASE q = r
    BY <1>4, <2>1
  <2>2. CASE q # r
    BY <1>2, <1>4, <2>2, TasksOf DEF TypeInv, Expanded
  <2>3. QED
    BY <2>1, <2>2
<1>7. Begun'
  BY <1>2 DEF Expand, Ready, TypeInv, Begun, runVars
<1>8. QED
  BY <1>2, <1>3, <1>5, <1>6, <1>7 DEF TypeInv

----------------------------------------------------------------------------
\* A work item changes its state, and perhaps RAW with it.
LEMMA ItemStepTypes ==
  ASSUME NEW r \in Run, NEW p \in Part, NEW s \in ItemState, TypeInv,
         p \in DOMAIN item[r], item' = [item EXCEPT ![r][p] = s],
         DOMAIN got' = Run, \A q \in Run \ {r} : got'[q] = got[q],
         got'[r] \in [DOMAIN item[r] -> Version],
         \A q \in DOMAIN item[r] : q # p => got'[r][q] = got[r][q],
         s = "loaded" => <<p, got'[r][p]>> \in loaded',
         s = "running" => 1 <= got'[r][p] /\ got'[r][p] <= served[p],
         loaded \subseteq loaded', UNCHANGED <<timeVars, ti, runVars>>
  PROVE  Tasks' /\ Items' /\ Expanded' /\ Begun'
<1>1. /\ DOMAIN item' = Run /\ item'[r] = [item[r] EXCEPT ![p] = s]
      /\ \A q \in Run \ {r} : item'[q] = item[q]
  BY DEF TypeInv, Items
<1>2. item'[r] \in [DOMAIN item[r] -> ItemState] /\ DOMAIN item'[r] = DOMAIN item[r]
  BY <1>1 DEF TypeInv, Items
<1>3. \A q \in DOMAIN item[r] : item'[r][q] = IF q = p THEN s ELSE item[r][q]
  BY <1>1
<1>4. \A q \in DOMAIN item[r] :
        /\ item'[r][q] # "todo" => q \in Part
        /\ item'[r][q] = "loaded" => <<q, got'[r][q]>> \in loaded'
        /\ item'[r][q] = "running" => 1 <= got'[r][q] /\ got'[r][q] <= served[q]
  BY <1>3 DEF TypeInv, Items
<1>5. \A q \in Run \ {r} : \A u \in DOMAIN item'[q] :
        /\ item'[q][u] # "todo" => u \in Part
        /\ item'[q][u] = "loaded" => <<u, got'[q][u]>> \in loaded'
        /\ item'[q][u] = "running" => 1 <= got'[q][u] /\ got'[q][u] <= served[u]
  BY <1>1 DEF TypeInv, Items
<1>6. \A q \in Run \ {r} :
        item'[q] \in [DOMAIN item'[q] -> ItemState] /\ got'[q] \in [DOMAIN item'[q] -> Version]
  BY <1>1 DEF TypeInv, Items
<1>7. Items'
  BY <1>1, <1>2, <1>4, <1>5, <1>6 DEF Items, timeVars
<1>8. Expanded'
  <2>1. \A q \in Run : DOMAIN item'[q] = DOMAIN item[q]
    BY <1>1, <1>2
  <2>2. QED
    BY <2>1 DEF TypeInv, Expanded, runVars, Work
<1>9. QED
  BY <1>7, <1>8 DEF TypeInv, Tasks, Begun, runVars

\* An ingest task fetches, is skipped or fails.
LEMMA TypeStart == ASSUME NEW r \in Run, NEW p \in Part, TypeInv, Start(r, p) PROVE TypeInv'
<1> DEFINE late == p[2] > today - SourceLagDays
           s == IF late \/ <<p, served[p]>> \in loaded THEN "skipped"
                ELSE IF served[p] = 0 THEN "failed" ELSE "running"
           v == IF late THEN 0 ELSE served[p]
<1>1. p \in DOMAIN item[r] /\ item' = [item EXCEPT ![r][p] = s] /\ got' = [got EXCEPT ![r][p] = v]
  BY DEF Start
<1>2. s \in ItemState
  BY DEF ItemState
<1>3. v \in Version /\ v \in Nat
  BY Values DEF TypeInv, Contents
<1>4. s = "running" => 1 <= v /\ v <= served[p]
  <2>1. served[p] \in Nat
    BY Values DEF TypeInv, Contents
  <2>2. QED
    BY <2>1
<1>5. s # "loaded"
  OBVIOUS
<1> HIDE DEF s, v
<1>6. /\ DOMAIN got' = Run /\ \A q \in Run \ {r} : got'[q] = got[q]
      /\ got'[r] = [got[r] EXCEPT ![p] = v] /\ got[r] \in [DOMAIN item[r] -> Version]
  BY <1>1 DEF TypeInv, Items
<1>7. /\ got'[r] \in [DOMAIN item[r] -> Version] /\ got'[r][p] = v
      /\ \A q \in DOMAIN item[r] : q # p => got'[r][q] = got[r][q]
  BY <1>1, <1>3, <1>6
<1>8. Tasks' /\ Items' /\ Expanded' /\ Begun'
  <2>1. loaded \subseteq loaded' /\ UNCHANGED <<timeVars, ti, runVars>>
    BY DEF Start, rawVars
  <2>2. s = "running" => 1 <= got'[r][p] /\ got'[r][p] <= served[p]
    BY <1>4, <1>7
  <2>3. s = "loaded" => <<p, got'[r][p]>> \in loaded'
    BY <1>5
  <2>4. QED
    <3>1. PICK z \in ItemState : z = s
      BY <1>2
    <3>2. /\ p \in DOMAIN item[r] /\ item' = [item EXCEPT ![r][p] = z]
          /\ DOMAIN got' = Run /\ got'[r] \in [DOMAIN item[r] -> Version]
          /\ \A q \in Run \ {r} : got'[q] = got[q]
          /\ \A q \in DOMAIN item[r] : q # p => got'[r][q] = got[r][q]
          /\ z = "running" => 1 <= got'[r][p] /\ got'[r][p] <= served[p]
          /\ z = "loaded" => <<p, got'[r][p]>> \in loaded'
      BY <1>1, <1>6, <1>7, <2>2, <2>3, <3>1
    <3>3. QED
      BY <2>1, <3>2, ItemStepTypes
<1>9. Clocks' /\ Contents' /\ Known'
  BY DEF Start, TypeInv, Clocks, Contents, Known, timeVars, rawVars, martVars, runVars, boundVars
<1>10. QED
  BY <1>8, <1>9 DEF TypeInv

\* An ingest task loads.
LEMMA TypeLoad == ASSUME NEW r \in Run, NEW p \in Part, TypeInv, Load(r, p) PROVE TypeInv'
<1>1. p \in DOMAIN item[r] /\ item[r][p] = "running" /\ item' = [item EXCEPT ![r][p] = "loaded"]
  BY DEF Load
<1>2. /\ got[r][p] \in Version /\ 1 <= got[r][p] /\ got[r][p] <= served[p]
      /\ DOMAIN got = Run /\ got[r] \in [DOMAIN item[r] -> Version]
  BY <1>1 DEF TypeInv, Items
<1>3. /\ raw' \in [Part -> Version] /\ written' \in 0 .. Horizon
      /\ reverted' \subseteq {q \in Part : served[q] > 1}
      /\ \A q \in Part : raw'[q] <= served[q]
  BY <1>2, LandTypes DEF Load, timeVars
<1>4. Tasks' /\ Items' /\ Expanded' /\ Begun'
  BY <1>1, <1>2, ItemStepTypes DEF Load, ItemState
<1>5. Clocks'
  BY <1>3 DEF Load, TypeInv, Clocks, timeVars, runVars, boundVars
<1>6. Contents'
  BY <1>2, <1>3 DEF Load, TypeInv, Contents, timeVars, martVars
<1>7. Known'
  BY <1>3 DEF Load, TypeInv, Known, timeVars
<1>8. QED
  BY <1>4, <1>5, <1>6, <1>7 DEF TypeInv

\* An attempt of an ingest task is lost.
LEMMA TypeLose == ASSUME NEW r \in Run, NEW p \in Part, TypeInv, Lose(r, p) PROVE TypeInv'
<1>1. PICK s \in {"todo", "failed"} : item' = [item EXCEPT ![r][p] = s]
  BY DEF Lose
<1>2. p \in DOMAIN item[r] /\ item[r][p] = "running"
  BY DEF Lose
<1>3. /\ got[r][p] \in Version /\ 1 <= got[r][p] /\ got[r][p] <= served[p]
      /\ DOMAIN got = Run /\ got[r] \in [DOMAIN item[r] -> Version]
  BY <1>2 DEF TypeInv, Items
<1>4. /\ raw' \in [Part -> Version] /\ written' \in 0 .. Horizon
      /\ reverted' \subseteq {q \in Part : served[q] > 1}
      /\ \A q \in Part : raw'[q] <= served[q]
  <2>1. CASE Land(p, got[r][p])
    BY <1>3, <2>1, LandTypes DEF Lose, timeVars
  <2>2. CASE UNCHANGED <<raw, written, reverted>>
    BY <2>2 DEF TypeInv, Contents, Clocks, Known
  <2>3. QED
    BY <2>1, <2>2 DEF Lose
<1>5. orphans' \subseteq orphans \cup {<<p, got[r][p]>>}
  BY DEF Lose
<1>6. Tasks' /\ Items' /\ Expanded' /\ Begun'
  BY <1>1, <1>2, <1>3, ItemStepTypes DEF Lose, ItemState
<1>7. hurt' \subseteq Run \X (DailyDag.node \cup BackfillDag.node)
  BY TasksOf DEF Lose, TypeInv, Clocks, DagOf
<1>8. Clocks'
  <2>1. faults' \in 0 .. MaxFaults
    <3>1. MaxFaults \in Nat
      BY PipelineAssumption
    <3>2. faults \in 0 .. MaxFaults /\ faults < MaxFaults /\ faults' = faults + 1
      BY DEF Lose, Fault, TypeInv, Clocks
    <3>3. QED
      BY <3>1, <3>2
  <2>2. QED
    BY <1>4, <1>7, <2>1 DEF Lose, TypeInv, Clocks, timeVars, runVars
<1>9. Contents'
  BY <1>3, <1>4, <1>5 DEF Lose, TypeInv, Contents, timeVars, martVars
<1>10. Known'
  BY <1>3, <1>4, <1>5 DEF Lose, TypeInv, Known, timeVars
<1>11. QED
  BY <1>6, <1>8, <1>9, <1>10 DEF TypeInv

\* An abandoned MERGE lands.
LEMMA TypeOrphan == ASSUME NEW o \in orphans, TypeInv, LandOrphan(o) PROVE TypeInv'
<1>1. /\ o[1] \in Part /\ o[2] \in Version /\ 1 <= o[2] /\ o[2] <= served[o[1]]
  BY DEF TypeInv, Contents, Known
<1>2. /\ raw' \in [Part -> Version] /\ written' \in 0 .. Horizon
      /\ reverted' \subseteq {q \in Part : served[q] > 1}
      /\ \A q \in Part : raw'[q] <= served[q]
  BY <1>1, LandTypes DEF LandOrphan, timeVars
<1>3. Clocks'
  BY <1>2 DEF LandOrphan, TypeInv, Clocks, timeVars, runVars, boundVars
<1>4. Contents' /\ Known'
  BY <1>2 DEF LandOrphan, TypeInv, Contents, Known, timeVars, martVars
<1>5. Tasks' /\ Items' /\ Expanded' /\ Begun'
  BY DEF LandOrphan, TypeInv, Tasks, Items, Expanded, Begun, timeVars, runVars, Work
<1>6. QED
  BY <1>3, <1>4, <1>5 DEF TypeInv

----------------------------------------------------------------------------
\* What a step of a run may be.
LEMMA GoesWays ==
  ASSUME NEW r \in Run, Goes(r)
  PROVE  \/ \E t \in DagOf(r).node : \/ RunTask(r, t) \/ UpstreamFailed(r, t)
                                    \/ TestMarts(r, t) \/ TaskFails(r, t)
         \/ \E p \in Part : Start(r, p) \/ Load(r, p) \/ Lose(r, p)
         \/ Expand(r) \/ CheckFreshness(r) \/ BuildHourly(r) \/ BuildDaily(r)
         \/ BuildDies(r) \/ EndRun(r) \/ Clear(r)
BY TasksOf DEF Goes, Schedules, Loads, Builds

\* Every step keeps the parts of TypeOK.
LEMMA TypeStep == TypeInv /\ [Next]_vars => TypeInv'
<1> SUFFICES ASSUME TypeInv, [Next]_vars PROVE TypeInv'
  OBVIOUS
<1>1. CASE UNCHANGED vars
  BY <1>1 DEF vars, timeVars, rawVars, martVars, runVars, boundVars, TypeInv, Clocks, Contents,
              Tasks, Items, Expanded, Known, Begun, Work
<1>2. CASE Tick
  BY <1>2, TypeTick
<1>3. CASE (\E d \in Day : CreateRun(d)) \/ \E p \in Plans : TriggerBackfill(p)
  BY <1>3, TypeTriggers
<1>4. CASE \E p \in Restated : Restate(p)
  BY <1>4, TypeRestate, PipelineAssumption
<1>5. CASE \E o \in orphans : LandOrphan(o)
  BY <1>5, TypeOrphan
<1>6. ASSUME NEW r \in Run, Goes(r) PROVE TypeInv'
  <2>1. CASE EndRun(r) \/ Clear(r) \/ Expand(r)
    BY <2>1, TypeEndRun, TypeClear, TypeExpand
  <2>2. CASE \E p \in Part : Start(r, p) \/ Load(r, p) \/ Lose(r, p)
    BY <2>2, TypeStart, TypeLoad, TypeLose
  <2>3. CASE \/ \E t \in DagOf(r).node : \/ RunTask(r, t) \/ UpstreamFailed(r, t)
                                         \/ TestMarts(r, t) \/ TaskFails(r, t)
             \/ CheckFreshness(r) \/ BuildHourly(r) \/ BuildDaily(r) \/ BuildDies(r)
    BY <2>3, TypeTaskActions
  <2>4. QED
    BY <1>6, <2>1, <2>2, <2>3, GoesWays
<1>7. QED
  BY <1>1, <1>2, <1>3, <1>4, <1>5, <1>6 DEF Next, Rest

\* TypeOK, for any number of cities, days, versions, retries, slots and faults: among
\* others, the retries of a dbt task (LoseTry) stay within those configured, a mapped
\* task's items are the expansion of what preflight or plan returned, an item that
\* says loaded has its version in RAW's record, and RAW goes back only where the
\* producer restated.
THEOREM PipelineTypes == Spec => []TypeOK
<1>1. Spec => []TypeInv
  BY TypeInit, TypeStep, PTL DEF Spec
<1>2. QED
  BY <1>1, TypeParts, PTL

----------------------------------------------------------------------------
(* GreenRunPublishes                                                        *)

Done == {"loaded", "skipped"}
BuildStates == {"hourly", "daily", "success"}

\* RAW is no older than what was loaded, and the marts follow it in order, except
\* where RAW went back.
Forward ==
  /\ \A l \in loaded : 1 <= l[2] /\ (l[1] \in reverted \/ l[2] <= raw[l[1]])
  /\ \A p \in Part : /\ daily[p] # 0 => hourly[p] # 0
                     /\ p \in reverted \/ (daily[p] <= hourly[p] /\ hourly[p] <= raw[p])

\* A task that runs or has succeeded has its predecessors behind it.
Chain ==
  \A r \in Run : \A t \in DagOf(r).node :
    ti[r][t] \in BuildStates => \A u \in Predecessors(DagOf(r), t) : Succeeded(r, u)

\* A work item that ended well had nothing to load, or its version is recorded.
Counted ==
  \A r \in Run : \A p \in DOMAIN item[r] :
    item[r][p] \in Done => got[r][p] = 0 \/ <<p, got[r][p]>> \in loaded

\* What the build of r has published of what was loaded when it began: nothing of it
\* is lost to later builds, of this run or another.
BuiltOf(r) ==
  /\ base[r] \subseteq loaded
  /\ ti[r][Build(r)] \in BuildStates =>
       /\ \A p \in DOMAIN item[r] : got[r][p] = 0 \/ <<p, got[r][p]>> \in base[r]
       /\ \A l \in base[r] : Excepted(r, l[1]) \/ l[2] <= hourly[l[1]]
  /\ ti[r][Build(r)] \in {"daily", "success"} =>
       \A l \in base[r] : Excepted(r, l[1]) \/ l[2] <= daily[l[1]]

Built == \A r \in Run : BuiltOf(r)

PublishInv == TypeInv /\ Forward /\ Chain /\ Counted /\ Built

\* A set of days that is not empty has a newest one, found as the least distance
\* from LastDay.
LEMMA DaysHaveMax ==
  ASSUME NEW S, S \subseteq Day, S # {} PROVE \E x \in S : \A y \in S : x >= y
<1> DEFINE Less == {ss \in Nat \X Nat : ss[1] < ss[2]}
           Back == {n \in Nat : LastDay - n \in S}
<1>1. IsWellFoundedOn(Less, Nat)
  BY NatLessThanWellFounded DEF OpToRel
<1>2. LastDay \in Nat
  BY PipelineAssumption
<1>3. Back # {}
  <2>1. PICK x \in S : TRUE
    OBVIOUS
  <2>2. LastDay - x \in Nat /\ LastDay - (LastDay - x) = x
    BY <1>2, <2>1 DEF Day
  <2>3. LastDay - x \in Back
    BY <2>2
  <2>4. QED
    BY <2>3
<1>4. PICK m \in Back : \A k \in Back : ~(<<k, m>> \in Less)
  <2> HIDE DEF Less
  <2>1. Back \subseteq Nat
    OBVIOUS
  <2> HIDE DEF Back
  <2>2. QED
    BY <1>1, <1>3, <2>1, WFMin
<1>5. LastDay - m \in S /\ m \in Nat
  OBVIOUS
<1>6. ASSUME NEW y \in S PROVE LastDay - m >= y
  <2>1. y \in Nat /\ LastDay - y \in Nat /\ LastDay - (LastDay - y) = y
    BY <1>2 DEF Day
  <2>2. LastDay - y \in Back
    BY <2>1
  <2>3. ~(LastDay - y < m)
    BY <1>4, <1>5, <2>1, <2>2
  <2>4. QED
    BY <1>2, <1>5, <2>1, <2>3
<1>7. QED
  BY <1>5, <1>6

\* The newest day of a mart is one it holds, or the mart is empty.
LEMMA NewestIsHeld ==
  ASSUME NEW mart \in [Part -> Version]
  PROVE  Newest(mart) = 0 \/ \E q \in Part : mart[q] # 0 /\ q[2] = Newest(mart)
<1> DEFINE S == {d \in Day : \E c \in City : mart[<<c, d>>] # 0}
<1>1. \E x \in {0} \cup S : \A y \in {0} \cup S : x >= y
  <2>1. CASE S = {}
    BY <2>1
  <2>2. CASE S # {}
    <3>1. PICK x \in S : \A y \in S : x >= y
      BY <2>2, DaysHaveMax
    <3>2. x \in Nat
      BY Values
    <3>3. QED
      BY <3>1, <3>2
  <2>3. QED
    BY <2>1, <2>2
<1>2. Newest(mart) \in {0} \cup S
  BY <1>1 DEF Newest, Max
<1>3. ASSUME NEW d \in Day, NEW c \in City PROVE <<c, d>> \in Part /\ <<c, d>>[2] = d
  BY DEF Part
<1>4. CASE Newest(mart) \in S
  <2>1. PICK c \in City : mart[<<c, Newest(mart)>>] # 0
    BY <1>4
  <2>2. PICK d \in Day : d = Newest(mart)
    BY <1>4
  <2>3. QED
    BY <1>3, <2>1, <2>2
<1>5. QED
  BY <1>2, <1>4

\* Outside the window means behind a day the mart holds by more than its width.
LEMMA OutOfWindow ==
  ASSUME NEW mart \in [Part -> Version], NEW d \in Day, NEW w \in Int, ~InWindow(mart, d, w)
  PROVE  \E q \in Part : mart[q] # 0 /\ ~(q[2] - d <= w)
<1>1. PICK q \in Part : mart[q] # 0 /\ q[2] = Newest(mart)
  BY NewestIsHeld DEF InWindow
<1>2. q[2] \in Nat /\ d \in Nat
  BY Values
<1>3. QED
  BY <1>1, <1>2 DEF InWindow

\* A run that exists has a window.
LEMMA WindowIsInt ==
  ASSUME NEW r \in Run, TypeInv, run[r] # "none" PROVE WindowOf(r) \in Int
BY PipelineAssumption DEF WindowOf, TypeInv, Begun, Run, Day

----------------------------------------------------------------------------
\* What no step does: forget a load or a revert, empty a partition of the marts, or
\* take one back to an older version unless RAW went back.
MartsOnward ==
  /\ loaded \subseteq loaded' /\ reverted \subseteq reverted'
  /\ \A p \in Part : hourly[p] # 0 => hourly'[p] # 0
  /\ \A p \in Part \ reverted' : hourly[p] <= hourly'[p] /\ daily[p] <= daily'[p]

\* Steps that leave RAW and the marts alone.
LEMMA AtRest ==
  ASSUME TypeInv, Forward, UNCHANGED <<raw, loaded, reverted, hourly, daily>>
  PROVE  Forward' /\ MartsOnward
<1>1. \A p \in Part : hourly[p] \in Nat /\ daily[p] \in Nat
  BY Values DEF TypeInv, Contents
<1>2. QED
  BY <1>1 DEF Forward, MartsOnward

\* RAW takes a version: an older one marks the partition as reverted.
LEMMA LandOnward ==
  ASSUME TypeInv, Forward, NEW p \in Part, NEW v \in Version, 1 <= v, Land(p, v),
         loaded' = loaded \/ loaded' = loaded \cup {<<p, v>>}, UNCHANGED <<hourly, daily>>
  PROVE  Forward' /\ MartsOnward
<1>1. \A q \in Part : hourly[q] \in Nat /\ daily[q] \in Nat /\ raw[q] \in Nat
  BY Values DEF TypeInv, Contents
<1>2. v \in Nat /\ \A q \in Part : raw'[q] = IF q = p THEN v ELSE raw[q]
  BY Values DEF Land, TypeInv, Contents
<1>3. reverted \subseteq reverted' /\ (p \in reverted' \/ raw[p] <= v)
  BY <1>1, <1>2 DEF Land
<1>4. \A q \in Part : q \in reverted' \/ (q \notin reverted /\ raw[q] <= raw'[q])
  BY <1>1, <1>2, <1>3
<1>5. MartsOnward
  BY <1>1, <1>3 DEF MartsOnward
<1>6. ASSUME NEW l \in loaded' PROVE 1 <= l[2] /\ (l[1] \in reverted' \/ l[2] <= raw'[l[1]])
  <2>1. CASE l \in loaded
    <3>1. PICK q \in Part, u \in Nat : q = l[1] /\ u = l[2]
      BY <2>1, Values DEF TypeInv, Contents
    <3>2. 1 <= u /\ (q \in reverted \/ u <= raw[q])
      BY <2>1, <3>1 DEF Forward
    <3>3. q \in reverted' \/ u <= raw'[q]
      BY <1>1, <1>2, <1>4, <3>1, <3>2
    <3>4. QED
      BY <3>1, <3>2, <3>3
  <2>2. CASE l = <<p, v>>
    BY <1>2, <2>2
  <2>3. QED
    BY <2>1, <2>2
<1>7. ASSUME NEW q \in Part
      PROVE  /\ daily'[q] # 0 => hourly'[q] # 0
             /\ q \in reverted' \/ (daily'[q] <= hourly'[q] /\ hourly'[q] <= raw'[q])
  <2>1. raw[q] \in Nat /\ raw'[q] \in Nat
    BY <1>1, <1>2
  <2>2. QED
    BY <1>1, <1>4, <2>1 DEF Forward
<1>8. QED
  BY <1>5, <1>6, <1>7 DEF Forward

\* The hourly fact is refreshed from a RAW that is not behind it.
LEMMA HourlyOnward ==
  ASSUME TypeInv, Forward, NEW r \in Run, BuildHourly(r) PROVE Forward' /\ MartsOnward
<1>1. /\ hourly' = Refreshed(hourly, raw, WindowOf(r))
      /\ UNCHANGED <<raw, loaded, reverted, daily>>
  BY DEF BuildHourly, rawVars
<1>2. \A q \in Part : /\ hourly[q] \in Nat /\ daily[q] \in Nat /\ raw[q] \in Nat
                      /\ \/ hourly'[q] = hourly[q]
                         \/ raw[q] # 0 /\ hourly'[q] = raw[q]
  BY <1>1, Values DEF Refreshed, TypeInv, Contents
<1>3. QED
  BY <1>1, <1>2 DEF Forward, MartsOnward

\* The daily aggregate is refreshed from an hourly fact that is not behind it.
LEMMA DailyOnward ==
  ASSUME TypeInv, Forward, NEW r \in Run, BuildDaily(r) PROVE Forward' /\ MartsOnward
<1>1. /\ daily' = Refreshed(daily, hourly, WindowOf(r))
      /\ UNCHANGED <<raw, loaded, reverted, hourly>>
  BY DEF BuildDaily, rawVars
<1>2. \A q \in Part : /\ hourly[q] \in Nat /\ daily[q] \in Nat /\ raw[q] \in Nat
                      /\ \/ daily'[q] = daily[q]
                         \/ hourly[q] # 0 /\ daily'[q] = hourly[q]
  BY <1>1, Values DEF Refreshed, TypeInv, Contents
<1>3. QED
  BY <1>1, <1>2 DEF Forward, MartsOnward

\* Every step keeps Forward and moves the marts onward.
LEMMA ForwardStep == TypeInv /\ Forward /\ [Next]_vars => Forward' /\ MartsOnward
<1> SUFFICES ASSUME TypeInv, Forward, [Next]_vars PROVE Forward' /\ MartsOnward
  OBVIOUS
<1>1. CASE UNCHANGED <<rawVars, martVars>>
  BY <1>1, AtRest DEF rawVars, martVars
<1>2. ASSUME NEW o \in orphans, LandOrphan(o) PROVE Forward' /\ MartsOnward
  <2>1. o[1] \in Part /\ o[2] \in Version /\ 1 <= o[2]
    BY DEF TypeInv, Contents, Known
  <2>2. QED
    BY <1>2, <2>1, LandOnward DEF LandOrphan, martVars
<1>3. ASSUME NEW r \in Run, NEW p \in Part, Load(r, p) \/ Lose(r, p)
      PROVE  Forward' /\ MartsOnward
  <2>1. got[r][p] \in Version /\ 1 <= got[r][p]
    BY <1>3 DEF Load, Lose, TypeInv, Items
  <2>2. CASE Land(p, got[r][p])
    BY <1>3, <2>1, <2>2, LandOnward DEF Load, Lose, martVars
  <2>3. CASE UNCHANGED <<raw, written, reverted>> /\ Lose(r, p)
    BY <2>3, AtRest DEF Lose, martVars
  <2>4. QED
    BY <1>3, <2>2, <2>3 DEF Load, Lose
<1>4. ASSUME NEW r \in Run, Goes(r) PROVE Forward' /\ MartsOnward
  <2>1. CASE \E p \in Part : Load(r, p) \/ Lose(r, p)
    BY <1>3, <2>1
  <2>2. CASE BuildHourly(r) \/ BuildDaily(r)
    BY <2>2, HourlyOnward, DailyOnward
  <2>3. CASE \/ \E t \in DagOf(r).node : \/ RunTask(r, t) \/ UpstreamFailed(r, t)
                                         \/ TestMarts(r, t) \/ TaskFails(r, t)
             \/ CheckFreshness(r) \/ BuildDies(r) \/ EndRun(r) \/ Clear(r) \/ Expand(r)
             \/ \E p \in Part : Start(r, p)
    BY <1>1, <2>3 DEF RunTask, UpstreamFailed, TestMarts, TaskFails, CheckFreshness, BuildDies,
                      EndRun, Clear, Expand, Start
  <2>4. QED
    BY <1>4, <2>1, <2>2, <2>3, GoesWays
<1>5. CASE UNCHANGED vars \/ Tick \/ Rest
  BY <1>1, <1>5 DEF vars, Tick, Rest
<1>6. CASE (\E d \in Day : CreateRun(d)) \/ \E p \in Plans : TriggerBackfill(p)
  BY <1>1, <1>6 DEF CreateRun, TriggerBackfill
<1>7. CASE \E p \in Restated : Restate(p)
  BY <1>1, <1>7 DEF Restate
<1>8. QED
  BY <1>2, <1>4, <1>5, <1>6, <1>7 DEF Next

----------------------------------------------------------------------------
\* Success is final, and a task begins only when it is ready.
TaskMoves ==
  \A r \in Run : \A t \in DagOf(r).node :
    /\ ti[r][t] = "success" => ti'[r][t] = "success"
    /\ ti'[r][t] \in BuildStates => ti[r][t] \in BuildStates \/ Ready(r, t)

\* Work items that ended well stay as they are, once there are any.
ItemMoves ==
  \A r \in Run : ti[r][Mapped(r)] = "success" =>
    /\ DOMAIN item'[r] = DOMAIN item[r]
    /\ \A p \in DOMAIN item[r] :
         item[r][p] \in Done => item'[r][p] = item[r][p] /\ got'[r][p] = got[r][p]

\* A step of a task that has not succeeded is such a move.
LEMMA BecomesMoves ==
  ASSUME TypeInv, NEW r \in Run, NEW t \in DagOf(r).node, NEW s \in TaskState, Becomes(r, t, s),
         ti[r][t] # "success", s \in BuildStates => ti[r][t] \in BuildStates \/ Ready(r, t)
  PROVE  TaskMoves
<1>1. /\ ti'[r][t] = s
      /\ \A q \in Run : \A u \in DagOf(q).node : <<q, u>> # <<r, t>> => ti'[q][u] = ti[q][u]
  BY TaskStep DEF TypeInv
<1>2. QED
  BY <1>1 DEF TaskMoves

\* So is a lost attempt.
LEMMA LoseTryMoves ==
  ASSUME TypeInv, NEW r \in Run, NEW t \in DagOf(r).node, LoseTry(r, t), ti[r][t] # "success"
  PROVE  TaskMoves
<1>1. PICK s \in {"none", "failed"} : Becomes(r, t, s)
  BY DEF LoseTry
<1>2. QED
  BY <1>1, BecomesMoves DEF TaskState, BuildStates

\* Every step moves tasks like this.
LEMMA TasksOnward == TypeInv /\ [Next]_vars => TaskMoves
<1> SUFFICES ASSUME TypeInv, [Next]_vars PROVE TaskMoves
  OBVIOUS
<1>1. CASE UNCHANGED ti
  BY <1>1 DEF TaskMoves
<1>2. ASSUME NEW r \in Run, NEW t \in DagOf(r).node,
             RunTask(r, t) \/ UpstreamFailed(r, t) \/ TestMarts(r, t) \/ TaskFails(r, t)
      PROVE  TaskMoves
  <2>1. ti[r][t] # "success"
    BY <1>2 DEF RunTask, UpstreamFailed, TestMarts, TaskFails, Ready
  <2>2. CASE RunTask(r, t) \/ UpstreamFailed(r, t) \/ TaskFails(r, t)
    <3>1. PICK s \in {"success", "failed", "upstream_failed"} :
            Becomes(r, t, s) /\ (s = "success" => Ready(r, t))
      BY <2>2 DEF RunTask, UpstreamFailed, TaskFails
    <3>2. QED
      BY <2>1, <3>1, BecomesMoves DEF TaskState, BuildStates
  <2>3. CASE TestMarts(r, t)
    <3>1. ti[r][t] \in BuildStates \/ Ready(r, t)
      BY <2>3 DEF TestMarts, BuildStates
    <3>2. CASE Becomes(r, t, "success")
      BY <2>1, <3>1, <3>2, BecomesMoves DEF TaskState
    <3>3. CASE LoseTry(r, t)
      BY <2>1, <3>3, LoseTryMoves
    <3>4. QED
      BY <2>3, <3>2, <3>3 DEF TestMarts
  <2>4. QED
    BY <1>2, <2>2, <2>3
<1>3. ASSUME NEW r \in Run, CheckFreshness(r) \/ BuildHourly(r) \/ BuildDaily(r) \/ BuildDies(r)
                            \/ Expand(r)
      PROVE  TaskMoves
  <2>1. Build(r) \in DagOf(r).node /\ Mapped(r) \in DagOf(r).node
    BY TasksOf
  <2>2. CASE CheckFreshness(r)
    <3>1. PICK s \in {"success", "failed"} : Becomes(r, "dbt_source_freshness", s)
      BY <2>2 DEF CheckFreshness
    <3>2. QED
      BY <2>2, <3>1, BecomesMoves DEF CheckFreshness, Ready, TaskState
  <2>3. CASE BuildHourly(r)
    BY <2>1, <2>3, BecomesMoves DEF BuildHourly, Ready, TaskState
  <2>4. CASE BuildDaily(r)
    BY <2>1, <2>4, BecomesMoves DEF BuildDaily, TaskState, BuildStates
  <2>5. CASE BuildDies(r)
    BY <2>1, <2>5, LoseTryMoves DEF BuildDies
  <2>6. CASE Expand(r)
    BY <2>1, <2>6, BecomesMoves DEF Expand, Ready, TaskState
  <2>7. QED
    BY <1>3, <2>2, <2>3, <2>4, <2>5, <2>6
<1>4. ASSUME NEW r \in Run, Clear(r) PROVE TaskMoves
  <2>1. ti'[r] = [t \in DagOf(r).node |->
                    IF ti[r][t] \in {"failed", "upstream_failed"} THEN "none" ELSE ti[r][t]]
    BY <1>4 DEF Clear, TypeInv, Tasks
  <2>2. \A q \in Run \ {r} : ti'[q] = ti[q]
    BY <1>4 DEF Clear, TypeInv, Tasks
  <2>3. QED
    BY <2>1, <2>2 DEF TaskMoves, BuildStates
<1>5. ASSUME NEW r \in Run, Goes(r) PROVE TaskMoves
  <2>1. CASE EndRun(r) \/ \E p \in Part : Start(r, p) \/ Load(r, p) \/ Lose(r, p)
    BY <1>1, <2>1 DEF EndRun, Start, Load, Lose
  <2>2. QED
    BY <1>2, <1>3, <1>4, <1>5, <2>1, GoesWays
<1>6. CASE UNCHANGED vars \/ Tick \/ Rest
  BY <1>1, <1>6 DEF vars, Tick, Rest
<1>7. CASE (\E d \in Day : CreateRun(d)) \/ \E p \in Plans : TriggerBackfill(p)
  BY <1>1, <1>7 DEF CreateRun, TriggerBackfill
<1>8. CASE (\E p \in Restated : Restate(p)) \/ \E o \in orphans : LandOrphan(o)
  BY <1>1, <1>8 DEF Restate, LandOrphan
<1>9. QED
  BY <1>5, <1>6, <1>7, <1>8 DEF Next

----------------------------------------------------------------------------
\* A step of an item that is not done is such a move.
LEMMA ItemStepMoves ==
  ASSUME TypeInv, Counted, loaded \subseteq loaded', NEW r \in Run, NEW p \in DOMAIN item[r],
         NEW s, item' = [item EXCEPT ![r][p] = s], item[r][p] \notin Done,
         got' = got \/ \E v : got' = [got EXCEPT ![r][p] = v],
         s \in Done => got'[r][p] = 0 \/ <<p, got'[r][p]>> \in loaded'
  PROVE  ItemMoves /\ Counted'
<1>1. /\ item'[r] = [item[r] EXCEPT ![p] = s] /\ DOMAIN item'[r] = DOMAIN item[r]
      /\ \A q \in Run \ {r} : item'[q] = item[q] /\ got'[q] = got[q]
  BY DEF TypeInv, Items
<1>2. \A q \in DOMAIN item[r] : q # p => item'[r][q] = item[r][q] /\ got'[r][q] = got[r][q]
  BY <1>1 DEF TypeInv, Items
<1>3. ItemMoves
  BY <1>1, <1>2 DEF ItemMoves
<1>4. item'[r][p] = s
  BY <1>1
<1>5. Counted'
  BY <1>1, <1>2, <1>4 DEF Counted
<1>6. QED
  BY <1>3, <1>5

\* Every step moves items like this, and what ends was recorded as loaded.
LEMMA ItemsOnward ==
  TypeInv /\ Counted /\ [Next]_vars /\ loaded \subseteq loaded' => ItemMoves /\ Counted'
<1> SUFFICES ASSUME TypeInv, Counted, [Next]_vars, loaded \subseteq loaded'
             PROVE  ItemMoves /\ Counted'
  OBVIOUS
<1>1. CASE UNCHANGED <<item, got>>
  BY <1>1 DEF ItemMoves, Counted
<1>2. ASSUME NEW r \in Run, NEW p \in Part, Start(r, p) PROVE ItemMoves /\ Counted'
  <2> DEFINE late == p[2] > today - SourceLagDays
             s == IF late \/ <<p, served[p]>> \in loaded THEN "skipped"
                  ELSE IF served[p] = 0 THEN "failed" ELSE "running"
             v == IF late THEN 0 ELSE served[p]
  <2>1. /\ p \in DOMAIN item[r] /\ item' = [item EXCEPT ![r][p] = s]
        /\ got' = [got EXCEPT ![r][p] = v] /\ item[r][p] \notin Done
    BY <1>2 DEF Start, Done
  <2>2. s \in Done => v = 0 \/ <<p, v>> \in loaded
    BY DEF Done
  <2> HIDE DEF s, v
  <2>3. got'[r][p] = v
    BY <2>1 DEF TypeInv, Items
  <2>4. PICK z : z = s
    OBVIOUS
  <2>5. PICK u : u = v
    OBVIOUS
  <2>6. /\ item' = [item EXCEPT ![r][p] = z] /\ got' = [got EXCEPT ![r][p] = u]
        /\ z \in Done => got'[r][p] = 0 \/ <<p, got'[r][p]>> \in loaded'
    BY <2>1, <2>2, <2>3, <2>4, <2>5
  <2>7. p \in DOMAIN item[r] /\ item[r][p] \notin Done
    BY <2>1
  <2>8. QED
    BY <2>6, <2>7, ItemStepMoves
<1>3. ASSUME NEW r \in Run, NEW p \in Part, Load(r, p) \/ Lose(r, p)
      PROVE  ItemMoves /\ Counted'
  <2>1. p \in DOMAIN item[r] /\ item[r][p] \notin Done /\ got' = got
    BY <1>3 DEF Load, Lose, Done
  <2>2. CASE Load(r, p)
    BY <2>1, <2>2, ItemStepMoves DEF Load
  <2>3. CASE Lose(r, p)
    <3>1. PICK s \in {"todo", "failed"} : item' = [item EXCEPT ![r][p] = s]
      BY <2>3 DEF Lose
    <3>2. s \notin Done
      BY DEF Done
    <3>3. QED
      BY <2>1, <3>1, <3>2, ItemStepMoves
  <2>4. QED
    BY <1>3, <2>2, <2>3
<1>4. ASSUME NEW r \in Run, Expand(r) PROVE ItemMoves /\ Counted'
  <2>1. /\ item'[r] = [p \in Work(r) |-> "todo"]
        /\ \A q \in Run \ {r} : item'[q] = item[q] /\ got'[q] = got[q]
    BY <1>4 DEF Expand, TypeInv, Items
  <2>2. ti[r][Mapped(r)] # "success"
    BY <1>4 DEF Expand, Ready
  <2>3. QED
    BY <2>1, <2>2 DEF ItemMoves, Counted, Done
<1>5. ASSUME NEW r \in Run, Clear(r) PROVE ItemMoves /\ Counted'
  <2>1. item'[r] = [p \in DOMAIN item[r] |-> IF item[r][p] = "failed" THEN "todo" ELSE item[r][p]]
    BY <1>5 DEF Clear, TypeInv, Items
  <2>2. got' = got /\ \A q \in Run \ {r} : item'[q] = item[q]
    BY <1>5 DEF Clear, TypeInv, Items
  <2>3. QED
    BY <2>1, <2>2 DEF ItemMoves, Counted, Done
<1>6. ASSUME NEW r \in Run, Goes(r) PROVE ItemMoves /\ Counted'
  <2>1. CASE \/ \E t \in DagOf(r).node : \/ RunTask(r, t) \/ UpstreamFailed(r, t)
                                         \/ TestMarts(r, t) \/ TaskFails(r, t)
             \/ CheckFreshness(r) \/ BuildHourly(r) \/ BuildDaily(r) \/ BuildDies(r) \/ EndRun(r)
    BY <1>1, <2>1 DEF RunTask, UpstreamFailed, TestMarts, TaskFails, CheckFreshness, BuildHourly,
                      BuildDaily, BuildDies, EndRun
  <2>2. QED
    BY <1>2, <1>3, <1>4, <1>5, <1>6, <2>1, GoesWays
<1>7. CASE UNCHANGED vars \/ Tick \/ Rest
  BY <1>1, <1>7 DEF vars, Tick, Rest
<1>8. CASE (\E d \in Day : CreateRun(d)) \/ \E p \in Plans : TriggerBackfill(p)
  BY <1>1, <1>8 DEF CreateRun, TriggerBackfill
<1>9. CASE (\E p \in Restated : Restate(p)) \/ \E o \in orphans : LandOrphan(o)
  BY <1>1, <1>9 DEF Restate, LandOrphan
<1>10. QED
  BY <1>6, <1>7, <1>8, <1>9 DEF Next

----------------------------------------------------------------------------
\* A task that has succeeded stays so, a fan-out with all its items.
LEMMA SucceededStays ==
  ASSUME TaskMoves, ItemMoves, NEW r \in Run, NEW t \in DagOf(r).node, Succeeded(r, t)
  PROVE  Succeeded(r, t)'
BY DEF TaskMoves, ItemMoves, Succeeded, Done

\* Tasks at work or done have their predecessors behind them.
LEMMA ChainStep == Chain /\ TaskMoves /\ ItemMoves => Chain'
<1> SUFFICES ASSUME Chain, TaskMoves, ItemMoves, NEW r \in Run, NEW t \in DagOf(r).node,
                    ti'[r][t] \in BuildStates, NEW u \in Predecessors(DagOf(r), t)
             PROVE  Succeeded(r, u)'
  BY DEF Chain
<1>1. Succeeded(r, u)
  BY DEF TaskMoves, Chain, Ready
<1>2. u \in DagOf(r).node
  BY DEF Predecessors
<1>3. QED
  BY <1>1, <1>2, SucceededStays

----------------------------------------------------------------------------
\* A build begins after the last work item has ended well, through every task between.
LEMMA MappedBeforeBuild ==
  ASSUME NEW r \in Run, Chain, ti[r][Build(r)] \in BuildStates \/ Ready(r, Build(r))
  PROVE  Succeeded(r, Mapped(r))
<1>1. \A u \in Predecessors(DagOf(r), Build(r)) : Succeeded(r, u)
  BY TasksOf DEF Chain, Ready
<1>2. \A t, u \in DagOf(r).node :
        Succeeded(r, t) /\ u \in Predecessors(DagOf(r), t) => Succeeded(r, u)
  BY DEF Chain, Succeeded, BuildStates
<1>3. CASE r = Backfill
  <2>1. DagOf(r) = BackfillDag /\ Mapped(r) = "ingest_unit" /\ Build(r) = "rebuild_marts"
    BY <1>3, TasksOf, DagFacts DEF DagOf
  <2>2. "ingest_unit" \in Predecessors(BackfillDag, "rebuild_marts")
    BY DEF Predecessors, BackfillDag
  <2>3. QED
    BY <1>1, <2>1, <2>2
<1>4. CASE r # Backfill
  <2>1. DagOf(r) = DailyDag /\ Mapped(r) = "ingest_city" /\ Build(r) = "dbt_run"
    BY <1>4, TasksOf, DagFacts DEF DagOf
  <2>2. /\ "dbt_source_freshness" \in Predecessors(DailyDag, "dbt_run")
        /\ "dbt_seed" \in Predecessors(DailyDag, "dbt_source_freshness")
        /\ "dbt_deps" \in Predecessors(DailyDag, "dbt_seed")
        /\ "ingest_city" \in Predecessors(DailyDag, "dbt_deps")
        /\ {"dbt_source_freshness", "dbt_seed", "dbt_deps", "ingest_city"} \subseteq DailyDag.node
    BY DEF Predecessors, DailyDag
  <2>3. QED
    BY <1>1, <1>2, <2>1, <2>2
<1>5. QED
  BY <1>3, <1>4

\* The last task succeeds after the build has.
LEMMA BuildBeforeLeaf ==
  ASSUME NEW r \in Run, Chain, \A t \in Leaves(DagOf(r)) : Succeeded(r, t)
  PROVE  Succeeded(r, Build(r))
<1>1. \A t, u \in DagOf(r).node :
        Succeeded(r, t) /\ u \in Predecessors(DagOf(r), t) => Succeeded(r, u)
  BY DEF Chain, Succeeded, BuildStates
<1>2. CASE r = Backfill
  <2>1. DagOf(r) = BackfillDag /\ Build(r) = "rebuild_marts"
    BY <1>2, TasksOf, DagFacts DEF DagOf
  <2>2. "verify" \in Leaves(BackfillDag) /\ "rebuild_marts" \in Predecessors(BackfillDag, "verify")
    BY DEF Leaves, Successors, Predecessors, BackfillDag
  <2>3. QED
    BY <1>1, <2>1, <2>2 DEF Leaves, Predecessors
<1>3. CASE r # Backfill
  <2>1. DagOf(r) = DailyDag /\ Build(r) = "dbt_run"
    BY <1>3, TasksOf, DagFacts DEF DagOf
  <2>2. /\ "finish" \in Leaves(DailyDag) /\ "report" \in Predecessors(DailyDag, "finish")
        /\ "dbt_test" \in Predecessors(DailyDag, "report")
        /\ "dbt_run" \in Predecessors(DailyDag, "dbt_test")
        /\ {"finish", "report", "dbt_test", "dbt_run"} \subseteq DailyDag.node
    BY DEF Leaves, Successors, Predecessors, DailyDag
  <2>3. QED
    BY <1>1, <2>1, <2>2
<1>4. QED
  BY <1>2, <1>3

----------------------------------------------------------------------------
\* The build of r gets no further, and what it began with is not touched.
BuildKept(r) ==
  /\ base'[r] = base[r]
  /\ ti'[r][Build(r)] \in BuildStates => ti[r][Build(r)] \in BuildStates
  /\ ti'[r][Build(r)] \in {"daily", "success"} => ti[r][Build(r)] \in {"daily", "success"}

\* Steps of other tasks, and those of the build that do not run a model.
LEMMA BecomesKeeps ==
  ASSUME TypeInv, NEW r \in Run, NEW q \in Run, NEW t \in DagOf(q).node, NEW s \in TaskState,
         Becomes(q, t, s), base'[r] = base[r],
         <<q, t>> = <<r, Build(r)>> =>
           s \notin BuildStates \/ (s = "success" /\ ti[r][Build(r)] = "daily")
  PROVE  BuildKept(r)
<1>1. /\ ti'[q][t] = s
      /\ \A u \in DagOf(r).node : <<r, u>> # <<q, t>> => ti'[r][u] = ti[r][u]
  BY TaskStep DEF TypeInv
<1>2. QED
  BY <1>1, TasksOf DEF BuildKept, BuildStates

\* A lost attempt.
LEMMA LoseTryKeeps ==
  ASSUME TypeInv, NEW r \in Run, NEW q \in Run, NEW t \in DagOf(q).node, LoseTry(q, t),
         base'[r] = base[r]
  PROVE  BuildKept(r)
<1>1. PICK s \in {"none", "failed"} : Becomes(q, t, s)
  BY DEF LoseTry
<1>2. QED
  BY <1>1, BecomesKeeps DEF TaskState, BuildStates

\* A step runs the hourly model of r, or its daily one, or leaves its build where it was.
LEMMA BuildMoves ==
  ASSUME TypeInv, [Next]_vars, NEW r \in Run
  PROVE  BuildHourly(r) \/ BuildDaily(r) \/ BuildKept(r)
<1>1. CASE UNCHANGED <<ti, base>>
  BY <1>1 DEF BuildKept
<1>2. ASSUME NEW q \in Run, NEW t \in DagOf(q).node,
             RunTask(q, t) \/ UpstreamFailed(q, t) \/ TestMarts(q, t) \/ TaskFails(q, t)
      PROVE  BuildKept(r)
  <2>1. base' = base
    BY <1>2 DEF RunTask, UpstreamFailed, TestMarts, TaskFails, martVars
  <2>2. CASE RunTask(q, t)
    <3>1. PICK s \in TaskState : Becomes(q, t, s)
      BY <2>2 DEF RunTask, TaskState
    <3>2. t \notin BuildTasks
      BY <2>2 DEF RunTask, Plain
    <3>3. QED
      BY <2>1, <3>1, <3>2, BecomesKeeps, TasksOf
  <2>3. CASE UpstreamFailed(q, t) \/ TaskFails(q, t)
    <3>1. PICK s \in {"failed", "upstream_failed"} : Becomes(q, t, s)
      BY <2>3 DEF UpstreamFailed, TaskFails
    <3>2. QED
      BY <2>1, <3>1, BecomesKeeps DEF TaskState, BuildStates
  <2>4. CASE TestMarts(q, t)
    <3>1. CASE LoseTry(q, t)
      BY <2>1, <3>1, LoseTryKeeps
    <3>2. CASE Becomes(q, t, "success")
      <4>1. <<q, t>> = <<r, Build(r)>> => ti[r][Build(r)] = "daily"
        BY <2>4, TasksOf DEF TestMarts, BuildTasks
      <4>2. QED
        BY <2>1, <3>2, <4>1, BecomesKeeps DEF TaskState
    <3>3. QED
      BY <2>4, <3>1, <3>2 DEF TestMarts
  <2>5. QED
    BY <1>2, <2>2, <2>3, <2>4
<1>3. ASSUME NEW q \in Run, BuildHourly(q) \/ BuildDaily(q), q # r PROVE BuildKept(r)
  <2>1. base'[r] = base[r]
    BY <1>3 DEF BuildHourly, BuildDaily, TypeInv, Contents
  <2>2. PICK s \in {"hourly", "daily"} : Becomes(q, Build(q), s)
    BY <1>3 DEF BuildHourly, BuildDaily
  <2>3. QED
    BY <1>3, <2>1, <2>2, BecomesKeeps, TasksOf DEF TaskState
<1>4. ASSUME NEW q \in Run, CheckFreshness(q) \/ Expand(q) PROVE BuildKept(r)
  <2>1. base' = base
    BY <1>4 DEF CheckFreshness, Expand, martVars
  <2>2. PICK t \in DagOf(q).node, s \in TaskState : t \notin BuildTasks /\ Becomes(q, t, s)
    BY <1>4, TasksOf
       DEF CheckFreshness, Expand, Ready, TaskState, BuildTasks, MappedTasks
  <2>3. QED
    BY <2>1, <2>2, BecomesKeeps, TasksOf
<1>5. ASSUME NEW q \in Run, BuildDies(q) PROVE BuildKept(r)
  BY <1>5, LoseTryKeeps, TasksOf DEF BuildDies, martVars
<1>6. ASSUME NEW q \in Run, Clear(q) PROVE BuildKept(r)
  <2>1. ti'[q] = [t \in DagOf(q).node |->
                    IF ti[q][t] \in {"failed", "upstream_failed"} THEN "none" ELSE ti[q][t]]
    BY <1>6 DEF Clear, TypeInv, Tasks
  <2>2. \A k \in Run \ {q} : ti'[k] = ti[k]
    BY <1>6 DEF Clear, TypeInv, Tasks
  <2>3. base' = base
    BY <1>6 DEF Clear, martVars
  <2>4. ti'[r][Build(r)] \in BuildStates => ti'[r][Build(r)] = ti[r][Build(r)]
    BY <2>1, <2>2, TasksOf DEF BuildStates
  <2>5. QED
    BY <2>3, <2>4 DEF BuildKept, BuildStates
<1>7. ASSUME NEW q \in Run, Goes(q)
      PROVE  BuildHourly(r) \/ BuildDaily(r) \/ BuildKept(r)
  <2>1. CASE EndRun(q) \/ \E p \in Part : Start(q, p) \/ Load(q, p) \/ Lose(q, p)
    BY <1>1, <2>1 DEF EndRun, Start, Load, Lose, martVars
  <2>2. QED
    BY <1>2, <1>3, <1>4, <1>5, <1>6, <1>7, <2>1, GoesWays
<1>8. CASE UNCHANGED vars \/ Tick \/ Rest
  BY <1>1, <1>8 DEF vars, Tick, Rest, martVars
<1>9. CASE (\E d \in Day : CreateRun(d)) \/ \E p \in Plans : TriggerBackfill(p)
  BY <1>1, <1>9 DEF CreateRun, TriggerBackfill, martVars
<1>10. CASE (\E p \in Restated : Restate(p)) \/ \E o \in orphans : LandOrphan(o)
  BY <1>1, <1>10 DEF Restate, LandOrphan, martVars
<1>11. QED
  BY <1>7, <1>8, <1>9, <1>10 DEF Next

----------------------------------------------------------------------------
\* A backfill keeps the parameters it was triggered with.
LEMMA PlanStays == [Next]_vars /\ run[Backfill] # "none" => plan' = plan
<1> SUFFICES ASSUME [Next]_vars, run[Backfill] # "none" PROVE plan' = plan
  OBVIOUS
<1>1. ASSUME NEW r \in Run, Goes(r) PROVE plan' = plan
  BY <1>1 DEF Goes, Schedules, Loads, Builds, RunTask, UpstreamFailed, TestMarts, Expand, Start, Load,
              CheckFreshness, BuildHourly, BuildDaily, EndRun, Clear, BuildDies, Lose, TaskFails,
              runVars
<1>2. CASE UNCHANGED vars \/ Tick \/ Rest
  BY <1>2 DEF vars, Tick, Rest, runVars
<1>3. CASE (\E d \in Day : CreateRun(d)) \/ \E p \in Plans : TriggerBackfill(p)
  BY <1>3 DEF CreateRun, TriggerBackfill
<1>4. CASE (\E p \in Restated : Restate(p)) \/ \E o \in orphans : LandOrphan(o)
  BY <1>4 DEF Restate, LandOrphan, runVars
<1>5. QED
  BY <1>1, <1>2, <1>3, <1>4 DEF Next

\* An exception stays one: the marts lose no day, RAW's reverts are not forgotten.
LEMMA ExceptedStays ==
  ASSUME TypeInv, MartsOnward, NEW r \in Run, WindowOf(r)' = WindowOf(r), NEW p, Excepted(r, p)
  PROVE  Excepted(r, p)'
BY DEF Excepted, Recent, MartsOnward

----------------------------------------------------------------------------
\* The window of a run is fixed with the run.
LEMMA WindowStays ==
  ASSUME NEW r \in Run, [Next]_vars, run[r] # "none" PROVE WindowOf(r)' = WindowOf(r)
BY PlanStays DEF WindowOf

\* The hourly model publishes everything loaded: what its window leaves out is excepted.
LEMMA HourlyBuilds ==
  ASSUME PublishInv, [Next]_vars, MartsOnward, NEW r \in Run, BuildHourly(r)
  PROVE  BuiltOf(r)'
<1> DEFINE w == WindowOf(r)
<1>1. run[r] # "none" /\ Ready(r, Build(r)) /\ TypeInv
  BY DEF BuildHourly, Ready, PublishInv
<1>2. w \in Int /\ WindowOf(r)' = w
  BY <1>1, WindowIsInt, WindowStays
<1>3. /\ hourly' = Refreshed(hourly, raw, w) /\ base'[r] = loaded /\ ti'[r][Build(r)] = "hourly"
      /\ UNCHANGED <<raw, loaded, reverted, item, got>>
  <2>1. ti'[r][Build(r)] = "hourly"
    BY <1>1, TaskStep, TasksOf DEF BuildHourly, TypeInv, TaskState
  <2>2. QED
    BY <1>1, <2>1 DEF BuildHourly, rawVars, TypeInv, Contents
<1>4. hourly \in [Part -> Version] /\ raw \in [Part -> Version]
  BY <1>1 DEF TypeInv, Contents
<1>5. ASSUME NEW p \in DOMAIN item[r] PROVE got[r][p] = 0 \/ <<p, got[r][p]>> \in loaded
  BY <1>1, MappedBeforeBuild DEF PublishInv, Succeeded, Counted, Done
<1>6. ASSUME NEW l \in loaded PROVE Excepted(r, l[1])' \/ l[2] <= hourly'[l[1]]
  <2>1. PICK p \in Part, v \in Nat : p = l[1] /\ v = l[2]
    BY <1>1, Values DEF TypeInv, Contents
  <2>2. 1 <= v /\ (p \in reverted \/ v <= raw[p])
    BY <2>1 DEF PublishInv, Forward
  <2>3. CASE p \in reverted
    BY <1>3, <2>1, <2>3 DEF Excepted
  <2>4. CASE v <= raw[p] /\ InWindow(hourly, p[2], w)
    <3>1. raw[p] \in Nat
      BY <1>4, Values
    <3>2. hourly'[p] = raw[p]
      BY <1>3, <2>2, <2>4, <3>1 DEF Refreshed
    <3>3. QED
      BY <2>1, <2>4, <3>2
  <2>5. CASE ~InWindow(hourly, p[2], w)
    <3>1. PICK q \in Part : hourly[q] # 0 /\ ~(q[2] - p[2] <= w)
      <4> HIDE DEF w
      <4>1. p[2] \in Day
        BY Values
      <4>2. PICK d \in Day, k \in Int : d = p[2] /\ k = w
        BY <1>2, <4>1
      <4>3. QED
        BY <1>4, <2>5, <4>2, OutOfWindow
    <3>2. hourly'[q] # 0
      BY <3>1 DEF MartsOnward
    <3>3. ~Recent(r, p[2])'
      BY <1>2, <3>1, <3>2 DEF Recent
    <3>4. QED
      BY <2>1, <3>3 DEF Excepted
  <2>6. QED
    BY <2>2, <2>3, <2>4, <2>5
<1>7. QED
  BY <1>3, <1>5, <1>6 DEF BuiltOf

\* The daily model publishes everything the hourly one had.
LEMMA DailyBuilds ==
  ASSUME PublishInv, [Next]_vars, MartsOnward, NEW r \in Run, BuildDaily(r)
  PROVE  BuiltOf(r)'
<1> DEFINE w == WindowOf(r)
<1>1. run[r] # "none" /\ ti[r][Build(r)] = "hourly" /\ TypeInv
  BY DEF BuildDaily, PublishInv
<1>2. w \in Int /\ WindowOf(r)' = w
  BY <1>1, WindowIsInt, WindowStays
<1>3. /\ daily' = Refreshed(daily, hourly, w) /\ ti'[r][Build(r)] = "daily"
      /\ UNCHANGED <<loaded, reverted, hourly, base, item, got>>
  <2>1. ti'[r][Build(r)] = "daily"
    BY <1>1, TaskStep, TasksOf DEF BuildDaily, TypeInv, TaskState
  <2>2. QED
    BY <2>1 DEF BuildDaily, rawVars
<1>4. daily \in [Part -> Version] /\ hourly \in [Part -> Version]
  BY <1>1 DEF TypeInv, Contents
<1>5. /\ base[r] \subseteq loaded
      /\ \A p \in DOMAIN item[r] : got[r][p] = 0 \/ <<p, got[r][p]>> \in base[r]
      /\ \A l \in base[r] : Excepted(r, l[1]) \/ l[2] <= hourly[l[1]]
  BY <1>1 DEF PublishInv, Built, BuiltOf, BuildStates
<1>6. ASSUME NEW l \in base[r]
      PROVE  /\ Excepted(r, l[1])' \/ l[2] <= hourly'[l[1]]
             /\ Excepted(r, l[1])' \/ l[2] <= daily'[l[1]]
  <2>1. PICK p \in Part, v \in Nat : p = l[1] /\ v = l[2]
    BY <1>1, <1>5, Values DEF TypeInv, Contents
  <2>2. 1 <= v
    BY <1>5, <2>1 DEF PublishInv, Forward
  <2>3. CASE Excepted(r, l[1])
    BY <1>1, <1>2, <2>3, ExceptedStays
  <2>4. CASE v <= hourly[p] /\ InWindow(daily, p[2], w)
    <3>1. hourly[p] \in Nat
      BY <1>4, Values
    <3>2. daily'[p] = hourly[p]
      BY <1>3, <2>2, <2>4, <3>1 DEF Refreshed
    <3>3. QED
      BY <1>3, <2>1, <2>4, <3>2
  <2>5. CASE ~InWindow(daily, p[2], w)
    <3>1. PICK q \in Part : daily[q] # 0 /\ ~(q[2] - p[2] <= w)
      <4> HIDE DEF w
      <4>1. p[2] \in Day
        BY Values
      <4>2. PICK d \in Day, k \in Int : d = p[2] /\ k = w
        BY <1>2, <4>1
      <4>3. QED
        BY <1>4, <2>5, <4>2, OutOfWindow
    <3>2. hourly'[q] # 0
      BY <1>3, <3>1 DEF PublishInv, Forward
    <3>3. ~Recent(r, p[2])'
      BY <1>2, <3>1, <3>2 DEF Recent
    <3>4. QED
      BY <2>1, <3>3 DEF Excepted
  <2>6. QED
    BY <1>5, <2>1, <2>3, <2>4, <2>5
<1>7. QED
  BY <1>3, <1>5, <1>6 DEF BuiltOf

\* No other step takes back what the build of r has published.
LEMMA KeepsBuilt ==
  ASSUME PublishInv, [Next]_vars, MartsOnward, ItemMoves, NEW r \in Run, BuildKept(r)
  PROVE  BuiltOf(r)'
<1>1. TypeInv /\ BuiltOf(r) /\ Chain
  BY DEF PublishInv, Built
<1>2. base'[r] = base[r] /\ base[r] \subseteq loaded /\ loaded \subseteq loaded'
  BY <1>1 DEF BuildKept, BuiltOf, MartsOnward
<1>3. CASE ti[r][Build(r)] \notin BuildStates
  BY <1>2, <1>3 DEF BuiltOf, BuildKept, BuildStates
<1>4. CASE ti[r][Build(r)] \in BuildStates
  <2>1. run[r] # "none"
    BY <1>1, <1>4, TasksOf DEF TypeInv, Begun, BuildStates
  <2>2. WindowOf(r)' = WindowOf(r)
    BY <2>1, WindowStays
  <2>3. \A p \in DOMAIN item'[r] : got'[r][p] = 0 \/ <<p, got'[r][p]>> \in base'[r]
    <3>1. Succeeded(r, Mapped(r))
      BY <1>1, <1>4, MappedBeforeBuild
    <3>2. QED
      BY <1>1, <1>2, <1>4, <3>1 DEF Succeeded, ItemMoves, BuiltOf, Done
  <2>4. ASSUME NEW l \in base[r], ~Excepted(r, l[1])'
        PROVE  /\ l[2] <= hourly[l[1]] => l[2] <= hourly'[l[1]]
               /\ l[2] <= daily[l[1]] => l[2] <= daily'[l[1]]
    <3>1. PICK p \in Part, v \in Nat : p = l[1] /\ v = l[2]
      BY <1>1, <1>2, Values DEF TypeInv, Contents
    <3>2. p \notin reverted'
      BY <2>4, <3>1 DEF Excepted
    <3>3. hourly[p] <= hourly'[p] /\ daily[p] <= daily'[p]
      BY <3>2 DEF MartsOnward
    <3>4. hourly[p] \in Nat /\ daily[p] \in Nat /\ hourly'[p] \in Nat /\ daily'[p] \in Nat
      <4>1. TypeInv'
        BY <1>1, TypeStep
      <4>2. QED
        BY <1>1, <4>1, Values DEF TypeInv, Contents
    <3>5. QED
      BY <3>1, <3>3, <3>4
  <2>5. \A l \in base[r] : Excepted(r, l[1]) => Excepted(r, l[1])'
    BY <1>1, <2>2, ExceptedStays
  <2>6. QED
    BY <1>1, <1>2, <1>4, <2>3, <2>4, <2>5 DEF BuiltOf, BuildKept
<1>5. QED
  BY <1>3, <1>4

----------------------------------------------------------------------------
\* The invariant holds at the start.
LEMMA PublishInit == Init => PublishInv
<1> SUFFICES ASSUME Init PROVE PublishInv
  OBVIOUS
<1>1. TypeInv
  BY TypeInit
<1>2. Forward
  BY DEF Init, Forward
<1>3. Chain
  BY DEF Init, Chain, BuildStates
<1>4. Counted
  <2>1. DOMAIN <<>> = {}
    OBVIOUS
  <2>2. QED
    BY <2>1 DEF Init, Counted
<1>5. Built
  BY TasksOf DEF Init, Built, BuiltOf, BuildStates
<1>6. QED
  BY <1>1, <1>2, <1>3, <1>4, <1>5 DEF PublishInv

\* Every step keeps it.
LEMMA PublishStep == PublishInv /\ [Next]_vars => PublishInv'
<1> SUFFICES ASSUME PublishInv, [Next]_vars PROVE PublishInv'
  OBVIOUS
<1>1. TypeInv' /\ TaskMoves
  BY TypeStep, TasksOnward DEF PublishInv
<1>2. Forward' /\ MartsOnward
  BY ForwardStep DEF PublishInv
<1>3. ItemMoves /\ Counted'
  BY <1>2, ItemsOnward DEF PublishInv, MartsOnward
<1>4. Chain'
  BY <1>1, <1>3, ChainStep DEF PublishInv
<1>5. Built'
  <2>1. ASSUME NEW r \in Run PROVE BuiltOf(r)'
    BY <1>2, <1>3, BuildMoves, HourlyBuilds, DailyBuilds, KeepsBuilt DEF PublishInv
  <2>2. QED
    BY <2>1 DEF Built
<1>6. QED
  BY <1>1, <1>2, <1>3, <1>4, <1>5 DEF PublishInv

\* Only EndRun turns a run green, with its leaves succeeded.
LEMMA OnlyEndRunIsGreen ==
  ASSUME TypeInv, [Next]_vars, NEW r \in Run, TurnsGreen(r)
  PROVE  EndRun(r) /\ \A t \in Leaves(DagOf(r)) : Succeeded(r, t)
<1>1. run \in [Run -> RunState] /\ run[r] # "success" /\ run'[r] = "success"
  BY DEF TypeInv, Clocks, TurnsGreen
<1>2. ~UNCHANGED run
  BY <1>1
<1>3. ASSUME NEW q \in Run, Goes(q) PROVE EndRun(r) /\ \A t \in Leaves(DagOf(r)) : Succeeded(r, t)
  <2>1. EndRun(q) \/ Clear(q)
    BY <1>2, <1>3 DEF Goes, Schedules, Loads, Builds, RunTask, UpstreamFailed, TestMarts, Expand, Start, Load,
         CheckFreshness, BuildHourly, BuildDaily, BuildDies, Lose, TaskFails, runVars
  <2>2. CASE Clear(q)
    BY <1>1, <2>2 DEF Clear
  <2>3. CASE EndRun(q)
    BY <1>1, <2>3 DEF EndRun
  <2>4. QED
    BY <2>1, <2>2, <2>3
<1>4. ~(UNCHANGED vars \/ Tick \/ Rest)
  BY <1>2 DEF vars, Tick, Rest, runVars
<1>5. ~((\E d \in Day : CreateRun(d)) \/ \E p \in Plans : TriggerBackfill(p))
  BY <1>1 DEF CreateRun, TriggerBackfill
<1>6. ~((\E p \in Restated : Restate(p)) \/ \E o \in orphans : LandOrphan(o))
  BY <1>2 DEF Restate, LandOrphan, runVars
<1>7. QED
  BY <1>3, <1>4, <1>5, <1>6 DEF Next

\* What the step that turns a run green finds in the marts.
LEMMA GreenStep ==
  ASSUME PublishInv, [Next]_vars, NEW r \in Run, TurnsGreen(r)
  PROVE  /\ \A p \in DOMAIN item[r] : Excepted(r, p) \/ Published(p, got[r][p])
         /\ \A l \in base[r] : Excepted(r, l[1]) \/ Published(l[1], l[2])
<1>1. EndRun(r) /\ Succeeded(r, Build(r)) /\ TypeInv
  BY OnlyEndRunIsGreen, BuildBeforeLeaf DEF PublishInv
<1>2. UNCHANGED <<hourly, daily>>
  BY <1>1 DEF EndRun, martVars
<1>3. /\ \A p \in DOMAIN item[r] : got[r][p] = 0 \/ <<p, got[r][p]>> \in base[r]
      /\ \A l \in base[r] : Excepted(r, l[1]) \/ (l[2] <= hourly[l[1]] /\ l[2] <= daily[l[1]])
  BY <1>1 DEF PublishInv, Built, BuiltOf, Succeeded, BuildStates
<1>4. ASSUME NEW l \in base[r] PROVE Excepted(r, l[1]) \/ Published(l[1], l[2])
  <2>1. PICK p \in Part, v \in Nat : p = l[1] /\ v = l[2]
    <3>1. base[r] \subseteq Part \X Version
      BY <1>1 DEF TypeInv, Contents
    <3>2. QED
      BY <3>1, Values
  <2>2. hourly[p] \in Nat /\ daily[p] \in Nat
    BY <1>1, Values DEF TypeInv, Contents
  <2>3. QED
    BY <1>2, <1>3, <2>1, <2>2 DEF Published
<1>5. ASSUME NEW p \in DOMAIN item[r] PROVE Excepted(r, p) \/ Published(p, got[r][p])
  <2>1. CASE <<p, got[r][p]>> \in base[r]
    BY <1>4, <2>1
  <2>2. CASE got[r][p] = 0
    <3>1. item[r][p] # "todo"
      BY <1>1, MappedBeforeBuild DEF PublishInv, Succeeded, BuildStates
    <3>2. p \in Part
      BY <1>1, <3>1 DEF TypeInv, Items
    <3>3. hourly[p] \in Nat /\ daily[p] \in Nat
      BY <1>1, <3>2, Values DEF TypeInv, Contents
    <3>4. QED
      BY <1>2, <2>2, <3>3 DEF Published
  <2>3. QED
    BY <1>3, <2>1, <2>2
<1>6. QED
  BY <1>4, <1>5

\* A run that ends green has published what it loaded, and what had been loaded when its
\* build began, in both marts (weather_batch_daily.py, weather_backfill.py, the macro
\* restatement_filter): however runs of both DAGs interleave, whatever fails, is retried
\* or cleared, and for any windows, also that of a backfill's plan.
THEOREM GreenPublishes == Spec => GreenRunPublishes
<1>1. Spec => []PublishInv
  BY PublishInit, PublishStep, PTL DEF Spec
<1>2. PublishInv /\ [Next]_vars =>
        [\A r \in Run :
           TurnsGreen(r) =>
             /\ \A p \in DOMAIN item[r] : Excepted(r, p) \/ Published(p, got[r][p])
             /\ \A l \in base[r] : Excepted(r, l[1]) \/ Published(l[1], l[2])]_vars
  BY GreenStep
<1>3. QED
  BY <1>1, <1>2, PTL DEF Spec, GreenRunPublishes
=============================================================================
