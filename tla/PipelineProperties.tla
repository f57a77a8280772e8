------------------------- MODULE PipelineProperties -------------------------
(***************************************************************************)
(* What the schedule and the marts must guarantee, stated of Pipeline's    *)
(* behaviours.                                                             *)
(***************************************************************************)
EXTENDS Pipeline

Published(p, v) == hourly'[p] >= v /\ daily'[p] >= v
TurnsGreen(r) == run[r] # "success" /\ run'[r] = "success"

\* No day in the mart is further ahead of day d than the window of r's build is wide.
Recent(r, d) == \A p \in Part : hourly[p] # 0 => p[2] - d <= WindowOf(r)

\* RAW went back to an older payload of p, or the build of r need not have looked at it.
Excepted(r, p) == p \in reverted \/ ~Recent(r, p[2])

\* A run that ends green has published what it loaded or found loaded, and whatever
\* had been loaded when its build began, in both marts: what failed runs left behind
\* and what builds of other runs overwrote meanwhile is healed by the next green one
\* (DAG order ingest > dbt > report, restatement_filter, the order of the two models).
\* Partitions are excepted of which RAW itself went back to an older payload, and
\* those further behind the newest day than the window is wide.
GreenRunPublishes ==
  [][\A r \in Run :
       TurnsGreen(r) =>
         /\ \A p \in DOMAIN item[r] : Excepted(r, p) \/ Published(p, got[r][p])
         /\ \A l \in base[r] : Excepted(r, l[1]) \/ Published(l[1], l[2])]_vars

\* "Days are independent, so a stuck 1 August must not block 2 August"
\* (weather_batch_daily.py): again and again every due day has had its run and the run
\* its end, while other runs fail, hold a slot or are stuck for ever.
EveryDueDayEnds ==
  []<>(\A d \in Day \ Stuck :
         today > d + SourceLagDays => run[d] \in {"success", "failed"})

\* A backfill waits for nothing but its own units: refused parameters, failed units
\* and daily runs beside it bring it to an end as well.
BackfillWaitsForUnits ==
  []<>(\/ run[Backfill] # "running"
       \/ \E p \in DOMAIN item[Backfill] : item[Backfill][p] = "running")

\* "Catch-up is how a missed night repairs itself" (weather_batch_daily.py): where the
\* producer has every day, nothing fails and no run is stuck, the run of each day that
\* is due ends green.
CatchUpRepairs ==
  \A d \in Day : today > d + SourceLagDays ~> run[d] = "success"

=============================================================================
