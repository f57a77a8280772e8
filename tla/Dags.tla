-------------------------------- MODULE Dags --------------------------------
(***************************************************************************)
(* The two Airflow DAGs as graphs: their tasks, and the edges their files  *)
(* draw with >> and by passing one task's result to another.               *)
(***************************************************************************)
EXTENDS Graphs

\* weather_batch_daily.py.
DailyDag ==
  [node |-> {"start", "target_date", "preflight", "ingest_city", "dbt_deps", "dbt_seed",
             "dbt_source_freshness", "dbt_run", "dbt_test", "report", "finish"},
   edge |-> {<<"start", "target_date">>, <<"target_date", "preflight">>,
             <<"target_date", "ingest_city">>, <<"preflight", "ingest_city">>,
             <<"ingest_city", "dbt_deps">>, <<"dbt_deps", "dbt_seed">>,
             <<"dbt_seed", "dbt_source_freshness">>,
             <<"dbt_source_freshness", "dbt_run">>, <<"dbt_run", "dbt_test">>,
             <<"dbt_test", "report">>, <<"ingest_city", "report">>,
             <<"target_date", "report">>, <<"report", "finish">>}]

\* weather_backfill.py.
BackfillDag ==
  [node |-> {"plan", "ingest_unit", "restatement_window_days", "rebuild_marts", "verify"},
   edge |-> {<<"plan", "ingest_unit">>, <<"ingest_unit", "rebuild_marts">>,
             <<"restatement_window_days", "rebuild_marts">>,
             <<"rebuild_marts", "verify">>, <<"ingest_unit", "verify">>}]

\* The fan-out task of each DAG, and the tasks that build the marts.
MappedTasks == {"ingest_city", "ingest_unit"}
BuildTasks == {"dbt_run", "rebuild_marts"}

=============================================================================
