----------------------------- MODULE MCPipeline -----------------------------
(***************************************************************************)
(* Small instances of Pipeline for TLC.                                    *)
(***************************************************************************)
EXTENDS PipelineProperties

\* Version 1 is a partial day, version 2 a complete one.
MCHoursOf == [v \in Version |-> v]

NoPart == {}
FirstDay == City \X {1}

NoPlan == {}
AllCities(a, b) == [from |-> a, to |-> b, cities |-> {}]
\* Two days, an inverted range, and one day more than MaxBackfillDays = 2 allows.
ManyPlans == {AllCities(1, 2), AllCities(2, 1), AllCities(1, 3)}

=============================================================================
