------------------------------ MODULE MCIngest ------------------------------
(***************************************************************************)
(* Small instances of Ingest for TLC.  Payloads: "a" and "b" are the same  *)
(* day before and after a restatement; "c" has an hour fewer; "bad" has a  *)
(* row that violates the contract; "empty" has no hours; "ragged" has      *)
(* series of unequal length.                                               *)
(***************************************************************************)
EXTENDS IngestProperties, TLC

MCHoursOf == [pl \in Payload |-> CASE pl = "empty" -> {}
                                   [] pl = "c"     -> {1}
                                   [] OTHER        -> Hour]
MCBadOf == [pl \in Payload |-> IF pl = "bad" THEN {1} ELSE {}]
MCMalformed == Payload \cap {"ragged"}
MCCode == 0 .. MaxDeploys

\* How a run may be started.
Normal == [full |-> FALSE, land |-> FALSE]
Full == [full |-> TRUE, land |-> FALSE]
LandOnly == [full |-> FALSE, land |-> TRUE]
DailyModes == {Normal}
AllModes == {Normal, Full, LandOnly}
RefreshModes == {Normal, Full}

Symmetry == Permutations(Worker) \cup Permutations(Part)

=============================================================================
