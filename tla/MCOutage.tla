------------------------------ MODULE MCOutage ------------------------------
(***************************************************************************)
(* Small instances of Outage for TLC.                                      *)
(***************************************************************************)
EXTENDS Outage

NoTime == {0}
FullTimeout == {30}    \* weather_api_timeout_seconds
EitherJitter == {0, 1}

=============================================================================
