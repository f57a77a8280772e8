---------------------------- MODULE LoadPromise ----------------------------
(***************************************************************************)
(* What ingestion promises to the readers of RAW and of OPS.LOAD_AUDIT,    *)
(* with no files, stages, sessions or attempts: a payload that passes the  *)
(* quality gate is laid over its partition in one step, leaving rows       *)
(* already made from it alone, and a load is reported only while RAW       *)
(* agrees with it.                                                         *)
(***************************************************************************)
CONSTANTS Part, Hour, Code, None,
          Good,        \* the payloads fit to load
          Accepted(_)  \* the hours a payload has an acceptable row for

VARIABLES
  table,      \* table[p][h]: the row, [src, code], or None
  reported    \* the <<partition, payload>> pairs reported as loaded

\* The rows show payload pl at every hour it has.
Shows(rows, pl) == \A h \in Accepted(pl) : rows[h] # None /\ rows[h].src = pl

Overlay(rows, pl, code) ==
  [h \in Hour |->
     IF h \in Accepted(pl) /\ ~(rows[h] # None /\ rows[h].src = pl)
       THEN [src |-> pl, code |-> code] ELSE rows[h]]

Init ==
  /\ table = [p \in Part |-> [h \in Hour |-> None]]
  /\ reported = {}

Load(p, pl, code) ==
  /\ table' = [table EXCEPT ![p] = Overlay(table[p], pl, code)]
  /\ UNCHANGED reported

Report(p, pl) ==
  /\ Shows(table[p], pl)
  /\ reported' = reported \cup {<<p, pl>>}
  /\ UNCHANGED table

Next == \E p \in Part, pl \in Good :
          (\E code \in Code : Load(p, pl, code)) \/ Report(p, pl)

Spec == Init /\ [][Next]_<<table, reported>>

=============================================================================
