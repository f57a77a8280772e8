----------------------------- MODULE Warehouse -----------------------------
(***************************************************************************)
(* The Snowflake side of a load: the internal stage, RAW.WEATHER_          *)
(* OBSERVATION, OPS.LOAD_AUDIT and the sessions' transactions              *)
(* (src/src/pipeline/warehouse/).  Snowflake itself is outside the         *)
(* repository: PUT and REMOVE act at once and are part of no transaction;  *)
(* a MERGE is atomic, and inside an explicit transaction it holds the      *)
(* table's lock until COMMIT or ROLLBACK.                                  *)
(***************************************************************************)
EXTENDS Landing, FiniteSets, Integers

CONSTANTS
  Hour,        \* the hours of a day, the grain of the contract
  HoursOf,     \* HoursOf[pl]: the hours payload pl has a row for
  BadOf,       \* BadOf[pl]: those whose row violates the contract
  Autocommit   \* the session's AUTOCOMMIT, which snowflake_connection leaves
               \* to the account's default

VARIABLES
  stage,       \* stage[p]: the staged file of partition p, or None
  raw,         \* raw[p][h]: the committed RAW row of hour h, or None
  txn,         \* txn[w]: what w's open transaction makes of its partition's
               \* rows, or None
  audit        \* the rows of OPS.LOAD_AUDIT

warehouseVars == <<stage, raw, txn, audit>>

ASSUME WarehouseAssumption ==
  /\ HoursOf \in [Payload -> SUBSET Hour]
  /\ BadOf \in [Payload -> SUBSET Hour]
  /\ \A pl \in Payload : BadOf[pl] \subseteq HoursOf[pl]
  /\ IsFiniteSet(Hour)
  /\ Autocommit \in BOOLEAN

\* A RAW row: the payload it came from (_SOURCE_PAYLOAD_HASH) and the code
\* version that flattened it, which determine the measurements.
Row == [src : Payload, code : Code]
Rows == [Hour -> Row \cup {None}]

\* The rows of a payload that satisfy the contract, the only ones a file holds.
Accepted(pl) == HoursOf[pl] \ BadOf[pl]

WarehouseTypeOK ==
  /\ stage \in [Part -> File \cup {None}]
  /\ raw \in [Part -> Rows]
  /\ txn \in [Worker -> Rows \cup {None}]

WarehouseInit ==
  /\ stage = [p \in Part |-> None]
  /\ raw = [p \in Part |-> [h \in Hour |-> None]]
  /\ txn = [w \in Worker |-> None]
  /\ audit = {}

----------------------------------------------------------------------------
(* 003_merge.sql                                                            *)

\* WHEN NOT MATCHED
Inserted(rows, f) == {h \in Accepted(f.src) : rows[h] = None}

\* Faulty: WHEN MATCHED without the comparison of hashes.
UpdatedAlways(rows, f) == {h \in Accepted(f.src) : rows[h] # None}

\* WHEN MATCHED AND the hashes differ
Updated(rows, f) == {h \in Accepted(f.src) : rows[h] # None /\ rows[h].src # f.src}

\* Faulty: the WHEN MATCHED branch is missing.
MergedInsertOnly(rows, f) ==
  [h \in Hour |-> IF h \in Inserted(rows, f) THEN [src |-> f.src, code |-> f.code]
                                            ELSE rows[h]]

\* Rows the file does not name are never deleted.
Merged(rows, f) ==
  [h \in Hour |-> IF h \in Inserted(rows, f) \cup Updated(rows, f)
                    THEN [src |-> f.src, code |-> f.code] ELSE rows[h]]

----------------------------------------------------------------------------
(* load_batch, statement by statement                                       *)

\* Faulty: PUT without OVERWRITE = TRUE keeps the file a failed load left behind.
PutFileKeeps(p) ==
  /\ final[p] # None
  /\ stage' = [stage EXCEPT ![p] = IF @ = None THEN final[p] ELSE @]

\* PUT ... OVERWRITE = TRUE of the published file; PUT of a missing file raises.
PutFile(p) ==
  /\ final[p] # None
  /\ stage' = [stage EXCEPT ![p] = final[p]]

TableUnlocked(w) == \A v \in Worker \ {w} : txn[v] = None

\* A MERGE whose result on partition p is `rows`.
ExecuteMerge(w, p, rows) ==
  /\ TableUnlocked(w)
  /\ IF Autocommit THEN raw' = [raw EXCEPT ![p] = rows] /\ UNCHANGED txn
                   ELSE txn' = [txn EXCEPT ![w] = rows] /\ UNCHANGED raw

\* REMOVE of a staged file is no error when there is none.
RemoveStaged(p) == stage' = [stage EXCEPT ![p] = None]

\* connection.commit(): nothing is open under AUTOCOMMIT.
CommitTxn(w, p) ==
  /\ raw' = IF txn[w] = None THEN raw ELSE [raw EXCEPT ![p] = txn[w]]
  /\ txn' = [txn EXCEPT ![w] = None]

\* Faulty: sessions of dead processes linger with their transaction open.
RollbackTxnNever(w) == UNCHANGED txn

\* connection.rollback(), and what the server does when the session ends.
RollbackTxn(w) == txn' = [txn EXCEPT ![w] = None]

\* write_audit: one INSERT and a commit, which commits whatever w's session has
\* open.
WriteAudit(w, p, row) ==
  /\ audit' = audit \cup {row}
  /\ CommitTxn(w, p)

\* Faulty: the STATUS = 'loaded' condition is missing.
AlreadyTried(p, pl) == \E r \in audit : r.part = p /\ r.hash = pl

\* already_loaded: some row of this city, day and hash says 'loaded', however old.
AlreadyLoaded(p, pl) ==
  \E r \in audit : r.part = p /\ r.hash = pl /\ r.status = "loaded"

=============================================================================
