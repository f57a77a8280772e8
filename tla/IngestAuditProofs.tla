------------------------- MODULE IngestAuditProofs -------------------------
(***************************************************************************)
(* LOAD_AUDIT: at most one row per attempt, and the counts of a 'loaded'   *)
(* row are what its attempt changed in RAW, whatever overlaps, fails,      *)
(* loses its reply or is retried, and under either AUTOCOMMIT: the proofs  *)
(* that OneAuditRowPerAttempt and LoadedCountsHonest hold for every value  *)
(* of the constants.                                                       *)
(***************************************************************************)
EXTENDS IngestReloadProofs

\* Two tasks never share a run, and runs are numbered as they are started.
RunsDistinct ==
  /\ \A w \in Worker : task[w] # None => task[w].run <= triggered
  /\ \A v, w \in Worker :
       v # w /\ task[v] # None /\ task[w] # None => task[v].run # task[w].run

\* No row belongs to a run still to come.
RowsOfStartedRuns == \A r \in audit : r.run <= triggered

\* No row belongs to an attempt still to come, and one that has its row has
\* failed if its task is not over.
RowsOfPastAttempts ==
  \A w \in Worker, r \in audit :
    task[w] # None /\ r.run = task[w].run
      => r.try <= task[w].try /\ (r.try = task[w].try => pc[w] = "failed")

\* The inductive strengthening of OneAuditRowPerAttempt.
AuditInv ==
  RunsDistinct /\ RowsOfStartedRuns /\ RowsOfPastAttempts /\ OneAuditRowPerAttempt

\* Nothing is recorded in the initial states.
LEMMA AuditInit == Init => AuditInv
BY DEF Init, WarehouseInit, AuditInv, RunsDistinct, RowsOfStartedRuns, RowsOfPastAttempts,
       OneAuditRowPerAttempt

\* A step that records nothing and starts nothing: tasks go on or end, and one
\* that has failed stays so.
LEMMA QuietStep ==
  ASSUME AuditInv, UNCHANGED <<audit, triggered>>,
         \A v \in Worker : task'[v] = task[v] \/ task'[v] = None,
         \A v \in Worker : pc[v] = "failed" /\ task'[v] # None => pc'[v] = "failed"
  PROVE  AuditInv'
<1>1. RunsDistinct' /\ RowsOfStartedRuns'
  BY DEF AuditInv, RunsDistinct, RowsOfStartedRuns
<1>2. RowsOfPastAttempts'
  BY DEF AuditInv, RowsOfPastAttempts
<1>3. OneAuditRowPerAttempt'
  BY DEF AuditInv, OneAuditRowPerAttempt
<1>4. QED
  BY <1>1, <1>2, <1>3 DEF AuditInv

\* A process that has not failed goes on, or ends with its task.
LEMMA QuietWorker ==
  ASSUME TypeOK, AuditInv, NEW w \in Worker, NEW l, Goto(w, l), pc[w] # "failed",
         UNCHANGED <<audit, triggered>>,
         UNCHANGED task \/ task' = [task EXCEPT ![w] = None]
  PROVE  AuditInv'
<1>1. \A v \in Worker : task'[v] = task[v] \/ task'[v] = None
  BY DEF TypeOK
<1>2. \A v \in Worker : pc[v] = "failed" /\ task'[v] # None => pc'[v] = "failed"
  BY DEF Goto, TypeOK
<1>3. QED
  BY <1>1, <1>2, QuietStep

\* The row an attempt writes is the first of its attempt: afterwards the attempt
\* has failed or its task is over.
LEMMA RecordingStep ==
  ASSUME TypeOK, AuditInv, NEW w \in Worker, pc[w] \in Running,
         NEW row \in AuditRow, row.run = task[w].run, row.try = task[w].try,
         audit' = audit \cup {row}, UNCHANGED triggered,
         \/ Goto(w, "failed") /\ UNCHANGED task
         \/ Goto(w, "done") /\ task' = [task EXCEPT ![w] = None]
  PROVE  AuditInv'
<1>1. task[w] \in Task /\ task[w] # None
  BY WorkerTypes, NoneIsNothing DEF Finished, Running, Loading
<1>2. \A r \in audit : ~(r.run = row.run /\ r.try = row.try)
  BY <1>1 DEF AuditInv, RowsOfPastAttempts, Running, Loading
<1>3. RunsDistinct'
  BY DEF AuditInv, RunsDistinct, TypeOK
<1>4. RowsOfStartedRuns'
  BY <1>1 DEF AuditInv, RowsOfStartedRuns, RunsDistinct
<1>5. OneAuditRowPerAttempt'
  BY <1>2 DEF AuditInv, OneAuditRowPerAttempt
<1>6. ASSUME NEW v \in Worker, NEW r \in audit', task'[v] # None, r.run = task'[v].run
      PROVE  r.try <= task'[v].try /\ (r.try = task'[v].try => pc'[v] = "failed")
  <2>1. task'[v] = task[v] /\ (v = w => pc'[v] = "failed") /\ (v # w => pc'[v] = pc[v])
    BY <1>6 DEF Goto, TypeOK
  <2>2. CASE r \in audit
    BY <2>1, <2>2, <1>6 DEF AuditInv, RowsOfPastAttempts, Running, Loading
  <2>3. CASE r = row
    <3>1. v = w
      BY <1>1, <1>6, <2>1, <2>3 DEF AuditInv, RunsDistinct
    <3>2. row.try \in Int
      BY DEF AuditRow
    <3>3. QED
      BY <2>1, <2>3, <3>1, <3>2
  <2>4. QED
    BY <2>2, <2>3
<1>7. RowsOfPastAttempts'
  BY <1>6 DEF RowsOfPastAttempts
<1>8. QED
  BY <1>3, <1>4, <1>5, <1>7 DEF AuditInv

\* A new run has a number of its own, and a retry one that no row has.
LEMMA AuditSchedulers ==
  ASSUME TypeOK, AuditInv
  PROVE  /\ \A w \in Worker, p \in Part, m \in Modes : Trigger(w, p, m) => AuditInv'
         /\ \A w \in Worker : Retry(w) \/ GiveUp(w) => AuditInv'
         /\ (\E p \in Part : Restate(p)) \/ Deploy \/ UNCHANGED vars => AuditInv'
<1>n. triggered \in Int /\ \A r \in audit : r.run \in Int /\ r.try \in Int
  BY DEF TypeOK, AuditRow
<1>m. \A w \in Worker : task[w] # None => task[w].run \in Int /\ task[w].try \in Int
  BY DEF TypeOK, Task
<1>1. ASSUME NEW w \in Worker, NEW p \in Part, NEW m \in Modes, Trigger(w, p, m)
      PROVE  AuditInv'
  <2>1. /\ triggered' = triggered + 1 /\ UNCHANGED audit
        /\ task' = [task EXCEPT ![w] = [part |-> p, mode |-> m, run |-> triggered', try |-> 1]]
        /\ pc' = [pc EXCEPT ![w] = "ready"]
    BY <1>1 DEF Trigger, Goto, warehouseVars
  <2>2. task'[w].run = triggered' /\ \A v \in Worker \ {w} : task'[v] = task[v] /\ pc'[v] = pc[v]
    BY <2>1 DEF TypeOK
  <2>3. RunsDistinct'
    BY <1>n, <1>m, <2>1, <2>2 DEF AuditInv, RunsDistinct
  <2>4. RowsOfStartedRuns'
    BY <1>n, <2>1 DEF AuditInv, RowsOfStartedRuns
  <2>5. RowsOfPastAttempts'
    BY <1>n, <2>1, <2>2 DEF AuditInv, RowsOfPastAttempts, RowsOfStartedRuns
  <2>6. OneAuditRowPerAttempt'
    BY <2>1 DEF AuditInv, OneAuditRowPerAttempt
  <2>7. QED
    BY <2>3, <2>4, <2>5, <2>6 DEF AuditInv
<1>2. ASSUME NEW w \in Worker, Retry(w) PROVE AuditInv'
  <2>1. /\ pc[w] = "failed" /\ UNCHANGED <<audit, triggered>>
        /\ task' = [task EXCEPT ![w].try = @ + 1]
        /\ pc' = [pc EXCEPT ![w] = "ready"]
    BY <1>2 DEF Retry, Goto, warehouseVars
  <2>2. task[w] \in Task
    BY <2>1, WorkerTypes DEF Finished
  <2>3. /\ task'[w].run = task[w].run /\ task'[w].try = task[w].try + 1
        /\ task[w] # None
        /\ \A v \in Worker \ {w} : task'[v] = task[v] /\ pc'[v] = pc[v]
    BY <2>1, <2>2, NoneIsNothing DEF TypeOK, Task
  <2>4. RunsDistinct'
    BY <2>1, <2>3 DEF AuditInv, RunsDistinct
  <2>5. RowsOfStartedRuns'
    BY <2>1 DEF AuditInv, RowsOfStartedRuns
  <2>6. RowsOfPastAttempts'
    BY <1>n, <1>m, <2>1, <2>3 DEF AuditInv, RowsOfPastAttempts
  <2>7. OneAuditRowPerAttempt'
    BY <2>1 DEF AuditInv, OneAuditRowPerAttempt
  <2>8. QED
    BY <2>4, <2>5, <2>6, <2>7 DEF AuditInv
<1>3. ASSUME NEW w \in Worker, GiveUp(w) PROVE AuditInv'
  <2>1. \A v \in Worker : task'[v] = task[v] \/ task'[v] = None
    BY <1>3 DEF GiveUp, TypeOK
  <2>2. \A v \in Worker : pc[v] = "failed" /\ task'[v] # None => pc'[v] = "failed"
    BY <1>3 DEF GiveUp, Goto, TypeOK
  <2>3. QED
    BY <1>3, <2>1, <2>2, QuietStep DEF GiveUp, warehouseVars
<1>4. ASSUME (\E p \in Part : Restate(p)) \/ Deploy \/ UNCHANGED vars PROVE AuditInv'
  BY <1>4, QuietStep DEF Restate, Deploy, vars, ingestVars, warehouseVars
<1>5. QED
  BY <1>1, <1>2, <1>3, <1>4

\* Statements of an attempt, and failures, that record nothing.
LEMMA AuditQuiet ==
  ASSUME TypeOK, AuditInv, NEW w \in Worker
  PROVE  /\ Begin(w) \/ Fetch(w) \/ Skip(w) \/ CheckMisses(w) \/ Gate(w) => AuditInv'
         /\ Clear(w) \/ Open(w) \/ Write(w) \/ Publish(w) => AuditInv'
         /\ Put(w) \/ Merge(w) \/ Remove(w) \/ Commit(w) \/ Rollback(w) => AuditInv'
         /\ Raises(w) \/ Die(w) \/ WriteFails(w) => AuditInv'
         /\ LoadRaises(w) \/ StatementFails(w) => AuditInv'
<1> USE QuietWorker DEF Succeed, warehouseVars
<1>1. Begin(w) \/ Fetch(w) \/ Skip(w) \/ CheckMisses(w) \/ Gate(w) => AuditInv'
  BY DEF Begin, Fetch, Skip, CheckMisses, Gate
<1>2. Clear(w) \/ Open(w) \/ Write(w) \/ Publish(w) => AuditInv'
  BY DEF Clear, Open, Write, Publish
<1>3. Put(w) \/ Merge(w) \/ Remove(w) \/ Commit(w) \/ Rollback(w) => AuditInv'
  BY DEF Put, Merge, Remove, Commit, Rollback, Reply
<1>4. Raises(w) \/ Die(w) \/ WriteFails(w) => AuditInv'
  BY DEF Raises, Die, WriteFails, Fail, Running, Loading
<1>5. LoadRaises(w) \/ StatementFails(w) => AuditInv'
  BY DEF LoadRaises, StatementFails, Loading
<1>6. QED
  BY <1>1, <1>2, <1>3, <1>4, <1>5

\* The two statements that record an attempt.
LEMMA AuditRecords ==
  ASSUME TypeOK, AuditInv, NEW w \in Worker
  PROVE  AuditFailure(w) \/ AuditSuccess(w) => AuditInv'
<1>1. ASSUME AuditFailure(w) PROVE AuditInv'
  <2>1. pc[w] \in Running /\ Goto(w, "failed") /\ UNCHANGED <<task, triggered>>
    BY <1>1 DEF AuditFailure, Running
  <2>2. PICK row \in AuditRow : /\ row = AuditOf(w, "failed", 0, 0)
                                /\ audit' = audit \cup {row}
    BY <1>1, <2>1, AuditTypes DEF AuditFailure, WriteAudit, Running
  <2>3. row.run = task[w].run /\ row.try = task[w].try
    BY <2>2 DEF AuditOf
  <2>4. QED
    BY <2>1, <2>2, <2>3, RecordingStep
<1>2. ASSUME AuditSuccess(w) PROVE AuditInv'
  <2>1. /\ pc[w] \in Running /\ proc[w] \in Proc /\ UNCHANGED triggered
        /\ \/ Goto(w, "failed") /\ UNCHANGED task
           \/ Goto(w, "done") /\ task' = [task EXCEPT ![w] = None]
    BY <1>2, WorkerTypes DEF AuditSuccess, Succeed, Running
  <2>2. PICK row \in AuditRow : /\ row = AuditOf(w, "loaded", proc[w].ins, proc[w].upd)
                                /\ audit' = audit \cup {row}
    BY <1>2, <2>1, AuditTypes DEF AuditSuccess, WriteAudit, Proc
  <2>3. row.run = task[w].run /\ row.try = task[w].try
    BY <2>2 DEF AuditOf
  <2>4. QED
    BY <2>1, <2>2, <2>3, RecordingStep
<1>3. QED
  BY <1>1, <1>2

\* No attempt is recorded twice, and none before it is made.
LEMMA AuditHolds == Spec => []AuditInv
<1>1. TypeOK /\ AuditInv /\ [Next]_vars => AuditInv'
  <2> SUFFICES ASSUME TypeOK, AuditInv, [Next]_vars PROVE AuditInv'
    OBVIOUS
  <2>1. ASSUME NEW w \in Worker, NEW p \in Part, NEW m \in Modes, Trigger(w, p, m)
        PROVE  AuditInv'
    BY <2>1, AuditSchedulers
  <2>2. ASSUME NEW w \in Worker, Progress(w) PROVE AuditInv'
    BY <2>2, AuditSchedulers, AuditQuiet, AuditRecords DEF Progress
  <2>3. ASSUME NEW w \in Worker, Die(w) \/ WriteFails(w) \/ StatementFails(w)
        PROVE  AuditInv'
    BY <2>3, AuditQuiet
  <2>4. CASE (\E p \in Part : Restate(p)) \/ Deploy \/ UNCHANGED vars
    BY <2>4, AuditSchedulers
  <2>5. QED
    BY <2>1, <2>2, <2>3, <2>4 DEF Next, Rest
<1>2. QED
  BY <1>1, AuditInit, TypeCorrect, PTL DEF Spec

\* write_audit leaves "one audit row per attempt": no attempt, whatever happens
\* to its replies and its retries, is recorded twice.
THEOREM AuditOnce == Spec => []OneAuditRowPerAttempt
<1>1. AuditInv => OneAuditRowPerAttempt
  BY DEF AuditInv
<1>2. QED
  BY <1>1, AuditHolds, PTL

----------------------------------------------------------------------------
(* The counts of an audit row                                               *)

\* The hours at which two tables differ.
Diff(new, old) == {h \in Hour : new[h] # old[h]}

\* From its MERGE to its commit w has either changed RAW, and counted that, or is about to
\* with its transaction; after the commit it has.
Counted(w) ==
  /\ pc[w] \in {"remove", "commit"} =>
       IF txn[w] = None
       THEN proc[w].wrote = proc[w].ins + proc[w].upd
       ELSE /\ proc[w].wrote = 0
            /\ Cardinality(Diff(txn[w], raw[PartOf(w)])) = proc[w].ins + proc[w].upd
  /\ pc[w] = "audit" => proc[w].wrote = proc[w].ins + proc[w].upd

CountsInv == \A w \in Worker : Counted(w)

\* A MERGE reports what it changes: it inserts where there is no row, and updates where the
\* row is another payload's.
LEMMA MergeCounts ==
  ASSUME NEW rows \in Rows, NEW f \in File
  PROVE  Cardinality(Diff(Merged(rows, f), rows))
           = Cardinality(Inserted(rows, f)) + Cardinality(Updated(rows, f))
<1> DEFINE I == Inserted(rows, f)
           U == Updated(rows, f)
<1>1. I \subseteq Hour /\ U \subseteq Hour
  BY WarehouseAssumption DEF Inserted, Updated, Accepted, File
<1>2. IsFiniteSet(I) /\ IsFiniteSet(U)
  BY <1>1, FS_Subset, WarehouseAssumption
<1>3. I \cap U = {}
  BY DEF Inserted, Updated
<1>4. Diff(Merged(rows, f), rows) = I \cup U
  <2>1. [src |-> f.src, code |-> f.code] # None
    BY NoneIsNothing DEF File, Row
  <2>2. \A h \in I \cup U : [src |-> f.src, code |-> f.code] # rows[h]
    BY <2>1 DEF Inserted, Updated
  <2>3. \A h \in Hour : Merged(rows, f)[h]
          = IF h \in I \cup U THEN [src |-> f.src, code |-> f.code] ELSE rows[h]
    BY DEF Merged
  <2> HIDE DEF I, U
  <2>4. QED
    BY <1>1, <2>2, <2>3 DEF Diff
<1>5. Cardinality(I \cup U) = Cardinality(I) + Cardinality(U)
  <2> HIDE DEF I, U
  <2>1. Cardinality(I \cup U) = Cardinality(I) + Cardinality(U) - Cardinality(I \cap U)
    BY <1>2, FS_Union
  <2>2. Cardinality(I \cap U) = 0 /\ Cardinality(I) \in Nat /\ Cardinality(U) \in Nat
    BY <1>2, <1>3, FS_EmptySet, FS_CardinalityType
  <2>3. QED
    BY <2>1, <2>2
<1>6. QED
  BY <1>4, <1>5

\* Another process's table is changed only while it has no transaction open.
LEMMA CountStep ==
  ASSUME TypeOK, CountsInv, NEW w \in Worker, Counted(w)',
         \A v \in Worker \ {w} : /\ pc'[v] = pc[v] /\ task'[v] = task[v]
                                 /\ proc'[v] = proc[v] /\ txn'[v] = txn[v],
         UNCHANGED raw \/ \A v \in Worker \ {w} : txn[v] = None
  PROVE  CountsInv'
<1>1. ASSUME NEW v \in Worker \ {w} PROVE Counted(v)'
  BY DEF CountsInv, Counted, PartOf
<1>2. QED
  BY <1>1 DEF CountsInv

\* w goes on to a statement before its MERGE or after a failed one.
LEMMA CountKept ==
  ASSUME TypeOK, CountsInv, NEW w \in Worker,
         NEW l \in Running \ {"audit", "remove", "commit"}, Goto(w, l),
         UNCHANGED <<raw, txn, task>>,
         \A v \in Worker \ {w} : proc'[v] = proc[v]
  PROVE  CountsInv'
<1>1. pc'[w] = l /\ \A v \in Worker \ {w} : pc'[v] = pc[v]
  BY DEF Goto, TypeOK
<1>2. Counted(w)'
  BY <1>1 DEF Counted
<1>3. QED
  BY <1>1, <1>2, CountStep

\* w is no process any more, or not yet.
LEMMA CountEnded ==
  ASSUME TypeOK, CountsInv, NEW w \in Worker, NEW l, l \notin Running, Goto(w, l),
         txn'[w] = None, UNCHANGED raw,
         \A v \in Worker \ {w} : task'[v] = task[v] /\ proc'[v] = proc[v] /\ txn'[v] = txn[v]
  PROVE  CountsInv'
<1>1. pc'[w] = l /\ \A v \in Worker \ {w} : pc'[v] = pc[v]
  BY DEF Goto, TypeOK
<1>2. Counted(w)'
  BY <1>1 DEF Counted, Running, Loading
<1>3. QED
  BY <1>1, <1>2, CountStep

\* What the schedulers, the producer and deployments do counts nothing.
LEMMA CountOutside ==
  ASSUME TypeOK, TxnPlaced, CountsInv
  PROVE  /\ \A w \in Worker, p \in Part, m \in Modes : Trigger(w, p, m) => CountsInv'
         /\ \A w \in Worker : Retry(w) \/ GiveUp(w) => CountsInv'
         /\ (\E p \in Part : Restate(p)) \/ Deploy \/ UNCHANGED vars => CountsInv'
<1>1. ASSUME NEW w \in Worker, NEW p \in Part, NEW m \in Modes, Trigger(w, p, m)
      PROVE  CountsInv'
  BY <1>1, CountEnded DEF Trigger, warehouseVars, TxnPlaced, TypeOK, Finished, Running, Loading
<1>2. ASSUME NEW w \in Worker, Retry(w) \/ GiveUp(w) PROVE CountsInv'
  BY <1>2, CountEnded DEF Retry, GiveUp, warehouseVars, TxnPlaced, TypeOK, Running, Loading
<1>3. ASSUME (\E p \in Part : Restate(p)) \/ Deploy \/ UNCHANGED vars PROVE CountsInv'
  BY <1>3 DEF Restate, Deploy, vars, ingestVars, warehouseVars, CountsInv, Counted, PartOf
<1>4. QED
  BY <1>1, <1>2, <1>3

\* Statements and failures that leave RAW and the counts alone.
LEMMA CountQuiet ==
  ASSUME TypeOK, TxnPlaced, CountsInv, NEW w \in Worker
  PROVE  /\ Begin(w) \/ Fetch(w) \/ Skip(w) \/ CheckMisses(w) \/ Gate(w) => CountsInv'
         /\ Clear(w) \/ Open(w) \/ Write(w) \/ Publish(w) => CountsInv'
         /\ Put(w) \/ Remove(w) \/ Rollback(w) => CountsInv'
         /\ Raises(w) \/ Die(w) \/ WriteFails(w) => CountsInv'
         /\ LoadRaises(w) \/ StatementFails(w) => CountsInv'
<1>e. ASSUME NEW l \in {"done", "failed"}, Goto(w, l), EndProcess(w), UNCHANGED raw,
             UNCHANGED task \/ task' = [task EXCEPT ![w] = None]
      PROVE  CountsInv'
  BY <1>e, CountEnded DEF EndProcess, RollbackTxn, TypeOK, WarehouseTypeOK, Running, Loading
<1>1. CheckMisses(w) \/ Gate(w) \/ Clear(w) \/ Open(w) \/ Write(w) => CountsInv'
  BY CountKept DEF CheckMisses, Gate, Clear, Open, Write, warehouseVars, Running, Loading
<1>2. ASSUME Begin(w) \/ Fetch(w) PROVE CountsInv'
  <2>1. UNCHANGED <<raw, txn, task>> /\ \A v \in Worker \ {w} : proc'[v] = proc[v]
    BY <1>2 DEF Begin, Fetch, TypeOK, warehouseVars
  <2>2. \E l \in {"fetch", "gate", "check"} : Goto(w, l)
    BY <1>2 DEF Begin, Fetch
  <2>3. QED
    BY <2>1, <2>2, CountKept DEF Running
<1>3. Skip(w) => CountsInv'
  BY <1>e DEF Skip, Succeed
<1>4. ASSUME Publish(w) PROVE CountsInv'
  <2>1. CASE task[w].mode.land
    BY <1>4, <1>e, <2>1 DEF Publish, Succeed
  <2>2. CASE ~task[w].mode.land
    BY <1>4, <2>2, CountKept DEF Publish, Running, Loading
  <2>3. QED
    BY <2>1, <2>2
<1>5. Put(w) => CountsInv'
  BY CountKept DEF Put, Reply, Running, Loading
<1>6. ASSUME Remove(w) PROVE CountsInv'
  <2>1. /\ pc[w] = "remove" /\ pc'[w] \in {"commit", "rollback"}
        /\ UNCHANGED <<raw, txn, task, proc>>
        /\ \A v \in Worker \ {w} : pc'[v] = pc[v]
    BY <1>6 DEF Remove, Reply, Goto, TypeOK
  <2>2. Counted(w)'
    BY <2>1 DEF CountsInv, Counted, PartOf
  <2>3. QED
    BY <2>1, <2>2, CountStep
<1>7. ASSUME Rollback(w) PROVE CountsInv'
  <2>1. /\ pc'[w] = "auditfail" /\ UNCHANGED <<raw, task, proc>>
        /\ \A v \in Worker \ {w} : pc'[v] = pc[v] /\ txn'[v] = txn[v]
    BY <1>7 DEF Rollback, RollbackTxn, Goto, TypeOK, WarehouseTypeOK
  <2>2. Counted(w)'
    BY <2>1 DEF Counted
  <2>3. QED
    BY <2>1, <2>2, CountStep
<1>8. Raises(w) \/ Die(w) \/ WriteFails(w) => CountsInv'
  BY <1>e DEF Raises, Die, Fail, WriteFails
<1>9. LoadRaises(w) \/ StatementFails(w) => CountsInv'
  BY CountKept DEF LoadRaises, StatementFails, warehouseVars, Running, Loading
<1>10. QED
  BY <1>1, <1>2, <1>3, <1>4, <1>5, <1>6, <1>7, <1>8, <1>9

\* The MERGE counts what it changes in RAW at once, or leaves it to the transaction.
LEMMA CountMerge ==
  ASSUME TypeOK, TxnPlaced, LockInv, CountsInv, NEW w \in Worker, Merge(w)
  PROVE  CountsInv'
<1> DEFINE p == PartOf(w)
           f == stage[p]
           rows == IF f = None THEN raw[p] ELSE Merged(raw[p], f)
           ins == IF f = None THEN 0 ELSE Cardinality(Inserted(raw[p], f))
           upd == IF f = None THEN 0 ELSE Cardinality(Updated(raw[p], f))
           n == Cardinality(Changed(p))
<1>1. p \in Part /\ proc[w] \in Proc /\ pc[w] = "merge"
  BY WorkerTypes DEF Merge, Finished, Running, Loading
<1>2. raw[p] \in Rows /\ f \in File \cup {None}
  BY <1>1 DEF TypeOK, WarehouseTypeOK
<1>3. rows \in Rows /\ rows # None
  BY <1>2, MergeTypes, NoneIsNothing
<1>4. Cardinality(Diff(rows, raw[p])) = ins + upd
  <2>1. CASE f = None
    <3>1. Diff(rows, raw[p]) = {}
      BY <2>1 DEF Diff
    <3>2. QED
      BY <2>1, <3>1, FS_EmptySet
  <2>2. CASE f # None
    BY <1>2, <2>2, MergeCounts
  <2>3. QED
    BY <2>1, <2>2
<1>5. ExecuteMerge(w, p, rows) /\ UNCHANGED task /\ PartOf(w)' = p
  BY DEF Merge, PartOf
<1>6. proc' = [proc EXCEPT ![w] = [proc[w] EXCEPT !.ins = ins, !.upd = upd, !.wrote = n]]
  BY <1>1 DEF Merge, TypeOK, Proc
<1>7. /\ pc'[w] \in {"remove", "rollback"}
      /\ \A v \in Worker \ {w} : pc'[v] = pc[v] /\ proc'[v] = proc[v]
  BY DEF Merge, Reply, Goto, TypeOK
<1>8. txn[w] = None
  BY <1>1 DEF TxnPlaced
<1> HIDE DEF p, f, rows, ins, upd, n
<1>9. proc'[w].ins = ins /\ proc'[w].upd = upd /\ proc'[w].wrote = n
  BY <1>1, <1>6 DEF TypeOK, Proc
<1>10. CASE Autocommit
  <2>1. raw' = [raw EXCEPT ![p] = rows] /\ UNCHANGED txn
    BY <1>5, <1>10 DEF ExecuteMerge
  <2>2. Changed(p) = Diff(rows, raw[p])
    BY <1>1, <2>1 DEF Changed, Diff, TypeOK, WarehouseTypeOK
  <2>3. Counted(w)'
    BY <1>4, <1>7, <1>8, <1>9, <2>1, <2>2 DEF Counted, n
  <2>4. \A v \in Worker : txn[v] = None
    BY <1>10 DEF LockInv, OneTxn
  <2>5. QED
    BY <1>5, <1>7, <2>1, <2>3, <2>4, CountStep
<1>11. CASE ~Autocommit
  <2>1. txn' = [txn EXCEPT ![w] = rows] /\ UNCHANGED raw
    BY <1>5, <1>11 DEF ExecuteMerge
  <2>2. txn'[w] = rows /\ \A v \in Worker \ {w} : txn'[v] = txn[v]
    BY <2>1 DEF TypeOK, WarehouseTypeOK
  <2>3. n = 0
    <3>1. Changed(p) = {}
      BY <2>1 DEF Changed
    <3>2. QED
      BY <3>1, FS_EmptySet DEF n
  <2>4. Counted(w)'
    BY <1>3, <1>4, <1>5, <1>7, <1>9, <2>1, <2>2, <2>3 DEF Counted
  <2>5. QED
    BY <1>5, <1>7, <2>1, <2>2, <2>4, CountStep
<1>12. QED
  BY <1>10, <1>11

\* The commit counts what the transaction changes: nobody has written RAW since the MERGE.
LEMMA CountCommit ==
  ASSUME TypeOK, LockInv, CountsInv, NEW w \in Worker, Commit(w)
  PROVE  CountsInv'
<1> DEFINE p == PartOf(w)
           n == Cardinality(Changed(p))
<1>1. pc[w] = "commit" /\ p \in Part /\ proc[w] \in Proc
  BY WorkerTypes DEF Commit, Finished, Running, Loading
<1>2. /\ pc'[w] \in {"audit", "rollback"} /\ txn'[w] = None /\ UNCHANGED task
      /\ \A v \in Worker \ {w} : pc'[v] = pc[v] /\ proc'[v] = proc[v] /\ txn'[v] = txn[v]
  BY DEF Commit, CommitTxn, Reply, Goto, TypeOK, WarehouseTypeOK
<1>3. proc' = [proc EXCEPT ![w] = [proc[w] EXCEPT !.wrote = @ + n]]
  BY DEF Commit
<1>4. CommitTxn(w, p)
  BY DEF Commit
<1> HIDE DEF p, n
<1>5. /\ proc'[w].wrote = proc[w].wrote + n
      /\ proc'[w].ins = proc[w].ins /\ proc'[w].upd = proc[w].upd
  BY <1>1, <1>3 DEF TypeOK, Proc
<1>6. proc[w].ins \in Nat /\ proc[w].upd \in Nat /\ proc[w].wrote \in Nat
  BY <1>1 DEF Proc
<1>7. CASE txn[w] = None
  <2>1. UNCHANGED raw
    BY <1>4, <1>7 DEF CommitTxn
  <2>2. n = 0
    <3>1. Changed(p) = {}
      BY <2>1 DEF Changed
    <3>2. QED
      BY <3>1, FS_EmptySet DEF n
  <2>3. proc[w].wrote = proc[w].ins + proc[w].upd
    BY <1>1, <1>7 DEF CountsInv, Counted
  <2>4. Counted(w)'
    BY <1>2, <1>5, <1>6, <2>2, <2>3 DEF Counted
  <2>5. QED
    BY <1>2, <2>1, <2>4, CountStep
<1>8. CASE txn[w] # None
  <2>1. /\ proc[w].wrote = 0
        /\ Cardinality(Diff(txn[w], raw[p])) = proc[w].ins + proc[w].upd
    BY <1>1, <1>8 DEF CountsInv, Counted, p
  <2>2. raw'[p] = txn[w]
    BY <1>1, <1>4, <1>8 DEF CommitTxn, TypeOK, WarehouseTypeOK
  <2>3. Changed(p) = Diff(txn[w], raw[p])
    BY <2>2 DEF Changed, Diff
  <2>4. n = proc[w].ins + proc[w].upd
    BY <2>1, <2>3 DEF n
  <2>5. Counted(w)'
    BY <1>2, <1>5, <1>6, <2>1, <2>4 DEF Counted
  <2>6. \A v \in Worker \ {w} : txn[v] = None
    BY <1>8 DEF LockInv, OneTxn
  <2>7. QED
    BY <1>2, <2>5, <2>6, CountStep
<1>9. QED
  BY <1>7, <1>8

\* Recording an attempt ends its process.
LEMMA CountRecord ==
  ASSUME TypeOK, TxnPlaced, CountsInv, NEW w \in Worker, AuditFailure(w) \/ AuditSuccess(w)
  PROVE  CountsInv'
<1>1. txn[w] = None
  BY DEF AuditFailure, AuditSuccess, TxnPlaced
<1>2. /\ UNCHANGED raw /\ txn'[w] = None
      /\ \A v \in Worker \ {w} : txn'[v] = txn[v] /\ proc'[v] = proc[v] /\ task'[v] = task[v]
  BY <1>1 DEF AuditFailure, AuditSuccess, Succeed, EndProcess, WriteAudit, CommitTxn,
              RollbackTxn, TypeOK, WarehouseTypeOK
<1>3. Goto(w, "done") \/ Goto(w, "failed")
  BY DEF AuditFailure, AuditSuccess, Succeed
<1>4. QED
  BY <1>2, <1>3, CountEnded DEF Running, Loading

\* Every step keeps the counts.
LEMMA CountNext == TypeOK /\ TxnPlaced /\ LockInv /\ CountsInv /\ [Next]_vars => CountsInv'
<1> SUFFICES ASSUME TypeOK, TxnPlaced, LockInv, CountsInv, [Next]_vars PROVE CountsInv'
  OBVIOUS
<1>1. ASSUME NEW w \in Worker, NEW p \in Part, NEW m \in Modes, Trigger(w, p, m)
      PROVE  CountsInv'
  BY <1>1, CountOutside
<1>2. ASSUME NEW w \in Worker, Progress(w) PROVE CountsInv'
  BY <1>2, CountOutside, CountQuiet, CountMerge, CountCommit, CountRecord DEF Progress
<1>3. ASSUME NEW w \in Worker, Die(w) \/ WriteFails(w) \/ StatementFails(w)
      PROVE  CountsInv'
  BY <1>3, CountQuiet
<1>4. CASE (\E p \in Part : Restate(p)) \/ Deploy \/ UNCHANGED vars
  BY <1>4, CountOutside
<1>5. QED
  BY <1>1, <1>2, <1>3, <1>4 DEF Next, Rest

\* What an attempt counts is what it changes.
LEMMA CountHolds == Spec => []CountsInv
<1>1. Init => CountsInv
  BY DEF Init, CountsInv, Counted
<1>2. QED
  BY <1>1, CountNext, TypeCorrect, PlacedHolds, LockHolds, PTL DEF Spec

\* ROWS_INSERTED and ROWS_UPDATED of a 'loaded' row are what its attempt changed in RAW,
\* under either AUTOCOMMIT, whatever overlaps and whatever replies were lost: what the
\* MERGE reported is still so when the row is written.
THEOREM CountsHonest == Spec => LoadedCountsHonest
<1>1. ASSUME TypeOK, TxnPlaced, AuditInv, CountsInv, [Next]_vars, NEW w \in Worker,
             NEW r \in audit' \ audit, task[w] # None, r.run = task[w].run,
             r.status = "loaded"
      PROVE  r.ins + r.upd = proc[w].wrote + Cardinality(Changed(PartOf(w)))
  <2>1. PICK v \in Worker : AuditFailure(v) \/ AuditSuccess(v)
    BY <1>1, AuditWriters
  <2>2. AuditSuccess(v) /\ pc[v] = "audit" /\ r.run = task[v].run
    BY <1>1, <2>1 DEF AuditFailure, AuditSuccess, WriteAudit, AuditOf
  <2>3. v = w
    BY <1>1, <2>2 DEF AuditInv, RunsDistinct, TypeOK, Finished
  <2>4. raw' = raw
    <3>1. txn[v] = None
      BY <1>1, <2>2 DEF TxnPlaced
    <3>2. QED
      BY <2>2, <3>1 DEF AuditSuccess, WriteAudit, CommitTxn
  <2>5. Cardinality(Changed(PartOf(w))) = 0
    <3>1. Changed(PartOf(w)) = {}
      BY <2>4 DEF Changed
    <3>2. QED
      BY <3>1, FS_EmptySet
  <2>6. proc[w] \in Proc
    BY <1>1, <2>2, <2>3, WorkerTypes DEF Running
  <2>7. r.ins = proc[w].ins /\ r.upd = proc[w].upd /\ proc[w].wrote = proc[w].ins + proc[w].upd
    BY <1>1, <2>2, <2>3 DEF AuditSuccess, WriteAudit, AuditOf, CountsInv, Counted
  <2>8. QED
    BY <2>5, <2>6, <2>7 DEF Proc
<1>2. TypeOK /\ TxnPlaced /\ AuditInv /\ CountsInv /\ [Next]_vars =>
        [\A w \in Worker, r \in audit' \ audit :
           task[w] # None /\ r.run = task[w].run /\ r.status = "loaded"
             => r.ins + r.upd = proc[w].wrote + Cardinality(Changed(PartOf(w)))]_vars
  BY <1>1
<1>3. QED
  BY <1>2, TypeCorrect, PlacedHolds, AuditHolds, CountHolds, PTL DEF Spec, LoadedCountsHonest

=============================================================================
