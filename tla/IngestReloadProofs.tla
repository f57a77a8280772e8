------------------------ MODULE IngestReloadProofs ------------------------
(***************************************************************************)
(* A reload changes nothing and loses nothing, whatever overlaps and under *)
(* either AUTOCOMMIT: the proof that ReloadChangesNothing holds for every  *)
(* value of the constants.                                                 *)
(***************************************************************************)
EXTENDS IngestProofs

\* new keeps the rows of old: none is lost, and one made from the same payload
\* is the same row.
Keeps(old, new) ==
  \A h \in Hour : old[h] # None => /\ new[h] # None
                                   /\ new[h].src = old[h].src => new[h] = old[h]

\* What ReloadChangesNothing says of a step.
RawKept == \A p \in Part : Keeps(raw[p], raw'[p])

\* At most one transaction is open, of a live process, and none under AUTOCOMMIT:
\* while it is open nothing else changes RAW.
OneTxn ==
  /\ Autocommit => \A w \in Worker : txn[w] = None
  /\ \A w \in Worker : txn[w] # None => pc[w] \in Running
  /\ \A v, w \in Worker : txn[v] # None /\ txn[w] # None => v = w

\* The inductive invariant: what an open transaction is about to commit keeps the
\* rows of its partition as they are now, not only as they were at the MERGE.
LockInv ==
  OneTxn /\ \A w \in Worker : txn[w] # None => Keeps(raw[PartOf(w)], txn[w])

\* No transaction is open in the initial states.
LEMMA LockInit == Init => LockInv
BY DEF Init, WarehouseInit, LockInv, OneTxn

\* A MERGE keeps the rows it finds: it writes where there is none or where the
\* payloads differ.
LEMMA MergeKeeps ==
  ASSUME NEW rows \in Rows, NEW f \in File
  PROVE  Keeps(rows, Merged(rows, f))
BY NoneIsNothing DEF Keeps, Merged, Inserted, Updated, Rows, Row, File

\* A step that leaves RAW alone, and opens no transaction.
LEMMA QuietTxn ==
  ASSUME LockInv, UNCHANGED raw,
         \A v \in Worker :
           \/ txn'[v] = None
           \/ txn'[v] = txn[v] /\ (pc[v] \in Running => pc'[v] \in Running)
                /\ (pc[v] \in Running => task'[v] = task[v])
  PROVE  LockInv' /\ RawKept
<1>1. OneTxn'
  BY DEF LockInv, OneTxn
<1>2. ASSUME NEW w \in Worker, txn'[w] # None PROVE Keeps(raw[PartOf(w)], txn[w])'
  <2>1. txn'[w] = txn[w] /\ task'[w] = task[w] /\ Keeps(raw[PartOf(w)], txn[w])
    BY <1>2 DEF LockInv, OneTxn
  <2>2. QED
    BY <2>1 DEF Keeps, PartOf
<1>3. RawKept
  BY DEF RawKept, Keeps
<1>4. QED
  BY <1>1, <1>2, <1>3 DEF LockInv

\* The process of w goes on, or ends with its transaction.
LEMMA QuietWorkerTxn ==
  ASSUME TypeOK, LockInv, NEW w \in Worker, UNCHANGED raw,
         \A v \in Worker \ {w} : pc'[v] = pc[v] /\ task'[v] = task[v],
         \/ UNCHANGED <<txn, task>> /\ pc'[w] \in Running
         \/ UNCHANGED txn /\ pc[w] \notin Running
         \/ RollbackTxn(w)
  PROVE  LockInv' /\ RawKept
<1>1. CASE RollbackTxn(w)
  BY <1>1, QuietTxn DEF RollbackTxn, TypeOK, WarehouseTypeOK
<1>2. CASE UNCHANGED <<txn, task>> /\ pc'[w] \in Running
  BY <1>2, QuietTxn
<1>3. CASE UNCHANGED txn /\ pc[w] \notin Running
  BY <1>3, QuietTxn
<1>4. QED
  BY <1>1, <1>2, <1>3

\* A MERGE by w, under AUTOCOMMIT or into w's transaction.
LEMMA MergeTxn ==
  ASSUME TypeOK, LockInv, NEW w \in Worker, NEW p \in Part, p = PartOf(w),
         NEW rows \in Rows, Keeps(raw[p], rows), ExecuteMerge(w, p, rows),
         UNCHANGED task, pc'[w] \in Running, \A v \in Worker \ {w} : pc'[v] = pc[v]
  PROVE  LockInv' /\ RawKept
<1>1. CASE Autocommit
  <2>1. raw' = [raw EXCEPT ![p] = rows] /\ UNCHANGED txn
    BY <1>1 DEF ExecuteMerge
  <2>2. RawKept
    BY <2>1 DEF RawKept, Keeps, TypeOK, WarehouseTypeOK
  <2>3. QED
    BY <1>1, <2>1, <2>2 DEF LockInv, OneTxn
<1>2. CASE ~Autocommit
  <2>1. /\ txn' = [txn EXCEPT ![w] = rows] /\ UNCHANGED raw
        /\ \A v \in Worker \ {w} : txn[v] = None
    BY <1>2 DEF ExecuteMerge, TableUnlocked
  <2>2. txn'[w] = rows /\ \A v \in Worker \ {w} : txn'[v] = None
    BY <2>1 DEF TypeOK, WarehouseTypeOK
  <2>3. OneTxn'
    BY <1>2, <2>2 DEF OneTxn
  <2>4. Keeps(raw[PartOf(w)], txn[w])'
    BY <2>1, <2>2 DEF Keeps, PartOf
  <2>5. RawKept
    BY <2>1 DEF RawKept, Keeps
  <2>6. QED
    BY <2>2, <2>3, <2>4, <2>5 DEF LockInv
<1>3. QED
  BY <1>1, <1>2

\* A commit by w, of a load or of an audit row.
LEMMA CommitLock ==
  ASSUME TypeOK, LockInv, NEW w \in Worker, PartOf(w) \in Part, CommitTxn(w, PartOf(w)),
         \A v \in Worker \ {w} : pc'[v] = pc[v] /\ task'[v] = task[v]
  PROVE  LockInv' /\ RawKept
<1>1. txn'[w] = None /\ \A v \in Worker \ {w} : txn'[v] = txn[v]
  BY DEF CommitTxn, TypeOK, WarehouseTypeOK
<1>2. CASE txn[w] = None
  BY <1>1, <1>2, QuietTxn DEF CommitTxn
<1>3. CASE txn[w] # None
  <2>1. \A v \in Worker : txn'[v] = None
    BY <1>1, <1>3 DEF LockInv, OneTxn
  <2>2. raw' = [raw EXCEPT ![PartOf(w)] = txn[w]] /\ Keeps(raw[PartOf(w)], txn[w])
    BY <1>3 DEF CommitTxn, LockInv
  <2>3. RawKept
    BY <2>2 DEF RawKept, Keeps, TypeOK, WarehouseTypeOK
  <2>4. QED
    BY <2>1, <2>3 DEF LockInv, OneTxn
<1>4. QED
  BY <1>2, <1>3

\* Schedulers, producer and deployments.
LEMMA LockOutside ==
  ASSUME TypeOK, LockInv
  PROVE  /\ \A w \in Worker, p \in Part, m \in Modes :
              Trigger(w, p, m) => LockInv' /\ RawKept
         /\ \A w \in Worker : Retry(w) \/ GiveUp(w) => LockInv' /\ RawKept
         /\ (\E p \in Part : Restate(p)) \/ Deploy \/ UNCHANGED vars => LockInv' /\ RawKept
<1>1. ASSUME NEW w \in Worker, NEW p \in Part, NEW m \in Modes, Trigger(w, p, m)
      PROVE  LockInv' /\ RawKept
  <2>1. pc[w] \notin Running /\ UNCHANGED <<raw, txn>>
    BY <1>1 DEF Trigger, warehouseVars, Finished, Running, Loading
  <2>2. \A v \in Worker \ {w} : pc'[v] = pc[v] /\ task'[v] = task[v]
    BY <1>1 DEF Trigger, Goto, TypeOK
  <2>3. QED
    BY <2>1, <2>2, QuietWorkerTxn
<1>2. ASSUME NEW w \in Worker, Retry(w) \/ GiveUp(w) PROVE LockInv' /\ RawKept
  <2>1. pc[w] \notin Running /\ UNCHANGED <<raw, txn>>
    BY <1>2 DEF Retry, GiveUp, warehouseVars, Running, Loading
  <2>2. \A v \in Worker \ {w} : pc'[v] = pc[v] /\ task'[v] = task[v]
    BY <1>2 DEF Retry, GiveUp, Goto, TypeOK
  <2>3. QED
    BY <2>1, <2>2, QuietWorkerTxn
<1>3. ASSUME (\E p \in Part : Restate(p)) \/ Deploy \/ UNCHANGED vars
      PROVE  LockInv' /\ RawKept
  BY <1>3, QuietTxn DEF Restate, Deploy, vars, ingestVars, warehouseVars
<1>4. QED
  BY <1>1, <1>2, <1>3

\* Statements and failures that leave RAW alone.
LEMMA LockQuiet ==
  ASSUME TypeOK, LockInv, NEW w \in Worker
  PROVE  /\ Begin(w) \/ Fetch(w) \/ Skip(w) \/ CheckMisses(w) \/ Gate(w)
              => LockInv' /\ RawKept
         /\ Clear(w) \/ Open(w) \/ Write(w) \/ Publish(w) => LockInv' /\ RawKept
         /\ Put(w) \/ Remove(w) \/ Rollback(w) => LockInv' /\ RawKept
         /\ Raises(w) \/ Die(w) \/ WriteFails(w) => LockInv' /\ RawKept
         /\ LoadRaises(w) \/ StatementFails(w) => LockInv' /\ RawKept
<1>g. ASSUME NEW l \in Running, Goto(w, l), UNCHANGED <<raw, txn, task>>
      PROVE  LockInv' /\ RawKept
  BY <1>g, QuietWorkerTxn DEF Goto, TypeOK
<1>e. ASSUME NEW l, Goto(w, l), EndProcess(w), UNCHANGED raw,
             UNCHANGED task \/ task' = [task EXCEPT ![w] = None]
      PROVE  LockInv' /\ RawKept
  BY <1>e, QuietWorkerTxn DEF Goto, EndProcess, TypeOK
<1>1. Begin(w) \/ Fetch(w) \/ CheckMisses(w) \/ Gate(w) => LockInv' /\ RawKept
  BY <1>g DEF Begin, Fetch, CheckMisses, Gate, warehouseVars, Running
<1>2. Skip(w) \/ Publish(w) => LockInv' /\ RawKept
  BY <1>g, <1>e DEF Skip, Publish, Succeed, Running, Loading
<1>3. Clear(w) \/ Open(w) \/ Write(w) => LockInv' /\ RawKept
  BY <1>g DEF Clear, Open, Write, warehouseVars, Running
<1>4. Put(w) \/ Remove(w) => LockInv' /\ RawKept
  BY <1>g DEF Put, Remove, Reply, Running, Loading
<1>5. Rollback(w) => LockInv' /\ RawKept
  BY QuietWorkerTxn DEF Rollback, Goto, TypeOK
<1>6. Raises(w) \/ Die(w) \/ WriteFails(w) => LockInv' /\ RawKept
  BY <1>e DEF Raises, Die, WriteFails, Fail
<1>7. LoadRaises(w) \/ StatementFails(w) => LockInv' /\ RawKept
  BY <1>g DEF LoadRaises, StatementFails, warehouseVars, Running
<1>8. QED
  BY <1>1, <1>2, <1>3, <1>4, <1>5, <1>6, <1>7

\* The statements that change RAW, or commit what is about to.
LEMMA LockLoad ==
  ASSUME TypeOK, LockInv, NEW w \in Worker
  PROVE  /\ Merge(w) => LockInv' /\ RawKept
         /\ Commit(w) \/ AuditFailure(w) \/ AuditSuccess(w) => LockInv' /\ RawKept
<1>1. ASSUME Merge(w) PROVE LockInv' /\ RawKept
  <2> DEFINE p == PartOf(w)
             f == stage[p]
             rows == IF f = None THEN raw[p] ELSE Merged(raw[p], f)
  <2>1. p \in Part
    BY <1>1, WorkerTypes DEF Merge, Finished
  <2>2. raw[p] \in Rows /\ f \in File \cup {None}
    BY <2>1 DEF TypeOK, WarehouseTypeOK
  <2>3. rows \in Rows /\ Keeps(raw[p], rows)
    BY <2>2, MergeTypes, MergeKeeps DEF Keeps
  <2>4. ExecuteMerge(w, p, rows) /\ UNCHANGED task
    BY <1>1 DEF Merge
  <2>5. pc'[w] \in Running /\ \A v \in Worker \ {w} : pc'[v] = pc[v]
    BY <1>1 DEF Merge, Reply, Goto, TypeOK, Running, Loading
  <2>6. QED
    BY <2>1, <2>3, <2>4, <2>5, MergeTxn
<1>2. ASSUME Commit(w) PROVE LockInv' /\ RawKept
  <2>1. PartOf(w) \in Part /\ CommitTxn(w, PartOf(w))
    BY <1>2, WorkerTypes DEF Commit, Finished
  <2>2. \A v \in Worker \ {w} : pc'[v] = pc[v] /\ task'[v] = task[v]
    BY <1>2 DEF Commit, Reply, Goto, TypeOK
  <2>3. QED
    BY <2>1, <2>2, CommitLock
<1>3. ASSUME AuditFailure(w) \/ AuditSuccess(w) PROVE LockInv' /\ RawKept
  <2>1. PartOf(w) \in Part /\ CommitTxn(w, PartOf(w))
    BY <1>3, WorkerTypes DEF AuditFailure, AuditSuccess, WriteAudit, Finished
  <2>2. \A v \in Worker \ {w} : pc'[v] = pc[v] /\ task'[v] = task[v]
    BY <1>3 DEF AuditFailure, AuditSuccess, Succeed, Goto, TypeOK
  <2>3. QED
    BY <2>1, <2>2, CommitLock
<1>4. QED
  BY <1>1, <1>2, <1>3

\* Every step keeps the invariant, and the rows of RAW.
LEMMA LockStep == TypeOK /\ LockInv /\ [Next]_vars => LockInv' /\ RawKept
<1> SUFFICES ASSUME TypeOK, LockInv, [Next]_vars PROVE LockInv' /\ RawKept
  OBVIOUS
<1>1. ASSUME NEW w \in Worker, NEW p \in Part, NEW m \in Modes, Trigger(w, p, m)
      PROVE  LockInv' /\ RawKept
  BY <1>1, LockOutside
<1>2. ASSUME NEW w \in Worker, Progress(w) PROVE LockInv' /\ RawKept
  BY <1>2, LockOutside, LockQuiet, LockLoad DEF Progress
<1>3. ASSUME NEW w \in Worker, Die(w) \/ WriteFails(w) \/ StatementFails(w)
      PROVE  LockInv' /\ RawKept
  BY <1>3, LockQuiet
<1>4. CASE (\E p \in Part : Restate(p)) \/ Deploy \/ UNCHANGED vars
  BY <1>4, LockOutside
<1>5. QED
  BY <1>1, <1>2, <1>3, <1>4 DEF Next, Rest

\* At most one transaction is open, and what it will commit keeps RAW's rows.
LEMMA LockHolds == Spec => []LockInv
BY LockStep, LockInit, TypeCorrect, PTL DEF Spec

\* "Running it twice changes nothing the second time" (loader.py), also when other
\* runs of the partition load in between, and under explicit transactions.
THEOREM ReloadKeeps == Spec => ReloadChangesNothing
<1>1. RawKept =>
        [\A p \in Part, h \in Hour :
           raw[p][h] # None => /\ raw'[p][h] # None
                               /\ raw'[p][h].src = raw[p][h].src
                                    => raw'[p][h] = raw[p][h]]_vars
  BY DEF RawKept, Keeps
<1>2. QED
  BY <1>1, LockStep, LockHolds, TypeCorrect, PTL DEF Spec, ReloadChangesNothing

----------------------------------------------------------------------------
(* Where a transaction is open                                              *)

\* From the MERGE to the commit or the rollback: what write_audit commits is its own row.
TxnPlaced == \A w \in Worker : txn[w] # None => pc[w] \in {"remove", "commit", "rollback"}

\* A step of w that opens no transaction, and goes on to where one may be open or ends it.
LEMMA PlacedStep ==
  ASSUME TypeOK, TxnPlaced, NEW w \in Worker,
         \A v \in Worker \ {w} : pc'[v] = pc[v] /\ txn'[v] = txn[v],
         \/ txn'[w] = None
         \/ UNCHANGED txn /\ pc[w] \notin {"remove", "commit", "rollback"}
         \/ pc'[w] \in {"remove", "commit", "rollback"}
  PROVE  TxnPlaced'
BY DEF TxnPlaced

\* Every step keeps it so.
LEMMA PlacedNext == TypeOK /\ TxnPlaced /\ [Next]_vars => TxnPlaced'
<1> SUFFICES ASSUME TypeOK, TxnPlaced, [Next]_vars PROVE TxnPlaced'
  OBVIOUS
<1> USE DEF Goto, TypeOK, WarehouseTypeOK
<1>1. ASSUME NEW w \in Worker, NEW p \in Part, NEW m \in Modes, Trigger(w, p, m)
      PROVE  TxnPlaced'
  BY <1>1, PlacedStep DEF Trigger, warehouseVars, Finished
<1>2. ASSUME NEW w \in Worker, Die(w) \/ WriteFails(w) \/ StatementFails(w)
      PROVE  TxnPlaced'
  BY <1>2, PlacedStep DEF Die, Fail, WriteFails, StatementFails, EndProcess, RollbackTxn,
                          warehouseVars
<1>3. ASSUME NEW w \in Worker, Progress(w) PROVE TxnPlaced'
  <2>1. Retry(w) \/ GiveUp(w) \/ Begin(w) \/ Fetch(w) \/ CheckMisses(w) \/ Gate(w)
          => TxnPlaced'
    BY PlacedStep DEF Retry, GiveUp, Begin, Fetch, CheckMisses, Gate, warehouseVars
  <2>2. Clear(w) \/ Open(w) \/ Write(w) => TxnPlaced'
    BY PlacedStep DEF Clear, Open, Write, warehouseVars
  <2>3. Skip(w) \/ Publish(w) => TxnPlaced'
    BY PlacedStep DEF Skip, Publish, Succeed, EndProcess, RollbackTxn
  <2>4. Put(w) \/ Remove(w) => TxnPlaced'
    BY PlacedStep DEF Put, Remove, Reply
  <2>5. ASSUME Merge(w) PROVE TxnPlaced'
    <3>1. /\ pc'[w] \in {"remove", "rollback"}
          /\ \A v \in Worker \ {w} : pc'[v] = pc[v] /\ txn'[v] = txn[v]
      BY <2>5 DEF Merge, ExecuteMerge, Reply
    <3>2. QED
      BY <3>1, PlacedStep
  <2>6. Commit(w) \/ Rollback(w) => TxnPlaced'
    BY PlacedStep DEF Commit, Rollback, CommitTxn, RollbackTxn, Reply
  <2>7. AuditFailure(w) \/ AuditSuccess(w) => TxnPlaced'
    BY PlacedStep DEF AuditFailure, AuditSuccess, Succeed, EndProcess, RollbackTxn,
                      WriteAudit, CommitTxn
  <2>8. Raises(w) \/ LoadRaises(w) => TxnPlaced'
    BY PlacedStep DEF Raises, Fail, LoadRaises, EndProcess, RollbackTxn, warehouseVars
  <2>9. QED
    BY <1>3, <2>1, <2>2, <2>3, <2>4, <2>5, <2>6, <2>7, <2>8 DEF Progress
<1>4. CASE (\E p \in Part : Restate(p)) \/ Deploy \/ UNCHANGED vars
  BY <1>4 DEF Restate, Deploy, vars, ingestVars, warehouseVars, TxnPlaced
<1>5. QED
  BY <1>1, <1>2, <1>3, <1>4 DEF Next, Rest

\* A transaction is open at those statements only.
LEMMA PlacedHolds == Spec => []TxnPlaced
<1>1. Init => TxnPlaced
  BY DEF Init, WarehouseInit, TxnPlaced
<1>2. QED
  BY <1>1, PlacedNext, TypeCorrect, PTL DEF Spec

----------------------------------------------------------------------------
(* Who writes RAW and LOAD_AUDIT, and who turns green                       *)

\* Only a MERGE and what commits change RAW.
LEMMA RawWriters ==
  ASSUME [Next]_vars
  PROVE  UNCHANGED raw
           \/ \E w \in Worker : Merge(w) \/ Commit(w) \/ AuditFailure(w) \/ AuditSuccess(w)
<1>1. CASE (\E p \in Part : Restate(p)) \/ Deploy \/ UNCHANGED vars
  BY <1>1 DEF Restate, Deploy, vars, warehouseVars
<1>2. ASSUME NEW w \in Worker, NEW p \in Part, NEW m \in Modes, Trigger(w, p, m)
      PROVE  UNCHANGED raw
  BY <1>2 DEF Trigger, warehouseVars
<1>3. ASSUME NEW w \in Worker, Die(w) \/ WriteFails(w) \/ StatementFails(w)
      PROVE  UNCHANGED raw
  BY <1>3 DEF Die, Fail, WriteFails, StatementFails, warehouseVars
<1>4. ASSUME NEW w \in Worker, Progress(w), ~Merge(w), ~Commit(w), ~AuditFailure(w),
             ~AuditSuccess(w)
      PROVE  UNCHANGED raw
  <2>1. Retry(w) \/ GiveUp(w) \/ Begin(w) \/ Fetch(w) \/ CheckMisses(w) \/ Gate(w)
          => UNCHANGED raw
    BY DEF Retry, GiveUp, Begin, Fetch, CheckMisses, Gate, warehouseVars
  <2>2. Skip(w) \/ Clear(w) \/ Open(w) \/ Write(w) \/ Publish(w) => UNCHANGED raw
    BY DEF Skip, Clear, Open, Write, Publish, warehouseVars
  <2>3. Put(w) \/ Remove(w) \/ Rollback(w) \/ Raises(w) \/ LoadRaises(w) => UNCHANGED raw
    BY DEF Put, Remove, Rollback, Raises, Fail, LoadRaises, warehouseVars
  <2>4. QED
    BY <1>4, <2>1, <2>2, <2>3 DEF Progress
<1>5. QED
  BY <1>1, <1>2, <1>3, <1>4 DEF Next, Rest

\* Only the two statements of load_batch that record an attempt write LOAD_AUDIT.
LEMMA AuditWriters ==
  ASSUME [Next]_vars
  PROVE  UNCHANGED audit \/ \E w \in Worker : AuditFailure(w) \/ AuditSuccess(w)
<1>1. CASE (\E p \in Part : Restate(p)) \/ Deploy \/ UNCHANGED vars
  BY <1>1 DEF Restate, Deploy, vars, warehouseVars
<1>2. ASSUME NEW w \in Worker, NEW p \in Part, NEW m \in Modes, Trigger(w, p, m)
      PROVE  UNCHANGED audit
  BY <1>2 DEF Trigger, warehouseVars
<1>3. ASSUME NEW w \in Worker, Die(w) \/ WriteFails(w) \/ StatementFails(w)
      PROVE  UNCHANGED audit
  BY <1>3 DEF Die, Fail, WriteFails, StatementFails, warehouseVars
<1>4. ASSUME NEW w \in Worker, Progress(w), ~AuditFailure(w), ~AuditSuccess(w)
      PROVE  UNCHANGED audit
  <2>1. Retry(w) \/ GiveUp(w) \/ Begin(w) \/ Fetch(w) \/ CheckMisses(w) \/ Gate(w)
          => UNCHANGED audit
    BY DEF Retry, GiveUp, Begin, Fetch, CheckMisses, Gate, warehouseVars
  <2>2. Skip(w) \/ Clear(w) \/ Open(w) \/ Write(w) \/ Publish(w) => UNCHANGED audit
    BY DEF Skip, Clear, Open, Write, Publish, warehouseVars
  <2>3. Put(w) \/ Merge(w) \/ Remove(w) \/ Commit(w) \/ Rollback(w) => UNCHANGED audit
    BY DEF Put, Merge, Remove, Commit, Rollback
  <2>4. Raises(w) \/ LoadRaises(w) => UNCHANGED audit
    BY DEF Raises, Fail, LoadRaises, warehouseVars
  <2>5. QED
    BY <1>4, <2>1, <2>2, <2>3, <2>4 DEF Progress
<1>5. QED
  BY <1>1, <1>2, <1>3, <1>4 DEF Next, Rest

\* w turns green.
TurnsGreen(w) == pc[w] # "done" /\ pc'[w] = "done"

\* Only the process itself turns green, by a skip, a landing or a load.
LEMMA GreenSteps ==
  ASSUME TypeOK, [Next]_vars, NEW w \in Worker, TurnsGreen(w)
  PROVE  Skip(w) \/ Publish(w) \/ AuditSuccess(w)
<1> USE DEF TurnsGreen, Goto, TypeOK
<1>1. CASE (\E p \in Part : Restate(p)) \/ Deploy \/ UNCHANGED vars
  BY <1>1 DEF Restate, Deploy, vars, ingestVars
<1>2. ASSUME NEW v \in Worker, NEW p \in Part, NEW m \in Modes, Trigger(v, p, m)
      PROVE  FALSE
  BY <1>2 DEF Trigger
<1>3. ASSUME NEW v \in Worker, Die(v) \/ WriteFails(v) \/ StatementFails(v)
      PROVE  FALSE
  BY <1>3 DEF Die, Fail, WriteFails, StatementFails
<1>4. ASSUME NEW v \in Worker, Progress(v) PROVE Skip(w) \/ Publish(w) \/ AuditSuccess(w)
  <2>1. Retry(v) \/ GiveUp(v) \/ Begin(v) \/ Fetch(v) \/ CheckMisses(v) \/ Gate(v) => FALSE
    BY DEF Retry, GiveUp, Begin, Fetch, CheckMisses, Gate
  <2>2. Clear(v) \/ Open(v) \/ Write(v) \/ Rollback(v) \/ AuditFailure(v) => FALSE
    BY DEF Clear, Open, Write, Rollback, AuditFailure
  <2>3. Put(v) \/ Merge(v) \/ Remove(v) \/ Commit(v) => FALSE
    BY DEF Put, Merge, Remove, Commit, Reply
  <2>4. Raises(v) \/ LoadRaises(v) => FALSE
    BY DEF Raises, Fail, LoadRaises
  <2>5. Skip(v) \/ Publish(v) \/ AuditSuccess(v) => v = w
    BY DEF Skip, Publish, AuditSuccess, Succeed
  <2>6. QED
    BY <1>4, <2>1, <2>2, <2>3, <2>4, <2>5 DEF Progress
<1>5. QED
  BY <1>1, <1>2, <1>3, <1>4 DEF Next, Rest

=============================================================================
