-------------------------- MODULE IngestGateProofs --------------------------
(***************************************************************************)
(* Only gated rows reach RAW, whatever overlaps, crashes or is retried:    *)
(* the proof that RawOnlyGated holds for every value of the constants.     *)
(***************************************************************************)
EXTENDS IngestProofs

\* Between the gate and the end of the write, a process holds a payload that is
\* fit to load.
ProcGated ==
  \A w \in Worker :
    pc[w] \in {"clear", "open", "write", "rename"} => Trustworthy(proc[w].got)

\* Every file, whatever its name and however incomplete, is of such a payload.
FilesGated ==
  \A p \in Part : /\ tmp[p] # None => Trustworthy(tmp[p].src)
                  /\ final[p] # None => Trustworthy(final[p].src)
                  /\ stage[p] # None => Trustworthy(stage[p].src)

\* The inductive strengthening of RawOnlyGated: a row of RAW comes from a staged
\* file, that from a published one, that from a temporary one, and that from a
\* process past its gate.
GateInv == ProcGated /\ FilesGated /\ RawOnlyGated

\* What passes the gate is fit to load: the 2% of check_batch in whole numbers.
LEMMA PassedIsTrustworthy ==
  ASSUME NEW pl \in Payload, Passes(pl)
  PROVE  Trustworthy(pl)
<1>1. IsFiniteSet(HoursOf[pl]) /\ IsFiniteSet(BadOf[pl])
  BY WarehouseAssumption, FS_Subset
<1>2. Cardinality(HoursOf[pl]) \in Nat /\ Cardinality(BadOf[pl]) \in Nat
  BY <1>1, FS_CardinalityType
<1>3. QED
  BY <1>2 DEF Passes, ExceedsThreshold, Trustworthy

\* A MERGE of a gated file into gated rows gives gated rows.
LEMMA MergedGated ==
  ASSUME NEW rows \in Rows, NEW f \in File, RowsGated(rows), Trustworthy(f.src)
  PROVE  RowsGated(Merged(rows, f))
BY DEF RowsGated, Merged, Inserted, Updated

\* The files stay gated under every action of the landing zone.
LEMMA LandingGated ==
  ASSUME TypeOK, FilesGated, UNCHANGED stage, NEW w \in Worker, NEW p \in Part,
         NEW src \in Payload, NEW c \in Code, Trustworthy(src)
  PROVE  OpenTmp(w, p, src, c) \/ CloseTmp(w, p, src, c) => FilesGated'
<1> USE DEF FilesGated
<1>1. OpenTmp(w, p, src, c) => FilesGated'
  BY DEF OpenTmp, TypeOK, LandingTypeOK
<1>2. ASSUME CloseTmp(w, p, src, c) PROVE FilesGated'
  <2>1. \A name \in {"tmp", "final"}, f \in File :
          Trustworthy(f.src) => \A g \in Closed(w, p, name, f, src, c) : Trustworthy(g.src)
    BY DEF Closed, File
  <2>2. Holds(w, p, "tmp") => tmp[p] \in File
    BY DEF TypeOK, LandingTypeOK
  <2>3. Holds(w, p, "final") => final[p] \in File
    BY DEF TypeOK, LandingTypeOK
  <2>4. CASE Holds(w, p, "tmp")
    <3>1. PICK g \in Closed(w, p, "tmp", tmp[p], src, c) :
            tmp' = [tmp EXCEPT ![p] = g] /\ UNCHANGED final
      BY <1>2, <2>4 DEF CloseTmp, Holds
    <3>2. Trustworthy(g.src)
      BY <2>1, <2>2, <2>4, NoneIsNothing
    <3>3. QED
      BY <3>1, <3>2 DEF TypeOK, LandingTypeOK
  <2>5. CASE Holds(w, p, "final")
    <3>1. PICK g \in Closed(w, p, "final", final[p], src, c) :
            final' = [final EXCEPT ![p] = g] /\ UNCHANGED tmp
      BY <1>2, <2>5 DEF CloseTmp, Holds
    <3>2. Trustworthy(g.src)
      BY <2>1, <2>3, <2>5, NoneIsNothing
    <3>3. QED
      BY <3>1, <3>2 DEF TypeOK, LandingTypeOK
  <2>6. CASE Holds(w, p, "gone")
    BY <1>2, <2>6 DEF CloseTmp, Holds
  <2>7. QED
    BY <1>2, <2>4, <2>5, <2>6 DEF CloseTmp
<1>3. QED
  BY <1>1, <1>2

\* Unlinking and renaming files, and staging a published one, bring in no file
\* that was not there.
LEMMA FilesOnlyMove ==
  ASSUME TypeOK, FilesGated, NEW w, NEW p \in Part
  PROVE  /\ UNCHANGED stage
            /\ (AbandonTmp(w, p) \/ PublishTmp(p) \/ ClearPartition(p) \/ CleanupTempFiles
                  \/ DropHandle(w)) => FilesGated'
         /\ UNCHANGED landingVars /\ (PutFile(p) \/ RemoveStaged(p)) => FilesGated'
         /\ UNCHANGED landingVars /\ UNCHANGED stage => FilesGated'
BY DEF FilesGated, TypeOK, LandingTypeOK, WarehouseTypeOK, landingVars, AbandonTmp,
       PublishTmp, ClearPartition, CleanupTempFiles, DropHandle, PutFile, RemoveStaged

\* A process that moves on without passing the gate, keeping its payload.
LEMMA ProcGatedStep ==
  ASSUME TypeOK, ProcGated, NEW w \in Worker,
         \A v \in Worker \ {w} : pc'[v] = pc[v] /\ proc'[v] = proc[v],
         pc'[w] \in {"clear", "open", "write", "rename"} => Trustworthy(proc'[w].got)
  PROVE  ProcGated'
BY DEF ProcGated

\* Committing and rolling back move gated rows.
LEMMA RowsOnlyMove ==
  ASSUME TypeOK, RawOnlyGated, NEW w \in Worker, NEW p \in Part, NEW row
  PROVE  /\ UNCHANGED <<raw, txn>> => RawOnlyGated'
         /\ RollbackTxn(w) /\ UNCHANGED raw => RawOnlyGated'
         /\ CommitTxn(w, p) => RawOnlyGated'
         /\ WriteAudit(w, p, row) => RawOnlyGated'
<1> USE DEF RawOnlyGated, TypeOK, WarehouseTypeOK
<1>1. UNCHANGED <<raw, txn>> => RawOnlyGated'
  BY DEF RowsGated
<1>2. RollbackTxn(w) /\ UNCHANGED raw => RawOnlyGated'
  BY DEF RowsGated, RollbackTxn
<1>3. CommitTxn(w, p) => RawOnlyGated'
  BY DEF RowsGated, CommitTxn
<1>4. QED
  BY <1>1, <1>2, <1>3 DEF WriteAudit

\* Nothing is loaded, written or held in the initial states.
LEMMA GateInit == Init => GateInv
BY DEF Init, GateInv, ProcGated, FilesGated, RawOnlyGated, RowsGated, LandingInit,
       WarehouseInit

\* The schedulers, the producer and deployments touch neither files nor rows.
LEMMA GateOutside ==
  ASSUME TypeOK, GateInv
  PROVE  /\ \A w \in Worker, p \in Part, m \in Modes : Trigger(w, p, m) => GateInv'
         /\ \A w \in Worker : Retry(w) \/ GiveUp(w) => GateInv'
         /\ \A p \in Part : Restate(p) => GateInv'
         /\ Deploy \/ UNCHANGED vars => GateInv'
<1> USE DEF GateInv
<1>1. ASSUME UNCHANGED <<landingVars, warehouseVars>> PROVE FilesGated' /\ RawOnlyGated'
  BY <1>1 DEF landingVars, warehouseVars, FilesGated, RawOnlyGated, RowsGated
<1>2. ASSUME NEW w \in Worker, NEW p \in Part, NEW m \in Modes, Trigger(w, p, m)
      PROVE  GateInv'
  <2>1. ProcGated'
    BY <1>2 DEF Trigger, Goto, ProcGated, TypeOK
  <2>2. QED
    BY <1>1, <1>2, <2>1 DEF Trigger
<1>3. ASSUME NEW w \in Worker, Retry(w) \/ GiveUp(w) PROVE GateInv'
  <2>1. ProcGated'
    BY <1>3 DEF Retry, GiveUp, Goto, ProcGated, TypeOK
  <2>2. QED
    BY <1>1, <1>3, <2>1 DEF Retry, GiveUp
<1>4. ASSUME NEW p \in Part, Restate(p) PROVE GateInv'
  BY <1>1, <1>4 DEF Restate, ingestVars, ProcGated
<1>5. ASSUME Deploy \/ UNCHANGED vars PROVE GateInv'
  BY <1>1, <1>5 DEF Deploy, vars, ingestVars, ProcGated
<1>6. QED
  BY <1>2, <1>3, <1>4, <1>5

\* Up to the rename: the gate lets only gated payloads on to the landing zone.
LEMMA GateIngestDay ==
  ASSUME TypeOK, GateInv, NEW w \in Worker
  PROVE  /\ Begin(w) \/ Fetch(w) \/ Skip(w) \/ CheckMisses(w) \/ Gate(w) => GateInv'
         /\ Clear(w) \/ Open(w) \/ Write(w) \/ Publish(w) => GateInv'
<1> USE DEF GateInv
<1>t. pc[w] \in Running => PartOf(w) \in Part /\ proc[w] \in Proc
  BY WorkerTypes DEF Finished, Running, Loading
<1>f. UNCHANGED <<landingVars, stage>> => FilesGated'
  BY DEF FilesGated, landingVars
<1>r. UNCHANGED <<raw, txn>> \/ (RollbackTxn(w) /\ UNCHANGED raw) => RawOnlyGated'
  BY DEF RawOnlyGated, RowsGated, RollbackTxn, TypeOK, WarehouseTypeOK
<1>p. ASSUME NEW l, Goto(w, l),
             \/ UNCHANGED proc /\ pc[w] \in {"clear", "open", "write", "rename"}
             \/ l \notin {"clear", "open", "write", "rename"} /\ pc[w] \in Running
                  /\ \A v \in Worker \ {w} : proc'[v] = proc[v]
      PROVE  ProcGated'
  BY <1>p DEF Goto, ProcGated, TypeOK
<1>1. ASSUME Begin(w) PROVE GateInv'
  <2>1. ProcGated'
    BY <1>1 DEF Begin, Goto, ProcGated, TypeOK
  <2>2. FilesGated'
    BY <1>1 DEF Begin, CleanupTempFiles, FilesGated, warehouseVars
  <2>3. QED
    BY <1>1, <2>1, <2>2, <1>r DEF Begin, warehouseVars
<1>2. ASSUME Fetch(w) PROVE GateInv'
  <2>1. ProcGated'
    BY <1>2 DEF Fetch, Goto, ProcGated, TypeOK
  <2>2. QED
    BY <1>2, <2>1, <1>f, <1>r DEF Fetch, warehouseVars
<1>3. ASSUME Skip(w) PROVE GateInv'
  <2>1. ProcGated'
    BY <1>3 DEF Skip, Succeed, EndProcess, Goto, ProcGated, TypeOK
  <2>2. QED
    BY <1>3, <2>1, <1>f, <1>r DEF Skip, Succeed, EndProcess
<1>4. ASSUME CheckMisses(w) PROVE GateInv'
  <2>1. ProcGated'
    BY <1>4 DEF CheckMisses, Goto, ProcGated, TypeOK
  <2>2. QED
    BY <1>4, <2>1, <1>f, <1>r DEF CheckMisses, warehouseVars
<1>5. ASSUME Gate(w) PROVE GateInv'
  <2>p. Trustworthy(proc[w].got)
    BY <1>5, <1>t, WorkerTypes, PassedIsTrustworthy DEF Gate, Running
  <2>1. ProcGated'
    BY <1>5, <2>p DEF Gate, Goto, ProcGated, TypeOK
  <2>2. QED
    BY <1>5, <2>1, <1>f, <1>r DEF Gate, warehouseVars
<1>6. ASSUME Clear(w) PROVE GateInv'
  <2>1. ProcGated'
    BY <1>6, <1>p DEF Clear
  <2>2. FilesGated'
    BY <1>6, <1>t, FilesOnlyMove DEF Clear, warehouseVars, Running
  <2>3. QED
    BY <1>6, <2>1, <2>2, <1>r DEF Clear, warehouseVars
<1>7. ASSUME Open(w) PROVE GateInv'
  <2>1. ProcGated'
    BY <1>7, <1>p DEF Open
  <2>2. PartOf(w) \in Part /\ proc[w].got \in Payload /\ proc[w].ver \in Code
    BY <1>7, <1>t, WorkerTypes DEF Open, Running, Proc
  <2>3. Trustworthy(proc[w].got)
    BY <1>7 DEF Open, ProcGated
  <2>4. FilesGated'
    BY <1>7, <2>2, <2>3, LandingGated DEF Open, warehouseVars
  <2>5. QED
    BY <1>7, <2>1, <2>4, <1>r DEF Open, warehouseVars
<1>8. ASSUME Write(w) PROVE GateInv'
  <2>1. ProcGated'
    BY <1>8, <1>p DEF Write
  <2>2. PartOf(w) \in Part /\ proc[w].got \in Payload /\ proc[w].ver \in Code
    BY <1>8, <1>t, WorkerTypes DEF Write, Running, Proc
  <2>3. Trustworthy(proc[w].got)
    BY <1>8 DEF Write, ProcGated
  <2>4. FilesGated'
    BY <1>8, <2>2, <2>3, LandingGated DEF Write, warehouseVars
  <2>5. QED
    BY <1>8, <2>1, <2>4, <1>r DEF Write, warehouseVars
<1>9. ASSUME Publish(w) PROVE GateInv'
  <2>1. ProcGated'
    BY <1>9 DEF Publish, Succeed, EndProcess, Goto, ProcGated, TypeOK
  <2>2. FilesGated'
    BY <1>9, <1>t, FilesOnlyMove DEF Publish, Running
  <2>3. RawOnlyGated'
    BY <1>9, <1>r DEF Publish, Succeed, EndProcess
  <2>4. QED
    BY <2>1, <2>2, <2>3
<1>10. QED
  BY <1>1, <1>2, <1>3, <1>4, <1>5, <1>6, <1>7, <1>8, <1>9

\* The load: a MERGE reads a staged file, and every staged file is gated.
LEMMA GateLoad ==
  ASSUME TypeOK, GateInv, NEW w \in Worker
  PROVE  /\ Put(w) \/ Merge(w) \/ Remove(w) \/ Commit(w) => GateInv'
         /\ Rollback(w) \/ AuditFailure(w) \/ AuditSuccess(w) => GateInv'
<1> USE DEF GateInv
<1>t. pc[w] \in Running => PartOf(w) \in Part
  BY WorkerTypes DEF Finished, Running, Loading
<1>f. UNCHANGED <<landingVars, stage>> => FilesGated'
  BY DEF FilesGated, landingVars
<1>p. ASSUME NEW l \in {"merge", "remove", "commit", "audit", "rollback", "auditfail",
                        "failed", "done"}, Goto(w, l),
             \A v \in Worker \ {w} : proc'[v] = proc[v]
      PROVE  ProcGated'
  BY <1>p DEF Goto, ProcGated, TypeOK
<1>1. ASSUME Put(w) PROVE GateInv'
  <2>1. FilesGated'
    BY <1>1, <1>t, FilesOnlyMove DEF Put, Running, Loading
  <2>2. QED
    BY <1>1, <1>p, <2>1, RowsOnlyMove, <1>t DEF Put, Reply, Running, Loading
<1>2. ASSUME Merge(w) PROVE GateInv'
  <2> DEFINE p == PartOf(w)
             rows == IF stage[p] = None THEN raw[p] ELSE Merged(raw[p], stage[p])
  <2>1. p \in Part /\ raw[p] \in Rows /\ stage[p] \in File \cup {None}
    BY <1>2, <1>t DEF Merge, Running, Loading, TypeOK, WarehouseTypeOK
  <2>2. RowsGated(raw[p])
    BY <2>1 DEF RawOnlyGated
  <2>3. RowsGated(rows)
    BY <2>1, <2>2, MergedGated DEF FilesGated
  <2>4. ExecuteMerge(w, p, rows)
    BY <1>2 DEF Merge
  <2> HIDE DEF p, rows
  <2>5. RawOnlyGated'
    BY <2>1, <2>3, <2>4 DEF ExecuteMerge, RawOnlyGated, RowsGated, TypeOK, WarehouseTypeOK
  <2>6. \A v \in Worker \ {w} : proc'[v] = proc[v]
    BY <1>2 DEF Merge, TypeOK
  <2>7. ProcGated'
    BY <1>2, <1>p, <2>6 DEF Merge, Reply
  <2>8. QED
    BY <1>2, <1>f, <2>5, <2>7 DEF Merge
<1>3. ASSUME Remove(w) PROVE GateInv'
  <2>1. FilesGated'
    BY <1>3, <1>t, FilesOnlyMove DEF Remove, Running, Loading
  <2>2. QED
    BY <1>3, <1>p, <2>1, RowsOnlyMove, <1>t DEF Remove, Reply, Running, Loading
<1>4. ASSUME Commit(w) PROVE GateInv'
  <2>1. RawOnlyGated'
    BY <1>4, <1>t, RowsOnlyMove DEF Commit, Running, Loading
  <2>2. \A v \in Worker \ {w} : proc'[v] = proc[v]
    BY <1>4 DEF Commit, TypeOK
  <2>3. QED
    BY <1>4, <1>p, <1>f, <2>1, <2>2 DEF Commit, Reply
<1>5. ASSUME Rollback(w) PROVE GateInv'
  <2>1. RawOnlyGated'
    BY <1>5, <1>t, RowsOnlyMove DEF Rollback, Running
  <2>2. QED
    BY <1>5, <1>p, <1>f, <2>1 DEF Rollback
<1>6. ASSUME AuditFailure(w) PROVE GateInv'
  <2>1. RawOnlyGated'
    BY <1>6, <1>t, RowsOnlyMove DEF AuditFailure, Running
  <2>2. \A v \in Worker \ {w} : proc'[v] = proc[v]
    BY <1>6 DEF AuditFailure, EndProcess, TypeOK
  <2>3. QED
    BY <1>6, <1>p, <1>f, <2>1, <2>2 DEF AuditFailure
<1>7. ASSUME AuditSuccess(w) PROVE GateInv'
  <2>1. RawOnlyGated'
    BY <1>7, <1>t, RowsOnlyMove DEF AuditSuccess, Running
  <2>2. \A v \in Worker \ {w} : proc'[v] = proc[v]
    BY <1>7 DEF AuditSuccess, Succeed, EndProcess, TypeOK
  <2>3. QED
    BY <1>7, <1>p, <1>f, <2>1, <2>2 DEF AuditSuccess, Succeed
<1>8. QED
  BY <1>1, <1>2, <1>3, <1>4, <1>5, <1>6, <1>7

\* A failure leaves files and rows as they are, or fewer of them.
LEMMA GateFailures ==
  ASSUME TypeOK, GateInv, NEW w \in Worker
  PROVE  /\ Raises(w) \/ Die(w) \/ WriteFails(w) => GateInv'
         /\ LoadRaises(w) \/ StatementFails(w) => GateInv'
<1> USE DEF GateInv
<1>1. ASSUME Goto(w, "failed") /\ EndProcess(w) PROVE ProcGated'
  BY <1>1 DEF Goto, EndProcess, ProcGated, TypeOK
<1>2. EndProcess(w) /\ UNCHANGED raw => RawOnlyGated'
  BY DEF EndProcess, RollbackTxn, RawOnlyGated, RowsGated, TypeOK, WarehouseTypeOK
<1>3. ASSUME Fail(w) PROVE GateInv'
  <2>1. FilesGated'
    BY <1>3 DEF Fail, DropHandle, FilesGated
  <2>2. QED
    BY <1>1, <1>2, <1>3, <2>1 DEF Fail
<1>4. ASSUME WriteFails(w) PROVE GateInv'
  <2>1. PartOf(w) \in Part
    BY <1>4, WorkerTypes DEF WriteFails, Finished
  <2>2. FilesGated'
    BY <1>4, <2>1, FilesOnlyMove DEF WriteFails
  <2>3. QED
    BY <1>1, <1>2, <1>4, <2>2 DEF WriteFails
<1>5. ASSUME LoadRaises(w) \/ StatementFails(w) PROVE GateInv'
  <2>1. Goto(w, "rollback") /\ UNCHANGED <<landingVars, warehouseVars, proc>>
    BY <1>5 DEF LoadRaises, StatementFails
  <2>2. ProcGated'
    BY <2>1 DEF Goto, ProcGated, TypeOK
  <2>3. FilesGated' /\ RawOnlyGated'
    BY <2>1 DEF landingVars, warehouseVars, FilesGated, RawOnlyGated, RowsGated
  <2>4. QED
    BY <2>2, <2>3
<1>6. QED
  BY <1>3, <1>4, <1>5 DEF Raises, Die

\* Nothing a payload refused by the quality gate contains, and no row that
\* violates the contract, ever reaches RAW.
THEOREM GateHolds == Spec => []RawOnlyGated
<1>1. TypeOK /\ GateInv /\ [Next]_vars => GateInv'
  <2> SUFFICES ASSUME TypeOK, GateInv, [Next]_vars PROVE GateInv'
    OBVIOUS
  <2>1. CASE UNCHANGED vars
    BY <2>1, GateOutside
  <2>2. ASSUME NEW w \in Worker, NEW p \in Part, NEW m \in Modes, Trigger(w, p, m)
        PROVE  GateInv'
    BY <2>2, GateOutside
  <2>3. ASSUME NEW w \in Worker, Progress(w) PROVE GateInv'
    BY <2>3, GateOutside, GateIngestDay, GateLoad, GateFailures DEF Progress
  <2>4. ASSUME NEW w \in Worker, Die(w) \/ WriteFails(w) \/ StatementFails(w)
        PROVE  GateInv'
    BY <2>4, GateFailures
  <2>5. ASSUME NEW p \in Part, Restate(p) PROVE GateInv'
    BY <2>5, GateOutside
  <2>6. CASE Deploy
    BY <2>6, GateOutside
  <2>7. QED
    BY <2>1, <2>2, <2>3, <2>4, <2>5, <2>6 DEF Next, Rest
<1>2. GateInv => RawOnlyGated
  BY DEF GateInv
<1>3. QED
  BY <1>1, <1>2, GateInit, TypeCorrect, PTL DEF Spec

=============================================================================
