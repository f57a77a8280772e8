---------------------------- MODULE IngestProofs ----------------------------
(***************************************************************************)
(* Theorems about Ingest, for every value of its constants, and their      *)
(* proofs.  TypeOK comes first; the other invariants are proved relative   *)
(* to it.                                                                  *)
(***************************************************************************)
EXTENDS IngestProperties, FiniteSetTheorems, TLAPS

\* None is none of the values it stands in for.
LEMMA NoneIsNothing ==
  /\ None \notin Payload /\ None \notin File /\ None \notin Row /\ None \notin Rows
  /\ None \notin Handle /\ None \notin Task /\ None \notin Proc
  /\ \A p \in Part, n \in {"tmp", "final", "gone"} : None # [part |-> p, name |-> n]
<1>1. \A p \in Part, n \in {"tmp", "final", "gone"} : [part |-> p, name |-> n] \in Handle
  BY DEF Handle
<1>2. QED
  BY <1>1, NoneAssumption

----------------------------------------------------------------------------
(* Operators of Landing and Warehouse preserve the types of their state     *)

\* Unlinking names keeps handles handles.
LEMMA UnlinkedType ==
  ASSUME NEW h \in [Worker -> Handle \cup {None}], NEW P, NEW name
  PROVE  Unlinked(h, P, name) \in [Worker -> Handle \cup {None}]
BY DEF Unlinked, Handle

\* Every action of the landing zone keeps its files and handles well typed.
LEMMA LandingTypes ==
  ASSUME LandingTypeOK, NEW w \in Worker, NEW p \in Part, NEW src \in Payload,
         NEW c \in Code
  PROVE  /\ OpenTmp(w, p, src, c) => LandingTypeOK'
         /\ CloseTmp(w, p, src, c) => LandingTypeOK'
         /\ AbandonTmp(w, p) => LandingTypeOK'
         /\ PublishTmp(p) => LandingTypeOK'
         /\ ClearPartition(p) => LandingTypeOK'
         /\ CleanupTempFiles => LandingTypeOK'
         /\ DropHandle(w) => LandingTypeOK'
<1> USE NoneIsNothing DEF LandingTypeOK
<1>1. ASSUME OpenTmp(w, p, src, c) PROVE LandingTypeOK'
  BY <1>1 DEF OpenTmp, File, Handle, Holds
<1>2. ASSUME CloseTmp(w, p, src, c) PROVE LandingTypeOK'
  <2>1. \A name \in {"tmp", "final"}, f \in File : Closed(w, p, name, f, src, c) \subseteq File
    BY DEF Closed, File
  <2>2. CASE Holds(w, p, "tmp")
    <3>1. tmp[p] \in File
      BY <2>2
    <3>2. PICK f \in File : tmp' = [tmp EXCEPT ![p] = f]
      BY <1>2, <2>1, <2>2, <3>1 DEF CloseTmp, Holds
    <3>3. final' = final /\ handle' = [handle EXCEPT ![w] = None]
      BY <1>2, <2>2 DEF CloseTmp, Holds
    <3>4. \A v \in Worker, q \in Part : Holds(v, q, "tmp")' => tmp'[q] # None
      BY <3>2, <3>3 DEF Holds
    <3>5. \A v \in Worker, q \in Part : Holds(v, q, "final")' => final'[q] # None
      BY <3>2, <3>3 DEF Holds
    <3>6. QED
      BY <3>2, <3>3, <3>4, <3>5
  <2>3. CASE Holds(w, p, "final")
    <3>1. final[p] \in File
      BY <2>3
    <3>2. PICK f \in File : final' = [final EXCEPT ![p] = f]
      BY <1>2, <2>1, <2>3, <3>1 DEF CloseTmp, Holds
    <3>3. tmp' = tmp /\ handle' = [handle EXCEPT ![w] = None]
      BY <1>2, <2>3 DEF CloseTmp, Holds
    <3>4. \A v \in Worker, q \in Part : Holds(v, q, "tmp")' => tmp'[q] # None
      BY <3>2, <3>3 DEF Holds
    <3>5. \A v \in Worker, q \in Part : Holds(v, q, "final")' => final'[q] # None
      BY <3>2, <3>3 DEF Holds
    <3>6. QED
      BY <3>2, <3>3, <3>4, <3>5
  <2>4. CASE Holds(w, p, "gone")
    BY <1>2, <2>4 DEF CloseTmp, Holds
  <2>5. QED
    BY <1>2, <2>2, <2>3, <2>4 DEF CloseTmp
<1>3. ASSUME AbandonTmp(w, p) PROVE LandingTypeOK'
  BY <1>3, UnlinkedType DEF AbandonTmp, Unlinked, Holds, Handle
<1>4. ASSUME PublishTmp(p) PROVE LandingTypeOK'
  BY <1>4 DEF PublishTmp, Handle, Holds
<1>5. ASSUME ClearPartition(p) PROVE LandingTypeOK'
  BY <1>5, UnlinkedType DEF ClearPartition, Unlinked, Holds, Handle
<1>6. ASSUME CleanupTempFiles PROVE LandingTypeOK'
  BY <1>6, UnlinkedType DEF CleanupTempFiles, Unlinked, Holds, Handle
<1>7. ASSUME DropHandle(w) PROVE LandingTypeOK'
  BY <1>7 DEF DropHandle, Holds
<1>8. QED
  BY <1>1, <1>2, <1>3, <1>4, <1>5, <1>6, <1>7

\* A step changes finitely many rows of a partition.
LEMMA ChangedTypes == \A p : Cardinality(Changed(p)) \in Nat
<1>1. ASSUME NEW p PROVE Changed(p) \subseteq Hour
  BY DEF Changed
<1>2. QED
  BY <1>1, FS_Subset, FS_CardinalityType, WarehouseAssumption

\* A MERGE makes rows of rows, and counts the rows it inserts and updates.
LEMMA MergeTypes ==
  ASSUME NEW rows \in Rows, NEW f \in File
  PROVE  /\ Merged(rows, f) \in Rows
         /\ Cardinality(Inserted(rows, f)) \in Nat
         /\ Cardinality(Updated(rows, f)) \in Nat
<1>1. Merged(rows, f) \in Rows
  BY DEF Merged, Rows, Row, File
<1>2. IsFiniteSet(Inserted(rows, f)) /\ IsFiniteSet(Updated(rows, f))
  <2>1. Inserted(rows, f) \subseteq Hour /\ Updated(rows, f) \subseteq Hour
    BY WarehouseAssumption DEF Inserted, Updated, Accepted, File
  <2>2. QED
    BY <2>1, FS_Subset, WarehouseAssumption
<1>3. QED
  BY <1>1, <1>2, FS_CardinalityType

\* The statements of a load keep the stage, RAW and the transactions well typed.
LEMMA WarehouseTypes ==
  ASSUME LandingTypeOK, WarehouseTypeOK, NEW w \in Worker, NEW p \in Part,
         NEW rows \in Rows, NEW row
  PROVE  /\ PutFile(p) /\ UNCHANGED <<raw, txn>> => WarehouseTypeOK'
         /\ ExecuteMerge(w, p, rows) /\ UNCHANGED stage => WarehouseTypeOK'
         /\ RemoveStaged(p) /\ UNCHANGED <<raw, txn>> => WarehouseTypeOK'
         /\ CommitTxn(w, p) /\ UNCHANGED stage => WarehouseTypeOK'
         /\ RollbackTxn(w) /\ UNCHANGED <<stage, raw>> => WarehouseTypeOK'
         /\ WriteAudit(w, p, row) /\ UNCHANGED stage => WarehouseTypeOK'
<1> USE DEF WarehouseTypeOK
<1>1. PutFile(p) /\ UNCHANGED <<raw, txn>> => WarehouseTypeOK'
  BY DEF PutFile, LandingTypeOK
<1>2. ExecuteMerge(w, p, rows) /\ UNCHANGED stage => WarehouseTypeOK'
  BY DEF ExecuteMerge
<1>3. RemoveStaged(p) /\ UNCHANGED <<raw, txn>> => WarehouseTypeOK'
  BY DEF RemoveStaged
<1>4. CommitTxn(w, p) /\ UNCHANGED stage => WarehouseTypeOK'
  BY DEF CommitTxn
<1>5. RollbackTxn(w) /\ UNCHANGED <<stage, raw>> => WarehouseTypeOK'
  BY DEF RollbackTxn
<1>6. QED
  BY <1>1, <1>2, <1>3, <1>4, <1>5 DEF WriteAudit

----------------------------------------------------------------------------
(* Type correctness                                                         *)

\* The part of TypeOK about the processes and their tasks.
ProcessTypeOK ==
  /\ pc \in [Worker -> Finished \cup Waiting \cup Running]
  /\ task \in [Worker -> Task \cup {None}]
  /\ proc \in [Worker -> Proc \cup {None}]
  /\ \A w \in Worker : /\ task[w] # None <=> pc[w] \notin Finished
                       /\ proc[w] # None <=> pc[w] \in Running
                       /\ pc[w] \in Running \ {"fetch"} => proc[w].got # None

\* The part of TypeOK about the producer, the deployments and the bounds.
OutsideTypeOK ==
  /\ served \in [Part -> Payload] /\ past \in [Part -> SUBSET Payload]
  /\ code \in Code
  /\ triggered \in 0 .. MaxTriggers /\ restated \in 0 .. MaxRestates
  /\ faults \in 0 .. MaxFaults

\* TypeOK is the conjunction of its parts, before a step and after it.
LEMMA TypeParts ==
  /\ TypeOK => /\ LandingTypeOK /\ WarehouseTypeOK /\ audit \subseteq AuditRow
               /\ ProcessTypeOK /\ OutsideTypeOK
  /\ LandingTypeOK /\ WarehouseTypeOK /\ audit \subseteq AuditRow
       /\ ProcessTypeOK /\ OutsideTypeOK => TypeOK
  /\ LandingTypeOK' /\ WarehouseTypeOK' /\ audit' \subseteq AuditRow
       /\ ProcessTypeOK' /\ OutsideTypeOK' => TypeOK'
BY DEF TypeOK, ProcessTypeOK, OutsideTypeOK

\* What TypeOK says of a worker with a task, and of one with a process.
LEMMA WorkerTypes ==
  ASSUME TypeOK, NEW w \in Worker
  PROVE  /\ pc[w] \notin Finished => /\ task[w] \in Task /\ PartOf(w) \in Part
                                     /\ task[w].mode \in [full : BOOLEAN, land : BOOLEAN]
         /\ pc[w] \in Running => proc[w] \in Proc
         /\ pc[w] \in Running \ {"fetch"} => proc[w].got \in Payload
BY DEF TypeOK, PartOf, Task, Proc

\* A process that goes on to another of its statements stays well typed.
LEMMA StepTypes ==
  ASSUME ProcessTypeOK, NEW w \in Worker, pc[w] \in Running \ {"fetch"},
         NEW l \in Running, Goto(w, l), UNCHANGED <<task, proc>>
  PROVE  ProcessTypeOK'
BY DEF ProcessTypeOK, Goto, Running, Loading, Finished, Waiting

\* A process that ends leaves its task failed, or done.
LEMMA EndTypes ==
  ASSUME ProcessTypeOK, NEW w \in Worker, pc[w] \in Running, EndProcess(w),
         \/ Goto(w, "failed") /\ UNCHANGED task
         \/ Goto(w, "done") /\ task' = [task EXCEPT ![w] = None]
  PROVE  ProcessTypeOK'
BY NoneIsNothing DEF ProcessTypeOK, Goto, EndProcess, Running, Loading, Finished, Waiting

\* Counting a fault, or a lost reply, keeps the counters within their bounds.
LEMMA FaultTypes ==
  ASSUME OutsideTypeOK, UNCHANGED <<producerVars, code, triggered>>,
         UNCHANGED faults \/ (faults < MaxFaults /\ faults' = faults + 1)
  PROVE  OutsideTypeOK'
BY IngestAssumption DEF OutsideTypeOK, producerVars

\* The row write_audit inserts is a LOAD_AUDIT row.
LEMMA AuditTypes ==
  ASSUME TypeOK, NEW w \in Worker, pc[w] \in Running \ {"fetch"},
         NEW status \in {"loaded", "failed"}, NEW ins \in Nat, NEW upd \in Nat
  PROVE  AuditOf(w, status, ins, upd) \in AuditRow
BY WorkerTypes DEF AuditOf, AuditRow, Task, PartOf, Running, Loading, Finished

\* The initial states are well typed.
LEMMA TypeInit == Init => TypeOK
<1> SUFFICES ASSUME Init PROVE TypeOK
  OBVIOUS
<1> USE DEF Init
<1>1. LandingTypeOK
  BY NoneIsNothing DEF LandingInit, LandingTypeOK, Holds
<1>2. WarehouseTypeOK /\ audit \subseteq AuditRow
  BY DEF WarehouseInit, WarehouseTypeOK, Rows
<1>3. ProcessTypeOK
  BY DEF ProcessTypeOK, Finished, Waiting, Running, Loading
<1>4. OutsideTypeOK
  BY IngestAssumption DEF OutsideTypeOK
<1>5. QED
  BY <1>1, <1>2, <1>3, <1>4, TypeParts

\* What the schedulers, the producer and deployments do is well typed.
LEMMA TypeOutside ==
  ASSUME TypeOK
  PROVE  /\ \A w \in Worker, p \in Part, m \in Modes : Trigger(w, p, m) => TypeOK'
         /\ \A w \in Worker : Retry(w) \/ GiveUp(w) => TypeOK'
         /\ \A p \in Part : Restate(p) => TypeOK'
         /\ Deploy => TypeOK'
<1> USE TypeParts, NoneIsNothing, IngestAssumption
<1>u. ASSUME UNCHANGED landingVars PROVE LandingTypeOK'
  BY <1>u DEF landingVars, LandingTypeOK, Holds
<1>v. ASSUME UNCHANGED warehouseVars PROVE WarehouseTypeOK' /\ UNCHANGED audit
  BY <1>v DEF warehouseVars, WarehouseTypeOK
<1>1. ASSUME NEW w \in Worker, NEW p \in Part, NEW m \in Modes, Trigger(w, p, m)
      PROVE  TypeOK'
  <2>1. LandingTypeOK' /\ WarehouseTypeOK' /\ UNCHANGED audit
    BY <1>1, <1>u, <1>v DEF Trigger
  <2>2. OutsideTypeOK'
    BY <1>1 DEF Trigger, OutsideTypeOK, producerVars
  <2>3. [part |-> p, mode |-> m, run |-> triggered', try |-> 1] \in Task
    BY <1>1 DEF Trigger, Task, OutsideTypeOK
  <2>4. ProcessTypeOK'
    BY <1>1, <2>3 DEF Trigger, ProcessTypeOK, Goto, Finished, Waiting, Running, Loading
  <2>5. QED
    BY <2>1, <2>2, <2>4
<1>2. ASSUME NEW w \in Worker, Retry(w) \/ GiveUp(w) PROVE TypeOK'
  <2>1. LandingTypeOK' /\ WarehouseTypeOK' /\ UNCHANGED audit
    BY <1>2, <1>u, <1>v DEF Retry, GiveUp
  <2>2. OutsideTypeOK'
    BY <1>2 DEF Retry, GiveUp, OutsideTypeOK, producerVars
  <2>3. ASSUME Retry(w) PROVE ProcessTypeOK'
    <3>1. task[w] \in Task
      BY <2>3 DEF Retry, ProcessTypeOK, Finished
    <3>2. [task[w] EXCEPT !.try = @ + 1] \in Task
      BY <2>3, <3>1 DEF Retry, Task
    <3>3. task' = [task EXCEPT ![w] = [task[w] EXCEPT !.try = @ + 1]]
      BY <2>3 DEF Retry
    <3>4. QED
      BY <2>3, <3>2, <3>3 DEF Retry, ProcessTypeOK, Goto, Finished, Waiting, Running, Loading
  <2>4. ASSUME GiveUp(w) PROVE ProcessTypeOK'
    BY <2>4 DEF GiveUp, ProcessTypeOK, Goto, Finished, Waiting, Running, Loading
  <2>5. QED
    BY <1>2, <2>1, <2>2, <2>3, <2>4
<1>3. ASSUME NEW p \in Part, Restate(p) PROVE TypeOK'
  <2>1. LandingTypeOK' /\ WarehouseTypeOK' /\ UNCHANGED audit
    BY <1>3, <1>u, <1>v DEF Restate
  <2>2. OutsideTypeOK'
    BY <1>3 DEF Restate, OutsideTypeOK
  <2>3. ProcessTypeOK'
    BY <1>3 DEF Restate, ingestVars, ProcessTypeOK
  <2>4. QED
    BY <2>1, <2>2, <2>3
<1>4. ASSUME Deploy PROVE TypeOK'
  <2>1. LandingTypeOK' /\ WarehouseTypeOK' /\ UNCHANGED audit
    BY <1>4, <1>u, <1>v DEF Deploy
  <2>2. OutsideTypeOK'
    BY <1>4 DEF Deploy, OutsideTypeOK, producerVars
  <2>3. ProcessTypeOK'
    BY <1>4 DEF Deploy, ingestVars, ProcessTypeOK
  <2>4. QED
    BY <2>1, <2>2, <2>3
<1>5. QED
  BY <1>1, <1>2, <1>3, <1>4

\* Starting a process and the statements of run() and ingest_day are well typed.
LEMMA TypeIngestDay ==
  ASSUME TypeOK, NEW w \in Worker
  PROVE  /\ Begin(w) \/ Fetch(w) \/ Skip(w) \/ CheckMisses(w) \/ Gate(w) => TypeOK'
         /\ Clear(w) \/ Open(w) \/ Write(w) \/ Publish(w) => TypeOK'
<1> USE TypeParts, NoneIsNothing
<1>u. ASSUME UNCHANGED landingVars PROVE LandingTypeOK'
  BY <1>u DEF landingVars, LandingTypeOK, Holds
<1>v. ASSUME UNCHANGED warehouseVars PROVE WarehouseTypeOK' /\ audit' \subseteq AuditRow
  BY <1>v DEF warehouseVars, WarehouseTypeOK
<1>t. pc[w] \in Running => PartOf(w) \in Part /\ proc[w] \in Proc /\ task[w] \in Task
  BY WorkerTypes DEF Finished, Running, Loading
<1>g. pc[w] \in Running \ {"fetch"} => proc[w].got \in Payload /\ proc[w].ver \in Code
  BY WorkerTypes, <1>t DEF Proc
<1>o. ASSUME UNCHANGED <<producerVars, code, triggered, faults>> PROVE OutsideTypeOK'
  BY <1>o, FaultTypes
<1>1. ASSUME Begin(w) PROVE TypeOK'
  <2>1. LandingTypeOK'
    <3>1. PICK p \in Part : TRUE
      BY <1>1, WorkerTypes DEF Begin, Finished
    <3>2. PICK src \in Payload : TRUE
      BY <3>1 DEF OutsideTypeOK
    <3>3. code \in Code
      BY DEF OutsideTypeOK
    <3>4. QED
      BY <1>1, <3>1, <3>2, <3>3, LandingTypes DEF Begin
  <2>2. [got |-> None, ver |-> code, ins |-> 0, upd |-> 0, wrote |-> 0] \in Proc
    BY DEF Proc, OutsideTypeOK
  <2>3. ProcessTypeOK'
    BY <1>1, <2>2 DEF Begin, Goto, ProcessTypeOK, Running, Loading, Finished, Waiting
  <2>4. QED
    BY <1>1, <2>1, <2>3, <1>v, <1>o DEF Begin
<1>2. ASSUME Fetch(w) PROVE TypeOK'
  <2>1. pc[w] = "fetch" /\ proc[w] \in Proc /\ served[PartOf(w)] \in Payload
    BY <1>2, <1>t DEF Fetch, Running, OutsideTypeOK
  <2>2. [proc[w] EXCEPT !.got = served[PartOf(w)]] \in Proc
    BY <2>1 DEF Proc
  <2>3. PICK l \in {"gate", "check"} : pc' = [pc EXCEPT ![w] = l]
    BY <1>2 DEF Fetch, Goto
  <2>4. proc' = [proc EXCEPT ![w] = [proc[w] EXCEPT !.got = served[PartOf(w)]]]
    BY <1>2 DEF Fetch
  <2>5. proc'[w].got \in Payload
    BY <2>1, <2>4 DEF Proc, ProcessTypeOK
  <2>6. ProcessTypeOK'
    <3>1. UNCHANGED task
      BY <1>2 DEF Fetch
    <3>2. QED
      BY <2>1, <2>2, <2>3, <2>4, <2>5, <3>1
      DEF ProcessTypeOK, Running, Loading, Finished, Waiting
  <2>7. QED
    BY <1>2, <2>6, <1>u, <1>v, <1>o DEF Fetch
<1>3. ASSUME Skip(w) PROVE TypeOK'
  <2>1. ProcessTypeOK'
    BY <1>3, EndTypes DEF Skip, Succeed, Running
  <2>2. WarehouseTypeOK' /\ audit' \subseteq AuditRow
    BY <1>3 DEF Skip, Succeed, EndProcess, RollbackTxn, WarehouseTypeOK
  <2>3. QED
    BY <1>3, <2>1, <2>2, <1>u, <1>o DEF Skip
<1>4. ASSUME CheckMisses(w) PROVE TypeOK'
  <2>1. ProcessTypeOK'
    BY <1>4, StepTypes DEF CheckMisses, Running
  <2>2. QED
    BY <1>4, <2>1, <1>u, <1>v, <1>o DEF CheckMisses
<1>5. ASSUME Gate(w) PROVE TypeOK'
  <2>1. ProcessTypeOK'
    BY <1>5, StepTypes DEF Gate, Running
  <2>2. QED
    BY <1>5, <2>1, <1>u, <1>v, <1>o DEF Gate
<1>6. ASSUME Clear(w) PROVE TypeOK'
  <2>1. ProcessTypeOK'
    BY <1>6, StepTypes DEF Clear, Running
  <2>2. LandingTypeOK'
    BY <1>6, <1>t, <1>g, LandingTypes DEF Clear, Running
  <2>3. QED
    BY <1>6, <2>1, <2>2, <1>v, <1>o DEF Clear
<1>7. ASSUME Open(w) PROVE TypeOK'
  <2>1. ProcessTypeOK'
    BY <1>7, StepTypes DEF Open, Running
  <2>2. LandingTypeOK'
    BY <1>7, <1>t, <1>g, LandingTypes DEF Open, Running
  <2>3. QED
    BY <1>7, <2>1, <2>2, <1>v, <1>o DEF Open
<1>8. ASSUME Write(w) PROVE TypeOK'
  <2>1. ProcessTypeOK'
    BY <1>8, StepTypes DEF Write, Running
  <2>2. LandingTypeOK'
    BY <1>8, <1>t, <1>g, LandingTypes DEF Write, Running
  <2>3. QED
    BY <1>8, <2>1, <2>2, <1>v, <1>o DEF Write
<1>9. ASSUME Publish(w) PROVE TypeOK'
  <2>1. LandingTypeOK'
    BY <1>9, <1>t, <1>g, LandingTypes DEF Publish, Running
  <2>2. CASE task[w].mode.land
    <3>1. ProcessTypeOK'
      BY <1>9, <2>2, EndTypes DEF Publish, Succeed, Running
    <3>2. WarehouseTypeOK' /\ audit' \subseteq AuditRow
      BY <1>9, <2>2 DEF Publish, Succeed, EndProcess, RollbackTxn, WarehouseTypeOK
    <3>3. QED
      BY <1>9, <2>1, <3>1, <3>2, <1>o DEF Publish
  <2>3. CASE ~task[w].mode.land
    <3>1. ProcessTypeOK'
      BY <1>9, <2>3, StepTypes DEF Publish, Running, Loading
    <3>2. WarehouseTypeOK' /\ audit' \subseteq AuditRow
      BY <1>9, <2>3 DEF Publish, WarehouseTypeOK
    <3>3. QED
      BY <1>9, <2>1, <3>1, <3>2, <1>o DEF Publish
  <2>4. QED
    BY <2>2, <2>3
<1>10. QED
  BY <1>1, <1>2, <1>3, <1>4, <1>5, <1>6, <1>7, <1>8, <1>9

\* The statements of load_batch are well typed.
LEMMA TypeLoad ==
  ASSUME TypeOK, NEW w \in Worker
  PROVE  /\ Put(w) \/ Merge(w) \/ Remove(w) \/ Commit(w) => TypeOK'
         /\ Rollback(w) \/ AuditFailure(w) \/ AuditSuccess(w) => TypeOK'
<1> USE TypeParts, NoneIsNothing
<1>u. ASSUME UNCHANGED landingVars PROVE LandingTypeOK'
  BY <1>u DEF landingVars, LandingTypeOK, Holds
<1>t. pc[w] \in Running => PartOf(w) \in Part /\ proc[w] \in Proc /\ task[w] \in Task
  BY WorkerTypes DEF Finished, Running, Loading
<1>r. \A q \in Part : raw[q] \in Rows
  BY DEF WarehouseTypeOK
<1>1. ASSUME Put(w) PROVE TypeOK'
  <2>1. ProcessTypeOK'
    BY <1>1, StepTypes DEF Put, Reply, Goto, Running, Loading
  <2>2. OutsideTypeOK'
    BY <1>1, FaultTypes DEF Put, Reply
  <2>3. WarehouseTypeOK' /\ audit' \subseteq AuditRow
    BY <1>1, <1>t, <1>r, WarehouseTypes DEF Put, Running, Loading
  <2>4. QED
    BY <1>1, <2>1, <2>2, <2>3, <1>u DEF Put
<1>2. ASSUME Merge(w) PROVE TypeOK'
  <2> DEFINE p == PartOf(w)
             f == stage[p]
             rows == IF f = None THEN raw[p] ELSE Merged(raw[p], f)
             ins == IF f = None THEN 0 ELSE Cardinality(Inserted(raw[p], f))
             upd == IF f = None THEN 0 ELSE Cardinality(Updated(raw[p], f))
             wrote == Cardinality(Changed(p))
  <2>1. p \in Part /\ proc[w] \in Proc /\ f \in File \cup {None} /\ pc[w] = "merge"
    BY <1>2, <1>t DEF Merge, Running, Loading, WarehouseTypeOK
  <2>2. rows \in Rows /\ ins \in Nat /\ upd \in Nat /\ wrote \in Nat
    <3>1. rows \in Rows /\ ins \in Nat /\ upd \in Nat
      BY <2>1, <1>r, MergeTypes
    <3> HIDE DEF p, f, rows, ins, upd
    <3>2. QED
      BY <3>1, ChangedTypes
  <2>3. ExecuteMerge(w, p, rows) /\ UNCHANGED <<stage, audit>>
    BY <1>2 DEF Merge
  <2>4. proc' = [proc EXCEPT ![w] =
                   [proc[w] EXCEPT !.ins = ins, !.upd = upd, !.wrote = wrote]]
    BY <1>2, <2>1 DEF Merge, ProcessTypeOK, Proc
  <2> HIDE DEF p, f, rows, ins, upd, wrote
  <2>5. [proc[w] EXCEPT !.ins = ins, !.upd = upd, !.wrote = wrote] \in Proc
    BY <2>1, <2>2 DEF Proc
  <2>6. proc'[w] \in Proc /\ proc'[w].got = proc[w].got
    BY <2>1, <2>4, <2>5 DEF ProcessTypeOK, Proc
  <2>7. PICK l \in {"remove", "rollback"} : pc' = [pc EXCEPT ![w] = l] /\ UNCHANGED task
    BY <1>2 DEF Merge, Reply, Goto
  <2>8. ProcessTypeOK'
    BY <2>1, <2>4, <2>5, <2>6, <2>7
    DEF ProcessTypeOK, Running, Loading, Finished, Waiting
  <2>9. WarehouseTypeOK' /\ audit' \subseteq AuditRow
    BY <2>1, <2>2, <2>3, WarehouseTypes
  <2>10. OutsideTypeOK'
    BY <1>2, FaultTypes DEF Merge, Reply
  <2>11. QED
    BY <1>2, <2>8, <2>9, <2>10, <1>u DEF Merge
<1>3. ASSUME Remove(w) PROVE TypeOK'
  <2>1. ProcessTypeOK'
    BY <1>3, StepTypes DEF Remove, Reply, Goto, Running, Loading
  <2>2. OutsideTypeOK'
    BY <1>3, FaultTypes DEF Remove, Reply
  <2>3. WarehouseTypeOK' /\ audit' \subseteq AuditRow
    BY <1>3, <1>t, <1>r, WarehouseTypes DEF Remove, Running, Loading
  <2>4. QED
    BY <1>3, <2>1, <2>2, <2>3, <1>u DEF Remove
<1>4. ASSUME Commit(w) PROVE TypeOK'
  <2>1. pc[w] = "commit" /\ PartOf(w) \in Part /\ proc[w] \in Proc
    BY <1>4, <1>t DEF Commit, Running, Loading
  <2>2. PICK n \in Nat : proc' = [proc EXCEPT ![w] = [proc[w] EXCEPT !.wrote = n]]
    <3> DEFINE new == Cardinality(Changed(PartOf(w)))
    <3>1. proc' = [proc EXCEPT ![w] = [proc[w] EXCEPT !.wrote = proc[w].wrote + new]]
      BY <1>4 DEF Commit
    <3>2. proc[w].wrote + new \in Nat
      BY <2>1, ChangedTypes DEF Proc
    <3>3. QED
      BY <3>1, <3>2
  <2>3. [proc[w] EXCEPT !.wrote = n] \in Proc
    BY <2>1 DEF Proc
  <2>4. proc'[w] \in Proc /\ proc'[w].got = proc[w].got
    BY <2>1, <2>2, <2>3 DEF ProcessTypeOK, Proc
  <2>5. PICK l \in {"audit", "rollback"} : pc' = [pc EXCEPT ![w] = l] /\ UNCHANGED task
    BY <1>4 DEF Commit, Reply, Goto
  <2>6. ProcessTypeOK'
    BY <2>1, <2>2, <2>3, <2>4, <2>5
    DEF ProcessTypeOK, Running, Loading, Finished, Waiting
  <2>7. WarehouseTypeOK' /\ audit' \subseteq AuditRow
    BY <1>4, <2>1, <1>r, WarehouseTypes DEF Commit
  <2>8. OutsideTypeOK'
    BY <1>4, FaultTypes DEF Commit, Reply
  <2>9. QED
    BY <1>4, <2>6, <2>7, <2>8, <1>u DEF Commit
<1>5. ASSUME Rollback(w) PROVE TypeOK'
  <2>1. ProcessTypeOK'
    BY <1>5, StepTypes DEF Rollback, Running
  <2>2. OutsideTypeOK'
    BY <1>5, FaultTypes DEF Rollback
  <2>3. WarehouseTypeOK' /\ audit' \subseteq AuditRow
    BY <1>5, <1>t, <1>r, WarehouseTypes DEF Rollback, Running
  <2>4. QED
    BY <1>5, <2>1, <2>2, <2>3, <1>u DEF Rollback
<1>6. ASSUME AuditFailure(w) PROVE TypeOK'
  <2>1. pc[w] = "auditfail" /\ PartOf(w) \in Part
    BY <1>6, <1>t DEF AuditFailure, Running
  <2>2. ProcessTypeOK'
    BY <1>6, EndTypes DEF AuditFailure, Running
  <2>3. OutsideTypeOK'
    BY <1>6, FaultTypes DEF AuditFailure
  <2>4. WarehouseTypeOK'
    BY <1>6, <2>1, <1>r, WarehouseTypes DEF AuditFailure
  <2>5. AuditOf(w, "failed", 0, 0) \in AuditRow
    BY <2>1, AuditTypes DEF Running
  <2>6. audit' \subseteq AuditRow
    BY <1>6, <2>5 DEF AuditFailure, WriteAudit
  <2>7. QED
    BY <1>6, <2>2, <2>3, <2>4, <2>6, <1>u DEF AuditFailure
<1>7. ASSUME AuditSuccess(w) PROVE TypeOK'
  <2>1. pc[w] = "audit" /\ PartOf(w) \in Part /\ proc[w] \in Proc
    BY <1>7, <1>t DEF AuditSuccess, Running
  <2>2. ProcessTypeOK'
    BY <1>7, EndTypes DEF AuditSuccess, Succeed, Running
  <2>3. OutsideTypeOK'
    BY <1>7, FaultTypes DEF AuditSuccess
  <2>4. WarehouseTypeOK'
    BY <1>7, <2>1, <1>r, WarehouseTypes DEF AuditSuccess
  <2>5. AuditOf(w, "loaded", proc[w].ins, proc[w].upd) \in AuditRow
    BY <2>1, AuditTypes DEF Running, Proc
  <2>6. audit' \subseteq AuditRow
    BY <1>7, <2>5 DEF AuditSuccess, WriteAudit
  <2>7. QED
    BY <1>7, <2>2, <2>3, <2>4, <2>6, <1>u DEF AuditSuccess
<1>8. QED
  BY <1>1, <1>2, <1>3, <1>4, <1>5, <1>6, <1>7

\* Failures are well typed.
LEMMA TypeFailures ==
  ASSUME TypeOK, NEW w \in Worker
  PROVE  /\ Raises(w) \/ Die(w) \/ WriteFails(w) => TypeOK'
         /\ LoadRaises(w) \/ StatementFails(w) => TypeOK'
<1> USE TypeParts, NoneIsNothing
<1>t. pc[w] \in Running => PartOf(w) \in Part
  BY WorkerTypes DEF Finished, Running, Loading
<1>1. ASSUME Fail(w), pc[w] \in Running,
             UNCHANGED faults \/ (faults < MaxFaults /\ faults' = faults + 1)
      PROVE  TypeOK'
  <2>1. ProcessTypeOK'
    BY <1>1, EndTypes DEF Fail
  <2>2. OutsideTypeOK'
    BY <1>1, FaultTypes DEF Fail
  <2>3. WarehouseTypeOK' /\ audit' \subseteq AuditRow
    BY <1>1 DEF Fail, EndProcess, RollbackTxn, WarehouseTypeOK
  <2>4. LandingTypeOK'
    BY <1>1 DEF Fail, DropHandle, LandingTypeOK, Holds
  <2>5. QED
    BY <2>1, <2>2, <2>3, <2>4
<1>2. ASSUME Raises(w) PROVE TypeOK'
  BY <1>1, <1>2 DEF Raises, Running
<1>3. ASSUME Die(w) PROVE TypeOK'
  BY <1>1, <1>3 DEF Die
<1>4. ASSUME WriteFails(w) PROVE TypeOK'
  <2>1. ProcessTypeOK'
    BY <1>4, EndTypes DEF WriteFails, Running
  <2>2. OutsideTypeOK'
    BY <1>4, FaultTypes DEF WriteFails
  <2>3. WarehouseTypeOK' /\ audit' \subseteq AuditRow
    BY <1>4 DEF WriteFails, EndProcess, RollbackTxn, WarehouseTypeOK
  <2>4. PartOf(w) \in Part /\ proc[w].got \in Payload
    BY <1>4, WorkerTypes DEF WriteFails, Running, Finished
  <2>5. PICK c \in Code : TRUE
    BY DEF OutsideTypeOK
  <2>6. LandingTypeOK'
    BY <1>4, <2>4, <2>5, LandingTypes DEF WriteFails
  <2>7. QED
    BY <2>1, <2>2, <2>3, <2>6
<1>5. ASSUME LoadRaises(w) \/ StatementFails(w) PROVE TypeOK'
  <2>1. pc[w] \in Loading /\ Goto(w, "rollback") /\ UNCHANGED <<task, proc>>
    BY <1>5 DEF LoadRaises, StatementFails, Loading
  <2>2. ProcessTypeOK'
    BY <2>1, StepTypes DEF Running, Loading
  <2>3. OutsideTypeOK'
    BY <1>5, FaultTypes DEF LoadRaises, StatementFails
  <2>4. UNCHANGED <<landingVars, warehouseVars>>
    BY <1>5 DEF LoadRaises, StatementFails
  <2>5. WarehouseTypeOK' /\ audit' \subseteq AuditRow /\ LandingTypeOK'
    BY <2>4 DEF landingVars, warehouseVars, LandingTypeOK, WarehouseTypeOK, Holds
  <2>6. QED
    BY <2>2, <2>3, <2>5
<1>6. QED
  BY <1>2, <1>3, <1>4, <1>5

\* A step that changes nothing.
LEMMA TypeStutter == TypeOK /\ UNCHANGED vars => TypeOK'
<1> SUFFICES ASSUME TypeOK, UNCHANGED vars PROVE TypeOK'
  OBVIOUS
<1>1. LandingTypeOK' /\ WarehouseTypeOK' /\ audit' \subseteq AuditRow
  BY TypeParts DEF vars, landingVars, warehouseVars, LandingTypeOK, WarehouseTypeOK, Holds
<1>2. ProcessTypeOK'
  BY TypeParts DEF vars, ingestVars, ProcessTypeOK
<1>3. OutsideTypeOK'
  BY TypeParts DEF vars, producerVars, OutsideTypeOK
<1>4. QED
  BY <1>1, <1>2, <1>3, TypeParts

\* Every reachable state is well typed: an attempt has exactly the locals its
\* next statement needs, and a handle that goes by a name has a file there.
THEOREM TypeCorrect == Spec => []TypeOK
<1>1. TypeOK /\ [Next]_vars => TypeOK'
  <2> SUFFICES ASSUME TypeOK, [Next]_vars PROVE TypeOK'
    OBVIOUS
  <2>1. CASE UNCHANGED vars
    BY <2>1, TypeStutter
  <2>2. ASSUME NEW w \in Worker, NEW p \in Part, NEW m \in Modes, Trigger(w, p, m)
        PROVE  TypeOK'
    BY <2>2, TypeOutside
  <2>3. ASSUME NEW w \in Worker, Progress(w) PROVE TypeOK'
    BY <2>3, TypeOutside, TypeIngestDay, TypeLoad, TypeFailures DEF Progress
  <2>4. ASSUME NEW w \in Worker, Die(w) \/ WriteFails(w) \/ StatementFails(w)
        PROVE  TypeOK'
    BY <2>4, TypeFailures
  <2>5. ASSUME NEW p \in Part, Restate(p) PROVE TypeOK'
    BY <2>5, TypeOutside
  <2>6. CASE Deploy
    BY <2>6, TypeOutside
  <2>7. QED
    BY <2>1, <2>2, <2>3, <2>4, <2>5, <2>6 DEF Next, Rest
<1>2. QED
  BY <1>1, TypeInit, PTL DEF Spec

=============================================================================
