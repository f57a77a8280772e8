------------------------------- MODULE Ingest -------------------------------
(***************************************************************************)
(* Ingestion of (city, day) partitions: task instances that run            *)
(* pipeline.run.run() for one partition each, as both DAGs call it, on top *)
(* of the landing zone (Landing) and the warehouse (Warehouse).  One       *)
(* action per statement that reads or changes shared state, so steps of    *)
(* different tasks interleave, attempts die between any two statements,    *)
(* and Airflow retries them.                                               *)
(***************************************************************************)
EXTENDS Warehouse

CONSTANTS
  Malformed,     \* payloads flatten_hourly raises on (ragged or mistyped series)
  Modes,         \* how runs are started: [full : --full-refresh, land : --land-only]
  Overlap,       \* may two runs work on one partition at once (daily DAG,
                 \* backfill DAG and CLI together), or does each have its own
  Reverts,       \* may the producer serve again a payload it has replaced
  LostReplies,   \* may a statement take effect and its caller see an error
  MaxTries,      \* attempts of a task: Airflow's retries + 1
  MaxTriggers,   \* bound: tasks started
  MaxRestates,   \* bound: times the producer changes its answer
  MaxDeploys,    \* bound: times a new code version is deployed
  MaxFaults      \* bound: crashes, I/O errors and lost replies

VARIABLES
  pc,         \* pc[w]: the next statement of w's process, or the task's state
  task,       \* task[w]: the task instance w works on, or None
  proc,       \* proc[w]: the locals of w's process, or None
  served,     \* served[p]: the payload the producer answers for p
  past,       \* past[p]: the payloads it answered before
  code,       \* the deployed code version
  triggered, restated, faults   \* how much of the bounds is used

ingestVars == <<pc, task, proc>>
producerVars == <<served, past, restated>>
vars == <<landingVars, warehouseVars, ingestVars, producerVars, code, triggered, faults>>

ASSUME IngestAssumption ==
  /\ Malformed \subseteq Payload
  /\ Modes \subseteq [full : BOOLEAN, land : BOOLEAN]
  /\ {Overlap, Reverts, LostReplies} \subseteq BOOLEAN
  /\ MaxTries \in Nat \ {0}
  /\ {MaxTriggers, MaxRestates, MaxDeploys, MaxFaults} \subseteq Nat
  /\ Code = 0 .. MaxDeploys

Task == [part : Part, mode : [full : BOOLEAN, land : BOOLEAN], run : 1 .. MaxTriggers,
         try : 1 .. MaxTries]

\* got: the payload fetched.  ver: the code the process was started with.
\* ins, upd: what the MERGE reported.  wrote: history, how many RAW rows the
\* attempt has changed for others to see.
Proc == [got : Payload \cup {None}, ver : Code, ins : Nat, upd : Nat, wrote : Nat]

ASSUME NoneAssumption ==
  None \notin Payload \cup File \cup Handle \cup Row \cup Rows \cup Task \cup Proc

AuditRow == [run : 1 .. MaxTriggers, try : 1 .. MaxTries, part : Part, hash : Payload,
             status : {"loaded", "failed"}, ins : Nat, upd : Nat]

Finished == {"idle", "done", "gaveup"}
Waiting == {"ready", "failed"}
Loading == {"put", "merge", "remove", "commit"}   \* the try block of load_batch
Running == {"fetch", "check", "gate", "clear", "open", "write", "rename"}
             \cup Loading \cup {"rollback", "auditfail", "audit"}

TypeOK ==
  /\ LandingTypeOK /\ WarehouseTypeOK
  /\ audit \subseteq AuditRow
  /\ pc \in [Worker -> Finished \cup Waiting \cup Running]
  /\ task \in [Worker -> Task \cup {None}]
  /\ proc \in [Worker -> Proc \cup {None}]
  /\ \A w \in Worker : /\ task[w] # None <=> pc[w] \notin Finished
                       /\ proc[w] # None <=> pc[w] \in Running
                       /\ pc[w] \in Running \ {"fetch"} => proc[w].got # None
  /\ served \in [Part -> Payload] /\ past \in [Part -> SUBSET Payload]
  /\ code \in Code
  /\ triggered \in 0 .. MaxTriggers /\ restated \in 0 .. MaxRestates
  /\ faults \in 0 .. MaxFaults

Init ==
  /\ LandingInit /\ WarehouseInit
  /\ pc = [w \in Worker |-> "idle"]
  /\ task = [w \in Worker |-> None]
  /\ proc = [w \in Worker |-> None]
  /\ served \in [Part -> Payload] /\ past = [p \in Part |-> {}]
  /\ code = 0 /\ triggered = 0 /\ restated = 0 /\ faults = 0

PartOf(w) == task[w].part
Goto(w, label) == pc' = [pc EXCEPT ![w] = label]

\* A statement of w that succeeds, or succeeds while its caller sees an error.
Reply(w, next, lost) ==
  \/ Goto(w, next) /\ UNCHANGED faults
  \/ /\ LostReplies /\ faults < MaxFaults
     /\ faults' = faults + 1
     /\ Goto(w, lost)

\* The process is gone: its locals, its open file and its session with it.
EndProcess(w) ==
  /\ proc' = [proc EXCEPT ![w] = None]
  /\ RollbackTxn(w)

----------------------------------------------------------------------------
(* The schedulers, the producer and deployments                             *)

\* A DAG run or an operator starts run() for one partition.
Trigger(w, p, m) ==
  /\ pc[w] \in Finished /\ triggered < MaxTriggers
  /\ Overlap \/ \A v \in Worker : task[v] # None => PartOf(v) # p
  /\ triggered' = triggered + 1
  /\ task' = [task EXCEPT ![w] = [part |-> p, mode |-> m, run |-> triggered', try |-> 1]]
  /\ Goto(w, "ready")
  /\ UNCHANGED <<landingVars, warehouseVars, proc, producerVars, code, faults>>

\* Faulty: one attempt too many.
RetryOnceMore(w) ==
  /\ pc[w] = "failed" /\ task[w].try <= MaxTries
  /\ task' = [task EXCEPT ![w].try = @ + 1]
  /\ Goto(w, "ready")
  /\ UNCHANGED <<landingVars, warehouseVars, proc, producerVars, code, triggered, faults>>

\* Airflow retries a failed attempt, `retries` times.
Retry(w) ==
  /\ pc[w] = "failed" /\ task[w].try < MaxTries
  /\ task' = [task EXCEPT ![w].try = @ + 1]
  /\ Goto(w, "ready")
  /\ UNCHANGED <<landingVars, warehouseVars, proc, producerVars, code, triggered, faults>>

GiveUp(w) ==
  /\ pc[w] = "failed" /\ task[w].try = MaxTries
  /\ task' = [task EXCEPT ![w] = None]
  /\ Goto(w, "gaveup")
  /\ UNCHANGED <<landingVars, warehouseVars, proc, producerVars, code, triggered, faults>>

\* The producer restates a day: it answers with another payload from now on.
Restate(p) ==
  /\ restated < MaxRestates
  /\ restated' = restated + 1
  /\ \E pl \in Payload \ {served[p]} :
       /\ Reverts \/ pl \notin past[p]
       /\ served' = [served EXCEPT ![p] = pl]
  /\ past' = [past EXCEPT ![p] = @ \cup {served[p]}]
  /\ UNCHANGED <<landingVars, warehouseVars, ingestVars, code, triggered, faults>>

\* A new version of the flattening code; running processes keep theirs.
Deploy ==
  /\ code < MaxDeploys
  /\ code' = code + 1
  /\ UNCHANGED <<landingVars, warehouseVars, ingestVars, producerVars, triggered, faults>>

----------------------------------------------------------------------------
(* run() and ingest_day                                                     *)

\* The process starts, and sweeps the landing root before anything else.
Begin(w) ==
  /\ pc[w] = "ready"
  /\ CleanupTempFiles
  /\ proc' = [proc EXCEPT ![w] = [got |-> None, ver |-> code, ins |-> 0, upd |-> 0,
                                  wrote |-> 0]]
  /\ Goto(w, "fetch")
  /\ UNCHANGED <<warehouseVars, task, producerVars, code, triggered, faults>>

\* fetch_hourly and payload_hash.  The guard of already_loaded is skipped for a
\* full refresh and when there is no connection.
Fetch(w) ==
  /\ pc[w] = "fetch"
  /\ proc' = [proc EXCEPT ![w].got = served[PartOf(w)]]
  /\ Goto(w, IF task[w].mode.full \/ task[w].mode.land THEN "gate" ELSE "check")
  /\ UNCHANGED <<landingVars, warehouseVars, task, producerVars, code, triggered, faults>>

\* The run ends well: run() returns its summary.
Succeed(w) ==
  /\ Goto(w, "done")
  /\ task' = [task EXCEPT ![w] = None]
  /\ EndProcess(w)

\* already_loaded says yes: the partition is skipped.
Skip(w) ==
  /\ pc[w] = "check" /\ AlreadyLoaded(PartOf(w), proc[w].got)
  /\ Succeed(w)
  /\ UNCHANGED <<landingVars, stage, raw, audit, producerVars, code, triggered, faults>>

\* already_loaded says no.
CheckMisses(w) ==
  /\ pc[w] = "check" /\ ~AlreadyLoaded(PartOf(w), proc[w].got)
  /\ Goto(w, "gate")
  /\ UNCHANGED <<landingVars, warehouseVars, task, proc, producerVars, code, triggered, faults>>

\* Faulty: the ratio is compared with 2, not with 2%.
ExceedsTwo(pl) == Cardinality(BadOf[pl]) > 2 * Cardinality(HoursOf[pl])

\* check_batch: reject_ratio > 0.02 raises.
ExceedsThreshold(pl) == 100 * Cardinality(BadOf[pl]) > 2 * Cardinality(HoursOf[pl])

\* Faulty: the test for an empty window is missing.
PassesEmpty(pl) == pl \notin Malformed /\ ~ExceedsThreshold(pl)

\* Faulty: only a window with every hour passes.
PassesFullDay(pl) == pl \notin Malformed /\ HoursOf[pl] = Hour /\ ~ExceedsThreshold(pl)

\* What flatten_hourly, the test for an empty window and check_batch let through.
Passes(pl) == pl \notin Malformed /\ HoursOf[pl] # {} /\ ~ExceedsThreshold(pl)

Gate(w) ==
  /\ pc[w] = "gate" /\ Passes(proc[w].got)
  /\ Goto(w, IF task[w].mode.full THEN "clear" ELSE "open")
  /\ UNCHANGED <<landingVars, warehouseVars, task, proc, producerVars, code, triggered, faults>>

Clear(w) ==
  /\ pc[w] = "clear"
  /\ ClearPartition(PartOf(w))
  /\ Goto(w, "open")
  /\ UNCHANGED <<warehouseVars, task, proc, producerVars, code, triggered, faults>>

Open(w) ==
  /\ pc[w] = "open"
  /\ OpenTmp(w, PartOf(w), proc[w].got, proc[w].ver)
  /\ Goto(w, "write")
  /\ UNCHANGED <<warehouseVars, task, proc, producerVars, code, triggered, faults>>

Write(w) ==
  /\ pc[w] = "write"
  /\ CloseTmp(w, PartOf(w), proc[w].got, proc[w].ver)
  /\ Goto(w, "rename")
  /\ UNCHANGED <<warehouseVars, task, proc, producerVars, code, triggered, faults>>

\* After the rename a --land-only run is finished.
Publish(w) ==
  /\ pc[w] = "rename"
  /\ PublishTmp(PartOf(w))
  /\ IF task[w].mode.land THEN Succeed(w)
                          ELSE Goto(w, "put") /\ UNCHANGED <<task, proc, txn>>
  /\ UNCHANGED <<stage, raw, audit, producerVars, code, triggered, faults>>

----------------------------------------------------------------------------
(* load_batch                                                               *)

Put(w) ==
  /\ pc[w] = "put"
  /\ PutFile(PartOf(w))
  /\ Reply(w, "merge", "rollback")
  /\ UNCHANGED <<landingVars, raw, txn, audit, task, proc, producerVars, code, triggered>>

\* The RAW rows of partition p a step changes.
Changed(p) == {h \in Hour : raw'[p][h] # raw[p][h]}

\* A MERGE over a path with no staged file sees no rows, or raises (LoadRaises).
Merge(w) ==
  LET p == PartOf(w)
      f == stage[p]
      ins == IF f = None THEN 0 ELSE Cardinality(Inserted(raw[p], f))
      upd == IF f = None THEN 0 ELSE Cardinality(Updated(raw[p], f))
  IN /\ pc[w] = "merge" /\ (f = None \/ Readable(f))
     /\ ExecuteMerge(w, p, IF f = None THEN raw[p] ELSE Merged(raw[p], f))
     /\ proc' = [proc EXCEPT ![w].ins = ins, ![w].upd = upd,
                             ![w].wrote = Cardinality(Changed(p))]
     /\ Reply(w, "remove", "rollback")
     /\ UNCHANGED <<landingVars, stage, audit, task, producerVars, code, triggered>>

Remove(w) ==
  /\ pc[w] = "remove"
  /\ RemoveStaged(PartOf(w))
  /\ Reply(w, "commit", "rollback")
  /\ UNCHANGED <<landingVars, raw, txn, audit, task, proc, producerVars, code, triggered>>

Commit(w) ==
  /\ pc[w] = "commit"
  /\ CommitTxn(w, PartOf(w))
  /\ proc' = [proc EXCEPT ![w].wrote = @ + Cardinality(Changed(PartOf(w)))]
  /\ Reply(w, "audit", "rollback")
  /\ UNCHANGED <<landingVars, stage, audit, task, producerVars, code, triggered>>

\* Faulty: the exception handler does not roll back.
RollbackForgotten(w) ==
  /\ pc[w] = "rollback"
  /\ Goto(w, "auditfail")
  /\ UNCHANGED <<landingVars, warehouseVars, task, proc, producerVars, code, triggered,
                 faults>>

Rollback(w) ==
  /\ pc[w] = "rollback"
  /\ RollbackTxn(w)
  /\ Goto(w, "auditfail")
  /\ UNCHANGED <<landingVars, stage, raw, audit, task, proc, producerVars, code, triggered,
                 faults>>

\* The row write_audit inserts: the hash is the one of the payload fetched.
AuditOf(w, status, ins, upd) ==
  [run |-> task[w].run, try |-> task[w].try, part |-> PartOf(w), hash |-> proc[w].got,
   status |-> status, ins |-> ins, upd |-> upd]

\* The failed row is written, then the exception goes on to Airflow.
AuditFailure(w) ==
  /\ pc[w] = "auditfail"
  /\ WriteAudit(w, PartOf(w), AuditOf(w, "failed", 0, 0))
  /\ Goto(w, "failed")
  /\ EndProcess(w)
  /\ UNCHANGED <<landingVars, stage, task, producerVars, code, triggered, faults>>

\* Faulty: the success row is written inside the try block.
AuditSuccessInTry(w) ==
  /\ pc[w] = "audit"
  /\ WriteAudit(w, PartOf(w), AuditOf(w, "loaded", proc[w].ins, proc[w].upd))
  /\ \/ Succeed(w) /\ UNCHANGED faults
     \/ /\ LostReplies /\ faults < MaxFaults
        /\ faults' = faults + 1
        /\ Goto(w, "rollback") /\ UNCHANGED <<task, proc>>
  /\ UNCHANGED <<landingVars, stage, producerVars, code, triggered>>

\* The success row is written outside the try block: losing its reply fails the
\* attempt and writes no second row.
AuditSuccess(w) ==
  /\ pc[w] = "audit"
  /\ WriteAudit(w, PartOf(w), AuditOf(w, "loaded", proc[w].ins, proc[w].upd))
  /\ \/ Succeed(w) /\ UNCHANGED faults
     \/ /\ LostReplies /\ faults < MaxFaults
        /\ faults' = faults + 1
        /\ Goto(w, "failed") /\ EndProcess(w) /\ UNCHANGED task
  /\ UNCHANGED <<landingVars, stage, producerVars, code, triggered>>

----------------------------------------------------------------------------
(* Failures                                                                 *)

Fail(w) ==
  /\ Goto(w, "failed")
  /\ EndProcess(w)
  /\ DropHandle(w)
  /\ UNCHANGED <<stage, raw, audit, task, producerVars, code, triggered>>

\* Exceptions the state of the world forces: the gate refuses the payload, or
\* the temporary file was deleted before the rename.
Raises(w) ==
  /\ \/ pc[w] = "gate" /\ ~Passes(proc[w].got)
     \/ pc[w] = "rename" /\ tmp[PartOf(w)] = None
  /\ Fail(w) /\ UNCHANGED faults

\* A process is killed, or an exception nothing catches ends it.
Die(w) ==
  /\ pc[w] \in Running /\ faults < MaxFaults
  /\ faults' = faults + 1
  /\ Fail(w)

\* pq.write_table raises: the disk is full.
WriteFails(w) ==
  /\ pc[w] = "write" /\ faults < MaxFaults
  /\ faults' = faults + 1
  /\ AbandonTmp(w, PartOf(w))
  /\ Goto(w, "failed") /\ EndProcess(w)
  /\ UNCHANGED <<stage, raw, audit, task, producerVars, code, triggered>>

\* Inside load_batch the exception handler runs first.  PUT raises on a missing
\* file, the MERGE on a file that is no Parquet and, perhaps, on a missing one.
LoadRaises(w) ==
  /\ \/ pc[w] = "put" /\ final[PartOf(w)] = None
     \/ pc[w] = "merge" /\ ~Readable(stage[PartOf(w)])
  /\ Goto(w, "rollback")
  /\ UNCHANGED <<landingVars, warehouseVars, task, proc, producerVars, code, triggered, faults>>

\* Any other error a statement of the try block gets: it did not take effect.
StatementFails(w) ==
  /\ pc[w] \in Loading /\ faults < MaxFaults
  /\ faults' = faults + 1
  /\ Goto(w, "rollback")
  /\ UNCHANGED <<landingVars, warehouseVars, task, proc, producerVars, code, triggered>>

\* Nothing is running: the system may rest for ever.
Rest == (\A w \in Worker : pc[w] \in Finished) /\ UNCHANGED vars

----------------------------------------------------------------------------
\* What a process and its scheduler do unless something goes wrong.
Progress(w) ==
  \/ Retry(w) \/ GiveUp(w) \/ Begin(w) \/ Fetch(w) \/ Skip(w) \/ CheckMisses(w)
  \/ Gate(w) \/ Clear(w) \/ Open(w) \/ Write(w) \/ Publish(w)
  \/ Put(w) \/ Merge(w) \/ Remove(w) \/ Commit(w) \/ AuditSuccess(w)
  \/ Rollback(w) \/ AuditFailure(w) \/ Raises(w) \/ LoadRaises(w)

Next ==
  \/ \E w \in Worker : \/ \E p \in Part, m \in Modes : Trigger(w, p, m)
                       \/ Progress(w)
                       \/ Die(w) \/ WriteFails(w) \/ StatementFails(w)
  \/ \E p \in Part : Restate(p)
  \/ Deploy
  \/ Rest

Spec == Init /\ [][Next]_vars

\* Statements return or raise (the API client and Snowflake have timeouts), and
\* Airflow's scheduler starts what is due.  Nothing else is promised.
FairSpec == Spec /\ \A w \in Worker : WF_vars(Progress(w))

=============================================================================
