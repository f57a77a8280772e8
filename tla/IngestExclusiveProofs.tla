----------------------- MODULE IngestExclusiveProofs -----------------------
(***************************************************************************)
(* While the runs of a partition do not overlap, each task has the         *)
(* partition's names to itself.  The proofs that ReadersSeeWholeFiles,     *)
(* AuditTruthful, GreenHasRows, NoTryIsWasted and the refinement           *)
(* KeepsPromise hold for every value of the constants with                 *)
(* Overlap = FALSE, and GreenMeansCurrent for every one with               *)
(* Reverts = FALSE besides.                                                *)
(***************************************************************************)
EXTENDS IngestReloadProofs, IngestGateProofs

\* Live tasks work on different partitions.
Exclusive ==
  \A v, w \in Worker :
    v # w /\ task[v] # None /\ task[w] # None => PartOf(v) # PartOf(w)

\* No file has had two writers, and only temporary ones are incomplete.
FilesPure ==
  /\ \A p \in Part : tmp[p] # None => tmp[p].st \in {"partial", "whole"}
  /\ ReadersSeeWholeFiles

\* The rows w will leave in its partition: those of its transaction, or of RAW.
RowsOf(w) == IF txn[w] = None THEN raw[PartOf(w)] ELSE txn[w]

\* The payload w has fetched, followed from its open file to RAW.  The temporary
\* file may have been swept away; nothing else may be somebody else's.
OwnFiles(w) ==
  /\ handle[w] # None =>
       pc[w] = "write" /\ handle[w].part = PartOf(w) /\ handle[w].name # "final"
  /\ pc[w] = "write" /\ tmp[PartOf(w)] # None =>
       Holds(w, PartOf(w), "tmp") /\ tmp[PartOf(w)].src = proc[w].got
  /\ pc[w] = "rename" /\ tmp[PartOf(w)] # None =>
       tmp[PartOf(w)].st = "whole" /\ tmp[PartOf(w)].src = proc[w].got
  /\ pc[w] = "put" => final[PartOf(w)] # None /\ final[PartOf(w)].src = proc[w].got
  /\ pc[w] = "merge" => stage[PartOf(w)] # None /\ stage[PartOf(w)].src = proc[w].got
  /\ pc[w] \in {"remove", "commit", "audit"} => Agrees(RowsOf(w), proc[w].got)

\* The inductive invariant of runs that do not overlap.
DayInv == Exclusive /\ FilesPure /\ \A w \in Worker : OwnFiles(w)

\* What a step of w leaves to the other tasks: their own state and partition,
\* except that a sweep may take the name of the file they are writing.
OthersKeep(w) ==
  \A v \in Worker \ {w} :
    /\ pc'[v] = pc[v] /\ task'[v] = task[v] /\ proc'[v] = proc[v] /\ txn'[v] = txn[v]
    /\ \/ handle'[v] = handle[v]
       \/ handle[v] # None /\ handle'[v] = [handle[v] EXCEPT !.name = "gone"]
    /\ task[v] # None =>
         /\ \/ tmp'[PartOf(v)] = tmp[PartOf(v)] /\ handle'[v] = handle[v]
            \/ /\ tmp'[PartOf(v)] = None
               /\ handle'[v] # [part |-> PartOf(v), name |-> "tmp"]
         /\ final'[PartOf(v)] = final[PartOf(v)]
         /\ stage'[PartOf(v)] = stage[PartOf(v)]
         /\ raw'[PartOf(v)] = raw[PartOf(v)]

\* Then they keep what is theirs.
LEMMA OthersOwn ==
  ASSUME TypeOK, DayInv, NEW w \in Worker, OthersKeep(w), NEW v \in Worker \ {w}
  PROVE  OwnFiles(v)'
<1> DEFINE p == PartOf(v)
<1>1. /\ pc'[v] = pc[v] /\ task'[v] = task[v] /\ proc'[v] = proc[v] /\ txn'[v] = txn[v]
      /\ PartOf(v)' = p
  BY DEF OthersKeep, PartOf
<1>2. handle'[v] # None => /\ handle[v] # None /\ handle'[v].part = handle[v].part
                           /\ handle'[v].name \in {handle[v].name, "gone"}
  <2>1. handle[v] \in Handle \cup {None}
    BY DEF TypeOK, LandingTypeOK
  <2>2. handle[v] \in Handle =>
          /\ [handle[v] EXCEPT !.name = "gone"].part = handle[v].part
          /\ [handle[v] EXCEPT !.name = "gone"].name = "gone"
    BY DEF Handle
  <2>3. QED
    BY <2>1, <2>2 DEF OthersKeep
<1>3. ASSUME pc[v] \notin Finished
      PROVE  /\ (tmp'[p] = tmp[p] /\ handle'[v] = handle[v]) \/ tmp'[p] = None
             /\ final'[p] = final[p] /\ stage'[p] = stage[p] /\ raw'[p] = raw[p]
  <2>1. task[v] # None
    BY <1>3 DEF TypeOK
  <2>2. QED
    BY <2>1 DEF OthersKeep
<1>5. OwnFiles(v)
  BY DEF DayInv
<1>6. handle'[v] # None =>
        pc'[v] = "write" /\ handle'[v].part = PartOf(v)' /\ handle'[v].name # "final"
  BY <1>1, <1>2, <1>5 DEF OwnFiles
<1>7. pc'[v] = "write" /\ tmp'[p] # None =>
        handle'[v] = [part |-> p, name |-> "tmp"] /\ tmp'[p].src = proc'[v].got
  BY <1>1, <1>3, <1>5 DEF OwnFiles, Finished, Holds
<1>8. /\ pc'[v] = "rename" /\ tmp'[p] # None =>
           tmp'[p].st = "whole" /\ tmp'[p].src = proc'[v].got
      /\ pc'[v] = "put" => final'[p] # None /\ final'[p].src = proc'[v].got
      /\ pc'[v] = "merge" => stage'[p] # None /\ stage'[p].src = proc'[v].got
  BY <1>1, <1>3, <1>5 DEF OwnFiles, Finished
<1>9. pc'[v] \in {"remove", "commit", "audit"} => Agrees(RowsOf(v), proc[v].got)'
  BY <1>1, <1>3, <1>5 DEF OwnFiles, RowsOf, Agrees, Finished
<1>10. QED
  BY <1>1, <1>6, <1>7, <1>8, <1>9 DEF OwnFiles, Holds

\* A step of w that starts no task.
LEMMA OwnStep ==
  ASSUME TypeOK, DayInv, NEW w \in Worker, OthersKeep(w),
         task'[w] = None \/ (task[w] # None /\ PartOf(w)' = PartOf(w)),
         FilesPure', OwnFiles(w)'
  PROVE  DayInv'
<1>1. \A v \in Worker :
        task'[v] # None => task[v] # None /\ PartOf(v)' = PartOf(v)
  <2>1. ASSUME NEW v \in Worker \ {w} PROVE task'[v] = task[v] /\ PartOf(v)' = PartOf(v)
    BY DEF OthersKeep, PartOf
  <2>2. QED
    BY <2>1
<1>2. Exclusive'
  BY <1>1 DEF DayInv, Exclusive
<1>3. QED
  BY <1>2, OthersOwn DEF DayInv

\* No file, no task in the initial states.
LEMMA DayInit == Init => DayInv
BY NoneIsNothing DEF Init, LandingInit, WarehouseInit, DayInv, Exclusive, FilesPure,
   ReadersSeeWholeFiles, OwnFiles, Holds

\* A step of w that leaves files, stage, RAW and handles alone.
LEMMA LocalStep ==
  ASSUME TypeOK, DayInv, NEW w \in Worker,
         UNCHANGED <<landingVars, stage, raw>>,
         \A v \in Worker \ {w} : /\ pc'[v] = pc[v] /\ task'[v] = task[v]
                                 /\ proc'[v] = proc[v] /\ txn'[v] = txn[v]
  PROVE  OthersKeep(w) /\ FilesPure'
<1>1. OthersKeep(w)
  BY DEF OthersKeep, landingVars
<1>2. FilesPure'
  BY DEF DayInv, FilesPure, ReadersSeeWholeFiles, landingVars
<1>3. QED
  BY <1>1, <1>2

\* Where OwnFiles asks for something.
Holding == {"write", "rename", "put", "merge", "remove", "commit", "audit"}

\* Elsewhere a process needs to hold nothing but no file.
LEMMA OwnNothing ==
  ASSUME NEW w \in Worker, handle'[w] = None, pc'[w] \notin Holding
  PROVE  OwnFiles(w)'
BY NoneIsNothing DEF OwnFiles, Holding

\* Only the process that writes has a file open, and only its own partition's.
LEMMA NotShared ==
  ASSUME TypeOK, DayInv, NEW w \in Worker, task[w] # None
  PROVE  /\ pc[w] # "write" => handle[w] = None
         /\ \A v \in Worker \ {w} : handle[v] # None => handle[v].part # PartOf(w)
         /\ \A name \in {"tmp", "final", "gone"} : ~Shared(w, PartOf(w), name)
<1>1. pc[w] # "write" => handle[w] = None
  BY DEF DayInv, OwnFiles
<1>2. ASSUME NEW v \in Worker \ {w}, handle[v] # None PROVE handle[v].part # PartOf(w)
  <2>1. pc[v] = "write" /\ handle[v].part = PartOf(v)
    BY <1>2 DEF DayInv, OwnFiles
  <2>2. task[v] # None
    BY <2>1 DEF TypeOK, Finished
  <2>3. QED
    BY <2>1, <2>2 DEF DayInv, Exclusive
<1>3. PartOf(w) \in Part
  BY WorkerTypes DEF TypeOK
<1>4. ASSUME NEW name \in {"tmp", "final", "gone"} PROVE ~Shared(w, PartOf(w), name)
  BY <1>2, <1>3, NoneIsNothing DEF Shared, Holds
<1>5. QED
  BY <1>1, <1>2, <1>4

\* Schedulers, producer and deployments: a run is started only on a partition that
\* no live task works on.
LEMMA DayOutside ==
  ASSUME TypeOK, DayInv, ~Overlap
  PROVE  /\ \A w \in Worker, p \in Part, m \in Modes : Trigger(w, p, m) => DayInv'
         /\ \A w \in Worker : Retry(w) \/ GiveUp(w) => DayInv'
         /\ (\E p \in Part : Restate(p)) \/ Deploy \/ UNCHANGED vars => DayInv'
<1>1. ASSUME NEW w \in Worker, NEW p \in Part, NEW m \in Modes, Trigger(w, p, m)
      PROVE  DayInv'
  <2>1. OthersKeep(w) /\ FilesPure'
    BY <1>1, LocalStep DEF Trigger, Goto, TypeOK, warehouseVars
  <2>2. handle'[w] = None /\ pc'[w] = "ready"
    BY <1>1 DEF Trigger, Goto, TypeOK, DayInv, OwnFiles, landingVars, Finished
  <2>3. OwnFiles(w)'
    BY <2>2, OwnNothing DEF Holding
  <2>4. PartOf(w)' = p /\ \A v \in Worker \ {w} : task'[v] = task[v] /\ PartOf(v)' = PartOf(v)
    BY <1>1 DEF Trigger, PartOf, TypeOK
  <2>5. \A v \in Worker : task[v] # None => PartOf(v) # p
    BY <1>1 DEF Trigger
  <2>6. Exclusive'
    BY <2>4, <2>5 DEF DayInv, Exclusive
  <2>7. QED
    BY <2>1, <2>3, <2>6, OthersOwn DEF DayInv
<1>2. ASSUME NEW w \in Worker, Retry(w) \/ GiveUp(w) PROVE DayInv'
  <2>1. OthersKeep(w) /\ FilesPure'
    BY <1>2, LocalStep DEF Retry, GiveUp, Goto, TypeOK, warehouseVars
  <2>2. pc[w] = "failed" /\ pc'[w] \in {"ready", "gaveup"} /\ UNCHANGED handle
    BY <1>2 DEF Retry, GiveUp, Goto, TypeOK, landingVars
  <2>3. OwnFiles(w)'
    BY <2>2, OwnNothing DEF Holding, DayInv, OwnFiles
  <2>4. task[w] \in Task /\ task[w] # None
    BY <2>2, WorkerTypes, NoneIsNothing DEF Finished
  <2>5. task'[w] = None \/ PartOf(w)' = PartOf(w)
    BY <1>2, <2>4 DEF Retry, GiveUp, PartOf, Task, TypeOK
  <2>6. QED
    BY <2>1, <2>3, <2>4, <2>5, OwnStep
<1>3. ASSUME (\E p \in Part : Restate(p)) \/ Deploy \/ UNCHANGED vars PROVE DayInv'
  <2>1. UNCHANGED <<pc, task, proc, tmp, final, handle, stage, raw, txn>>
    BY <1>3 DEF Restate, Deploy, vars, ingestVars, landingVars, warehouseVars
  <2>2. Exclusive' /\ FilesPure'
    BY <2>1 DEF DayInv, Exclusive, FilesPure, ReadersSeeWholeFiles, PartOf
  <2>3. \A w \in Worker : OwnFiles(w)'
    BY <2>1 DEF DayInv, OwnFiles, PartOf, Holds, RowsOf, Agrees
  <2>4. QED
    BY <2>2, <2>3 DEF DayInv
<1>4. QED
  BY <1>1, <1>2, <1>3

\* Statements before the landing zone is touched; the sweep at the start takes names,
\* not rows.
LEMMA DayBegin ==
  ASSUME TypeOK, DayInv, NEW w \in Worker
  PROVE  /\ Begin(w) => DayInv'
         /\ Fetch(w) \/ Skip(w) \/ CheckMisses(w) \/ Gate(w) => DayInv'
<1>1. ASSUME Begin(w) PROVE DayInv'
  <2>1. task[w] # None /\ handle[w] = None
    BY <1>1, NotShared DEF Begin, TypeOK, Finished
  <2>2. handle' = Unlinked(handle, Part, "tmp") /\ tmp' = [p \in Part |-> None] /\ UNCHANGED final
    BY <1>1 DEF Begin, CleanupTempFiles
  <2>3. \A v \in Worker :
          /\ handle[v] # None /\ handle[v].name = "tmp" =>
               handle'[v] = [handle[v] EXCEPT !.name = "gone"]
          /\ ~(handle[v] # None /\ handle[v].name = "tmp") => handle'[v] = handle[v]
    BY <2>2 DEF Unlinked, TypeOK, LandingTypeOK, Handle
  <2>4. ASSUME NEW v \in Worker \ {w}, task[v] # None
        PROVE  handle'[v] # [part |-> PartOf(v), name |-> "tmp"]
    <3>1. PartOf(v) \in Part
      BY <2>4, WorkerTypes DEF TypeOK
    <3>2. handle[v] # None /\ handle[v].name = "tmp" => handle'[v].name = "gone"
      <4>1. handle[v] # None => handle[v] \in [part : Part, name : {"tmp", "final", "gone"}]
        BY DEF TypeOK, LandingTypeOK, Handle
      <4>2. QED
        BY <2>3, <4>1
    <3>3. SUFFICES ASSUME handle'[v] = [part |-> PartOf(v), name |-> "tmp"] PROVE FALSE
      OBVIOUS
    <3>4. handle'[v] # None /\ handle'[v].name = "tmp"
      BY <3>1, <3>3, NoneIsNothing
    <3>5. ~(handle[v] # None /\ handle[v].name = "tmp")
      BY <3>2, <3>4
    <3>6. QED
      BY <2>3, <3>4, <3>5
  <2>5. \A v \in Worker \ {w} : /\ pc'[v] = pc[v] /\ task'[v] = task[v] /\ proc'[v] = proc[v]
                                /\ txn'[v] = txn[v]
    BY <1>1 DEF Begin, Goto, TypeOK, warehouseVars
  <2>6. \A v \in Worker \ {w} : task[v] # None => tmp'[PartOf(v)] = None
    BY <2>2, WorkerTypes DEF TypeOK
  <2>7. OthersKeep(w)
    BY <1>1, <2>2, <2>3, <2>4, <2>5, <2>6 DEF OthersKeep, Begin, warehouseVars
  <2>8. FilesPure'
    BY <1>1, <2>2 DEF DayInv, FilesPure, ReadersSeeWholeFiles, Begin, warehouseVars
  <2>9. OwnFiles(w)'
    BY <1>1, <2>1, <2>3, OwnNothing DEF Begin, Goto, TypeOK, Holding
  <2>10. PartOf(w)' = PartOf(w)
    BY <1>1 DEF Begin, PartOf
  <2>11. QED
    BY <2>1, <2>7, <2>8, <2>9, <2>10, OwnStep
<1>2. ASSUME Fetch(w) \/ Skip(w) \/ CheckMisses(w) \/ Gate(w) PROVE DayInv'
  <2>1. task[w] # None /\ handle[w] = None
    BY <1>2, NotShared DEF Fetch, Skip, CheckMisses, Gate, TypeOK, Finished
  <2>2. /\ UNCHANGED <<landingVars, stage, raw>>
        /\ \A v \in Worker \ {w} : /\ pc'[v] = pc[v] /\ task'[v] = task[v]
                                   /\ proc'[v] = proc[v] /\ txn'[v] = txn[v]
    BY <1>2 DEF Fetch, Skip, CheckMisses, Gate, Succeed, EndProcess, RollbackTxn, Goto,
                TypeOK, WarehouseTypeOK, warehouseVars
  <2>3. pc'[w] \in {"check", "gate", "clear", "open", "done"}
    BY <1>2 DEF Fetch, Skip, CheckMisses, Gate, Succeed, Goto, TypeOK
  <2>4. task'[w] = None \/ PartOf(w)' = PartOf(w)
    BY <1>2 DEF Fetch, Skip, CheckMisses, Gate, Succeed, PartOf, TypeOK
  <2>5. OwnFiles(w)'
    BY <2>1, <2>2, <2>3, OwnNothing DEF landingVars, Holding
  <2>6. QED
    BY <2>1, <2>2, <2>4, <2>5, LocalStep, OwnStep
<1>3. QED
  BY <1>1, <1>2

\* A step of w on the files of its own partition.
LEMMA FilesStep ==
  ASSUME TypeOK, DayInv, NEW w \in Worker, task[w] # None, UNCHANGED <<stage, raw>>,
         \A p \in Part \ {PartOf(w)} : tmp'[p] = tmp[p] /\ final'[p] = final[p],
         \A v \in Worker \ {w} :
           /\ pc'[v] = pc[v] /\ task'[v] = task[v] /\ proc'[v] = proc[v] /\ txn'[v] = txn[v]
           /\ handle'[v] = handle[v]
  PROVE  OthersKeep(w)
<1>1. ASSUME NEW v \in Worker \ {w}, task[v] # None PROVE PartOf(v) \in Part \ {PartOf(w)}
  BY <1>1, WorkerTypes DEF DayInv, Exclusive, TypeOK
<1>2. QED
  BY <1>1 DEF OthersKeep

\* write_batch: the file w opens, closes and renames is its own all along, or has
\* lost its name to a sweep.
LEMMA DayWrite ==
  ASSUME TypeOK, DayInv, NEW w \in Worker
  PROVE  Clear(w) \/ Open(w) \/ Write(w) \/ Publish(w) => DayInv'
<1> DEFINE p == PartOf(w)
<1>t. pc[w] \in {"clear", "open", "write", "rename"} =>
        task[w] # None /\ p \in Part /\ proc[w] \in Proc /\ proc[w].got \in Payload
  BY WorkerTypes DEF TypeOK, Running, Finished
<1>h. \A v \in Worker \ {w} : task[w] # None =>
        /\ handle[v] # None => handle[v].part # p
        /\ \A name \in {"tmp", "final", "gone"} : ~Holds(v, p, name)
  BY NotShared, WorkerTypes DEF Shared, TypeOK
<1>1. ASSUME Clear(w) PROVE DayInv'
  <2>1. pc[w] = "clear" /\ handle[w] = None /\ task[w] # None /\ p \in Part
    BY <1>1, <1>t, NotShared DEF Clear
  <2>2. handle' = handle
    <3>1. \A v \in Worker : ~(handle[v] # None /\ handle[v].part \in {p})
      BY <1>h, <2>1
    <3>2. Unlinked(handle, {p}, "tmp") = handle
      BY <3>1 DEF Unlinked, TypeOK, LandingTypeOK
    <3>3. QED
      BY <1>1, <3>2, <3>1 DEF Clear, ClearPartition, Unlinked, TypeOK, LandingTypeOK
  <2>3. /\ tmp' = [tmp EXCEPT ![p] = None] /\ final' = [final EXCEPT ![p] = None]
        /\ UNCHANGED <<stage, raw, txn, task, proc>> /\ pc' = [pc EXCEPT ![w] = "open"]
    BY <1>1 DEF Clear, ClearPartition, Goto, warehouseVars
  <2>4. OthersKeep(w)
    BY <2>1, <2>2, <2>3, FilesStep DEF TypeOK, LandingTypeOK
  <2>5. FilesPure'
    BY <2>1, <2>3 DEF DayInv, FilesPure, ReadersSeeWholeFiles, TypeOK, LandingTypeOK
  <2>6. OwnFiles(w)' /\ PartOf(w)' = PartOf(w)
    BY <2>1, <2>2, <2>3, OwnNothing DEF Holding, TypeOK, PartOf
  <2>7. QED
    BY <2>1, <2>4, <2>5, <2>6, OwnStep
<1>2. ASSUME Open(w) PROVE DayInv'
  <2>1. pc[w] = "open" /\ task[w] # None /\ p \in Part /\ ~Shared(w, p, "tmp")
    BY <1>2, <1>t, NotShared DEF Open
  <2>2. /\ tmp' = [tmp EXCEPT ![p] = [src |-> proc[w].got, code |-> proc[w].ver,
                                      st |-> "partial"]]
        /\ handle' = [handle EXCEPT ![w] = [part |-> p, name |-> "tmp"]]
        /\ UNCHANGED <<final, stage, raw, txn, task, proc>> /\ pc' = [pc EXCEPT ![w] = "write"]
    BY <1>2, <2>1 DEF Open, OpenTmp, Goto, warehouseVars
  <2>3. OthersKeep(w)
    BY <2>1, <2>2, FilesStep DEF TypeOK, LandingTypeOK
  <2>4. FilesPure'
    BY <2>1, <2>2 DEF DayInv, FilesPure, ReadersSeeWholeFiles, TypeOK, LandingTypeOK
  <2>5. PartOf(w)' = p
    BY <2>2 DEF PartOf
  <2>6. /\ pc'[w] = "write" /\ handle'[w] = [part |-> p, name |-> "tmp"]
        /\ tmp'[p].src = proc'[w].got
    BY <2>1, <2>2 DEF TypeOK, LandingTypeOK
  <2>7. OwnFiles(w)'
    BY <2>5, <2>6 DEF OwnFiles, Holds
  <2>8. QED
    BY <2>1, <2>3, <2>4, <2>5, <2>7, OwnStep
<1>3. ASSUME Write(w) PROVE DayInv'
  <2>1. pc[w] = "write" /\ task[w] # None /\ p \in Part /\ ~Shared(w, p, "tmp")
    BY <1>3, <1>t, NotShared DEF Write
  <2>2. /\ handle' = [handle EXCEPT ![w] = None] /\ pc' = [pc EXCEPT ![w] = "rename"]
        /\ UNCHANGED <<stage, raw, txn, task, proc>>
    BY <1>3 DEF Write, CloseTmp, Goto, warehouseVars
  <2>3. OwnFiles(w) /\ FilesPure
    BY DEF DayInv
  <2>4. Holds(w, p, "final") => FALSE
    BY <2>1, <2>3, NoneIsNothing DEF OwnFiles, Holds
  <2>5. PartOf(w)' = p /\ handle'[w] = None /\ pc'[w] = "rename"
    BY <2>2 DEF PartOf, TypeOK, LandingTypeOK
  <2>6. CASE Holds(w, p, "tmp")
    <3>1. tmp[p] \in File /\ tmp[p].st \in {"partial", "whole"} /\ tmp[p].src = proc[w].got
      BY <2>1, <2>3, <2>6 DEF OwnFiles, FilesPure, TypeOK, LandingTypeOK
    <3>2. tmp' = [tmp EXCEPT ![p] = [tmp[p] EXCEPT !.st = "whole"]] /\ UNCHANGED final
      <4>1. Closed(w, p, "tmp", tmp[p], proc[w].got, proc[w].ver)
              = {[tmp[p] EXCEPT !.st = "whole"]}
        BY <2>1, <3>1 DEF Closed
      <4>2. QED
        BY <1>3, <2>6, <4>1 DEF Write, CloseTmp, Holds
    <3>3. tmp'[p].st = "whole" /\ tmp'[p].src = proc[w].got
      BY <2>1, <3>1, <3>2 DEF File, TypeOK, LandingTypeOK
    <3>4. OthersKeep(w)
      BY <2>1, <2>2, <3>2, FilesStep DEF TypeOK, LandingTypeOK
    <3>5. FilesPure'
      BY <2>1, <2>2, <2>3, <3>2, <3>3 DEF FilesPure, ReadersSeeWholeFiles, TypeOK, LandingTypeOK
    <3>6. OwnFiles(w)'
      BY <2>2, <2>5, <3>3 DEF OwnFiles
    <3>7. QED
      BY <2>1, <2>5, <3>4, <3>5, <3>6, OwnStep
  <2>7. CASE Holds(w, p, "gone")
    <3>1. UNCHANGED <<tmp, final>>
      BY <1>3, <2>7 DEF Write, CloseTmp, Holds
    <3>2. tmp'[p] = None
      BY <2>1, <2>3, <2>7, <3>1 DEF OwnFiles, Holds
    <3>3. OthersKeep(w)
      BY <2>1, <2>2, <3>1, FilesStep DEF TypeOK, LandingTypeOK
    <3>4. FilesPure'
      BY <2>2, <2>3, <3>1 DEF FilesPure, ReadersSeeWholeFiles
    <3>5. OwnFiles(w)'
      BY <2>2, <2>5, <3>2 DEF OwnFiles
    <3>6. QED
      BY <2>1, <2>5, <3>3, <3>4, <3>5, OwnStep
  <2>8. QED
    BY <1>3, <2>4, <2>6, <2>7 DEF Write, CloseTmp
<1>4. ASSUME Publish(w) PROVE DayInv'
  <2>1. pc[w] = "rename" /\ task[w] # None /\ p \in Part /\ handle[w] = None
    BY <1>4, <1>t, NotShared DEF Publish
  <2>2. tmp[p] # None /\ tmp[p].st = "whole" /\ tmp[p].src = proc[w].got
    BY <1>4, <2>1 DEF Publish, PublishTmp, DayInv, OwnFiles
  <2>3. /\ tmp' = [tmp EXCEPT ![p] = None] /\ final' = [final EXCEPT ![p] = tmp[p]]
        /\ UNCHANGED <<stage, raw>>
    BY <1>4 DEF Publish, PublishTmp
  <2>4. handle' = handle
    <3>1. \A v \in Worker, name \in {"tmp", "final"} : ~Holds(v, p, name)
      BY <1>h, <2>1, NoneIsNothing DEF Holds
    <3>2. QED
      BY <1>4, <3>1 DEF Publish, PublishTmp, TypeOK, LandingTypeOK
  <2>5. \A v \in Worker \ {w} : /\ pc'[v] = pc[v] /\ task'[v] = task[v]
                                /\ proc'[v] = proc[v] /\ txn'[v] = txn[v]
    BY <1>4 DEF Publish, Succeed, EndProcess, RollbackTxn, Goto, TypeOK, WarehouseTypeOK
  <2>6. OthersKeep(w)
    BY <2>1, <2>3, <2>4, <2>5, FilesStep DEF TypeOK, LandingTypeOK
  <2>7. FilesPure'
    BY <2>1, <2>2, <2>3 DEF DayInv, FilesPure, ReadersSeeWholeFiles, TypeOK, LandingTypeOK
  <2>8. CASE task[w].mode.land
    <3>1. task'[w] = None /\ OwnFiles(w)'
      BY <1>4, <2>1, <2>4, <2>8, OwnNothing
        DEF Publish, Succeed, Goto, TypeOK, Holding
    <3>2. QED
      BY <2>6, <2>7, <3>1, OwnStep
  <2>9. CASE ~task[w].mode.land
    <3>1. pc'[w] = "put" /\ UNCHANGED <<task, proc>>
      BY <1>4, <2>9 DEF Publish, Goto, TypeOK
    <3>2. PartOf(w)' = p /\ final'[p] = tmp[p] /\ handle'[w] = None
      BY <2>1, <2>3, <2>4, <3>1 DEF PartOf, TypeOK, LandingTypeOK
    <3>3. OwnFiles(w)'
      BY <2>2, <3>1, <3>2 DEF OwnFiles
    <3>4. QED
      BY <2>1, <2>6, <2>7, <3>2, <3>3, OwnStep
  <2>10. QED
    BY <2>8, <2>9
<1>5. QED
  BY <1>1, <1>2, <1>3, <1>4

\* A step of w on the staged file and the rows of its own partition.
LEMMA LoadStep ==
  ASSUME TypeOK, DayInv, NEW w \in Worker, task[w] # None, UNCHANGED landingVars,
         \A p \in Part \ {PartOf(w)} : stage'[p] = stage[p] /\ raw'[p] = raw[p],
         \A v \in Worker \ {w} :
           pc'[v] = pc[v] /\ task'[v] = task[v] /\ proc'[v] = proc[v] /\ txn'[v] = txn[v]
  PROVE  OthersKeep(w)
<1>1. ASSUME NEW v \in Worker \ {w}, task[v] # None PROVE PartOf(v) \in Part \ {PartOf(w)}
  BY <1>1, WorkerTypes DEF DayInv, Exclusive, TypeOK
<1>2. QED
  BY <1>1 DEF OthersKeep, landingVars

\* A MERGE makes a table show the payload of its file.
LEMMA MergedAgrees ==
  ASSUME NEW rows \in Rows, NEW f \in File
  PROVE  Agrees(Merged(rows, f), f.src)
<1>1. ASSUME NEW h \in Accepted(f.src)
      PROVE  Merged(rows, f)[h] # None /\ Merged(rows, f)[h].src = f.src
  <2>1. h \in Hour
    BY <1>1, WarehouseAssumption DEF Accepted, File
  <2>2. h \in Inserted(rows, f) \cup Updated(rows, f)
          \/ (rows[h] # None /\ rows[h].src = f.src)
    BY <1>1 DEF Inserted, Updated
  <2>3. [src |-> f.src, code |-> f.code] # None
    BY NoneIsNothing DEF File, Row
  <2>4. QED
    BY <2>1, <2>2, <2>3 DEF Merged
<1>2. QED
  BY <1>1 DEF Agrees

\* load_batch: the file staged is the one this attempt published, the file merged
\* the one it staged, and what is committed what it merged.
LEMMA DayLoad ==
  ASSUME TypeOK, DayInv, LockInv, NEW w \in Worker
  PROVE  Put(w) \/ Merge(w) \/ Remove(w) \/ Commit(w) => DayInv'
<1> DEFINE p == PartOf(w)
<1>t. pc[w] \in Loading =>
        task[w] # None /\ p \in Part /\ proc[w] \in Proc /\ handle[w] = None
  BY WorkerTypes, NotShared DEF TypeOK, Running, Loading, Finished
<1>o. OwnFiles(w) /\ FilesPure
  BY DEF DayInv
<1>n. ASSUME OthersKeep(w), task[w] # None, UNCHANGED <<landingVars, task>>, FilesPure',
             handle[w] = None, pc'[w] = "rollback"
      PROVE  DayInv'
  BY <1>n, OwnNothing, OwnStep DEF Holding, landingVars, PartOf
<1>1. ASSUME Put(w) PROVE DayInv'
  <2>1. task[w] # None /\ p \in Part /\ handle[w] = None /\ final[p] # None /\ final[p].src = proc[w].got
    BY <1>1, <1>t, <1>o DEF Put, Loading, OwnFiles
  <2>2. /\ stage' = [stage EXCEPT ![p] = final[p]]
        /\ UNCHANGED <<landingVars, raw, txn, task, proc>>
    BY <1>1 DEF Put, PutFile
  <2>3. /\ pc'[w] \in {"merge", "rollback"}
        /\ \A v \in Worker \ {w} : pc'[v] = pc[v]
    BY <1>1 DEF Put, Reply, Goto, TypeOK
  <2>4. OthersKeep(w)
    BY <2>1, <2>2, <2>3, LoadStep DEF TypeOK, WarehouseTypeOK
  <2>5. FilesPure'
    BY <1>o, <2>1, <2>2 DEF FilesPure, ReadersSeeWholeFiles, landingVars, TypeOK, WarehouseTypeOK
  <2>6. CASE pc'[w] = "merge"
    <3>1. PartOf(w)' = p /\ stage'[p] = final[p] /\ handle'[w] = None
      BY <2>1, <2>2 DEF PartOf, landingVars, TypeOK, WarehouseTypeOK
    <3>2. OwnFiles(w)'
      BY <2>1, <2>2, <2>6, <3>1 DEF OwnFiles
    <3>3. QED
      BY <2>1, <2>4, <2>5, <3>1, <3>2, OwnStep
  <2>7. QED
    BY <1>n, <2>1, <2>2, <2>3, <2>4, <2>5, <2>6
<1>2. ASSUME Merge(w) PROVE DayInv'
  <2> DEFINE f == stage[p]
             rows == Merged(raw[p], f)
  <2>1. task[w] # None /\ p \in Part /\ handle[w] = None /\ f # None /\ f.src = proc[w].got
    BY <1>2, <1>t, <1>o DEF Merge, Loading, OwnFiles
  <2>2. f \in File /\ raw[p] \in Rows
    BY <2>1 DEF TypeOK, WarehouseTypeOK
  <2>3. rows \in Rows /\ rows # None /\ Agrees(rows, f.src)
    BY <2>2, MergeTypes, MergedAgrees, NoneIsNothing
  <2>4. ExecuteMerge(w, p, rows) /\ UNCHANGED <<landingVars, stage, task>>
    BY <1>2, <2>1 DEF Merge
  <2>5. \A q \in Part \ {p} : raw'[q] = raw[q]
    BY <2>4 DEF ExecuteMerge, TypeOK, WarehouseTypeOK
  <2>6. /\ pc'[w] \in {"remove", "rollback"} /\ proc'[w].got = proc[w].got
        /\ \A v \in Worker \ {w} :
             pc'[v] = pc[v] /\ proc'[v] = proc[v] /\ txn'[v] = txn[v]
    <3>1. \A v \in Worker \ {w} : txn'[v] = txn[v]
      BY <2>4 DEF ExecuteMerge, TypeOK, WarehouseTypeOK
    <3>2. /\ proc'[w].got = proc[w].got
          /\ \A v \in Worker \ {w} : proc'[v] = proc[v]
      BY <1>2, <1>t DEF Merge, Proc, TypeOK, Loading
    <3>3. pc'[w] \in {"remove", "rollback"} /\ \A v \in Worker \ {w} : pc'[v] = pc[v]
      BY <1>2 DEF Merge, Reply, Goto, TypeOK
    <3>4. QED
      BY <3>1, <3>2, <3>3
  <2>7. OthersKeep(w)
    BY <2>1, <2>4, <2>5, <2>6, LoadStep
  <2>8. FilesPure'
    BY <1>o, <2>4 DEF FilesPure, ReadersSeeWholeFiles, landingVars
  <2>9. CASE pc'[w] = "remove"
    <3>1. PartOf(w)' = p /\ handle'[w] = None
      BY <2>1, <2>4 DEF PartOf, landingVars
    <3>2. RowsOf(w)' = rows
      BY <2>1, <2>3, <2>4, <3>1
        DEF RowsOf, ExecuteMerge, LockInv, OneTxn, TypeOK, WarehouseTypeOK
    <3>3. Agrees(RowsOf(w), proc[w].got)'
      BY <2>1, <2>3, <2>6, <3>2 DEF Agrees
    <3>4. OwnFiles(w)'
      BY <2>9, <3>1, <3>3 DEF OwnFiles
    <3>5. QED
      BY <2>1, <2>7, <2>8, <3>1, <3>4, OwnStep
  <2>10. QED
    BY <1>n, <2>1, <2>4, <2>6, <2>7, <2>8, <2>9
<1>3. ASSUME Remove(w) PROVE DayInv'
  <2>1. task[w] # None /\ p \in Part /\ handle[w] = None /\ Agrees(RowsOf(w), proc[w].got)
    BY <1>3, <1>t, <1>o DEF Remove, Loading, OwnFiles
  <2>2. /\ stage' = [stage EXCEPT ![p] = None]
        /\ UNCHANGED <<landingVars, raw, txn, task, proc>>
    BY <1>3 DEF Remove, RemoveStaged
  <2>3. /\ pc'[w] \in {"commit", "rollback"}
        /\ \A v \in Worker \ {w} : pc'[v] = pc[v]
    BY <1>3 DEF Remove, Reply, Goto, TypeOK
  <2>4. OthersKeep(w)
    BY <2>1, <2>2, <2>3, LoadStep DEF TypeOK, WarehouseTypeOK
  <2>5. FilesPure'
    BY <1>o, <2>1, <2>2 DEF FilesPure, ReadersSeeWholeFiles, landingVars, TypeOK, WarehouseTypeOK
  <2>6. OwnFiles(w)' /\ PartOf(w)' = PartOf(w)
    BY <2>1, <2>2, <2>3 DEF OwnFiles, landingVars, PartOf, RowsOf, Agrees
  <2>7. QED
    BY <2>1, <2>4, <2>5, <2>6, OwnStep
<1>4. ASSUME Commit(w) PROVE DayInv'
  <2>1. task[w] # None /\ p \in Part /\ handle[w] = None /\ Agrees(RowsOf(w), proc[w].got)
    BY <1>4, <1>t, <1>o DEF Commit, Loading, OwnFiles
  <2>2. /\ CommitTxn(w, p) /\ UNCHANGED <<landingVars, stage, task>>
    BY <1>4 DEF Commit
  <2>3. /\ pc'[w] \in {"audit", "rollback"} /\ proc'[w].got = proc[w].got
        /\ \A v \in Worker \ {w} : pc'[v] = pc[v] /\ proc'[v] = proc[v]
    <3>1. pc'[w] \in {"audit", "rollback"} /\ \A v \in Worker \ {w} : pc'[v] = pc[v]
      BY <1>4 DEF Commit, Reply, Goto, TypeOK
    <3>2. proc'[w].got = proc[w].got /\ \A v \in Worker \ {w} : proc'[v] = proc[v]
      BY <1>4, <1>t DEF Commit, Proc, TypeOK, Loading
    <3>3. QED
      BY <3>1, <3>2
  <2>4. /\ \A q \in Part \ {p} : raw'[q] = raw[q]
        /\ \A v \in Worker \ {w} : txn'[v] = txn[v]
        /\ raw'[p] = RowsOf(w) /\ txn'[w] = None
    BY <2>1, <2>2 DEF CommitTxn, RowsOf, TypeOK, WarehouseTypeOK
  <2>5. OthersKeep(w)
    BY <2>1, <2>2, <2>3, <2>4, LoadStep
  <2>6. FilesPure'
    BY <1>o, <2>2 DEF FilesPure, ReadersSeeWholeFiles, landingVars
  <2>7. PartOf(w)' = p /\ handle'[w] = None
    BY <2>1, <2>2 DEF PartOf, landingVars
  <2>8. Agrees(RowsOf(w), proc[w].got)'
    BY <2>1, <2>3, <2>4, <2>7 DEF RowsOf, Agrees
  <2>9. OwnFiles(w)'
    BY <2>3, <2>7, <2>8 DEF OwnFiles
  <2>10. QED
    BY <2>1, <2>5, <2>6, <2>7, <2>9, OwnStep
<1>5. QED
  BY <1>1, <1>2, <1>3, <1>4

\* An attempt that ends, or that is about to record its failure, owns nothing.
LEMMA DayEnd ==
  ASSUME TypeOK, DayInv, NEW w \in Worker, task[w] # None, OthersKeep(w), FilesPure',
         task'[w] = None \/ task'[w] = task[w], handle'[w] = None, pc'[w] \notin Holding
  PROVE  DayInv'
<1>1. task'[w] = None \/ PartOf(w)' = PartOf(w)
  BY DEF PartOf
<1>2. QED
  BY <1>1, OwnNothing, OwnStep

\* Rolling back and recording: at most the rows of the own partition change.
LEMMA DayRecord ==
  ASSUME TypeOK, DayInv, NEW w \in Worker
  PROVE  Rollback(w) \/ AuditFailure(w) \/ AuditSuccess(w) => DayInv'
<1> DEFINE p == PartOf(w)
<1>1. SUFFICES ASSUME Rollback(w) \/ AuditFailure(w) \/ AuditSuccess(w) PROVE DayInv'
  OBVIOUS
<1>2. task[w] # None /\ p \in Part /\ handle[w] = None
  BY <1>1, WorkerTypes, NotShared DEF Rollback, AuditFailure, AuditSuccess, TypeOK, Finished
<1>3. UNCHANGED <<landingVars, stage>> /\ \A q \in Part \ {p} : raw'[q] = raw[q]
  BY <1>1, <1>2 DEF Rollback, AuditFailure, AuditSuccess, WriteAudit, CommitTxn, TypeOK,
                    WarehouseTypeOK
<1>4. /\ pc'[w] \in {"auditfail", "failed", "done"}
      /\ task'[w] = None \/ task'[w] = task[w]
      /\ \A v \in Worker \ {w} : pc'[v] = pc[v] /\ task'[v] = task[v]
  BY <1>1 DEF Rollback, AuditFailure, AuditSuccess, Succeed, Goto, TypeOK
<1>5. \A v \in Worker \ {w} : proc'[v] = proc[v] /\ txn'[v] = txn[v]
  BY <1>1 DEF Rollback, AuditFailure, AuditSuccess, Succeed, EndProcess, RollbackTxn,
              WriteAudit, CommitTxn, TypeOK, WarehouseTypeOK
<1>6. OthersKeep(w)
  BY <1>2, <1>3, <1>4, <1>5, LoadStep
<1>7. FilesPure'
  BY <1>3 DEF DayInv, FilesPure, ReadersSeeWholeFiles, landingVars
<1>8. QED
  BY <1>2, <1>3, <1>4, <1>6, <1>7, DayEnd DEF landingVars, Holding

\* A process that dies leaves its files as they are, under the names they have: only
\* a temporary one can be incomplete.
LEMMA DayFailures ==
  ASSUME TypeOK, DayInv, NEW w \in Worker
  PROVE  /\ Raises(w) \/ Die(w) \/ WriteFails(w) => DayInv'
         /\ LoadRaises(w) \/ StatementFails(w) => DayInv'
<1> DEFINE p == PartOf(w)
<1>t. pc[w] \in Running => task[w] # None /\ p \in Part
  BY WorkerTypes DEF TypeOK, Running, Loading, Finished
<1>e. ASSUME Goto(w, "failed"), EndProcess(w)
      PROVE  /\ pc'[w] = "failed"
             /\ \A v \in Worker \ {w} : pc'[v] = pc[v] /\ proc'[v] = proc[v] /\ txn'[v] = txn[v]
  BY <1>e DEF Goto, EndProcess, RollbackTxn, TypeOK, WarehouseTypeOK
<1>1. ASSUME Raises(w) \/ Die(w) PROVE DayInv'
  <2>1. pc[w] \in Running /\ Fail(w)
    BY <1>1 DEF Raises, Die, Running
  <2>2. /\ UNCHANGED <<tmp, final, stage, raw, task>> /\ handle'[w] = None
        /\ \A v \in Worker \ {w} : handle'[v] = handle[v]
    BY <2>1 DEF Fail, DropHandle, TypeOK, LandingTypeOK
  <2>3. OthersKeep(w)
    BY <1>t, <1>e, <2>1, <2>2, FilesStep DEF Fail
  <2>4. FilesPure'
    BY <2>2 DEF DayInv, FilesPure, ReadersSeeWholeFiles
  <2>5. QED
    BY <1>t, <1>e, <2>1, <2>2, <2>3, <2>4, DayEnd DEF Fail, Holding
<1>2. ASSUME WriteFails(w) PROVE DayInv'
  <2>1. pc[w] \in Running /\ task[w] # None /\ p \in Part
    BY <1>t, <1>2 DEF WriteFails, Running
  <2>2. \A v \in Worker \ {w} : handle[v] # None => handle[v].part # p
    BY <2>1, NotShared
  <2>3. /\ tmp' = [tmp EXCEPT ![p] = None] /\ UNCHANGED <<final, stage, raw, task>>
        /\ handle'[w] = None
    BY <1>2 DEF WriteFails, AbandonTmp, Unlinked
  <2>4. \A v \in Worker \ {w} : handle'[v] = handle[v]
    BY <1>2, <2>2 DEF WriteFails, AbandonTmp, Unlinked
  <2>5. OthersKeep(w)
    BY <1>e, <1>2, <2>1, <2>3, <2>4, FilesStep DEF WriteFails, TypeOK, LandingTypeOK
  <2>6. FilesPure'
    BY <2>1, <2>3 DEF DayInv, FilesPure, ReadersSeeWholeFiles, TypeOK, LandingTypeOK
  <2>7. QED
    BY <1>e, <1>2, <2>1, <2>3, <2>5, <2>6, DayEnd DEF WriteFails, Holding
<1>3. ASSUME LoadRaises(w) \/ StatementFails(w) PROVE DayInv'
  <2>1. pc[w] \in Loading
    BY <1>3 DEF LoadRaises, StatementFails, Loading
  <2>2. task[w] # None /\ handle[w] = None
    BY <1>t, <2>1, NotShared DEF Running, Loading
  <2>3. UNCHANGED <<landingVars, warehouseVars, task, proc>> /\ Goto(w, "rollback")
    BY <1>3 DEF LoadRaises, StatementFails
  <2>4. OthersKeep(w) /\ FilesPure'
    BY <2>3, LocalStep DEF Goto, warehouseVars, TypeOK
  <2>5. QED
    BY <2>2, <2>3, <2>4, DayEnd DEF landingVars, Goto, TypeOK, Holding
<1>4. QED
  BY <1>1, <1>2, <1>3

\* Every step keeps the invariant.
LEMMA DayStep ==
  ASSUME ~Overlap
  PROVE  TypeOK /\ LockInv /\ DayInv /\ [Next]_vars => DayInv'
<1> SUFFICES ASSUME TypeOK, LockInv, DayInv, [Next]_vars PROVE DayInv'
  OBVIOUS
<1>1. ASSUME NEW w \in Worker, NEW p \in Part, NEW m \in Modes, Trigger(w, p, m)
      PROVE  DayInv'
  BY <1>1, DayOutside
<1>2. ASSUME NEW w \in Worker, Progress(w) PROVE DayInv'
  BY <1>2, DayOutside, DayBegin, DayWrite, DayLoad, DayRecord, DayFailures DEF Progress
<1>3. ASSUME NEW w \in Worker, Die(w) \/ WriteFails(w) \/ StatementFails(w) PROVE DayInv'
  BY <1>3, DayFailures
<1>4. CASE (\E p \in Part : Restate(p)) \/ Deploy \/ UNCHANGED vars
  BY <1>4, DayOutside
<1>5. QED
  BY <1>1, <1>2, <1>3, <1>4 DEF Next, Rest

\* Each task works alone on its partition, on files and rows of its own.
LEMMA DayHolds == ASSUME ~Overlap PROVE Spec => []DayInv
BY DayStep, DayInit, TypeCorrect, LockHolds, PTL DEF Spec

\* "A reader never sees a half written file" (landing.py), as long as no two runs of
\* a partition overlap and whatever crashes.
THEOREM ReadersSafe == ASSUME ~Overlap PROVE Spec => []ReadersSeeWholeFiles
<1>1. DayInv => ReadersSeeWholeFiles
  BY DEF DayInv, FilesPure
<1>2. QED
  BY <1>1, DayHolds, PTL

\* A 'loaded' row is true when it is written, as long as no two runs of a partition
\* overlap: the file that was merged is the one its attempt landed.
THEOREM AuditTrue == ASSUME ~Overlap PROVE Spec => AuditTruthful
<1>1. ASSUME TypeOK, DayInv, NEW w \in Worker, AuditSuccess(w)
      PROVE  \A r \in audit' \ audit : Agrees(raw'[r.part], r.hash)
  <2> DEFINE p == PartOf(w)
  <2>1. p \in Part /\ Agrees(RowsOf(w), proc[w].got)
    BY <1>1, WorkerTypes DEF AuditSuccess, DayInv, OwnFiles, Finished
  <2>2. raw'[p] = RowsOf(w)
    BY <1>1, <2>1 DEF AuditSuccess, WriteAudit, CommitTxn, RowsOf, TypeOK, WarehouseTypeOK
  <2>3. \A r \in audit' \ audit : r.part = p /\ r.hash = proc[w].got
    BY <1>1 DEF AuditSuccess, WriteAudit, AuditOf
  <2>4. QED
    BY <2>1, <2>2, <2>3 DEF Agrees
<1>2. ASSUME NEW w \in Worker, AuditFailure(w)
      PROVE  \A r \in audit' \ audit : r.status # "loaded"
  BY <1>2 DEF AuditFailure, WriteAudit, AuditOf
<1>3. TypeOK /\ DayInv /\ [Next]_vars =>
        [\A r \in audit' \ audit : r.status = "loaded" => Agrees(raw'[r.part], r.hash)]_vars
  BY <1>1, <1>2, AuditWriters
<1>4. QED
  BY <1>3, DayHolds, TypeCorrect, PTL DEF Spec, AuditTruthful

----------------------------------------------------------------------------
(* Ingestion implements LoadPromise                                         *)

\* The statements after the gate.
PastGate == Running \ {"fetch", "check", "gate"}

\* What w is about to land or load has passed the gate, and what its transaction is about
\* to commit is that payload laid over the rows of its partition as they are now.
Lays(w) ==
  /\ pc[w] \in PastGate => Passes(proc[w].got)
  /\ txn[w] # None =>
       \E c \in Code : txn[w] = Promise!Overlay(raw[PartOf(w)], proc[w].got, c)

LayInv == \A w \in Worker : Lays(w)

\* A MERGE lays the payload of its file over the rows.
LEMMA MergeOverlays ==
  ASSUME NEW rows \in Rows, NEW f \in File
  PROVE  Merged(rows, f) = Promise!Overlay(rows, f.src, f.code)
BY DEF Merged, Inserted, Updated, Promise!Overlay

\* What is laid over rows shows there.
LEMMA OverlayAgrees ==
  ASSUME NEW rows \in Rows, NEW pl \in Payload, NEW c \in Code
  PROVE  Agrees(Promise!Overlay(rows, pl, c), pl)
<1>1. [src |-> pl, code |-> c] # None /\ Accepted(pl) \subseteq Hour
  BY NoneAssumption, WarehouseAssumption DEF Row, Accepted
<1>2. QED
  BY <1>1 DEF Agrees, Promise!Overlay

\* A step of w leaves the rows under another's transaction alone.
LEMMA LayStep ==
  ASSUME TypeOK, LayInv, NEW w \in Worker, Lays(w)',
         \A v \in Worker \ {w} : /\ pc'[v] = pc[v] /\ task'[v] = task[v]
                                 /\ proc'[v] = proc[v] /\ txn'[v] = txn[v],
         UNCHANGED raw \/ \A v \in Worker \ {w} : txn[v] = None
  PROVE  LayInv'
<1>1. ASSUME NEW v \in Worker \ {w} PROVE Lays(v)'
  <2>1. Lays(v) /\ PartOf(v)' = PartOf(v)
    BY DEF LayInv, PartOf
  <2>2. pc'[v] \in PastGate => Passes(proc'[v].got)
    BY <2>1 DEF Lays
  <2>3. txn'[v] # None =>
          \E c \in Code : txn'[v] = Promise!Overlay(raw'[PartOf(v)], proc'[v].got, c)
    BY <2>1 DEF Lays
  <2>4. QED
    BY <2>1, <2>2, <2>3 DEF Lays, Promise!Overlay
<1>2. QED
  BY <1>1 DEF LayInv

\* w goes on with the payload and the rows it has.
LEMMA LayKept ==
  ASSUME TypeOK, LayInv, NEW w \in Worker, NEW l, Goto(w, l),
         l \in PastGate => Passes(proc[w].got), UNCHANGED <<raw, txn, task, proc>>
  PROVE  LayInv'
<1>1. pc'[w] = l /\ \A v \in Worker \ {w} : pc'[v] = pc[v]
  BY DEF Goto, TypeOK
<1>2. Lays(w)'
  BY <1>1 DEF LayInv, Lays, PartOf, Promise!Overlay
<1>3. QED
  BY <1>1, <1>2, LayStep

\* w has no payload that passed, and no transaction.
LEMMA LayEnded ==
  ASSUME TypeOK, LayInv, NEW w \in Worker, NEW l, l \notin PastGate, Goto(w, l),
         txn'[w] = None, UNCHANGED raw,
         \A v \in Worker \ {w} : task'[v] = task[v] /\ proc'[v] = proc[v] /\ txn'[v] = txn[v]
  PROVE  LayInv'
<1>1. pc'[w] = l /\ \A v \in Worker \ {w} : pc'[v] = pc[v]
  BY DEF Goto, TypeOK
<1>2. Lays(w)'
  BY <1>1 DEF Lays
<1>3. QED
  BY <1>1, <1>2, LayStep

\* Schedulers, producer and deployments.
LEMMA LayOutside ==
  ASSUME TypeOK, TxnPlaced, LayInv
  PROVE  /\ \A w \in Worker, p \in Part, m \in Modes : Trigger(w, p, m) => LayInv'
         /\ \A w \in Worker : Retry(w) \/ GiveUp(w) => LayInv'
         /\ (\E p \in Part : Restate(p)) \/ Deploy \/ UNCHANGED vars => LayInv'
<1>1. ASSUME NEW w \in Worker, NEW p \in Part, NEW m \in Modes, Trigger(w, p, m)
      PROVE  LayInv'
  BY <1>1, LayEnded
    DEF Trigger, warehouseVars, TxnPlaced, TypeOK, Finished, PastGate, Running, Loading
<1>2. ASSUME NEW w \in Worker, Retry(w) \/ GiveUp(w) PROVE LayInv'
  BY <1>2, LayEnded
    DEF Retry, GiveUp, warehouseVars, TxnPlaced, TypeOK, PastGate, Running, Loading
<1>3. ASSUME (\E p \in Part : Restate(p)) \/ Deploy \/ UNCHANGED vars PROVE LayInv'
  <2>1. UNCHANGED <<pc, task, proc, txn, raw>>
    BY <1>3 DEF Restate, Deploy, vars, ingestVars, warehouseVars
  <2>2. ASSUME NEW v \in Worker PROVE Lays(v)'
    BY <2>1 DEF LayInv, Lays, PartOf, Promise!Overlay
  <2>3. QED
    BY <2>2 DEF LayInv
<1>4. QED
  BY <1>1, <1>2, <1>3

\* Statements and failures that leave RAW alone.
LEMMA LayQuiet ==
  ASSUME TypeOK, TxnPlaced, LayInv, NEW w \in Worker
  PROVE  /\ Begin(w) \/ Fetch(w) \/ Skip(w) \/ CheckMisses(w) \/ Gate(w) => LayInv'
         /\ Clear(w) \/ Open(w) \/ Write(w) \/ Publish(w) => LayInv'
         /\ Put(w) \/ Remove(w) \/ Rollback(w) => LayInv'
         /\ Raises(w) \/ Die(w) \/ WriteFails(w) => LayInv'
         /\ LoadRaises(w) \/ StatementFails(w) => LayInv'
<1>e. ASSUME NEW l \in {"done", "failed"}, Goto(w, l), EndProcess(w), UNCHANGED raw,
             UNCHANGED task \/ task' = [task EXCEPT ![w] = None]
      PROVE  LayInv'
  BY <1>e, LayEnded
    DEF EndProcess, RollbackTxn, TypeOK, WarehouseTypeOK, PastGate, Running, Loading
<1>p. pc[w] \in PastGate => Passes(proc[w].got)
  BY DEF LayInv, Lays
<1>1. CheckMisses(w) \/ Gate(w) \/ Clear(w) \/ Open(w) \/ Write(w) => LayInv'
  BY <1>p, LayKept
    DEF CheckMisses, Gate, Clear, Open, Write, warehouseVars, PastGate, Running, Loading
<1>2. Begin(w) \/ Fetch(w) => LayInv'
  BY LayEnded DEF Begin, Fetch, warehouseVars, TxnPlaced, TypeOK, PastGate, Running, Loading
<1>3. Skip(w) => LayInv'
  BY <1>e DEF Skip, Succeed
<1>4. ASSUME Publish(w) PROVE LayInv'
  <2>1. CASE task[w].mode.land
    BY <1>4, <1>e, <2>1 DEF Publish, Succeed
  <2>2. CASE ~task[w].mode.land
    BY <1>4, <1>p, <2>2, LayKept DEF Publish, PastGate, Running, Loading
  <2>3. QED
    BY <2>1, <2>2
<1>5. Put(w) \/ Remove(w) => LayInv'
  BY <1>p, LayKept DEF Put, Remove, Reply, PastGate, Running, Loading
<1>6. ASSUME Rollback(w) PROVE LayInv'
  <2>1. /\ pc[w] \in PastGate /\ pc'[w] = "auditfail" /\ txn'[w] = None
        /\ UNCHANGED <<raw, task, proc>>
        /\ \A v \in Worker \ {w} : pc'[v] = pc[v] /\ txn'[v] = txn[v]
    BY <1>6 DEF Rollback, RollbackTxn, Goto, TypeOK, WarehouseTypeOK, PastGate, Running
  <2>2. Lays(w)'
    BY <1>p, <2>1 DEF Lays
  <2>3. QED
    BY <2>1, <2>2, LayStep
<1>7. Raises(w) \/ Die(w) \/ WriteFails(w) => LayInv'
  BY <1>e DEF Raises, Die, Fail, WriteFails
<1>8. LoadRaises(w) \/ StatementFails(w) => LayInv'
  BY <1>p, LayKept DEF LoadRaises, StatementFails, warehouseVars, PastGate, Running, Loading
<1>9. QED
  BY <1>1, <1>2, <1>3, <1>4, <1>5, <1>6, <1>7, <1>8

\* What a MERGE lays over which rows: under AUTOCOMMIT at once, else in a transaction.
LEMMA MergeLays ==
  ASSUME TypeOK, DayInv, NEW w \in Worker, Merge(w)
  PROVE  /\ PartOf(w) \in Part /\ proc'[w].got = proc[w].got
         /\ \A v \in Worker \ {w} : proc'[v] = proc[v]
         /\ \E c \in Code :
              LET rows == Promise!Overlay(raw[PartOf(w)], proc[w].got, c)
              IN  IF Autocommit THEN raw' = [raw EXCEPT ![PartOf(w)] = rows] /\ UNCHANGED txn
                                ELSE txn' = [txn EXCEPT ![w] = rows] /\ UNCHANGED raw
<1> DEFINE p == PartOf(w)
           f == stage[p]
<1>1. p \in Part /\ proc[w] \in Proc /\ pc[w] = "merge"
  BY WorkerTypes DEF Merge, Finished, Running, Loading
<1>2. f \in File /\ f # None /\ f.src = proc[w].got /\ raw[p] \in Rows
  BY <1>1 DEF DayInv, OwnFiles, TypeOK, WarehouseTypeOK
<1>3. ExecuteMerge(w, p, Merged(raw[p], f))
  BY <1>2 DEF Merge
<1>4. Merged(raw[p], f) = Promise!Overlay(raw[p], proc[w].got, f.code) /\ f.code \in Code
  BY <1>2, MergeOverlays DEF File
<1>5. proc'[w].got = proc[w].got /\ \A v \in Worker \ {w} : proc'[v] = proc[v]
  BY <1>1 DEF Merge, Proc, TypeOK
<1>6. QED
  BY <1>1, <1>3, <1>4, <1>5 DEF ExecuteMerge

\* The statements that change RAW or open a transaction, and those that record.
LEMMA LayLoad ==
  ASSUME TypeOK, TxnPlaced, LockInv, DayInv, LayInv, NEW w \in Worker
  PROVE  /\ Merge(w) \/ Commit(w) => LayInv'
         /\ AuditFailure(w) \/ AuditSuccess(w) => LayInv'
<1>p. pc[w] \in PastGate => Passes(proc[w].got)
  BY DEF LayInv, Lays
<1>1. ASSUME Merge(w) PROVE LayInv'
  <2>1. PICK c \in Code :
          LET rows == Promise!Overlay(raw[PartOf(w)], proc[w].got, c)
          IN  IF Autocommit THEN raw' = [raw EXCEPT ![PartOf(w)] = rows] /\ UNCHANGED txn
                            ELSE txn' = [txn EXCEPT ![w] = rows] /\ UNCHANGED raw
    BY <1>1, MergeLays
  <2>2. /\ pc[w] \in PastGate /\ UNCHANGED task
        /\ proc'[w].got = proc[w].got
        /\ \A v \in Worker \ {w} : pc'[v] = pc[v] /\ proc'[v] = proc[v]
    BY <1>1, MergeLays DEF Merge, Reply, Goto, TypeOK, PastGate, Running, Loading
  <2>3. PartOf(w)' = PartOf(w)
    BY <2>2 DEF PartOf
  <2>4. CASE Autocommit
    <3>1. UNCHANGED txn /\ \A v \in Worker : txn[v] = None
      BY <2>1, <2>4 DEF LockInv, OneTxn
    <3>2. Lays(w)'
      BY <1>p, <2>2, <3>1 DEF Lays
    <3>3. QED
      BY <2>2, <3>1, <3>2, LayStep
  <2>5. CASE ~Autocommit
    <3>1. txn' = [txn EXCEPT ![w] = Promise!Overlay(raw[PartOf(w)], proc[w].got, c)]
            /\ UNCHANGED raw
      BY <2>1, <2>5
    <3>2. /\ txn'[w] = Promise!Overlay(raw[PartOf(w)], proc[w].got, c)
          /\ \A v \in Worker \ {w} : txn'[v] = txn[v]
      BY <3>1 DEF TypeOK, WarehouseTypeOK
    <3>3. Lays(w)'
      BY <1>p, <2>2, <2>3, <3>1, <3>2 DEF Lays, Promise!Overlay
    <3>4. QED
      BY <2>2, <3>1, <3>2, <3>3, LayStep
  <2>6. QED
    BY <2>4, <2>5
<1>2. ASSUME Commit(w) PROVE LayInv'
  <2>1. pc[w] \in PastGate /\ proc[w] \in Proc
    BY <1>2, WorkerTypes DEF Commit, PastGate, Running, Loading
  <2>2. /\ txn'[w] = None /\ UNCHANGED task /\ proc'[w].got = proc[w].got
        /\ \A v \in Worker \ {w} : pc'[v] = pc[v] /\ proc'[v] = proc[v] /\ txn'[v] = txn[v]
    <3>1. txn'[w] = None /\ \A v \in Worker \ {w} : txn'[v] = txn[v]
      BY <1>2 DEF Commit, CommitTxn, TypeOK, WarehouseTypeOK
    <3>2. proc'[w].got = proc[w].got /\ \A v \in Worker \ {w} : proc'[v] = proc[v]
      BY <1>2, <2>1 DEF Commit, Proc, TypeOK
    <3>3. UNCHANGED task /\ \A v \in Worker \ {w} : pc'[v] = pc[v]
      BY <1>2 DEF Commit, Reply, Goto, TypeOK
    <3>4. QED
      BY <3>1, <3>2, <3>3
  <2>3. UNCHANGED raw \/ \A v \in Worker \ {w} : txn[v] = None
    BY <1>2 DEF Commit, CommitTxn, LockInv, OneTxn
  <2>4. Lays(w)'
    BY <1>p, <2>1, <2>2 DEF Lays
  <2>5. QED
    BY <2>2, <2>3, <2>4, LayStep
<1>3. ASSUME AuditFailure(w) \/ AuditSuccess(w) PROVE LayInv'
  <2>1. txn[w] = None
    BY <1>3 DEF AuditFailure, AuditSuccess, TxnPlaced
  <2>2. /\ UNCHANGED raw /\ txn'[w] = None
        /\ \A v \in Worker \ {w} : txn'[v] = txn[v] /\ proc'[v] = proc[v] /\ task'[v] = task[v]
    BY <1>3, <2>1 DEF AuditFailure, AuditSuccess, Succeed, EndProcess, WriteAudit, CommitTxn,
                      RollbackTxn, TypeOK, WarehouseTypeOK
  <2>3. Goto(w, "done") \/ Goto(w, "failed")
    BY <1>3 DEF AuditFailure, AuditSuccess, Succeed
  <2>4. QED
    BY <2>2, <2>3, LayEnded DEF PastGate, Running, Loading
<1>4. QED
  BY <1>1, <1>2, <1>3

\* Every step keeps what is laid.
LEMMA LayNext == TypeOK /\ TxnPlaced /\ LockInv /\ DayInv /\ LayInv /\ [Next]_vars => LayInv'
<1> SUFFICES ASSUME TypeOK, TxnPlaced, LockInv, DayInv, LayInv, [Next]_vars PROVE LayInv'
  OBVIOUS
<1>1. ASSUME NEW w \in Worker, NEW p \in Part, NEW m \in Modes, Trigger(w, p, m)
      PROVE  LayInv'
  BY <1>1, LayOutside
<1>2. ASSUME NEW w \in Worker, Progress(w) PROVE LayInv'
  BY <1>2, LayOutside, LayQuiet, LayLoad DEF Progress
<1>3. ASSUME NEW w \in Worker, Die(w) \/ WriteFails(w) \/ StatementFails(w) PROVE LayInv'
  BY <1>3, LayQuiet
<1>4. CASE (\E p \in Part : Restate(p)) \/ Deploy \/ UNCHANGED vars
  BY <1>4, LayOutside
<1>5. QED
  BY <1>1, <1>2, <1>3, <1>4 DEF Next, Rest

LEMMA LayHolds == ASSUME ~Overlap PROVE Spec => []LayInv
<1>1. Init => LayInv
  BY DEF Init, WarehouseInit, LayInv, Lays, PastGate, Running, Loading
<1>2. QED
  BY <1>1, LayNext, TypeCorrect, PlacedHolds, LockHolds, DayHolds, PTL DEF Spec

\* The loads the readers of LOAD_AUDIT see.
Reported == {<<r.part, r.hash>> : r \in {a \in audit : a.status = "loaded"}}

\* A step that lays no payload over RAW and records no load is none of the promise's.
LEMMA QuietPromise ==
  ASSUME UNCHANGED raw,
         \A r \in audit' \ audit : r.status # "loaded", audit \subseteq audit'
  PROVE  UNCHANGED <<raw, Reported>>
<1>1. {a \in audit' : a.status = "loaded"} = {a \in audit : a.status = "loaded"}
  OBVIOUS
<1>2. QED
  BY <1>1 DEF Reported

\* Past the gate a payload is one the promise is about.
LEMMA PastGateGood ==
  ASSUME TypeOK, LayInv, NEW w \in Worker, pc[w] \in PastGate
  PROVE  proc[w].got \in {pl \in Payload : HoursOf[pl] # {} /\ Trustworthy(pl)}
<1>1. proc[w].got \in Payload /\ Passes(proc[w].got)
  BY WorkerTypes DEF LayInv, Lays, PastGate
<1>2. QED
  BY <1>1, PassedIsTrustworthy DEF Passes

\* What changes RAW changes one partition, as Load does.
LEMMA LoadImplements ==
  ASSUME TypeOK, TxnPlaced, LockInv, DayInv, LayInv, NEW w \in Worker, Merge(w) \/ Commit(w)
  PROVE  [Promise!Next]_<<raw, Reported>>
<1>1. /\ PartOf(w) \in Part /\ UNCHANGED audit
      /\ proc[w].got \in {pl \in Payload : HoursOf[pl] # {} /\ Trustworthy(pl)}
  BY PastGateGood, WorkerTypes DEF Merge, Commit, PastGate, Finished, Running, Loading
<1>2. UNCHANGED Reported
  BY <1>1 DEF Reported
<1>3. UNCHANGED raw \/ \E c \in Code : Promise!Load(PartOf(w), proc[w].got, c)
  <2>1. ASSUME Merge(w)
        PROVE  UNCHANGED raw \/ \E c \in Code : Promise!Load(PartOf(w), proc[w].got, c)
    BY <1>2, <2>1, MergeLays DEF Promise!Load, Reported
  <2>2. ASSUME Commit(w)
        PROVE  UNCHANGED raw \/ \E c \in Code : Promise!Load(PartOf(w), proc[w].got, c)
    BY <1>2, <2>2 DEF Commit, CommitTxn, LayInv, Lays, Promise!Load, Reported
  <2>3. QED
    BY <2>1, <2>2
<1>4. QED
  BY <1>1, <1>2, <1>3 DEF Promise!Next

\* The success row reports what its process fetched.
LEMMA SuccessReports ==
  ASSUME NEW w \in Worker, AuditSuccess(w)
  PROVE  Reported' = Reported \cup {<<PartOf(w), proc[w].got>>}
<1> DEFINE row == AuditOf(w, "loaded", proc[w].ins, proc[w].upd)
<1>1. /\ audit' = audit \cup {row} /\ row.status = "loaded"
      /\ row.part = PartOf(w) /\ row.hash = proc[w].got
  BY DEF AuditSuccess, WriteAudit, AuditOf
<1> HIDE DEF row
<1>2. {a \in audit' : a.status = "loaded"} = {a \in audit : a.status = "loaded"} \cup {row}
  BY <1>1
<1>3. QED
  BY <1>1, <1>2 DEF Reported

\* The success row reports a load that RAW shows, as Report does.
LEMMA ReportImplements ==
  ASSUME TypeOK, TxnPlaced, DayInv, LayInv, NEW w \in Worker, AuditSuccess(w)
  PROVE  [Promise!Next]_<<raw, Reported>>
<1>1. /\ PartOf(w) \in Part /\ pc[w] = "audit"
      /\ proc[w].got \in {pl \in Payload : HoursOf[pl] # {} /\ Trustworthy(pl)}
  BY PastGateGood, WorkerTypes DEF AuditSuccess, PastGate, Finished, Running, Loading
<1>2. PICK p \in Part : p = PartOf(w)
  BY <1>1
<1>3. PICK pl \in {q \in Payload : HoursOf[q] # {} /\ Trustworthy(q)} : pl = proc[w].got
  BY <1>1
<1>4. txn[w] = None
  BY <1>1 DEF TxnPlaced
<1>5. UNCHANGED raw
  BY <1>4 DEF AuditSuccess, WriteAudit, CommitTxn
<1>6. Promise!Shows(raw[p], pl)
  BY <1>1, <1>2, <1>3, <1>4 DEF DayInv, OwnFiles, RowsOf, Agrees, Promise!Shows
<1>7. Reported' = Reported \cup {<<p, pl>>}
  BY <1>2, <1>3, SuccessReports
<1>8. Promise!Report(p, pl)
  BY <1>5, <1>6, <1>7 DEF Promise!Report, Reported
<1>9. QED
  BY <1>8 DEF Promise!Next

\* Every other step stutters.
LEMMA StepImplements ==
  TypeOK /\ TxnPlaced /\ LockInv /\ DayInv /\ LayInv /\ [Next]_vars
    => [Promise!Next]_<<raw, Reported>>
<1> SUFFICES ASSUME TypeOK, TxnPlaced, LockInv, DayInv, LayInv, [Next]_vars
             PROVE  [Promise!Next]_<<raw, Reported>>
  OBVIOUS
<1>1. ASSUME NEW w \in Worker, Merge(w) \/ Commit(w) \/ AuditSuccess(w)
      PROVE  [Promise!Next]_<<raw, Reported>>
  BY <1>1, LoadImplements, ReportImplements
<1>2. ASSUME NEW w \in Worker, AuditFailure(w)
      PROVE  UNCHANGED <<raw, Reported>>
  <2>1. txn[w] = None
    BY <1>2 DEF AuditFailure, TxnPlaced
  <2>2. UNCHANGED raw
    BY <1>2, <2>1 DEF AuditFailure, WriteAudit, CommitTxn
  <2>3. audit \subseteq audit' /\ \A r \in audit' \ audit : r.status # "loaded"
    BY <1>2 DEF AuditFailure, WriteAudit, AuditOf
  <2>4. QED
    BY <2>2, <2>3, QuietPromise
<1>3. ASSUME \A w \in Worker : /\ ~Merge(w) /\ ~Commit(w)
                               /\ ~AuditSuccess(w) /\ ~AuditFailure(w)
      PROVE  UNCHANGED <<raw, Reported>>
  <2>1. UNCHANGED audit
    BY <1>3, AuditWriters
  <2>2. UNCHANGED raw
    BY <1>3, RawWriters
  <2>3. QED
    BY <2>1, <2>2 DEF Reported
<1>4. QED
  BY <1>1, <1>2, <1>3

\* While no two runs of a partition overlap, all that files, stages, sessions, retries and
\* crashes do to RAW and LOAD_AUDIT is LoadPromise: one payload fit to load at a time is
\* laid over its partition, at once, and a load is reported only while RAW shows it.
THEOREM PromiseKept == ASSUME ~Overlap PROVE Spec => KeepsPromise
<1>1. Init => Promise!Init
  BY DEF Init, WarehouseInit, Promise!Init
<1>2. TypeOK /\ TxnPlaced /\ LockInv /\ DayInv /\ LayInv /\ [Next]_vars
        => [Promise!Next]_<<raw, {<<r.part, r.hash>> : r \in {a \in audit : a.status = "loaded"}}>>
  BY StepImplements DEF Reported
<1>3. QED
  BY <1>1, <1>2, TypeCorrect, PlacedHolds, LockHolds, DayHolds, LayHolds, PTL
    DEF Spec, KeepsPromise, Promise!Spec

----------------------------------------------------------------------------
(* A run that ends green leaves RAW current                                 *)

\* A producer that never goes back answers with a payload it has not answered with
\* before; what is reported is what it has answered; and once its present answer is
\* reported, RAW shows it.
Current(p) ==
  /\ served[p] \notin past[p]
  /\ \A pl \in Payload : <<p, pl>> \in Reported => pl \in past[p] \cup {served[p]}
  /\ <<p, served[p]>> \in Reported => Agrees(raw[p], served[p])

\* After the fetch: once the present answer is reported, no run that fetched an earlier
\* one is under way, and a run that finds its payload reported finds it in RAW.
Fetched == Running \ {"fetch"}

Fresh(w) ==
  pc[w] \in Fetched =>
    /\ proc[w].got \in past[PartOf(w)] \cup {served[PartOf(w)]}
    /\ <<PartOf(w), served[PartOf(w)]>> \in Reported => proc[w].got = served[PartOf(w)]
    /\ pc[w] = "check" /\ <<PartOf(w), proc[w].got>> \in Reported
         => Agrees(raw[PartOf(w)], proc[w].got)

\* The inductive invariant of runs that do not overlap, over a producer that does not revert.
CurrentInv == (\A p \in Part : Current(p)) /\ \A w \in Worker : Fresh(w)

\* The skip asks for what is reported.
LEMMA LoadedIsReported ==
  ASSUME NEW p, NEW pl
  PROVE  AlreadyLoaded(p, pl) <=> <<p, pl>> \in Reported
BY DEF AlreadyLoaded, Reported

\* A step of w changes RAW and reports of its own partition only; the others stay fresh.
LEMMA OthersFresh ==
  ASSUME TypeOK, DayInv, CurrentInv, NEW w \in Worker, NEW v \in Worker \ {w},
         UNCHANGED <<served, past>>,
         pc'[v] = pc[v], task'[v] = task[v], proc'[v] = proc[v], task[w] # None,
         \A p \in Part \ {PartOf(w)} :
           /\ raw'[p] = raw[p]
           /\ \A pl \in Payload : <<p, pl>> \in Reported' => <<p, pl>> \in Reported
  PROVE  Fresh(v)'
<1>1. PartOf(v)' = PartOf(v) /\ Fresh(v)
  BY DEF CurrentInv, PartOf
<1>2. SUFFICES ASSUME pc[v] \in Fetched PROVE Fresh(v)'
  BY DEF Fresh
<1>3. task[v] # None /\ PartOf(v) \in Part /\ proc[v].got \in Payload
  BY <1>2, WorkerTypes DEF Fetched, TypeOK, Finished, Running, Loading
<1>4. PartOf(v) \in Part \ {PartOf(w)} /\ served[PartOf(v)] \in Payload
  BY <1>3 DEF DayInv, Exclusive, TypeOK
<1>5. QED
  BY <1>1, <1>3, <1>4 DEF Fresh, Agrees

\* A step that changes neither RAW, the reports nor the producer's answers.
LEMMA QuietFresh ==
  ASSUME TypeOK, CurrentInv, NEW w \in Worker, UNCHANGED <<raw, Reported, served, past>>,
         \A v \in Worker \ {w} : pc'[v] = pc[v] /\ task'[v] = task[v] /\ proc'[v] = proc[v],
         \/ pc'[w] \notin Fetched
         \/ /\ pc[w] \in Fetched /\ pc'[w] # "check"
            /\ task'[w] = task[w] /\ proc'[w].got = proc[w].got
  PROVE  CurrentInv'
<1>1. ASSUME NEW v \in Worker PROVE Fresh(v)'
  <2>1. Fresh(v) /\ (task'[v] = task[v] => PartOf(v)' = PartOf(v))
    BY DEF CurrentInv, PartOf
  <2>2. QED
    BY <2>1 DEF Fresh, Agrees
<1>2. ASSUME NEW p \in Part PROVE Current(p)'
  BY DEF CurrentInv, Current, Agrees
<1>3. QED
  BY <1>1, <1>2 DEF CurrentInv

\* The fetch takes the present answer.
LEMMA FetchFresh ==
  ASSUME TypeOK, DayInv, CurrentInv, NEW w \in Worker, Fetch(w)
  PROVE  CurrentInv'
<1>1. /\ task[w] # None /\ PartOf(w) \in Part /\ proc[w] \in Proc
      /\ UNCHANGED <<raw, audit, task, served, past>>
  BY WorkerTypes DEF Fetch, warehouseVars, producerVars, TypeOK, Finished, Running, Loading
<1>2. UNCHANGED Reported
  BY <1>1 DEF Reported
<1>3. \A v \in Worker \ {w} : pc'[v] = pc[v] /\ proc'[v] = proc[v]
  BY DEF Fetch, Goto, TypeOK
<1>4. proc'[w].got = served[PartOf(w)]
  BY <1>1 DEF Fetch, TypeOK, Proc
<1>5. Fresh(w)'
  BY <1>1, <1>2, <1>4 DEF CurrentInv, Current, Fresh, Agrees, PartOf
<1>6. ASSUME NEW v \in Worker \ {w} PROVE Fresh(v)'
  BY <1>1, <1>2, <1>3, OthersFresh
<1>7. ASSUME NEW p \in Part PROVE Current(p)'
  BY <1>1, <1>2 DEF CurrentInv, Current, Agrees
<1>8. QED
  BY <1>5, <1>6, <1>7 DEF CurrentInv

\* What w lays over RAW, and what it reports, is what it fetched.
LEMMA WriteFresh ==
  ASSUME TypeOK, DayInv, CurrentInv, NEW w \in Worker, pc[w] \in Fetched,
         UNCHANGED <<served, past>>,
         \A v \in Worker \ {w} : pc'[v] = pc[v] /\ task'[v] = task[v] /\ proc'[v] = proc[v],
         \A p \in Part \ {PartOf(w)} : raw'[p] = raw[p],
         \/ raw'[PartOf(w)] = raw[PartOf(w)]
         \/ Agrees(raw'[PartOf(w)], proc[w].got),
         \/ /\ UNCHANGED <<task, Reported>>
            /\ proc'[w].got = proc[w].got /\ pc'[w] # "check"
         \/ /\ Reported' = Reported \cup {<<PartOf(w), proc[w].got>>}
            /\ Agrees(raw'[PartOf(w)], proc[w].got) /\ pc'[w] \notin Fetched
  PROVE  CurrentInv'
<1>1. task[w] # None /\ PartOf(w) \in Part /\ proc[w].got \in Payload /\ Fresh(w)
  BY WorkerTypes DEF CurrentInv, Fetched, TypeOK, Finished, Running, Loading
<1>2. \A p \in Part \ {PartOf(w)} : \A pl \in Payload :
        <<p, pl>> \in Reported' => <<p, pl>> \in Reported
  OBVIOUS
<1>3. ASSUME NEW v \in Worker \ {w} PROVE Fresh(v)'
  BY <1>1, <1>2, OthersFresh
<1>4. Fresh(w)'
  BY <1>1 DEF Fresh, PartOf
<1>5. ASSUME NEW p \in Part PROVE Current(p)'
  <2>1. Current(p) /\ served[p] \in Payload
    BY DEF CurrentInv, TypeOK
  <2>2. CASE p # PartOf(w)
    BY <1>2, <2>1, <2>2 DEF Current
  <2>3. CASE p = PartOf(w)
    BY <1>1, <2>1, <2>3 DEF Current, Fresh
  <2>4. QED
    BY <2>2, <2>3
<1>6. QED
  BY <1>3, <1>4, <1>5 DEF CurrentInv

\* The producer's new answer has never been reported.
LEMMA RestateFresh ==
  ASSUME TypeOK, CurrentInv, ~Reverts, NEW p \in Part, Restate(p)
  PROVE  CurrentInv'
<1>1. UNCHANGED <<raw, audit, pc, task, proc>>
  BY DEF Restate, warehouseVars, ingestVars
<1>2. UNCHANGED Reported
  BY <1>1 DEF Reported
<1>3. PICK pl \in Payload \ {served[p]} :
        pl \notin past[p] /\ served' = [served EXCEPT ![p] = pl]
  BY DEF Restate
<1>4. /\ served'[p] = pl /\ past'[p] = past[p] \cup {served[p]}
      /\ \A q \in Part \ {p} : served'[q] = served[q] /\ past'[q] = past[q]
  BY <1>3 DEF Restate, TypeOK
<1>5. ASSUME NEW q \in Part PROVE Current(q)'
  <2>1. Current(q)
    BY DEF CurrentInv
  <2>2. QED
    BY <1>1, <1>2, <1>3, <1>4, <2>1 DEF Current, Agrees
<1>6. ASSUME NEW w \in Worker PROVE Fresh(w)'
  <2>1. Fresh(w) /\ PartOf(w)' = PartOf(w)
    BY <1>1 DEF CurrentInv, PartOf
  <2>2. SUFFICES ASSUME pc[w] \in Fetched PROVE Fresh(w)'
    BY <1>1 DEF Fresh
  <2>3. PartOf(w) \in Part
    BY <2>2, WorkerTypes DEF Fetched, Finished, Running, Loading
  <2>4. CASE PartOf(w) = p
    <3>1. <<p, pl>> \notin Reported
      BY <1>3 DEF CurrentInv, Current
    <3>2. QED
      BY <1>1, <1>2, <1>4, <2>1, <2>4, <3>1 DEF Fresh, Agrees
  <2>5. CASE PartOf(w) # p
    BY <1>1, <1>2, <1>4, <2>1, <2>3, <2>5 DEF Fresh, Agrees
  <2>6. QED
    BY <2>4, <2>5
<1>7. QED
  BY <1>5, <1>6 DEF CurrentInv

\* Schedulers, producer and deployments.
LEMMA CurrentOutside ==
  ASSUME TypeOK, CurrentInv, ~Reverts
  PROVE  /\ \A w \in Worker, p \in Part, m \in Modes : Trigger(w, p, m) => CurrentInv'
         /\ \A w \in Worker : Retry(w) \/ GiveUp(w) => CurrentInv'
         /\ (\E p \in Part : Restate(p)) \/ Deploy \/ UNCHANGED vars => CurrentInv'
<1>1. ASSUME NEW w \in Worker, NEW p \in Part, NEW m \in Modes, Trigger(w, p, m)
      PROVE  CurrentInv'
  <2>1. UNCHANGED Reported
    BY <1>1 DEF Trigger, warehouseVars, Reported
  <2>2. QED
    BY <1>1, <2>1, QuietFresh
      DEF Trigger, Goto, warehouseVars, producerVars, TypeOK, Fetched, Running, Loading
<1>2. ASSUME NEW w \in Worker, Retry(w) \/ GiveUp(w) PROVE CurrentInv'
  <2>1. UNCHANGED Reported
    BY <1>2 DEF Retry, GiveUp, warehouseVars, Reported
  <2>2. QED
    BY <1>2, <2>1, QuietFresh
      DEF Retry, GiveUp, Goto, warehouseVars, producerVars, TypeOK, Fetched, Running, Loading
<1>3. ASSUME Deploy \/ UNCHANGED vars PROVE CurrentInv'
  BY <1>3 DEF Deploy, vars, warehouseVars, ingestVars, producerVars, CurrentInv, Current, Fresh,
              Reported, Agrees, PartOf
<1>4. QED
  BY <1>1, <1>2, <1>3, RestateFresh

\* Statements and failures that leave RAW and LOAD_AUDIT alone, but for the fetch.
LEMMA CurrentQuiet ==
  ASSUME TypeOK, CurrentInv, NEW w \in Worker
  PROVE  /\ Begin(w) \/ Skip(w) \/ CheckMisses(w) \/ Gate(w) => CurrentInv'
         /\ Clear(w) \/ Open(w) \/ Write(w) \/ Publish(w) => CurrentInv'
         /\ Put(w) \/ Remove(w) \/ Rollback(w) => CurrentInv'
         /\ Raises(w) \/ Die(w) \/ WriteFails(w) => CurrentInv'
         /\ LoadRaises(w) \/ StatementFails(w) => CurrentInv'
<1>g. ASSUME NEW l, l # "check", Goto(w, l), pc[w] \in Fetched,
             UNCHANGED <<raw, audit, task, proc, served, past>>
      PROVE  CurrentInv'
  <2>1. UNCHANGED Reported
    BY <1>g DEF Reported
  <2>2. QED
    BY <1>g, <2>1, QuietFresh DEF Goto, TypeOK
<1>e. ASSUME NEW l \in {"fetch", "done", "failed"}, Goto(w, l),
             UNCHANGED <<raw, audit, served, past>>,
             \A v \in Worker \ {w} : task'[v] = task[v] /\ proc'[v] = proc[v]
      PROVE  CurrentInv'
  <2>1. UNCHANGED Reported
    BY <1>e DEF Reported
  <2>2. QED
    BY <1>e, <2>1, QuietFresh DEF Goto, TypeOK, Fetched, Running, Loading
<1>1. CheckMisses(w) \/ Gate(w) \/ Clear(w) \/ Open(w) \/ Write(w) => CurrentInv'
  BY <1>g DEF CheckMisses, Gate, Clear, Open, Write, warehouseVars, producerVars, Fetched,
              Running, Loading
<1>2. Begin(w) \/ Skip(w) => CurrentInv'
  BY <1>e DEF Begin, Skip, Succeed, EndProcess, warehouseVars, producerVars, TypeOK
<1>3. ASSUME Publish(w) PROVE CurrentInv'
  <2>1. CASE task[w].mode.land
    BY <1>3, <1>e, <2>1 DEF Publish, Succeed, EndProcess, producerVars, TypeOK
  <2>2. CASE ~task[w].mode.land
    BY <1>3, <1>g, <2>2 DEF Publish, producerVars, Fetched, Running, Loading
  <2>3. QED
    BY <2>1, <2>2
<1>4. Put(w) \/ Remove(w) \/ Rollback(w) => CurrentInv'
  BY <1>g DEF Put, Remove, Rollback, Reply, producerVars, Fetched, Running, Loading
<1>5. Raises(w) \/ Die(w) \/ WriteFails(w) => CurrentInv'
  BY <1>e DEF Raises, Die, Fail, WriteFails, EndProcess, producerVars, TypeOK
<1>6. LoadRaises(w) \/ StatementFails(w) => CurrentInv'
  BY <1>g DEF LoadRaises, StatementFails, warehouseVars, producerVars, Fetched, Running, Loading
<1>7. QED
  BY <1>1, <1>2, <1>3, <1>4, <1>5, <1>6

\* The statements that change RAW, and those that record.
LEMMA CurrentLoad ==
  ASSUME TypeOK, TxnPlaced, DayInv, LayInv, CurrentInv, NEW w \in Worker
  PROVE  Merge(w) \/ Commit(w) \/ AuditFailure(w) \/ AuditSuccess(w) => CurrentInv'
<1>1. ASSUME Merge(w) PROVE CurrentInv'
  <2>1. PICK c \in Code :
          LET rows == Promise!Overlay(raw[PartOf(w)], proc[w].got, c)
          IN  IF Autocommit THEN raw' = [raw EXCEPT ![PartOf(w)] = rows] /\ UNCHANGED txn
                            ELSE txn' = [txn EXCEPT ![w] = rows] /\ UNCHANGED raw
    BY <1>1, MergeLays
  <2>2. /\ PartOf(w) \in Part /\ pc[w] \in Fetched /\ pc'[w] # "check"
        /\ proc'[w].got = proc[w].got /\ UNCHANGED <<audit, task, served, past>>
        /\ \A v \in Worker \ {w} : pc'[v] = pc[v] /\ proc'[v] = proc[v]
    BY <1>1, MergeLays
      DEF Merge, Reply, Goto, producerVars, TypeOK, Fetched, Running, Loading
  <2>3. Agrees(Promise!Overlay(raw[PartOf(w)], proc[w].got, c), proc[w].got)
    BY <2>2, WorkerTypes, OverlayAgrees DEF Fetched, TypeOK, WarehouseTypeOK
  <2>4. /\ \A p \in Part \ {PartOf(w)} : raw'[p] = raw[p]
        /\ raw'[PartOf(w)] = raw[PartOf(w)] \/ Agrees(raw'[PartOf(w)], proc[w].got)
    BY <2>1, <2>2, <2>3 DEF TypeOK, WarehouseTypeOK
  <2>5. UNCHANGED Reported
    BY <2>2 DEF Reported
  <2>6. QED
    BY <2>2, <2>4, <2>5, WriteFresh
<1>2. ASSUME Commit(w) PROVE CurrentInv'
  <2>1. /\ PartOf(w) \in Part /\ pc[w] \in Fetched /\ proc[w] \in Proc
        /\ Agrees(RowsOf(w), proc[w].got)
    BY <1>2, WorkerTypes
      DEF Commit, DayInv, OwnFiles, Fetched, Finished, Running, Loading
  <2>2. /\ proc'[w].got = proc[w].got /\ \A v \in Worker \ {w} : proc'[v] = proc[v]
    BY <1>2, <2>1 DEF Commit, Proc, TypeOK
  <2>3. /\ pc'[w] # "check" /\ UNCHANGED <<audit, task, served, past>>
        /\ \A v \in Worker \ {w} : pc'[v] = pc[v]
    BY <1>2 DEF Commit, Reply, Goto, producerVars, TypeOK
  <2>4. /\ \A p \in Part \ {PartOf(w)} : raw'[p] = raw[p]
        /\ raw'[PartOf(w)] = RowsOf(w)
    BY <1>2, <2>1 DEF Commit, CommitTxn, RowsOf, TypeOK, WarehouseTypeOK
  <2>5. UNCHANGED Reported
    BY <2>3 DEF Reported
  <2>6. QED
    BY <2>1, <2>2, <2>3, <2>4, <2>5, WriteFresh
<1>3. ASSUME AuditFailure(w) \/ AuditSuccess(w)
      PROVE  /\ pc[w] \in {"auditfail", "audit"} /\ pc'[w] \in {"failed", "done"}
             /\ UNCHANGED <<raw, served, past>>
             /\ \A v \in Worker \ {w} :
                  pc'[v] = pc[v] /\ task'[v] = task[v] /\ proc'[v] = proc[v]
  <2>1. txn[w] = None
    BY <1>3 DEF AuditFailure, AuditSuccess, TxnPlaced
  <2>2. QED
    BY <1>3, <2>1 DEF AuditFailure, AuditSuccess, Succeed, EndProcess, WriteAudit, CommitTxn,
                      Goto, producerVars, TypeOK
<1>4. ASSUME AuditFailure(w) PROVE CurrentInv'
  <2>1. UNCHANGED <<raw, Reported>>
    BY <1>3, <1>4, QuietPromise DEF AuditFailure, WriteAudit, AuditOf
  <2>2. QED
    BY <1>3, <1>4, <2>1, QuietFresh DEF Fetched, Running, Loading
<1>5. ASSUME AuditSuccess(w) PROVE CurrentInv'
  <2>1. pc[w] = "audit" /\ txn[w] = None
    BY <1>5 DEF AuditSuccess, TxnPlaced
  <2>2. Agrees(raw'[PartOf(w)], proc[w].got)
    BY <1>3, <1>5, <2>1 DEF DayInv, OwnFiles, RowsOf
  <2>3. Reported' = Reported \cup {<<PartOf(w), proc[w].got>>}
    BY <1>5, SuccessReports
  <2>4. QED
    BY <1>3, <1>5, <2>1, <2>2, <2>3, WriteFresh DEF Fetched, Running, Loading
<1>6. QED
  BY <1>1, <1>2, <1>4, <1>5

\* Every step keeps reports current.
LEMMA CurrentNext ==
  ASSUME ~Reverts
  PROVE  TypeOK /\ TxnPlaced /\ DayInv /\ LayInv /\ CurrentInv /\ [Next]_vars => CurrentInv'
<1> SUFFICES ASSUME TypeOK, TxnPlaced, DayInv, LayInv, CurrentInv, [Next]_vars
             PROVE  CurrentInv'
  OBVIOUS
<1>1. ASSUME NEW w \in Worker, NEW p \in Part, NEW m \in Modes, Trigger(w, p, m)
      PROVE  CurrentInv'
  BY <1>1, CurrentOutside
<1>2. ASSUME NEW w \in Worker, Progress(w) PROVE CurrentInv'
  BY <1>2, CurrentOutside, CurrentQuiet, CurrentLoad, FetchFresh DEF Progress
<1>3. ASSUME NEW w \in Worker, Die(w) \/ WriteFails(w) \/ StatementFails(w) PROVE CurrentInv'
  BY <1>3, CurrentQuiet
<1>4. CASE (\E p \in Part : Restate(p)) \/ Deploy \/ UNCHANGED vars
  BY <1>4, CurrentOutside
<1>5. QED
  BY <1>1, <1>2, <1>3, <1>4 DEF Next, Rest

LEMMA CurrentHolds == ASSUME ~Overlap, ~Reverts PROVE Spec => []CurrentInv
<1>1. Init => CurrentInv
  BY DEF Init, WarehouseInit, CurrentInv, Current, Fresh, Reported, Fetched, Running, Loading
<1>2. QED
  BY <1>1, CurrentNext, TypeCorrect, PlacedHolds, DayHolds, LayHolds, PTL DEF Spec

\* A green run leaves RAW showing the payload it fetched, as long as no two runs of a
\* partition overlap and the producer never serves again what it has replaced: what
\* already_loaded skips is in RAW, although it asks for a 'loaded' row of any age.
THEOREM GreenCurrent == ASSUME ~Overlap, ~Reverts PROVE Spec => GreenMeansCurrent
<1>1. ASSUME TypeOK, TxnPlaced, DayInv, CurrentInv, [Next]_vars,
             NEW w \in Worker, TurnsGreen(w), ~task[w].mode.land
      PROVE  Agrees(raw'[PartOf(w)], proc[w].got)
  <2>1. CASE Skip(w)
    <3>1. UNCHANGED raw /\ pc[w] = "check" /\ <<PartOf(w), proc[w].got>> \in Reported
      BY <2>1, LoadedIsReported DEF Skip
    <3>2. QED
      BY <1>1, <3>1 DEF CurrentInv, Fresh, Fetched, Running
  <2>2. CASE Publish(w)
    BY <1>1, <2>2 DEF Publish, TurnsGreen, Goto, TypeOK
  <2>3. CASE AuditSuccess(w)
    <3>1. pc[w] = "audit" /\ txn[w] = None
      BY <1>1, <2>3 DEF AuditSuccess, TxnPlaced
    <3>2. UNCHANGED raw
      BY <2>3, <3>1 DEF AuditSuccess, WriteAudit, CommitTxn
    <3>3. QED
      BY <1>1, <3>1, <3>2 DEF DayInv, OwnFiles, RowsOf
  <2>4. QED
    BY <1>1, <2>1, <2>2, <2>3, GreenSteps
<1>2. TypeOK /\ TxnPlaced /\ DayInv /\ CurrentInv /\ [Next]_vars =>
        [\A w \in Worker :
           pc[w] # "done" /\ pc'[w] = "done" /\ ~task[w].mode.land
             => Agrees(raw'[PartOf(w)], proc[w].got)]_vars
  BY <1>1 DEF TurnsGreen
<1>3. QED
  BY <1>2, TypeCorrect, PlacedHolds, DayHolds, CurrentHolds, PTL DEF Spec, GreenMeansCurrent

----------------------------------------------------------------------------
(* No green run leaves its partition empty                                  *)

\* Every partition recorded as loaded has rows.
LoadedHasRows ==
  \A r \in audit : r.status = "loaded" => \E h \in Hour : raw[r.part][h] # None

\* A payload that is not empty and fit to load has acceptable rows: two in a hundred
\* bad ones are not all.
LEMMA GoodHasRows ==
  ASSUME NEW pl \in Payload, HoursOf[pl] # {}, Trustworthy(pl)
  PROVE  \E h \in Hour : h \in Accepted(pl)
<1>1. HoursOf[pl] \subseteq Hour /\ BadOf[pl] \subseteq HoursOf[pl]
  BY WarehouseAssumption
<1>2. IsFiniteSet(HoursOf[pl])
  BY <1>1, FS_Subset, WarehouseAssumption
<1>3. Cardinality(HoursOf[pl]) \in Nat /\ Cardinality(HoursOf[pl]) # 0
  BY <1>2, FS_CardinalityType, FS_EmptySet
<1>4. BadOf[pl] # HoursOf[pl]
  BY <1>3 DEF Trustworthy
<1>5. QED
  BY <1>1, <1>4 DEF Accepted

\* What is written to LOAD_AUDIT keeps it so, and rows stay.
LEMMA LoadedRowsStep ==
  ASSUME TypeOK, TxnPlaced, DayInv, LayInv, RawKept, LoadedHasRows, [Next]_vars
  PROVE  LoadedHasRows'
<1>1. ASSUME NEW r \in audit, r.status = "loaded"
      PROVE  \E h \in Hour : raw'[r.part][h] # None
  <2>1. r.part \in Part
    BY DEF TypeOK, AuditRow
  <2>2. QED
    BY <1>1, <2>1 DEF LoadedHasRows, RawKept, Keeps
<1>2. CASE UNCHANGED audit
  BY <1>1, <1>2 DEF LoadedHasRows
<1>3. ASSUME NEW w \in Worker, AuditFailure(w) PROVE LoadedHasRows'
  BY <1>1, <1>3 DEF LoadedHasRows, AuditFailure, WriteAudit, AuditOf
<1>4. ASSUME NEW w \in Worker, AuditSuccess(w) PROVE LoadedHasRows'
  <2> DEFINE row == AuditOf(w, "loaded", proc[w].ins, proc[w].upd)
  <2>1. audit' = audit \cup {row} /\ row.part = PartOf(w)
    BY <1>4 DEF AuditSuccess, WriteAudit, AuditOf
  <2> HIDE DEF row
  <2>2. pc[w] = "audit" /\ txn[w] = None
    BY <1>4 DEF AuditSuccess, TxnPlaced
  <2>3. UNCHANGED raw
    BY <1>4, <2>2 DEF AuditSuccess, WriteAudit, CommitTxn
  <2>4. Agrees(raw[PartOf(w)], proc[w].got)
    BY <2>2 DEF DayInv, OwnFiles, RowsOf
  <2>5. PICK h \in Hour : h \in Accepted(proc[w].got)
    BY <2>2, PastGateGood, GoodHasRows DEF PastGate, Running, Loading
  <2>6. raw'[row.part][h] # None
    BY <2>1, <2>3, <2>4, <2>5 DEF Agrees
  <2>7. QED
    BY <1>1, <2>1, <2>6 DEF LoadedHasRows
<1>5. QED
  BY <1>2, <1>3, <1>4, AuditWriters

\* A partition recorded as loaded has rows in RAW.
LEMMA LoadedRowsHold == ASSUME ~Overlap PROVE Spec => []LoadedHasRows
<1>1. Init => LoadedHasRows
  BY DEF Init, WarehouseInit, LoadedHasRows
<1>2. TypeOK /\ TxnPlaced /\ LockInv /\ DayInv /\ LayInv /\ LoadedHasRows /\ [Next]_vars
        => LoadedHasRows'
  BY LoadedRowsStep, LockStep
<1>3. QED
  BY <1>1, <1>2, TypeCorrect, PlacedHolds, LockHolds, DayHolds, LayHolds, PTL DEF Spec

\* No empty success: as long as no two runs of a partition overlap, a run that ends green
\* leaves rows of its partition in RAW, whether it loaded or found it loaded.  An empty
\* window never gets past the gate, and what was loaded once is never lost.
THEOREM GreenNotEmpty == ASSUME ~Overlap PROVE Spec => GreenHasRows
<1>1. ASSUME TypeOK, LoadedHasRows, LoadedHasRows', [Next]_vars,
             NEW w \in Worker, TurnsGreen(w), ~task[w].mode.land
      PROVE  \E h \in Hour : raw'[PartOf(w)][h] # None
  <2>1. CASE Skip(w)
    <3>1. PICK r \in audit : r.part = PartOf(w) /\ r.status = "loaded"
      BY <2>1 DEF Skip, AlreadyLoaded
    <3>2. UNCHANGED raw
      BY <2>1 DEF Skip
    <3>3. QED
      BY <1>1, <3>1, <3>2 DEF LoadedHasRows
  <2>2. CASE Publish(w)
    BY <1>1, <2>2 DEF Publish, TurnsGreen, Goto, TypeOK
  <2>3. CASE AuditSuccess(w)
    <3> DEFINE row == AuditOf(w, "loaded", proc[w].ins, proc[w].upd)
    <3>1. row \in audit' /\ row.status = "loaded" /\ row.part = PartOf(w)
      BY <2>3 DEF AuditSuccess, WriteAudit, AuditOf
    <3> HIDE DEF row
    <3>2. QED
      BY <1>1, <3>1 DEF LoadedHasRows
  <2>4. QED
    BY <1>1, <2>1, <2>2, <2>3, GreenSteps
<1>2. TypeOK /\ LoadedHasRows /\ LoadedHasRows' /\ [Next]_vars =>
        [\A w \in Worker :
           pc[w] # "done" /\ pc'[w] = "done" /\ ~task[w].mode.land
             => \E h \in Hour : raw'[PartOf(w)][h] # None]_vars
  BY <1>1 DEF TurnsGreen
<1>3. QED
  BY <1>2, TypeCorrect, LoadedRowsHold, PTL DEF Spec, GreenHasRows

----------------------------------------------------------------------------
(* No attempt fails for what earlier ones left                              *)

\* A process that runs alone is the only one to sweep, and it sweeps before it writes.
AloneKeepsFile ==
  \A w \in Worker :
    Worker = {w} => /\ pc[w] = "write" => Holds(w, PartOf(w), "tmp")
                    /\ pc[w] = "rename" => tmp[PartOf(w)] # None

\* What w writes when it opens and closes its temporary file.
LEMMA AloneWrites ==
  ASSUME TypeOK, AloneKeepsFile, NEW w \in Worker, Worker = {w}
  PROVE  /\ Open(w) => Holds(w, PartOf(w), "tmp")'
         /\ Write(w) => tmp'[PartOf(w)'] # None
<1>1. ASSUME Open(w) PROVE Holds(w, PartOf(w), "tmp")'
  BY <1>1 DEF Open, OpenTmp, Holds, PartOf, TypeOK, LandingTypeOK
<1>2. ASSUME Write(w) PROVE tmp'[PartOf(w)'] # None
  <2> DEFINE p == PartOf(w)
  <2>1. Holds(w, p, "tmp") /\ p \in Part /\ PartOf(w)' = p /\ proc[w] \in Proc
        /\ proc[w].got \in Payload /\ proc[w].ver \in Code
    BY <1>2, WorkerTypes DEF Write, AloneKeepsFile, PartOf, Running, Finished, Proc
  <2>2. ~Holds(w, p, "final") /\ ~Holds(w, p, "gone")
    BY <2>1 DEF Holds
  <2>3. PICK f \in Closed(w, p, "tmp", tmp[p], proc[w].got, proc[w].ver) :
          tmp' = [tmp EXCEPT ![p] = f]
    BY <1>2, <2>2 DEF Write, CloseTmp
  <2>4. tmp[p] \in File
    BY <2>1 DEF TypeOK, LandingTypeOK
  <2>5. f \in File
    BY <2>1, <2>3, <2>4 DEF Closed, File
  <2>6. QED
    BY <2>1, <2>3, <2>5, NoneIsNothing DEF TypeOK, LandingTypeOK
<1>3. QED
  BY <1>1, <1>2

\* No step takes the file of a process that runs alone.
LEMMA AloneStep == TypeOK /\ AloneKeepsFile /\ [Next]_vars => AloneKeepsFile'
<1> SUFFICES ASSUME TypeOK, AloneKeepsFile, [Next]_vars, NEW w \in Worker, Worker = {w}
             PROVE  (/\ pc[w] = "write" => Holds(w, PartOf(w), "tmp")
                     /\ pc[w] = "rename" => tmp[PartOf(w)] # None)'
  BY DEF AloneKeepsFile
<1>1. CASE (\E p \in Part : Restate(p)) \/ Deploy \/ UNCHANGED vars
  BY <1>1 DEF Restate, Deploy, vars, ingestVars, landingVars, AloneKeepsFile, Holds, PartOf
<1>2. ASSUME NEW p \in Part, NEW m \in Modes, Trigger(w, p, m) PROVE pc'[w] = "ready"
  BY <1>2 DEF Trigger, Goto, TypeOK
<1>3. Die(w) \/ WriteFails(w) \/ StatementFails(w) => pc'[w] \in {"failed", "rollback"}
  BY DEF Die, Fail, WriteFails, StatementFails, Goto, TypeOK
<1>4. ASSUME Progress(w), pc'[w] \in {"write", "rename"}
      PROVE  \/ Open(w) /\ pc'[w] = "write"
             \/ Write(w) /\ pc'[w] = "rename"
  <2> USE DEF Goto, TypeOK
  <2>1. Retry(w) \/ GiveUp(w) \/ Begin(w) \/ Fetch(w) \/ Skip(w) \/ CheckMisses(w)
          \/ Gate(w) \/ Clear(w) => FALSE
    BY <1>4 DEF Retry, GiveUp, Begin, Fetch, Skip, Succeed, CheckMisses, Gate, Clear
  <2>2. Publish(w) \/ Put(w) \/ Merge(w) \/ Remove(w) \/ Commit(w) => FALSE
    BY <1>4 DEF Publish, Succeed, Put, Merge, Remove, Commit, Reply
  <2>3. AuditSuccess(w) \/ Rollback(w) \/ AuditFailure(w) \/ Raises(w) \/ LoadRaises(w) => FALSE
    BY <1>4 DEF AuditSuccess, Succeed, Rollback, AuditFailure, Raises, Fail, LoadRaises
  <2>4. (Open(w) => pc'[w] = "write") /\ (Write(w) => pc'[w] = "rename")
    BY DEF Open, Write
  <2>5. QED
    BY <1>4, <2>1, <2>2, <2>3, <2>4 DEF Progress
<1>5. CASE Progress(w)
  BY <1>4, <1>5, AloneWrites
<1>6. QED
  BY <1>1, <1>2, <1>3, <1>5 DEF Next, Rest

LEMMA AloneHolds == Spec => []AloneKeepsFile
<1>1. Init => AloneKeepsFile
  BY DEF Init, AloneKeepsFile
<1>2. QED
  BY <1>1, AloneStep, TypeCorrect, PTL DEF Spec

\* Without a fault only the gate, the rename, the PUT and the MERGE fail an attempt.
LEMMA DerailSteps ==
  ASSUME TypeOK, [Next]_vars, NEW w \in Worker, Derails(w)
  PROVE  Hit \/ Raises(w) \/ LoadRaises(w)
<1> USE DEF Derails, Goto, TypeOK, Running, Loading
<1>1. CASE (\E p \in Part : Restate(p)) \/ Deploy \/ UNCHANGED vars
  BY <1>1 DEF Restate, Deploy, vars, ingestVars
<1>2. ASSUME NEW v \in Worker, NEW p \in Part, NEW m \in Modes, Trigger(v, p, m)
      PROVE  FALSE
  BY <1>2 DEF Trigger
<1>3. ASSUME NEW v \in Worker, Die(v) \/ WriteFails(v) \/ StatementFails(v) PROVE Hit
  BY <1>3 DEF Die, WriteFails, StatementFails, Hit
<1>4. ASSUME NEW v \in Worker, Progress(v) PROVE Hit \/ Raises(w) \/ LoadRaises(w)
  <2>1. Retry(v) \/ GiveUp(v) \/ Begin(v) \/ Fetch(v) \/ Skip(v) \/ CheckMisses(v) => FALSE
    BY DEF Retry, GiveUp, Begin, Fetch, Skip, Succeed, CheckMisses
  <2>2. Gate(v) \/ Clear(v) \/ Open(v) \/ Write(v) \/ Publish(v) => FALSE
    BY DEF Gate, Clear, Open, Write, Publish, Succeed
  <2>3. Put(v) \/ Merge(v) \/ Remove(v) \/ Commit(v) \/ AuditSuccess(v) => Hit
    BY DEF Put, Merge, Remove, Commit, Reply, AuditSuccess, Succeed, Hit
  <2>4. Rollback(v) \/ AuditFailure(v) => FALSE
    BY DEF Rollback, AuditFailure
  <2>5. Raises(v) \/ LoadRaises(v) => v = w
    BY DEF Raises, Fail, LoadRaises
  <2>6. QED
    BY <1>4, <2>1, <2>2, <2>3, <2>4, <2>5 DEF Progress
<1>5. QED
  BY <1>1, <1>2, <1>3, <1>4 DEF Next, Rest

\* A payload fit to load passes the gate: 2% in whole numbers, the other way.
LEMMA GoodPasses ==
  ASSUME NEW pl \in Payload, Trustworthy(pl), HoursOf[pl] # {}
  PROVE  Passes(pl)
<1>1. IsFiniteSet(HoursOf[pl]) /\ IsFiniteSet(BadOf[pl])
  BY WarehouseAssumption, FS_Subset
<1>2. Cardinality(HoursOf[pl]) \in Nat /\ Cardinality(BadOf[pl]) \in Nat
  BY <1>1, FS_CardinalityType
<1>3. QED
  BY <1>2 DEF Passes, ExceedsThreshold, Trustworthy

\* Retries are safe at any point: as long as no two runs of a partition overlap, an
\* attempt fails only for a fault that hits it, for a payload that is not fit to load,
\* or for the sweep of another process; never for what an earlier attempt or run left,
\* wherever that one was cut off.
THEOREM RetriesSafe == ASSUME ~Overlap PROVE Spec => NoTryIsWasted
<1>1. ASSUME TypeOK, DayInv, AloneKeepsFile, [Next]_vars, NEW w \in Worker, Derails(w), ~Hit
      PROVE  Refused(w) \/ Swept(w)
  <2>1. ~(pc[w] = "put" /\ final[PartOf(w)] = None)
    BY <1>1 DEF DayInv, OwnFiles
  <2>2. ~(pc[w] = "merge" /\ ~Readable(stage[PartOf(w)]))
    <3>1. SUFFICES ASSUME pc[w] = "merge" PROVE Readable(stage[PartOf(w)])
      OBVIOUS
    <3>2. PartOf(w) \in Part /\ stage[PartOf(w)] # None
      BY <1>1, <3>1, WorkerTypes DEF DayInv, OwnFiles, Finished
    <3>3. QED
      BY <1>1, <3>2 DEF DayInv, FilesPure, ReadersSeeWholeFiles, Readable
  <2>3. ~LoadRaises(w)
    BY <2>1, <2>2 DEF LoadRaises
  <2>4. CASE pc[w] = "gate" /\ ~Passes(proc[w].got)
    <3>1. proc[w].got \in Payload
      BY <1>1, <2>4, WorkerTypes DEF Running
    <3>2. Trustworthy(proc[w].got) /\ HoursOf[proc[w].got] # {} => Passes(proc[w].got)
      BY <3>1, GoodPasses
    <3>3. QED
      BY <2>4, <3>2 DEF Refused
  <2>5. CASE pc[w] = "rename" /\ tmp[PartOf(w)] = None
    BY <1>1, <2>5 DEF Swept, AloneKeepsFile
  <2>6. QED
    BY <1>1, <2>3, <2>4, <2>5, DerailSteps DEF Raises
<1>2. TypeOK /\ DayInv /\ AloneKeepsFile /\ [Next]_vars =>
        [\A w \in Worker : Derails(w) => Hit \/ Refused(w) \/ Swept(w)]_vars
  BY <1>1
<1>3. QED
  BY <1>2, TypeCorrect, DayHolds, AloneHolds, PTL DEF Spec, NoTryIsWasted

=============================================================================
