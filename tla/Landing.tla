------------------------------ MODULE Landing ------------------------------
(***************************************************************************)
(* The landing zone: one directory per partition, a (city, day), holding   *)
(* the published Parquet file and, while a write is in progress, its       *)
(* temporary file (src/src/pipeline/landing.py).                           *)
(*                                                                         *)
(* Both names are functions of the partition alone, so every writer of a   *)
(* partition uses the same two names.  A file is an inode reached through  *)
(* a name or through the handle of a writer that has it open.  A rename    *)
(* moves the inode, with every handle on it, to the published name; an     *)
(* unlink leaves the handles on an inode that no longer has a name.        *)
(* Opening for writing truncates the inode the name points to.             *)
(***************************************************************************)
CONSTANTS
  Worker,   \* the processes that may write
  Part,     \* the partitions, (city, day) pairs
  Payload,  \* producer answers for one partition, up to payload_hash
  Code,     \* versions of the flattening code
  None      \* absence: no file, no row, no handle

VARIABLES
  tmp,      \* tmp[p]: the file named .<batch_id>.parquet.tmp, or None
  final,    \* final[p]: the file named <batch_id>.parquet, or None
  handle    \* handle[w]: the name the inode w has open goes by, or None

landingVars == <<tmp, final, handle>>

(***************************************************************************)
(* A file holds the rows code version `code` makes of payload `src`.       *)
(* "partial": its one writer has not closed it.  "mixed": several writers  *)
(* have had it open at once and one still has.  "whole": complete.         *)
(* "torn": several writers' bytes, no Parquet reader accepts it.           *)
(***************************************************************************)
File == [src : Payload, code : Code, st : {"partial", "mixed", "whole", "torn"}]

\* "gone": the inode has lost its last name.
Handle == [part : Part, name : {"tmp", "final", "gone"}]

Readable(f) == f # None /\ f.st = "whole"

Holds(w, p, name) == handle[w] = [part |-> p, name |-> name]

\* The inode of a handle that goes by a name is the file of that name.
LandingTypeOK ==
  /\ tmp \in [Part -> File \cup {None}]
  /\ final \in [Part -> File \cup {None}]
  /\ handle \in [Worker -> Handle \cup {None}]
  /\ \A w \in Worker, p \in Part :
       /\ Holds(w, p, "tmp") => tmp[p] # None
       /\ Holds(w, p, "final") => final[p] # None

LandingInit ==
  /\ tmp = [p \in Part |-> None]
  /\ final = [p \in Part |-> None]
  /\ handle = [w \in Worker |-> None]

Shared(w, p, name) == \E v \in Worker \ {w} : Holds(v, p, name)

\* The handles once the files named `name` of the partitions in P are unlinked.
Unlinked(h, P, name) ==
  [w \in Worker |->
     IF h[w] # None /\ h[w].part \in P /\ h[w].name = name
       THEN [h[w] EXCEPT !.name = "gone"] ELSE h[w]]

\* Faulty: the Parquet file is written under its published name.
OpenInPlace(w, p, src, code) ==
  /\ final' = [final EXCEPT ![p] = [src |-> src, code |-> code, st |-> "partial"]]
  /\ handle' = [handle EXCEPT ![w] = [part |-> p, name |-> "final"]]
  /\ UNCHANGED tmp

(***************************************************************************)
(* write_batch: mkdir, then pq.write_table opens the temporary name.  A    *)
(* temporary file left there, or being written by somebody else, is        *)
(* truncated and shared.                                                   *)
(***************************************************************************)
OpenTmp(w, p, src, code) ==
  /\ tmp' = [tmp EXCEPT ![p] = [src |-> src, code |-> code,
                                st |-> IF Shared(w, p, "tmp") THEN "mixed" ELSE "partial"]]
  /\ handle' = [handle EXCEPT ![w] = [part |-> p, name |-> "tmp"]]
  /\ UNCHANGED final

\* What the file f of that name may hold once w has closed it: nothing certain
\* while others write, and if others did, w's rows or no Parquet at all.
Closed(w, p, name, f, src, code) ==
  CASE Shared(w, p, name) -> {f}
    [] ~Shared(w, p, name) /\ f.st = "mixed" ->
         {[src |-> src, code |-> code, st |-> st] : st \in {"whole", "torn"}}
    [] OTHER -> {[f EXCEPT !.st = "whole"]}

\* pq.write_table has written the footer and closes the file, by whatever name
\* the inode now goes.
CloseTmp(w, p, src, code) ==
  /\ \/ /\ Holds(w, p, "tmp")
        /\ \E f \in Closed(w, p, "tmp", tmp[p], src, code) : tmp' = [tmp EXCEPT ![p] = f]
        /\ UNCHANGED final
     \/ /\ Holds(w, p, "final")
        /\ \E f \in Closed(w, p, "final", final[p], src, code) :
             final' = [final EXCEPT ![p] = f]
        /\ UNCHANGED tmp
     \/ /\ Holds(w, p, "gone")
        /\ UNCHANGED <<tmp, final>>
  /\ handle' = [handle EXCEPT ![w] = None]

\* An exception inside pq.write_table: the library unlinks the path it wrote to.
AbandonTmp(w, p) ==
  /\ tmp' = [tmp EXCEPT ![p] = None]
  /\ handle' = [Unlinked(handle, {p}, "tmp") EXCEPT ![w] = None]
  /\ UNCHANGED final

\* Faulty: a rename that refuses to replace an existing file.
PublishTmpOnce(p) ==
  /\ tmp[p] # None /\ final[p] = None
  /\ final' = [final EXCEPT ![p] = tmp[p]]
  /\ tmp' = [tmp EXCEPT ![p] = None]
  /\ UNCHANGED handle

\* tmp_path.replace(final_path).  A missing source raises FileNotFoundError.
PublishTmp(p) ==
  /\ tmp[p] # None
  /\ final' = [final EXCEPT ![p] = tmp[p]]
  /\ tmp' = [tmp EXCEPT ![p] = None]
  /\ handle' = [w \in Worker |->
       CASE Holds(w, p, "tmp")   -> [part |-> p, name |-> "final"]
         [] Holds(w, p, "final") -> [part |-> p, name |-> "gone"]
         [] OTHER                -> handle[w]]

\* clear_partition: rmtree of the partition's directory, temporary file included.
ClearPartition(p) ==
  /\ tmp' = [tmp EXCEPT ![p] = None]
  /\ final' = [final EXCEPT ![p] = None]
  /\ handle' = Unlinked(Unlinked(handle, {p}, "tmp"), {p}, "final")

\* Faulty: the pattern of the sweep matches the published files too.
CleanupParquet ==
  /\ tmp' = [p \in Part |-> None]
  /\ final' = [p \in Part |-> None]
  /\ handle' = Unlinked(Unlinked(handle, Part, "tmp"), Part, "final")

\* cleanup_temp_files: rglob over the whole landing root, every partition's
\* temporary file.  One sweep is one step.
CleanupTempFiles ==
  /\ tmp' = [p \in Part |-> None]
  /\ handle' = Unlinked(handle, Part, "tmp")
  /\ UNCHANGED final

\* The process of w ends: the operating system closes its file, which stays as
\* it is under whatever name it has.
DropHandle(w) ==
  /\ handle' = [handle EXCEPT ![w] = None]
  /\ UNCHANGED <<tmp, final>>

=============================================================================
