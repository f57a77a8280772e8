-------------------------- MODULE IngestProperties --------------------------
(***************************************************************************)
(* What ingestion must guarantee, stated of Ingest's behaviours.  Which    *)
(* properties hold under which constants is said in the MC modules' runs.  *)
(***************************************************************************)
EXTENDS Ingest

\* RAW shows payload pl at every hour pl has an acceptable row for.
Agrees(rows, pl) == \A h \in Accepted(pl) : rows[h] # None /\ rows[h].src = pl

\* A published or staged file is complete: "a reader never sees a half written
\* file" (landing.py), whatever crashes leave behind.
ReadersSeeWholeFiles ==
  \A p \in Part : /\ final[p] # None => final[p].st = "whole"
                  /\ stage[p] # None => stage[p].st = "whole"

\* A batch fit to load: series of equal length, and at most one row in fifty that
\* violates the contract, the 2% that check_batch documents.
Trustworthy(pl) ==
  pl \notin Malformed /\ 50 * Cardinality(BadOf[pl]) <= Cardinality(HoursOf[pl])

\* Rows of trustworthy batches, and of those only rows that satisfy the contract.
RowsGated(rows) ==
  \A h \in Hour :
    rows[h] # None => Trustworthy(rows[h].src) /\ h \in Accepted(rows[h].src)

\* Only gated rows ever reach RAW, or a transaction on it: a payload that
\* check_batch refuses leaves nothing that a later run could publish, stage or
\* merge (quality.py, run.py).
RawOnlyGated ==
  /\ \A p \in Part : RowsGated(raw[p])
  /\ \A w \in Worker : txn[w] # None => RowsGated(txn[w])

\* write_audit's "one audit row per attempt, success or failure", never two:
\* not even when the reply to the first is lost.
OneAuditRowPerAttempt ==
  \A r1, r2 \in audit : r1.run = r2.run /\ r1.try = r2.try => r1 = r2

\* A 'loaded' row is written only when RAW shows the payload it names: the file
\* that was staged and merged is the one this attempt landed.
AuditTruthful ==
  [][\A r \in audit' \ audit : r.status = "loaded" => Agrees(raw'[r.part], r.hash)]_vars

\* A run that ends green, by loading or by skipping, leaves RAW showing what it
\* fetched: the skip of already_loaded loses nothing.
GreenMeansCurrent ==
  [][\A w \in Worker :
       pc[w] # "done" /\ pc'[w] = "done" /\ ~task[w].mode.land
         => Agrees(raw'[PartOf(w)], proc[w].got)]_vars

\* No empty success: a run that ends green leaves rows of its partition in RAW, also
\* when the producer answered with an empty window (failure_modes.md, "An HTTP 200
\* with no hours").
GreenHasRows ==
  [][\A w \in Worker :
       pc[w] # "done" /\ pc'[w] = "done" /\ ~task[w].mode.land
         => \E h \in Hour : raw'[PartOf(w)][h] # None]_vars

\* "Running it twice changes nothing the second time" (loader.py): a row made
\* from a payload is never rewritten from the same payload, and no row is lost.
ReloadChangesNothing ==
  [][\A p \in Part, h \in Hour :
       raw[p][h] # None => /\ raw'[p][h] # None
                           /\ raw'[p][h].src = raw[p][h].src => raw'[p][h] = raw[p][h]]_vars

\* An audit row's ROWS_INSERTED and ROWS_UPDATED are the RAW rows its attempt
\* changed; a failed attempt, recorded with none, was rolled back
\* (failure_modes.md, "The load fails half way through a MERGE").
AuditCountsHonest ==
  [][\A w \in Worker, r \in audit' \ audit :
       task[w] # None /\ r.run = task[w].run
         => r.ins + r.upd = proc[w].wrote + Cardinality(Changed(PartOf(w)))]_vars

\* The counts of a 'loaded' row are the RAW rows its attempt changed, whether each
\* statement commits for itself or the load is one transaction, whatever overlaps it
\* and whatever replies were lost before.
LoadedCountsHonest ==
  [][\A w \in Worker, r \in audit' \ audit :
       task[w] # None /\ r.run = task[w].run /\ r.status = "loaded"
         => r.ins + r.upd = proc[w].wrote + Cardinality(Changed(PartOf(w)))]_vars

\* What an attempt may fail for: a crash, an I/O error or a lost reply; the gate, for
\* a payload not fit to load; the sweep of the temporary file by another process.
Hit == faults' # faults
Refused(w) ==
  pc[w] = "gate" /\ (~Trustworthy(proc[w].got) \/ HoursOf[proc[w].got] = {})
Swept(w) == pc[w] = "rename" /\ tmp[PartOf(w)] = None /\ Worker # {w}

\* An attempt leaves the way to green.
Derails(w) ==
  /\ pc[w] \in Running \ {"rollback", "auditfail"}
  /\ pc'[w] \in {"rollback", "auditfail", "failed"}

\* "Idempotent: safe to retry at any point" (weather_batch_daily.py): no attempt
\* fails for what earlier attempts, runs or crashes left in the landing zone, in the
\* stage or in RAW, so no retry is wasted on them.
NoTryIsWasted ==
  [][\A w \in Worker : Derails(w) => Hit \/ Refused(w) \/ Swept(w)]_vars

\* Every started task comes to an end: no load waits for ever on the table lock
\* of another, whatever that one's fate.
EveryTaskEnds == \A w \in Worker : pc[w] = "ready" ~> pc[w] \in Finished

----------------------------------------------------------------------------
\* RAW and the 'loaded' audit rows behave as one atomic load per payload would.
Promise ==
  INSTANCE LoadPromise WITH
    table <- raw,
    reported <- {<<r.part, r.hash>> : r \in {a \in audit : a.status = "loaded"}},
    Good <- {pl \in Payload : HoursOf[pl] # {} /\ Trustworthy(pl)}

\* Ingestion implements the promise of LoadPromise.
KeepsPromise == Promise!Spec

=============================================================================
