------------------------------- MODULE RunLoop -------------------------------
(***************************************************************************)
(* `weather-pipeline ingest` over a window (cli.py, run.py): the window it *)
(* takes from its options, the clamp by the clock, one connection, and the *)
(* loop over days and cities, each partition through the quality gate and  *)
(* then loaded as LoadPromise says.                                        *)
(***************************************************************************)
EXTENDS QualityGate

CONSTANTS
  Catalogue,      \* the cities, in the order of the CSV file
  LastDay,        \* observation days are 1 .. LastDay
  Horizon,        \* bound: the calendar ends here
  Lag,            \* the contract's source_lag_days
  SettingsLag,    \* the settings' source_lag_days
  Options,        \* what the command is called with
  Serves,         \* Serves[p]: the payloads p may be served as, None for no record
  None,           \* no payload
  MaxRuns,        \* bound: commands given
  MaxRestates,    \* bound: corrections by the producer
  MaxFaults       \* bound: steps that raise by themselves

City == Range(Catalogue)
Day == 1 .. LastDay
Part == City \X Day

\* An option is the set of at most one value it was given.  The calendar reaches from
\* the first day any command begins with to the last day that becomes due.
ASSUME RunLoopAssumption ==
  /\ Catalogue \in Seq(City) /\ IsInjective(Catalogue) /\ None \notin Payload
  /\ {LastDay, Horizon, Lag, SettingsLag, MaxRuns, MaxRestates, MaxFaults} \subseteq Nat
  /\ Lag < Horizon /\ SettingsLag < Horizon /\ Horizon <= LastDay + Lag
  /\ \A o \in Options :
       /\ o.day \cup o.start \subseteq Nat \ {0} /\ o.end \subseteq Int
       /\ \A s \in {o.day, o.start, o.end} : \A x, y \in s : x = y
       /\ o.landOnly \in BOOLEAN /\ o.full \in BOOLEAN
  /\ \A p \in Part : Serves[p] # {} /\ Serves[p] \subseteq Payload \cup {None}

VARIABLES
  today,                \* the worker's clock
  served,               \* served[p]: the payload the producer has of p
  landed,               \* landed[p]: the published file, the payload it was made from
                        \* and its rows
  raw, loaded,          \* raw[p]: the payload merged last; (partition, payload)
                        \* pairs recorded as 'loaded'
  pc, option,           \* where the command is, its options
  span,                 \* its first and last day
  todo, at,             \* the partitions it has not come to, the one it is at
  payload,              \* what it fetched of that one
  asked,                \* history: the published partitions the options name
  done,                 \* history: the partitions it has done, with what it fetched
  changed,              \* history: the partitions whose rows in RAW it changed
  summary,              \* RunSummary: attempted, loaded, skipped
  exit,                 \* the exit code of the last command, -1 while it runs
  runs, restates, faults

envVars == <<today, served, restates>>
storeVars == <<landed, raw, loaded>>
cmdVars == <<option, span, runs, asked>>
loopVars == <<todo, at, payload, done, changed, summary>>
vars == <<envVars, storeVars, quarantine, cmdVars, loopVars, pc, exit, faults>>

NoSummary == [attempted |-> 0, loaded |-> 0, skipped |-> 0]

\* date_range: inclusive on both ends.
DateRange(a, b) == a .. b

\* The cities of the command, and its days.
Cities == {c \in City : option.cities = {} \/ c \in option.cities}
Days == DateRange(span[1], span[2])

\* Faulty: the --cities option is not looked at.
LoopEveryCity(days) == City \X days

\* The partitions the loops run over, and the order they come in: the days and, within
\* a day, the cities as the catalogue has them.
Loop(days) == Cities \X days
Before(p, q) ==
  \/ p[2] < q[2]
  \/ p[2] = q[2] /\ \E i, j \in DOMAIN Catalogue :
                       i < j /\ Catalogue[i] = p[1] /\ Catalogue[j] = q[1]

\* A Parquet file: the accepted rows of the payload it was made from.
NoRows == [i \in {} |-> Null]
NoFile == [from |-> None, rows |-> NoRows]
FileOf(v) == [from |-> v, rows |-> Accepted[v]]

AtWork == pc \in {"quarantining", "deciding"}

TypeOK ==
  /\ today \in 0 .. Horizon /\ served \in [Part -> Payload \cup {None}]
  /\ \A p \in Part : landed[p] \in {NoFile} \cup {FileOf(v) : v \in Readable}
  /\ raw \in [Part -> Payload \cup {None}] /\ loaded \subseteq Part \X Payload
  /\ pc \in {"idle", "resolved", "connecting", "looping", "quarantining", "deciding"}
  /\ pc = "looping" \/ AtWork =>
       summary.attempted + Cardinality(todo) = Cardinality(Cities \X Days)
  /\ AtWork => at \in Part /\ payload \in Readable
  /\ pc = "quarantining" => quarantine[at] \subseteq Explained[payload]
  /\ done \subseteq Part \X Payload /\ changed \subseteq {d[1] : d \in done}
  /\ asked \subseteq Part
  /\ exit \in {-1, 0, 1, 2}

\* What the producer may have of partitions that become due.
Publications(due) == {f \in [due -> Payload \cup {None}] : \A p \in due : f[p] \in Serves[p]}
Due(p) == p[2] + Lag <= today

Init ==
  /\ today = Max({Lag, SettingsLag}) + 1
  /\ \E f \in Publications({p \in Part : Due(p)}) :
       served = [p \in Part |-> IF Due(p) THEN f[p] ELSE None]
  /\ landed = [p \in Part |-> NoFile] /\ raw = [p \in Part |-> None] /\ loaded = {}
  /\ quarantine = [p \in Part |-> {}]
  /\ pc = "idle" /\ option = None /\ span = <<0, 0>>
  /\ todo = {} /\ at = None /\ payload = None
  /\ asked = {} /\ done = {} /\ changed = {} /\ summary = NoSummary /\ exit = -1
  /\ runs = 0 /\ restates = 0 /\ faults = 0

Tick ==
  /\ today < Horizon
  /\ today' = today + 1
  /\ \E f \in Publications({p \in Part : p[2] + Lag = today'}) :
       served' = [p \in Part |-> IF p[2] + Lag = today' THEN f[p] ELSE served[p]]
  /\ UNCHANGED <<restates, storeVars, quarantine, cmdVars, loopVars, pc, exit, faults>>

\* The producer corrects what it has, or brings what it should have had.
Restate(p) ==
  /\ restates < MaxRestates /\ Due(p)
  /\ \E v \in Serves[p] \ {None, served[p]} : served' = [served EXCEPT ![p] = v]
  /\ restates' = restates + 1
  /\ UNCHANGED <<today, storeVars, quarantine, cmdVars, loopVars, pc, exit, faults>>

----------------------------------------------------------------------------
Given(s, default) == IF s = {} THEN default ELSE CHOOSE x \in s : TRUE

\* The first and the last day cli.ingest makes of its options.
First(o) == Given(o.day, Given(o.start, today - SettingsLag))
Final(o) == Given(o.day, IF o.start = {} THEN First(o) ELSE Given(o.end, First(o)))

\* What the options ask for, of what the producer has published: the day, the days from
\* start to end, or the newest available day, for the cities named or for all.
Named(o) ==
  LET from == IF o.day # {} THEN o.day ELSE o.start
      to == IF o.day # {} THEN o.day ELSE IF o.end # {} THEN o.end ELSE o.start
  IN {p \in Part : /\ Due(p)
                   /\ o.cities = {} \/ p[1] \in o.cities
                   /\ IF from = {} THEN p[2] = today - SettingsLag
                                   ELSE \E a \in from, b \in to : a <= p[2] /\ p[2] <= b}

\* cli.ingest: options become a window; a new run id.
Ingest(o) ==
  /\ pc = "idle" /\ runs < MaxRuns
  /\ runs' = runs + 1 /\ option' = o /\ asked' = Named(o)
  /\ span' = <<First(o), Final(o)>>
  /\ pc' = "resolved" /\ exit' = -1
  /\ todo' = {} /\ at' = None /\ payload' = None /\ done' = {} /\ changed' = {}
  /\ summary' = NoSummary
  /\ UNCHANGED <<envVars, storeVars, quarantine, faults>>

\* Faulty: the clamp is forgotten.
ClampedNever(d) == d

\* Faulty: a day of lag too many.
ClampedEarly(d) == Min({d, today - Lag - 1})

\* max_available_date, by the clock of the moment.
Clamped(d) == Min({d, today - Lag})

Exits(code) == pc' = "idle" /\ exit' = code

\* run(): a city that is not in the catalogue raises, a window that is over before it
\* begins is nothing to do.
Start ==
  /\ pc = "resolved"
  /\ span' = [span EXCEPT ![2] = Clamped(@)]
  /\ IF ~(option.cities \subseteq City) THEN Exits(1) /\ UNCHANGED todo
     ELSE IF span[1] > Clamped(span[2]) THEN Exits(0) /\ UNCHANGED todo
     ELSE /\ pc' = "connecting" /\ UNCHANGED exit
          /\ todo' = Loop(DateRange(span[1], Clamped(span[2])))
  /\ UNCHANGED <<envVars, storeVars, quarantine, option, runs, asked, at, payload,
                 done, changed, summary, faults>>

Fault == faults < MaxFaults /\ faults' = faults + 1

\* The session is opened before anything is fetched; --land-only needs none.
Connect ==
  /\ pc = "connecting"
  /\ \/ pc' = "looping" /\ UNCHANGED <<exit, faults>>
     \/ ~option.landOnly /\ Fault /\ Exits(1)
  /\ UNCHANGED <<envVars, storeVars, quarantine, cmdVars, loopVars>>

\* `partitions_attempted += 1` and the fetch, for the next partition of the loops.
Fetched(p, v) ==
  /\ pc = "looping" /\ p \in todo
  /\ \A q \in todo \ {p} : Before(p, q)
  /\ v = served[p]
  /\ at' = p /\ todo' = todo \ {p}

\* The guard of already_loaded, which --full-refresh and --land-only do without.
Known(p, v) == ~option.landOnly /\ ~option.full /\ <<p, v>> \in loaded

\* The payload is known: ingest_day returns at once.
Skip(p, v) ==
  /\ Fetched(p, v) /\ Known(p, v)
  /\ done' = done \cup {<<p, v>>}
  /\ summary' = [summary EXCEPT !.attempted = @ + 1, !.skipped = @ + 1]
  /\ UNCHANGED <<envVars, storeVars, quarantine, cmdVars, payload, changed, pc, exit, faults>>

\* It is not: its rows are made and split, and the quarantine file opened if there is
\* a row for it.
Check(p, v) ==
  /\ Fetched(p, v) /\ ~Known(p, v) /\ v \in Readable
  /\ payload' = v
  /\ summary' = [summary EXCEPT !.attempted = @ + 1]
  /\ IF Rejected[v] = {}
     THEN pc' = "deciding" /\ UNCHANGED quarantine
     ELSE pc' = "quarantining" /\ OpenQuarantine(p)
  /\ UNCHANGED <<envVars, storeVars, cmdVars, done, changed, exit, faults>>

\* It is empty or cannot be read: an exception, which leaves the loop.
Unusable(p, v) ==
  /\ Fetched(p, v) /\ ~Known(p, v) /\ v \notin Readable
  /\ summary' = [summary EXCEPT !.attempted = @ + 1]
  /\ Exits(1)
  /\ UNCHANGED <<envVars, storeVars, quarantine, cmdVars, payload, done, changed, faults>>

Quarantine ==
  /\ pc = "quarantining"
  /\ \/ WriteLine(at, payload) /\ UNCHANGED pc
     \/ LinesMissing(at, payload) = {} /\ pc' = "deciding" /\ UNCHANGED quarantine
  /\ UNCHANGED <<envVars, storeVars, cmdVars, loopVars, exit, faults>>

\* DataQualityError, of which cli.ingest makes exit code 2.
Refuse ==
  /\ pc = "deciding" /\ Exceeds(payload)
  /\ Exits(2)
  /\ UNCHANGED <<envVars, storeVars, quarantine, cmdVars, loopVars, faults>>

\* Faulty: what a MERGE finds unchanged counts as loaded.
CountsLoaded(p) == ~option.landOnly

\* `if inserted or updated`: the rows of RAW changed.
Counts(p) == ~option.landOnly /\ raw[p] # payload

\* The accepted rows are landed and, unless --land-only, merged and recorded.
Load ==
  /\ pc = "deciding" /\ ~Exceeds(payload)
  /\ landed' = [landed EXCEPT ![at] = FileOf(payload)]
  /\ IF option.landOnly THEN UNCHANGED <<raw, loaded, changed>>
     ELSE /\ raw' = [raw EXCEPT ![at] = payload]
          /\ loaded' = loaded \cup {<<at, payload>>}
          /\ changed' = IF raw[at] = payload THEN changed ELSE changed \cup {at}
  /\ summary' = IF Counts(at) THEN [summary EXCEPT !.loaded = @ + 1]
                              ELSE [summary EXCEPT !.skipped = @ + 1]
  /\ done' = done \cup {<<at, payload>>}
  /\ pc' = "looping"
  /\ UNCHANGED <<envVars, quarantine, cmdVars, todo, at, payload, exit, faults>>

\* An exception or a kill during a load: it came to nothing, to a removed or a new
\* file, to RAW, or to its record.
LoadDies ==
  /\ pc = "deciding" /\ ~Exceeds(payload)
  /\ \/ /\ option.full /\ landed' = [landed EXCEPT ![at] = NoFile]
        /\ UNCHANGED <<raw, loaded>>
     \/ /\ landed' = [landed EXCEPT ![at] = FileOf(payload)]
        /\ \/ UNCHANGED <<raw, loaded>>
           \/ /\ ~option.landOnly /\ raw' = [raw EXCEPT ![at] = payload]
              /\ loaded' \in {loaded, loaded \cup {<<at, payload>>}}

\* An exception of any other kind, or a kill.
Fail ==
  /\ pc = "looping" \/ AtWork
  /\ Fault /\ Exits(1)
  /\ UNCHANGED storeVars \/ LoadDies
  /\ UNCHANGED <<envVars, quarantine, cmdVars, loopVars>>

Finish ==
  /\ pc = "looping" /\ todo = {}
  /\ Exits(0)
  /\ UNCHANGED <<envVars, storeVars, quarantine, cmdVars, loopVars, faults>>

Over == pc = "idle" /\ UNCHANGED vars

Next ==
  \/ Tick \/ Start \/ Connect \/ Quarantine \/ Refuse \/ Load \/ Fail \/ Finish \/ Over
  \/ \E o \in Options : Ingest(o)
  \/ \E p \in Part :
       \/ Restate(p)
       \/ \E v \in Payload \cup {None} : Skip(p, v) \/ Check(p, v) \/ Unusable(p, v)

LoopSpec == Init /\ [][Next]_vars

----------------------------------------------------------------------------
\* What the contract file says of a value: it is null where that is allowed, or of the
\* type and within the bounds.
Conforms(s, x) ==
  \/ x.kind = "null" /\ ~s.required
  \/ /\ TypeFits(s.type, x.kind)
     /\ \A m \in s.min : x.n >= m
     /\ \A m \in s.max : x.n <= m

ConformingRow(row) == \A f \in Field : Conforms(Spec[f], row.value[f])

\* What is landed, and so can reach RAW, is what the contract allows, and all of it: a
\* row is held back only when one of its values breaks the contract (split_valid).
GateIsExact ==
  \A p \in Part : LET file == landed[p]
                  IN file.from # None =>
                       LET rows == Rows[file.from]
                       IN /\ DOMAIN file.rows = {i \in DOMAIN rows : ConformingRow(rows[i])}
                          /\ \A i \in DOMAIN file.rows : file.rows[i] = rows[i]

\* What payload v says of a field at an hour: the value at the hour's place in the time
\* array, of a series with a value for every hour; null if there is no such series.
Told(v, f, hour) ==
  IF f \notin DOMAIN Series(v) THEN {Null}
  ELSE {Coerced(f, Series(v)[f][i]) :
          i \in {j \in DOMAIN Hours(v) :
                  Hours(v)[j] = hour /\ Len(Series(v)[f]) = Len(Hours(v))}}

\* Every landed value is on its hour: it is what the payload the file was made from says
\* of the row's own hour, through the test for ragged series, the flattening and the
\* split of the rows ("silently shift values onto the wrong hour", models.py).
ValuesOnTheirHour ==
  \A p \in Part : LET file == landed[p]
                  IN file.from # None =>
                       \A i \in DOMAIN file.rows, f \in Field :
                         LET row == file.rows[i]
                         IN row.value[f] \in Told(file.from, f, row.hour)

\* A refused batch is explained: when the command ends with exit code 2, the
\* quarantine file holds each of its rejected rows with the reasons, and nothing of an
\* earlier run or of one that died while writing ("the quarantine file, not a stack
\* trace, is what tells you which rule broke", failure_modes.md).
RefusedIsExplained ==
  exit = 2 => quarantine[at] = Explained[payload]

\* A command that ends green has done all it was asked for: every partition its options
\* name that the producer had published when it was given is recorded with what was
\* fetched, or landed (the window of cli.py, the clamp, date_range, the loop, the
\* exceptions that must not be swallowed).
GreenIsComplete ==
  exit = 0 =>
    \A p \in asked : \E v \in Payload :
      /\ <<p, v>> \in done
      /\ IF option.landOnly THEN landed[p].from = v ELSE <<p, v>> \in loaded

\* "We ask for a day the producer has not published yet: no failure" and nothing of
\* it is done (failure_modes.md), also if midnight passes while the command starts:
\* only partitions that are due end a command.
UnpublishedIsNoFailure ==
  [][(pc \in {"looping", "deciding"} /\ exit' \in {1, 2} /\ faults' = faults)
       => Due(at')]_vars

\* The counts of a green command are true: each partition is attempted once and is
\* loaded or skipped, and loaded are those whose rows in RAW it changed.
SummaryHonest ==
  exit = 0 => /\ summary.attempted = summary.loaded + summary.skipped
              /\ summary.attempted = Cardinality(done)
              /\ summary.loaded = Cardinality(changed)

=============================================================================
