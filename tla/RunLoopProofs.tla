---------------------------- MODULE RunLoopProofs ----------------------------
(***************************************************************************)
(* Proofs about the run loop and its quality gate, for every catalogue,    *)
(* contract, answer of the producer, set of options and clock.             *)
(***************************************************************************)
EXTENDS RunLoop, FiniteSetTheorems, TLAPS

----------------------------------------------------------------------------
(* The operators the model is built from.                                   *)

\* An element of a sequence over T is in T.
LEMMA SeqElement ==
  ASSUME NEW T, NEW s \in Seq(T), NEW i \in DOMAIN s
  PROVE  s[i] \in T
OBVIOUS

\* A row of a readable payload has a number or nothing in every field (pydantic has
\* made numbers of booleans and digits, and a word has raised).
LEMMA RowsAreNumbers ==
  ASSUME NEW v \in Readable, NEW i \in DOMAIN Hours(v), NEW f \in Field
  PROVE  /\ Rows[v][i].value[f].kind \in {"null", "int", "float"}
         /\ Rows[v][i].value[f].n \in Int
<1>1. v \in Payload /\ ~Unreadable(v)
  BY DEF Readable
<1>2. Rows[v][i].value[f] = IF f \in DOMAIN Series(v) THEN Coerced(f, Series(v)[f][i]) ELSE Null
  BY DEF Rows
<1>3. CASE f \notin DOMAIN Series(v)
  BY <1>2, <1>3 DEF Null
<1>4. CASE f \in DOMAIN Series(v)
  <2>1. Series(v)[f] \in Seq([kind : Kind, n : Int])
    BY <1>1, <1>4, GateAssumption DEF Series
  <2>2. Len(Series(v)[f]) = Len(Hours(v))
    BY <1>1, <1>4 DEF Unreadable, Ragged
  <2>3. Hours(v) \in Seq(Nat)
    BY <1>1, GateAssumption DEF Hours
  <2>4. i \in DOMAIN Series(v)[f]
    BY <2>1, <2>2, <2>3
  <2>5. Series(v)[f][i] \in [kind : Kind, n : Int]
    BY <2>1, <2>4, SeqElement
  <2>6. QED
    BY <1>2, <1>4, <2>5 DEF Coerced, Null
<1>5. QED
  BY <1>3, <1>4

\* FieldSpec.violations finds nothing exactly when the value is what the contract
\* allows: null where it may be, or a number within both bounds.
LEMMA ViolationsAreExact ==
  ASSUME NEW f \in Field, NEW x, x.kind \in {"null", "int", "float"}, x.n \in Int
  PROVE  Violations(Spec[f], x) = {} <=> Conforms(Spec[f], x)
<1>1. /\ Spec[f].type \in {"float", "integer", "boolean", "string"}
      /\ Spec[f].min \subseteq Int /\ Spec[f].max \subseteq Int
  BY GateAssumption
<1>2. CASE x.kind = "null"
  BY <1>1, <1>2 DEF Violations, Conforms, TypeFits
<1>3. CASE x.kind # "null" /\ ~TypeFits(Spec[f].type, x.kind)
  BY <1>3 DEF Violations, Conforms
<1>4. CASE x.kind # "null" /\ TypeFits(Spec[f].type, x.kind)
  <2>1. Violations(Spec[f], x) =
          {r \in {"below", "above"} :
             IF r = "below" THEN \E m \in Spec[f].min : x.n < m
                            ELSE \E m \in Spec[f].max : x.n > m}
    BY <1>4 DEF Violations
  <2>2. Violations(Spec[f], x) = {} <=> /\ ~\E m \in Spec[f].min : x.n < m
                                        /\ ~\E m \in Spec[f].max : x.n > m
    BY <2>1
  <2>3. Violations(Spec[f], x) = {} <=> /\ \A m \in Spec[f].min : x.n >= m
                                        /\ \A m \in Spec[f].max : x.n <= m
    BY <1>1, <2>2
  <2>4. QED
    BY <1>4, <2>3 DEF Conforms
<1>5. QED
  BY <1>2, <1>3, <1>4

\* split_valid keeps a row exactly when each of its values conforms.
LEMMA SplitIsExact ==
  ASSUME NEW v \in Readable, NEW i \in DOMAIN Hours(v)
  PROVE  i \notin Rejected[v] <=> ConformingRow(Rows[v][i])
<1> DEFINE row == Rows[v][i]
<1>1. \A f \in Field : Violations(Spec[f], row.value[f]) \subseteq {"null", "type", "below", "above"}
  BY DEF Violations
<1>2. Problems(row) = {} <=> \A f \in Field : Violations(Spec[f], row.value[f]) = {}
  <2>1. ASSUME NEW f \in Field, NEW r \in Violations(Spec[f], row.value[f])
        PROVE  <<f, r>> \in Problems(row)
    BY <1>1 DEF Problems
  <2>2. ASSUME NEW problem \in Problems(row)
        PROVE  problem[1] \in Field /\ problem[2] \in Violations(Spec[problem[1]], row.value[problem[1]])
    BY DEF Problems
  <2>3. QED
    BY <2>1, <2>2
<1>3. \A f \in Field : Violations(Spec[f], row.value[f]) = {} <=> Conforms(Spec[f], row.value[f])
  BY RowsAreNumbers, ViolationsAreExact
<1>4. i \notin Rejected[v] <=> Problems(row) = {}
  BY DEF Rejected, Valid
<1>5. QED
  BY <1>2, <1>3, <1>4 DEF ConformingRow

\* Only a batch with a rejected row is refused, whatever the threshold.
LEMMA RefusalHasCause ==
  ASSUME NEW v \in Readable, Exceeds(v)
  PROVE  Rejected[v] # {}
<1>1. Len(Hours(v)) \in Nat /\ MaxRejectPercent \in Nat
  BY GateAssumption DEF Hours, Readable
<1>2. MaxRejectPercent * Len(Hours(v)) \in Nat
  BY <1>1
<1>3. Rejected[v] = {} => Cardinality(Rejected[v]) * 100 = 0
  BY FS_EmptySet
<1>4. QED
  BY <1>2, <1>3 DEF Exceeds

\* The one value of an option, or its default.
LEMMA GivenIsOneOf ==
  ASSUME NEW s, NEW default
  PROVE  Given(s, default) \in s \cup {default}
BY DEF Given

\* The smaller of two numbers is one of them and above neither; so is the greater.
LEMMA MinOfTwo ==
  ASSUME NEW a \in Int, NEW b \in Int
  PROVE  /\ Min({a, b}) \in {a, b} /\ Min({a, b}) <= a /\ Min({a, b}) <= b
         /\ Max({a, b}) \in {a, b} /\ Max({a, b}) >= a /\ Max({a, b}) >= b
BY DEF Min, Max

\* The clamp gives a day that is due, and none after the one it was given.
LEMMA ClampIsDue ==
  ASSUME NEW d \in Int, today \in Int
  PROVE  Clamped(d) \in Int /\ Clamped(d) <= d /\ Clamped(d) + Lag <= today
<1>1. Lag \in Int /\ today - Lag \in Int
  BY RunLoopAssumption
<1>2. /\ Clamped(d) \in {d, today - Lag}
      /\ Clamped(d) <= d /\ Clamped(d) <= today - Lag
  BY <1>1, MinOfTwo DEF Clamped
<1>3. QED
  BY <1>1, <1>2

\* The catalogue is finite, and so are the partitions of a window of days.
LEMMA WindowIsFinite ==
  ASSUME NEW a \in Int, NEW b \in Int
  PROVE  IsFiniteSet(Cities \X DateRange(a, b))
<1>1. IsFiniteSet(City)
  <2>1. IsFiniteSet(DOMAIN Catalogue)
    <3>1. DOMAIN Catalogue = 1 .. Len(Catalogue) /\ Len(Catalogue) \in Nat
      BY RunLoopAssumption
    <3>2. QED
      BY <3>1, FS_Interval
  <2>2. Catalogue \in Surjection(DOMAIN Catalogue, City)
    BY RunLoopAssumption DEF Surjection, City, Range
  <2>3. QED
    BY <2>1, <2>2, FS_Surjection
<1>2. IsFiniteSet(Cities)
  BY <1>1, FS_Subset DEF Cities
<1>3. IsFiniteSet(DateRange(a, b))
  BY FS_Interval DEF DateRange
<1>4. QED
  BY <1>2, <1>3, FS_Product

----------------------------------------------------------------------------
(* The inductive invariant, in parts.                                       *)

\* The partitions a command is about, and those it has done.
Asked == Cities \X Days
Did == {d[1] : d \in done}
Summaries == [attempted : Nat, loaded : Nat, skipped : Nat]
AtLoop == pc \in {"connecting", "looping"} \/ AtWork

\* The types, and that only a readable payload is landed or merged.
TypeInv ==
  /\ today \in Nat /\ SettingsLag < today /\ today <= Horizon
  /\ served \in [Part -> Payload \cup {None}]
  /\ landed \in [Part -> {NoFile} \cup {FileOf(v) : v \in Readable}]
  /\ raw \in [Part -> Readable \cup {None}] /\ loaded \subseteq Part \X Payload
  /\ DOMAIN quarantine = Part
  /\ pc \in {"idle", "resolved", "connecting", "looping", "quarantining", "deciding"}
  /\ span \in Int \X Int
  /\ summary \in Summaries
  /\ exit \in {-1, 0, 1, 2} /\ faults \in Nat
  /\ pc # "idle" => exit = -1 /\ option \in Options

\* The window begins on a day of the calendar and, once clamped, ends on one that is
\* due.
WindowInv ==
  /\ pc # "idle" => span[1] >= 1
  /\ AtLoop => span[2] + Lag <= today

\* What the options name is in the window, as it is before the clamp and after it, and
\* done when the command ends green.
AskedInv ==
  /\ asked \subseteq Part
  /\ \A p \in asked : Due(p)
  /\ pc = "resolved" /\ option.cities \subseteq City =>
       \A p \in asked : p[1] \in Cities /\ span[1] <= p[2] /\ p[2] <= span[2]
  /\ AtLoop => asked \subseteq Asked
  /\ exit = 0 => asked \subseteq Did

\* Each partition asked for is still to do, at work or done, and one of them only.
ProgressInv ==
  /\ pc \in {"resolved", "connecting"} => done = {} /\ changed = {} /\ summary = NoSummary
  /\ pc \in {"connecting", "looping"} => todo \cup Did = Asked
  /\ AtWork => /\ todo \cup Did \cup {at} = Asked /\ at \notin todo \cup Did
               /\ payload \in Readable
  /\ todo \cap Did = {}
  /\ done \subseteq Part \X Payload /\ changed \subseteq Did
  /\ exit = 0 => Asked \subseteq Did

\* The counts of the summary are those of the history.
CountInv ==
  /\ IsFiniteSet(todo) /\ IsFiniteSet(done) /\ IsFiniteSet(changed)
  /\ summary.loaded = Cardinality(changed)
  /\ summary.loaded + summary.skipped = Cardinality(done)
  /\ pc \in {"looping"} \/ exit = 0 => summary.attempted = Cardinality(done)
  /\ AtWork => summary.attempted = Cardinality(done) + 1
  /\ AtLoop => summary.attempted + Cardinality(todo) = Cardinality(Asked)

\* The quarantine file of the partition at work has lines of its payload only, and all
\* of them when the batch is decided on.
FileInv ==
  /\ pc = "quarantining" => quarantine[at] \subseteq Explained[payload]
  /\ pc = "deciding" /\ Rejected[payload] # {} => quarantine[at] = Explained[payload]
  /\ exit = 2 => quarantine[at] = Explained[payload]

\* What is done is landed or recorded as it was fetched.
RecordInv ==
  \A d \in done : IF option.landOnly THEN landed[d[1]].from = d[2] ELSE d \in loaded

Inv == TypeInv /\ WindowInv /\ AskedInv /\ ProgressInv /\ CountInv /\ FileInv /\ RecordInv

----------------------------------------------------------------------------
(* What the parts say together.                                             *)

\* The partitions a clamped window asks for are in the calendar, and due.
LEMMA AskedIsDue ==
  ASSUME Inv, AtLoop
  PROVE  Asked \subseteq Part /\ \A p \in Asked : Due(p)
<1> SUFFICES ASSUME NEW p \in Asked
             PROVE  p \in Part /\ Due(p)
  OBVIOUS
<1>1. span[1] \in Int /\ span[2] \in Int /\ today \in Int /\ today <= Horizon
  BY RunLoopAssumption DEF Inv, TypeInv
<1>2. span[1] >= 1 /\ span[2] + Lag <= today
  BY DEF Inv, WindowInv, AtLoop, AtWork
<1>3. Lag \in Int /\ LastDay \in Int /\ Horizon \in Int /\ Horizon <= LastDay + Lag
  BY RunLoopAssumption
<1>4. p = <<p[1], p[2]>> /\ p[1] \in City /\ p[2] \in span[1] .. span[2]
  BY DEF Asked, Cities, Days, DateRange
<1>5. p[2] \in 1 .. LastDay /\ p[2] + Lag <= today
  BY <1>1, <1>2, <1>3, <1>4
<1>6. QED
  BY <1>4, <1>5 DEF Part, Day, Due

\* The partition at work is one of them, and what was fetched of it can be read.
LEMMA WorkIsAsked ==
  ASSUME Inv
  PROVE  /\ pc = "looping" => todo \subseteq Asked /\ todo \subseteq Part
         /\ AtWork => at \in Asked /\ at \in Part /\ payload \in Readable /\ payload \in Payload
BY AskedIsDue DEF Inv, ProgressInv, AtLoop, AtWork, Readable

\* One more in a counter of the summary leaves the other two.
LEMMA OneMore ==
  ASSUME NEW s \in Summaries
  PROVE  /\ \A t : t = [s EXCEPT !.attempted = @ + 1] =>
              /\ t \in Summaries
              /\ t.attempted = s.attempted + 1 /\ t.loaded = s.loaded /\ t.skipped = s.skipped
         /\ \A t : t = [s EXCEPT !.loaded = @ + 1] =>
              /\ t \in Summaries
              /\ t.attempted = s.attempted /\ t.loaded = s.loaded + 1 /\ t.skipped = s.skipped
         /\ \A t : t = [s EXCEPT !.skipped = @ + 1] =>
              /\ t \in Summaries
              /\ t.attempted = s.attempted /\ t.loaded = s.loaded /\ t.skipped = s.skipped + 1
BY DEF Summaries

\* A partition that is skipped without being fetched counts as attempted and as skipped.
LEMMA OneSkipped ==
  ASSUME NEW s \in Summaries, NEW t, t = [s EXCEPT !.attempted = @ + 1, !.skipped = @ + 1]
  PROVE  /\ t \in Summaries
         /\ t.attempted = s.attempted + 1 /\ t.loaded = s.loaded /\ t.skipped = s.skipped + 1
<1>1. t = [[s EXCEPT !.attempted = s.attempted + 1] EXCEPT !.skipped = s.skipped + 1]
  OBVIOUS
<1>2. PICK once : once = [s EXCEPT !.attempted = s.attempted + 1]
  OBVIOUS
<1>3. once \in Summaries /\ once.attempted = s.attempted + 1 /\ once.loaded = s.loaded
        /\ once.skipped = s.skipped
  BY <1>2, OneMore
<1>4. t = [once EXCEPT !.skipped = once.skipped + 1]
  BY <1>1, <1>2, <1>3
<1>5. once \in Summaries
  BY <1>3
<1>6. /\ t \in Summaries
      /\ t.attempted = once.attempted /\ t.loaded = once.loaded /\ t.skipped = once.skipped + 1
  BY <1>4, <1>5, OneMore
<1>7. QED
  BY <1>3, <1>6

\* One more partition is done.
LEMMA DidGrows ==
  ASSUME NEW p, NEW v, done' = done \cup {<<p, v>>}
  PROVE  Did' = Did \cup {p}
<1>1. Did' \subseteq Did \cup {p}
  BY DEF Did
<1>2. p \in Did'
  BY <<p, v>>[1] = p DEF Did
<1>3. Did \subseteq Did'
  BY DEF Did
<1>4. QED
  BY <1>1, <1>2, <1>3

\* A file made of a readable payload is of that payload.
LEMMA FileIsOf ==
  ASSUME NEW v \in Readable
  PROVE  FileOf(v).from = v /\ v # None /\ v \in Payload
BY RunLoopAssumption DEF FileOf, Readable

----------------------------------------------------------------------------
(* Initially.                                                               *)

\* A command starts before its first day with nothing recorded.
LEMMA InitInv == Init => Inv
<1> SUFFICES ASSUME Init
             PROVE  Inv
  OBVIOUS
<1>1. TypeInv
  <2>1. Lag \in Nat /\ SettingsLag \in Nat /\ Horizon \in Nat /\ Lag < Horizon /\ SettingsLag < Horizon
    BY RunLoopAssumption
  <2>2. today \in Nat /\ SettingsLag < today /\ today <= Horizon
    <3>1. /\ Max({Lag, SettingsLag}) \in {Lag, SettingsLag}
          /\ Max({Lag, SettingsLag}) >= SettingsLag
      BY <2>1, MinOfTwo
    <3>2. QED
      BY <2>1, <3>1 DEF Init
  <2>3. served \in [Part -> Payload \cup {None}]
    BY DEF Init, Publications
  <2>4. QED
    BY <2>2, <2>3 DEF Init, TypeInv, NoSummary, Summaries
<1>2. WindowInv
  BY DEF Init, WindowInv, AtLoop, AtWork
<1>3. ProgressInv
  BY DEF Init, ProgressInv, AtWork, Did
<1>4. CountInv
  BY FS_EmptySet DEF Init, CountInv, AtLoop, AtWork, NoSummary
<1>5. FileInv
  BY DEF Init, FileInv
<1>6. RecordInv
  BY DEF Init, RecordInv
<1>7. AskedInv
  BY DEF Init, AskedInv, AtLoop, AtWork
<1>8. QED
  BY <1>1, <1>2, <1>3, <1>4, <1>5, <1>6, <1>7 DEF Inv

----------------------------------------------------------------------------
(* The types.                                                               *)

\* No step of the command takes a variable out of its type,
LEMMA TypeStep == Inv /\ [Next]_vars => TypeInv'
<1> SUFFICES ASSUME Inv, [Next]_vars
             PROVE  TypeInv'
  OBVIOUS
<1> USE DEF envVars, storeVars, cmdVars, loopVars
<1>0. TypeInv
  BY DEF Inv
<1>1. CASE Tick
  <2>1. today' \in Nat /\ SettingsLag < today' /\ today' <= Horizon
    <3>1. today \in Nat /\ SettingsLag < today
      BY <1>0 DEF TypeInv
    <3>2. today < Horizon /\ today' = today + 1
      BY <1>1 DEF Tick
    <3>3. Horizon \in Nat /\ SettingsLag \in Nat
      BY RunLoopAssumption
    <3>4. QED
      BY <3>1, <3>2, <3>3
  <2>2. served' \in [Part -> Payload \cup {None}]
    BY <1>0, <1>1 DEF Tick, TypeInv, Publications
  <2>3. QED
    BY <1>0, <1>1, <2>1, <2>2 DEF Tick, TypeInv
<1>2. ASSUME NEW p \in Part, Restate(p)
      PROVE  TypeInv'
  <2>1. served' \in [Part -> Payload \cup {None}]
    BY <1>0, <1>2, RunLoopAssumption DEF Restate, TypeInv
  <2>2. QED
    BY <1>0, <1>2, <2>1 DEF Restate, TypeInv
<1>3. ASSUME NEW o \in Options, Ingest(o)
      PROVE  TypeInv'
  <2>1. today \in Int /\ SettingsLag \in Int
    BY <1>0, RunLoopAssumption DEF TypeInv
  <2>2. o.day \subseteq Int /\ o.start \subseteq Int /\ o.end \subseteq Int
    BY RunLoopAssumption
  <2>3. First(o) \in Int /\ Final(o) \in Int
    BY <2>1, <2>2, GivenIsOneOf DEF First, Final
  <2>4. QED
    BY <1>0, <1>3, <2>3 DEF Ingest, TypeInv, NoSummary, Summaries
<1>4. CASE Start
  BY <1>0, <1>4, ClampIsDue DEF Start, TypeInv, Exits
<1>5. CASE Connect
  BY <1>0, <1>5 DEF Connect, TypeInv, Exits, Fault
<1>6. ASSUME NEW p \in Part, NEW v \in Payload \cup {None}, Skip(p, v) \/ Check(p, v) \/ Unusable(p, v)
      PROVE  TypeInv'
  <2>1. CASE Skip(p, v)
    <3>1. summary \in Summaries
      BY <1>0 DEF TypeInv
    <3>2. summary' \in Summaries
      BY <2>1, <3>1, OneSkipped DEF Skip
    <3>3. QED
      BY <1>0, <2>1, <3>2 DEF Skip, TypeInv
  <2>2. CASE Check(p, v)
    <3>1. DOMAIN quarantine' = Part
      BY <1>0, <2>2 DEF Check, TypeInv, OpenQuarantine
    <3>2. summary' \in Summaries
      BY <1>0, <2>2, OneMore DEF Check, TypeInv
    <3>3. pc = "looping" /\ pc' \in {"quarantining", "deciding"}
      BY <2>2 DEF Check, Fetched
    <3>4. QED
      BY <1>0, <2>2, <3>1, <3>2, <3>3 DEF Check, TypeInv
  <2>3. CASE Unusable(p, v)
    BY <1>0, <2>3 DEF Unusable, Fetched, TypeInv, Exits, Summaries
  <2>4. QED
    BY <1>6, <2>1, <2>2, <2>3
<1>7. CASE Quarantine
  BY <1>0, <1>7 DEF Quarantine, WriteLine, TypeInv
<1>8. CASE Refuse
  BY <1>0, <1>8 DEF Refuse, TypeInv, Exits
<1>9. CASE Load
  BY <1>0, <1>9, WorkIsAsked DEF Load, TypeInv, AtWork, Summaries
<1>10. CASE Fail
  BY <1>0, <1>10, WorkIsAsked DEF Fail, LoadDies, TypeInv, AtWork, Fault, Exits
<1>11. CASE Finish
  BY <1>0, <1>11 DEF Finish, TypeInv, Exits
<1>12. CASE UNCHANGED vars
  BY <1>0, <1>12 DEF vars, TypeInv
<1>13. QED
  BY <1>1, <1>2, <1>3, <1>4, <1>5, <1>6, <1>7, <1>8, <1>9, <1>10, <1>11, <1>12 DEF Next, Over

----------------------------------------------------------------------------
(* The window.                                                              *)

\* nor a day out of the window;
LEMMA WindowStep == Inv /\ [Next]_vars => WindowInv'
<1> SUFFICES ASSUME Inv, [Next]_vars
             PROVE  WindowInv'
  OBVIOUS
<1> USE DEF envVars, storeVars, cmdVars, loopVars
<1>0. TypeInv /\ WindowInv
  BY DEF Inv
<1>1. CASE Tick
  BY <1>0, <1>1, RunLoopAssumption DEF Tick, TypeInv, WindowInv, AtLoop, AtWork
<1>2. ASSUME NEW p \in Part, Restate(p)
      PROVE  WindowInv'
  BY <1>0, <1>2 DEF Restate, WindowInv, AtLoop, AtWork
<1>3. ASSUME NEW o \in Options, Ingest(o)
      PROVE  WindowInv'
  <2>1. today \in Int /\ SettingsLag \in Int /\ today - SettingsLag >= 1
    BY <1>0, RunLoopAssumption DEF TypeInv
  <2>2. o.day \subseteq Nat \ {0} /\ o.start \subseteq Nat \ {0}
    BY RunLoopAssumption
  <2>3. First(o) >= 1
    BY <2>1, <2>2, GivenIsOneOf DEF First
  <2>4. QED
    BY <1>3, <2>3 DEF Ingest, WindowInv, AtLoop, AtWork
<1>4. CASE Start
  <2>1. Clamped(span[2]) + Lag <= today
    BY <1>0, ClampIsDue DEF TypeInv
  <2>2. QED
    BY <1>0, <1>4, <2>1 DEF Start, TypeInv, WindowInv, AtLoop, AtWork, Exits
<1>5. CASE Connect
  BY <1>0, <1>5 DEF Connect, WindowInv, AtLoop, AtWork, Exits
<1>6. ASSUME NEW p \in Part, NEW v \in Payload \cup {None}, Skip(p, v) \/ Check(p, v) \/ Unusable(p, v)
      PROVE  WindowInv'
  BY <1>0, <1>6 DEF Skip, Check, Unusable, Fetched, WindowInv, AtLoop, AtWork, Exits
<1>7. CASE Quarantine
  BY <1>0, <1>7 DEF Quarantine, WindowInv, AtLoop, AtWork
<1>8. CASE Refuse \/ Load \/ Fail \/ Finish
  BY <1>0, <1>8 DEF Refuse, Load, Fail, Finish, WindowInv, AtLoop, AtWork, Exits
<1>9. CASE UNCHANGED vars
  BY <1>0, <1>9 DEF vars, WindowInv, AtLoop, AtWork
<1>10. QED
  BY <1>1, <1>2, <1>3, <1>4, <1>5, <1>6, <1>7, <1>8, <1>9 DEF Next, Over

----------------------------------------------------------------------------
(* The progress of the loops.                                               *)

\* the partitions that are done and to do stay those of the window;
LEMMA ProgressStep == Inv /\ [Next]_vars => ProgressInv'
<1> SUFFICES ASSUME Inv, [Next]_vars
             PROVE  ProgressInv'
  OBVIOUS
<1> USE DEF envVars, storeVars, cmdVars, loopVars, Asked, Did, Cities, Days, AtWork
<1>0. TypeInv /\ ProgressInv
  BY DEF Inv
<1>1. ASSUME Tick \/ (\E p \in Part : Restate(p)) \/ UNCHANGED vars
      PROVE  ProgressInv'
  BY <1>0, <1>1 DEF Tick, Restate, vars, ProgressInv
<1>2. ASSUME NEW o \in Options, Ingest(o)
      PROVE  ProgressInv'
  BY <1>2 DEF Ingest, ProgressInv
<1>3. CASE Start
  <2>1. span' = <<span[1], Clamped(span[2])>> /\ Clamped(span[2]) \in Int
    BY <1>0, <1>3, ClampIsDue DEF Start, TypeInv
  <2>2. CASE pc' = "connecting"
    BY <1>0, <1>3, <2>1, <2>2 DEF Start, ProgressInv, TypeInv, Loop, Exits
  <2>3. CASE exit' = 0 /\ span[1] > Clamped(span[2])
    <3>1. DateRange(span'[1], span'[2]) = {}
      BY <1>0, <2>1, <2>3 DEF DateRange, TypeInv
    <3>2. QED
      BY <1>0, <1>3, <2>3, <3>1 DEF Start, ProgressInv, TypeInv, Exits
  <2>4. CASE exit' = 1
    BY <1>0, <1>3, <2>4 DEF Start, ProgressInv, TypeInv, Exits
  <2>5. QED
    BY <1>3, <2>2, <2>3, <2>4 DEF Start, Exits
<1>4. CASE Connect
  BY <1>0, <1>4 DEF Connect, ProgressInv, TypeInv, Exits
<1>5. ASSUME NEW p \in Part, NEW v \in Payload \cup {None}, Skip(p, v)
      PROVE  ProgressInv'
  <2>1. v \in Payload
    BY <1>0, <1>5 DEF Skip, Known, TypeInv
  <2>2. Did' = Did \cup {p}
    BY <1>5, DidGrows DEF Skip
  <2>3. QED
    BY <1>0, <1>5, <2>1, <2>2 DEF Skip, Fetched, ProgressInv, TypeInv
<1>6. ASSUME NEW p \in Part, NEW v \in Payload \cup {None}, Check(p, v)
      PROVE  ProgressInv'
  BY <1>0, <1>6 DEF Check, Fetched, ProgressInv, TypeInv
<1>7. ASSUME NEW p \in Part, NEW v \in Payload \cup {None}, Unusable(p, v)
      PROVE  ProgressInv'
  BY <1>0, <1>7 DEF Unusable, Fetched, ProgressInv, TypeInv, Exits
<1>8. CASE Quarantine
  BY <1>0, <1>8 DEF Quarantine, ProgressInv, TypeInv
<1>9. CASE Load
  <2>1. at \in Part /\ payload \in Payload
    BY <1>9, WorkIsAsked DEF Load
  <2>2. Did' = Did \cup {at}
    BY <1>9, DidGrows DEF Load
  <2>3. QED
    BY <1>0, <1>9, <2>1, <2>2 DEF Load, ProgressInv, TypeInv
<1>10. CASE Refuse \/ Fail
  BY <1>0, <1>10 DEF Refuse, Fail, ProgressInv, TypeInv, Exits
<1>11. CASE Finish
  BY <1>0, <1>11 DEF Finish, ProgressInv, TypeInv, Exits
<1>12. QED
  BY <1>1, <1>2, <1>3, <1>4, <1>5, <1>6, <1>7, <1>8, <1>9, <1>10, <1>11 DEF Next, Over

----------------------------------------------------------------------------
(* What was asked for.                                                      *)

\* The window cli.ingest makes of its options has what they name.
LEMMA NamedInWindow ==
  ASSUME NEW o \in Options, today \in Int, NEW p \in Named(o)
  PROVE  First(o) <= p[2] /\ p[2] <= Final(o)
<1>1. /\ o.day \subseteq Int /\ o.start \subseteq Int /\ o.end \subseteq Int
      /\ \A x, y \in o.day : x = y
      /\ \A x, y \in o.start : x = y
      /\ \A x, y \in o.end : x = y
  <2>1. /\ o.day \cup o.start \subseteq Nat \ {0} /\ o.end \subseteq Int
        /\ \A s \in {o.day, o.start, o.end} : \A x, y \in s : x = y
    BY RunLoopAssumption
  <2>2. QED
    BY <2>1
<1>2. SettingsLag \in Int /\ Lag \in Int
  BY RunLoopAssumption
<1>3. p[2] \in Int
  BY DEF Named, Part, Day
<1>4. \A s, default : s # {} => Given(s, default) \in s
  BY DEF Given
<1>5. \A default : Given({}, default) = default
  BY DEF Given
<1>6. CASE o.day # {}
  <2>1. First(o) \in o.day /\ Final(o) \in o.day
    BY <1>4, <1>6 DEF First, Final
  <2>2. PICK a \in o.day, b \in o.day : a <= p[2] /\ p[2] <= b
    BY <1>6 DEF Named
  <2>3. QED
    BY <1>1, <2>1, <2>2
<1>7. CASE o.day = {} /\ o.start # {}
  <2>1. First(o) \in o.start
    BY <1>4, <1>5, <1>7 DEF First
  <2>2. Final(o) = Given(o.end, First(o))
    BY <1>5, <1>7 DEF Final
  <2>3. PICK a \in o.start, b \in (IF o.end # {} THEN o.end ELSE o.start) : a <= p[2] /\ p[2] <= b
    BY <1>7 DEF Named
  <2>4. CASE o.end # {}
    BY <1>1, <1>4, <2>1, <2>2, <2>3, <2>4
  <2>5. CASE o.end = {}
    BY <1>1, <1>5, <2>1, <2>2, <2>3, <2>5
  <2>6. QED
    BY <2>4, <2>5
<1>8. CASE o.day = {} /\ o.start = {}
  <2>1. First(o) = today - SettingsLag /\ Final(o) = today - SettingsLag
    BY <1>5, <1>8 DEF First, Final
  <2>2. p[2] = today - SettingsLag
    BY <1>8 DEF Named
  <2>3. QED
    BY <1>2, <1>3, <2>1, <2>2
<1>9. QED
  BY <1>6, <1>7, <1>8

\* what the options name stays in the window until it is done;
LEMMA AskedStep == Inv /\ [Next]_vars => AskedInv'
<1> SUFFICES ASSUME Inv, [Next]_vars
             PROVE  AskedInv'
  OBVIOUS
<1> USE DEF envVars, storeVars, cmdVars, loopVars
<1>0. TypeInv /\ AskedInv /\ ProgressInv /\ today \in Int /\ Lag \in Int
  BY RunLoopAssumption DEF Inv, TypeInv
<1>1. CASE Tick
  <2>1. \A p \in asked : p[2] \in Int
    BY <1>0 DEF AskedInv, Part, Day
  <2>2. \A p \in asked' : Due(p)'
    BY <1>0, <1>1, <2>1 DEF Tick, AskedInv, Due
  <2>3. QED
    BY <1>0, <1>1, <2>2 DEF Tick, AskedInv, AtLoop, AtWork, Asked, Cities, Days, Did
<1>2. ASSUME (\E p \in Part : Restate(p)) \/ UNCHANGED vars
      PROVE  AskedInv'
  BY <1>0, <1>2 DEF Restate, vars, AskedInv, Due, AtLoop, AtWork, Asked, Cities, Days, Did
<1>3. ASSUME NEW o \in Options, Ingest(o)
      PROVE  AskedInv'
  <2>1. /\ asked' = Named(o) /\ option' = o /\ span' = <<First(o), Final(o)>>
        /\ pc' = "resolved" /\ exit' = -1 /\ today' = today
    BY <1>3 DEF Ingest
  <2>2. asked' \subseteq Part /\ \A p \in asked' : Due(p)'
    BY <2>1 DEF Named, Due
  <2>3. \A p \in asked' : span'[1] <= p[2] /\ p[2] <= span'[2]
    BY <1>0, <2>1, NamedInWindow
  <2>4. o.cities \subseteq City => \A p \in asked' : p[1] \in Cities'
    BY <2>1 DEF Named, Cities, Part
  <2>5. QED
    BY <2>1, <2>2, <2>3, <2>4 DEF AskedInv, AtLoop, AtWork
<1>4. CASE Start
  <2>1. pc = "resolved" /\ UNCHANGED <<asked, option, today, done>> /\ exit = -1
    BY <1>0, <1>4 DEF Start, TypeInv
  <2>2. span' = <<span[1], Clamped(span[2])>>
    BY <1>0, <1>4 DEF Start, TypeInv
  <2>3. asked' \subseteq Part /\ \A p \in asked' : Due(p)'
    BY <1>0, <2>1 DEF AskedInv, Due
  <2>4. ASSUME option.cities \subseteq City, NEW p \in asked
        PROVE  p[1] \in Cities /\ span[1] <= p[2] /\ p[2] <= Clamped(span[2])
    <3>1. p[1] \in Cities /\ span[1] <= p[2] /\ p[2] <= span[2] /\ p[2] + Lag <= today
      BY <1>0, <2>1, <2>4 DEF AskedInv, Due
    <3>2. p[2] \in Int /\ span[2] \in Int /\ today - Lag \in Int
      BY <1>0 DEF AskedInv, Part, Day, TypeInv
    <3>3. Clamped(span[2]) \in {span[2], today - Lag}
      BY <3>2, MinOfTwo DEF Clamped
    <3>4. QED
      BY <1>0, <3>1, <3>2, <3>3
  <2>5. CASE pc' = "connecting"
    <3>1. option.cities \subseteq City
      BY <1>4, <2>5 DEF Start, Exits
    <3>2. ASSUME NEW p \in asked
          PROVE  p \in Asked'
      <4>1. p \in City \X Day /\ p[2] \in Int
        BY <1>0 DEF AskedInv, Part, Day
      <4>2. p[1] \in Cities' /\ p[2] \in span'[1] .. span'[2]
        <5>1. Cities' = Cities
          BY <2>1 DEF Cities
        <5>2. span'[1] = span[1] /\ span'[2] = Clamped(span[2]) /\ span[1] \in Int
              /\ Clamped(span[2]) \in Int
          BY <1>0, <2>2, ClampIsDue DEF TypeInv
        <5>3. QED
          BY <2>4, <3>1, <4>1, <5>1, <5>2
      <4>3. QED
        BY <4>1, <4>2 DEF Asked, Days, DateRange
    <3>3. exit' = -1
      BY <1>4, <2>1, <2>5 DEF Start, Exits
    <3>4. QED
      BY <2>1, <2>3, <2>5, <3>2, <3>3 DEF AskedInv
  <2>6. CASE pc' = "idle" /\ exit' = 1
    BY <2>3, <2>6 DEF AskedInv, AtLoop, AtWork
  <2>7. CASE pc' = "idle" /\ exit' = 0 /\ option.cities \subseteq City /\ span[1] > Clamped(span[2])
    <3>1. span[1] \in Int /\ Clamped(span[2]) \in Int
      BY <1>0, ClampIsDue DEF TypeInv
    <3>2. \A p \in asked : p[2] \in Int
      BY <1>0 DEF AskedInv, Part, Day
    <3>3. asked = {}
      BY <2>4, <2>7, <3>1, <3>2
    <3>4. QED
      BY <2>1, <2>7, <3>3 DEF AskedInv, AtLoop, AtWork
  <2>8. QED
    BY <1>4, <2>5, <2>6, <2>7 DEF Start, Exits
<1>5. CASE Connect
  BY <1>0, <1>5 DEF Connect, AskedInv, Due, TypeInv, AtLoop, AtWork, Asked, Cities, Days, Did, Exits
<1>6. ASSUME NEW p \in Part, NEW v \in Payload \cup {None}, Skip(p, v) \/ Check(p, v) \/ Unusable(p, v)
      PROVE  AskedInv'
  <2>1. pc = "looping" /\ exit = -1 /\ UNCHANGED <<asked, option, span, today>>
    BY <1>0, <1>6 DEF Skip, Check, Unusable, Fetched, TypeInv
  <2>2. Asked' = Asked /\ pc' # "resolved" /\ exit' # 0
    BY <1>6, <2>1 DEF Skip, Check, Unusable, Asked, Cities, Days, Exits
  <2>3. QED
    BY <1>0, <2>1, <2>2 DEF AskedInv, Due, AtLoop, AtWork
<1>7. ASSUME Quarantine \/ Refuse \/ Load \/ Fail
      PROVE  AskedInv'
  <2>1. (pc = "looping" \/ AtWork) /\ exit = -1 /\ UNCHANGED <<asked, option, span, today>>
    BY <1>0, <1>7 DEF Quarantine, Refuse, Load, Fail, AtWork, TypeInv
  <2>2. Asked' = Asked /\ pc' # "resolved" /\ exit' # 0
    BY <1>7, <2>1 DEF Quarantine, Refuse, Load, Fail, Asked, Cities, Days, Exits, AtWork
  <2>3. QED
    BY <1>0, <2>1, <2>2 DEF AskedInv, Due, AtLoop, AtWork
<1>8. CASE Finish
  <2>1. /\ pc = "looping" /\ todo = {} /\ pc' = "idle"
        /\ UNCHANGED <<asked, option, span, today, done>>
    BY <1>8 DEF Finish, Exits
  <2>2. Asked \subseteq Did /\ asked \subseteq Asked
    BY <1>0, <2>1 DEF ProgressInv, AskedInv, AtLoop
  <2>3. QED
    BY <1>0, <2>1, <2>2 DEF AskedInv, Due, AtLoop, AtWork, Did
<1>9. QED
  BY <1>1, <1>2, <1>3, <1>4, <1>5, <1>6, <1>7, <1>8 DEF Next, Over

----------------------------------------------------------------------------
(* The files and the record.                                                *)

\* a quarantine file stays what the gate said of the payload;
LEMMA FileStep == Inv /\ [Next]_vars => FileInv'
<1> SUFFICES ASSUME Inv, [Next]_vars
             PROVE  FileInv'
  OBVIOUS
<1> USE DEF envVars, storeVars, cmdVars, loopVars
<1>0. TypeInv /\ FileInv
  BY DEF Inv
<1>1. ASSUME Tick \/ (\E p \in Part : Restate(p)) \/ UNCHANGED vars
      PROVE  FileInv'
  BY <1>0, <1>1 DEF Tick, Restate, vars, FileInv
<1>2. ASSUME (\E o \in Options : Ingest(o)) \/ Start \/ Connect \/ Load \/ Fail \/ Finish
      PROVE  FileInv'
  BY <1>0, <1>2 DEF Ingest, Start, Connect, Load, Fail, Finish, FileInv, TypeInv, Exits
<1>3. ASSUME NEW p \in Part, NEW v \in Payload \cup {None}, Skip(p, v) \/ Unusable(p, v)
      PROVE  FileInv'
  BY <1>0, <1>3 DEF Skip, Unusable, Fetched, FileInv, TypeInv, Exits
<1>4. ASSUME NEW p \in Part, NEW v \in Payload \cup {None}, Check(p, v)
      PROVE  FileInv'
  BY <1>0, <1>4 DEF Check, Fetched, OpenQuarantine, FileInv, TypeInv
<1>5. CASE Quarantine
  <2>1. at \in Part
    BY <1>5, WorkIsAsked DEF Quarantine, AtWork
  <2>2. CASE WriteLine(at, payload) /\ UNCHANGED pc
    BY <1>0, <1>5, <2>1, <2>2 DEF Quarantine, WriteLine, LinesMissing, FileInv, TypeInv
  <2>3. CASE LinesMissing(at, payload) = {} /\ pc' = "deciding" /\ UNCHANGED quarantine
    BY <1>0, <1>5, <2>3 DEF Quarantine, LinesMissing, FileInv, TypeInv
  <2>4. QED
    BY <1>5, <2>2, <2>3 DEF Quarantine
<1>6. CASE Refuse
  <2>1. Rejected[payload] # {}
    BY <1>6, WorkIsAsked, RefusalHasCause DEF Refuse, AtWork
  <2>2. QED
    BY <1>0, <1>6, <2>1 DEF Refuse, FileInv, Exits
<1>7. QED
  BY <1>1, <1>2, <1>3, <1>4, <1>5, <1>6 DEF Next, Over

\* what is recorded of a partition stays what happened to it;
LEMMA RecordStep == Inv /\ [Next]_vars => RecordInv'
<1> SUFFICES ASSUME Inv, [Next]_vars
             PROVE  RecordInv'
  OBVIOUS
<1> USE DEF envVars, storeVars, cmdVars, loopVars
<1>0. TypeInv /\ RecordInv
  BY DEF Inv
<1>1. CASE UNCHANGED <<landed, loaded, option, done>>
  BY <1>0, <1>1 DEF RecordInv
<1>2. ASSUME NEW o \in Options, Ingest(o)
      PROVE  RecordInv'
  BY <1>2 DEF Ingest, RecordInv
<1>3. ASSUME NEW p \in Part, NEW v \in Payload \cup {None}, Skip(p, v)
      PROVE  RecordInv'
  BY <1>0, <1>3 DEF Skip, Known, RecordInv
<1>4. ASSUME Load \/ (Fail /\ LoadDies)
      PROVE  RecordInv'
  <2>1. at \in Part /\ payload \in Readable
    BY <1>4, WorkIsAsked DEF Load, LoadDies, AtWork
  <2>2. \A d \in done : d[1] # at /\ d[1] \in Part
    BY <1>4 DEF Inv, ProgressInv, Did, Load, LoadDies, AtWork
  <2>3. \A d \in done : landed'[d[1]] = landed[d[1]]
    BY <1>0, <1>4, <2>1, <2>2 DEF Load, LoadDies, TypeInv
  <2>4. loaded \subseteq loaded' /\ UNCHANGED option
    BY <1>4 DEF Load, Fail, LoadDies
  <2>5. CASE Load
    <3>1. landed'[at].from = payload
      BY <1>0, <2>1, <2>5, FileIsOf DEF Load, TypeInv
    <3>2. ~option.landOnly => <<at, payload>> \in loaded'
      BY <2>5 DEF Load
    <3>3. done' = done \cup {<<at, payload>>}
      BY <2>5 DEF Load
    <3>4. QED
      BY <1>0, <2>3, <2>4, <3>1, <3>2, <3>3 DEF RecordInv
  <2>6. CASE Fail
    <3>1. UNCHANGED done
      BY <2>6 DEF Fail
    <3>2. QED
      BY <1>0, <2>3, <2>4, <3>1 DEF RecordInv
  <2>7. QED
    BY <1>4, <2>5, <2>6
<1>5. QED
  BY <1>1, <1>2, <1>3, <1>4
  DEF Next, Over, vars, Tick, Restate, Start, Connect, Check, Unusable, Quarantine, Refuse, Fail, Finish

----------------------------------------------------------------------------
(* The counts.                                                              *)

\* and the counters stay the numbers of those records.
LEMMA CountStep == Inv /\ [Next]_vars => CountInv'
<1> SUFFICES ASSUME Inv, [Next]_vars
             PROVE  CountInv'
  OBVIOUS
<1> USE DEF envVars, storeVars, cmdVars, loopVars, AtLoop, AtWork
<1>0. TypeInv /\ ProgressInv /\ CountInv /\ summary \in Summaries
  BY DEF Inv, TypeInv
<1>1. ASSUME Tick \/ (\E p \in Part : Restate(p)) \/ Quarantine \/ UNCHANGED vars
      PROVE  CountInv'
  BY <1>0, <1>1
  DEF Tick, Restate, Quarantine, vars, CountInv, TypeInv, Asked, Cities, Days
<1>2. ASSUME NEW o \in Options, Ingest(o)
      PROVE  CountInv'
  BY <1>2, FS_EmptySet DEF Ingest, CountInv, NoSummary
<1>3. CASE Start
  <2>1. span' = <<span[1], Clamped(span[2])>> /\ Clamped(span[2]) \in Int /\ span[1] \in Int
    BY <1>0, <1>3, ClampIsDue DEF Start, TypeInv
  <2>2. done = {} /\ changed = {} /\ summary = NoSummary
    BY <1>0, <1>3 DEF Start, ProgressInv
  <2>3. CASE pc' = "connecting"
    <3>1. todo' = Asked'
      BY <1>3, <2>1, <2>3 DEF Start, Loop, Asked, Cities, Days, Exits
    <3>2. IsFiniteSet(todo')
      BY <1>3, <2>1, <2>3, WindowIsFinite DEF Start, Loop, Exits
    <3>3. UNCHANGED <<done, changed, summary>> /\ exit' = exit /\ exit = -1
      BY <1>0, <1>3, <2>3 DEF Start, TypeInv, Exits
    <3>4. Cardinality(todo') \in Nat
      BY <3>2, FS_CardinalityType
    <3>5. QED
      BY <2>2, <2>3, <3>1, <3>2, <3>3, <3>4, FS_EmptySet DEF CountInv, NoSummary
  <2>4. CASE pc' = "idle" /\ UNCHANGED todo
    <3>1. UNCHANGED <<done, changed, summary>>
      BY <1>3 DEF Start
    <3>2. QED
      BY <1>0, <2>2, <2>4, <3>1, FS_EmptySet DEF CountInv, NoSummary
  <2>5. QED
    BY <1>3, <2>3, <2>4 DEF Start, Exits
<1>4. CASE Connect
  BY <1>0, <1>4, FS_EmptySet
  DEF Connect, CountInv, ProgressInv, TypeInv, Exits, NoSummary, Asked, Cities, Days
<1>5. ASSUME NEW p \in Part, NEW v \in Payload \cup {None}, Fetched(p, v), UNCHANGED <<option, span>>
      PROVE  /\ IsFiniteSet(todo') /\ Cardinality(todo') = Cardinality(todo) - 1
             /\ Cardinality(todo) \in Nat /\ Asked' = Asked
  <2>1. IsFiniteSet(todo) /\ p \in todo /\ todo' = todo \ {p}
    BY <1>0, <1>5 DEF Fetched, CountInv
  <2>2. QED
    BY <1>5, <2>1, FS_RemoveElement, FS_CardinalityType DEF Asked, Cities, Days
<1>6. ASSUME NEW p \in Part, NEW v \in Payload \cup {None}, Skip(p, v)
      PROVE  CountInv'
  <2>1. <<p, v>> \notin done /\ IsFiniteSet(done)
    BY <1>0, <1>6 DEF Skip, Fetched, ProgressInv, CountInv, Did
  <2>2. /\ IsFiniteSet(done') /\ Cardinality(done') = Cardinality(done) + 1
        /\ Cardinality(done) \in Nat
    BY <1>6, <2>1, FS_AddElement, FS_CardinalityType DEF Skip
  <2>3. /\ summary'.attempted = summary.attempted + 1 /\ summary'.loaded = summary.loaded
        /\ summary'.skipped = summary.skipped + 1
    BY <1>0, <1>6, OneSkipped DEF Skip
  <2>4. /\ IsFiniteSet(todo') /\ Cardinality(todo') = Cardinality(todo) - 1
        /\ Cardinality(todo) \in Nat /\ Asked' = Asked
    BY <1>5, <1>6 DEF Skip
  <2>5. pc = "looping" /\ pc' = "looping" /\ UNCHANGED changed
    BY <1>6 DEF Skip, Fetched
  <2>6. QED
    BY <1>0, <2>2, <2>3, <2>4, <2>5 DEF CountInv, Summaries
<1>7. ASSUME NEW p \in Part, NEW v \in Payload \cup {None}, Check(p, v) \/ Unusable(p, v)
      PROVE  CountInv'
  <2>1. /\ summary'.attempted = summary.attempted + 1 /\ summary'.loaded = summary.loaded
        /\ summary'.skipped = summary.skipped
    BY <1>0, <1>7, OneMore DEF Check, Unusable
  <2>2. /\ IsFiniteSet(todo') /\ Cardinality(todo') = Cardinality(todo) - 1
        /\ Cardinality(todo) \in Nat /\ Asked' = Asked
    BY <1>5, <1>7 DEF Check, Unusable
  <2>3. /\ pc = "looping" /\ UNCHANGED <<done, changed>>
        /\ \/ pc' \in {"deciding", "quarantining"} /\ exit' = exit /\ exit = -1
           \/ pc' = "idle" /\ exit' = 1
    BY <1>0, <1>7 DEF Check, Unusable, Fetched, Exits, TypeInv
  <2>4. QED
    BY <1>0, <2>1, <2>2, <2>3 DEF CountInv, Summaries
<1>8. CASE Load
  <2>1. <<at, payload>> \notin done /\ at \notin changed
    BY <1>0, <1>8 DEF Load, ProgressInv, Did
  <2>2. /\ IsFiniteSet(done') /\ Cardinality(done') = Cardinality(done) + 1
        /\ Cardinality(done) \in Nat
    BY <1>0, <1>8, <2>1, FS_AddElement, FS_CardinalityType DEF Load, CountInv
  <2>3. /\ pc = "deciding" /\ pc' = "looping" /\ exit' = exit /\ exit = -1
        /\ todo' = todo /\ Asked' = Asked
    BY <1>0, <1>8 DEF Load, TypeInv, Asked, Cities, Days
  <2>4. CASE Counts(at)
    <3>1. changed' = changed \cup {at}
      BY <1>8, <2>4 DEF Load, Counts
    <3>2. IsFiniteSet(changed') /\ Cardinality(changed') = Cardinality(changed) + 1
      BY <1>0, <2>1, <3>1, FS_AddElement DEF CountInv
    <3>3. /\ summary'.attempted = summary.attempted /\ summary'.loaded = summary.loaded + 1
          /\ summary'.skipped = summary.skipped
      BY <1>0, <1>8, <2>4, OneMore DEF Load
    <3>4. QED
      BY <1>0, <2>2, <2>3, <3>2, <3>3 DEF CountInv, Summaries
  <2>5. CASE ~Counts(at)
    <3>1. changed' = changed
      BY <1>8, <2>5 DEF Load, Counts
    <3>2. /\ summary'.attempted = summary.attempted /\ summary'.loaded = summary.loaded
          /\ summary'.skipped = summary.skipped + 1
      BY <1>0, <1>8, <2>5, OneMore DEF Load
    <3>3. QED
      BY <1>0, <2>2, <2>3, <3>1, <3>2 DEF CountInv, Summaries
  <2>6. QED
    BY <2>4, <2>5
<1>9. CASE Refuse \/ Fail \/ Finish
  BY <1>0, <1>9 DEF Refuse, Fail, Finish, CountInv, TypeInv, Exits
<1>10. QED
  BY <1>1, <1>2, <1>3, <1>4, <1>6, <1>7, <1>8, <1>9 DEF Next, Over

----------------------------------------------------------------------------
(* The theorems.                                                            *)

\* The parts are inductive together.
LEMMA Invariance == LoopSpec => []Inv
<1>1. Inv /\ [Next]_vars => Inv'
  BY TypeStep, WindowStep, AskedStep, ProgressStep, CountStep, FileStep, RecordStep DEF Inv
<1>2. QED
  BY <1>1, InitInv, PTL DEF LoopSpec

\* Types, and the count that shows that the loops run over what was asked for and no
\* more: attempts and what is still to do are always all of it.
THEOREM LoopTypeOK == LoopSpec => []TypeOK
<1>1. Inv => TypeOK
  <2> SUFFICES ASSUME Inv
               PROVE  TypeOK
    OBVIOUS
  <2>1. today \in 0 .. Horizon
    BY RunLoopAssumption DEF Inv, TypeInv
  <2>2. raw \in [Part -> Payload \cup {None}]
    BY DEF Inv, TypeInv, Readable
  <2>3. pc = "looping" \/ AtWork =>
          summary.attempted + Cardinality(todo) = Cardinality(Cities \X Days)
    BY DEF Inv, CountInv, AtLoop, Asked
  <2>4. AtWork => at \in Part /\ payload \in Readable
    BY WorkIsAsked
  <2>5. changed \subseteq {d[1] : d \in done} /\ done \subseteq Part \X Payload
    BY DEF Inv, ProgressInv, Did
  <2>6. asked \subseteq Part
    BY DEF Inv, AskedInv
  <2>7. QED
    BY <2>1, <2>2, <2>3, <2>4, <2>5, <2>6 DEF Inv, TypeInv, FileInv, TypeOK
<1>2. QED
  BY <1>1, Invariance, PTL

\* What is landed is what the contract allows, all of it and on its hour, whatever the
\* producer answers and in whatever order commands, restatements and faults come.
THEOREM GateExact == LoopSpec => []GateIsExact
<1>1. Inv => GateIsExact
  <2> SUFFICES ASSUME Inv, NEW p \in Part, landed[p].from # None
               PROVE  LET rows == Rows[landed[p].from]
                      IN /\ DOMAIN landed[p].rows = {i \in DOMAIN rows : ConformingRow(rows[i])}
                         /\ \A i \in DOMAIN landed[p].rows : landed[p].rows[i] = rows[i]
    BY DEF GateIsExact
  <2>1. PICK v \in Readable : landed[p] = FileOf(v)
    BY DEF Inv, TypeInv, NoFile
  <2>2. landed[p].from = v /\ landed[p].rows = Accepted[v]
    BY <2>1 DEF FileOf
  <2>3. DOMAIN Rows[v] = DOMAIN Hours(v)
    BY DEF Rows
  <2>4. DOMAIN Accepted[v] = DOMAIN Hours(v) \ Rejected[v]
        /\ \A i \in DOMAIN Accepted[v] : Accepted[v][i] = Rows[v][i]
    BY DEF Accepted
  <2>5. DOMAIN Hours(v) \ Rejected[v] = {i \in DOMAIN Hours(v) : ConformingRow(Rows[v][i])}
    BY SplitIsExact
  <2>6. QED
    BY <2>2, <2>3, <2>4, <2>5
<1>2. QED
  BY <1>1, Invariance, PTL

\* No landed value is on another hour than the payload gives it, for every payload with
\* series of whatever length: the test for ragged series leaves none that is short, the
\* flattening takes hour and value from one place, the split moves no row.
THEOREM ValuesInPlace == LoopSpec => []ValuesOnTheirHour
<1>1. Inv => ValuesOnTheirHour
  <2> SUFFICES ASSUME Inv, NEW p \in Part, landed[p].from # None,
                      NEW i \in DOMAIN landed[p].rows, NEW f \in Field
               PROVE  landed[p].rows[i].value[f]
                        \in Told(landed[p].from, f, landed[p].rows[i].hour)
    BY DEF ValuesOnTheirHour
  <2>1. PICK v \in Readable : landed[p] = FileOf(v)
    BY DEF Inv, TypeInv, NoFile
  <2>2. landed[p].from = v /\ landed[p].rows = Accepted[v]
    BY <2>1 DEF FileOf
  <2>3. i \in DOMAIN Hours(v) /\ landed[p].rows[i] = Rows[v][i]
    BY <2>2 DEF Accepted
  <2>4. /\ Rows[v][i].hour = Hours(v)[i]
        /\ Rows[v][i].value[f] = IF f \in DOMAIN Series(v) THEN Coerced(f, Series(v)[f][i])
                                                            ELSE Null
    BY <2>3 DEF Rows
  <2>5. f \in DOMAIN Series(v) => Len(Series(v)[f]) = Len(Hours(v))
    BY DEF Readable, Unreadable, Ragged
  <2>6. QED
    BY <2>2, <2>3, <2>4, <2>5 DEF Told
<1>2. QED
  BY <1>1, Invariance, PTL

\* Exit code 2 comes with the complete quarantine file of the refused batch.
THEOREM RefusalExplained == LoopSpec => []RefusedIsExplained
<1>1. Inv => RefusedIsExplained
  BY DEF Inv, FileInv, RefusedIsExplained
<1>2. QED
  BY <1>1, Invariance, PTL

\* A green command has landed or recorded every published partition its options name,
\* whatever the lags, the catalogue and the clock.
THEOREM GreenComplete == LoopSpec => []GreenIsComplete
<1>1. Inv => GreenIsComplete
  <2> SUFFICES ASSUME Inv, exit = 0, NEW p \in asked
               PROVE  \E v \in Payload :
                        /\ <<p, v>> \in done
                        /\ IF option.landOnly THEN landed[p].from = v ELSE <<p, v>> \in loaded
    BY DEF GreenIsComplete
  <2>1. PICK d \in done : d[1] = p
    BY DEF Inv, AskedInv, Did
  <2>2. d = <<p, d[2]>> /\ d[2] \in Payload
    BY <2>1 DEF Inv, ProgressInv
  <2>3. IF option.landOnly THEN landed[p].from = d[2] ELSE d \in loaded
    BY <2>1 DEF Inv, RecordInv
  <2>4. QED
    BY <2>1, <2>2, <2>3
<1>2. QED
  BY <1>1, Invariance, PTL

\* The counts a green command reports are those of what it did.
THEOREM HonestSummary == LoopSpec => []SummaryHonest
<1>1. Inv => SummaryHonest
  BY DEF Inv, TypeInv, CountInv, Summaries, SummaryHonest
<1>2. QED
  BY <1>1, Invariance, PTL

\* Only a partition that is due ends a command, unless a fault does.
THEOREM UnpublishedHarmless == LoopSpec => UnpublishedIsNoFailure
<1>1. Inv /\ [Next]_vars =>
        [(pc \in {"looping", "deciding"} /\ exit' \in {1, 2} /\ faults' = faults) => Due(at')]_vars
  <2> SUFFICES ASSUME Inv, [Next]_vars, pc \in {"looping", "deciding"}, exit' \in {1, 2},
                      faults' = faults
               PROVE  Due(at')
    OBVIOUS
  <2> USE DEF envVars, storeVars, cmdVars, loopVars
  <2>0. exit = -1 /\ faults \in Nat
    BY DEF Inv, TypeInv
  <2>1. ASSUME NEW p \in Part, NEW v \in Payload \cup {None}, Unusable(p, v)
        PROVE  Due(at')
    <3>1. at' = p /\ p \in Asked
      BY <2>1, WorkIsAsked DEF Unusable, Fetched
    <3>2. QED
      BY <3>1, AskedIsDue DEF AtLoop, AtWork
  <2>2. CASE Refuse
    BY <2>2, WorkIsAsked, AskedIsDue DEF Refuse, AtLoop, AtWork
  <2>3. ~Fail /\ ~Finish /\ ~Start /\ ~Connect /\ \A o \in Options : ~Ingest(o)
    BY <2>0 DEF Fail, Fault, Finish, Start, Connect, Ingest, Exits
  <2>4. UNCHANGED exit => FALSE
    BY <2>0
  <2>5. QED
    BY <2>1, <2>2, <2>3, <2>4
    DEF Next, Over, Tick, Restate, Skip, Check, Quarantine, Load, vars
<1>2. QED
  BY <1>1, Invariance, PTL DEF LoopSpec, UnpublishedIsNoFailure

=============================================================================
