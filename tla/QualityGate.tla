----------------------------- MODULE QualityGate -----------------------------
(***************************************************************************)
(* The way of one (city, day) payload through flatten_hourly and           *)
(* check_batch: columns become rows, rows meet the contract, rejected rows *)
(* go to the quarantine file, the share of them decides on the batch.      *)
(* RunLoop says when a run does what.                                      *)
(***************************************************************************)
EXTENDS Integers, Sequences, FiniteSetsExt, Functions

CONSTANTS
  Field,             \* the measures the contract and the mapping both name
  Whole,             \* those WeatherObservation declares int; the others are float
  Spec,              \* Spec[f]: its type, required, and its bounds (sets of at most one)
  Payload,           \* names of what the producer may answer, one per payload_hash
  Answer,            \* Answer[v]: the hours of its time array, and the series of the
                     \* fields it has one for
  Unit,              \* numbers are given in units of 1/Unit
  MaxRejectPercent   \* max_reject_ratio

VARIABLE quarantine  \* quarantine[p]: the lines in the file of partition p, each of its row

\* A JSON value: its kind, and the number it is or reads as.  Digits are a text that is
\* a number, a word is anything else that is none.
Kind == {"null", "number", "bool", "digits", "word"}
Null == [kind |-> "null", n |-> 0]

ASSUME GateAssumption ==
  /\ Whole \subseteq Field /\ Unit \in Nat \ {0}
  /\ \A f \in Field :
       /\ Spec[f].type \in {"float", "integer", "boolean", "string"}
       /\ Spec[f].required \in BOOLEAN /\ Spec[f].min \cup Spec[f].max \subseteq Int
  /\ \A v \in Payload :
       /\ Answer[v].time \in Seq(Nat) /\ DOMAIN Answer[v].series \subseteq Field
       /\ \A f \in DOMAIN Answer[v].series :
            Answer[v].series[f] \in Seq([kind : Kind, n : Int])
  /\ MaxRejectPercent \in Nat

----------------------------------------------------------------------------
(* models.py                                                                *)

Series(v) == Answer[v].series
Hours(v) == Answer[v].time

\* A series that is there, be it empty, has a value for every hour.
Ragged(v) == \E f \in DOMAIN Series(v) : Len(Series(v)[f]) # Len(Hours(v))

\* pydantic makes a number of every value but null: of a bool 0 or 1, of a text the
\* number it reads as.
Coerced(f, x) ==
  IF x.kind = "null" THEN Null ELSE [kind |-> IF f \in Whole THEN "int" ELSE "float", n |-> x.n]

\* It raises on a word, and on a fraction for an int.
Unparsable(v) ==
  \E f \in DOMAIN Series(v) : \E i \in DOMAIN Series(v)[f] :
    LET x == Series(v)[f][i]
    IN x.kind = "word" \/ (f \in Whole /\ x.kind # "null" /\ x.n % Unit # 0)

\* An empty window, a ragged series and a value that is no number end the run.
Unreadable(v) == Hours(v) = <<>> \/ Ragged(v) \/ Unparsable(v)
Readable == {v \in Payload : ~Unreadable(v)}

\* Faulty: each value is that of the next hour.
RowsEarly ==
  [v \in Readable |->
     [i \in DOMAIN Hours(v) |->
        [hour |-> Hours(v)[i],
         value |-> [f \in Field |-> IF f \in DOMAIN Series(v) /\ i + 1 \in DOMAIN Hours(v)
                                      THEN Coerced(f, Series(v)[f][i + 1]) ELSE Null]]]]

\* flatten_hourly: row i has the i-th hour and the i-th value of every mapped series; a
\* series that is missing is null in every row.
Rows ==
  [v \in Readable |->
     [i \in DOMAIN Hours(v) |->
        [hour |-> Hours(v)[i],
         value |-> [f \in Field |-> IF f \in DOMAIN Series(v) THEN Coerced(f, Series(v)[f][i])
                                                             ELSE Null]]]]

----------------------------------------------------------------------------
(* contracts.py                                                             *)

\* _PY_TYPES, as far as the values of a row go: an int is an acceptable float.
TypeFits(type, kind) ==
  \/ type = "float" /\ kind \in {"float", "int"}
  \/ type = "integer" /\ kind = "int"

\* Faulty: a value on the bound is a violation, the other bound is forgotten.
ViolationsOfMin(s, x) ==
  IF x.kind = "null" THEN (IF s.required THEN {"null"} ELSE {})
  ELSE IF ~TypeFits(s.type, x.kind) THEN {"type"}
  ELSE IF \E m \in s.min : x.n <= m THEN {"below"} ELSE {}

\* FieldSpec.violations: the first problem of kind or null, else those of the bounds.
Violations(s, x) ==
  IF x.kind = "null" THEN (IF s.required THEN {"null"} ELSE {})
  ELSE IF ~TypeFits(s.type, x.kind) THEN {"type"}
  ELSE {r \in {"below", "above"} :
          IF r = "below" THEN \E m \in s.min : x.n < m ELSE \E m \in s.max : x.n > m}

\* validate_row under warn_and_keep, and split_valid.
Problems(row) == {problem \in Field \X {"null", "type", "below", "above"} :
                    problem[2] \in Violations(Spec[problem[1]], row.value[problem[1]])}
Valid(row) == Problems(row) = {}
Rejected == [v \in Readable |-> {i \in DOMAIN Hours(v) : ~Valid(Rows[v][i])}]

\* The accepted rows keep their place.
Accepted == [v \in Readable |-> [i \in DOMAIN Hours(v) \ Rejected[v] |-> Rows[v][i]]]

----------------------------------------------------------------------------
(* quality.py                                                               *)

\* The reject ratio of the payload's rows is above the threshold.
Exceeds(v) == Cardinality(Rejected[v]) * 100 > MaxRejectPercent * Len(Hours(v))

\* What the quarantine file says of rejected rows.
Explained ==
  [v \in Readable |->
     {[place |-> i, row |-> Rows[v][i], reasons |-> Problems(Rows[v][i])] : i \in Rejected[v]}]

\* Faulty: the file is opened with 'a'.
OpenQuarantineToAppend(p) == UNCHANGED quarantine

\* The file of the partition is opened with 'w'.
OpenQuarantine(p) == quarantine' = [quarantine EXCEPT ![p] = {}]

\* A line per rejected row, in the order of the rows.
LinesMissing(p, v) == Explained[v] \ quarantine[p]
WriteLine(p, v) ==
  \E line \in LinesMissing(p, v) :
    /\ \A other \in LinesMissing(p, v) : line.place <= other.place
    /\ quarantine' = [quarantine EXCEPT ![p] = @ \cup {line}]

=============================================================================
