------------------------------ MODULE MCRunLoop ------------------------------
(***************************************************************************)
(* Small instances of RunLoop for TLC.                                     *)
(***************************************************************************)
EXTENDS RunLoop

CONSTANTS c1, c2

MCCatalogue == <<c1, c2>>

\* A measure with bounds, which may be null, and one that is required.  Numbers are
\* counted in halves.
MCField == {"humidity", "code"}
MCWhole == {"code"}
MCSpec == [f \in MCField |->
             IF f = "humidity" THEN [type |-> "float", required |-> FALSE, min |-> {0}, max |-> {200}]
                               ELSE [type |-> "integer", required |-> TRUE, min |-> {}, max |-> {}]]

V(kind, n) == [kind |-> kind, n |-> n]
Num(n) == V("number", 2 * n)
Half(n) == V("number", 2 * n + 1)
Gap == V("null", 0)
Day3(h, c) == [time |-> <<0, 1, 2>>, series |-> [f \in MCField |-> IF f = "humidity" THEN h ELSE c]]

Codes == <<Num(3), Num(3), V("bool", 2)>>

\* Three hours each: on the bounds and with a gap; one row out of bounds by a half; one
\* out of bounds and one without its code; too short, too long, a series without
\* values, no data; a word; a fraction of a code; a measure that is not there any more
\* and a code sent as text.
MCAnswers ==
  [plain   |-> Day3(<<Gap, Num(0), Num(100)>>, Codes),
   one     |-> Day3(<<Num(50), Num(51), Half(100)>>, Codes),
   two     |-> Day3(<<Num(-1), Num(50), Num(52)>>, <<Num(3), Num(3), Gap>>),
   short   |-> Day3(<<Num(50), Num(50)>>, Codes),
   long    |-> Day3(<<Num(50), Num(50), Num(50), Num(50)>>, Codes),
   hollow  |-> Day3(<<>>, Codes),
   empty   |-> [Day3(<<>>, <<>>) EXCEPT !.time = <<>>],
   word    |-> Day3(<<V("word", 0), Num(50), Num(50)>>, Codes),
   between |-> Day3(<<Num(50), Num(50), Num(50)>>, <<Num(3), Half(3), Num(3)>>),
   renamed |-> [time |-> <<0, 1, 2>>,
                series |-> [f \in {"code"} |-> <<V("digits", 6), Num(3), Num(3)>>]]]
MCPayload == DOMAIN MCAnswers

\* The first partition is served as anything, its neighbour as one of two, or not at all.
MCServes ==
  [p \in {c1, c2} \X (1 .. 3) |->
     CASE p = <<c1, 1>> -> MCPayload
       [] p = <<c2, 1>> -> {"plain", "two", "none"}
       [] OTHER         -> {"plain"}]

Opt(day, start, end, cities) ==
  [day |-> day, start |-> start, end |-> end, cities |-> cities, landOnly |-> FALSE, full |-> FALSE]

\* The newest day, a day, a window that ends beyond the newest day, one city, a city
\* that is not there, land only, full refresh.
MCOptions ==
  {Opt({}, {}, {}, {}), Opt({1}, {}, {}, {}), Opt({}, {1}, {3}, {}),
   Opt({}, {1}, {2}, {c1}), Opt({}, {1}, {}, {"nowhere"}),
   [Opt({}, {1}, {2}, {}) EXCEPT !.landOnly = TRUE],
   [Opt({}, {1}, {}, {}) EXCEPT !.full = TRUE]}

=============================================================================
