----------------------------- MODULE OutageProofs -----------------------------
(***************************************************************************)
(* Proofs about the two layers of retries and the pages of a DAG run, for  *)
(* any number of tasks, retries, delays and lost posts.                    *)
(***************************************************************************)
EXTENDS Outage, FiniteSetTheorems, WellFoundedInduction, TLAPS

----------------------------------------------------------------------------
(* Functions by recursion on the naturals.  The library's theorems about    *)
(* them take operators; these take sets and functions, so that they can be  *)
(* cited.                                                                   *)

\* A set of naturals that has 0 and with each its successor has them all.
LEMMA NatInduct ==
  ASSUME NEW T, 0 \in T, \A n \in Nat : n \in T => n + 1 \in T
  PROVE  Nat \subseteq T
<1> DEFINE Less == {ss \in Nat \X Nat : ss[1] < ss[2]}
           Left == Nat \ T
<1> SUFFICES ASSUME Left # {}
             PROVE  FALSE
  OBVIOUS
<1>1. IsWellFoundedOn(Less, Nat)
  BY NatLessThanWellFounded DEF OpToRel
<1>2. PICK m \in Left : \A k \in Left : ~(<<k, m>> \in Less)
  <2> HIDE DEF Less
  <2>1. Left \subseteq Nat
    OBVIOUS
  <2> HIDE DEF Left
  <2>2. QED
    BY <1>1, <2>1, WFMin
<1>3. m \in Nat /\ m # 0 /\ m - 1 \in Nat
  OBVIOUS
<1>4. m - 1 \notin Left
  <2>1. <<m - 1, m>> \in Less
    BY <1>3
  <2> HIDE DEF Less, Left
  <2>2. QED
    BY <1>2, <2>1
<1>5. m - 1 + 1 \in T
  BY <1>3, <1>4
<1>6. QED
  BY <1>3, <1>5

\* What a recursion does with its last value; the partial functions that follow it.
Follows(h, n, a, g) ==
  /\ DOMAIN h = 0 .. n /\ h[0] = a
  /\ \A k \in 1 .. n : h[k] = g[<<k, h[k - 1]>>]

\* Two of them agree as far as both go.
LEMMA FollowersAgree ==
  \A a, g, h, i : \A m, n \in Nat :
    Follows(h, m, a, g) /\ Follows(i, n, a, g) => \A k \in Nat : k <= m /\ k <= n => h[k] = i[k]
<1> SUFFICES ASSUME NEW a, NEW g, NEW m \in Nat, NEW n \in Nat, NEW h, NEW i,
                    Follows(h, m, a, g), Follows(i, n, a, g)
             PROVE  \A k \in Nat : k <= m /\ k <= n => h[k] = i[k]
  OBVIOUS
<1> DEFINE Same == {k \in Nat : k <= m /\ k <= n => h[k] = i[k]}
<1>1. 0 \in Same
  BY DEF Follows
<1>2. ASSUME NEW k \in Nat, k \in Same
      PROVE  k + 1 \in Same
  <2> SUFFICES ASSUME k + 1 <= m, k + 1 <= n
               PROVE  h[k + 1] = i[k + 1]
    OBVIOUS
  <2>1. h[k] = i[k]
    BY <1>2
  <2>2. k + 1 \in 1 .. m /\ k + 1 \in 1 .. n /\ k + 1 - 1 = k
    OBVIOUS
  <2>3. h[k + 1] = g[<<k + 1, h[k]>>] /\ i[k + 1] = g[<<k + 1, i[k]>>]
    BY <2>2 DEF Follows
  <2>4. QED
    BY <2>1, <2>3
<1>3. Nat \subseteq Same
  <2> HIDE DEF Same
  <2>1. QED
    BY <1>1, <1>2, NatInduct
<1>4. QED
  BY <1>3

\* A first value and a function of the last value define a function on the naturals.
LEMMA Recursion ==
  \A a \in Nat : \A g \in [Nat \X Nat -> Nat] :
    \E f \in [Nat -> Nat] : f[0] = a /\ \A n \in Nat : n # 0 => f[n] = g[<<n, f[n - 1]>>]
<1> SUFFICES ASSUME NEW a \in Nat, NEW g \in [Nat \X Nat -> Nat]
             PROVE  \E f \in [Nat -> Nat] :
                      f[0] = a /\ \A n \in Nat : n # 0 => f[n] = g[<<n, f[n - 1]>>]
  OBVIOUS
<1> DEFINE Reached == {n \in Nat : \E h \in [0 .. n -> Nat] : Follows(h, n, a, g)}
<1>1. Nat \subseteq Reached
  <2>1. 0 \in Reached
    <3>1. Follows([k \in 0 .. 0 |-> a], 0, a, g)
      BY DEF Follows
    <3>2. QED
      BY <3>1
  <2>2. ASSUME NEW n \in Nat, n \in Reached
        PROVE  n + 1 \in Reached
    <3>1. PICK h \in [0 .. n -> Nat] : Follows(h, n, a, g)
      BY <2>2
    <3> DEFINE i == [k \in 0 .. n + 1 |-> IF k = n + 1 THEN g[<<n + 1, h[n]>>] ELSE h[k]]
    <3>2. g[<<n + 1, h[n]>>] \in Nat
      OBVIOUS
    <3>3. i \in [0 .. n + 1 -> Nat]
      BY <3>2
    <3>4. ASSUME NEW k \in 1 .. n + 1
          PROVE  i[k] = g[<<k, i[k - 1]>>]
      <4>1. CASE k = n + 1
        <5>1. k - 1 = n /\ n \in 0 .. n + 1 /\ n # n + 1
          BY <4>1
        <5>2. i[k - 1] = h[n]
          BY <5>1
        <5>3. i[k] = g[<<n + 1, h[n]>>]
          BY <4>1
        <5> HIDE DEF i
        <5>4. QED
          BY <4>1, <5>2, <5>3
      <4>2. CASE k \in 1 .. n
        <5>1. i[k] = h[k] /\ i[k - 1] = h[k - 1]
          BY <4>2
        <5>2. h[k] = g[<<k, h[k - 1]>>]
          BY <3>1, <4>2 DEF Follows
        <5>3. QED
          BY <5>1, <5>2
      <4>3. QED
        BY <4>1, <4>2
    <3>5. Follows(i, n + 1, a, g)
      <4>1. DOMAIN i = 0 .. n + 1 /\ i[0] = a
        BY <3>1 DEF Follows
      <4> HIDE DEF i
      <4>2. QED
        BY <3>4, <4>1 DEF Follows
    <3> HIDE DEF i
    <3>6. \E h2 \in [0 .. n + 1 -> Nat] : Follows(h2, n + 1, a, g)
      BY <3>3, <3>5
    <3>7. QED
      BY <3>6
  <2> HIDE DEF Reached
  <2>3. QED
    BY <2>1, <2>2, NatInduct
<1>3. PICK part :
        \A n \in Nat : part[n] \in [0 .. n -> Nat] /\ Follows(part[n], n, a, g)
  <2> DEFINE p == [n \in Nat |-> CHOOSE h \in [0 .. n -> Nat] : Follows(h, n, a, g)]
  <2>1. \A n \in Nat : p[n] \in [0 .. n -> Nat] /\ Follows(p[n], n, a, g)
    BY <1>1
  <2>2. QED
    BY <2>1
<1> DEFINE f == [n \in Nat |-> part[n][n]]
<1>4. ASSUME NEW n \in Nat
      PROVE  /\ f[n] \in Nat
             /\ f[n] = IF n = 0 THEN a ELSE g[<<n, f[n - 1]>>]
  <2>1. f[n] \in Nat
    BY <1>3
  <2>2. CASE n = 0
    BY <1>3, <2>2 DEF Follows
  <2>3. CASE n # 0
    <3>1. n - 1 \in Nat /\ n \in 1 .. n
      BY <2>3
    <3>2. f[n] = g[<<n, part[n][n - 1]>>]
      BY <1>3, <3>1 DEF Follows
    <3>3. PICK k \in Nat : k = n - 1 /\ k <= n /\ k <= n - 1
      BY <3>1
    <3>4. part[n][k] = part[k][k]
      <4>1. Follows(part[n], n, a, g) /\ Follows(part[k], k, a, g)
        BY <1>3
      <4>2. \A j \in Nat : j <= n /\ j <= k => part[n][j] = part[k][j]
        BY <4>1, FollowersAgree
      <4>3. QED
        BY <3>3, <4>2
    <3>5. f[n - 1] = part[n - 1][n - 1]
      BY <3>1
    <3>6. QED
      BY <2>1, <2>3, <3>2, <3>3, <3>4, <3>5
  <2>4. QED
    BY <2>1, <2>2, <2>3
<1>5. f \in [Nat -> Nat]
  BY <1>4
<1> HIDE DEF f
<1>6. QED
  BY <1>4, <1>5

----------------------------------------------------------------------------
(* The waits.                                                               *)

\* 2 ** n.
LEMMA PowerIs ==
  /\ Power = [n \in Nat |-> IF n = 0 THEN 1 ELSE 2 * Power[n - 1]]
  /\ \A n \in Nat : Power[n] \in Nat /\ Power[n] >= 1
<1> DEFINE g == [x \in Nat \X Nat |-> 2 * x[2]]
           Good == {n \in Nat : Power[n] \in Nat /\ Power[n] >= 1}
<1>1. g \in [Nat \X Nat -> Nat]
  OBVIOUS
<1>2. PICK f \in [Nat -> Nat] : f[0] = 1 /\ \A n \in Nat : n # 0 => f[n] = g[<<n, f[n - 1]>>]
  <2> HIDE DEF g
  <2>1. 1 \in Nat
    OBVIOUS
  <2>2. QED
    BY <1>1, <2>1, Recursion
<1>3. f = [n \in Nat |-> IF n = 0 THEN 1 ELSE 2 * f[n - 1]]
  <2>1. \A n \in Nat : n # 0 => g[<<n, f[n - 1]>>] = 2 * f[n - 1]
    OBVIOUS
  <2> HIDE DEF g
  <2>2. QED
    BY <1>2, <2>1
<1>4. Power = [n \in Nat |-> IF n = 0 THEN 1 ELSE 2 * Power[n - 1]]
  BY <1>3 DEF Power
<1>5. 0 \in Good
  BY <1>4
<1>6. ASSUME NEW n \in Nat, n \in Good
      PROVE  n + 1 \in Good
  <2>1. Power[n + 1] = 2 * Power[n]
    BY <1>4
  <2>2. QED
    BY <1>6, <2>1
<1>7. Nat \subseteq Good
  <2> HIDE DEF Good
  <2>1. QED
    BY <1>5, <1>6, NatInduct
<1>8. QED
  BY <1>4, <1>7

\* A recursion that adds steps is well defined, and its values are naturals.
LEMMA SumExists ==
  \A step \in [Nat -> Nat] :
    \E f : f = [n \in Nat |-> IF n = 0 THEN 0 ELSE f[n - 1] + step[n - 1]]
<1> SUFFICES ASSUME NEW step \in [Nat -> Nat]
             PROVE  \E f : f = [n \in Nat |-> IF n = 0 THEN 0 ELSE f[n - 1] + step[n - 1]]
  OBVIOUS
<1> DEFINE g == [x \in Nat \X Nat |-> IF x[1] = 0 THEN 0 ELSE x[2] + step[x[1] - 1]]
<1>1. g \in [Nat \X Nat -> Nat]
  OBVIOUS
<1>2. PICK f \in [Nat -> Nat] : f[0] = 0 /\ \A n \in Nat : n # 0 => f[n] = g[<<n, f[n - 1]>>]
  <2> HIDE DEF g
  <2>1. 0 \in Nat
    OBVIOUS
  <2>2. QED
    BY <1>1, <2>1, Recursion
<1>3. \A n \in Nat : n # 0 => g[<<n, f[n - 1]>>] = f[n - 1] + step[n - 1]
  OBVIOUS
<1>4. f = [n \in Nat |-> IF n = 0 THEN 0 ELSE f[n - 1] + step[n - 1]]
  <2> HIDE DEF g
  <2>1. QED
    BY <1>2, <1>3
<1>5. QED
  BY <1>4

\* A sum of steps starts at 0, and grows by the step that is next.
LEMMA SumIs ==
  \A step \in [Nat -> Nat] : \A f :
    f = [n \in Nat |-> IF n = 0 THEN 0 ELSE f[n - 1] + step[n - 1]] =>
      /\ f \in [Nat -> Nat] /\ f[0] = 0
      /\ \A n \in Nat : f[n + 1] = f[n] + step[n]
<1> SUFFICES ASSUME NEW step \in [Nat -> Nat], NEW f,
                    f = [n \in Nat |-> IF n = 0 THEN 0 ELSE f[n - 1] + step[n - 1]]
             PROVE  /\ f \in [Nat -> Nat] /\ f[0] = 0
                    /\ \A n \in Nat : f[n + 1] = f[n] + step[n]
  OBVIOUS
<1> DEFINE Good == {n \in Nat : f[n] \in Nat}
<1>1. f[0] = 0 /\ \A n \in Nat : f[n + 1] = f[n] + step[n]
  OBVIOUS
<1>2. 0 \in Good /\ \A n \in Nat : n \in Good => n + 1 \in Good
  BY <1>1
<1>3. Nat \subseteq Good
  <2> HIDE DEF Good
  <2>1. QED
    BY <1>2, NatInduct
<1>4. QED
  BY <1>1, <1>3

\* The two layers' waits, each and together.
LEMMA WaitsAreNatural ==
  LeastSleep \in [Nat -> 0 .. 60] /\ LeastDelay \in [Nat -> Nat]
<1> SUFFICES ASSUME NEW n \in Nat
             PROVE  LeastSleep[n] \in 0 .. 60 /\ LeastDelay[n] \in Nat
  BY DEF LeastSleep, LeastDelay
<1>1. Power[n] \in Nat
  BY PowerIs
<1>2. RetryDelay \in Nat /\ MaxRetryDelay \in Nat
  BY OutageAssumption
<1>3. RetryDelay * Power[n] \in Nat
  BY <1>1, <1>2
<1>4. Min({Power[n], 60}) \in 0 .. 60
  BY <1>1 DEF Min
<1>5. Min({RetryDelay * Power[n], MaxRetryDelay}) \in Nat
  <2>1. PICK d \in Nat : d = RetryDelay * Power[n]
    BY <1>3
  <2>2. Min({d, MaxRetryDelay}) \in Nat
    BY <1>2 DEF Min
  <2>3. QED
    BY <2>1, <2>2
<1>6. QED
  BY <1>4, <1>5 DEF LeastSleep, LeastDelay

\* The client's sleeps are such a sum,
LEMMA SleptIs ==
  /\ Slept \in [Nat -> Nat] /\ Slept[0] = 0
  /\ \A n \in Nat : Slept[n + 1] = Slept[n] + LeastSleep[n]
<1>1. LeastSleep \in [Nat -> Nat]
  BY WaitsAreNatural
<1>2. Slept = [n \in Nat |-> IF n = 0 THEN 0 ELSE Slept[n - 1] + LeastSleep[n - 1]]
  BY <1>1, SumExists DEF Slept
<1>3. QED
  BY <1>1, <1>2, SumIs

\* and so are Airflow's delays.
LEMMA DelayedIs ==
  /\ Delayed \in [Nat -> Nat] /\ Delayed[0] = 0
  /\ \A n \in Nat : Delayed[n + 1] = Delayed[n] + LeastDelay[n]
<1>1. LeastDelay \in [Nat -> Nat]
  BY WaitsAreNatural
<1>2. Delayed = [n \in Nat |-> IF n = 0 THEN 0 ELSE Delayed[n - 1] + LeastDelay[n - 1]]
  BY <1>1, SumExists DEF Delayed
<1>3. QED
  BY <1>1, <1>2, SumIs

\* What tenacity and Airflow choose is at least that.
LEMMA WaitsAtLeast ==
  \A n \in Nat \ {0} : \A w \in Waits(n) : w \in 0 .. 60 /\ w >= LeastSleep[n - 1]
<1> SUFFICES ASSUME NEW n \in Nat \ {0}, NEW w \in Waits(n)
             PROVE  w \in 0 .. 60 /\ w >= LeastSleep[n - 1]
  OBVIOUS
<1>1. PICK j \in 0 .. 1 : w = Min({Power[n - 1] + j, 60})
  BY ApiClientAssumption DEF Waits
<1>2. PICK d \in Nat : d = Power[n - 1]
  BY PowerIs
<1>3. LeastSleep[n - 1] = Min({d, 60})
  BY <1>2 DEF LeastSleep
<1>4. w = Min({d + j, 60})
  BY <1>1, <1>2
<1>5. Min({d + j, 60}) \in 0 .. 60 /\ Min({d + j, 60}) >= Min({d, 60})
  <2>1. Min({d + j, 60}) = IF d + j <= 60 THEN d + j ELSE 60
    BY DEF Min
  <2>2. Min({d, 60}) = IF d <= 60 THEN d ELSE 60
    BY DEF Min
  <2>3. QED
    BY <2>1, <2>2
<1>6. QED
  BY <1>3, <1>4, <1>5

\* A delay that Airflow chooses is at least the least one.
LEMMA DelaysAtLeast ==
  \A n \in Nat \ {0} : \A d \in Delays(n) : d \in Nat /\ d >= LeastDelay[n - 1]
<1> SUFFICES ASSUME NEW n \in Nat \ {0}, NEW d \in Delays(n)
             PROVE  d \in Nat /\ d >= LeastDelay[n - 1]
  OBVIOUS
<1>1. PICK x \in Nat : x = RetryDelay * Power[n - 1] /\ x >= 1
  <2>1. Power[n - 1] \in Nat /\ Power[n - 1] >= 1
    <3>1. n - 1 \in Nat
      OBVIOUS
    <3>2. \A m \in Nat : Power[m] \in Nat /\ Power[m] >= 1
      BY PowerIs
    <3>3. QED
      BY <3>1, <3>2
  <2>2. RetryDelay \in Nat /\ RetryDelay >= 1
    BY OutageAssumption
  <2>3. RetryDelay * Power[n - 1] \in Nat /\ RetryDelay * Power[n - 1] >= 1
    BY <2>1, <2>2
  <2>4. QED
    BY <2>3
<1>2. MaxRetryDelay \in Nat
  BY OutageAssumption
<1>3. LeastDelay[n - 1] = Min({x, MaxRetryDelay})
  BY <1>1 DEF LeastDelay
<1>4. d \in {Min({x, MaxRetryDelay}), Min({2 * x - 1, MaxRetryDelay})}
  BY <1>1 DEF Delays
<1>5. /\ Min({x, MaxRetryDelay}) = IF x <= MaxRetryDelay THEN x ELSE MaxRetryDelay
      /\ Min({2 * x - 1, MaxRetryDelay}) = IF 2 * x - 1 <= MaxRetryDelay THEN 2 * x - 1 ELSE MaxRetryDelay
  BY <1>1, <1>2 DEF Min
<1>6. QED
  BY <1>1, <1>2, <1>3, <1>4, <1>5

----------------------------------------------------------------------------
(* The inductive invariant, in parts.                                       *)

\* The types, and how far the counters of a task are in each of its states.
TypeInv ==
  /\ TypeOK
  /\ \A t \in Task :
       /\ task[t] = "sleeping" => attempt[t] < MaxRetries
       /\ task[t] = "up_for_retry" => try[t] < Tries
       /\ task[t] = "failed" => try[t] = Tries

\* A task that is about to send a request has sent one less than it will have.
RequestInv ==
  \A t \in Task :
    requests[t] <= MaxRetries * (try[t] - 1) + attempt[t] - (IF task[t] = "requesting" THEN 1 ELSE 0)

Failed == {t \in Task : task[t] = "failed"}

\* As long as no page arrived, a post was lost for each that was due.
PageInv ==
  /\ \A t \in Task : pages[t] <= IF task[t] = "failed" THEN 1 ELSE 0
  /\ (\A p \in Page : pages[p] = 0) =>
       lost >= Cardinality(Failed) + (IF run = "failed" THEN 1 ELSE 0)

\* The least a task that is not refused has spent: before its try began, and in it.
PatienceInv ==
  \A t \in Task : t \notin refused =>
    /\ began[t] >= (try[t] - 1) * Slept[MaxRetries - 1] + Delayed[try[t] - 1]
    /\ task[t] = "requesting" => elapsed[t] >= began[t] + Slept[attempt[t] - 1]
    /\ task[t] = "sleeping" => elapsed[t] + rest[t] >= began[t] + Slept[attempt[t]]
    /\ task[t] \in {"up_for_retry", "failed"} => elapsed[t] >= began[t] + Slept[MaxRetries - 1]

Inv == TypeInv /\ RequestInv /\ PageInv /\ PatienceInv

----------------------------------------------------------------------------
(* What the actions do.                                                     *)

\* A try that fails ends in one of two states, by the number of the try; the second is
\* told of by a post, which arrives or is lost.
LEMMA FailedTry ==
  ASSUME NEW t \in Task, TypeOK, AttemptFails(t)
  PROVE  \/ /\ try[t] < Tries /\ task' = [task EXCEPT ![t] = "up_for_retry"]
            /\ UNCHANGED <<pages, lost>>
         \/ /\ try[t] = Tries /\ task' = [task EXCEPT ![t] = "failed"]
            /\ Post(t)
BY OutageAssumption DEF AttemptFails, TypeOK

\* A request ends its task, its try, or is followed by a sleep.
LEMMA RequestEnds ==
  ASSUME NEW t \in Task, Request(t)
  PROVE  \E a \in AnswersOf(service), s \in Durations :
           /\ elapsed' = [elapsed EXCEPT ![t] = @ + s]
           /\ refused' = IF a = "4xx" THEN refused \cup {t} ELSE refused
           /\ \/ /\ Outcome(a) = "payload"
                 /\ task' = [task EXCEPT ![t] = "success"]
                 /\ UNCHANGED <<rest, pages, lost>>
              \/ /\ a = "4xx" \/ attempt[t] >= MaxRetries
                 /\ AttemptFails(t)
                 /\ UNCHANGED rest
              \/ /\ ~(attempt[t] >= MaxRetries)
                 /\ task' = [task EXCEPT ![t] = "sleeping"]
                 /\ \E w \in Waits(attempt[t]) : rest' = [rest EXCEPT ![t] = w]
                 /\ UNCHANGED <<pages, lost>>
<1>1. PICK a \in AnswersOf(service), s \in Durations :
        /\ Spends(t, s)
        /\ refused' = IF a = "4xx" THEN refused \cup {t} ELSE refused
        /\ \/ /\ Outcome(a) = "payload"
              /\ task' = [task EXCEPT ![t] = "success"]
              /\ UNCHANGED <<rest, pages, lost>>
           \/ /\ GivesUp(a, attempt[t])
              /\ AttemptFails(t)
              /\ UNCHANGED rest
           \/ /\ Outcome(a) # "payload" /\ ~GivesUp(a, attempt[t])
              /\ task' = [task EXCEPT ![t] = "sleeping"]
              /\ \E w \in Waits(attempt[t]) : rest' = [rest EXCEPT ![t] = w]
              /\ UNCHANGED <<pages, lost>>
  BY DEF Request
<1>2. GivesUp(a, attempt[t]) => a = "4xx" \/ attempt[t] >= MaxRetries
  BY DEF GivesUp, Outcome, Stops
<1>3. Outcome(a) # "payload" /\ ~GivesUp(a, attempt[t]) => ~(attempt[t] >= MaxRetries)
  BY DEF GivesUp, Outcome, Stops
<1>4. QED
  BY <1>1, <1>2, <1>3 DEF Spends

\* A post leaves the pages of others alone.
LEMMA PostCounts ==
  ASSUME NEW p \in Page, TypeOK, Post(p)
  PROVE  /\ pages' \in [Page -> Nat] /\ lost' \in 0 .. MaxLost
         /\ \A q \in Page \ {p} : pages'[q] = pages[q]
         /\ \/ pages'[p] = pages[p] + 1 /\ lost' = lost
            \/ pages' = pages /\ lost' = lost + 1
BY OutageAssumption DEF Post, TypeOK

----------------------------------------------------------------------------
(* The types.                                                               *)

\* The run starts with every counter at its first value.
LEMMA InitType == Init => TypeInv
<1> SUFFICES ASSUME Init
             PROVE  TypeInv
  OBVIOUS
<1>1. Tries \in Nat \ {0} /\ MaxRetries \in Nat \ {0} /\ MaxChanges \in Nat /\ MaxHangs \in Nat
        /\ MaxLost \in Nat
  BY OutageAssumption, ApiClientAssumption
<1>2. QED
  BY <1>1 DEF Init, TypeInv, TypeOK, Ended

\* No step takes a counter out of its range, or a task to a state its counters do not fit.
LEMMA TypeStep == TypeInv /\ [Next]_vars => TypeInv'
<1> SUFFICES ASSUME TypeInv, [Next]_vars
             PROVE  TypeInv'
  OBVIOUS
<1> USE DEF taskVars, Ended
<1>0. TypeOK
  BY DEF TypeInv
<1>1. Tries \in Nat \ {0} /\ MaxRetries \in Nat \ {0} /\ MaxChanges \in Nat /\ MaxHangs \in Nat
        /\ MaxLost \in Nat /\ Timeout \in Nat /\ Durations \subseteq Nat
  BY OutageAssumption, ApiClientAssumption
<1>2. CASE Change
  BY <1>0, <1>1, <1>2 DEF Change, TypeInv, TypeOK
<1>3. CASE EndRun
  <2>1. CASE UNCHANGED <<pages, lost>>
    BY <1>0, <1>3, <2>1 DEF EndRun, TypeInv, TypeOK
  <2>2. CASE Post("run")
    <3>1. pages' \in [Page -> Nat] /\ lost' \in 0 .. MaxLost
      BY <1>0, <2>2, PostCounts DEF Page
    <3>2. QED
      BY <1>0, <1>3, <3>1 DEF EndRun, TypeInv, TypeOK
  <2>3. QED
    BY <1>3, <2>1, <2>2 DEF EndRun
<1>4. ASSUME NEW t \in Task, AttemptFails(t)
      PROVE  /\ task' \in [Task -> {"requesting", "hanging", "sleeping", "up_for_retry"} \cup Ended]
             /\ pages' \in [Page -> Nat] /\ lost' \in 0 .. MaxLost
             /\ \A u \in Task : u # t => task'[u] = task[u]
             /\ \/ task'[t] = "up_for_retry" /\ try[t] < Tries
                \/ task'[t] = "failed" /\ try[t] = Tries
  <2>1. Post(t) => pages' \in [Page -> Nat] /\ lost' \in 0 .. MaxLost
    BY <1>0, PostCounts DEF Page
  <2>2. QED
    BY <1>0, <1>4, <2>1, FailedTry DEF TypeOK
<1>5. ASSUME NEW t \in Task, Request(t)
      PROVE  TypeInv'
  <2>1. PICK a \in AnswersOf(service), s \in Durations :
          /\ elapsed' = [elapsed EXCEPT ![t] = @ + s]
          /\ refused' = IF a = "4xx" THEN refused \cup {t} ELSE refused
          /\ \/ /\ Outcome(a) = "payload"
                /\ task' = [task EXCEPT ![t] = "success"]
                /\ UNCHANGED <<rest, pages, lost>>
             \/ /\ a = "4xx" \/ attempt[t] >= MaxRetries
                /\ AttemptFails(t)
                /\ UNCHANGED rest
             \/ /\ ~(attempt[t] >= MaxRetries)
                /\ task' = [task EXCEPT ![t] = "sleeping"]
                /\ \E w \in Waits(attempt[t]) : rest' = [rest EXCEPT ![t] = w]
                /\ UNCHANGED <<pages, lost>>
    BY <1>5, RequestEnds
  <2>2. /\ elapsed' \in [Task -> Nat] /\ refused' \subseteq Task
        /\ requests' \in [Task -> Nat]
    BY <1>0, <1>1, <1>5, <2>1 DEF Request, TypeOK
  <2>3. UNCHANGED <<service, changes, try, attempt, began, run, hangs>>
    BY <1>5 DEF Request
  <2>4. CASE task' = [task EXCEPT ![t] = "success"] /\ UNCHANGED <<rest, pages, lost>>
    BY <1>0, <2>2, <2>3, <2>4 DEF TypeInv, TypeOK
  <2>5. CASE AttemptFails(t) /\ UNCHANGED rest
    BY <1>0, <1>4, <2>2, <2>3, <2>5 DEF TypeInv, TypeOK
  <2>6. CASE /\ ~(attempt[t] >= MaxRetries)
             /\ task' = [task EXCEPT ![t] = "sleeping"]
             /\ \E w \in Waits(attempt[t]) : rest' = [rest EXCEPT ![t] = w]
             /\ UNCHANGED <<pages, lost>>
    <3>1. attempt[t] \in Nat \ {0} /\ attempt[t] < MaxRetries
      BY <1>0, <1>1, <2>6 DEF TypeOK
    <3>2. rest' \in [Task -> 0 .. 60]
      BY <1>0, <2>6, <3>1, WaitsAtLeast DEF TypeOK
    <3>3. QED
      BY <1>0, <2>2, <2>3, <2>6, <3>1, <3>2 DEF TypeInv, TypeOK
  <2>7. QED
    BY <2>1, <2>4, <2>5, <2>6
<1>6. ASSUME NEW t \in Task, Wake(t)
      PROVE  TypeInv'
  <2>1. attempt[t] \in 1 .. MaxRetries /\ attempt[t] < MaxRetries /\ rest[t] \in 0 .. 60
    BY <1>0, <1>6 DEF Wake, TypeInv, TypeOK
  <2>2. attempt' \in [Task -> 1 .. MaxRetries]
    <3>1. attempt[t] + 1 \in 1 .. MaxRetries
      BY <1>1, <2>1
    <3>2. QED
      BY <1>0, <1>6, <3>1 DEF Wake, TypeOK
  <2>3. elapsed' \in [Task -> Nat] /\ rest' \in [Task -> 0 .. 60]
    BY <1>0, <1>6, <2>1 DEF Wake, Spends, TypeOK
  <2>4. /\ task' = [task EXCEPT ![t] = "requesting"]
        /\ UNCHANGED <<service, changes, try, requests, began, refused, run, pages, lost, hangs>>
    BY <1>6 DEF Wake
  <2>5. \A u \in Task : /\ u # t => task'[u] = task[u] /\ attempt'[u] = attempt[u]
                       /\ task'[t] = "requesting"
    BY <1>0, <1>6 DEF Wake, TypeOK
  <2>6. TypeOK'
    BY <1>0, <2>2, <2>3, <2>4 DEF TypeOK
  <2>7. QED
    BY <2>4, <2>5, <2>6 DEF TypeInv
<1>7. ASSUME NEW t \in Task, Retry(t)
      PROVE  TypeInv'
  <2>1. PICK d \in Delays(try[t]) : elapsed' = [elapsed EXCEPT ![t] = @ + d]
    BY <1>7 DEF Retry, Spends
  <2>2. d \in Nat
    BY <1>0, <1>1, DelaysAtLeast DEF TypeOK
  <2>3. elapsed' \in [Task -> Nat] /\ began' \in [Task -> Nat]
    BY <1>0, <1>7, <2>1, <2>2 DEF Retry, TypeOK
  <2>4. QED
    BY <1>0, <1>1, <1>7, <2>3 DEF Retry, TypeInv, TypeOK
<1>8. ASSUME NEW t \in Task, Hang(t)
      PROVE  TypeInv'
  <2>1. requests' \in [Task -> Nat] /\ hangs' \in 0 .. MaxHangs
    BY <1>0, <1>1, <1>8 DEF Hang, TypeOK
  <2>2. QED
    BY <1>0, <1>8, <2>1 DEF Hang, TypeInv, TypeOK
<1>9. ASSUME NEW t \in Task, TimeOut(t)
      PROVE  TypeInv'
  <2>1. elapsed' \in [Task -> Nat]
    BY <1>0, <1>1, <1>9 DEF TimeOut, TypeOK
  <2>2. QED
    BY <1>0, <1>4, <1>9, <2>1 DEF TimeOut, TypeInv, TypeOK
<1>10. CASE UNCHANGED vars
  BY <1>0, <1>10 DEF vars, TypeInv, TypeOK
<1>11. QED
  BY <1>2, <1>3, <1>5, <1>6, <1>7, <1>8, <1>9, <1>10 DEF Next, Works, Over

----------------------------------------------------------------------------
(* The requests.                                                            *)

\* No request is sent at the start.
LEMMA InitRequest == Init => RequestInv
BY ApiClientAssumption DEF Init, RequestInv

\* Each step of a task sends at most the request that its counters say.
LEMMA RequestStep == TypeInv /\ RequestInv /\ [Next]_vars => RequestInv'
<1> SUFFICES ASSUME TypeInv, RequestInv, [Next]_vars
             PROVE  RequestInv'
  OBVIOUS
<1>0. TypeOK
  BY DEF TypeInv
<1>1. MaxRetries \in Nat \ {0}
  BY ApiClientAssumption
<1>2. ASSUME UNCHANGED <<task, try, attempt, requests>>
      PROVE  RequestInv'
  BY <1>2 DEF RequestInv
<1>3. ASSUME NEW t \in Task, AttemptFails(t), task[t] = "requesting", UNCHANGED <<try, attempt>>,
             requests' = [requests EXCEPT ![t] = @ + 1]
      PROVE  RequestInv'
  <2>1. task' \in {[task EXCEPT ![t] = "up_for_retry"], [task EXCEPT ![t] = "failed"]}
    BY <1>0, <1>3, FailedTry
  <2>2. MaxRetries * (try[t] - 1) \in Int /\ attempt[t] \in Int /\ requests[t] \in Int
    BY <1>0, <1>1 DEF TypeOK
  <2>3. QED
    BY <1>0, <1>3, <2>1, <2>2 DEF RequestInv, TypeOK
<1>4. ASSUME NEW t \in Task, Request(t)
      PROVE  RequestInv'
  <2>1. /\ task[t] = "requesting" /\ UNCHANGED <<try, attempt>>
        /\ requests' = [requests EXCEPT ![t] = @ + 1]
    BY <1>4 DEF Request
  <2>2. MaxRetries * (try[t] - 1) \in Int /\ attempt[t] \in Int /\ requests[t] \in Int
    BY <1>0, <1>1 DEF TypeOK
  <2>3. \/ task' \in {[task EXCEPT ![t] = "success"], [task EXCEPT ![t] = "sleeping"]}
        \/ AttemptFails(t)
    BY <1>4, RequestEnds
  <2>4. CASE task' \in {[task EXCEPT ![t] = "success"], [task EXCEPT ![t] = "sleeping"]}
    BY <1>0, <2>1, <2>2, <2>4 DEF RequestInv, TypeOK
  <2>5. QED
    BY <1>3, <2>1, <2>3, <2>4
<1>5. ASSUME NEW t \in Task, Wake(t)
      PROVE  RequestInv'
  <2>1. MaxRetries * (try[t] - 1) \in Int /\ attempt[t] \in Int /\ requests[t] \in Int
    BY <1>0, <1>1 DEF TypeOK
  <2>2. QED
    BY <1>0, <1>5, <2>1 DEF Wake, RequestInv, TypeOK
<1>6. ASSUME NEW t \in Task, Retry(t)
      PROVE  RequestInv'
  <2>1. try[t] \in Int /\ attempt[t] \in 1 .. MaxRetries /\ requests[t] \in Int
    BY <1>0, <1>1 DEF TypeOK
  <2>2. requests[t] <= MaxRetries * (try[t] - 1) + MaxRetries
    <3>1. PICK m \in Int : m = MaxRetries * (try[t] - 1)
      BY <1>1, <2>1
    <3>2. requests[t] <= m + attempt[t] - (IF task[t] = "requesting" THEN 1 ELSE 0)
      BY <3>1 DEF RequestInv
    <3>3. task[t] = "up_for_retry"
      BY <1>6 DEF Retry
    <3>4. requests[t] <= m + MaxRetries
      BY <1>1, <2>1, <3>2, <3>3
    <3>5. QED
      BY <3>1, <3>4
  <2>3. MaxRetries * (try[t] - 1) + MaxRetries = MaxRetries * try[t]
    BY <1>1, <2>1
  <2>4. /\ task'[t] = "requesting" /\ try'[t] = try[t] + 1 /\ attempt'[t] = 1
        /\ requests' = requests
        /\ \A u \in Task : u # t => task'[u] = task[u] /\ try'[u] = try[u] /\ attempt'[u] = attempt[u]
    BY <1>0, <1>6 DEF Retry, TypeOK
  <2>5. requests'[t] <= MaxRetries * (try'[t] - 1) + attempt'[t] - 1
    <3>1. try'[t] - 1 = try[t]
      BY <2>1, <2>4
    <3>2. PICK m \in Int : m = MaxRetries * try[t]
      BY <1>1, <2>1
    <3>3. requests[t] <= m + 1 - 1
      BY <2>1, <2>2, <2>3, <3>2
    <3>4. QED
      BY <2>4, <3>1, <3>2, <3>3
  <2>6. QED
    BY <2>4, <2>5 DEF RequestInv
<1>7. ASSUME NEW t \in Task, Hang(t)
      PROVE  RequestInv'
  <2>1. MaxRetries * (try[t] - 1) \in Int /\ attempt[t] \in Int /\ requests[t] \in Int
    BY <1>0, <1>1 DEF TypeOK
  <2>2. QED
    BY <1>0, <1>7, <2>1 DEF Hang, RequestInv, TypeOK
<1>8. ASSUME NEW t \in Task, TimeOut(t)
      PROVE  RequestInv'
  <2>1. task' \in {[task EXCEPT ![t] = "up_for_retry"], [task EXCEPT ![t] = "failed"]}
    BY <1>0, <1>8, FailedTry DEF TimeOut
  <2>2. task[t] = "hanging" /\ UNCHANGED <<try, attempt, requests>>
    BY <1>8 DEF TimeOut
  <2>3. QED
    BY <1>0, <2>1, <2>2 DEF RequestInv, TypeOK
<1>9. CASE Change \/ EndRun \/ UNCHANGED vars
  BY <1>2, <1>9 DEF Change, EndRun, taskVars, vars
<1>10. QED
  BY <1>4, <1>5, <1>6, <1>7, <1>8, <1>9 DEF Next, Works, Over

----------------------------------------------------------------------------
(* The pages.                                                               *)

\* No task has failed at the start.
LEMMA InitPage == Init => PageInv
<1> SUFFICES ASSUME Init
             PROVE  PageInv
  OBVIOUS
<1>1. Failed = {}
  BY DEF Init, Failed
<1>2. QED
  BY <1>1, FS_EmptySet DEF Init, PageInv, Page

\* A task that fails is one more of the failed, and has had no page.
LEMMA OneMoreFailed ==
  ASSUME TypeOK, PageInv, NEW t \in Task, task[t] # "failed", AttemptFails(t), UNCHANGED run
  PROVE  PageInv'
<1>1. CASE task' = [task EXCEPT ![t] = "up_for_retry"] /\ UNCHANGED <<pages, lost>>
  <2>1. Failed' = Failed
    BY <1>1 DEF Failed, TypeOK
  <2>2. QED
    BY <1>1, <2>1 DEF PageInv, TypeOK
<1>2. CASE task' = [task EXCEPT ![t] = "failed"] /\ Post(t)
  <2>1. Failed' = Failed \cup {t} /\ t \notin Failed
    BY <1>2 DEF Failed, TypeOK
  <2>2. IsFiniteSet(Failed)
    BY OutageAssumption, FS_Subset DEF Failed
  <2>3. Cardinality(Failed') = Cardinality(Failed) + 1 /\ Cardinality(Failed) \in Nat
    BY <2>1, <2>2, FS_AddElement, FS_CardinalityType
  <2>4. /\ pages' \in [Page -> Nat]
        /\ \A q \in Page \ {t} : pages'[q] = pages[q]
        /\ \/ pages'[t] = pages[t] + 1 /\ lost' = lost
           \/ pages' = pages /\ lost' = lost + 1
    BY <1>2, PostCounts DEF Page
  <2>5. pages[t] = 0
    BY DEF PageInv, TypeOK, Page
  <2>6. \A u \in Task : pages'[u] <= IF task'[u] = "failed" THEN 1 ELSE 0
    <3>1. task'[t] = "failed" /\ pages'[t] <= 1
      <4>1. task'[t] = "failed"
        BY <1>2 DEF TypeOK
      <4>2. pages'[t] \in {0, 1}
        BY <2>4, <2>5
      <4>3. QED
        BY <4>1, <4>2
    <3>2. \A u \in Task \ {t} : task'[u] = task[u] /\ pages'[u] = pages[u]
      BY <1>2, <2>4 DEF TypeOK, Page
    <3>3. \A u \in Task : pages[u] <= IF task[u] = "failed" THEN 1 ELSE 0
      BY DEF PageInv
    <3>4. QED
      BY <3>1, <3>2, <3>3
  <2>7. ASSUME \A p \in Page : pages'[p] = 0
        PROVE  lost' >= Cardinality(Failed') + (IF run' = "failed" THEN 1 ELSE 0)
    <3>1. t \in Page
      BY DEF Page
    <3>2. pages' = pages /\ lost' = lost + 1
      BY <2>4, <2>5, <2>7, <3>1
    <3>3. lost >= Cardinality(Failed) + (IF run = "failed" THEN 1 ELSE 0)
      BY <2>7, <3>2 DEF PageInv
    <3>4. lost \in Int
      BY DEF TypeOK
    <3>5. QED
      BY <2>3, <3>2, <3>3, <3>4
  <2>8. QED
    BY <2>6, <2>7 DEF PageInv
<1>3. QED
  BY <1>1, <1>2, FailedTry

\* No page is of a task that may still succeed, and a post is lost for each that is missing.
LEMMA PageStep == TypeInv /\ PageInv /\ [Next]_vars => PageInv'
<1> SUFFICES ASSUME TypeInv, PageInv, [Next]_vars
             PROVE  PageInv'
  OBVIOUS
<1>0. TypeOK
  BY DEF TypeInv
<1>1. ASSUME NEW t \in Task, NEW x \in {"requesting", "hanging", "sleeping", "success"},
             task' = [task EXCEPT ![t] = x], task[t] # "failed", UNCHANGED <<pages, lost, run>>
      PROVE  PageInv'
  <2>1. Failed' = Failed
    BY <1>0, <1>1 DEF Failed, TypeOK
  <2>2. QED
    BY <1>0, <1>1, <2>1 DEF PageInv, TypeOK
<1>2. ASSUME UNCHANGED <<task, pages, lost, run>>
      PROVE  PageInv'
  BY <1>2 DEF PageInv, Failed
<1>3. ASSUME NEW t \in Task, Request(t)
      PROVE  PageInv'
  <2>1. \/ /\ task' \in {[task EXCEPT ![t] = "success"], [task EXCEPT ![t] = "sleeping"]}
           /\ UNCHANGED <<pages, lost>>
        \/ AttemptFails(t)
    BY <1>3, RequestEnds
  <2>2. task[t] = "requesting" /\ UNCHANGED run
    BY <1>3 DEF Request
  <2>3. QED
    BY <1>0, <1>1, <2>1, <2>2, OneMoreFailed
<1>4. ASSUME NEW t \in Task, Wake(t) \/ Retry(t)
      PROVE  PageInv'
  <2>1. /\ task' = [task EXCEPT ![t] = "requesting"] /\ task[t] # "failed"
        /\ UNCHANGED <<pages, lost, run>>
    BY <1>4 DEF Wake, Retry
  <2>2. QED
    BY <1>1, <2>1
<1>5. ASSUME NEW t \in Task, Hang(t) \/ TimeOut(t)
      PROVE  PageInv'
  <2>1. CASE Hang(t)
    <3>1. /\ task' = [task EXCEPT ![t] = "hanging"] /\ task[t] # "failed"
          /\ UNCHANGED <<pages, lost, run>>
      BY <2>1 DEF Hang
    <3>2. QED
      BY <1>1, <3>1
  <2>2. CASE TimeOut(t)
    <3>1. task[t] # "failed" /\ AttemptFails(t) /\ UNCHANGED run
      BY <2>2 DEF TimeOut
    <3>2. QED
      BY <1>0, <3>1, OneMoreFailed
  <2>3. QED
    BY <1>5, <2>1, <2>2
<1>6. CASE EndRun
  <2>1. Failed' = Failed /\ task' = task
    BY <1>6 DEF EndRun, Failed, taskVars
  <2>2. CASE run' = "failed" /\ Post("run")
    <3>1. "run" \in Page /\ "run" \notin Task
      BY OutageAssumption DEF Page
    <3>2. /\ \A q \in Page \ {"run"} : pages'[q] = pages[q]
          /\ \/ pages'["run"] = pages["run"] + 1 /\ lost' = lost
             \/ pages' = pages /\ lost' = lost + 1
      BY <1>0, <2>2, <3>1, PostCounts
    <3>3. \A u \in Task : pages'[u] = pages[u]
      BY <3>1, <3>2 DEF Page
    <3>4. pages["run"] \in Nat /\ lost \in Int /\ run = "running"
      BY <1>0, <1>6, <3>1 DEF TypeOK, EndRun
    <3>5. IsFiniteSet(Failed)
      BY OutageAssumption, FS_Subset DEF Failed
    <3>6. Cardinality(Failed) \in Nat
      BY <3>5, FS_CardinalityType
    <3>7. QED
      BY <2>1, <2>2, <3>1, <3>2, <3>3, <3>4, <3>6 DEF PageInv
  <2>3. CASE run' = "success" /\ UNCHANGED <<pages, lost>>
    <3>1. run = "running"
      BY <1>6 DEF EndRun
    <3>2. QED
      BY <2>1, <2>3, <3>1 DEF PageInv
  <2>4. QED
    BY <1>6, <2>2, <2>3 DEF EndRun
<1>7. CASE Change \/ UNCHANGED vars
  BY <1>2, <1>7 DEF Change, taskVars, vars
<1>8. QED
  BY <1>3, <1>4, <1>5, <1>6, <1>7 DEF Next, Works, Over

----------------------------------------------------------------------------
(* The patience of the two layers.                                          *)

\* No time is spent at the start.
LEMMA InitPatience == Init => PatienceInv
<1> SUFFICES ASSUME Init, NEW t \in Task
             PROVE  /\ began[t] >= (try[t] - 1) * Slept[MaxRetries - 1] + Delayed[try[t] - 1]
                    /\ elapsed[t] >= began[t] + Slept[attempt[t] - 1]
                    /\ task[t] = "requesting"
  BY DEF PatienceInv
<1>1. /\ try[t] = 1 /\ attempt[t] = 1 /\ began[t] = 0 /\ elapsed[t] = 0
      /\ task[t] = "requesting"
  BY DEF Init
<1>2. Slept[0] = 0 /\ Delayed[0] = 0 /\ Slept[MaxRetries - 1] \in Nat
  BY SleptIs, DelayedIs, ApiClientAssumption
<1>3. 0 * Slept[MaxRetries - 1] = 0
  BY <1>2
<1>4. QED
  BY <1>1, <1>2, <1>3

\* What the sums are at the counters of a task.
LEMMA SumsAtCounters ==
  ASSUME TypeOK, NEW t \in Task
  PROVE  /\ Slept[MaxRetries - 1] \in Nat /\ Slept[attempt[t] - 1] \in Nat /\ Slept[attempt[t]] \in Nat
         /\ Slept[attempt[t]] = Slept[attempt[t] - 1] + LeastSleep[attempt[t] - 1]
         /\ Delayed[try[t] - 1] \in Nat /\ Delayed[try[t]] \in Nat
         /\ Delayed[try[t]] = Delayed[try[t] - 1] + LeastDelay[try[t] - 1]
         /\ LeastSleep[attempt[t] - 1] \in Nat /\ LeastDelay[try[t] - 1] \in Nat
<1>1. PICK a \in Nat : attempt[t] = a + 1
  <2>1. attempt[t] \in 1 .. MaxRetries
    BY DEF TypeOK
  <2>2. attempt[t] - 1 \in Nat /\ attempt[t] = attempt[t] - 1 + 1
    BY <2>1, ApiClientAssumption
  <2>3. QED
    BY <2>2
<1>2. PICK n \in Nat : try[t] = n + 1
  <2>1. try[t] \in 1 .. Tries
    BY DEF TypeOK
  <2>2. try[t] - 1 \in Nat /\ try[t] = try[t] - 1 + 1
    BY <2>1, OutageAssumption
  <2>3. QED
    BY <2>2
<1>3. attempt[t] - 1 = a /\ try[t] - 1 = n
  BY <1>1, <1>2
<1>4. MaxRetries - 1 \in Nat
  BY ApiClientAssumption
<1>5. Slept[a] \in Nat /\ Slept[a + 1] \in Nat /\ Slept[a + 1] = Slept[a] + LeastSleep[a]
        /\ LeastSleep[a] \in Nat /\ Slept[MaxRetries - 1] \in Nat
  <2>1. \A k \in Nat : Slept[k] \in Nat
    BY SleptIs
  <2>2. \A k \in Nat : LeastSleep[k] \in Nat
    BY WaitsAreNatural
  <2>3. a + 1 \in Nat /\ Slept[a + 1] = Slept[a] + LeastSleep[a]
    BY SleptIs
  <2>4. QED
    BY <1>4, <2>1, <2>2, <2>3
<1>6. Delayed[n] \in Nat /\ Delayed[n + 1] \in Nat /\ Delayed[n + 1] = Delayed[n] + LeastDelay[n]
        /\ LeastDelay[n] \in Nat
  <2>1. \A k \in Nat : Delayed[k] \in Nat
    BY DelayedIs
  <2>2. \A k \in Nat : LeastDelay[k] \in Nat
    BY WaitsAreNatural
  <2>3. n + 1 \in Nat /\ Delayed[n + 1] = Delayed[n] + LeastDelay[n]
    BY DelayedIs
  <2>4. QED
    BY <2>1, <2>2, <2>3
<1>7. QED
  BY <1>1, <1>2, <1>3, <1>5, <1>6

\* What PatienceInv says of one task.
Patient(t) ==
  t \notin refused =>
    /\ began[t] >= (try[t] - 1) * Slept[MaxRetries - 1] + Delayed[try[t] - 1]
    /\ task[t] = "requesting" => elapsed[t] >= began[t] + Slept[attempt[t] - 1]
    /\ task[t] = "sleeping" => elapsed[t] + rest[t] >= began[t] + Slept[attempt[t]]
    /\ task[t] \in {"up_for_retry", "failed"} => elapsed[t] >= began[t] + Slept[MaxRetries - 1]

\* A step of one task leaves the others as they are.
LEMMA OthersPatient ==
  ASSUME TypeOK, PatienceInv, NEW t \in Task, Works(t) \/ Hang(t),
         NEW u \in Task, u # t
  PROVE  Patient(u)'
<1>1. /\ task'[u] = task[u] /\ try'[u] = try[u] /\ attempt'[u] = attempt[u]
      /\ elapsed'[u] = elapsed[u] /\ began'[u] = began[u]
      /\ u \in refused' <=> u \in refused
  <2>1. CASE Request(t)
    <3>1. UNCHANGED <<try, attempt, began>>
      BY <2>1 DEF Request
    <3>2. elapsed'[u] = elapsed[u] /\ (u \in refused' <=> u \in refused)
      BY <2>1, RequestEnds DEF TypeOK
    <3>3. task'[u] = task[u]
      BY <2>1, RequestEnds, FailedTry DEF TypeOK
    <3>4. QED
      BY <3>1, <3>2, <3>3
  <2>2. CASE Wake(t)
    BY <2>2 DEF Wake, Spends, TypeOK
  <2>3. CASE Retry(t)
    BY <2>3 DEF Retry, Spends, TypeOK
  <2>4. CASE Hang(t)
    BY <2>4 DEF Hang, TypeOK
  <2>5. CASE TimeOut(t)
    BY <2>5, FailedTry DEF TimeOut, TypeOK
  <2>6. QED
    BY <2>1, <2>2, <2>3, <2>4, <2>5 DEF Works
<1>2. rest'[u] = rest[u]
  <2>1. CASE Request(t)
    BY <2>1, RequestEnds DEF TypeOK
  <2>2. QED
    BY <2>1 DEF Works, Wake, Retry, Hang, TimeOut, TypeOK
<1>3. Patient(u)
  BY DEF PatienceInv, Patient
<1>4. QED
  BY <1>1, <1>2, <1>3 DEF Patient

\* A task that is not refused waits at least what the layers make it wait.
LEMMA PatienceStep == TypeInv /\ PatienceInv /\ [Next]_vars => PatienceInv'
<1> SUFFICES ASSUME TypeInv, PatienceInv, [Next]_vars
             PROVE  PatienceInv'
  OBVIOUS
<1>0. TypeOK
  BY DEF TypeInv
<1>1. ASSUME NEW t \in Task
      PROVE  Patient(t)
  BY DEF PatienceInv, Patient
<1>2. ASSUME NEW t \in Task, Request(t)
      PROVE  Patient(t)'
  <2>1. PICK a \in AnswersOf(service), s \in Durations :
          /\ elapsed' = [elapsed EXCEPT ![t] = @ + s]
          /\ refused' = IF a = "4xx" THEN refused \cup {t} ELSE refused
          /\ \/ /\ Outcome(a) = "payload"
                /\ task' = [task EXCEPT ![t] = "success"]
                /\ UNCHANGED <<rest, pages, lost>>
             \/ /\ a = "4xx" \/ attempt[t] >= MaxRetries
                /\ AttemptFails(t)
                /\ UNCHANGED rest
             \/ /\ ~(attempt[t] >= MaxRetries)
                /\ task' = [task EXCEPT ![t] = "sleeping"]
                /\ \E w \in Waits(attempt[t]) : rest' = [rest EXCEPT ![t] = w]
                /\ UNCHANGED <<pages, lost>>
    BY <1>2, RequestEnds
  <2>2. SUFFICES ASSUME t \notin refused'
                 PROVE  Patient(t)'
    BY DEF Patient
  <2>3. t \notin refused /\ a # "4xx"
    BY <2>1, <2>2
  <2>4. /\ task[t] = "requesting" /\ try' = try /\ attempt' = attempt /\ began' = began
        /\ s \in Nat /\ elapsed'[t] = elapsed[t] + s /\ elapsed[t] \in Nat /\ began[t] \in Nat
    BY <1>0, <1>2, <2>1, OutageAssumption DEF Request, TypeOK
  <2>5. /\ began[t] >= (try[t] - 1) * Slept[MaxRetries - 1] + Delayed[try[t] - 1]
        /\ elapsed[t] >= began[t] + Slept[attempt[t] - 1]
    BY <1>1, <2>3, <2>4 DEF Patient
  <2>6. /\ Slept[MaxRetries - 1] \in Nat /\ Slept[attempt[t] - 1] \in Nat /\ Slept[attempt[t]] \in Nat
        /\ Slept[attempt[t]] = Slept[attempt[t] - 1] + LeastSleep[attempt[t] - 1]
        /\ LeastSleep[attempt[t] - 1] \in Nat
    BY <1>0, SumsAtCounters
  <2>7. CASE task' = [task EXCEPT ![t] = "success"]
    <3>1. task'[t] = "success"
      BY <1>0, <2>7 DEF TypeOK
    <3>2. QED
      BY <2>4, <2>5, <3>1 DEF Patient
  <2>8. CASE attempt[t] >= MaxRetries /\ AttemptFails(t)
    <3>1. attempt[t] = MaxRetries
      BY <1>0, <2>8, ApiClientAssumption DEF TypeOK
    <3>2. task'[t] \in {"up_for_retry", "failed"}
      BY <1>0, <2>8, FailedTry DEF TypeOK
    <3>3. elapsed'[t] >= began[t] + Slept[MaxRetries - 1]
      BY <2>4, <2>5, <2>6, <3>1
    <3>4. QED
      BY <2>4, <2>5, <3>2, <3>3 DEF Patient
  <2>9. CASE /\ task' = [task EXCEPT ![t] = "sleeping"]
             /\ \E w \in Waits(attempt[t]) : rest' = [rest EXCEPT ![t] = w]
    <3>1. PICK w \in Waits(attempt[t]) : rest' = [rest EXCEPT ![t] = w]
      BY <2>9
    <3>2. w \in Nat /\ w >= LeastSleep[attempt[t] - 1]
      BY <1>0, ApiClientAssumption, WaitsAtLeast DEF TypeOK
    <3>3. task'[t] = "sleeping" /\ rest'[t] = w
      BY <1>0, <2>9, <3>1 DEF TypeOK
    <3>4. elapsed'[t] + rest'[t] >= began[t] + Slept[attempt[t]]
      BY <2>4, <2>5, <2>6, <3>2, <3>3
    <3>5. QED
      BY <2>4, <2>5, <3>3, <3>4 DEF Patient
  <2>10. QED
    BY <2>1, <2>3, <2>7, <2>8, <2>9
<1>3. ASSUME NEW t \in Task, Wake(t)
      PROVE  Patient(t)'
  <2>1. /\ task[t] = "sleeping" /\ task'[t] = "requesting" /\ attempt'[t] = attempt[t] + 1
        /\ elapsed'[t] = elapsed[t] + rest[t]
        /\ try' = try /\ began' = began /\ refused' = refused /\ attempt[t] \in Nat
    BY <1>0, <1>3, ApiClientAssumption DEF Wake, Spends, TypeOK
  <2>2. attempt'[t] - 1 = attempt[t]
    BY <2>1
  <2>3. QED
    BY <1>1, <2>1, <2>2 DEF Patient
<1>4. ASSUME NEW t \in Task, Retry(t)
      PROVE  Patient(t)'
  <2>1. PICK d \in Delays(try[t]) : elapsed' = [elapsed EXCEPT ![t] = @ + d]
    BY <1>4 DEF Retry, Spends
  <2>2. d \in Nat /\ d >= LeastDelay[try[t] - 1]
    BY <1>0, OutageAssumption, DelaysAtLeast DEF TypeOK
  <2>3. /\ task[t] = "up_for_retry" /\ task'[t] = "requesting" /\ try'[t] = try[t] + 1
        /\ attempt'[t] = 1 /\ refused' = refused /\ try[t] \in Nat
        /\ elapsed'[t] = elapsed[t] + d /\ began'[t] = elapsed'[t]
        /\ elapsed[t] \in Nat /\ began[t] \in Nat
    BY <1>0, <1>4, <2>1, OutageAssumption DEF Retry, TypeOK
  <2>4. SUFFICES ASSUME t \notin refused
                 PROVE  Patient(t)'
    BY <2>3 DEF Patient
  <2>5. /\ began[t] >= (try[t] - 1) * Slept[MaxRetries - 1] + Delayed[try[t] - 1]
        /\ elapsed[t] >= began[t] + Slept[MaxRetries - 1]
    BY <1>1, <2>3, <2>4 DEF Patient
  <2>6. /\ Slept[MaxRetries - 1] \in Nat /\ Delayed[try[t] - 1] \in Nat /\ Delayed[try[t]] \in Nat
        /\ Delayed[try[t]] = Delayed[try[t] - 1] + LeastDelay[try[t] - 1]
        /\ LeastDelay[try[t] - 1] \in Nat
    BY <1>0, SumsAtCounters
  <2>7. (try[t] - 1) * Slept[MaxRetries - 1] + Slept[MaxRetries - 1] = try[t] * Slept[MaxRetries - 1]
    <3>1. PICK k \in Nat : k = Slept[MaxRetries - 1]
      BY <2>6
    <3>2. PICK n \in Nat : n = try[t]
      BY <2>3
    <3>3. (n - 1) * k + k = n * k
      OBVIOUS
    <3>4. QED
      BY <3>1, <3>2, <3>3
  <2>8. PICK x \in Int : x = (try[t] - 1) * Slept[MaxRetries - 1]
    BY <2>3, <2>6
  <2>9. elapsed'[t] >= x + Slept[MaxRetries - 1] + Delayed[try[t]]
    BY <2>2, <2>3, <2>5, <2>6, <2>8
  <2>10. began'[t] >= try[t] * Slept[MaxRetries - 1] + Delayed[try[t]]
    BY <2>3, <2>7, <2>8, <2>9
  <2>11. try'[t] - 1 = try[t] /\ attempt'[t] - 1 = 0 /\ Slept[0] = 0
    BY <2>3, SleptIs
  <2>12. elapsed'[t] >= began'[t] + 0
    BY <2>2, <2>3
  <2>13. QED
    BY <2>3, <2>10, <2>11, <2>12 DEF Patient
<1>5. ASSUME NEW t \in Task, TimeOut(t)
      PROVE  Patient(t)'
  <2>1. /\ elapsed'[t] = began[t] + Timeout /\ try' = try /\ began' = began /\ refused' = refused
        /\ began[t] \in Nat /\ Timeout \in Nat
    BY <1>0, <1>5, OutageAssumption DEF TimeOut, TypeOK
  <2>2. task'[t] \in {"up_for_retry", "failed"}
    BY <1>0, <1>5, FailedTry DEF TimeOut, TypeOK
  <2>3. Slept[MaxRetries - 1] \in Nat
    BY <1>0, SumsAtCounters
  <2>4. elapsed'[t] >= began[t] + Slept[MaxRetries - 1]
    BY <2>1, <2>3, TimeoutAssumption
  <2>5. QED
    BY <1>1, <2>1, <2>2, <2>4 DEF Patient
<1>6. ASSUME NEW t \in Task, Hang(t)
      PROVE  Patient(t)'
  <2>1. /\ task[t] = "requesting" /\ task'[t] = "hanging"
        /\ UNCHANGED <<try, began, refused>>
    BY <1>0, <1>6 DEF Hang, TypeOK
  <2>2. QED
    BY <1>1, <2>1 DEF Patient
<1>7. ASSUME NEW t \in Task, Works(t) \/ Hang(t)
      PROVE  PatienceInv'
  <2>1. Patient(t)'
    BY <1>2, <1>3, <1>4, <1>5, <1>6, <1>7 DEF Works
  <2>2. \A u \in Task \ {t} : Patient(u)'
    BY <1>0, <1>7, OthersPatient
  <2>3. QED
    BY <2>1, <2>2 DEF PatienceInv, Patient
<1>8. CASE Change \/ EndRun \/ UNCHANGED vars
  BY <1>8 DEF Change, EndRun, vars, taskVars, PatienceInv
<1>9. QED
  BY <1>7, <1>8 DEF Next, Over

----------------------------------------------------------------------------
(* The theorems.                                                            *)

\* The parts are inductive together.
LEMMA Invariance == Spec => []Inv
<1>1. Init => Inv
  BY InitType, InitRequest, InitPage, InitPatience DEF Inv
<1>2. Inv /\ [Next]_vars => Inv'
  BY TypeStep, RequestStep, PageStep, PatienceStep DEF Inv
<1>3. QED
  BY <1>1, <1>2, PTL DEF Spec

\* The counters of every task stay in their bounds, whatever the producer, the webhook
\* and the schedulers do: no try is started, and no request sent, beyond the last.
THEOREM OutageTypeOK == Spec => []TypeOK
<1>1. Inv => TypeOK
  BY DEF Inv, TypeInv
<1>2. QED
  BY Invariance, <1>1, PTL

\* stop_after_attempt under Airflow's retries: one outage costs a task at most MaxRetries
\* requests per try, for any number of tasks, tries and changes of the producer.
THEOREM FewRequests == Spec => []RequestsBounded
<1>1. Inv => RequestsBounded
  <2> SUFFICES ASSUME Inv, NEW t \in Task
               PROVE  requests[t] <= MaxRetries * (try[t] - 1) + attempt[t]
    BY DEF RequestsBounded
  <2>1. try[t] \in Int /\ attempt[t] \in Int /\ requests[t] \in Int
    BY DEF Inv, TypeInv, TypeOK
  <2>2. PICK m \in Int : m = MaxRetries * (try[t] - 1)
    BY <2>1, ApiClientAssumption
  <2>3. requests[t] <= m + attempt[t] - (IF task[t] = "requesting" THEN 1 ELSE 0)
    BY <2>2 DEF Inv, RequestInv
  <2>4. QED
    BY <2>1, <2>2, <2>3
<1>2. QED
  BY Invariance, <1>1, PTL

\* page_on_failure, page_on_dag_failure, _post: nobody is paged about a task that may still
\* succeed, nor twice about one, and a failed run without a page has lost every post of it.
THEOREM RealPages == Spec => []PagesAreReal
<1>1. Inv => PagesAreReal
  <2> SUFFICES ASSUME Inv
               PROVE  PagesAreReal
    OBVIOUS
  <2>1. \A t \in Task : pages[t] <= IF task[t] = "failed" THEN 1 ELSE 0
    BY DEF Inv, PageInv
  <2>2. ASSUME run = "failed", lost <= Cardinality(Failed), \A p \in Page : ~(pages[p] > 0)
        PROVE  FALSE
    <3>1. \A p \in Page : pages[p] = 0
      BY <2>2 DEF Inv, TypeInv, TypeOK
    <3>2. lost >= Cardinality(Failed) + 1
      BY <2>2, <3>1 DEF Inv, PageInv
    <3>3. IsFiniteSet(Failed)
      BY OutageAssumption, FS_Subset DEF Failed
    <3>4. Cardinality(Failed) \in Nat /\ lost \in Int
      BY <3>3, FS_CardinalityType DEF Inv, TypeInv, TypeOK
    <3>5. QED
      BY <2>2, <3>2, <3>4
  <2>3. QED
    BY <2>1, <2>2 DEF PagesAreReal, Failed
<1>2. QED
  BY Invariance, <1>1, PTL

\* The two layers of backoff add up: a task that the producer did not reject is not given
\* up before it has waited Patience, for any setting of the two.
THEOREM PatienceKept == Spec => []PatienceIsKept
<1>1. Inv => PatienceIsKept
  <2> SUFFICES ASSUME Inv, NEW t \in Task, task[t] = "failed", t \notin refused
               PROVE  elapsed[t] >= Patience
    BY DEF PatienceIsKept
  <2>1. try[t] = Tries /\ Tries \in Nat
    BY OutageAssumption DEF Inv, TypeInv
  <2>2. /\ began[t] >= (Tries - 1) * Slept[MaxRetries - 1] + Delayed[Tries - 1]
        /\ elapsed[t] >= began[t] + Slept[MaxRetries - 1]
    BY <2>1 DEF Inv, PatienceInv
  <2>3. /\ Slept[MaxRetries - 1] \in Nat /\ Delayed[Tries - 1] \in Nat
        /\ elapsed[t] \in Nat /\ began[t] \in Nat
    BY <2>1, SumsAtCounters DEF Inv, TypeInv, TypeOK
  <2>4. PICK k \in Nat : k = Slept[MaxRetries - 1]
    BY <2>3
  <2>5. (Tries - 1) * k + k = Tries * k /\ (Tries - 1) * k \in Int
    BY <2>1
  <2>6. elapsed[t] >= (Tries - 1) * k + k + Delayed[Tries - 1]
    BY <2>2, <2>3, <2>4, <2>5
  <2>7. QED
    BY <2>4, <2>5, <2>6 DEF Patience
<1>2. QED
  BY Invariance, <1>1, PTL

=============================================================================
