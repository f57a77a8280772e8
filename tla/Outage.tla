------------------------------- MODULE Outage -------------------------------
(***************************************************************************)
(* What an outage of the producer does to one DAG run: the client retries  *)
(* inside a task instance, Airflow retries the task instance, and the      *)
(* callbacks of alerting.py post to a webhook that may be down as well.    *)
(***************************************************************************)
EXTENDS ApiClient

CONSTANTS
  Task,          \* the mapped task instances of the run
  Tries,         \* attempts Airflow makes of a task: retries + 1
  RetryDelay,    \* retry_delay in seconds
  MaxRetryDelay, \* max_retry_delay
  Timeout,       \* execution_timeout
  Durations,     \* the seconds a request may take
  MaxChanges,    \* bound: how often the producer's condition changes
  MaxHangs,      \* bound: requests that hang until execution_timeout
  MaxLost        \* bound: posts the webhook does not take

ASSUME OutageAssumption ==
  /\ Tries \in Nat \ {0} /\ {RetryDelay, MaxRetryDelay, Timeout} \subseteq Nat \ {0}
  /\ Durations \subseteq Nat
  /\ {MaxChanges, MaxHangs, MaxLost} \subseteq Nat
  /\ IsFiniteSet(Task) /\ "run" \notin Task

VARIABLES
  service, changes,      \* the producer's condition
  task,                  \* the state of a task instance
  try, attempt,          \* Airflow's try; the client's request within it
  rest,                  \* seconds the client still has to sleep
  requests,              \* history: requests a task sent
  elapsed, began,        \* history: seconds it has spent, and had when its try began
  refused,               \* history: tasks that were answered 4xx
  run,                   \* the state of the DAG run
  pages,                 \* what the page webhook took: who it is about
  lost, hangs

taskVars == <<task, try, attempt, rest, requests, elapsed, began, refused>>
vars == <<service, changes, taskVars, run, pages, lost, hangs>>

\* What the producer may answer in a condition.
AnswersOf(s) ==
  CASE s = "up"      -> {"data"}
    [] s = "down"    -> {"timeout", "reset", "5xx", "not_json"}
    [] s = "limited" -> {"429"}
    [] s = "rejects" -> {"4xx"}

Condition == {"up", "down", "limited", "rejects"}
Ended == {"success", "failed"}
Page == {"run"} \cup Task

TypeOK ==
  /\ service \in Condition /\ changes \in 0 .. MaxChanges
  /\ task \in [Task -> {"requesting", "hanging", "sleeping", "up_for_retry"} \cup Ended]
  /\ try \in [Task -> 1 .. Tries] /\ attempt \in [Task -> 1 .. MaxRetries]
  /\ rest \in [Task -> 0 .. 60]
  /\ requests \in [Task -> Nat] /\ elapsed \in [Task -> Nat] /\ began \in [Task -> Nat]
  /\ refused \subseteq Task
  /\ run \in {"running"} \cup Ended
  /\ pages \in [Page -> Nat] /\ lost \in 0 .. MaxLost /\ hangs \in 0 .. MaxHangs

Init ==
  /\ service \in Condition /\ changes = 0
  /\ task = [t \in Task |-> "requesting"]
  /\ try = [t \in Task |-> 1] /\ attempt = try
  /\ rest = [t \in Task |-> 0] /\ requests = rest /\ elapsed = rest /\ began = rest
  /\ refused = {} /\ run = "running"
  /\ pages = [p \in Page |-> 0] /\ lost = 0 /\ hangs = 0

\* The producer recovers, breaks or changes its mind.
Change ==
  /\ changes < MaxChanges
  /\ service' \in Condition \ {service}
  /\ changes' = changes + 1
  /\ UNCHANGED <<taskVars, run, pages, lost, hangs>>

\* _post: a webhook that cannot be reached is a line in the log, never an error.
Post(p) ==
  \/ pages' = [pages EXCEPT ![p] = @ + 1] /\ UNCHANGED lost
  \/ lost < MaxLost /\ lost' = lost + 1 /\ UNCHANGED pages

\* Faulty: Airflow retries once too often.
AttemptFailsMore(t) ==
  IF try[t] <= Tries
  THEN task' = [task EXCEPT ![t] = "up_for_retry"] /\ UNCHANGED <<pages, lost>>
  ELSE task' = [task EXCEPT ![t] = "failed"] /\ Post(t)

\* An attempt of a task raised.  notify_on_retry goes to the other channel;
\* page_on_failure is called after the last try only.
AttemptFails(t) ==
  IF try[t] < Tries
  THEN task' = [task EXCEPT ![t] = "up_for_retry"] /\ UNCHANGED <<pages, lost>>
  ELSE task' = [task EXCEPT ![t] = "failed"] /\ Post(t)

Spends(t, s) == elapsed' = [elapsed EXCEPT ![t] = @ + s]

\* _get_once and what tenacity does next: the payload ends the task, a permanent
\* error or the last request its attempt; else the client sleeps.
Request(t) ==
  /\ task[t] = "requesting"
  /\ requests' = [requests EXCEPT ![t] = @ + 1]
  /\ \E a \in AnswersOf(service), s \in Durations :
       /\ Spends(t, s)
       /\ refused' = IF a = "4xx" THEN refused \cup {t} ELSE refused
       /\ \/ /\ Outcome(a) = "payload"
             /\ task' = [task EXCEPT ![t] = "success"]
             /\ UNCHANGED <<rest, pages, lost>>
          \/ /\ GivesUp(a, attempt[t])
             /\ AttemptFails(t)
             /\ UNCHANGED rest
          \/ /\ Outcome(a) # "payload" /\ ~GivesUp(a, attempt[t])
             /\ task' = [task EXCEPT ![t] = "sleeping"]
             /\ \E w \in Waits(attempt[t]) : rest' = [rest EXCEPT ![t] = w]
             /\ UNCHANGED <<pages, lost>>
  /\ UNCHANGED <<service, changes, try, attempt, began, run, hangs>>

\* The sleep before the next request is over.
Wake(t) ==
  /\ task[t] = "sleeping"
  /\ task' = [task EXCEPT ![t] = "requesting"]
  /\ attempt' = [attempt EXCEPT ![t] = @ + 1]
  /\ rest' = [rest EXCEPT ![t] = 0]
  /\ Spends(t, rest[t])
  /\ UNCHANGED <<service, changes, try, requests, began, refused, run, pages, lost, hangs>>

\* A producer that sends byte after byte: no timeout of httpx ends the request.
Hang(t) ==
  /\ task[t] = "requesting" /\ hangs < MaxHangs
  /\ elapsed[t] < began[t] + Timeout
  /\ hangs' = hangs + 1
  /\ task' = [task EXCEPT ![t] = "hanging"]
  /\ requests' = [requests EXCEPT ![t] = @ + 1]
  /\ UNCHANGED <<service, changes, try, attempt, rest, elapsed, began, refused, run, pages,
                 lost>>

\* Faulty: the task has no execution_timeout.
TimeOutNever(t) == task[t] = "hanging" /\ UNCHANGED vars

\* execution_timeout ends the try.
TimeOut(t) ==
  /\ task[t] = "hanging"
  /\ elapsed' = [elapsed EXCEPT ![t] = began[t] + Timeout]
  /\ AttemptFails(t)
  /\ UNCHANGED <<service, changes, try, attempt, rest, requests, began, refused, run, hangs>>

\* retry_exponential_backoff: Airflow waits between one and two delays.
Delays(n) ==
  LET d == RetryDelay * Power[n - 1]
  IN {Min({d, MaxRetryDelay}), Min({2 * d - 1, MaxRetryDelay})}

\* Faulty: the last try is never started.
RetryNotLast(t) ==
  /\ task[t] = "up_for_retry" /\ try[t] + 1 < Tries
  /\ task' = [task EXCEPT ![t] = "requesting"]
  /\ try' = [try EXCEPT ![t] = @ + 1]
  /\ attempt' = [attempt EXCEPT ![t] = 1]
  /\ \E d \in Delays(try[t]) : Spends(t, d)
  /\ began' = [began EXCEPT ![t] = elapsed'[t]]
  /\ UNCHANGED <<service, changes, rest, requests, refused, run, pages, lost, hangs>>

\* Airflow starts the next try: a new process with a new client.
Retry(t) ==
  /\ task[t] = "up_for_retry"
  /\ task' = [task EXCEPT ![t] = "requesting"]
  /\ try' = [try EXCEPT ![t] = @ + 1]
  /\ attempt' = [attempt EXCEPT ![t] = 1]
  /\ \E d \in Delays(try[t]) : Spends(t, d)
  /\ began' = [began EXCEPT ![t] = elapsed'[t]]
  /\ UNCHANGED <<service, changes, rest, requests, refused, run, pages, lost, hangs>>

\* Faulty: the DAG has no callback of its own.
EndRunSilent ==
  /\ run = "running" /\ \A t \in Task : task[t] \in Ended
  /\ run' = IF \E t \in Task : task[t] = "failed" THEN "failed" ELSE "success"
  /\ UNCHANGED <<service, changes, taskVars, pages, lost, hangs>>

\* The run ends with its last task; page_on_dag_failure tells of a failed one.
EndRun ==
  /\ run = "running" /\ \A t \in Task : task[t] \in Ended
  /\ IF \E t \in Task : task[t] = "failed"
     THEN run' = "failed" /\ Post("run")
     ELSE run' = "success" /\ UNCHANGED <<pages, lost>>
  /\ UNCHANGED <<service, changes, taskVars, hangs>>

Over == run # "running" /\ UNCHANGED vars

Works(t) == Request(t) \/ Wake(t) \/ TimeOut(t) \/ Retry(t)

Next ==
  \/ Change \/ EndRun \/ Over
  \/ \E t \in Task : Works(t) \/ Hang(t)

\* A request comes back, or hangs and is ended by execution_timeout; sleeps and delays
\* end.
Spec == /\ Init /\ [][Next]_vars
        /\ WF_vars(EndRun) /\ \A t \in Task : WF_vars(Works(t))

----------------------------------------------------------------------------
\* One outage costs a task at most MaxRetries requests per try, MaxRetries * Tries in
\* all (stop_after_attempt nested under Airflow's retries).
RequestsBounded ==
  \A t \in Task : requests[t] <= MaxRetries * (try[t] - 1) + attempt[t]

\* An outage that ends while a task has a request left, in this try or in a later one, is
\* ridden out if nothing hangs any more: the task ends green.
OutageRiddenOut ==
  \A t \in Task :
    (/\ service = "up" /\ changes = MaxChanges /\ hangs = MaxHangs /\ task[t] \notin Ended
     /\ task[t] = "hanging" => try[t] < Tries)
      ~> task[t] = "success"

\* Pages are about what is broken for good: none of a task that may still succeed,
\* one at most of each, and a failed run is silent only if every post of it, the
\* failed tasks' and its own, is lost (page_on_failure, page_on_dag_failure, _post).
PagesAreReal ==
  /\ \A t \in Task : pages[t] <= IF task[t] = "failed" THEN 1 ELSE 0
  /\ run = "failed" /\ lost <= Cardinality({t \in Task : task[t] = "failed"})
       => \E p \in Page : pages[p] > 0

\* The run ends whatever the producer does, a request that is never answered included.
RunEnds == <>(run # "running")

\* The least that the client sleeps after the request n of a try, and Airflow waits after
\* the try n, both counted from 0; and after the first n of them together.
LeastSleep == [n \in Nat |-> Min({Power[n], 60})]
LeastDelay == [n \in Nat |-> Min({RetryDelay * Power[n], MaxRetryDelay})]
Slept[n \in Nat] == IF n = 0 THEN 0 ELSE Slept[n - 1] + LeastSleep[n - 1]
Delayed[n \in Nat] == IF n = 0 THEN 0 ELSE Delayed[n - 1] + LeastDelay[n - 1]

\* The longest outage that is ridden out for sure: the least a task waits, in its
\* client and between its tries, before it is out of both.
Patience == Tries * Slept[MaxRetries - 1] + Delayed[Tries - 1]

\* execution_timeout leaves the client its sleeps.
ASSUME TimeoutAssumption == Slept[MaxRetries - 1] <= Timeout

\* No task is given up before that, unless the producer rejects its request: the two
\* layers of backoff add up, and neither cuts the other short.
PatienceIsKept ==
  \A t \in Task : task[t] = "failed" /\ t \notin refused => elapsed[t] >= Patience

\* "Total tolerated outage ~ 90 minutes" (failure_modes.md): no task is given up before,
\* unless the producer rejects its request.
NinetyMinutes ==
  \A t \in Task : task[t] = "failed" /\ t \notin refused => elapsed[t] >= 90 * 60

=============================================================================
