------------------------------ MODULE ApiClient ------------------------------
(***************************************************************************)
(* WeatherApiClient (api/client.py): what it makes of an answer, when it   *)
(* asks again and how long it sleeps before.                               *)
(***************************************************************************)
EXTENDS Integers, FiniteSetsExt

CONSTANTS
  MaxRetries,    \* weather_api_max_retries, given to stop_after_attempt
  Jitter         \* the seconds the jitter may add, of 0 .. 1

ASSUME ApiClientAssumption == MaxRetries \in Nat \ {0} /\ Jitter \subseteq 0 .. 1

\* What one GET may come to: data; no answer in time or a broken connection; 429;
\* 5xx; 4xx; a body that is no JSON, also of a redirect, which is not followed.
Answer == {"data", "timeout", "reset", "429", "5xx", "4xx", "not_json"}

Outcome(a) ==
  CASE a = "data" -> "payload"
    [] a = "4xx"  -> "permanent"
    [] OTHER      -> "transient"

\* Faulty: `>` for `>=`.
StopsLate(n) == n > MaxRetries

\* Faulty: the first request counts as a retry.
StopsEarly(n) == n + 1 >= MaxRetries

\* stop_after_attempt: no request after the MaxRetries-th.
Stops(n) == n >= MaxRetries

\* The error of the n-th request is raised to the caller.
GivesUp(a, n) == Outcome(a) = "permanent" \/ (Outcome(a) = "transient" /\ Stops(n))

\* 2 ** n
Power[n \in Nat] == IF n = 0 THEN 1 ELSE 2 * Power[n - 1]

\* wait_exponential_jitter(initial=1, max=60): the seconds after the n-th request.  A
\* Retry-After header only goes into the text of the error.
Waits(n) == {Min({Power[n - 1] + j, 60}) : j \in Jitter}

=============================================================================
