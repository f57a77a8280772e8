\* One task and a producer that is down all along, with the configured retries and delays
\* of both layers; every request takes its full timeout.
SPECIFICATION Spec
CONSTANTS
  Task = {t1}
  MaxRetries = 5
  Jitter <- EitherJitter
  Tries = 4
  RetryDelay = 120
  MaxRetryDelay = 1800
  Timeout = 2700
  Durations <- FullTimeout
  MaxChanges = 0
  MaxHangs = 0
  MaxLost = 0
INVARIANTS NinetyMinutes
