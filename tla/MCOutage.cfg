\* Two tasks, two client attempts in each of two tries; the producer's condition
\* changes twice, a request hangs, two posts are lost.
SPECIFICATION Spec
CONSTANTS
  Task = {t1, t2}
  MaxRetries = 2
  Jitter <- EitherJitter
  Tries = 2
  RetryDelay = 120
  MaxRetryDelay = 1800
  Timeout = 2700
  Durations <- NoTime
  MaxChanges = 2
  MaxHangs = 1
  MaxLost = 2
INVARIANTS TypeOK RequestsBounded PagesAreReal PatienceIsKept
PROPERTIES OutageRiddenOut RunEnds
