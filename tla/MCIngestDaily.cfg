\* The daily DAG alone: each partition has one run at a time, several partitions run together.
SPECIFICATION Spec
CONSTANTS
  Worker = {w1, w2}
  Part = {p1, p2}
  Payload = {"a", "b", "bad"}
  Hour = {1, 2}
  None = None
  HoursOf <- MCHoursOf
  BadOf <- MCBadOf
  Code <- MCCode
  Malformed <- MCMalformed
  Modes <- DailyModes
  Autocommit = TRUE
  Overlap = FALSE
  Reverts = FALSE
  LostReplies = TRUE
  MaxTries = 2
  MaxTriggers = 2
  MaxRestates = 1
  MaxDeploys = 0
  MaxFaults = 1
SYMMETRY Symmetry
INVARIANTS TypeOK ReadersSeeWholeFiles RawOnlyGated OneAuditRowPerAttempt
PROPERTIES AuditTruthful KeepsPromise NoTryIsWasted
