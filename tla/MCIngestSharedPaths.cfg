\* Two runs of one partition overlap; the producer restates in between; nothing fails.
SPECIFICATION Spec
CONSTANTS
  Worker = {w1, w2}
  Part = {p1}
  Payload = {"a", "b"}
  Hour = {1, 2}
  None = None
  HoursOf <- MCHoursOf
  BadOf <- MCBadOf
  Code <- MCCode
  Malformed <- MCMalformed
  Modes <- DailyModes
  Autocommit = TRUE
  Overlap = TRUE
  Reverts = FALSE
  LostReplies = TRUE
  MaxTries = 2
  MaxTriggers = 2
  MaxRestates = 1
  MaxDeploys = 0
  MaxFaults = 0
PROPERTIES AuditTruthful
