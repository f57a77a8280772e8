\* One partition under the default AUTOCOMMIT; a statement of the load fails.
SPECIFICATION Spec
CONSTANTS
  Worker = {w1}
  Part = {p1}
  Payload = {"a", "b"}
  Hour = {1, 2}
  None = None
  HoursOf <- MCHoursOf
  BadOf <- MCBadOf
  Code <- MCCode
  Malformed <- MCMalformed
  Modes <- DailyModes
  Autocommit = TRUE
  Overlap = FALSE
  Reverts = FALSE
  LostReplies = FALSE
  MaxTries = 2
  MaxTriggers = 3
  MaxRestates = 1
  MaxDeploys = 0
  MaxFaults = 1
PROPERTIES AuditCountsHonest
