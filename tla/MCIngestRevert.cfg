\* The producer goes back to a payload it had replaced.
SPECIFICATION Spec
CONSTANTS
  Worker = {w1}
  Part = {p1}
  Payload = {"a", "b"}
  Hour = {1, 2}
  None = None
  HoursOf <- MCHoursOf
  BadOf <- MCBadOf
  Code <- MCCode
  Malformed <- MCMalformed
  Modes <- DailyModes
  Autocommit = TRUE
  Overlap = FALSE
  Reverts = TRUE
  LostReplies = TRUE
  MaxTries = 2
  MaxTriggers = 3
  MaxRestates = 2
  MaxDeploys = 0
  MaxFaults = 0
PROPERTIES GreenMeansCurrent
