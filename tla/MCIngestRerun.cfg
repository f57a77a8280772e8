\* One partition, run again and again in every mode, with restatements, a deployment and faults.
SPECIFICATION Spec
CONSTANTS
  Worker = {w1}
  Part = {p1}
  Payload = {"a", "b", "c", "empty"}
  Hour = {1, 2}
  None = None
  HoursOf <- MCHoursOf
  BadOf <- MCBadOf
  Code <- MCCode
  Malformed <- MCMalformed
  Modes <- AllModes
  Autocommit = TRUE
  Overlap = FALSE
  Reverts = FALSE
  LostReplies = TRUE
  MaxTries = 2
  MaxTriggers = 3
  MaxRestates = 1
  MaxDeploys = 1
  MaxFaults = 1
PROPERTIES GreenMeansCurrent ReloadChangesNothing NoTryIsWasted GreenHasRows LoadedCountsHonest
