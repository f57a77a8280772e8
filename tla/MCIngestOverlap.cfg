\* Two runs of one partition overlap, each load in an explicit transaction.
SPECIFICATION FairSpec
CONSTANTS
  Worker = {w1, w2}
  Part = {p1}
  Payload = {"a", "b", "empty", "ragged"}
  Hour = {1, 2}
  None = None
  HoursOf <- MCHoursOf
  BadOf <- MCBadOf
  Code <- MCCode
  Malformed <- MCMalformed
  Modes <- RefreshModes
  Autocommit = FALSE
  Overlap = TRUE
  Reverts = FALSE
  LostReplies = FALSE
  MaxTries = 1
  MaxTriggers = 2
  MaxRestates = 1
  MaxDeploys = 0
  MaxFaults = 1
PROPERTIES AuditCountsHonest EveryTaskEnds
