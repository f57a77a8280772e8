\* One day of the daily DAG as it is declared; the producer has the day and nothing fails.
SPECIFICATION FairSpec
CONSTANTS
  City = {c1}
  LastDay = 1
  Horizon = 5
  MaxVersion = 1
  HoursOf <- MCHoursOf
  Gaps <- NoPart
  Restated <- NoPart
  Window = 1
  MaxActiveRuns = 2
  DailyCap = 1
  UnitCap = 1
  PoolSlots = 1
  MaxBackfillDays = 2
  Plans <- NoPlan
  Tries = 2
  AuditFreshness = {TRUE}
  Stuck = {}
  Abandons = FALSE
  MaxFaults = 0
  MaxClears = 0
PROPERTIES CatchUpRepairs
