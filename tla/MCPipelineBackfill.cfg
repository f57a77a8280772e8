\* A backfill of two days beside a daily run: restatements, parameters plan refuses, a MERGE
\* that outlives its client.
SPECIFICATION FairSpec
CONSTANTS
  City = {c1}
  LastDay = 2
  Horizon = 4
  MaxVersion = 2
  HoursOf <- MCHoursOf
  Gaps <- NoPart
  Restated <- FirstDay
  Window = 1
  MaxActiveRuns = 2
  DailyCap = 1
  UnitCap = 2
  PoolSlots = 1
  MaxBackfillDays = 2
  Plans <- ManyPlans
  Tries = 2
  AuditFreshness = {TRUE, FALSE}
  Stuck = {}
  Abandons = TRUE
  MaxFaults = 1
  MaxClears = 0
PROPERTIES GreenRunPublishes BackfillWaitsForUnits
