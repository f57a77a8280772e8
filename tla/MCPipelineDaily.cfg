\* Three days of the daily DAG with two slots: the calendar does not wait, the run of day 1
\* may be stuck; a gap, a clear; freshness of load_audit as it is, or repaired.
SPECIFICATION FairSpec
CONSTANTS
  City = {c1}
  LastDay = 3
  Horizon = 6
  MaxVersion = 1
  HoursOf <- MCHoursOf
  Gaps <- FirstDay
  Restated <- NoPart
  Window = 1
  MaxActiveRuns = 2
  DailyCap = 1
  UnitCap = 1
  PoolSlots = 1
  MaxBackfillDays = 2
  Plans <- NoPlan
  Tries = 2
  AuditFreshness = {TRUE, FALSE}
  Stuck = {1}
  Abandons = FALSE
  MaxFaults = 0
  MaxClears = 1
INVARIANTS TypeOK
PROPERTIES GreenRunPublishes EveryDueDayEnds
