\* Two commands of every form over two cities and two published days, whatever the
\* producer serves; a restatement, a fault, midnight at any moment.
SPECIFICATION LoopSpec
CONSTANTS
  c1 = c1
  c2 = c2
  Field <- MCField
  Whole <- MCWhole
  Spec <- MCSpec
  Unit = 2
  Payload <- MCPayload
  Answer <- MCAnswers
  MaxRejectPercent = 40
  Catalogue <- MCCatalogue
  LastDay = 3
  Horizon = 3
  Lag = 1
  SettingsLag = 1
  Options <- MCOptions
  Serves <- MCServes
  None = "none"
  MaxRuns = 2
  MaxRestates = 1
  MaxFaults = 1
INVARIANTS TypeOK GateIsExact ValuesOnTheirHour RefusedIsExplained GreenIsComplete SummaryHonest
PROPERTIES UnpublishedIsNoFailure
