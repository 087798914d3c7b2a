SPECIFICATION FairSpec
CONSTANTS
  i1 = i1
  i2 = i2
  Item = {i1}
  MaximumAttempts = 2
  MaximumItems = 1
  CutSaves = TRUE
  MaxCrashes = 2
  Null = Null
INVARIANTS
  NoBlindResubmission
  RecordsAreTruthful
PROPERTIES
  ResultsKept
  ExecuteSettles
CHECK_DEADLOCK FALSE
