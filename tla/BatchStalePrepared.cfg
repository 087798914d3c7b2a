SPECIFICATION Spec
CONSTANTS
  i1 = i1
  i2 = i2
  Item = {i1, i2}
  MaximumAttempts = 1
  MaximumItems = 2
  CutSaves = TRUE
  MaxCrashes = 1
  Null = Null
SYMMETRY Items
INVARIANTS
  NoBlindResubmission
CHECK_DEADLOCK FALSE
