SPECIFICATION Spec
CONSTANTS
  end1 = end1
  end2 = end2
  start3 = start3
  Record = {end1, end2, start3}
  Expensive = {end1, end2}
  FaultsOverlap = TRUE
  MaxConcurrent = 2
  MaxFaults = 1
  MaxCrashes = 0
SYMMETRY RecordSymmetry
INVARIANTS
  EndSurvives
CHECK_DEADLOCK FALSE
