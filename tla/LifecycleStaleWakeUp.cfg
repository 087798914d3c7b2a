SPECIFICATION FairSpec
CONSTANTS
  Operator = {o1, o2}
  WakeUp = WakeUp
  MaxHandles = 2
  MaxCrashes = 0
  MaxLimit = 2
PROPERTIES
  WakesOnlyPausedRun
CHECK_DEADLOCK FALSE
