SPECIFICATION FairSpec
CONSTANTS
  Operator = {o1, o2}
  WakeUp = WakeUp
  MaxHandles = 2
  MaxCrashes = 1
  MaxLimit = 2
INVARIANTS
  HeldAlone
PROPERTIES
  CompletedIsFinal
  CallsReturn
CHECK_DEADLOCK FALSE
