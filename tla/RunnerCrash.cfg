SPECIFICATION Spec
CONSTANTS
  a = a
  b = b
  c = c
  Node <- FanNode
  Pred <- FanPred
  Position <- FanPosition
  Stage <- FanStage
  NoStage = NoStage
  Run = Run
  Stages = {"DISCOVERY"}
  Thrown = {"BLOCKED"}
  ConcurrencyLimit = 2
  MaxRestarts = 1
  MaxFaults = 0
  MaxLosses = 0
INVARIANTS
  InputsDurable
  CompletedIsComplete
PROPERTIES
  ImplementsDurableRun
CHECK_DEADLOCK FALSE
