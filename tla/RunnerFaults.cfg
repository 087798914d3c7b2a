SPECIFICATION FairSpec
CONSTANTS
  a = a
  b = b
  c = c
  Node <- ChainNode
  Pred <- ChainPred
  Position <- ChainPosition
  Stage <- ChainStage
  NoStage = NoStage
  Run = Run
  Stages = {"DISCOVERY"}
  Thrown = {"FAILED", "SUSPENDED_BUDGET"}
  ConcurrencyLimit = 2
  MaxRestarts = 1
  MaxFaults = 1
  MaxLosses = 1
INVARIANTS
  EndNamesStoredArtifact
PROPERTIES
  PaidOnce
  Settles
CHECK_DEADLOCK FALSE
