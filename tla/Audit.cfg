SPECIFICATION Spec
CONSTANTS
  a1 = a1
  a2 = a2
  a3 = a3
  c1 = c1
  c2 = c2
  f1 = f1
  f2 = f2
  f3 = f3
  f4 = f4
  Null = Null
INVARIANTS
  ReuseSound
  StagesFed
  DiscoveryComplete
  ReviewedOnce
  PanelSound
  VerifiedForReason
  VariantsJoinOnce
  WritesOrdered
  DraftComplete
  RevisionSound
  PlanReviewed
  ToolLoopSound
CHECK_DEADLOCK FALSE
