SPECIFICATION Spec
CONSTANTS
  e1 = e1
  e2 = e2
  e3 = e3
  end1 = end1
  end2 = end2
  start3 = start3
  a1 = a1
  a2 = a2
  r1 = r1
  r2 = r2
  c1 = c1
  c2 = c2
  Null = Null
SYMMETRY Symmetry
INVARIANTS
  LogKept
  AckedKept
  BudgetKept
  AnswersKept
  CorpusKept
  DecisionObeyed
  CliTurnsSound
  NativeTreeEnded
CHECK_DEADLOCK FALSE
