SPECIFICATION Spec
CONSTANTS
  Tasks = 2
  File = {"f1", "f2"}
  Scope <- MCScope
  Source <- MCSource
  TaskGraph = {}
  ConflictsWith = {}
  Exclusive = {}
  Parallel = 2
  Content = {"o", "a"}
  Base = "o"
  Modes = {"native", "canonical"}
  Answers <- MCAnswers
  Results <- MCResults
  MaxAttempts = 2
  MaxRounds = 1
  MaxRuns = 7
  Retries = 1
  MaxStops = 1
  Null = Null
INVARIANTS EvidenceHolds
PROPERTY ExecutionSettles
