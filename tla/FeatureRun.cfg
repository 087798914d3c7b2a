SPECIFICATION Spec
CONSTANTS
  Draft = {"d1", "d2", "d3"}
  Ambiguity = {"q"}
  High <- MCHigh
  Reviewer = {"r1", "r2"}
  Configs <- MCConfigs
  FirstDraft = {"d1"}
  Explorations <- MCExplorations
  Votes <- MCVotes
  MaxRevisions = 1
  MaxEvents = 2
  Null = Null
INVARIANTS PlanIsReviewed
PROPERTY FeatureSettles
CHECK_DEADLOCK FALSE
