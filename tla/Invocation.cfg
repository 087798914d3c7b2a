SPECIFICATION FairSpec
CONSTANTS
  Activity = {a1, a2}
  SplitsOnTimeout = {a2}
  Estimate = {1}
  EstimatedTokens = 1
  Consumption = {1}
  MaxUsage = 1
  Limit = {2}
  MaxReservations = 8
  MaximumRetries = 1
  MaximumResends = 1
  MaxConcurrent = 1
  MaxInvokes = 1
  MaxSuspends = 1
  MaxFaults = 0
  MaxCrashes = 1
  Null = Null
INVARIANTS
  SendsAccounted
PROPERTIES
  CallsEnd
CHECK_DEADLOCK FALSE
