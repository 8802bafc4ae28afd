SPECIFICATION MCSpec
CONSTANTS
  Intents = {a, b}
  Workers = {w1}
  NoWorker = none
  Stops = {b}
  Batches = {{a, b}}
  FromXr = {a}
  Degradable = {}
  WrittenValues = {0, 1}
  MaxVersion = 3
  MaxPosted = 0
  MaxLog = 2
  MaxTime = 0
  Eps = 0
  MaxFutureSkew = 0
  Reported = {}
  Outages = TRUE
  LostReplies = FALSE
  Restarts = FALSE
  RetentionLapses = FALSE
  Priority <- MCPriority
  Targets <- MCTargets
  TargetOf <- MCTargetOf
  StopPolicies <- MCStopPolicies
  Paths <- MCPaths
  StopPath <- MCStopPath
  Admissible <- MCAdmissible
  Decision <- MCDecision
  Freshness <- MCFreshness
  Deadline <- MCDeadline

PROPERTY TrustedOnly

