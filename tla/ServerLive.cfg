SPECIFICATION FairSpec
CONSTANTS
  Intents = {a, s}
  Workers = {w1, w2}
  NoWorker = none
  Stops = {s}
  OneTarget = TRUE
  Late = {s}
  Degradable = {}
  WrittenValues = {1}
  MaxVersion = 3
  MaxPosted = 0
  MaxLog = 3
  MaxTime = 1
  Eps = 0
  MaxFutureSkew = 0
  Reported = {}
  Outages = FALSE
  LostReplies = FALSE
  Restarts = FALSE
  RetentionLapses = FALSE
  Targets <- MCTargets
  TargetOf <- MCTargetOf
  StopPolicies <- MCStopPolicies
  Paths <- MCPaths
  StopPath <- MCStopPath
  Admissible <- MCAdmissible
  Decision <- MCDecision
  Freshness <- MCFreshness
  Deadline <- MCDeadline
PROPERTIES HandlersReturn StopFences
