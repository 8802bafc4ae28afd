SPECIFICATION Spec
CONSTANTS
  Intents = {a, b}
  Workers = {w1, w2}
  NoWorker = none
  Stops = {}
  OneTarget = TRUE
  Late = {}
  Degradable = {b}
  WrittenValues = {0, 1}
  MaxVersion = 3
  MaxPosted = 3
  MaxLog = 2
  MaxTime = 0
  Eps = 0
  MaxFutureSkew = 0
  Reported = {}
  Outages = FALSE
  LostReplies = FALSE
  Restarts = FALSE
  RetentionLapses = FALSE
  Targets <- MCTargets
  TargetOf <- MCTargetOf
  StopPolicies <- MCStopPolicies
  Paths <- MCPaths
  StopPath <- MCStopPath
  Admissible <- MCAdmissible
  Decision <- MCDecision
  Freshness <- MCFreshness
  Deadline <- MCDeadline
INVARIANT LockCovered
SYMMETRY Symmetry
