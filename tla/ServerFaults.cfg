SPECIFICATION Spec
CONSTANTS
  Intents = {a}
  Workers = {w1, w2}
  NoWorker = none
  Stops = {}
  OneTarget = TRUE
  Late = {a}
  Degradable = {}
  WrittenValues = {0, 1}
  MaxVersion = 3
  MaxPosted = 3
  MaxLog = 2
  MaxTime = 4
  Eps = 1
  MaxFutureSkew = 1
  Reported = {"unknown"}
  Outages = TRUE
  LostReplies = TRUE
  Restarts = TRUE
  RetentionLapses = FALSE
  Targets <- MCTargets
  TargetOf <- MCTargetOf
  StopPolicies <- MCStopPolicies
  Paths <- MCPaths
  StopPath <- MCStopPath
  Admissible <- MCAdmissible
  Decision <- MCDecision
  Freshness <- MCFreshness
  Deadline <- MCDeadline
INVARIANTS ServerTypeOK LogUnique CommitLogged TombstoneFollows GrantOnce
PROPERTIES CommitValid DecisionFinal
SYMMETRY Symmetry
