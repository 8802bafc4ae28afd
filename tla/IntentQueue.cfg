SPECIFICATION FairQueueSpec
CONSTANTS
  a = a
  b = b
  t = t
  p = p
  Intents = {a, b}
  Targets = {t}
  TargetOf <- MCTargetOf
  Degradable <- MCDegradable
  StopPolicies <- MCStopPolicies
  Priority <- MCPriority
  Predicates = {p}
  Declared <- MCDeclared
  Mandates <- MCMandates
  RetentionLapses = TRUE
  Reported = {}
  MaxLapses = 1
  MaxVersion = 1
  MaxLog = 1
INVARIANTS ReportsMatchState NoneStranded 
PROPERTIES  QueueDrains
