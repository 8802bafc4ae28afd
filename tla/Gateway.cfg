SPECIFICATION Spec
CONSTANTS
  Intents = {a, s}
  Stops = {s}
  Callers = {t1, t2}
  NoCaller = none
  Commanded = {a, s}
  WrittenValues = {0, 1}
  Deployments <- MCDeployments
  MaxCellVersion = 3
  CellRestarts = TRUE
  AgeBound = 0
  MaxNow = 1
  MaxFaults = 1
  MaxVersion = 4
  MaxLog = 2
  Degradable = {}
  RetentionLapses = FALSE
  Targets <- MCTargets
  TargetOf <- MCTargetOf
  StopPolicies <- MCStopPolicies
  Paths <- MCPaths
  Sites <- MCSites
  Admissible <- MCAdmissible
INVARIANTS GateSound   ConditionalFresh AtomicAuthorized VersionNamesState
SYMMETRY Symmetry
