SPECIFICATION Spec
CONSTANTS
  Threads = {t1, t2}
  Objects = {plc1}
  NoThread = none
  ObjectOf <- MCObjectOf
  CounterSize = 2
  EpochSize = 2
  SeqMax = 3
  Earlier = {2}
  MaxChanges = 3
  MaxCalls = 2
  MaxBoots = 2
  MaxStalls = 1
  MaxFailures = 1
INVARIANTS VersionCounts ConditionalRun ConditionalExact ExecutedOnce OwnResult 
SYMMETRY Symmetry
