SPECIFICATION Spec
CONSTANTS
  Machines = {m1, m2}
  Kinds = {"S", "B"}
  NoMachine = none
  MaxTrace = 4
  MaxRows = 3
  Gates = {"xair", "xair_atomic"}
  Decisions = {d1}
  Replayed <- MCReplayed
INVARIANTS TimelineAgrees  ReplayFollows LabelSound 
SYMMETRY Symmetry
CHECK_DEADLOCK FALSE
