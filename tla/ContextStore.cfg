SPECIFICATION Spec
CONSTANTS
  Processes = {p1, p2}
  Layouts = {"document", "hash", "shard"}
  First <- Fast
  Patches <- MCPatches
  Exprs <- MCExprs
  DocPaths <- MCDocPaths
  Intents = {a}
  Needs <- MCNeeds
  Scopes = {"readset", "truth"}
  MaxVersion = 2
  MaxCounter = 2
  MaxRetries = 2
SYMMETRY Symmetry
INVARIANTS TruthFollows CommitFresh
PROPERTY Implements
CHECK_DEADLOCK FALSE
