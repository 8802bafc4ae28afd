SPECIFICATION FairSpec
CONSTANTS
  Intents = {a, b}
  Stops = {s}
  Consumers = {c1, c2}
  Paths = {"line.state"}
  WrittenValues = {1}
  Reads <- MCReads
  Bounded = {a}
  Rechecks = {FALSE, TRUE}
  MaxVersion = 1
  MaxLog = 3
  MaxFaults = 1
INVARIANTS InOrder NothingSkipped
PROPERTY CatchesUp
