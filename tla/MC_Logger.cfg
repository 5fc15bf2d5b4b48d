SPECIFICATION FairSpec
CONSTANTS
  Rows = {r1, r2}
  Ticks = {"timer", "operator"}
  Flushes = {}
  AwaitsSafe = TRUE
  MaxBatches = 7
  MaxFaults = 3
INVARIANTS TypeOK NothingStranded
PROPERTY EveryRowAnchored
