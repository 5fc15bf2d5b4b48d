SPECIFICATION Spec
CONSTANTS
  Rows = {r1, r2}
  Ticks = {"timer"}
  Flushes = {"anchorAudit"}
  AwaitsSafe = TRUE
  MaxBatches = 4
  MaxFaults = 0
SYMMETRY RowSymmetry
INVARIANT NothingStranded
