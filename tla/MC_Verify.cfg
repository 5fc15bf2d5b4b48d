SPECIFICATION VerifySpec
CONSTANTS
  Rows <- LogRows
  Ticks = {}
  Flushes = {"anchorAudit"}
  AwaitsSafe = TRUE
  MaxBatches = 2
  MaxFaults = 2
  AgentIds = {"mine"}
  MaxDamages = 1
INVARIANTS NothingStrandedUndamaged
PROPERTIES CleanMeansIntact SeenMeansCommitted AlarmMeansMismatch
\* The records are bounded and the command runs once.
CHECK_DEADLOCK FALSE
