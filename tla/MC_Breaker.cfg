SPECIFICATION Spec
CONSTANTS
  Payments = {p1, p2, p3}
  MaxTime = 3
  WindowLen = 2
  MaxBlocks = 2
  MaxEscalations <- Unset
  MaxAnomalies = 2
  Cooldown = 1
SYMMETRY PaymentSymmetry
INVARIANTS NoMissedTrip
PROPERTIES RestartKeepsWindowedFreeze
