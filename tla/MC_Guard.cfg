SPECIFICATION Spec
CONSTANTS
  p1 = p1
  p2 = p2
  p3 = p3
  Payments = {p1, p2, p3}
  Request <- MCRequest
  Policy <- EscalatePolicy
  AnomalyAction = "escalate"
  HourLen = 1
  HoursPerDay = 2
  MaxInFlight = 2
  Behaviours <- Quiet
  IntentThreshold = 2
  HasApprover = TRUE
  ApprovalTimeout = 1
  BreakerOn = FALSE
  Failover = FALSE
  Lookback = 2
  MaxTime = 2
  WindowLen = 2
  MaxBlocks <- Unset
  MaxEscalations <- Unset
  MaxAnomalies <- Unset
  Cooldown = 0
SYMMETRY TripletSymmetry
INVARIANTS TypeOK Authorised AccountedFor SpendsAreReal LogIsTrue OvershootBound
PROPERTIES KeepsLedger
