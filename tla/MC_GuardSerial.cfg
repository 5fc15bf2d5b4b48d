\* One payment at a time, time enough for the windows to slide, and the breaker.
SPECIFICATION Spec
CONSTANTS
  p1 = p1
  p2 = p2
  p3 = p3
  Payments = {p1, p2, p3}
  Request <- SerialRequest
  Policy <- TightPolicy
  AnomalyAction = "escalate"
  HourLen = 1
  HoursPerDay = 2
  MaxInFlight = 1
  Behaviours <- Quiet
  IntentThreshold = 3
  HasApprover = TRUE
  ApprovalTimeout = 1
  BreakerOn = TRUE
  Failover = FALSE
  Lookback = 2
  MaxTime = 3
  WindowLen = 2
  MaxBlocks = 2
  MaxEscalations <- Unset
  MaxAnomalies <- Unset
  Cooldown = 1
INVARIANTS OnePayeePerHost TripNeverMissed
