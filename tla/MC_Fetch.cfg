SPECIFICATION FetchSpec
CONSTANTS
  p1 = p1
  p2 = p2
  p3 = p3
  Payments = {p1, p2}
  Fetches = {p1}
  Request <- FetchRequest
  Policy <- CapOrAsk
  AnomalyAction = "escalate"
  HourLen = 1
  HoursPerDay = 2
  MaxInFlight = 2
  Behaviours <- Alarmed
  IntentThreshold = 2
  HasApprover = TRUE
  ApprovalTimeout = 1
  BreakerOn = TRUE
  Failover = TRUE
  Lookback = 2
  MaxTime = 1
  WindowLen = 2
  MaxBlocks = 1
  MaxEscalations <- Unset
  MaxAnomalies <- Unset
  Cooldown = 0
INVARIANTS ReplyIsHonest FetchesAccountedFor
PROPERTIES FetchKeepsLedger EveryFetchEnds
