SPECIFICATION FairSpec
CONSTANTS
  q = q
  h = h
  ops = ops
  Queued = {q}
  Posted = {h}
  MaxTime = 3
  Clients = {ops}
  TokenSet = TRUE
  MaxRequests = 2
  LimitWindow = 2
  QueueTimeout = 2
  WebhookTimeout = 1
  Tolerance = 1
  RequireSigned = TRUE
INVARIANTS RepliesAreTrue LimiterBounds
PROPERTIES AsksHumans EveryEscalationEnds
\* The clock has stopped, the escalations are answered and the limiter says no.
CHECK_DEADLOCK FALSE
