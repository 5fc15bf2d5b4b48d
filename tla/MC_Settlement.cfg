\* Every call has returned and nothing is outstanding: the system may stop.
SPECIFICATION Spec
CONSTANTS
  own = own
  left = left
  right = right
  Payments = {own, left, right}
  Supplied <- MCSupplied
  Tracked = {left, right}
  Facilitators = 2
  Tries <- MCTries
INVARIANTS RetryPaysOnce NoncesNotShared
CHECK_DEADLOCK FALSE
