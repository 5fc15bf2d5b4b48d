SPECIFICATION Spec
CONSTANTS
  Policy <- MCPolicy
  AnomalyAction = "escalate"
  HourLen = 2
  HoursPerDay = 3
  Requests <- MCRequests
  MaxPayments = 3
  MaxTime = 8
  Candidates <- MCCandidates
INVARIANTS TypeOK CapsHold DailyRatesHold NewPayeesMeetAHuman HoursRespected BacktestMissesNothing
