CONSTANTS
  Run = {1, 2, 3}
  MaxRuns = 3
  MaxClock = 2
  FutureTolerance = 0
  RecentFailureLimit = 1
  NoTime = NoTime
  NoRun = NoRun
  Response <- MCResponse
  DataMaxAge <- MCDataMaxAge
  CheckMaxAge <- MCCheckMaxAge
  RunMaxDuration <- MCRunMaxDuration
SPECIFICATION StatusSpec
INVARIANTS TroubleShown AcceptanceClears OkIsRecent
CHECK_DEADLOCK FALSE
