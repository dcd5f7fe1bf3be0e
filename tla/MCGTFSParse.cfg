SPECIFICATION MCSpec
CONSTANTS
  RouteId = {r1, r2}
  StopId = {s1, s2, s3}
  TripId = {t1, t2}
  NoId = NoId
  maxCSVRecordBytes = 40
  MaxRouteRecords = 1
  MaxStopRecords = 3
  MaxTripRecords = 1
  MaxStopTimeRows = 2
  MaxRelations = 1
SYMMETRY Symmetry
CHECK_DEADLOCK FALSE
INVARIANTS AcceptedIsLoadable StationsAgree FailsOnLongRecords
