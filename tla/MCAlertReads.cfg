CONSTANTS
  Run = {r1, r2, r3, r4}
  Source = {s1}
  Entity = {x, y}
  Content = {a, b, d}
  Deleted = {d}
  MaxTime = 2
  Line = {l}
  NoLine = NoLine
  PageSize = 1
  DayLength = 1
  WeekLength = 2
  FirstWeekday = 0
  a = a
  b = b
  d = d
  l = l
  x = x
  y = y
  Missing = Missing
  NoTime = NoTime
  NoRun = NoRun
  NoAlert = NoAlert
  Time <- MCTime
  Body <- MCBody
  Feed <- MCFeed
  Network <- MCNetwork
  Impact <- MCImpact
  Period <- MCPeriod
  Filter <- MCFilter
SYMMETRY RunSymmetry
SPECIFICATION ReadsSpec
INVARIANTS Coherent WalkMissesOnlyLeavers HistoricalShowsLastLive SeriesAddUp
PROPERTIES PastChangesOnlyWithLines
CHECK_DEADLOCK FALSE
