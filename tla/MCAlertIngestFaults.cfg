CONSTANTS
  Run = {1, 2}
  Source = {s1}
  Faulty = {1, 2}
  Entity = {x}
  Content = {a, b}
  Time = {0, 1}
  a = a
  b = b
  x = x
  Missing = Missing
  NoTime = NoTime
  NoRun = NoRun
  NoAlert = NoAlert
  NoFetch = NoFetch
  NoKey = NoKey
  Body <- FaultBody
  Feed <- FaultFeed
SPECIFICATION FairSpec
INVARIANTS ArchivedBeforeUse ReportMatchesRow
PROPERTIES ImplementsHistory RunsSettle
CHECK_DEADLOCK FALSE
