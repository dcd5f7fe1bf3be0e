CONSTANTS
  Run = {r1, r2, r3, r4}
  Source = {s1, s2}
  Entity = {x, y}
  Content = {a, b, d}
  Deleted = {d}
  MaxTime = 3
  a = a
  b = b
  d = d
  x = x
  y = y
  Missing = Missing
  NoTime = NoTime
  NoRun = NoRun
  NoAlert = NoAlert
  Time <- MCTime
  Body <- MCBody
  Feed <- MCFeed
SYMMETRY RunSymmetry
SPECIFICATION EpisodeSpec
INVARIANTS WindowsOrdered Traceable ShowsNewestFeed HistoryReplays EpisodesAreAppearances SpansAreObserved
PROPERTIES HistoryAppendOnly
CHECK_DEADLOCK FALSE
