CONSTANTS
  Run = {r1, r2}
  Source = {s1}
  Entity = {x, y}
  Content = {a, b, d}
  Deleted = {d}
  MaxTime = 2
  a = a
  b = b
  d = d
  x = x
  y = y
  Missing = Missing
  NoTime = NoTime
  NoRun = NoRun
  NoAlert = NoAlert
  Time <- MCTime
  Body <- MCBody
  Feed <- MCFeed
SPECIFICATION EpisodeSpec
INVARIANTS DurationsEndAtLastAppearance
CHECK_DEADLOCK FALSE
