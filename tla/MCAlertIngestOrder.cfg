CONSTANTS
  Run = {1, 2, 3}
  Source = {s1, s2}
  Faulty = {}
  Entity = {x}
  Content = {a, b}
  Time = {0, 1}
  a = a
  b = b
  x = x
  Missing = Missing
  NoTime = NoTime
  NoRun = NoRun
  NoAlert = NoAlert
  NoFetch = NoFetch
  NoKey = NoKey
  Body <- MCBody
  Feed <- MCFeed
SYMMETRY SourceSymmetry
SPECIFICATION Spec
INVARIANTS SkipJustified
PROPERTIES DuplicateSkipLosesNothing
CHECK_DEADLOCK FALSE
