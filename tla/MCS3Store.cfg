CONSTANTS
  Call = {c1, c2}
  Faulty = {c1}
  Key = {k1}
  Data = {d1, d2}
  MaxPutAttempts = 3
  MaxResends = 1
  NoObject = NoObject
  Foreign = Foreign
SPECIFICATION FairSpec
INVARIANTS OwnObjectsRecognised
PROPERTIES ImplementsStore PutsEnd
CHECK_DEADLOCK FALSE
