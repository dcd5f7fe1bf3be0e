CONSTANTS
  Call = {c1, c2, c3}
  Faulty = {c1, c2}
  Key = {k1}
  Data = {d1, d2}
  NoObject = NoObject
  NoFile = NoFile
  Torn = Torn
  dir = dir
  Parent <- MCParent
SYMMETRY MCSymmetry
SPECIFICATION Spec
INVARIANTS NoTemporaryFiles LoserVerifies
PROPERTIES ImplementsStore
CHECK_DEADLOCK FALSE
