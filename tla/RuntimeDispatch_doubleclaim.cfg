SPECIFICATION Spec
CONSTANTS
  Key = {k1}
  k1 = k1
  Worker = {w1, w2}
  w1 = w1
  w2 = w2
  Call = {c1, c2}
  c1 = c1
  c2 = c2
  None = None
  Op <- ById
  Overlap = TRUE
  DraftBound = 2
  Faults = {}
SYMMETRY Symmetry
PROPERTY OneActiveLease
