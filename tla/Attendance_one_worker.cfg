SPECIFICATION Spec
CONSTANTS
  s1 = s1
  r1 = r1
  Student = {s1}
  MaxSession = 1
  Request = {r1}
  Kinds <- AllKinds
  MaxRows = 2
  MaxCorrections = 2
SYMMETRY Symmetry
INVARIANTS
  SingleRow
  OnePendingPerPair
