SPECIFICATION MCSpec
CONSTANTS
  s1 = s1
  r1 = r1
  r2 = r2
  Student = {s1}
  MaxSession = 1
  Request = {r1, r2}
  Kinds = {"mark", "override", "lifecycle"}
  MaxRows = 2
  MaxCorrections = 0
SYMMETRY Symmetry
INVARIANTS
  MarkedOnce
