SPECIFICATION Spec
CONSTANTS
  s1 = s1
  r1 = r1
  r2 = r2
  Student = {s1}
  MaxSession = 1
  Request = {r1, r2}
  Kinds <- AllKinds
  MaxRows = 2
  MaxCorrections = 1
SYMMETRY Symmetry
INVARIANTS
  TypeOK
  DuplicateNeedsTornCorrection
  OrphanNeedsStrayWrite
  ApprovedWasApplied
PROPERTIES
  CorrectionDecides
