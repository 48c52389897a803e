SPECIFICATION Spec
CONSTANTS
  Request = {r1, r2}
  Name = {root, ann}
  Root = root
  MaxAdmin = 2
  MaxPupil = 1
  MaxBorn = 3
  Link = {1}
SYMMETRY Symmetry
INVARIANTS
  LastAdminKept
  SecondUseExplained
  SpentLinkTookEffect
  AstrayNeedsDeletion
