SPECIFICATION MCSpec
CONSTANTS
  m = m
  n = n
  Request = {r1, r2}
  Roll = {a, b}
  Mail = {m, n}
  Account = {g}
  MailOf <- OneMail
  MaxId = 2
  MaxBorn = 2
  MaxFaceId = 1
  MaxImages = 2
  MaxFile = 2
  MaxKey = 2
SYMMETRY Symmetry
INVARIANTS
  DuplicateRollExplained
  LinksExplained
  PhotosAgree
  GalleryIsRight
