SPECIFICATION Spec
CONSTANTS
  Request = {r1, r2, r3}
  MaxFails = 3
  Duration = 2
  MaxCount = 6
  MaxNow = 5
SYMMETRY Symmetry
INVARIANTS
  TypeOK
  LockMatchesCounter
  UnlockedNeedsLostCount
