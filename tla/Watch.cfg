SPECIFICATION MCSpec
CONSTANTS
  Request = {r1, r2}
  Net = {n, k}
  Event = {"network", "impossible", "other"}
  Weight <- Weights
  Threshold = 2
  MaxScore = 3
  Device = {d, e}
  Place = {p}
  MaxSessions = 2
SYMMETRY Symmetry
INVARIANTS
  EscalatesOnce
  OneAlert
  LoginsNoted
