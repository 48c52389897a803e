SPECIFICATION MCSpec
CONSTANTS
  Process = {w1, w2}
  Chain <- Revisions
  Stamp = 3
  Face = {f}
  Keep = 1
  MaxClock = 3
  MaxRestore = 2
  Last = 2
  MaxEmb = 2
SYMMETRY Symmetry
INVARIANTS
  RevisionIsTrue
  FailureExplained
  BackupsRestore
  EmbeddingsMigrate
