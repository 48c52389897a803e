SPECIFICATION Spec
CONSTANTS
  p1 = p1
  p2 = p2
  t1 = t1
  t2 = t2
  Process = {p1, p2}
  Thread = {t1, t2}
  Topology <- Servers
  Page = {g1}
  MaxMarks = 2
  MaxSilent = 1
  Abrupt = TRUE
  MaxRestarts = 1
INVARIANTS
  TypeOK
  ParkedIsFresh
PROPERTIES
  EventuallyCurrent
  ThreadsComeFree
\* Every tab may have been left and every bound used up.
CHECK_DEADLOCK FALSE
