SPECIFICATION MCSpec
CONSTANTS
  BrowserTab = {t1, t2}
  MaxToken = 2
  SessionId = {1, 2}
  Plan <- MCPlan
  DayLength = 4
  Grace = 1
  LateWindow = 1
  Student = {"ann", "bob"}
  HeldId = {1, 2, 3}
  Branch <- MCBranch
  Subject = {"art", "law"}
  Day = {1, 2}
  MinSessions = 4
  RecentWindow = 5
  Lookahead = 5
  Threshold = 750
  Decline = 100
  MaxHistory = 12
  Similarity <- MCSimilarity
  MaxPhoto = 4
  TopK = 3
  Box <- MCBox
  MaxFrame = 4
  MinShift = 2
  MaxNow = 7
INVARIANTS
  CookieKeepsUp
  RulesAgree
  FiguresAgree
  TrendMeansIt
  FacesDecided
\* A history may be as long as it is let grow.
CHECK_DEADLOCK FALSE
