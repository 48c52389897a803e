-------------------------------- MODULE MCRules --------------------------------
(* Five stories, chosen at the start: a browser's cookie, the reading of schedules, *)
(* the report, one student's trend, the decisions about faces.                      *)
EXTENDS Integers, FiniteSets, TLC

CONSTANTS
  BrowserTab, MaxToken,
  SessionId, Plan, DayLength, Grace, LateWindow, MaxNow,
  Student, HeldId, Branch, Subject, Day,
  MinSessions, RecentWindow, Lookahead, Threshold, Decline, MaxHistory,
  Similarity, MaxPhoto, TopK, Box, MaxFrame, MinShift

ASSUME TokenAssumption == MaxToken \in Nat
ASSUME ScheduleAssumption ==
  /\ DayLength \in Nat \ {0} /\ Grace \in Int /\ LateWindow \in Int /\ MaxNow \in Nat
  /\ Plan \subseteq
       [date : Int, end : Int, from : 0..(DayLength - 1), to : 0..(DayLength - 1),
        daily : BOOLEAN, grace : Int, window : Int]

ASSUME ReportAssumption ==
  IsFiniteSet(Student) /\ IsFiniteSet(HeldId) /\ IsFiniteSet(Subject)
ASSUME TrendAssumption ==
  /\ MinSessions \in Nat \ {0} /\ RecentWindow \in Nat \ {0} /\ Lookahead \in Nat \ {0}
  /\ Threshold \in Nat /\ Decline \in Nat /\ MaxHistory \in Nat
ASSUME FaceAssumption ==
  /\ Similarity \subseteq Int /\ MaxPhoto \in Nat /\ TopK \in Nat
  /\ Box \subseteq [x : Int, w : Nat \ {0}] /\ MaxFrame \in Nat /\ MinShift \in Nat

VARIABLES
  story,
  cookie, tab, shown, issued, accepted, met, left,
  session, now, answer, enforce, autoclose,
  held, late,
  outcomes,
  gallery, burst

browser == <<cookie, tab, shown, issued, accepted, met, left>>
schedule == <<session, now, answer, enforce, autoclose>>
report == <<held, late>>
trend == <<outcomes>>
face == <<gallery, burst>>

Entered(date, end, from, to, daily, grace, window) ==
  [date |-> date, end |-> end, from |-> from, to |-> to,
   daily |-> daily, grace |-> grace, window |-> window]

(* A day has four minutes.  One day, two days at once or daily, back to back, with a *)
(* long window, with a grace period longer than the window, ending before it begins. *)
MCPlan ==
  {Entered(0, 0, 0, 2, FALSE, -1, -1), Entered(0, 0, 2, 3, FALSE, -1, -1),
   Entered(0, 1, 1, 2, FALSE, -1, -1), Entered(0, 1, 1, 2, TRUE, -1, -1),
   Entered(0, 1, 2, 3, TRUE, 0, 6), Entered(1, 1, 0, 1, FALSE, 3, 1),
   Entered(1, 1, 2, 1, FALSE, -1, 3), Entered(1, 0, 0, 3, FALSE, 0, -1)}

\* One student has a branch, one left it blank.
MCBranch == [st \in Student |-> IF st = "ann" THEN "cs" ELSE ""]

MCSimilarity == 0..3
MCBox == {[x |-> x, w |-> w] : x \in 0..3, w \in {4, 6}}

Browser == INSTANCE BrowserSession WITH Tab <- BrowserTab
Schedule == INSTANCE SessionRules
Report == INSTANCE AttendanceReport WITH session <- held, SessionId <- HeldId
Trend == INSTANCE AttendanceTrend
Face == INSTANCE FaceDecisions

MCInit ==
  /\ story \in {"browser", "schedule", "report", "trend", "face"}
  /\ Browser!Init /\ Schedule!Init /\ Report!Init /\ Trend!Init /\ Face!Init
  /\ story # "schedule" => enforce /\ autoclose
  /\ story # "report" => late

(* Sessions are created in the order of their ids; in the report only the first is *)
(* ever cancelled and the last is on the second day.  Photos or frames, not both.  *)
MCNext ==
  /\ story' = story
  /\ \/ /\ story = "browser" /\ Browser!Next
        /\ UNCHANGED <<schedule, report, trend, face>>
     \/ /\ story = "schedule" /\ Schedule!Next
        /\ 2 \in Schedule!Rows' => 1 \in Schedule!Rows'
        /\ UNCHANGED <<browser, report, trend, face>>
     \/ /\ story = "report" /\ Report!Next
        /\ \A e \in Report!Rows' \ {1} : e - 1 \in Report!Rows' /\ held'[e].took # "cancelled"
        /\ 3 \in Report!Rows' => held'[3].day = 2
        /\ UNCHANGED <<browser, schedule, trend, face>>
     \/ /\ story = "trend" /\ Trend!Next
        /\ UNCHANGED <<browser, schedule, report, face>>
     \/ /\ story = "face" /\ Face!Next
        /\ gallery' = <<>> \/ burst' = <<>>
        /\ UNCHANGED <<browser, schedule, report, trend>>

MCSpec == MCInit /\ [][MCNext]_<<story, browser, schedule, report, trend, face>>

(* Of BrowserSession, with its types: a captcha and a challenge are used once, and who *)
(* logged out stays so, whatever responses were under way.                             *)
CookieKeepsUp ==
  story = "browser" => Browser!TypeOK /\ Browser!SingleUse /\ Browser!LogoutSticks

(* Of SessionRules, with its types: the conflict check, the list, the lazy close and *)
(* the late-entry rule agree on what a schedule means.                               *)
RulesAgree ==
  story = "schedule" =>
    /\ Schedule!TypeOK /\ Schedule!NoTwoListed
    /\ Schedule!StartedIsOpen /\ Schedule!MarkedInWindow

(* Of AttendanceReport, with its types: the figures of a report agree with each other *)
(* and with the rows they are computed from.                                          *)
FiguresAgree ==
  story = "report" =>
    /\ Report!TypeOK /\ Report!TrendAgreesWithReport /\ Report!SubjectsAddUp
    /\ Report!CohortsCover /\ Report!PerfectMeansAll

(* Of AttendanceTrend, with its types: the risk, the forecast and the training data *)
(* mean what they say.                                                              *)
TrendMeansIt ==
  story = "trend" =>
    /\ Trend!TypeOK /\ Trend!HighMeansDecline /\ Trend!UntilIsFirstCrossing
    /\ Trend!StreaksAreRuns /\ Trend!ExamplesLocal /\ Trend!LabelUnseen

(* Of FaceDecisions, with its types: who is matched, and what is taken for a turn of *)
(* the head.                                                                         *)
FacesDecided ==
  story = "face" =>
    /\ Face!TypeOK /\ Face!OwnScoreAgrees /\ Face!DominantWins
    /\ Face!MoreIsStricter /\ Face!TurnIsSpan
=============================================================================
