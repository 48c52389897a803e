----------------------------- MODULE AttendanceTrend -----------------------------
(************************************************************************************)
(* What analytics.py and ml_predictions.py read from one student's outcomes in      *)
(* session order: the rule-based risk, and the training examples and features of    *)
(* the learned model.  Percentages are in tenths, as both round them; training, the *)
(* standard deviation and the model's probabilities are left out.                   *)
(************************************************************************************)
EXTENDS Integers, SequencesExt

CONSTANTS
  MinSessions,  \* min_sessions, and MIN_HISTORY_SESSIONS
  RecentWindow, \* recent_window
  Lookahead,    \* lookahead_sessions, and lookahead
  Threshold,    \* LOW_ATTENDANCE_THRESHOLD_PERCENT, in tenths
  Decline,      \* decline_flag_points, in tenths
  MaxHistory    \* bound: sessions with a date

(* One entry for each session with a date that parses, planned, cancelled or held, by *)
(* date and time: 1 where the student's row in it counts as present, 0 where it does  *)
(* not or there is none.                                                              *)
VARIABLE outcomes

vars == <<outcomes>>

TypeOK == outcomes \in Seq({0, 1}) /\ Len(outcomes) <= MaxHistory

Init == outcomes = <<>>

\* A session is planned, on any date; or one gets a date that parses.  A row is there
\* already where the id was another session's.
Schedule ==
  /\ Len(outcomes) < MaxHistory
  /\ \E i \in 1..(Len(outcomes) + 1), o \in {0, 1} : outcomes' = InsertAt(outcomes, i, o)

\* The student's row in some session is inserted, replaced or cleared: a mark, an
\* override, an approved correction, the rows of a session about to be deleted.
Record ==
  \E i \in DOMAIN outcomes, o \in {0, 1} : outcomes' = [outcomes EXCEPT ![i] = o]

\* A session is deleted, or gets a date that does not parse.
Delete == \E i \in DOMAIN outcomes : outcomes' = RemoveAt(outcomes, i)

\* A session moves to another date with the rows it has.  Which are completed, and
\* stay, is not kept here.
Reschedule ==
  \E i, j \in DOMAIN outcomes : outcomes' = InsertAt(RemoveAt(outcomes, i), j, outcomes[i])

Next == Schedule \/ Record \/ Delete \/ Reschedule

Spec == Init /\ [][Next]_vars

-----------------------------------------------------------------------------

Least(a, b) == IF a < b THEN a ELSE b
Present(s) == SumFunction(s)

\* round(n / d * 100, 1), in tenths
Tenth(n, d) == (2000 * n + d) \div (2 * d)
Ceiling(a, b) == (a + b - 1) \div b

\* min(recent_window, total // 2) or 1
WindowOf(s) ==
  LET w == Least(RecentWindow, Len(s) \div 2) IN IF w = 0 THEN 1 ELSE w
Recent(s) == SubSeq(s, Len(s) - WindowOf(s) + 1, Len(s))
Earlier(s) == SubSeq(s, 1, Len(s) - WindowOf(s))

Current(s) == Tenth(Present(s), Len(s))
RecentRate(s) == Tenth(Present(Recent(s)), Len(Recent(s)))
Trend(s) ==
  RecentRate(s) - IF Earlier(s) = <<>> THEN RecentRate(s)
                  ELSE Tenth(Present(Earlier(s)), Len(Earlier(s)))

\* projected_pct: the next sessions go as the recent ones did.
Projected(s) ==
  LET n == 1000 * Present(s) + RecentRate(s) * Lookahead
      d == Len(s) + Lookahead
  IN  (2 * n + d) \div (2 * d)

None == -1

\* Slip: rounded down instead of up.
UntilEarly(s) ==
  IF Current(s) >= Threshold /\ RecentRate(s) < Threshold
  THEN (1000 * Present(s) - Threshold * Len(s)) \div (Threshold - RecentRate(s))
  ELSE None

\* sessions_until_threshold
Until(s) ==
  IF Current(s) >= Threshold /\ RecentRate(s) < Threshold
  THEN LET n == Ceiling(1000 * Present(s) - Threshold * Len(s), Threshold - RecentRate(s))
       IN  IF n < 0 THEN 0 ELSE n
  ELSE None

\* compute_risk_predictions: risk_level, "none" where the student is not listed
Risk(s) ==
  CASE Len(s) < MinSessions -> "none"
    [] Len(s) >= MinSessions /\ Current(s) < Threshold ->
         IF Trend(s) > 0 THEN "none" ELSE "Critical"
    [] Len(s) >= MinSessions /\ Current(s) >= Threshold ->
         CASE Projected(s) < Threshold -> "High"
           [] Projected(s) >= Threshold /\ Trend(s) <= -Decline -> "Medium"
           [] OTHER -> "none"

-----------------------------------------------------------------------------
(* ml_predictions *)

\* _streaks: the absences at the end, and the longest run of them
Streaks(s) ==
  LET Step(run, o) ==
        LET current == IF o = 0 THEN run.trailing + 1 ELSE 0
        IN  [trailing |-> current,
             longest |-> IF current > run.longest THEN current ELSE run.longest]
  IN  FoldLeft(Step, [trailing |-> 0, longest |-> 0], s)

\* _features_from_history, rates as counts
Features(s) ==
  [total |-> Len(s), present |-> Present(s), recent |-> Present(Recent(s)),
   earlier |-> Present(Earlier(s)), streaks |-> Streaks(s)]

\* build_training_examples for one student
Examples(s) ==
  [i \in 1..(Len(s) - Lookahead - MinSessions + 1) |->
     LET n == MinSessions + i - 1
         future == SubSeq(s, n + 1, n + Lookahead)
     IN  [of |-> Features(SubSeq(s, 1, n)),
          label |-> 1000 * Present(future) < Threshold * Len(future)]]

-----------------------------------------------------------------------------

(* Nobody is flagged High without a decline: compute_risk_predictions promises to      *)
(* project "if the recent rate is declining" but tests only the projection, which with *)
(* its rounding must imply it.                                                         *)
HighMeansDecline == Risk(outcomes) = "High" => Trend(outcomes) < 0

(* The number of sessions shown is the first after which, at the recent rate, the      *)
(* percentage is down to the threshold; whoever is flagged High has such a number, and *)
(* gets there within the lookahead.                                                    *)
UntilIsFirstCrossing ==
  Len(outcomes) >= MinSessions =>
    LET After(n) == 1000 * Present(outcomes) + RecentRate(outcomes) * n
        until == Until(outcomes)
    IN  /\ until # None =>
             /\ After(until) <= Threshold * (Len(outcomes) + until)
             /\ until > 0 => After(until - 1) > Threshold * (Len(outcomes) + until - 1)
        /\ Risk(outcomes) = "High" => until \in 0..Lookahead

\* The runs of absences, the empty ones included.
Absences ==
  {r \in [from : 1..(Len(outcomes) + 1), to : 0..Len(outcomes)] :
     r.from <= r.to + 1 /\ \A i \in r.from..r.to : outcomes[i] = 0}
Size(r) == r.to - r.from + 1

(* The two absence streaks the model learns from are what they are called: runs of *)
(* absences, the one as long as any, the other at the end.                         *)
StreaksAreRuns ==
  LET k == Streaks(outcomes)
  IN  /\ \E r \in Absences : Size(r) = k.longest
      /\ \A r \in Absences :
           Size(r) <= k.longest /\ (r.to = Len(outcomes) => Size(r) <= k.trailing)
      /\ \E r \in Absences : r.to = Len(outcomes) /\ Size(r) = k.trailing

(* The sessions after an example's future have no part in it: a history cut short has   *)
(* the first examples of the whole one, and no others.  What falls within an example's  *)
(* sessions does change it: one planned, or moved there, counts as an absence until the *)
(* mark, and so in the label that build_training_examples says is "what actually        *)
(* happened".                                                                           *)
ExamplesLocal ==
  \A n \in 0..Len(outcomes) : IsPrefix(Examples(SubSeq(outcomes, 1, n)), Examples(outcomes))

(* No label leaks into the features: they are made of "ONLY the outcomes up to that *)
(* point" and stay as they are if every outcome after it is another                 *)
(* (_features_from_history).                                                        *)
LabelUnseen ==
  \A i \in DOMAIN Examples(outcomes) :
    LET Otherwise == [j \in DOMAIN outcomes |->
                        IF j < MinSessions + i THEN outcomes[j] ELSE 1 - outcomes[j]]
    IN  Examples(Otherwise)[i].of = Examples(outcomes)[i].of
=============================================================================
