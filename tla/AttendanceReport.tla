---------------------------- MODULE AttendanceReport ----------------------------
(************************************************************************************)
(* The figures of /admin/reports and /admin/analytics as the attendance data grows: *)
(* a row per student, the class-wide trend, and the comparison of cohorts and of    *)
(* subjects, each counted by a loop of its own over the same sessions.              *)
(************************************************************************************)
EXTENDS Integers, FiniteSetsExt

CONSTANTS
  SessionId, \* session rows
  Student,   \* students
  Branch,    \* the branch of each student, "" if blank
  Subject,   \* subjects
  Day        \* dates

VARIABLES
  session,   \* the sessions table, with the attendance rows of each session
  late       \* LATE_COUNTS_AS_PRESENT

vars == <<session, late>>

NoRow == [took |-> "none"]
Row == [took : {"not yet", "place", "cancelled"}, subject : Subject, day : Day,
        status : [Student -> {"none", "Present", "Late"}]]

TypeOK == session \in [SessionId -> Row \cup {NoRow}] /\ late \in BOOLEAN

Init == session = [e \in SessionId |-> NoRow] /\ late \in BOOLEAN

Rows == {e \in SessionId : session[e] # NoRow}

-----------------------------------------------------------------------------

\* admin_sessions, POST
Schedule(e, subject, day) ==
  /\ e \notin Rows
  /\ session' = [session EXCEPT ![e] =
       [took |-> "not yet", subject |-> subject, day |-> day,
        status |-> [st \in Student |-> "none"]]]
  /\ UNCHANGED late

\* start_session, of a cancelled session as well
Hold(e) ==
  /\ e \in Rows /\ session[e].took # "place"
  /\ session' = [session EXCEPT ![e].took = "place"]
  /\ UNCHANGED late

\* cancel_session: at any time, and the attendance rows stay.
Cancel(e) ==
  /\ e \in Rows /\ session[e].took # "cancelled"
  /\ session' = [session EXCEPT ![e].took = "cancelled"]
  /\ UNCHANGED late

\* A mark.
Record(e, st, status) ==
  /\ e \in Rows /\ session[e].took = "place" /\ session[e].status[st] = "none"
  /\ session' = [session EXCEPT ![e].status[st] = status]
  /\ UNCHANGED late

Next ==
  \E e \in SessionId :
    \/ Hold(e) \/ Cancel(e)
    \/ \E subject \in Subject, day \in Day : Schedule(e, subject, day)
    \/ \E st \in Student, status \in {"Present", "Late"} : Record(e, st, status)

Spec == Init /\ [][Next]_vars

-----------------------------------------------------------------------------
(* The report over a set of sessions.  A filter on subject or dates picks the set.    *)

\* _attendance_counts_as_present
Counts(status) == status \in {"Present"} \cup IF late THEN {"Late"} ELSE {}

Number(S, P(_)) == Cardinality({x \in S : P(x)})

\* Slip: a late student is in both counts.
LineTwice(E, st) ==
  LET lates == Number(E, LAMBDA e : session[e].status[st] = "Late")
      presents == Number(E, LAMBDA e : Counts(session[e].status[st]))
  IN  [total |-> Cardinality(E), present |-> presents, late |-> lates,
       absent |-> Cardinality(E) - presents, counted |-> presents + IF late THEN lates ELSE 0]

\* _compute_attendance_report: the line of student st.  Every session in the filter
\* counts, whatever became of it.
Line(E, st) ==
  LET lates == Number(E, LAMBDA e : session[e].status[st] = "Late")
      presents == Number(E, LAMBDA e : session[e].status[st] = "Present")
  IN  [total |-> Cardinality(E), present |-> presents, late |-> lates,
       absent |-> Cardinality(E) - presents - lates,
       counted |-> presents + IF late THEN lates ELSE 0]

\* round(n / d * 100, 1), in tenths
Tenth(n, d) == (2000 * n + d) \div (2 * d)

Percentage(E, st) == Tenth(Line(E, st).counted, Line(E, st).total)

\* The trend's bucket of one day: the students there, of all that could have been.
Bucket(E, day) ==
  LET held == {e \in E : session[e].day = day}
  IN  [present |-> Cardinality({p \in held \X Student : Counts(session[p[1]].status[p[2]])}),
       total |-> Cardinality(held \X Student)]

OfSubject(s) == {e \in Rows : session[e].subject = s}

\* aggregate_cohort, by branch: the average of the members' rounded percentages
Cohorts ==
  LET Label(st) == IF Branch[st] = "" THEN "Unspecified" ELSE Branch[st]
      Members(b) == {st \in Student : Label(st) = b}
  IN  {[label |-> b, count |-> Cardinality(Members(b)),
        average |-> LET n == SumFunction([st \in Members(b) |-> Percentage(Rows, st)])
                    IN  (2 * n + Cardinality(Members(b))) \div (2 * Cardinality(Members(b)))]
        : b \in {Label(st) : st \in Student}}

-----------------------------------------------------------------------------

(* The page's two halves tell one story: the trend's buckets add up to what the      *)
(* students' lines count, though one loop goes by student and handles Late apart and *)
(* the other goes by date and does not.                                              *)
TrendAgreesWithReport ==
  LET days == {session[e].day : e \in Rows}
  IN  /\ SumFunction([d \in days |-> Bucket(Rows, d).present])
           = SumFunction([st \in Student |-> Line(Rows, st).counted])
      /\ SumFunction([d \in days |-> Bucket(Rows, d).total])
           = SumFunction([st \in Student |-> Line(Rows, st).total])

(* The reports of the subjects add up to the report of all: no session is counted in *)
(* two, none is lost, and each line's present, late and absent make its total.       *)
SubjectsAddUp ==
  \A st \in Student :
    /\ LET l == Line(Rows, st) IN l.present + l.late + l.absent = l.total
    /\ Line(Rows, st).counted = SumFunction([s \in Subject |-> Line(OfSubject(s), st).counted])
    /\ Line(Rows, st).absent = SumFunction([s \in Subject |-> Line(OfSubject(s), st).absent])

(* Every student is in one cohort, one with a blank branch too ("rather than dropped"), *)
(* and a cohort's average lies between its members' percentages.                        *)
CohortsCover ==
  Rows # {} =>
    LET all == {Percentage(Rows, st) : st \in Student}
    IN  /\ SumFunction([c \in Cohorts |-> c.count]) = Cardinality(Student)
        /\ \A c \in Cohorts : c.average \in Min(all)..Max(all)

(* A student has 100% in a subject exactly with a row that counts for each of its    *)
(* sessions, what became of the session aside: one that is only planned, or that was *)
(* cancelled and "never took place at all" (cancel_session), takes the 100% away.    *)
(* From 2000 sessions on, a single absence is rounded away.                          *)
PerfectMeansAll ==
  \A st \in Student, s \in Subject :
    OfSubject(s) # {} /\ Cardinality(OfSubject(s)) < 2000 =>
      (Percentage(OfSubject(s), st) = 1000
         <=> \A e \in OfSubject(s) : Counts(session[e].status[st]))
=============================================================================
