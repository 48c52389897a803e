------------------------------ MODULE SessionRules ------------------------------
(**********************************************************************************)
(* What a session's schedule means to the handlers that read it: whether it       *)
(* conflicts with another, whether it is listed, whether the lazy close takes it, *)
(* and what a mark would be worth.  Each works on the same row and none asks the  *)
(* others.  Cancellation, rescheduling and the interleavings are                  *)
(* SessionLifecycle's; here a handler is one step and time is the matter.         *)
(**********************************************************************************)
EXTENDS Integers

CONSTANTS
  SessionId,  \* session rows
  Plan,       \* the schedules admins enter; grace and window are Default or an override
  DayLength,  \* minutes in a day
  Grace,      \* LATE_ENTRY_GRACE_MINUTES
  LateWindow, \* LATE_ENTRY_LATE_WINDOW_MINUTES
  MaxNow      \* bound: the last minute

Default == -1

VARIABLES
  session,    \* the sessions table
  now,        \* the clock
  answer,     \* the last mark of anybody
  enforce,    \* LATE_ENTRY_ENFORCEMENT_ENABLED
  autoclose   \* SESSION_AUTO_CLOSE_ENABLED

vars == <<session, now, answer, enforce, autoclose>>

NoRow == [status |-> "none"]
Row == [plan : Plan, status : {"scheduled", "active", "completed"}, active : BOOLEAN]
NoAnswer == [says |-> "nothing"]
Answer == [plan : Plan, at : Nat, says : {"Present", "Late", "closed", "not active"}]

TypeOK ==
  /\ session \in [SessionId -> Row \cup {NoRow}]
  /\ now \in 0..MaxNow
  /\ answer \in Answer \cup {NoAnswer}
  /\ enforce \in BOOLEAN /\ autoclose \in BOOLEAN

Init ==
  /\ session = [e \in SessionId |-> NoRow] /\ now = 0 /\ answer = NoAnswer
  /\ enforce \in BOOLEAN /\ autoclose \in BOOLEAN

Today == now \div DayLength
TimeOfDay == now % DayLength

-----------------------------------------------------------------------------
(* Reading a schedule *)

\* _session_start_datetime: the first day's start, of a daily session too.
StartOf(p) == p.date * DayLength + p.from
EndOf(p) == p.end * DayLength + p.to

\* _session_attendance_window_minutes, _session_grace_period_minutes
WindowOf(p) == IF p.window = Default THEN Grace + LateWindow ELSE p.window
GraceOf(p) == IF p.grace = Default THEN Grace ELSE p.grace

\* _late_entry_status
LateEntry(p) ==
  CASE ~enforce \/ now <= StartOf(p) + GraceOf(p) -> "Present"
    [] enforce /\ now > StartOf(p) + GraceOf(p) /\ now <= StartOf(p) + WindowOf(p) -> "Late"
    [] OTHER -> "closed"

\* find_conflicting_session
Conflict(p, q) ==
  /\ p.date <= q.end /\ q.date <= p.end
  /\ p.from < q.to /\ q.from < p.to

\* Slip: a daily session's window starts anew each day.
SweptDaily(row) ==
  LET start == IF row.plan.daily /\ Today > row.plan.date /\ Today <= row.plan.end
               THEN Today * DayLength + row.plan.from ELSE StartOf(row.plan)
  IN  IF autoclose /\ row.status = "active" /\ now > start + WindowOf(row.plan)
      THEN [row EXCEPT !.status = "completed", !.active = FALSE]
      ELSE row

\* _maybe_auto_close_session, _auto_close_expired_sessions on one row
Swept(row) ==
  IF autoclose /\ row.status = "active" /\ now > StartOf(row.plan) + WindowOf(row.plan)
  THEN [row EXCEPT !.status = "completed", !.active = FALSE]
  ELSE row

\* get_active_sessions lists the row: started by hand, or within its schedule.
Listed(row) ==
  \/ row.active
  \/ /\ row.plan.daily
     /\ Today \in row.plan.date .. row.plan.end
     /\ TimeOfDay \in row.plan.from .. row.plan.to
  \/ /\ ~row.plan.daily
     /\ now \in StartOf(row.plan) .. EndOf(row.plan)

-----------------------------------------------------------------------------

Rows == {e \in SessionId : session[e] # NoRow}

\* admin_sessions, POST
Create(e, p) ==
  /\ e \notin Rows
  /\ \A f \in Rows : ~Conflict(p, session[f].plan)
  /\ session' = [session EXCEPT ![e] = [plan |-> p, status |-> "scheduled", active |-> FALSE]]
  /\ UNCHANGED <<now, answer, enforce, autoclose>>

\* start_session
Start(e) ==
  /\ e \in Rows
  /\ session' = [session EXCEPT ![e].status = "active", ![e].active = TRUE]
  /\ UNCHANGED <<now, answer, enforce, autoclose>>

\* stop_session
Stop(e) ==
  /\ e \in Rows
  /\ session' = [session EXCEPT ![e].status = "completed", ![e].active = FALSE]
  /\ UNCHANGED <<now, answer, enforce, autoclose>>

\* get_active_sessions closes what has elapsed, then lists.
List ==
  /\ session' = [e \in SessionId |-> IF e \in Rows THEN Swept(session[e]) ELSE NoRow]
  /\ UNCHANGED <<now, answer, enforce, autoclose>>

\* student_mark_attendance, as far as the schedule decides it
MarkAttempt(e) ==
  /\ e \in Rows
  /\ session' = [session EXCEPT ![e] = Swept(@)]
  /\ answer' = [plan |-> session[e].plan, at |-> now,
                says |-> IF session'[e].active THEN LateEntry(session[e].plan) ELSE "not active"]
  /\ UNCHANGED <<now, enforce, autoclose>>

Tick ==
  /\ now < MaxNow /\ now' = now + 1
  /\ UNCHANGED <<session, answer, enforce, autoclose>>

Next ==
  \/ Tick \/ List
  \/ \E e \in SessionId :
       Start(e) \/ Stop(e) \/ MarkAttempt(e) \/ \E p \in Plan : Create(e, p)

Spec == Init /\ [][Next]_vars

-----------------------------------------------------------------------------

Overnight(p) == ~p.daily /\ p.end > p.date

(* "A student can't physically attend two overlapping sessions": of two sessions the    *)
(* conflict check let in and nobody started, both are listed only in the minute in      *)
(* which one ends and the other begins, or while a session that runs through the night, *)
(* which the check compares by time of day, is on.                                      *)
NoTwoListed ==
  \A e, f \in Rows :
    LET p == session[e].plan
        q == session[f].plan
    IN  /\ e # f
        /\ \A row \in {session[e], session[f]} : ~row.active /\ Listed(row)
        => \/ TimeOfDay \in {p.to, q.to} \cap {p.from, q.from}
           \/ Overnight(p) \/ Overnight(q)

(* With the lazy close on, a session the list shows as started takes a mark in that *)
(* minute: the close and the late-entry rule agree on the window, overrides and     *)
(* boundaries included.                                                             *)
StartedIsOpen ==
  \A e \in Rows :
    autoclose /\ Swept(session[e]).active => LateEntry(session[e].plan) # "closed"

(* A mark is accepted no later than a window after the first day's start where the lazy *)
(* close is on, and where only the late-entry rule is, no later than its longer span.   *)
(* A daily session therefore takes no marks on its later days unless its window is      *)
(* days long.                                                                           *)
MarkedInWindow ==
  answer.says \in {"Present", "Late"} =>
    /\ autoclose => answer.at <= StartOf(answer.plan) + WindowOf(answer.plan)
    /\ enforce => \/ answer.at <= StartOf(answer.plan) + WindowOf(answer.plan)
                  \/ answer.at <= StartOf(answer.plan) + GraceOf(answer.plan)
=============================================================================
