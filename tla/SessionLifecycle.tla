--------------------------- MODULE SessionLifecycle ---------------------------
(***************************************************************************)
(* The sessions table and the handlers of app.py that write it: creation,  *)
(* start, stop, cancellation, rescheduling, deletion and the lazy          *)
(* auto-close that every listing page, session page and mark runs.         *)
(*                                                                         *)
(* As in Attendance, one SQL statement is one step, a worker serves one    *)
(* request at a time, and a request may die between two statements.        *)
(***************************************************************************)
EXTENDS Integers

CONSTANTS
  MaxSession,         \* session ids are 1 .. MaxSession
  Request,            \* worker slots
  Window,             \* the date and time windows admins enter
  DayLength,          \* instants in a day
  AttendanceMinutes,  \* instants a session stays open after its start
  MaxNow              \* bound: the last instant of the clock

ASSUME MaxSessionAssumption == MaxSession \in Nat \ {0}
ASSUME WindowAssumption == Window \subseteq [date : Nat, end : Nat, from : Nat, to : Nat]
ASSUME ClockAssumption ==
  /\ DayLength \in Nat \ {0}
  /\ AttendanceMinutes \in Nat /\ MaxNow \in Nat

SessionId == 1 .. MaxSession

VARIABLES
  session,    \* the sessions table, NoRow where there is no row
  now,        \* the wall clock
  req,        \* what each worker is doing
  raced,      \* history: requests whose conflict check was overtaken
  unchecked   \* history: sessions that took their slot without a valid check

vars == <<session, now, req, raced, unchecked>>

-----------------------------------------------------------------------------
(* Types *)

Status == {"scheduled", "active", "completed", "cancelled"}
Row == [status : Status, active : BOOLEAN, window : Window]
NoRow == [status |-> "none"]

Seen == [id : SessionId, window : Window]
Creating == [pc : {"create"}, id : {0}, window : Window]
Cancelling == [pc : {"cancel"}, id : SessionId]
Moving == [pc : {"check", "move"}, id : SessionId, window : Window, status : Status]
Sweeping == [pc : {"sweep"}, todo : SUBSET Seen, all : BOOLEAN, at : Nat]
Idle == [pc |-> "idle"]
Work == Creating \cup Cancelling \cup Moving \cup Sweeping \cup {Idle}

TypeOK ==
  /\ session \in [SessionId -> Row \cup {NoRow}]
  /\ now \in Nat
  /\ req \in [Request -> Work]
  /\ raced \subseteq Request
  /\ unchecked \subseteq SessionId

Init ==
  /\ session = [e \in SessionId |-> NoRow]
  /\ now = 0
  /\ req = [r \in Request |-> Idle]
  /\ raced = {} /\ unchecked = {}

-----------------------------------------------------------------------------
(* Windows *)

\* find_conflicting_session: the date ranges meet and the times of day overlap.
Overlap(v, w) ==
  /\ v.date <= w.end /\ w.date <= v.end
  /\ v.from < w.to /\ w.from < v.to

StartOf(w) == w.date * DayLength + w.from
Elapsed(w, t) == t > StartOf(w) + AttendanceMinutes

Exists(e) == session[e].status # "none"
LiveRow(row) == row.status \notin {"none", "cancelled"}
Live(e) == LiveRow(session[e])

\* Slip: sessions that already took place are skipped as well.
ConflictsUnlessCompleted(id, w) ==
  \E e \in SessionId :
    /\ e # id /\ Live(e) /\ session[e].status # "completed"
    /\ Overlap(session[e].window, w)

\* A cancelled session, and the one being moved, do not count.
Conflicts(id, w) ==
  \E e \in SessionId : e # id /\ Live(e) /\ Overlap(session[e].window, w)

-----------------------------------------------------------------------------
(* Control of a request, and the UPDATE or INSERT of one row. *)

At(r, step) == req[r].pc = step
Enter(r, work) == req' = [req EXCEPT ![r] = work]
Finish(r) == req' = [req EXCEPT ![r] = Idle]

\* The conflict check is done and the write it is for is not.
Checked(r) == req[r].pc \in {"create", "move"}

\* The row takes a slot it did not hold before.
Moves(e, row) ==
  LiveRow(row) /\ (Live(e) => session[e].window # row.window)

Write(r, e, row, verified) ==
  /\ session' = [session EXCEPT ![e] = row]
  /\ raced' = {q \in Request \ {r} : Checked(q) /\ (q \in raced \/ Moves(e, row))}
  /\ unchecked' = IF ~LiveRow(row) \/ (Moves(e, row) /\ verified) THEN unchecked \ {e}
                  ELSE IF Moves(e, row) THEN unchecked \cup {e}
                  ELSE unchecked
  /\ UNCHANGED now

\* UPDATE ... WHERE id = ?: no row, no change.
SetStatus(r, e, status, active) ==
  IF Exists(e)
  THEN Write(r, e, [session[e] EXCEPT !.status = status, !.active = active], FALSE)
  ELSE UNCHANGED <<session, now, raced, unchecked>>

-----------------------------------------------------------------------------
(* Creation: admin_sessions (POST). *)

CreateCheck(r) ==
  /\ At(r, "idle")
  /\ \E w \in Window :
       /\ ~Conflicts(0, w)
       /\ Enter(r, [pc |-> "create", id |-> 0, window |-> w])
  /\ UNCHANGED <<session, now, raced, unchecked>>

\* INTEGER PRIMARY KEY without AUTOINCREMENT: max(rowid) + 1.
NextId(e) ==
  /\ ~Exists(e)
  /\ e > 1 => Exists(e - 1)
  /\ \A f \in SessionId : f > e => ~Exists(f)

NewRow(w) == [status |-> "scheduled", active |-> FALSE, window |-> w]

\* Slip: a new session is open at once.
CreateInsertOpen(r) ==
  /\ At(r, "create")
  /\ \E e \in SessionId :
       /\ NextId(e)
       /\ Write(r, e, [status |-> "active", active |-> TRUE,
                       window |-> req[r].window], r \notin raced)
  /\ Finish(r)

CreateInsert(r) ==
  /\ At(r, "create")
  /\ \E e \in SessionId :
       NextId(e) /\ Write(r, e, NewRow(req[r].window), r \notin raced)
  /\ Finish(r)

-----------------------------------------------------------------------------
(* Start, stop and delete are one statement each. *)

Start(r, e) ==
  At(r, "idle") /\ SetStatus(r, e, "active", TRUE) /\ UNCHANGED req

\* Slip: a stopped session gets a status of its own.
StopAsStopped(r, e) ==
  At(r, "idle") /\ SetStatus(r, e, "stopped", FALSE) /\ UNCHANGED req

Stop(r, e) ==
  At(r, "idle") /\ SetStatus(r, e, "completed", FALSE) /\ UNCHANGED req

Delete(r, e) ==
  At(r, "idle") /\ Exists(e) /\ Write(r, e, NoRow, FALSE) /\ UNCHANGED req

(* Cancellation: cancel_session looks the row up, then updates it. *)

CancelRead(r, e) ==
  /\ At(r, "idle")
  /\ Exists(e)
  /\ Enter(r, [pc |-> "cancel", id |-> e])
  /\ UNCHANGED <<session, now, raced, unchecked>>

\* Slip: only the status is written.
CancelUpdateStatusOnly(r) ==
  /\ At(r, "cancel")
  /\ SetStatus(r, req[r].id, "cancelled", session[req[r].id].active)
  /\ Finish(r)

CancelUpdate(r) ==
  /\ At(r, "cancel")
  /\ SetStatus(r, req[r].id, "cancelled", FALSE)
  /\ Finish(r)

-----------------------------------------------------------------------------
(* Rescheduling: reschedule_session reads the row, then the whole table, and *)
(* writes the window together with the status it read first.                 *)

RescheduleRead(r, e) ==
  /\ At(r, "idle")
  /\ Exists(e) /\ session[e].status # "completed"
  /\ \E w \in Window :
       Enter(r, [pc |-> "check", id |-> e, window |-> w,
                 status |-> session[e].status])
  /\ UNCHANGED <<session, now, raced, unchecked>>

RescheduleCheck(r) ==
  /\ At(r, "check")
  /\ IF Conflicts(req[r].id, req[r].window)
     THEN Finish(r)
     ELSE Enter(r, [req[r] EXCEPT !.pc = "move"])
  /\ UNCHANGED <<session, now, raced, unchecked>>

RescheduleUpdate(r) ==
  /\ At(r, "move")
  /\ LET e == req[r].id
         status == IF req[r].status = "cancelled" THEN "scheduled" ELSE req[r].status
         row == [status |-> status, active |-> FALSE, window |-> req[r].window]
     IN  IF Exists(e)
         THEN Write(r, e, row, r \notin raced)
         ELSE raced' = raced \ {r} /\ UNCHANGED <<session, now, unchecked>>
  /\ Finish(r)

-----------------------------------------------------------------------------
(* Lazy auto-close: _auto_close_expired_sessions on the listing pages (all) *)
(* and _maybe_auto_close_session on a session page or a mark (one row).     *)

Snapshot(ids) ==
  {[id |-> e, window |-> session[e].window] : e \in ids}

\* Slip: the sweep lists the rows whose active flag is set.
SweepListByFlag(r) ==
  /\ At(r, "idle")
  /\ \E all \in BOOLEAN, ids \in SUBSET {e \in SessionId : Exists(e) /\ session[e].active} :
       /\ IF all THEN \A e \in SessionId : Exists(e) /\ session[e].active => e \in ids
                 ELSE \E e \in SessionId : ids = {e}
       /\ Enter(r, [pc |-> "sweep", todo |-> Snapshot(ids), all |-> all, at |-> now])
  /\ UNCHANGED <<session, now, raced, unchecked>>

SweepList(r) ==
  /\ At(r, "idle")
  /\ \E all \in BOOLEAN, ids \in SUBSET {e \in SessionId : session[e].status = "active"} :
       /\ IF all THEN \A e \in SessionId : session[e].status = "active" => e \in ids
                 ELSE \E e \in SessionId : ids = {e}
       /\ Enter(r, [pc |-> "sweep", todo |-> Snapshot(ids), all |-> all, at |-> now])
  /\ UNCHANGED <<session, now, raced, unchecked>>

Remove(r, seen) == req' = [req EXCEPT ![r].todo = @ \ {seen}]

First(seen, todo) == \A other \in todo : seen.id <= other.id

\* One listed row: the window it was listed with decides, and the UPDATE goes
\* by id alone.
SweepNext(r) ==
  /\ At(r, "sweep")
  /\ \E seen \in req[r].todo :
       /\ First(seen, req[r].todo)
       /\ IF Elapsed(seen.window, now)
          THEN SetStatus(r, seen.id, "completed", FALSE)
          ELSE UNCHANGED <<session, now, raced, unchecked>>
       /\ Remove(r, seen)

\* The page is rendered from a fresh SELECT.
SweepDone(r) ==
  /\ At(r, "sweep") /\ req[r].todo = {}
  /\ Finish(r)
  /\ UNCHANGED <<session, now, raced, unchecked>>

-----------------------------------------------------------------------------

Abort(r) ==
  /\ ~At(r, "idle")
  /\ Finish(r)
  /\ raced' = raced \ {r}
  /\ UNCHANGED <<session, now, unchecked>>

Tick ==
  /\ now < MaxNow
  /\ now' = now + 1
  /\ UNCHANGED <<session, req, raced, unchecked>>

Handler(r) ==
  \/ CreateCheck(r) \/ CreateInsert(r)
  \/ CancelUpdate(r)
  \/ RescheduleCheck(r) \/ RescheduleUpdate(r)
  \/ SweepList(r) \/ SweepNext(r) \/ SweepDone(r)
  \/ Abort(r)
  \/ \E e \in SessionId :
       \/ Start(r, e) \/ Stop(r, e) \/ Delete(r, e)
       \/ CancelRead(r, e) \/ RescheduleRead(r, e)

Next == Tick \/ \E r \in Request : Handler(r)

Spec == Init /\ [][Next]_vars

-----------------------------------------------------------------------------
(* Properties *)

\* The active flag, which alone opens a session to marks, is set only under
\* status 'active': whatever overtakes what, no cancelled, completed or
\* scheduled session is open.
OpenIsActive ==
  \A e \in SessionId : Exists(e) /\ session[e].active => session[e].status = "active"

\* If two sessions that both count share a slot, which the "automatic overlap
\* detection" is to prevent, one of them was written after its conflict check had
\* been overtaken by another write, or came back from 'cancelled' by a start, a stop
\* or an auto-close, none of which checks.
DoubleBookingExplained ==
  \A e, f \in SessionId :
    /\ e # f /\ Live(e) /\ Live(f)
    /\ Overlap(session[e].window, session[f].window)
    => e \in unchecked \/ f \in unchecked

\* A listing page shows as active no session whose window had elapsed when the
\* page was asked for ("so the list a person sees is accurate").  True with one
\* worker only.
ListingIsAccurate ==
  \A r \in Request :
    At(r, "sweep") /\ req[r].all /\ req[r].todo = {} =>
      \A e \in SessionId :
        session[e].status = "active" => ~Elapsed(session[e].window, req[r].at)

\* What the attendance handlers see of a session.
GateOf(row) ==
  IF row.status \in {"none", "cancelled"} THEN row.status
  ELSE IF row.active THEN "open" ELSE "closed"

View == [e \in SessionId |-> GateOf(session[e])]

Gate == INSTANCE SessionGate WITH gate <- View

\* The handlers, however they interleave, change what attendance sees of the
\* sessions in the single steps that Attendance is built on.
ImplementsGate == Gate!Spec
=============================================================================
