----------------------------- MODULE Attendance -----------------------------
(***************************************************************************)
(* The attendance table and every handler of app.py that writes it:        *)
(* self-service marking, the kiosk, the admin override, the correction     *)
(* requests and the deletion of a session or a student.                    *)
(*                                                                         *)
(* Each worker process serves one request at a time.  query_db and         *)
(* execute_db open a connection each and commit before they return, so     *)
(* one SQL statement is one step and a handler is interrupted between any  *)
(* two of them.  A request that dies (worker timeout, "database is         *)
(* locked", restart) stops after the statement it had reached.             *)
(***************************************************************************)
EXTENDS Integers, Sequences, FiniteSets

CONSTANTS
  Student,         \* ids of the students table
  MaxSession,      \* session ids are 1 .. MaxSession
  Request,         \* worker slots, each serving one request at a time
  Kinds,           \* the kinds of request the workload contains
  MaxRows,         \* bound: rows of one (student, session) pair
  MaxCorrections   \* bound: correction requests ever filed

AllKinds ==
  {"mark", "kiosk", "override", "file", "resolve", "delete", "lifecycle"}

ASSUME MaxSessionAssumption == MaxSession \in Nat \ {0}
ASSUME KindsAssumption == Kinds \subseteq AllKinds
ASSUME BoundAssumption == MaxRows \in Nat /\ MaxCorrections \in Nat

SessionId == 1 .. MaxSession
Pair == Student \X SessionId
AttStatus == {"Present", "Late", "Absent"}

VARIABLES
  session,      \* row of sessions: "none", "closed", "open" or "cancelled"
  locked,       \* ids whose end date is older than ATTENDANCE_EDIT_LOCK_DAYS
  rows,         \* rows[p]: the attendance rows of a pair, in rowid order
  corrections,  \* attendance_correction_requests, in rowid order
  kiosks,       \* sessions whose kiosk page is open in a browser
  req,          \* what each worker is doing
  torn,         \* history: pairs written inside another correction's window
  strayed,      \* history: pairs written while their session was gone or going
  applied       \* history: corrections whose row was inserted

tables == <<session, locked, rows, corrections, kiosks>>
history == <<torn, strayed, applied>>
vars == <<tables, req, history>>

(***************************************************************************)
(* Types.  "closed" stands for every row with active = 0 that is not       *)
(* cancelled, "open" for active = 1 (SessionLifecycle shows that active    *)
(* implies status 'active', so the gate of a mark sees just these).        *)
(***************************************************************************)
SessionState == {"none", "closed", "open", "cancelled"}
Correction ==
  [pair : Pair, want : AttStatus, status : {"pending", "approved", "rejected"}]

\* The statement a request executes next (its prefix names the handler).
Step ==
  {"m_existing", "m_insert", "o_delete", "o_insert", "f_pending",
   "f_insert", "r_session", "r_delete", "r_insert", "r_approve", "r_reject"}
Work ==
  {w \in [pc : Step, pair : Pair, want : AttStatus \cup {"clear"}, id : Nat] :
     w.want = "clear" => w.pc = "o_delete"}
Removal == [pc : {"d_session"}, id : SessionId]
Idle == [pc |-> "idle"]

TypeOK ==
  /\ session \in [SessionId -> SessionState]
  /\ locked \subseteq SessionId
  /\ rows \in [Pair -> Seq(AttStatus)]
  /\ corrections \in Seq(Correction)
  /\ kiosks \subseteq SessionId
  /\ req \in [Request -> Work \cup Removal \cup {Idle}]
  /\ torn \subseteq Pair
  /\ strayed \subseteq Pair
  /\ applied \subseteq Nat

Init ==
  /\ session = [e \in SessionId |-> "none"]
  /\ locked = {}
  /\ rows = [p \in Pair |-> <<>>]
  /\ corrections = <<>>
  /\ kiosks = {}
  /\ req = [r \in Request |-> Idle]
  /\ torn = {} /\ strayed = {} /\ applied = {}

-----------------------------------------------------------------------------
(* Control of a request. *)

At(r, step) == req[r].pc = step
Enter(r, step, p, want, id) ==
  req' = [req EXCEPT ![r] = [pc |-> step, pair |-> p, want |-> want, id |-> id]]
Goto(r, step) == req' = [req EXCEPT ![r].pc = step]
Finish(r) == req' = [req EXCEPT ![r] = Idle]
Begin(r, kind) == kind \in Kinds /\ At(r, "idle")

\* A correction is in its window once its DELETE is committed and its INSERT
\* is not; a session is going once its rows are deleted and its own row is not.
InWindow(r, p) == req[r].pc \in {"o_insert", "r_insert"} /\ req[r].pair = p
Going(e) == \E q \in Request : At(q, "d_session") /\ req[q].id = e

-----------------------------------------------------------------------------
(* The statements that write attendance rows. *)

AddRow(r, p, st) ==
  /\ Len(rows[p]) < MaxRows
  /\ rows' = [rows EXCEPT ![p] = Append(@, st)]
  /\ torn' = IF \E q \in Request \ {r} : InWindow(q, p) THEN torn \cup {p} ELSE torn
  /\ strayed' = IF session[p[2]] = "none" \/ Going(p[2])
                THEN strayed \cup {p} ELSE strayed

KeepRows == UNCHANGED <<rows, torn, strayed>>

\* Slip: the INSERT without its WHERE NOT EXISTS.
InsertUnguarded(r, p, st) == AddRow(r, p, st)

\* _insert_attendance_if_absent: one INSERT ... WHERE NOT EXISTS statement.
InsertIfAbsent(r, p, st) ==
  IF rows[p] = <<>> THEN AddRow(r, p, st) ELSE KeepRows

DeleteRows(P) ==
  /\ rows' = [p \in Pair |-> IF p \in P THEN <<>> ELSE rows[p]]
  /\ torn' = torn \ P
  /\ strayed' = strayed \ P

-----------------------------------------------------------------------------
(* Self-service marking: student_mark_attendance. *)

\* The session row is read (after its lazy auto-close, see AutoClose) and must
\* be active and not cancelled.
MarkBegin(r) ==
  /\ Begin(r, "mark")
  /\ \E p \in Pair : /\ session[p[2]] = "open"
                    /\ Enter(r, "m_existing", p, "Present", 0)
  /\ UNCHANGED <<tables, history>>

\* "Already marked", read before the late-entry rule and the face work ...
MarkAlready(r) ==
  /\ At(r, "m_existing")
  /\ rows[req[r].pair] # <<>>
  /\ Finish(r)
  /\ UNCHANGED <<tables, history>>

\* ... which either fixes the status to record or refuses the mark.
MarkVerified(r) ==
  /\ At(r, "m_existing")
  /\ rows[req[r].pair] = <<>>
  /\ \E st \in {"Present", "Late"} : Enter(r, "m_insert", req[r].pair, st, 0)
  /\ UNCHANGED <<tables, history>>

MarkInsert(r) ==
  /\ At(r, "m_insert")
  /\ InsertIfAbsent(r, req[r].pair, req[r].want)
  /\ Finish(r)
  /\ UNCHANGED <<session, locked, corrections, kiosks, applied>>

(* The kiosk: attendance_session opens the page, session_recognize writes. *)

OpenKiosk(e) ==
  /\ \E r \in Request : Begin(r, "kiosk")
  /\ session[e] # "none" /\ e \notin kiosks
  /\ kiosks' = kiosks \cup {e}
  /\ UNCHANGED <<session, locked, rows, corrections, req, history>>

\* Slip: the kiosk stores the status word of its JSON reply.
KioskMarkLowercase(r) ==
  /\ Begin(r, "kiosk")
  /\ \E p \in Pair : p[2] \in kiosks /\ InsertIfAbsent(r, p, "present")
  /\ UNCHANGED <<session, locked, corrections, kiosks, req, applied>>

\* A face is recognised on an open page.  Neither the session row nor the edit
\* lock is consulted.
KioskMark(r) ==
  /\ Begin(r, "kiosk")
  /\ \E p \in Pair : p[2] \in kiosks /\ InsertIfAbsent(r, p, "Present")
  /\ UNCHANGED <<session, locked, corrections, kiosks, req, applied>>

(* The admin override: session_override. *)

OverrideBegin(r) ==
  /\ Begin(r, "override")
  /\ \E p \in Pair, want \in AttStatus \cup {"clear"} :
       /\ session[p[2]] # "none"
       /\ p[2] \notin locked
       /\ Enter(r, "o_delete", p, want, 0)
  /\ UNCHANGED <<tables, history>>

\* Slip: the old row is removed only when the record is cleared.
OverrideDeleteOnClear(r) ==
  /\ At(r, "o_delete")
  /\ DeleteRows(IF req[r].want = "clear" THEN {req[r].pair} ELSE {})
  /\ IF req[r].want = "clear" THEN Finish(r) ELSE Goto(r, "o_insert")
  /\ UNCHANGED <<session, locked, corrections, kiosks, applied>>

OverrideDelete(r) ==
  /\ At(r, "o_delete")
  /\ DeleteRows({req[r].pair})
  /\ IF req[r].want = "clear" THEN Finish(r) ELSE Goto(r, "o_insert")
  /\ UNCHANGED <<session, locked, corrections, kiosks, applied>>

OverrideInsert(r) ==
  /\ At(r, "o_insert")
  /\ AddRow(r, req[r].pair, req[r].want)
  /\ Finish(r)
  /\ UNCHANGED <<session, locked, corrections, kiosks, applied>>

-----------------------------------------------------------------------------
(* A student files a correction: request_attendance_correction. *)

HasPending(p) ==
  \E c \in DOMAIN corrections :
    corrections[c].pair = p /\ corrections[c].status = "pending"

FileBegin(r) ==
  /\ Begin(r, "file")
  /\ \E p \in Pair, want \in AttStatus :
       /\ session[p[2]] # "none"
       /\ p[2] \notin locked
       /\ Enter(r, "f_pending", p, want, 0)
  /\ UNCHANGED <<tables, history>>

\* Slip: no check for a pending request.
FilePendingUnchecked(r) ==
  /\ At(r, "f_pending")
  /\ Goto(r, "f_insert")
  /\ UNCHANGED <<tables, history>>

FilePending(r) ==
  /\ At(r, "f_pending")
  /\ IF HasPending(req[r].pair) THEN Finish(r) ELSE Goto(r, "f_insert")
  /\ UNCHANGED <<tables, history>>

FileInsert(r) ==
  /\ At(r, "f_insert")
  /\ Len(corrections) < MaxCorrections
  /\ corrections' = Append(corrections, [pair |-> req[r].pair,
                                         want |-> req[r].want,
                                         status |-> "pending"])
  /\ Finish(r)
  /\ UNCHANGED <<session, locked, rows, kiosks, history>>

(* An admin resolves it: resolve_attendance_correction. *)

ResolveBegin(r) ==
  /\ Begin(r, "resolve")
  /\ \E c \in DOMAIN corrections, next \in {"r_session", "r_reject"} :
       /\ corrections[c].status = "pending"
       /\ Enter(r, next, corrections[c].pair, corrections[c].want, c)
  /\ UNCHANGED <<tables, history>>

\* A session row that is gone does not stop the approval.
ApproveCheck(r) ==
  /\ At(r, "r_session")
  /\ LET e == req[r].pair[2]
     IN  IF session[e] # "none" /\ e \in locked
         THEN Finish(r) ELSE Goto(r, "r_delete")
  /\ UNCHANGED <<tables, history>>

\* Slip: the request is marked approved before its row is written.
ApproveDeleteMarksFirst(r) ==
  /\ At(r, "r_delete")
  /\ DeleteRows({req[r].pair})
  /\ corrections' = [corrections EXCEPT ![req[r].id].status = "approved"]
  /\ Goto(r, "r_insert")
  /\ UNCHANGED <<session, locked, kiosks, applied>>

ApproveDelete(r) ==
  /\ At(r, "r_delete")
  /\ DeleteRows({req[r].pair})
  /\ Goto(r, "r_insert")
  /\ UNCHANGED <<session, locked, corrections, kiosks, applied>>

ApproveInsert(r) ==
  /\ At(r, "r_insert")
  /\ AddRow(r, req[r].pair, req[r].want)
  /\ applied' = applied \cup {req[r].id}
  /\ Goto(r, "r_approve")
  /\ UNCHANGED <<session, locked, corrections, kiosks>>

\* UPDATE ... WHERE id = ?, whatever the status has become meanwhile.
ResolveWrite(r) ==
  /\ req[r].pc \in {"r_approve", "r_reject"}
  /\ corrections' =
       [corrections EXCEPT ![req[r].id].status =
          IF At(r, "r_approve") THEN "approved" ELSE "rejected"]
  /\ Finish(r)
  /\ UNCHANGED <<session, locked, rows, kiosks, history>>

-----------------------------------------------------------------------------
(* Deletion of a session: delete_session, two statements. *)

\* Slip: the attendance of the session is left behind.
DeleteSessionKeepingRows(r) ==
  /\ Begin(r, "delete")
  /\ \E e \in SessionId :
       req' = [req EXCEPT ![r] = [pc |-> "d_session", id |-> e]]
  /\ UNCHANGED <<tables, history>>

DeleteSessionRows(r) ==
  /\ Begin(r, "delete")
  /\ \E e \in SessionId :
       /\ DeleteRows({p \in Pair : p[2] = e})
       /\ req' = [req EXCEPT ![r] = [pc |-> "d_session", id |-> e]]
  /\ UNCHANGED <<session, locked, corrections, kiosks, applied>>

DeleteSession(r) ==
  /\ At(r, "d_session")
  /\ session' = [session EXCEPT ![req[r].id] = "none"]
  /\ locked' = locked \ {req[r].id}
  /\ Finish(r)
  /\ UNCHANGED <<rows, corrections, kiosks, history>>

\* delete_student starts by removing the student's rows; the tables its other
\* statements clear are not modelled here.
DeleteStudentRows(r) ==
  /\ Begin(r, "delete")
  /\ \E s \in Student : DeleteRows({p \in Pair : p[1] = s})
  /\ UNCHANGED <<session, locked, corrections, kiosks, req, applied>>

(***************************************************************************)
(* The lifecycle of a session as attendance sees it (the handlers, with    *)
(* their own races, are in SessionLifecycle): each is one UPDATE or INSERT *)
(* served by a worker that is free.  A new row gets the id after the       *)
(* largest one in use: the column is INTEGER PRIMARY KEY without           *)
(* AUTOINCREMENT, so the id of a deleted last session is used again.       *)
(***************************************************************************)
SetSession(e, state) ==
  /\ \E r \in Request : Begin(r, "lifecycle")
  /\ session' = [session EXCEPT ![e] = state]
  /\ UNCHANGED <<rows, corrections, kiosks, req, history>>

Schedule(e) ==
  /\ session[e] = "none"
  /\ e > 1 => session[e - 1] # "none"
  /\ \A f \in SessionId : f > e => session[f] = "none"
  /\ SetSession(e, "closed")
  /\ UNCHANGED locked

Start(e) == session[e] # "none" /\ SetSession(e, "open") /\ UNCHANGED locked
Stop(e) == session[e] # "none" /\ SetSession(e, "closed") /\ UNCHANGED locked
Cancel(e) == session[e] # "none" /\ SetSession(e, "cancelled") /\ UNCHANGED locked
AutoClose(e) == session[e] = "open" /\ SetSession(e, "closed") /\ UNCHANGED locked

\* The new dates decide whether the edit lock applies from now on.
Reschedule(e) ==
  /\ session[e] # "none"
  /\ SetSession(e, "closed")
  /\ locked' \in {locked \ {e}, locked \cup {e}}

\* The end date falls more than ATTENDANCE_EDIT_LOCK_DAYS behind.
Age(e) ==
  /\ session[e] # "none" /\ e \notin locked
  /\ locked' = locked \cup {e}
  /\ UNCHANGED <<session, rows, corrections, kiosks, req, history>>

\* A request stops between two of its statements: it was refused later on
\* (face verification), its worker was killed, or SQLite raised an error.
Abort(r) ==
  /\ ~At(r, "idle")
  /\ Finish(r)
  /\ UNCHANGED <<tables, history>>

Handler(r) ==
  \/ MarkBegin(r) \/ MarkAlready(r) \/ MarkVerified(r) \/ MarkInsert(r)
  \/ KioskMark(r)
  \/ OverrideBegin(r) \/ OverrideDelete(r) \/ OverrideInsert(r)
  \/ FileBegin(r) \/ FilePending(r) \/ FileInsert(r)
  \/ ResolveBegin(r) \/ ApproveCheck(r) \/ ApproveDelete(r)
  \/ ApproveInsert(r) \/ ResolveWrite(r)
  \/ DeleteSessionRows(r) \/ DeleteSession(r) \/ DeleteStudentRows(r)
  \/ Abort(r)

Lifecycle(e) ==
  \/ Schedule(e) \/ Start(e) \/ Stop(e) \/ Cancel(e) \/ AutoClose(e)
  \/ Reschedule(e) \/ Age(e) \/ OpenKiosk(e)

Next == (\E r \in Request : Handler(r)) \/ (\E e \in SessionId : Lifecycle(e))

Spec == Init /\ [][Next]_vars

-----------------------------------------------------------------------------
(* Properties *)

\* A student has at most one attendance row for a session (what the insert of
\* app.py:1067-1090 is for).  True with one worker only.
SingleRow == \A p \in Pair : Len(rows[p]) <= 1

\* However many workers run, a pair has two rows only if an insert was committed
\* between the DELETE and the INSERT of an override or approval of that pair:
\* no other interleaving of marks, kiosk and corrections duplicates a row.
DuplicateNeedsTornCorrection == \A p \in Pair : Len(rows[p]) > 1 => p \in torn

\* When an override or an approval commits its INSERT and nothing else was
\* written to the pair inside its window, the pair has exactly the row it asked
\* for: the corrected status replaces whatever was recorded before.
CorrectionDecides ==
  [][\A r \in Request, p \in Pair :
       InWindow(r, p) /\ rows'[p] # rows[p] /\ req'[r] # req[r] /\ p \notin torn'
         => rows'[p] = <<req[r].want>>]_vars

\* A row of a deleted session was written after the session's rows were
\* deleted; deleting a session never leaves a row that was there before.
OrphanNeedsStrayWrite ==
  \A p \in Pair : rows[p] # <<>> /\ session[p[2]] = "none" => p \in strayed

\* A correction marked 'approved' had its row inserted, wherever a request may
\* have died (resolve_attendance_correction updates the status last).
ApprovedWasApplied ==
  \A c \in DOMAIN corrections :
    corrections[c].status = "approved" => c \in applied

\* A pair has at most one pending correction ("You already have a pending
\* correction request for this session.").  True with one worker only.
OnePendingPerPair ==
  \A c, d \in DOMAIN corrections :
    /\ corrections[c].pair = corrections[d].pair
    /\ corrections[c].status = "pending" /\ corrections[d].status = "pending"
    => c = d
=============================================================================
