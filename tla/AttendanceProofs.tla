-------------------------- MODULE AttendanceProofs --------------------------
(***************************************************************************)
(* Proofs about Attendance, for any number of students, sessions and       *)
(* workers and every workload.                                             *)
(***************************************************************************)
EXTENDS Attendance, SequenceTheorems, TLAPS

\* The requests that carry the id of a correction carry an id that exists.
ResolveStep == {"r_session", "r_delete", "r_insert", "r_approve", "r_reject"}
IdOK ==
  \A r \in Request :
    req[r].pc \in ResolveStep => req[r].id \in DOMAIN corrections

TypeInv == TypeOK /\ IdOK

-----------------------------------------------------------------------------
(* Facts about the pieces the actions are made of. *)

LEMMA WorkAt ==
  ASSUME TypeOK, NEW r \in Request, req[r].pc \in Step
  PROVE  req[r] \in Work
BY DEF TypeOK, Work, Removal, Idle, Step

LEMMA AppendRow ==
  ASSUME NEW s \in Seq(AttStatus), NEW st \in AttStatus
  PROVE  /\ Append(s, st) \in Seq(AttStatus)
         /\ Len(Append(s, st)) = Len(s) + 1
         /\ Append(s, st) # <<>>
BY AppendProperties

LEMMA AddRowType ==
  ASSUME TypeOK, NEW r \in Request, NEW p \in Pair, NEW st \in AttStatus,
         AddRow(r, p, st)
  PROVE  /\ rows' \in [Pair -> Seq(AttStatus)]
         /\ torn' \subseteq Pair
         /\ strayed' \subseteq Pair
<1>1. Append(rows[p], st) \in Seq(AttStatus)
  BY AppendRow DEF TypeOK
<1>2. QED
  BY <1>1 DEF TypeOK, AddRow

LEMMA InsertIfAbsentType ==
  ASSUME TypeOK, NEW r \in Request, NEW p \in Pair, NEW st \in AttStatus,
         InsertIfAbsent(r, p, st)
  PROVE  /\ rows' \in [Pair -> Seq(AttStatus)]
         /\ torn' \subseteq Pair
         /\ strayed' \subseteq Pair
<1>1. CASE rows[p] = <<>>
  BY <1>1, AddRowType DEF InsertIfAbsent
<1>2. CASE rows[p] # <<>>
  BY <1>2 DEF InsertIfAbsent, KeepRows, TypeOK
<1>3. QED
  BY <1>1, <1>2

LEMMA DeleteRowsType ==
  ASSUME TypeOK, NEW P, DeleteRows(P)
  PROVE  /\ rows' \in [Pair -> Seq(AttStatus)]
         /\ torn' \subseteq Pair
         /\ strayed' \subseteq Pair
<1>1. <<>> \in Seq(AttStatus)
  BY EmptySeq
<1>2. QED
  BY <1>1 DEF TypeOK, DeleteRows

LEMMA EnterType ==
  ASSUME TypeOK, NEW r \in Request, NEW step \in Step, NEW p \in Pair,
         NEW want \in AttStatus \cup {"clear"}, NEW id \in Nat,
         want = "clear" => step = "o_delete",
         Enter(r, step, p, want, id)
  PROVE  req' \in [Request -> Work \cup Removal \cup {Idle}]
BY DEF TypeOK, Enter, Work

LEMMA GotoType ==
  ASSUME TypeOK, NEW r \in Request, NEW step \in Step, req[r].pc \in Step,
         req[r].want # "clear", Goto(r, step)
  PROVE  req' \in [Request -> Work \cup Removal \cup {Idle}]
<1>1. req[r] \in Work
  BY WorkAt
<1>2. [req[r] EXCEPT !.pc = step] \in Work
  BY <1>1 DEF Work
<1>3. QED
  BY <1>2 DEF TypeOK, Goto

LEMMA FinishType ==
  ASSUME TypeOK, NEW r \in Request, Finish(r)
  PROVE  req' \in [Request -> Work \cup Removal \cup {Idle}]
BY DEF TypeOK, Finish

\* The UPDATE of a correction's status touches that request and nothing else.
LEMMA ResolvedSeq ==
  ASSUME TypeInv, NEW r \in Request, ResolveWrite(r)
  PROVE  /\ corrections' \in Seq(Correction)
         /\ DOMAIN corrections' = DOMAIN corrections
         /\ \A c \in DOMAIN corrections :
              /\ corrections'[c].pair = corrections[c].pair
              /\ corrections'[c].status =
                   IF c # req[r].id THEN corrections[c].status
                   ELSE IF At(r, "r_approve") THEN "approved" ELSE "rejected"
<1> DEFINE i == req[r].id
           new == IF At(r, "r_approve") THEN "approved" ELSE "rejected"
           row == [corrections[i] EXCEPT !.status = new]
<1>1. corrections \in Seq(Correction) /\ i \in 1 .. Len(corrections)
  BY LenProperties DEF TypeInv, IdOK, ResolveStep, TypeOK, ResolveWrite
<1>2. corrections[i] \in Correction
  BY <1>1, ElementOfSeq
<1>3. row \in Correction /\ row.status = new /\ row.pair = corrections[i].pair
  BY <1>2 DEF Correction
<1>4. corrections' = [corrections EXCEPT ![i] = row]
  BY DEF ResolveWrite
<1>5. /\ corrections' \in Seq(Correction)
      /\ Len(corrections') = Len(corrections)
      /\ \A c \in 1 .. Len(corrections) :
           corrections'[c] = IF c = i THEN row ELSE corrections[c]
  BY <1>1, <1>3, <1>4, ExceptSeq
<1>6. DOMAIN corrections' = DOMAIN corrections
  BY <1>1, <1>5, LenProperties
<1>7. DOMAIN corrections = 1 .. Len(corrections)
  BY <1>1, LenProperties
<1>8. QED
  BY <1>3, <1>5, <1>6, <1>7

-----------------------------------------------------------------------------
(* Type correctness. *)

LEMMA InitType == Init => TypeInv
BY EmptySeq DEF Init, TypeInv, TypeOK, IdOK, ResolveStep, SessionState, Idle, Pair

LEMMA HandlerType ==
  ASSUME TypeInv, NEW r \in Request, Handler(r)
  PROVE  TypeOK'
<1> USE DEF TypeInv
<1>1. CASE MarkBegin(r)
  BY <1>1, EnterType DEF MarkBegin, tables, history, TypeOK, Step, AttStatus
<1>2. CASE MarkAlready(r)
  BY <1>2, FinishType DEF MarkAlready, tables, history, TypeOK
<1>3. CASE MarkVerified(r)
  <2>1. req[r] \in Work
    BY <1>3, WorkAt DEF MarkVerified, At, Step
  <2>2. QED
    BY <1>3, <2>1, EnterType
    DEF MarkVerified, tables, history, TypeOK, Step, AttStatus, Work
<1>4. CASE MarkInsert(r)
  <2>1. req[r] \in Work /\ req[r].want \in AttStatus
    BY <1>4, WorkAt DEF MarkInsert, At, Step, Work
  <2>2. QED
    BY <1>4, <2>1, FinishType, InsertIfAbsentType DEF MarkInsert, TypeOK, Work
<1>5. CASE KioskMark(r)
  BY <1>5, InsertIfAbsentType DEF KioskMark, TypeOK, AttStatus
<1>6. CASE OverrideBegin(r)
  BY <1>6, EnterType DEF OverrideBegin, tables, history, TypeOK, Step, AttStatus
<1>7. CASE OverrideDelete(r)
  <2>1. req[r].pc \in Step
    BY <1>7 DEF OverrideDelete, At, Step
  <2>2. req' \in [Request -> Work \cup Removal \cup {Idle}]
    BY <1>7, <2>1, GotoType, FinishType DEF OverrideDelete, Step
  <2>3. QED
    BY <1>7, <2>2, DeleteRowsType DEF OverrideDelete, TypeOK
<1>8. CASE OverrideInsert(r)
  <2>1. req[r] \in Work /\ req[r].want \in AttStatus
    BY <1>8, WorkAt DEF OverrideInsert, At, Step, Work
  <2>2. QED
    BY <1>8, <2>1, FinishType, AddRowType DEF OverrideInsert, TypeOK, Work
<1>9. CASE FileBegin(r)
  BY <1>9, EnterType DEF FileBegin, tables, history, TypeOK, Step, AttStatus
<1>10. CASE FilePending(r)
  <2>1. req[r].pc \in Step /\ req[r].want # "clear"
    BY <1>10, WorkAt DEF FilePending, At, Step, Work
  <2>2. QED
    BY <1>10, <2>1, GotoType, FinishType
    DEF FilePending, tables, history, TypeOK, Step
<1>11. CASE FileInsert(r)
  <2>1. req[r] \in Work /\ req[r].want \in AttStatus
    BY <1>11, WorkAt DEF FileInsert, At, Step, Work
  <2>2. corrections' \in Seq(Correction)
    BY <1>11, <2>1, AppendProperties DEF FileInsert, TypeOK, Correction, Work
  <2>3. QED
    BY <1>11, <2>2, FinishType DEF FileInsert, history, TypeOK
<1>12. CASE ResolveBegin(r)
  <2>1. PICK c \in DOMAIN corrections, next \in {"r_session", "r_reject"} :
          Enter(r, next, corrections[c].pair, corrections[c].want, c)
    BY <1>12 DEF ResolveBegin
  <2>2. corrections[c] \in Correction /\ c \in Nat
    BY ElementOfSeq DEF TypeOK
  <2>3. QED
    BY <1>12, <2>1, <2>2, EnterType
    DEF ResolveBegin, tables, history, TypeOK, Step, Correction, AttStatus
<1>13. CASE ApproveCheck(r)
  <2>1. req[r].pc \in Step /\ req[r].want # "clear"
    BY <1>13, WorkAt DEF ApproveCheck, At, Step, Work
  <2>2. QED
    BY <1>13, <2>1, GotoType, FinishType
    DEF ApproveCheck, tables, history, TypeOK, Step
<1>14. CASE ApproveDelete(r)
  <2>1. req[r].pc \in Step /\ req[r].want # "clear"
    BY <1>14, WorkAt DEF ApproveDelete, At, Step, Work
  <2>2. QED
    BY <1>14, <2>1, GotoType, DeleteRowsType DEF ApproveDelete, TypeOK, Step
<1>15. CASE ApproveInsert(r)
  <2>1. req[r] \in Work /\ req[r].want \in AttStatus
    BY <1>15, WorkAt DEF ApproveInsert, At, Step, Work
  <2>2. req' \in [Request -> Work \cup Removal \cup {Idle}]
    BY <1>15, <2>1, GotoType DEF ApproveInsert, At, Step, AttStatus
  <2>3. QED
    BY <1>15, <2>1, <2>2, AddRowType DEF ApproveInsert, TypeOK, Work
<1>16. CASE ResolveWrite(r)
  <2>1. corrections' \in Seq(Correction)
    BY <1>16, ResolvedSeq DEF ResolveWrite, IdOK
  <2>2. QED
    BY <1>16, <2>1, FinishType DEF ResolveWrite, history, TypeOK
<1>17. CASE DeleteSessionRows(r)
  BY <1>17, DeleteRowsType DEF DeleteSessionRows, TypeOK, Removal
<1>18. CASE DeleteSession(r)
  BY <1>18, FinishType DEF DeleteSession, history, TypeOK, SessionState
<1>19. CASE DeleteStudentRows(r)
  BY <1>19, DeleteRowsType DEF DeleteStudentRows, TypeOK
<1>20. CASE Abort(r)
  BY <1>20, FinishType DEF Abort, tables, history, TypeOK
<1>21. QED
  BY <1>1, <1>2, <1>3, <1>4, <1>5, <1>6, <1>7, <1>8, <1>9, <1>10, <1>11, <1>12,
     <1>13, <1>14, <1>15, <1>16, <1>17, <1>18, <1>19, <1>20 DEF Handler

LEMMA LifecycleType ==
  ASSUME TypeInv, NEW e \in SessionId, Lifecycle(e)
  PROVE  TypeOK'
BY DEF TypeInv, TypeOK, Lifecycle, Schedule, Start, Stop, Cancel, AutoClose,
       Reschedule, Age, OpenKiosk, SetSession, SessionState, history

\* A step of r keeps the ids valid if no correction disappears and r does not
\* move into a step of resolve_attendance_correction from anywhere else.
LEMMA IdKept ==
  ASSUME TypeInv, NEW r \in Request, NEW new,
         req' = [req EXCEPT ![r] = new],
         DOMAIN corrections \subseteq DOMAIN corrections',
         new.pc \in ResolveStep => new.id \in DOMAIN corrections
  PROVE  IdOK'
BY DEF TypeInv, TypeOK, IdOK

LEMMA HandlerIds ==
  ASSUME TypeInv, NEW r \in Request, Handler(r)
  PROVE  IdOK'
<1> USE DEF ResolveStep
<1>1. CASE ResolveWrite(r)
  BY <1>1, ResolvedSeq, IdKept DEF ResolveWrite, Finish, Idle
<1>2. CASE FileInsert(r)
  <2>1. req[r] \in Work /\ req[r].want \in AttStatus
    BY <1>2, WorkAt DEF FileInsert, At, Step, Work, TypeInv
  <2>2. DOMAIN corrections \subseteq DOMAIN corrections'
    BY <1>2, <2>1, AppendProperties, LenProperties
    DEF FileInsert, TypeInv, TypeOK, Correction, Work
  <2>3. QED
    BY <1>2, <2>2, IdKept DEF FileInsert, Finish, Idle
<1>3. CASE MarkBegin(r) \/ OverrideBegin(r) \/ FileBegin(r) \/ MarkVerified(r)
  BY <1>3, IdKept
  DEF MarkBegin, OverrideBegin, FileBegin, MarkVerified, Enter, tables
<1>4. CASE ResolveBegin(r)
  BY <1>4, IdKept DEF ResolveBegin, Enter, tables
<1>5. CASE MarkAlready(r) \/ MarkInsert(r) \/ OverrideInsert(r) \/ Abort(r)
  BY <1>5, IdKept
  DEF MarkAlready, MarkInsert, OverrideInsert, Abort, Finish, Idle, tables
<1>6. CASE KioskMark(r) \/ DeleteStudentRows(r)
  BY <1>6 DEF KioskMark, DeleteStudentRows, TypeInv, IdOK
<1>7. CASE DeleteSessionRows(r) \/ DeleteSession(r)
  BY <1>7, IdKept DEF DeleteSessionRows, DeleteSession, Finish, Idle
<1>8. ASSUME NEW next, Goto(r, next) \/ Finish(r), corrections' = corrections,
             req[r].pc \in Step,
             next \in ResolveStep => req[r].pc \in ResolveStep
      PROVE  IdOK'
  <2>1. req[r] \in Work
    BY <1>8, WorkAt DEF TypeInv
  <2>2. CASE Finish(r)
    BY <1>8, <2>2, IdKept DEF Finish, Idle
  <2>3. CASE Goto(r, next)
    <3> DEFINE new == [req[r] EXCEPT !.pc = next]
    <3>1. new.pc = next /\ new.id = req[r].id
      BY <2>1 DEF Work
    <3>2. req' = [req EXCEPT ![r] = new]
      BY <2>3 DEF Goto
    <3>3. new.pc \in ResolveStep => new.id \in DOMAIN corrections
      BY <1>8, <3>1 DEF TypeInv, IdOK
    <3> HIDE DEF new
    <3>4. QED
      BY <1>8, <3>2, <3>3, IdKept
  <2>4. QED
    BY <1>8, <2>2, <2>3
<1>9. CASE OverrideDelete(r) \/ FilePending(r)
  <2>1. \E next \in {"o_insert", "f_insert"} : Goto(r, next) \/ Finish(r)
    BY <1>9 DEF OverrideDelete, FilePending
  <2>2. req[r].pc \in Step /\ corrections' = corrections
    BY <1>9 DEF OverrideDelete, FilePending, At, Step, tables
  <2>3. QED
    BY <1>8, <2>1, <2>2
<1>10. CASE ApproveCheck(r) \/ ApproveDelete(r) \/ ApproveInsert(r)
  <2>1. \E next : Goto(r, next) \/ Finish(r)
    BY <1>10 DEF ApproveCheck, ApproveDelete, ApproveInsert
  <2>2. req[r].pc \in Step \cap ResolveStep /\ corrections' = corrections
    BY <1>10 DEF ApproveCheck, ApproveDelete, ApproveInsert, At, Step, tables
  <2>3. QED
    BY <1>8, <2>1, <2>2
<1>11. QED
  BY <1>1, <1>2, <1>3, <1>4, <1>5, <1>6, <1>7, <1>9, <1>10 DEF Handler

LEMMA LifecycleIds ==
  ASSUME TypeInv, NEW e \in SessionId, Lifecycle(e)
  PROVE  IdOK'
BY DEF TypeInv, IdOK, Lifecycle, Schedule, Start, Stop, Cancel, AutoClose,
       Reschedule, Age, OpenKiosk, SetSession, history

LEMMA StutterType == TypeInv /\ UNCHANGED vars => TypeInv'
BY DEF TypeInv, TypeOK, IdOK, vars, tables, history

LEMMA NextType == TypeInv /\ [Next]_vars => TypeInv'
<1>1. ASSUME TypeInv, Next PROVE TypeInv'
  BY <1>1, HandlerType, HandlerIds, LifecycleType, LifecycleIds DEF Next, TypeInv
<1>2. QED
  BY <1>1, StutterType

LEMMA TypeInvariant == Spec => []TypeInv
BY InitType, NextType, PTL DEF Spec

\* Every reachable state has the types of TypeOK: in particular no statement
\* stores a status that is not Present, Late or Absent.
THEOREM TypeCorrect == Spec => []TypeOK
<1>1. TypeInv => TypeOK
  BY DEF TypeInv
<1>2. QED
  BY <1>1, TypeInvariant, PTL

-----------------------------------------------------------------------------
(***************************************************************************)
(* What a handler's step can do to the attendance rows: nothing (Quiet),   *)
(* add a row to a pair that is empty or that the step itself is correcting *)
(* (Insert), remove rows (Delete), or remove the session's own row.  new   *)
(* is the control state the step leaves its request in.                    *)
(***************************************************************************)
WindowStep == {"o_insert", "r_insert"}

Quiet(new) ==
  /\ UNCHANGED <<session, rows, torn, strayed>>
  /\ new.pc \notin WindowStep \cup {"d_session"}

Insert(r, new) ==
  /\ UNCHANGED session
  /\ new.pc \notin WindowStep \cup {"d_session"}
  /\ \E p \in Pair, st \in AttStatus :
       AddRow(r, p, st) /\ (rows[p] = <<>> \/ InWindow(r, p))

Delete(new) ==
  /\ UNCHANGED session
  /\ \E P : /\ DeleteRows(P)
            /\ new.pc \in WindowStep => new.pair \in P
            /\ new.pc = "d_session" => \A p \in Pair : p[2] = new.id => p \in P

StepKind(r, new) ==
  Quiet(new) \/ Insert(r, new) \/ Delete(new) \/ (DeleteSession(r) /\ new = Idle)

LEMMA GotoShape ==
  ASSUME TypeInv, NEW r \in Request, NEW step, req[r].pc \in Step, Goto(r, step)
  PROVE  \E new : /\ req' = [req EXCEPT ![r] = new]
                  /\ new.pc = step /\ new.pair = req[r].pair
<1>1. req[r] \in Work
  BY WorkAt DEF TypeInv
<1> DEFINE new == [req[r] EXCEPT !.pc = step]
<1>2. new.pc = step /\ new.pair = req[r].pair
  BY <1>1 DEF Work
<1>3. req' = [req EXCEPT ![r] = new]
  BY DEF Goto
<1> HIDE DEF new
<1>4. QED
  BY <1>2, <1>3

\* A guarded insert adds a row to an empty pair or changes nothing.
LEMMA GuardedInsertKind ==
  ASSUME NEW r \in Request, NEW p \in Pair, NEW st \in AttStatus,
         InsertIfAbsent(r, p, st), UNCHANGED session,
         NEW new, new.pc \notin WindowStep \cup {"d_session"}
  PROVE  StepKind(r, new)
BY DEF InsertIfAbsent, KeepRows, StepKind, Quiet, Insert

LEMMA HandlerKind ==
  ASSUME TypeInv, NEW r \in Request, Handler(r)
  PROVE  \E new : req' = [req EXCEPT ![r] = new] /\ StepKind(r, new)
<1> USE DEF WindowStep
<1>1. CASE MarkBegin(r) \/ OverrideBegin(r) \/ FileBegin(r) \/ MarkVerified(r)
           \/ ResolveBegin(r)
  <2>1. PICK step, p, want, id :
          step \in Step \ WindowStep /\ Enter(r, step, p, want, id)
    BY <1>1 DEF MarkBegin, OverrideBegin, FileBegin, MarkVerified, ResolveBegin, Step
  <2>2. UNCHANGED <<session, rows, torn, strayed>>
    BY <1>1 DEF MarkBegin, OverrideBegin, FileBegin, MarkVerified, ResolveBegin,
       tables, history
  <2> DEFINE new == [pc |-> step, pair |-> p, want |-> want, id |-> id]
  <2>3. new.pc = step /\ step \notin WindowStep \cup {"d_session"}
    BY <2>1 DEF Step
  <2>4. Quiet(new)
    BY <2>2, <2>3 DEF Quiet
  <2>5. req' = [req EXCEPT ![r] = new]
    BY <2>1 DEF Enter
  <2>6. QED
    BY <2>4, <2>5 DEF StepKind
<1>2. CASE MarkAlready(r) \/ Abort(r) \/ FileInsert(r) \/ ResolveWrite(r)
  <2>1. req' = [req EXCEPT ![r] = Idle] /\ UNCHANGED <<session, rows, torn, strayed>>
    BY <1>2 DEF MarkAlready, Abort, FileInsert, ResolveWrite, Finish, tables, history
  <2>2. QED
    BY <2>1 DEF StepKind, Quiet, Idle
<1>3. CASE MarkInsert(r)
  <2>1. req[r] \in Work /\ req[r].want \in AttStatus /\ req[r].pair \in Pair
    BY <1>3, WorkAt DEF MarkInsert, At, Step, Work, TypeInv
  <2>2. StepKind(r, Idle)
    BY <1>3, <2>1, GuardedInsertKind DEF MarkInsert, Idle
  <2>3. QED
    BY <1>3, <2>2 DEF MarkInsert, Finish
<1>4. CASE KioskMark(r)
  <2>1. StepKind(r, req[r])
    BY <1>4, GuardedInsertKind DEF KioskMark, Begin, At, AttStatus
  <2>2. req' = [req EXCEPT ![r] = req[r]]
    BY <1>4 DEF KioskMark, TypeInv, TypeOK
  <2>3. QED
    BY <2>1, <2>2
<1>5. CASE OverrideInsert(r)
  <2>1. req[r].want \in AttStatus /\ req[r].pair \in Pair /\ InWindow(r, req[r].pair)
    BY <1>5, WorkAt DEF OverrideInsert, At, Step, Work, TypeInv, InWindow
  <2>2. QED
    BY <1>5, <2>1 DEF OverrideInsert, Finish, StepKind, Insert, Idle
<1>6. CASE ApproveInsert(r)
  <2>1. req[r].want \in AttStatus /\ req[r].pair \in Pair /\ InWindow(r, req[r].pair)
    BY <1>6, WorkAt DEF ApproveInsert, At, Step, Work, TypeInv, InWindow
  <2>2. PICK new : req' = [req EXCEPT ![r] = new] /\ new.pc = "r_approve"
    BY <1>6, GotoShape DEF ApproveInsert, At, Step
  <2>3. QED
    BY <1>6, <2>1, <2>2 DEF ApproveInsert, StepKind, Insert
<1>7. CASE OverrideDelete(r) \/ ApproveDelete(r)
  <2>1. DeleteRows({req[r].pair}) /\ UNCHANGED session /\ req[r].pc \in Step
    BY <1>7 DEF OverrideDelete, ApproveDelete, At, Step
  <2>2. CASE Finish(r)
    BY <2>1, <2>2 DEF Finish, Idle, StepKind, Delete
  <2>3. CASE \E step \in WindowStep : Goto(r, step)
    <3>1. PICK new : /\ req' = [req EXCEPT ![r] = new]
                     /\ new.pc \in WindowStep /\ new.pair = req[r].pair
      BY <2>1, <2>3, GotoShape
    <3>2. QED
      BY <2>1, <3>1 DEF StepKind, Delete
  <2>4. QED
    BY <1>7, <2>2, <2>3 DEF OverrideDelete, ApproveDelete
<1>8. CASE FilePending(r) \/ ApproveCheck(r)
  <2>1. UNCHANGED <<session, rows, torn, strayed>> /\ req[r].pc \in Step
    BY <1>8 DEF FilePending, ApproveCheck, At, Step, tables, history
  <2>2. CASE Finish(r)
    BY <2>1, <2>2 DEF Finish, Idle, StepKind, Quiet
  <2>3. CASE \E step \in {"f_insert", "r_delete"} : Goto(r, step)
    <3>1. PICK new : /\ req' = [req EXCEPT ![r] = new]
                     /\ new.pc \in {"f_insert", "r_delete"}
      BY <2>1, <2>3, GotoShape
    <3>2. QED
      BY <2>1, <3>1 DEF StepKind, Quiet
  <2>4. QED
    BY <1>8, <2>2, <2>3 DEF FilePending, ApproveCheck
<1>9. CASE DeleteSessionRows(r)
  <2>1. PICK e \in SessionId :
          /\ DeleteRows({p \in Pair : p[2] = e})
          /\ req' = [req EXCEPT ![r] = [pc |-> "d_session", id |-> e]]
    BY <1>9 DEF DeleteSessionRows
  <2> DEFINE new == [pc |-> "d_session", id |-> e]
  <2>2. Delete(new)
    BY <1>9, <2>1 DEF DeleteSessionRows, Delete
  <2>3. QED
    BY <2>1, <2>2 DEF StepKind
<1>10. CASE DeleteSession(r)
  BY <1>10 DEF StepKind, DeleteSession, Finish
<1>11. CASE DeleteStudentRows(r)
  <2>1. req' = [req EXCEPT ![r] = req[r]]
    BY <1>11 DEF DeleteStudentRows, TypeInv, TypeOK
  <2>2. Delete(req[r])
    BY <1>11 DEF DeleteStudentRows, Delete, Begin, At
  <2>3. QED
    BY <2>1, <2>2 DEF StepKind
<1>12. QED
  BY <1>1, <1>2, <1>3, <1>4, <1>5, <1>6, <1>7, <1>8, <1>9, <1>10, <1>11 DEF Handler

-----------------------------------------------------------------------------
(* Duplicate rows need a torn correction. *)

\* The inductive invariant: while a pair is not torn it has at most one row, and
\* none at all as long as some correction of it is in its window.
TornOK ==
  \A p \in Pair : p \notin torn =>
    /\ Len(rows[p]) <= 1
    /\ \A r \in Request : InWindow(r, p) => rows[p] = <<>>

LEMMA TornStep ==
  ASSUME TypeInv, TornOK, NEW r \in Request, NEW new,
         req' = [req EXCEPT ![r] = new], StepKind(r, new)
  PROVE  TornOK'
<1>1. SUFFICES ASSUME NEW p \in Pair, p \notin torn'
               PROVE  /\ Len(rows'[p]) <= 1
                      /\ \A q \in Request : InWindow(q, p)' => rows'[p] = <<>>
  BY DEF TornOK
<1>2. \A q \in Request : InWindow(q, p)' =>
        \/ InWindow(q, p) /\ q # r
        \/ q = r /\ new.pc \in WindowStep /\ new.pair = p
  BY DEF InWindow, WindowStep, TypeInv, TypeOK
<1>3. CASE Quiet(new)
  BY <1>1, <1>2, <1>3 DEF Quiet, TornOK
<1>4. CASE Insert(r, new)
  <2>1. PICK x \in Pair, st \in AttStatus :
          AddRow(r, x, st) /\ (rows[x] = <<>> \/ InWindow(r, x))
    BY <1>4 DEF Insert
  <2>2. p \notin torn /\ (p = x => \A q \in Request \ {r} : ~InWindow(q, p))
    BY <1>1, <2>1 DEF AddRow
  <2>3. CASE p # x
    BY <1>2, <1>4, <2>1, <2>2, <2>3 DEF AddRow, TornOK, Insert, TypeInv, TypeOK
  <2>4. CASE p = x
    <3>1. rows[p] = <<>>
      BY <2>1, <2>2, <2>4 DEF TornOK
    <3>2. rows'[p] = Append(<<>>, st)
      BY <2>1, <2>4, <3>1 DEF AddRow, TypeInv, TypeOK
    <3>3. Len(rows'[p]) = 1
      BY <3>2, AppendRow, EmptySeq
    <3>4. \A q \in Request : ~InWindow(q, p)'
      BY <1>2, <1>4, <2>2, <2>4 DEF Insert
    <3>5. QED
      BY <3>3, <3>4
  <2>5. QED
    BY <2>3, <2>4
<1>5. CASE Delete(new)
  <2>1. PICK P : DeleteRows(P) /\ (new.pc \in WindowStep => new.pair \in P)
    BY <1>5 DEF Delete
  <2>2. CASE p \in P
    <3>1. rows'[p] = <<>>
      BY <2>1, <2>2 DEF DeleteRows
    <3>2. QED
      BY <3>1, EmptySeq
  <2>3. CASE p \notin P
    <3>1. rows'[p] = rows[p] /\ p \notin torn
      BY <1>1, <2>1, <2>3 DEF DeleteRows
    <3>2. QED
      BY <1>2, <2>1, <2>3, <3>1 DEF TornOK
  <2>4. QED
    BY <2>2, <2>3
<1>6. CASE DeleteSession(r) /\ new = Idle
  BY <1>1, <1>2, <1>6 DEF DeleteSession, Idle, WindowStep, history, TornOK
<1>7. QED
  BY <1>3, <1>4, <1>5, <1>6 DEF StepKind

LEMMA LifecycleKeepsRows ==
  ASSUME NEW e \in SessionId, Lifecycle(e)
  PROVE  UNCHANGED <<rows, corrections, req, history>>
BY DEF Lifecycle, Schedule, Start, Stop, Cancel, AutoClose, Reschedule, Age,
       OpenKiosk, SetSession

LEMMA NextTorn == TypeInv /\ TornOK /\ [Next]_vars => TornOK'
<1>1. ASSUME TypeInv, TornOK, NEW r \in Request, Handler(r) PROVE TornOK'
  BY <1>1, HandlerKind, TornStep
<1>2. ASSUME TornOK, NEW e \in SessionId, Lifecycle(e) PROVE TornOK'
  BY <1>2, LifecycleKeepsRows DEF TornOK, InWindow, history
<1>3. ASSUME TornOK, UNCHANGED vars PROVE TornOK'
  BY <1>3 DEF TornOK, InWindow, vars, tables, history
<1>4. QED
  BY <1>1, <1>2, <1>3 DEF Next

LEMMA TornInvariant == Spec => []TornOK
<1>1. Init => TornOK
  BY EmptySeq DEF Init, TornOK, InWindow
<1>2. QED
  BY <1>1, NextTorn, TypeInvariant, PTL DEF Spec

\* Two rows of one pair need a write inside an override's or approval's window,
\* for any number of concurrent marks, kiosk frames and corrections.
THEOREM DuplicatesExplained == Spec => []DuplicateNeedsTornCorrection
<1>1. TornOK => DuplicateNeedsTornCorrection
  BY DEF TornOK, DuplicateNeedsTornCorrection
<1>2. QED
  BY <1>1, TornInvariant, PTL

-----------------------------------------------------------------------------
(* Rows of deleted sessions were written too late. *)

\* A pair that was not written late is empty as soon as its session is going.
StrayOK ==
  \A p \in Pair :
    p \notin strayed /\ (session[p[2]] = "none" \/ Going(p[2])) => rows[p] = <<>>

LEMMA StrayStep ==
  ASSUME TypeInv, StrayOK, NEW r \in Request, NEW new,
         req' = [req EXCEPT ![r] = new], StepKind(r, new)
  PROVE  StrayOK'
<1>1. SUFFICES ASSUME NEW p \in Pair, p \notin strayed',
                      session'[p[2]] = "none" \/ Going(p[2])'
               PROVE  rows'[p] = <<>>
  BY DEF StrayOK
<1>2. p[2] \in SessionId
  BY DEF Pair
<1>3. Going(p[2])' => Going(p[2]) \/ (new.pc = "d_session" /\ new.id = p[2])
  BY DEF Going, At, TypeInv, TypeOK
<1>4. CASE Quiet(new)
  BY <1>1, <1>3, <1>4 DEF Quiet, StrayOK
<1>5. CASE Insert(r, new)
  <2>1. PICK x \in Pair, st \in AttStatus : AddRow(r, x, st)
    BY <1>5 DEF Insert
  <2>2. session[p[2]] = "none" \/ Going(p[2])
    BY <1>1, <1>3, <1>5 DEF Insert
  <2>3. p # x /\ p \notin strayed
    BY <1>1, <2>1, <2>2 DEF AddRow
  <2>4. QED
    BY <2>1, <2>2, <2>3 DEF AddRow, StrayOK, TypeInv, TypeOK
<1>6. CASE Delete(new)
  <2>1. PICK P : /\ DeleteRows(P)
                 /\ new.pc = "d_session" =>
                      \A q \in Pair : q[2] = new.id => q \in P
    BY <1>6 DEF Delete
  <2>2. CASE p \in P
    BY <2>1, <2>2 DEF DeleteRows
  <2>3. CASE p \notin P
    <3>2. rows'[p] = rows[p] /\ p \notin strayed
      BY <1>1, <2>1, <2>3 DEF DeleteRows
    <3>3. session[p[2]] = "none" \/ Going(p[2])
      BY <1>1, <1>3, <1>6, <2>1, <2>3 DEF Delete
    <3>4. QED
      BY <3>2, <3>3 DEF StrayOK
  <2>4. QED
    BY <2>2, <2>3
<1>7. CASE DeleteSession(r) /\ new = Idle
  <2>1. rows' = rows /\ strayed' = strayed
    BY <1>7 DEF DeleteSession, history
  <2>2. session'[p[2]] = "none" => session[p[2]] = "none" \/ Going(p[2])
    BY <1>2, <1>7 DEF DeleteSession, Going, TypeInv, TypeOK
  <2>3. QED
    BY <1>1, <1>3, <1>7, <2>1, <2>2 DEF StrayOK, Idle
<1>8. QED
  BY <1>4, <1>5, <1>6, <1>7 DEF StepKind

\* No lifecycle action removes a session row.
LEMMA LifecycleKeepsSessions ==
  ASSUME TypeInv, NEW e \in SessionId, Lifecycle(e),
         NEW f \in SessionId, session'[f] = "none"
  PROVE  session[f] = "none"
BY DEF Lifecycle, Schedule, Start, Stop, Cancel, AutoClose, Reschedule, Age,
       OpenKiosk, SetSession, TypeInv, TypeOK

LEMMA NextStray == TypeInv /\ StrayOK /\ [Next]_vars => StrayOK'
<1>1. ASSUME TypeInv, StrayOK, NEW r \in Request, Handler(r) PROVE StrayOK'
  BY <1>1, HandlerKind, StrayStep
<1>2. ASSUME TypeInv, StrayOK, NEW e \in SessionId, Lifecycle(e) PROVE StrayOK'
  <2>1. UNCHANGED <<rows, req, strayed>>
    BY <1>2, LifecycleKeepsRows DEF history
  <2>2. \A p \in Pair : session'[p[2]] = "none" => session[p[2]] = "none"
    BY <1>2, LifecycleKeepsSessions DEF Pair
  <2>3. QED
    BY <1>2, <2>1, <2>2 DEF StrayOK, Going, At
<1>3. ASSUME StrayOK, UNCHANGED vars PROVE StrayOK'
  BY <1>3 DEF StrayOK, Going, At, vars, tables, history
<1>4. QED
  BY <1>1, <1>2, <1>3 DEF Next

\* A row of a session that does not exist was inserted while the session was
\* gone or between the two statements of delete_session.
THEOREM OrphansExplained == Spec => []OrphanNeedsStrayWrite
<1>1. Init => StrayOK
  BY DEF Init, StrayOK
<1>2. StrayOK => OrphanNeedsStrayWrite
  BY DEF StrayOK, OrphanNeedsStrayWrite
<1>3. QED
  BY <1>1, <1>2, NextStray, TypeInvariant, PTL DEF Spec

-----------------------------------------------------------------------------
(* Approved corrections were applied. *)

AppliedOK ==
  /\ ApprovedWasApplied
  /\ \A r \in Request : At(r, "r_approve") => req[r].id \in applied

\* Steps that neither approve a request nor move one towards its approval.
Unapproving ==
  /\ corrections' = corrections /\ applied' = applied
  /\ \A q \in Request : At(q, "r_approve")' => req'[q] = req[q]

LEMMA AppliedKept == AppliedOK /\ Unapproving => AppliedOK'
BY DEF AppliedOK, ApprovedWasApplied, At, Unapproving

LEMMA HandlerApplied ==
  ASSUME TypeInv, AppliedOK, NEW r \in Request, Handler(r)
  PROVE  AppliedOK'
<1> USE DEF Unapproving, At
<1>1. CASE MarkBegin(r) \/ OverrideBegin(r) \/ FileBegin(r) \/ MarkVerified(r)
           \/ ResolveBegin(r)
  <2>1. Unapproving
    BY <1>1 DEF MarkBegin, OverrideBegin, FileBegin, MarkVerified, ResolveBegin,
       Enter, tables, history, TypeInv, TypeOK
  <2>2. QED
    BY <2>1, AppliedKept
<1>2. CASE MarkAlready(r) \/ Abort(r) \/ MarkInsert(r) \/ OverrideInsert(r)
  <2>1. Unapproving
    BY <1>2 DEF MarkAlready, Abort, MarkInsert, OverrideInsert, Finish, Idle,
       tables, history, TypeInv, TypeOK
  <2>2. QED
    BY <2>1, AppliedKept
<1>3. CASE KioskMark(r) \/ DeleteStudentRows(r)
  <2>1. Unapproving
    BY <1>3 DEF KioskMark, DeleteStudentRows
  <2>2. QED
    BY <2>1, AppliedKept
<1>4. CASE DeleteSessionRows(r) \/ DeleteSession(r)
  <2>1. \E new : req' = [req EXCEPT ![r] = new] /\ new.pc # "r_approve"
    <3>1. CASE DeleteSessionRows(r)
      <4>1. PICK e \in SessionId :
              req' = [req EXCEPT ![r] = [pc |-> "d_session", id |-> e]]
        BY <3>1 DEF DeleteSessionRows
      <4>2. [pc |-> "d_session", id |-> e].pc # "r_approve"
        OBVIOUS
      <4>3. QED
        BY <4>1, <4>2
    <3>2. CASE DeleteSession(r)
      <4>1. req' = [req EXCEPT ![r] = Idle] /\ Idle.pc # "r_approve"
        BY <3>2 DEF DeleteSession, Finish, Idle
      <4>2. QED
        BY <4>1
    <3>3. QED
      BY <1>4, <3>1, <3>2
  <2>2. corrections' = corrections /\ applied' = applied
    BY <1>4 DEF DeleteSessionRows, DeleteSession, history
  <2>3. Unapproving
    BY <2>1, <2>2 DEF TypeInv, TypeOK
  <2>4. QED
    BY <2>3, AppliedKept
<1>5. ASSUME NEW next, next # "r_approve", Goto(r, next) \/ Finish(r),
             req[r].pc \in Step, corrections' = corrections, applied' = applied
      PROVE  AppliedOK'
  <2>1. req'[r].pc # "r_approve"
    BY <1>5, WorkAt DEF Goto, Finish, Idle, Work, TypeInv, TypeOK
  <2>2. Unapproving
    BY <1>5, <2>1 DEF Goto, Finish, TypeInv, TypeOK
  <2>3. QED
    BY <2>2, AppliedKept
<1>6. CASE OverrideDelete(r) \/ FilePending(r) \/ ApproveCheck(r) \/ ApproveDelete(r)
  <2>1. req[r].pc \in Step /\ corrections' = corrections /\ applied' = applied
    BY <1>6 DEF OverrideDelete, FilePending, ApproveCheck, ApproveDelete, Step,
       tables, history
  <2>2. \E next \in {"o_insert", "f_insert", "r_delete", "r_insert"} :
          Goto(r, next) \/ Finish(r)
    BY <1>6 DEF OverrideDelete, FilePending, ApproveCheck, ApproveDelete
  <2>3. QED
    BY <1>5, <2>1, <2>2
<1>7. CASE FileInsert(r)
  <2>1. req[r] \in Work /\ req[r].want \in AttStatus
    BY <1>7, WorkAt DEF FileInsert, At, Step, Work, TypeInv
  <2>2. \A c \in DOMAIN corrections' : corrections'[c].status = "approved" =>
          c \in DOMAIN corrections /\ corrections[c].status = "approved"
    BY <1>7, <2>1, AppendProperties, LenProperties
    DEF FileInsert, TypeInv, TypeOK, Correction, Work
  <2>3. QED
    BY <1>7, <2>2
    DEF FileInsert, Finish, Idle, history, AppliedOK, ApprovedWasApplied, At,
        TypeInv, TypeOK
<1>8. CASE ApproveInsert(r)
  <2>1. PICK new : /\ req' = [req EXCEPT ![r] = new]
                   /\ new.pc = "r_approve" /\ new.pair = req[r].pair
    BY <1>8, GotoShape DEF ApproveInsert, At, Step
  <2>2. req'[r].id = req[r].id
    BY <1>8, WorkAt DEF ApproveInsert, Goto, At, Step, Work, TypeInv, TypeOK
  <2>3. QED
    BY <1>8, <2>1, <2>2
    DEF ApproveInsert, AppliedOK, ApprovedWasApplied, At, TypeInv, TypeOK
<1>9. CASE ResolveWrite(r)
  <2>1. UNCHANGED applied /\ req' = [req EXCEPT ![r] = Idle]
    BY <1>9 DEF ResolveWrite, Finish, history
  <2>2. \A c \in DOMAIN corrections' :
          corrections'[c].status = "approved" => c \in applied
    BY <1>9, ResolvedSeq DEF AppliedOK, ApprovedWasApplied
  <2>3. QED
    BY <2>1, <2>2 DEF AppliedOK, ApprovedWasApplied, At, Idle, TypeInv, TypeOK
<1>10. QED
  BY <1>1, <1>2, <1>3, <1>4, <1>6, <1>7, <1>8, <1>9 DEF Handler

LEMMA NextApplied == TypeInv /\ AppliedOK /\ [Next]_vars => AppliedOK'
<1>1. ASSUME AppliedOK, NEW e \in SessionId, Lifecycle(e) PROVE AppliedOK'
  BY <1>1, LifecycleKeepsRows DEF AppliedOK, ApprovedWasApplied, At, history
<1>2. ASSUME AppliedOK, UNCHANGED vars PROVE AppliedOK'
  BY <1>2 DEF AppliedOK, ApprovedWasApplied, At, vars, tables, history
<1>3. QED
  BY <1>1, <1>2, HandlerApplied DEF Next

\* An approved correction had its row inserted, whatever requests died on the
\* way: resolve_attendance_correction writes the status last.
THEOREM ApprovedApplied == Spec => []ApprovedWasApplied
<1>1. Init => AppliedOK
  BY DEF Init, AppliedOK, ApprovedWasApplied, At, Idle
<1>2. AppliedOK => ApprovedWasApplied
  BY DEF AppliedOK
<1>3. QED
  BY <1>1, <1>2, NextApplied, TypeInvariant, PTL DEF Spec

-----------------------------------------------------------------------------
(* What a correction leaves behind. *)

LEMMA WindowHandler ==
  ASSUME NEW r \in Request, Handler(r), req[r].pc \in WindowStep
  PROVE  OverrideInsert(r) \/ ApproveInsert(r) \/ Abort(r)
BY DEF Handler, MarkBegin, MarkAlready, MarkVerified, MarkInsert, KioskMark,
       OverrideBegin, OverrideDelete, FileBegin, FilePending, FileInsert,
       ResolveBegin, ApproveCheck, ApproveDelete, ResolveWrite,
       DeleteSessionRows, DeleteSession, DeleteStudentRows, Begin, At, WindowStep

LEMMA CorrectionStep ==
  ASSUME TypeInv, TornOK, [Next]_vars, NEW r \in Request, NEW p \in Pair,
         InWindow(r, p), rows'[p] # rows[p], req'[r] # req[r], p \notin torn'
  PROVE  rows'[p] = <<req[r].want>>
<1>1. PICK q \in Request : Handler(q)
  <2>1. ~UNCHANGED vars
    BY DEF vars, tables
  <2>2. ~\E e \in SessionId : Lifecycle(e)
    BY LifecycleKeepsRows
  <2>3. QED
    BY <2>1, <2>2 DEF Next
<1>2. q = r
  <2>1. PICK new : req' = [req EXCEPT ![q] = new]
    BY <1>1, HandlerKind
  <2>2. QED
    BY <2>1 DEF TypeInv, TypeOK
<1>3. req[r].pc \in WindowStep /\ req[r].pair = p
  BY DEF InWindow, WindowStep
<1>4. OverrideInsert(r) \/ ApproveInsert(r)
  <2>1. ~Abort(r)
    BY DEF Abort, tables
  <2>2. QED
    BY <1>1, <1>2, <1>3, <2>1, WindowHandler
<1>5. AddRow(r, p, req[r].want)
  BY <1>3, <1>4 DEF OverrideInsert, ApproveInsert
<1>6. rows[p] = <<>>
  BY <1>5 DEF AddRow, TornOK
<1>7. rows'[p] = Append(<<>>, req[r].want)
  BY <1>5, <1>6 DEF AddRow, TypeInv, TypeOK
<1>8. QED
  BY <1>7

\* An override or approval whose window nobody wrote into leaves exactly the
\* row it was asked for.
THEOREM CorrectionsDecide == Spec => CorrectionDecides
<1>1. TypeInv /\ TornOK /\ [Next]_vars =>
        [\A r \in Request, p \in Pair :
           InWindow(r, p) /\ rows'[p] # rows[p] /\ req'[r] # req[r] /\ p \notin torn'
             => rows'[p] = <<req[r].want>>]_vars
  BY CorrectionStep
<1>2. QED
  BY <1>1, TypeInvariant, TornInvariant, PTL DEF Spec, CorrectionDecides

-----------------------------------------------------------------------------
(* One worker. *)

LEMMA NothingTorn ==
  ASSUME \A q, r \in Request : q = r, TypeInv, torn = {}, [Next]_vars
  PROVE  torn' = {}
<1>1. ASSUME NEW r \in Request, Handler(r) PROVE torn' = {}
  <2>1. PICK new : StepKind(r, new)
    BY <1>1, HandlerKind
  <2>2. CASE Insert(r, new)
    BY <2>2 DEF Insert, AddRow
  <2>3. CASE Delete(new)
    BY <2>3 DEF Delete, DeleteRows
  <2>4. CASE Quiet(new) \/ DeleteSession(r)
    BY <2>4 DEF Quiet, DeleteSession, history
  <2>5. QED
    BY <2>1, <2>2, <2>3, <2>4 DEF StepKind
<1>2. ASSUME NEW e \in SessionId, Lifecycle(e) PROVE torn' = {}
  BY <1>2, LifecycleKeepsRows DEF history
<1>3. CASE UNCHANGED vars
  BY <1>3 DEF vars, history
<1>4. QED
  BY <1>1, <1>2, <1>3 DEF Next

\* Served by a single worker, the application never records two rows for a
\* student and a session, although the table has no UNIQUE constraint.
THEOREM OneWorkerSingleRow ==
  ASSUME \A q, r \in Request : q = r
  PROVE  Spec => []SingleRow
<1>1. Init => torn = {}
  BY DEF Init
<1>2. TypeInv /\ torn = {} /\ [Next]_vars => (torn = {})'
  BY NothingTorn
<1>3. TornOK /\ torn = {} => SingleRow
  BY DEF TornOK, SingleRow
<1>4. QED
  BY <1>1, <1>2, <1>3, TypeInvariant, TornInvariant, PTL DEF Spec

\* With one worker nothing is filed between the look for a pending request and
\* the insert of the new one.
PendingOK ==
  /\ OnePendingPerPair
  /\ \A r \in Request : At(r, "f_insert") => ~HasPending(req[r].pair)

LEMMA FileInsertPending ==
  ASSUME TypeInv, PendingOK, NEW r \in Request, FileInsert(r)
  PROVE  OnePendingPerPair'
<1> DEFINE new == [pair |-> req[r].pair, want |-> req[r].want, status |-> "pending"]
<1>1. req[r] \in Work /\ req[r].want \in AttStatus
  BY WorkAt DEF FileInsert, At, Step, Work, TypeInv
<1>2. new \in Correction /\ corrections \in Seq(Correction) /\ new.pair = req[r].pair
  BY <1>1 DEF Work, Correction, TypeInv, TypeOK
<1>3. corrections' = Append(corrections, new)
  BY DEF FileInsert
<1> HIDE DEF new
<1>4. /\ corrections' \in Seq(Correction) /\ Len(corrections) \in Nat
      /\ Len(corrections') = Len(corrections) + 1
      /\ corrections'[Len(corrections) + 1] = new
      /\ \A c \in 1 .. Len(corrections) : corrections'[c] = corrections[c]
  BY <1>2, <1>3, AppendProperties
<1>5. /\ DOMAIN corrections = 1 .. Len(corrections)
      /\ DOMAIN corrections' = 1 .. Len(corrections')
  BY <1>2, <1>4, LenProperties
<1>6. \A c \in DOMAIN corrections :
        corrections[c].status = "pending" => corrections[c].pair # new.pair
  BY <1>2 DEF PendingOK, FileInsert, HasPending
<1>7. SUFFICES ASSUME NEW c \in DOMAIN corrections', NEW d \in DOMAIN corrections',
                      corrections'[c].pair = corrections'[d].pair,
                      corrections'[c].status = "pending", corrections'[d].status = "pending"
               PROVE  c = d
  BY DEF OnePendingPerPair
<1>8. \A x \in DOMAIN corrections' : x \in DOMAIN corrections \/ x = Len(corrections) + 1
  BY <1>4, <1>5
<1>9. CASE c \in DOMAIN corrections /\ d \in DOMAIN corrections
  BY <1>4, <1>5, <1>7, <1>9 DEF PendingOK, OnePendingPerPair
<1>10. CASE c = Len(corrections) + 1 /\ d \in DOMAIN corrections
  BY <1>4, <1>5, <1>6, <1>7, <1>10
<1>11. CASE c \in DOMAIN corrections /\ d = Len(corrections) + 1
  BY <1>4, <1>5, <1>6, <1>7, <1>11
<1>12. QED
  BY <1>7, <1>8, <1>9, <1>10, <1>11

LEMMA HandlerPending ==
  ASSUME \A q, r \in Request : q = r, TypeInv, PendingOK, NEW r \in Request, Handler(r)
  PROVE  PendingOK'
<1>1. CASE FileInsert(r)
  <2>1. req'[r] = Idle
    BY <1>1 DEF FileInsert, Finish, TypeInv, TypeOK
  <2>2. \A q \in Request : ~At(q, "f_insert")'
    BY <2>1 DEF At, Idle
  <2>3. QED
    BY <1>1, <2>2, FileInsertPending DEF PendingOK
<1>2. CASE FilePending(r)
  <2>1. req[r].pc \in Step /\ UNCHANGED corrections
    BY <1>2 DEF FilePending, At, Step, tables
  <2>2. CASE Finish(r)
    <3>1. req'[r] = Idle
      BY <2>2 DEF Finish, TypeInv, TypeOK
    <3>2. \A q \in Request : ~At(q, "f_insert")'
      BY <3>1 DEF At, Idle
    <3>3. QED
      BY <2>1, <3>2 DEF PendingOK, OnePendingPerPair
  <2>3. CASE ~HasPending(req[r].pair) /\ Goto(r, "f_insert")
    <3>1. PICK new : /\ req' = [req EXCEPT ![r] = new]
                     /\ new.pc = "f_insert" /\ new.pair = req[r].pair
      BY <2>1, <2>3, GotoShape
    <3>2. \A q \in Request : req'[q].pair = req[r].pair
      BY <3>1 DEF TypeInv, TypeOK
    <3>3. \A q \in Request : ~HasPending(req[q].pair)'
      BY <2>1, <2>3, <3>2 DEF HasPending
    <3>4. QED
      BY <2>1, <3>3 DEF PendingOK, OnePendingPerPair
  <2>4. QED
    BY <1>2, <2>2, <2>3 DEF FilePending
<1>3. CASE ResolveWrite(r)
  <2>1. \A q \in Request : ~At(q, "f_insert")'
    BY <1>3 DEF ResolveWrite, Finish, At, Idle, TypeInv, TypeOK
  <2>2. /\ DOMAIN corrections' = DOMAIN corrections
        /\ \A c \in DOMAIN corrections :
             /\ corrections'[c].pair = corrections[c].pair
             /\ corrections'[c].status = "pending" => corrections[c].status = "pending"
    BY <1>3, ResolvedSeq
  <2>3. QED
    BY <2>1, <2>2 DEF PendingOK, OnePendingPerPair
<1>4. CASE ~(FileInsert(r) \/ FilePending(r) \/ ResolveWrite(r))
  <2>1. UNCHANGED corrections
    BY <1>4 DEF Handler, MarkBegin, MarkAlready, MarkVerified, MarkInsert, KioskMark,
       OverrideBegin, OverrideDelete, OverrideInsert, FileBegin, ResolveBegin, ApproveCheck,
       ApproveDelete, ApproveInsert, DeleteSessionRows, DeleteSession, DeleteStudentRows,
       Abort, tables
  <2>2. req'[r].pc # "f_insert"
    <3>1. CASE \/ MarkBegin(r) \/ MarkVerified(r) \/ OverrideBegin(r) \/ FileBegin(r)
               \/ ResolveBegin(r)
      BY <3>1 DEF MarkBegin, MarkVerified, OverrideBegin, FileBegin, ResolveBegin, Enter,
         TypeInv, TypeOK
    <3>2. CASE Finish(r)
      BY <3>2 DEF Finish, Idle, TypeInv, TypeOK
    <3>3. CASE \/ (OverrideDelete(r) \/ ApproveCheck(r)) /\ ~Finish(r)
               \/ ApproveDelete(r) \/ ApproveInsert(r)
      <4>1. PICK step \in {"o_insert", "r_delete", "r_insert", "r_approve"} :
              Goto(r, step) /\ req[r].pc \in Step
        BY <3>3 DEF OverrideDelete, ApproveCheck, ApproveDelete, ApproveInsert, At, Step
      <4>2. PICK new : req' = [req EXCEPT ![r] = new] /\ new.pc = step
        BY <4>1, GotoShape
      <4>3. QED
        BY <4>1, <4>2 DEF TypeInv, TypeOK
    <3>4. CASE KioskMark(r) \/ DeleteStudentRows(r)
      BY <3>4 DEF KioskMark, DeleteStudentRows, Begin, At
    <3>5. CASE DeleteSessionRows(r)
      BY <3>5 DEF DeleteSessionRows, TypeInv, TypeOK
    <3>6. QED
      BY <1>4, <3>1, <3>2, <3>3, <3>4, <3>5
      DEF Handler, MarkAlready, MarkInsert, OverrideInsert, DeleteSession, Abort
  <2>3. \A q \in Request : ~At(q, "f_insert")'
    BY <2>2 DEF At
  <2>4. QED
    BY <2>1, <2>3 DEF PendingOK, OnePendingPerPair
<1>5. QED
  BY <1>1, <1>2, <1>3, <1>4

\* Served by a single worker, a student never has two pending correction requests
\* for one session, although the check and the insert are two statements.
THEOREM OneWorkerPending ==
  ASSUME \A q, r \in Request : q = r
  PROVE  Spec => []OnePendingPerPair
<1>1. Init => PendingOK
  BY EmptySeq DEF Init, PendingOK, OnePendingPerPair, At, Idle
<1>2. TypeInv /\ PendingOK /\ [Next]_vars => PendingOK'
  <2> SUFFICES ASSUME TypeInv, PendingOK, [Next]_vars PROVE PendingOK'
    OBVIOUS
  <2>1. ASSUME NEW e \in SessionId, Lifecycle(e) PROVE UNCHANGED <<corrections, req>>
    BY <2>1 DEF Lifecycle, Schedule, Start, Stop, Cancel, AutoClose, Reschedule, Age,
       OpenKiosk, SetSession
  <2>2. CASE UNCHANGED <<corrections, req>>
    BY <2>2 DEF PendingOK, OnePendingPerPair, HasPending, At
  <2>3. QED
    BY <2>1, <2>2, HandlerPending DEF Next, vars, tables
<1>3. PendingOK => OnePendingPerPair
  BY DEF PendingOK
<1>4. QED
  BY <1>1, <1>2, <1>3, TypeInvariant, PTL DEF Spec
=============================================================================
