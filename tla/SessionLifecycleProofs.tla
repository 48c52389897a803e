------------------------ MODULE SessionLifecycleProofs ------------------------
(***************************************************************************)
(* Proofs about SessionLifecycle, for any number of sessions, windows and  *)
(* workers.                                                                *)
(***************************************************************************)
EXTENDS MCSessionLifecycle, FiniteSetTheorems, TLAPS

-----------------------------------------------------------------------------
(* Types. *)

LEMMA CreatingAt ==
  ASSUME TypeOK, NEW r \in Request, req[r].pc = "create"
  PROVE  req[r] \in Creating
BY DEF TypeOK, Work, Creating, Cancelling, Moving, Sweeping, Idle

LEMMA CancellingAt ==
  ASSUME TypeOK, NEW r \in Request, req[r].pc = "cancel"
  PROVE  req[r] \in Cancelling
BY DEF TypeOK, Work, Creating, Cancelling, Moving, Sweeping, Idle

LEMMA MovingAt ==
  ASSUME TypeOK, NEW r \in Request, req[r].pc \in {"check", "move"}
  PROVE  req[r] \in Moving
BY DEF TypeOK, Work, Creating, Cancelling, Moving, Sweeping, Idle

LEMMA SweepingAt ==
  ASSUME TypeOK, NEW r \in Request, req[r].pc = "sweep"
  PROVE  req[r] \in Sweeping
BY DEF TypeOK, Work, Creating, Cancelling, Moving, Sweeping, Idle

\* An existing row has all its columns.
LEMMA RowAt ==
  ASSUME TypeOK, NEW e \in SessionId, Exists(e)
  PROVE  session[e] \in Row
BY DEF TypeOK, Exists, NoRow

LEMMA EnterType ==
  ASSUME TypeOK, NEW r \in Request, NEW work \in Work, Enter(r, work)
  PROVE  req' \in [Request -> Work]
BY DEF TypeOK, Enter

LEMMA FinishType ==
  ASSUME TypeOK, NEW r \in Request, Finish(r)
  PROVE  req' \in [Request -> Work]
<1>1. Idle \in Work
  BY DEF Work
<1>2. QED
  BY <1>1 DEF TypeOK, Finish

LEMMA WriteType ==
  ASSUME TypeOK, NEW r \in Request, NEW e \in SessionId,
         NEW row \in Row \cup {NoRow}, NEW v, Write(r, e, row, v)
  PROVE  /\ session' \in [SessionId -> Row \cup {NoRow}]
         /\ now' \in Nat
         /\ raced' \subseteq Request
         /\ unchecked' \subseteq SessionId
<1>1. raced' \subseteq Request
  BY DEF Write
<1>2. unchecked' \subseteq SessionId
  BY DEF Write, TypeOK
<1>3. session' \in [SessionId -> Row \cup {NoRow}] /\ now' \in Nat
  BY DEF Write, TypeOK
<1>4. QED
  BY <1>1, <1>2, <1>3

LEMMA StatusRow ==
  ASSUME TypeOK, NEW e \in SessionId, Exists(e),
         NEW status \in Status, NEW active \in BOOLEAN
  PROVE  [session[e] EXCEPT !.status = status, !.active = active] \in Row
BY RowAt DEF Row

LEMMA SetStatusType ==
  ASSUME TypeOK, NEW r \in Request, NEW e \in SessionId,
         NEW status \in Status, NEW active \in BOOLEAN,
         SetStatus(r, e, status, active)
  PROVE  /\ session' \in [SessionId -> Row \cup {NoRow}]
         /\ now' \in Nat
         /\ raced' \subseteq Request
         /\ unchecked' \subseteq SessionId
<1>1. CASE Exists(e)
  <2>1. PICK row \in Row : Write(r, e, row, FALSE)
    BY <1>1, StatusRow DEF SetStatus
  <2>2. QED
    BY <2>1, WriteType
<1>2. CASE ~Exists(e)
  BY <1>2 DEF SetStatus, TypeOK
<1>3. QED
  BY <1>1, <1>2

\* The row a reschedule writes.
LEMMA MovedRow ==
  ASSUME TypeOK, NEW r \in Request, At(r, "move")
  PROVE  [status |-> IF req[r].status = "cancelled" THEN "scheduled" ELSE req[r].status,
          active |-> FALSE, window |-> req[r].window] \in Row
BY MovingAt DEF At, Moving, Row, Status

LEMMA SnapshotType ==
  ASSUME TypeOK, NEW ids \in SUBSET {e \in SessionId : session[e].status = "active"}
  PROVE  Snapshot(ids) \in SUBSET Seen
<1>1. \A e \in ids : e \in SessionId /\ session[e] \in Row
  BY DEF TypeOK, NoRow
<1>2. QED
  BY <1>1 DEF Snapshot, Seen, Row

LEMMA HandlerType ==
  ASSUME TypeOK, NEW r \in Request, Handler(r)
  PROVE  TypeOK'
<1>1. CASE CreateCheck(r)
  <2>1. PICK w \in Window : Enter(r, [pc |-> "create", id |-> 0, window |-> w])
    BY <1>1 DEF CreateCheck
  <2>2. [pc |-> "create", id |-> 0, window |-> w] \in Work
    BY DEF Work, Creating
  <2>3. req' \in [Request -> Work]
    BY <2>1, <2>2, EnterType
  <2>4. QED
    BY <1>1, <2>3 DEF CreateCheck, TypeOK
<1>2. CASE CreateInsert(r)
  <2>1. NewRow(req[r].window) \in Row
    BY <1>2, CreatingAt DEF CreateInsert, At, Creating, NewRow, Row, Status
  <2>2. req' \in [Request -> Work]
    BY <1>2, FinishType DEF CreateInsert
  <2>3. QED
    BY <1>2, <2>1, <2>2, WriteType DEF CreateInsert, TypeOK
<1>3. CASE CancelUpdate(r)
  <2>1. req[r].id \in SessionId
    BY <1>3, CancellingAt DEF CancelUpdate, At, Cancelling
  <2>2. req' \in [Request -> Work]
    BY <1>3, FinishType DEF CancelUpdate
  <2>3. QED
    BY <1>3, <2>1, <2>2, SetStatusType DEF CancelUpdate, Status, TypeOK
<1>4. CASE RescheduleCheck(r)
  <2>1. [req[r] EXCEPT !.pc = "move"] \in Work
    BY <1>4, MovingAt DEF RescheduleCheck, At, Moving, Work
  <2>2. req' \in [Request -> Work]
    BY <1>4, <2>1, FinishType, EnterType DEF RescheduleCheck
  <2>3. QED
    BY <1>4, <2>2 DEF RescheduleCheck, TypeOK
<1>5. CASE RescheduleUpdate(r)
  <2>1. PICK row \in Row :
          IF Exists(req[r].id)
          THEN Write(r, req[r].id, row, r \notin raced)
          ELSE raced' = raced \ {r} /\ UNCHANGED <<session, now, unchecked>>
    BY <1>5, MovedRow DEF RescheduleUpdate
  <2>2. req[r].id \in SessionId
    BY <1>5, MovingAt DEF RescheduleUpdate, At, Moving
  <2>3. req' \in [Request -> Work]
    BY <1>5, FinishType DEF RescheduleUpdate
  <2>4. CASE Exists(req[r].id)
    BY <2>1, <2>2, <2>3, <2>4, WriteType DEF TypeOK
  <2>5. CASE ~Exists(req[r].id)
    BY <2>1, <2>3, <2>5 DEF TypeOK
  <2>6. QED
    BY <2>4, <2>5
<1>6. CASE SweepList(r)
  <2>1. PICK all \in BOOLEAN, ids \in SUBSET {e \in SessionId : session[e].status = "active"} :
          Enter(r, [pc |-> "sweep", todo |-> Snapshot(ids), all |-> all, at |-> now])
    BY <1>6 DEF SweepList
  <2>2. [pc |-> "sweep", todo |-> Snapshot(ids), all |-> all, at |-> now] \in Work
    BY SnapshotType DEF Work, Sweeping, TypeOK
  <2>3. req' \in [Request -> Work]
    BY <2>1, <2>2, EnterType
  <2>4. QED
    BY <1>6, <2>3 DEF SweepList, TypeOK
<1>7. CASE SweepNext(r)
  <2>1. req[r] \in Sweeping
    BY <1>7, SweepingAt DEF SweepNext, At
  <2>2. PICK seen \in req[r].todo :
          /\ SetStatus(r, seen.id, "completed", FALSE)
             \/ UNCHANGED <<session, now, raced, unchecked>>
          /\ Remove(r, seen)
    BY <1>7 DEF SweepNext
  <2>3. seen.id \in SessionId
    BY <2>1 DEF Sweeping, Seen
  <2>4. [req[r] EXCEPT !.todo = @ \ {seen}] \in Work
    BY <2>1 DEF Sweeping, Work
  <2>5. req' \in [Request -> Work]
    BY <2>2, <2>4 DEF Remove, TypeOK
  <2>6. CASE SetStatus(r, seen.id, "completed", FALSE)
    BY <2>3, <2>5, <2>6, SetStatusType DEF TypeOK, Status
  <2>7. CASE UNCHANGED <<session, now, raced, unchecked>>
    BY <2>5, <2>7 DEF TypeOK
  <2>8. QED
    BY <2>2, <2>6, <2>7
<1>8. CASE SweepDone(r)
  BY <1>8, FinishType DEF SweepDone, TypeOK
<1>9. CASE Abort(r)
  BY <1>9, FinishType DEF Abort, TypeOK
<1>10. ASSUME NEW e \in SessionId, Start(r, e) \/ Stop(r, e) PROVE TypeOK'
  BY <1>10, SetStatusType DEF Start, Stop, Status, TypeOK
<1>11. ASSUME NEW e \in SessionId, Delete(r, e) PROVE TypeOK'
  BY <1>11, WriteType DEF Delete, TypeOK
<1>12. ASSUME NEW e \in SessionId, CancelRead(r, e) PROVE TypeOK'
  <2>1. [pc |-> "cancel", id |-> e] \in Work
    BY DEF Work, Cancelling
  <2>2. req' \in [Request -> Work]
    BY <1>12, <2>1, EnterType DEF CancelRead
  <2>3. QED
    BY <1>12, <2>2 DEF CancelRead, TypeOK
<1>13. ASSUME NEW e \in SessionId, RescheduleRead(r, e) PROVE TypeOK'
  <2>1. PICK w \in Window :
          Enter(r, [pc |-> "check", id |-> e, window |-> w,
                    status |-> session[e].status])
    BY <1>13 DEF RescheduleRead
  <2>2. session[e].status \in Status
    BY <1>13, RowAt DEF RescheduleRead, Row
  <2>3. [pc |-> "check", id |-> e, window |-> w, status |-> session[e].status] \in Work
    BY <2>2 DEF Work, Moving
  <2>4. req' \in [Request -> Work]
    BY <2>1, <2>3, EnterType
  <2>5. QED
    BY <1>13, <2>4 DEF RescheduleRead, TypeOK
<1>14. QED
  BY <1>1, <1>2, <1>3, <1>4, <1>5, <1>6, <1>7, <1>8, <1>9, <1>10, <1>11,
     <1>12, <1>13 DEF Handler

LEMMA InitType == Init => TypeOK
BY ClockAssumption DEF Init, TypeOK, NoRow, Work

LEMMA NextType == TypeOK /\ [Next]_vars => TypeOK'
<1>1. ASSUME TypeOK, Tick PROVE TypeOK'
  BY <1>1 DEF Tick, TypeOK
<1>2. ASSUME TypeOK, UNCHANGED vars PROVE TypeOK'
  BY <1>2 DEF TypeOK, vars
<1>3. QED
  BY <1>1, <1>2, HandlerType DEF Next

\* Every row has its columns and every worker a legal control state.
THEOREM LifecycleTypeCorrect == Spec => []TypeOK
BY InitType, NextType, PTL DEF Spec

-----------------------------------------------------------------------------
(****************************************************************************)
(* What a handler's step can do: look (and perhaps pass its conflict check) *)
(* or write one row.  new is the control state it leaves its request in.    *)
(****************************************************************************)
CheckedStep == {"create", "move"}

Looks(r, new) ==
  /\ UNCHANGED <<session, unchecked>>
  /\ raced \ {r} \subseteq raced'
  /\ new.pc \in CheckedStep => ~Conflicts(new.id, new.window)

\* A write counts as verified when the check of its own request, not overtaken,
\* was for this window and left out no session but the written one.
Verified(r, e, row) ==
  /\ Checked(r) /\ r \notin raced
  /\ row.window = req[r].window
  /\ req[r].id \in {0, e}

Writes(r, new) ==
  /\ new.pc \notin CheckedStep
  /\ \E e \in SessionId, row \in Row \cup {NoRow}, v \in BOOLEAN :
       /\ Write(r, e, row, v)
       /\ row # NoRow /\ row.active => row.status = "active"
       /\ ~Exists(e) => NextId(e) /\ GateOf(row) = "closed"
       /\ v => Verified(r, e, row)

StepKind(r, new) == Looks(r, new) \/ Writes(r, new)

LEMMA SetStatusKind ==
  ASSUME TypeOK, NEW r \in Request, NEW e \in SessionId,
         NEW status \in Status, NEW active \in BOOLEAN, active => status = "active",
         SetStatus(r, e, status, active), NEW new, new.pc \notin CheckedStep
  PROVE  StepKind(r, new)
<1>1. CASE Exists(e)
  <2> DEFINE row == [session[e] EXCEPT !.status = status, !.active = active]
  <2>1. row \in Row /\ row.active = active /\ row.status = status
    BY <1>1, StatusRow, RowAt DEF Row
  <2>2. Write(r, e, row, FALSE)
    BY <1>1 DEF SetStatus
  <2> HIDE DEF row
  <2>3. Writes(r, new)
    BY <1>1, <2>1, <2>2 DEF Writes
  <2>4. QED
    BY <2>3 DEF StepKind
<1>2. CASE ~Exists(e)
  BY <1>2 DEF SetStatus, StepKind, Looks
<1>3. QED
  BY <1>1, <1>2

\* Steps that read the table and are not the conflict check.
LEMMA ReadKind ==
  ASSUME NEW r \in Request, UNCHANGED <<session, raced, unchecked>>,
         NEW new, new.pc \notin CheckedStep
  PROVE  StepKind(r, new)
BY DEF StepKind, Looks

LEMMA HandlerKind ==
  ASSUME TypeOK, NEW r \in Request, Handler(r)
  PROVE  \E new : req' = [req EXCEPT ![r] = new] /\ StepKind(r, new)
<1> USE DEF CheckedStep
<1>1. CASE CreateCheck(r)
  <2>1. PICK w \in Window :
          /\ ~Conflicts(0, w)
          /\ Enter(r, [pc |-> "create", id |-> 0, window |-> w])
    BY <1>1 DEF CreateCheck
  <2> DEFINE new == [pc |-> "create", id |-> 0, window |-> w]
  <2>2. Looks(r, new)
    BY <1>1, <2>1 DEF CreateCheck, Looks
  <2>3. QED
    BY <2>1, <2>2 DEF Enter, StepKind
<1>2. CASE CreateInsert(r)
  <2>1. req[r].id = 0 /\ req[r].window \in Window
    BY <1>2, CreatingAt DEF CreateInsert, At, Creating
  <2>2. PICK e \in SessionId :
          NextId(e) /\ Write(r, e, NewRow(req[r].window), r \notin raced)
    BY <1>2 DEF CreateInsert
  <2> DEFINE row == NewRow(req[r].window)
  <2>3. /\ row \in Row /\ ~row.active /\ row.window = req[r].window
        /\ GateOf(row) = "closed"
    BY <2>1 DEF NewRow, Row, Status, GateOf
  <2>4. r \notin raced => Verified(r, e, row)
    BY <1>2, <2>1, <2>3 DEF CreateInsert, At, Checked, Verified
  <2> HIDE DEF row
  <2>5. Idle.pc \notin CheckedStep
    BY DEF Idle
  <2>6. Writes(r, Idle)
    BY <2>2, <2>3, <2>4, <2>5 DEF Writes, row
  <2>7. QED
    BY <1>2, <2>6 DEF CreateInsert, Finish, StepKind
<1>3. CASE CancelUpdate(r)
  <2>1. req[r].id \in SessionId
    BY <1>3, CancellingAt DEF CancelUpdate, At, Cancelling
  <2>2. SetStatus(r, req[r].id, "cancelled", FALSE) /\ "cancelled" \in Status
    BY <1>3 DEF CancelUpdate, Status
  <2>3. Idle.pc \notin CheckedStep
    BY DEF Idle
  <2>4. StepKind(r, Idle)
    BY <2>1, <2>2, <2>3, SetStatusKind
  <2>5. QED
    BY <1>3, <2>4 DEF CancelUpdate, Finish
<1>4. CASE RescheduleCheck(r)
  <2>1. CASE Finish(r)
    <3>1. Idle.pc \notin CheckedStep
      BY DEF Idle
    <3>2. StepKind(r, Idle)
      BY <1>4, <3>1, ReadKind DEF RescheduleCheck
    <3>3. QED
      BY <2>1, <3>2 DEF Finish
  <2>2. CASE ~Conflicts(req[r].id, req[r].window) /\ Enter(r, [req[r] EXCEPT !.pc = "move"])
    <3> DEFINE new == [req[r] EXCEPT !.pc = "move"]
    <3>1. new.id = req[r].id /\ new.window = req[r].window
      BY <1>4, MovingAt DEF RescheduleCheck, At, Moving
    <3>2. req' = [req EXCEPT ![r] = new]
      BY <2>2 DEF Enter
    <3> HIDE DEF new
    <3>3. Looks(r, new)
      BY <1>4, <2>2, <3>1 DEF RescheduleCheck, Looks
    <3>4. QED
      BY <3>2, <3>3 DEF StepKind
  <2>3. QED
    BY <1>4, <2>1, <2>2 DEF RescheduleCheck
<1>5. CASE RescheduleUpdate(r)
  <2> DEFINE row == [status |-> IF req[r].status = "cancelled" THEN "scheduled"
                                ELSE req[r].status,
                     active |-> FALSE, window |-> req[r].window]
  <2>1. /\ row \in Row /\ ~row.active /\ row.window = req[r].window
        /\ req[r].id \in SessionId
    BY <1>5, MovedRow, MovingAt DEF RescheduleUpdate, At, Moving
  <2>2. IF Exists(req[r].id)
        THEN Write(r, req[r].id, row, r \notin raced)
        ELSE raced' = raced \ {r} /\ UNCHANGED <<session, now, unchecked>>
    BY <1>5 DEF RescheduleUpdate
  <2>3. r \notin raced => Verified(r, req[r].id, row)
    BY <1>5, <2>1 DEF RescheduleUpdate, At, Checked, Verified
  <2> HIDE DEF row
  <2>4. StepKind(r, Idle)
    <3>0. Idle.pc \notin CheckedStep
      BY DEF Idle
    <3>1. CASE Exists(req[r].id)
      BY <2>1, <2>2, <2>3, <3>0, <3>1 DEF StepKind, Writes
    <3>2. CASE ~Exists(req[r].id)
      BY <2>2, <3>0, <3>2 DEF StepKind, Looks
    <3>3. QED
      BY <3>1, <3>2
  <2>5. QED
    BY <1>5, <2>4 DEF RescheduleUpdate, Finish
<1>6. CASE SweepList(r)
  <2>1. PICK all, todo :
          Enter(r, [pc |-> "sweep", todo |-> todo, all |-> all, at |-> now])
    BY <1>6 DEF SweepList
  <2>2. StepKind(r, [pc |-> "sweep", todo |-> todo, all |-> all, at |-> now])
    BY <1>6, ReadKind DEF SweepList
  <2>3. QED
    BY <2>1, <2>2 DEF Enter
<1>7. CASE SweepNext(r)
  <2>1. req[r] \in Sweeping
    BY <1>7, SweepingAt DEF SweepNext, At
  <2>2. PICK seen \in req[r].todo :
          /\ SetStatus(r, seen.id, "completed", FALSE)
             \/ UNCHANGED <<session, now, raced, unchecked>>
          /\ Remove(r, seen)
    BY <1>7 DEF SweepNext
  <2>3. seen.id \in SessionId
    BY <2>1 DEF Sweeping, Seen
  <2> DEFINE new == [req[r] EXCEPT !.todo = @ \ {seen}]
  <2>4. new.pc = "sweep" /\ req' = [req EXCEPT ![r] = new]
    BY <2>1, <2>2 DEF Sweeping, Remove
  <2> HIDE DEF new
  <2>5. StepKind(r, new)
    BY <2>2, <2>3, <2>4, SetStatusKind, ReadKind DEF Status
  <2>6. QED
    BY <2>4, <2>5
<1>8. CASE SweepDone(r)
  <2>1. StepKind(r, Idle)
    BY <1>8, ReadKind DEF SweepDone, Idle
  <2>2. QED
    BY <1>8, <2>1 DEF SweepDone, Finish
<1>9. CASE Abort(r)
  <2>1. StepKind(r, Idle)
    BY <1>9 DEF Abort, StepKind, Looks, Idle
  <2>2. QED
    BY <1>9, <2>1 DEF Abort, Finish
<1>10. ASSUME NEW e \in SessionId, Start(r, e) \/ Stop(r, e) \/ Delete(r, e)
       PROVE  \E new : req' = [req EXCEPT ![r] = new] /\ StepKind(r, new)
  <2>1. req' = [req EXCEPT ![r] = req[r]] /\ req[r].pc \notin CheckedStep
    BY <1>10 DEF Start, Stop, Delete, At, TypeOK
  <2>2. CASE Start(r, e) \/ Stop(r, e)
    <3>1. StepKind(r, req[r])
      BY <2>1, <2>2, SetStatusKind DEF Start, Stop, Status
    <3>2. QED
      BY <2>1, <3>1
  <2>3. CASE Delete(r, e)
    <3>1. Writes(r, req[r])
      BY <2>1, <2>3 DEF Delete, Writes
    <3>2. QED
      BY <2>1, <3>1 DEF StepKind
  <2>4. QED
    BY <1>10, <2>2, <2>3
<1>11. ASSUME NEW e \in SessionId, CancelRead(r, e) \/ RescheduleRead(r, e)
       PROVE  \E new : req' = [req EXCEPT ![r] = new] /\ StepKind(r, new)
  <2>1. PICK new : Enter(r, new) /\ new.pc \in {"cancel", "check"}
    <3>1. CASE CancelRead(r, e)
      <4>1. [pc |-> "cancel", id |-> e].pc = "cancel"
        OBVIOUS
      <4>2. QED
        BY <3>1, <4>1 DEF CancelRead
    <3>2. CASE RescheduleRead(r, e)
      <4>1. PICK w \in Window :
              Enter(r, [pc |-> "check", id |-> e, window |-> w,
                        status |-> session[e].status])
        BY <3>2 DEF RescheduleRead
      <4>2. [pc |-> "check", id |-> e, window |-> w,
             status |-> session[e].status].pc = "check"
        OBVIOUS
      <4>3. QED
        BY <4>1, <4>2
    <3>3. QED
      BY <1>11, <3>1, <3>2
  <2>2. StepKind(r, new)
    BY <1>11, <2>1, ReadKind DEF CancelRead, RescheduleRead
  <2>3. QED
    BY <2>1, <2>2 DEF Enter
<1>12. QED
  BY <1>1, <1>2, <1>3, <1>4, <1>5, <1>6, <1>7, <1>8, <1>9, <1>10, <1>11 DEF Handler

-----------------------------------------------------------------------------
(* Open sessions are active. *)

LEMMA NextOpen == TypeOK /\ OpenIsActive /\ [Next]_vars => OpenIsActive'
<1>1. ASSUME TypeOK, OpenIsActive, NEW r \in Request, Handler(r)
      PROVE  OpenIsActive'
  <2>1. PICK new : StepKind(r, new)
    BY <1>1, HandlerKind
  <2>2. CASE Looks(r, new)
    BY <1>1, <2>2 DEF Looks, OpenIsActive, Exists
  <2>3. CASE Writes(r, new)
    <3>1. PICK e \in SessionId, row \in Row \cup {NoRow} :
            /\ session' = [session EXCEPT ![e] = row]
            /\ row # NoRow /\ row.active => row.status = "active"
      BY <2>3 DEF Writes, Write
    <3>2. QED
      BY <1>1, <3>1 DEF OpenIsActive, Exists, NoRow, TypeOK
  <2>4. QED
    BY <2>1, <2>2, <2>3 DEF StepKind
<1>2. ASSUME OpenIsActive, Tick \/ UNCHANGED vars PROVE OpenIsActive'
  BY <1>2 DEF Tick, vars, OpenIsActive, Exists
<1>3. QED
  BY <1>1, <1>2 DEF Next

\* No interleaving leaves a cancelled, completed or scheduled session open.
THEOREM OpenSessionsAreActive == Spec => []OpenIsActive
<1>1. Init => OpenIsActive
  BY DEF Init, OpenIsActive, Exists, NoRow
<1>2. QED
  BY <1>1, NextOpen, LifecycleTypeCorrect, PTL DEF Spec

-----------------------------------------------------------------------------
(* Double bookings. *)

\* A conflict check that was not overtaken still holds.
CheckOK ==
  \A r \in Request : Checked(r) /\ r \notin raced => ~Conflicts(req[r].id, req[r].window)

BookingOK == CheckOK /\ DoubleBookingExplained

LEMMA OverlapSymmetric ==
  ASSUME NEW v \in Window, NEW w \in Window
  PROVE  Overlap(v, w) <=> Overlap(w, v)
BY DEF Overlap

LEMMA WriteBooking ==
  ASSUME TypeOK, BookingOK, NEW r \in Request, NEW new,
         req' = [req EXCEPT ![r] = new], Writes(r, new)
  PROVE  BookingOK'
<1>1. PICK e \in SessionId, row \in Row \cup {NoRow}, v \in BOOLEAN :
        Write(r, e, row, v) /\ (v => Verified(r, e, row))
  BY DEF Writes
<1>2. \A f \in SessionId : session'[f] = IF f = e THEN row ELSE session[f]
  BY <1>1 DEF Write, TypeOK
\* A session that holds a slot afterwards and did not move held it before.
<1>3. \A f \in SessionId : Live(f)' /\ (f = e => ~Moves(e, row)) =>
        Live(f) /\ session'[f].window = session[f].window
  BY <1>2 DEF Live, Moves
<1>4. CheckOK'
  <2>1. SUFFICES ASSUME NEW q \in Request, Checked(q)', q \notin raced',
                        NEW f \in SessionId, f # req'[q].id, Live(f)'
                 PROVE  ~Overlap(session'[f].window, req'[q].window)
    BY DEF CheckOK, Conflicts
  <2>2. q # r /\ req'[q] = req[q]
    BY <2>1 DEF Writes, Checked, CheckedStep, TypeOK
  <2>3. Checked(q) /\ q \notin raced /\ ~Moves(e, row)
    BY <1>1, <2>1, <2>2 DEF Write, Checked
  <2>4. ~Conflicts(req[q].id, req[q].window)
    BY <2>3 DEF BookingOK, CheckOK
  <2>5. Live(f) /\ session'[f].window = session[f].window
    BY <1>3, <2>1, <2>3
  <2>6. QED
    BY <2>1, <2>2, <2>4, <2>5 DEF Conflicts
\* A slot taken after a valid check overlaps no other.
<1>5. ASSUME Moves(e, row), v, NEW f \in SessionId, f # e, Live(f)'
      PROVE  ~Overlap(row.window, session'[f].window)
  <2>1. Verified(r, e, row) /\ Live(f) /\ session'[f] = session[f]
    BY <1>1, <1>2, <1>5 DEF Live
  <2>2. ~Conflicts(req[r].id, row.window)
    BY <2>1 DEF Verified, BookingOK, CheckOK
  <2>3. f # req[r].id
    BY <1>5, <2>1, MaxSessionAssumption DEF Verified, SessionId
  <2>4. ~Overlap(session[f].window, row.window)
    BY <2>1, <2>2, <2>3 DEF Conflicts
  <2>5. row \in Row /\ session[f] \in Row
    BY <1>5, <2>1 DEF Moves, Live, LiveRow, NoRow, TypeOK
  <2>6. QED
    BY <2>1, <2>4, <2>5, OverlapSymmetric DEF Row
<1>6. ASSUME NEW f \in SessionId, NEW g \in SessionId, f # g, g # e,
             Live(f)', Live(g)', Overlap(session'[f].window, session'[g].window)
      PROVE  f \in unchecked' \/ g \in unchecked'
  <2>1. CASE f = e /\ Moves(e, row)
    <3>1. ~v
      BY <1>2, <1>5, <1>6, <2>1
    <3>2. LiveRow(row)
      BY <2>1 DEF Moves
    <3>3. QED
      BY <1>1, <2>1, <3>1, <3>2 DEF Write
  <2>2. CASE f = e => ~Moves(e, row)
    <3>1. Live(f) /\ Live(g) /\ Overlap(session[f].window, session[g].window)
      BY <1>2, <1>3, <1>6, <2>2
    <3>2. f \in unchecked \/ g \in unchecked
      BY <1>6, <3>1 DEF BookingOK, DoubleBookingExplained
    <3>3. f = e => LiveRow(row)
      BY <1>2, <1>6 DEF Live
    <3>4. QED
      BY <1>1, <1>6, <2>2, <3>2, <3>3 DEF Write
  <2>3. QED
    BY <2>1, <2>2
<1>7. DoubleBookingExplained'
  <2>1. SUFFICES ASSUME NEW f \in SessionId, NEW g \in SessionId, f # g,
                        Live(f)', Live(g)',
                        Overlap(session'[f].window, session'[g].window)
                 PROVE  f \in unchecked' \/ g \in unchecked'
    BY DEF DoubleBookingExplained
  <2>2. CASE g # e
    BY <1>6, <2>1, <2>2
  <2>3. CASE g = e
    <3>1. session'[f] \in Row /\ session'[g] \in Row
      BY <1>2, <2>1 DEF Live, LiveRow, NoRow, TypeOK
    <3>2. Overlap(session'[g].window, session'[f].window)
      BY <2>1, <3>1, OverlapSymmetric DEF Row
    <3>3. QED
      BY <1>6, <2>1, <2>3, <3>2
  <2>4. QED
    BY <2>2, <2>3
<1>8. QED
  BY <1>4, <1>7 DEF BookingOK

LEMMA LookBooking ==
  ASSUME TypeOK, BookingOK, NEW r \in Request, NEW new,
         req' = [req EXCEPT ![r] = new], Looks(r, new)
  PROVE  BookingOK'
<1>1. DoubleBookingExplained'
  BY DEF Looks, BookingOK, DoubleBookingExplained, Live
<1>2. \A id, w : Conflicts(id, w)' <=> Conflicts(id, w)
  BY DEF Looks, Conflicts, Live
<1>3. \A q \in Request : Checked(q)' /\ q \notin raced' => ~Conflicts(req'[q].id, req'[q].window)
  BY DEF Looks, BookingOK, CheckOK, Checked, CheckedStep, TypeOK
<1>4. QED
  BY <1>1, <1>2, <1>3 DEF BookingOK, CheckOK

LEMMA NextBooking == TypeOK /\ BookingOK /\ [Next]_vars => BookingOK'
<1>1. ASSUME TypeOK, BookingOK, NEW r \in Request, Handler(r) PROVE BookingOK'
  BY <1>1, HandlerKind, WriteBooking, LookBooking DEF StepKind
<1>2. ASSUME BookingOK, Tick \/ UNCHANGED vars PROVE BookingOK'
  BY <1>2 DEF Tick, vars, BookingOK, CheckOK, DoubleBookingExplained, Conflicts,
     Checked, Live
<1>3. QED
  BY <1>1, <1>2 DEF Next

\* Two sessions share a slot only after an overtaken check, or after a session
\* left 'cancelled' by a handler that does not check.
THEOREM DoubleBookingsExplained == Spec => []DoubleBookingExplained
<1>1. Init => BookingOK
  BY DEF Init, BookingOK, CheckOK, DoubleBookingExplained, Checked, Live, LiveRow,
     NoRow, Idle
<1>2. BookingOK => DoubleBookingExplained
  BY DEF BookingOK
<1>3. QED
  BY <1>1, <1>2, NextBooking, LifecycleTypeCorrect, PTL DEF Spec

-----------------------------------------------------------------------------
(* What attendance sees of the sessions. *)

LEMMA GateValues ==
  ASSUME NEW row \in Row \cup {NoRow}
  PROVE  /\ GateOf(row) \in {"none", "closed", "open", "cancelled"}
         /\ GateOf(row) = "none" <=> row.status = "none"
         /\ row \in Row => GateOf(row) # "none"
BY DEF GateOf, Row, NoRow, Status

LEMMA ViewOf ==
  ASSUME TypeOK, NEW e \in SessionId
  PROVE  View[e] = GateOf(session[e]) /\ (View[e] # "none" <=> Exists(e))
BY GateValues DEF View, Exists, TypeOK

LEMMA WriteGate ==
  ASSUME TypeOK, NEW e \in SessionId, NEW row \in Row \cup {NoRow},
         session' = [session EXCEPT ![e] = row],
         ~Exists(e) => NextId(e) /\ GateOf(row) = "closed"
  PROVE  Gate!Next
<1>1. View' = [View EXCEPT ![e] = GateOf(row)]
  BY DEF View, TypeOK
<1>2. e \in Gate!SessionId
  BY DEF SessionId, Gate!SessionId
<1>3. CASE ~Exists(e)
  <2>1. Gate!NextId(e, [f \in SessionId |-> View[f] # "none"])
    <3> DEFINE exists == [f \in SessionId |-> View[f] # "none"]
    <3>1. \A f \in SessionId : exists[f] <=> Exists(f)
      BY ViewOf
    <3>2. e > 1 => e - 1 \in SessionId
      BY MaxSessionAssumption DEF SessionId
    <3> HIDE DEF exists
    <3>3. Gate!NextId(e, exists)
      BY <1>3, <3>1, <3>2 DEF NextId, Gate!NextId, SessionId, Gate!SessionId
    <3>4. QED
      BY <3>3 DEF exists
  <2>2. Gate!Create(e)
    BY <1>1, <1>3, <2>1 DEF Gate!Create, SessionId, Gate!SessionId
  <2>3. QED
    BY <1>2, <2>2 DEF Gate!Next
<1>4. CASE Exists(e) /\ GateOf(row) = "none"
  <2>1. Gate!Delete(e)
    BY <1>1, <1>4, ViewOf DEF Gate!Delete
  <2>2. QED
    BY <1>2, <2>1 DEF Gate!Next
<1>5. CASE Exists(e) /\ GateOf(row) # "none"
  <2>1. Gate!Update(e)
    BY <1>1, <1>5, ViewOf, GateValues DEF Gate!Update
  <2>2. QED
    BY <1>2, <2>1 DEF Gate!Next
<1>6. QED
  BY <1>3, <1>4, <1>5

LEMMA NextGate == TypeOK /\ [Next]_vars => [Gate!Next]_View
<1>1. ASSUME TypeOK, NEW r \in Request, Handler(r) PROVE [Gate!Next]_View
  <2>1. PICK new : StepKind(r, new)
    BY <1>1, HandlerKind
  <2>2. CASE Looks(r, new)
    BY <2>2 DEF Looks, View
  <2>3. CASE Writes(r, new)
    BY <1>1, <2>3, WriteGate DEF Writes, Write
  <2>4. QED
    BY <2>1, <2>2, <2>3 DEF StepKind
<1>2. ASSUME Tick \/ UNCHANGED vars PROVE [Gate!Next]_View
  BY <1>2 DEF Tick, vars, View
<1>3. QED
  BY <1>1, <1>2 DEF Next

\* The lifecycle handlers, however they interleave, implement the gate that the
\* attendance handlers are modelled on.
THEOREM LifecycleImplementsGate == Spec => ImplementsGate
<1>1. Init => Gate!Init
  BY DEF Init, Gate!Init, View, GateOf, NoRow, SessionId, Gate!SessionId
<1>2. QED
  BY <1>1, NextGate, LifecycleTypeCorrect, PTL DEF Spec, ImplementsGate, Gate!Spec

-----------------------------------------------------------------------------
(* One worker. *)

\* A window that has elapsed stays so.
LEMMA ElapsedLater ==
  ASSUME NEW w \in Window, NEW s \in Nat, NEW t \in Nat, s <= t, Elapsed(w, s)
  PROVE  Elapsed(w, t)
<1>1. w.date \in Nat /\ w.from \in Nat /\ DayLength \in Nat /\ AttendanceMinutes \in Nat
  BY WindowAssumption, ClockAssumption
<1>2. w.date * DayLength \in Nat
  BY <1>1
<1>3. StartOf(w) \in Nat
  BY <1>1, <1>2 DEF StartOf
<1>4. QED
  BY <1>1, <1>3 DEF Elapsed

\* What a sweep has passed was not elapsed when it began, and what it has still to
\* look at is as it was listed.
Listed(w) ==
  \A e \in SessionId : session[e].status = "active" =>
    \/ ~Elapsed(session[e].window, req[w].at)
    \/ \E seen \in req[w].todo : seen.id = e /\ seen.window = session[e].window

AloneOK ==
  \A w \in Request : workers = {w} =>
    /\ \A r \in Request \ {w} : At(r, "idle")
    /\ At(w, "sweep") => req[w].at <= now /\ (req[w].all => Listed(w))

LEMMA SweepNextAlone ==
  ASSUME TypeOK, NEW w \in Request, SweepNext(w), req[w].at <= now,
         req[w].all => Listed(w)
  PROVE  req'[w].at <= now' /\ (req'[w].all => Listed(w)')
<1>1. req[w] \in Sweeping /\ now \in Nat
  BY SweepingAt DEF SweepNext, At, TypeOK
<1>2. PICK seen \in req[w].todo :
        /\ IF Elapsed(seen.window, now)
           THEN SetStatus(w, seen.id, "completed", FALSE)
           ELSE UNCHANGED <<session, now, raced, unchecked>>
        /\ Remove(w, seen)
  BY DEF SweepNext
<1>3. /\ req'[w].at = req[w].at /\ req'[w].all = req[w].all
      /\ req'[w].todo = req[w].todo \ {seen}
  BY <1>1, <1>2 DEF Remove, TypeOK, Sweeping
<1>4. seen.id \in SessionId /\ seen.window \in Window /\ req[w].at \in Nat
  BY <1>1, <1>2 DEF Sweeping, Seen
<1>5. now' = now
  BY <1>2 DEF SetStatus, Write
<1>6. ASSUME NEW e \in SessionId, session'[e].status = "active", req[w].all
      PROVE  \/ ~Elapsed(session'[e].window, req[w].at)
             \/ \E s \in req[w].todo \ {seen} : s.id = e /\ s.window = session'[e].window
  <2>1. session'[e] = session[e]
    <3>1. CASE Elapsed(seen.window, now) /\ Exists(seen.id)
      <4>1. session' = [session EXCEPT ![seen.id] =
                          [session[seen.id] EXCEPT !.status = "completed", !.active = FALSE]]
        BY <1>2, <3>1 DEF SetStatus, Write
      <4>2. [session[seen.id] EXCEPT !.status = "completed", !.active = FALSE].status
              = "completed"
        BY <1>4, <3>1, RowAt DEF Row
      <4>3. e # seen.id
        BY <1>4, <1>6, <4>1, <4>2 DEF TypeOK
      <4>4. QED
        BY <4>1, <4>3 DEF TypeOK
    <3>2. CASE ~(Elapsed(seen.window, now) /\ Exists(seen.id))
      BY <1>2, <3>2 DEF SetStatus
    <3>3. QED
      BY <3>1, <3>2
  <2>2. CASE seen.id = e /\ seen.window = session[e].window
    <3>1. ~Elapsed(seen.window, now)
      <4>1. SUFFICES ASSUME Elapsed(seen.window, now) PROVE FALSE
        OBVIOUS
      <4>2. Exists(seen.id)
        BY <1>6, <2>1, <2>2 DEF Exists
      <4>3. session' = [session EXCEPT ![seen.id] =
                          [session[seen.id] EXCEPT !.status = "completed", !.active = FALSE]]
        BY <1>2, <4>1, <4>2 DEF SetStatus, Write
      <4>4. [session[seen.id] EXCEPT !.status = "completed", !.active = FALSE].status
              = "completed"
        BY <1>4, <4>2, RowAt DEF Row
      <4>5. QED
        BY <1>4, <1>6, <2>2, <4>3, <4>4 DEF TypeOK
    <3>2. ~Elapsed(seen.window, req[w].at)
      BY <1>1, <1>4, <3>1, ElapsedLater
    <3>3. QED
      BY <2>1, <2>2, <3>2
  <2>3. CASE ~(seen.id = e /\ seen.window = session[e].window)
    BY <1>6, <2>1, <2>3 DEF Listed
  <2>4. QED
    BY <2>2, <2>3
<1>7. QED
  BY <1>3, <1>5, <1>6 DEF Listed

LEMMA SweepListAlone ==
  ASSUME TypeOK, NEW w \in Request, SweepList(w)
  PROVE  req'[w].at <= now' /\ (req'[w].all => Listed(w)')
<1>1. PICK all \in BOOLEAN, ids \in SUBSET {e \in SessionId : session[e].status = "active"} :
        /\ all => \A e \in SessionId : session[e].status = "active" => e \in ids
        /\ req' = [req EXCEPT ![w] = [pc |-> "sweep", todo |-> Snapshot(ids),
                                      all |-> all, at |-> now]]
  BY DEF SweepList, Enter
<1>2. req'[w] = [pc |-> "sweep", todo |-> Snapshot(ids), all |-> all, at |-> now]
  BY <1>1 DEF TypeOK
<1>3. session' = session /\ now' = now /\ now \in Nat
  BY DEF SweepList, TypeOK
<1>4. ASSUME all, NEW e \in SessionId, session[e].status = "active"
      PROVE  \E seen \in Snapshot(ids) : seen.id = e /\ seen.window = session[e].window
  <2>1. [id |-> e, window |-> session[e].window] \in Snapshot(ids)
    BY <1>1, <1>4 DEF Snapshot
  <2>2. QED
    BY <2>1
<1>5. QED
  BY <1>2, <1>3, <1>4 DEF Listed

\* Any other step leaves its request with something else to do than a sweep.
LEMMA NoSweep ==
  ASSUME TypeOK, NEW r \in Request, Handler(r), ~SweepNext(r), ~SweepList(r)
  PROVE  req'[r].pc # "sweep"
<1>1. CASE Finish(r)
  BY <1>1 DEF Finish, TypeOK, Idle
<1>2. CASE CreateCheck(r) \/ \E e \in SessionId : CancelRead(r, e) \/ RescheduleRead(r, e)
  BY <1>2 DEF CreateCheck, CancelRead, RescheduleRead, Enter, TypeOK
<1>3. CASE RescheduleCheck(r) /\ ~Finish(r)
  <2>1. req' = [req EXCEPT ![r] = [req[r] EXCEPT !.pc = "move"]]
    BY <1>3 DEF RescheduleCheck, Enter
  <2>2. [req[r] EXCEPT !.pc = "move"].pc = "move"
    BY <1>3, MovingAt DEF RescheduleCheck, At, Moving
  <2>3. QED
    BY <2>1, <2>2 DEF TypeOK
<1>4. CASE \E e \in SessionId : Start(r, e) \/ Stop(r, e) \/ Delete(r, e)
  BY <1>4 DEF Start, Stop, Delete, At
<1>5. QED
  BY <1>1, <1>2, <1>3, <1>4
  DEF Handler, CreateInsert, CancelUpdate, RescheduleUpdate, SweepDone, Abort

\* A step of r leaves the others with what they have.
LEMMA OthersKeep ==
  ASSUME TypeOK, NEW r \in Request, Handler(r), NEW q \in Request, q # r
  PROVE  req'[q] = req[q]
<1>1. PICK new : req' = [req EXCEPT ![r] = new]
  <2>1. CASE \E e \in SessionId : Start(r, e) \/ Stop(r, e) \/ Delete(r, e)
    <3>1. req' = [req EXCEPT ![r] = req[r]]
      BY <2>1 DEF Start, Stop, Delete, TypeOK
    <3>2. QED
      BY <3>1
  <2>2. CASE ~\E e \in SessionId : Start(r, e) \/ Stop(r, e) \/ Delete(r, e)
    BY <2>2 DEF Handler, CreateCheck, CreateInsert, CancelUpdate, RescheduleCheck,
       RescheduleUpdate, SweepList, SweepNext, SweepDone, Abort, CancelRead, RescheduleRead,
       Enter, Finish, Remove
  <2>3. QED
    BY <2>1, <2>2
<1>2. QED
  BY <1>1 DEF TypeOK

LEMMA NextAlone ==
  ASSUME TypeOK, AloneOK, workers \subseteq Request, MCNext
  PROVE  AloneOK'
<1>1. SUFFICES ASSUME NEW w \in Request, workers = {w}
               PROVE  /\ \A r \in Request \ {w} : At(r, "idle")'
                      /\ At(w, "sweep")' => req'[w].at <= now' /\ (req'[w].all => Listed(w)')
  BY DEF AloneOK, MCNext
<1>2. /\ \A r \in Request \ {w} : At(r, "idle")
      /\ At(w, "sweep") => req[w].at <= now /\ (req[w].all => Listed(w))
  BY <1>1 DEF AloneOK
<1>3. CASE Tick
  <2>1. At(w, "sweep") => req[w].at \in Nat
    BY SweepingAt DEF At, Sweeping
  <2>2. now' = now + 1 /\ now \in Nat /\ req' = req /\ session' = session
    BY <1>3 DEF Tick, TypeOK
  <2>3. \A r \in Request \ {w} : At(r, "idle")'
    BY <1>2, <2>2 DEF At
  <2>4. At(w, "sweep")' => req'[w].at <= now'
    BY <1>2, <2>1, <2>2 DEF At
  <2>5. At(w, "sweep")' => (req'[w].all => Listed(w)')
    BY <1>2, <2>2 DEF At, Listed
  <2>6. QED
    BY <2>3, <2>4, <2>5
<1>4. CASE Handler(w)
  <2>1. \A r \in Request \ {w} : At(r, "idle")'
    BY <1>2, <1>4, OthersKeep DEF At
  <2>2. CASE SweepNext(w)
    BY <1>2, <2>1, <2>2, SweepNextAlone DEF SweepNext
  <2>3. CASE SweepList(w)
    BY <2>1, <2>3, SweepListAlone
  <2>4. CASE ~SweepNext(w) /\ ~SweepList(w)
    BY <1>4, <2>1, <2>4, NoSweep DEF At
  <2>5. QED
    BY <2>2, <2>3, <2>4
<1>5. QED
  BY <1>1, <1>3, <1>4 DEF MCNext

\* With one worker, whatever sessions, windows and clock: a listing page shows no
\* session as active whose window had elapsed when it was asked for.
THEOREM AloneListingsAreAccurate ==
  ASSUME IsFiniteSet(Request)
  PROVE  MCSpec => []AloneListingIsAccurate
<1> DEFINE I == TypeOK /\ AloneOK /\ workers \subseteq Request
<1>1. MCInit => I
  BY InitType DEF MCInit, AloneOK, Init, At, Idle
<1>2. I /\ [MCNext]_<<vars, workers>> => I'
  <2>1. SUFFICES ASSUME I, [MCNext]_<<vars, workers>> PROVE I'
    OBVIOUS
  <2>2. CASE MCNext
    <3>1. [Next]_vars /\ workers' = workers
      BY <2>1, <2>2 DEF MCNext, Next
    <3>2. QED
      BY <2>1, <2>2, <3>1, NextType, NextAlone
  <2>3. CASE UNCHANGED <<vars, workers>>
    <3>1. TypeOK'
      BY <2>1, <2>3, NextType
    <3>2. AloneOK'
      BY <2>1, <2>3 DEF vars, AloneOK, Listed, At
    <3>3. QED
      BY <2>1, <2>3, <3>1, <3>2
  <2>4. QED
    BY <2>1, <2>2, <2>3
<1>3. I => AloneListingIsAccurate
  <2>1. SUFFICES ASSUME I, Cardinality(workers) = 1 PROVE ListingIsAccurate
    BY DEF AloneListingIsAccurate
  <2>2. IsFiniteSet(workers)
    BY <2>1, FS_Subset
  <2>3. PICK w : workers = {w}
    BY <2>1, <2>2, FS_Singleton
  <2>4. w \in Request
    BY <2>1, <2>3
  <2>5. QED
    BY <2>1, <2>3, <2>4 DEF AloneOK, Listed, ListingIsAccurate, At
<1> HIDE DEF I
<1>4. QED
  BY <1>1, <1>2, <1>3, PTL DEF MCSpec
=============================================================================
