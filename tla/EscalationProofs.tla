--------------------------- MODULE EscalationProofs ---------------------------
(***************************************************************************)
(* Proofs about Escalation and LoginWatch, for any number of workers,      *)
(* networks, devices, places and events, any weights and any threshold.    *)
(***************************************************************************)
EXTENDS MCWatch, TLAPS

-----------------------------------------------------------------------------
(* Type correctness. *)

Alone == {"score", "check", "raise", "note", "alert", "send", "sent"}

LEMMA WorkKinds ==
  /\ Idle \in Work
  /\ \A step \in Alone : [pc |-> step] \in Work
  /\ \A n \in Net, step \in {"watch", "last"} : [pc |-> step, net |-> n] \in Work
BY DEF Work, Alone

LEMMA GotoType ==
  ASSUME TypeOK, NEW r \in Request, NEW work \in Work, Goto(r, work)
  PROVE  req' \in [Request -> Work]
BY DEF TypeOK, Goto

LEMMA WatchingType ==
  ASSUME TypeOK, NEW r \in Request, req[r].pc \in {"watch", "last"}
  PROVE  req[r] \in [pc : {"watch", "last"}, net : Net]
BY DEF TypeOK, Work, Idle

LEMMA LogType ==
  ASSUME TypeOK, NEW e \in Event, Log(e)
  PROVE  score' \in 0..MaxScore /\ settled' \in BOOLEAN
<1>1. score' \in 0..MaxScore
  BY WeightAssumption, ScoreAssumption DEF TypeOK, Log
<1>2. settled' \in BOOLEAN
  BY DEF Log
<1>3. QED
  BY <1>1, <1>2

LEMMA EnterType ==
  ASSUME TypeOK, NEW name \in DOMAIN Section, Enter(name)
  PROVE  blind' \subseteq {"escalation", "alert"}
BY DEF TypeOK, Enter, Section

LEMMA LoginType ==
  ASSUME TypeOK, NEW r \in Request,
         \/ \E n \in Net : NetworkCheck(r, n)
         \/ Watch(r) \/ LastWrite(r) \/ ScoreRead(r) \/ EscalatedRead(r)
         \/ Escalate(r) \/ EscalationNote(r)
  PROVE  TypeOK'
<1>1. ASSUME NEW n \in Net, NetworkCheck(r, n) PROVE TypeOK'
  <2>1. req' \in [Request -> Work]
    BY <1>1, GotoType, WorkKinds DEF NetworkCheck
  <2>2. score' \in 0..MaxScore /\ settled' \in BOOLEAN
    <3>1. CASE Quiet
      BY <3>1 DEF Quiet, TypeOK
    <3>2. ASSUME NEW e \in {"network", "impossible"}, Log(e)
          PROVE  score' \in 0..MaxScore /\ settled' \in BOOLEAN
      BY <3>2, LogType, EventAssumption
    <3>3. QED
      BY <1>1, <3>1, <3>2 DEF NetworkCheck
  <2>3. QED
    BY <1>1, <2>1, <2>2 DEF NetworkCheck, TypeOK
<1>2. CASE Watch(r)
  <2>1. req' \in [Request -> Work]
    <3>1. CASE UNCHANGED req
      BY <3>1 DEF TypeOK
    <3>2. CASE Goto(r, [pc |-> "last", net |-> req[r].net])
      <4>1. [pc |-> "last", net |-> req[r].net] \in Work
        BY <1>2, WatchingType, WorkKinds DEF Watch, At
      <4>2. QED
        BY <3>2, <4>1, GotoType
    <3>3. QED
      BY <1>2, <3>1, <3>2 DEF Watch
  <2>2. score' \in 0..MaxScore /\ settled' \in BOOLEAN
    BY <1>2, LogType DEF Watch, Quiet, TypeOK
  <2>3. QED
    BY <1>2, <2>1, <2>2 DEF Watch, TypeOK
<1>3. CASE LastWrite(r)
  <2>1. req[r].net \in Net
    BY <1>3, WatchingType DEF LastWrite, At
  <2>2. last' \in [net : Net \cup {NoNet}, age : {"recent", "late", "old"}]
    BY <1>3, <2>1 DEF LastWrite
  <2>3. req' \in [Request -> Work]
    BY <1>3, GotoType, WorkKinds DEF LastWrite, Alone
  <2>4. QED
    BY <1>3, <2>2, <2>3 DEF LastWrite, past, TypeOK
<1>4. CASE ScoreRead(r)
  <2>1. req' \in [Request -> Work]
    BY <1>4, GotoType, WorkKinds DEF ScoreRead, Alone
  <2>2. blind' \subseteq {"escalation", "alert"}
    BY <1>4, EnterType DEF ScoreRead, Section, TypeOK
  <2>3. settled' \in BOOLEAN
    BY <1>4 DEF ScoreRead
  <2>4. QED
    BY <1>4, <2>1, <2>2, <2>3 DEF ScoreRead, table, TypeOK
<1>5. CASE EscalatedRead(r)
  <2>1. req' \in [Request -> Work]
    BY <1>5, GotoType, WorkKinds DEF EscalatedRead, Alone
  <2>2. QED
    BY <1>5, <2>1 DEF EscalatedRead, table, past, TypeOK
<1>6. CASE Escalate(r)
  <2>1. req' \in [Request -> Work]
    BY <1>6, GotoType, WorkKinds DEF Escalate, Alone
  <2>2. escalated' \in BOOLEAN
    BY <1>6 DEF Escalate
  <2>3. QED
    BY <1>6, <2>1, <2>2 DEF Escalate, past, TypeOK
<1>7. CASE EscalationNote(r)
  <2>1. req' \in [Request -> Work]
    BY <1>7, GotoType, WorkKinds DEF EscalationNote
  <2>2. notes' \in 0..2
    BY <1>7 DEF EscalationNote, Once, TypeOK
  <2>3. QED
    BY <1>7, <2>1, <2>2 DEF EscalationNote, table, TypeOK
<1>8. QED
  BY <1>1, <1>2, <1>3, <1>4, <1>5, <1>6, <1>7

LEMMA MarkType ==
  ASSUME TypeOK, NEW r \in Request,
         Mark(r) \/ AlertRead(r) \/ AlertSend(r) \/ AlertWrite(r) \/ Abort(r)
  PROVE  TypeOK'
<1>1. CASE Mark(r)
  <2>1. req' \in [Request -> Work]
    BY <1>1, GotoType, WorkKinds DEF Mark, Alone, TypeOK
  <2>2. score' \in 0..MaxScore /\ settled' \in BOOLEAN
    BY <1>1, LogType DEF Mark, Quiet, TypeOK
  <2>3. QED
    BY <1>1, <2>1, <2>2 DEF Mark, TypeOK
<1>2. CASE AlertRead(r)
  <2>1. req' \in [Request -> Work]
    BY <1>2, GotoType, WorkKinds DEF AlertRead, Alone
  <2>2. blind' \subseteq {"escalation", "alert"}
    BY <1>2, EnterType DEF AlertRead, Section, TypeOK
  <2>3. QED
    BY <1>2, <2>1, <2>2 DEF AlertRead, table, TypeOK
<1>3. CASE AlertSend(r)
  <2>1. req' \in [Request -> Work]
    BY <1>3, GotoType, WorkKinds DEF AlertSend, Alone
  <2>2. alerts' \in 0..2
    BY <1>3 DEF AlertSend, Once, TypeOK
  <2>3. QED
    BY <1>3, <2>1, <2>2 DEF AlertSend, table, TypeOK
<1>4. CASE AlertWrite(r)
  <2>1. req' \in [Request -> Work]
    BY <1>4, GotoType, WorkKinds DEF AlertWrite
  <2>2. due' \in BOOLEAN
    BY <1>4 DEF AlertWrite
  <2>3. QED
    BY <1>4, <2>1, <2>2 DEF AlertWrite, past, TypeOK
<1>5. CASE Abort(r)
  <2>1. req' \in [Request -> Work]
    BY <1>5, GotoType, WorkKinds DEF Abort
  <2>2. blind' \subseteq {"escalation", "alert"}
    BY <1>5 DEF Abort, Section, TypeOK
  <2>3. settled' \in BOOLEAN
    BY <1>5, Zenon DEF Abort
  <2>4. QED
    BY <1>5, <2>1, <2>2, <2>3 DEF Abort, table, TypeOK
<1>6. QED
  BY <1>1, <1>2, <1>3, <1>4, <1>5

LEMMA OutsideType ==
  ASSUME TypeOK, Outside
  PROVE  TypeOK'
<1>1. CASE ClearEscalation
  <2>1. escalated' \in BOOLEAN /\ settled' \in BOOLEAN
    BY <1>1, Zenon DEF ClearEscalation
  <2>2. blind' \subseteq {"escalation", "alert"}
    BY <1>1, EnterType DEF ClearEscalation, Section
  <2>3. notes' \in 0..2
    BY <1>1 DEF ClearEscalation
  <2>4. QED
    BY <1>1, <2>1, <2>2, <2>3 DEF ClearEscalation, TypeOK
<1>2. CASE LastAges
  <2>1. last' \in [net : Net \cup {NoNet}, age : {"recent", "late", "old"}]
    BY <1>2 DEF LastAges, TypeOK
  <2>2. QED
    BY <1>2, <2>1 DEF LastAges, past, TypeOK
<1>3. CASE CooldownEnds
  <2>1. due' \in BOOLEAN /\ alerts' \in 0..2
    BY <1>3 DEF CooldownEnds
  <2>2. blind' \subseteq {"escalation", "alert"}
    BY <1>3, EnterType DEF CooldownEnds, Section
  <2>3. QED
    BY <1>3, <2>1, <2>2 DEF CooldownEnds, TypeOK
<1>4. CASE EventsAge
  BY <1>4 DEF EventsAge, past, TypeOK
<1>5. QED
  BY <1>1, <1>2, <1>3, <1>4 DEF Outside

LEMMA InitType == Init => TypeOK
<1> SUFFICES ASSUME Init PROVE TypeOK
  OBVIOUS
<1>1. escalated \in BOOLEAN /\ due \in BOOLEAN /\ settled \in BOOLEAN
  BY Zenon DEF Init
<1>2. req \in [Request -> Work]
  BY WorkKinds DEF Init
<1>3. score \in 0..MaxScore
  BY ScoreAssumption DEF Init
<1>4. QED
  BY <1>1, <1>2, <1>3 DEF Init, TypeOK

LEMMA NextType == TypeOK /\ [Next]_vars => TypeOK'
<1>1. ASSUME TypeOK, UNCHANGED vars PROVE TypeOK'
  BY <1>1 DEF vars, TypeOK
<1>2. QED
  BY <1>1, LoginType, MarkType, OutsideType DEF Next, Handler

\* The columns of the student, the score and every request keep their types.
THEOREM EscalationTypeCorrect == Spec => []TypeOK
BY InitType, NextType, PTL DEF Spec

-----------------------------------------------------------------------------
(* A section is the way of a worker from reading what it decides on to writing  *)
(* what it decided.  While nobody met anybody in it, it has one worker at most. *)

In(name, r) == req[r].pc \in Section[name]
OneIn(name) == \A r, s \in Request : In(name, r) /\ In(name, s) => r = s

\* A worker on its way has read that no alert was sent within the cooldown, and
\* nobody else has sent one since.
AlertInv ==
  "alert" \notin blind =>
    /\ OneIn("alert") /\ alerts \in {0, 1}
    /\ \A r \in Request : At(r, "send") => due /\ alerts = 0
    /\ due /\ (\A r \in Request : ~At(r, "sent")) => alerts = 0

LEMMA AlertStep ==
  ASSUME TypeOK, AlertInv, [Next]_vars
  PROVE  AlertInv'
<1> USE DEF AlertInv, OneIn, In, Section, At
<1>1. ASSUME UNCHANGED <<req, due, alerts, blind>> PROVE AlertInv'
  BY <1>1
<1>2. ASSUME NEW r \in Request, NEW work, Goto(r, work), ~In("alert", r),
             work.pc \notin {"send", "sent"},
             UNCHANGED <<due, alerts>>, blind \subseteq blind'
      PROVE  AlertInv'
  BY <1>2 DEF Goto, TypeOK
<1>3. ASSUME NEW r \in Request, AlertRead(r) PROVE AlertInv'
  BY <1>3 DEF AlertRead, Goto, Enter, Idle, table, TypeOK
<1>4. ASSUME NEW r \in Request, AlertSend(r) PROVE AlertInv'
  BY <1>4 DEF AlertSend, Goto, Once, table, TypeOK
<1>5. ASSUME NEW r \in Request, AlertWrite(r) PROVE AlertInv'
  BY <1>5 DEF AlertWrite, Goto, Idle, past, TypeOK
<1>6. ASSUME NEW r \in Request, Abort(r) PROVE AlertInv'
  BY <1>6 DEF Abort, Goto, Idle, table, TypeOK
<1>7. CASE CooldownEnds
  BY <1>7 DEF CooldownEnds, Enter, TypeOK
<1>8. ASSUME NEW r \in Request,
             \/ \E n \in Net : NetworkCheck(r, n)
             \/ Watch(r) \/ LastWrite(r) \/ Mark(r)
      PROVE  AlertInv'
  <2>1. UNCHANGED <<due, alerts, blind>>
    BY <1>8 DEF NetworkCheck, Watch, LastWrite, Mark, past
  <2>2. CASE UNCHANGED req
    BY <1>1, <2>1, <2>2
  <2>3. CASE req' # req
    <3>1. /\ req[r].pc \in {"idle", "watch", "last"}
          /\ \E work : Goto(r, work) /\ work.pc \in {"watch", "last", "score", "alert"}
      <4>1. ASSUME NEW n \in Net, NetworkCheck(r, n) PROVE <3>1!:
        BY <4>1 DEF NetworkCheck
      <4>2. CASE Watch(r)
        BY <2>3, <4>2 DEF Watch
      <4>3. CASE LastWrite(r)
        BY <4>3 DEF LastWrite
      <4>4. CASE Mark(r)
        BY <2>3, <4>4 DEF Mark
      <4>5. QED
        BY <1>8, <4>1, <4>2, <4>3, <4>4
    <3>2. QED
      BY <1>2, <2>1, <3>1
  <2>4. QED
    BY <2>2, <2>3
<1>9. ASSUME NEW r \in Request,
             ScoreRead(r) \/ EscalatedRead(r) \/ Escalate(r) \/ EscalationNote(r)
      PROVE  AlertInv'
  <2>1. UNCHANGED <<due, alerts>> /\ blind \subseteq blind'
    BY <1>9 DEF ScoreRead, EscalatedRead, Escalate, EscalationNote, Enter, table, past
  <2>2. /\ req[r].pc \in {"score", "check", "raise", "note"}
        /\ \E work : Goto(r, work) /\ work.pc \in {"check", "idle", "raise", "note"}
    BY <1>9 DEF ScoreRead, EscalatedRead, Escalate, EscalationNote, Idle
  <2>3. QED
    BY <1>2, <2>1, <2>2
<1>10. CASE ClearEscalation
  BY <1>10 DEF ClearEscalation, Enter, TypeOK
<1>11. CASE LastAges \/ EventsAge \/ UNCHANGED vars
  BY <1>1, <1>11 DEF LastAges, EventsAge, past, vars
<1>12. QED
  BY <1>3, <1>4, <1>5, <1>6, <1>7, <1>8, <1>9, <1>10, <1>11 DEF Next, Outside, Handler

\* Whatever meets or dies, a second alert within a cooldown needs a meeting or a death
\* between reading the time of the last alert and writing it.
THEOREM AlertedOnce == Spec => []OneAlert
<1>1. Init => AlertInv
  BY DEF Init, AlertInv, OneIn, In, Section, At, Idle
<1>2. TypeOK /\ AlertInv => OneAlert
  BY DEF AlertInv, OneAlert, TypeOK
<1>3. QED
  BY <1>1, <1>2, AlertStep, EscalationTypeCorrect, PTL DEF Spec

-----------------------------------------------------------------------------

\* A login that is about to raise or to note an escalation has found none, and
\* nobody has raised or cleared one since.
NoticeInv ==
  "escalation" \notin blind =>
    /\ OneIn("escalation") /\ notes \in {0, 1}
    /\ \A r \in Request : At(r, "raise") => ~escalated
    /\ \A r \in Request : At(r, "note") => escalated /\ notes = 0
    /\ ~escalated => notes = 0

LEMMA NoticeStep ==
  ASSUME TypeOK, NoticeInv, [Next]_vars
  PROVE  NoticeInv'
<1> USE DEF NoticeInv, OneIn, In, Section, At
<1>1. ASSUME UNCHANGED <<req, escalated, notes, blind>> PROVE NoticeInv'
  BY <1>1
<1>2. ASSUME NEW r \in Request, NEW work, Goto(r, work), ~In("escalation", r),
             work.pc \notin {"check", "raise", "note"},
             UNCHANGED <<escalated, notes>>, blind \subseteq blind'
      PROVE  NoticeInv'
  BY <1>2 DEF Goto, TypeOK
<1>3. ASSUME NEW r \in Request, ScoreRead(r) PROVE NoticeInv'
  <2>1. CASE score >= Threshold
    BY <1>3, <2>1 DEF ScoreRead, Goto, Enter, table, TypeOK
  <2>2. CASE ~(score >= Threshold)
    BY <1>2, <1>3, <2>2 DEF ScoreRead, Idle, table
  <2>3. QED
    BY <2>1, <2>2
<1>4. ASSUME NEW r \in Request, EscalatedRead(r) PROVE NoticeInv'
  BY <1>4 DEF EscalatedRead, Goto, Idle, table, past, TypeOK
<1>5. ASSUME NEW r \in Request, Escalate(r) PROVE NoticeInv'
  BY <1>5 DEF Escalate, Goto, past, TypeOK
<1>6. ASSUME NEW r \in Request, EscalationNote(r) PROVE NoticeInv'
  BY <1>6 DEF EscalationNote, Goto, Idle, Once, table, TypeOK
<1>7. ASSUME NEW r \in Request, Abort(r) PROVE NoticeInv'
  BY <1>7 DEF Abort, Goto, Idle, table, TypeOK
<1>8. CASE ClearEscalation
  BY <1>8 DEF ClearEscalation, Enter, TypeOK
<1>9. ASSUME NEW r \in Request,
             \/ \E n \in Net : NetworkCheck(r, n)
             \/ Watch(r) \/ LastWrite(r) \/ Mark(r)
      PROVE  NoticeInv'
  <2>1. UNCHANGED <<escalated, notes, blind>>
    BY <1>9 DEF NetworkCheck, Watch, LastWrite, Mark, past
  <2>2. CASE UNCHANGED req
    BY <1>1, <2>1, <2>2
  <2>3. CASE req' # req
    <3>1. /\ req[r].pc \in {"idle", "watch", "last"}
          /\ \E work : Goto(r, work) /\ work.pc \in {"watch", "last", "score", "alert"}
      <4>1. ASSUME NEW n \in Net, NetworkCheck(r, n) PROVE <3>1!:
        BY <4>1 DEF NetworkCheck
      <4>2. CASE Watch(r)
        BY <2>3, <4>2 DEF Watch
      <4>3. CASE LastWrite(r)
        BY <4>3 DEF LastWrite
      <4>4. CASE Mark(r)
        BY <2>3, <4>4 DEF Mark
      <4>5. QED
        BY <1>9, <4>1, <4>2, <4>3, <4>4
    <3>2. QED
      BY <1>2, <2>1, <3>1
  <2>4. QED
    BY <2>2, <2>3
<1>10. ASSUME NEW r \in Request, AlertRead(r) \/ AlertSend(r) \/ AlertWrite(r)
       PROVE  NoticeInv'
  <2>1. UNCHANGED <<escalated, notes>> /\ blind \subseteq blind'
    BY <1>10 DEF AlertRead, AlertSend, AlertWrite, Enter, table, past
  <2>2. /\ req[r].pc \in {"alert", "send", "sent"}
        /\ \E work : Goto(r, work) /\ work.pc \in {"idle", "send", "sent"}
    BY <1>10 DEF AlertRead, AlertSend, AlertWrite, Idle
  <2>3. QED
    BY <1>2, <2>1, <2>2
<1>11. CASE CooldownEnds
  BY <1>11 DEF CooldownEnds, Enter, TypeOK
<1>12. CASE LastAges \/ EventsAge \/ UNCHANGED vars
  BY <1>1, <1>12 DEF LastAges, EventsAge, past, vars
<1>13. QED
  BY <1>3, <1>4, <1>5, <1>6, <1>7, <1>8, <1>9, <1>10, <1>11, <1>12
  DEF Next, Outside, Handler

\* An escalation that is due is kept by the login that has read the score, until it
\* is written.
LEMMA DueStep ==
  ASSUME TypeOK, HighScoreEscalates, [Next]_vars
  PROVE  HighScoreEscalates'
<1> USE DEF HighScoreEscalates, At
<1>1. ASSUME NEW e, Log(e), UNCHANGED escalated PROVE HighScoreEscalates'
  BY <1>1 DEF Log
<1>2. ASSUME UNCHANGED <<score, settled, escalated>>,
             NEW r \in Request, NEW work, Goto(r, work),
             req[r].pc \notin {"check", "raise"}
      PROVE  HighScoreEscalates'
  BY <1>2 DEF Goto, TypeOK
<1>3. ASSUME UNCHANGED <<score, settled, escalated, req>> PROVE HighScoreEscalates'
  BY <1>3
<1>4. ASSUME NEW r \in Request,
             \/ \E n \in Net : NetworkCheck(r, n)
             \/ Watch(r) \/ LastWrite(r) \/ Mark(r)
      PROVE  HighScoreEscalates'
  <2>1. UNCHANGED escalated
    BY <1>4 DEF NetworkCheck, Watch, LastWrite, Mark, past
  <2>2. CASE Quiet /\ UNCHANGED req
    BY <1>3, <2>1, <2>2 DEF Quiet
  <2>3. CASE Quiet /\ \E work : Goto(r, work)
    <3>1. req[r].pc \notin {"check", "raise"}
      BY <1>4 DEF NetworkCheck, Watch, LastWrite, Mark
    <3>2. QED
      BY <1>2, <2>1, <2>3, <3>1 DEF Quiet
  <2>4. QED
    BY <1>1, <1>4, <2>1, <2>2, <2>3 DEF NetworkCheck, Watch, LastWrite, Mark, Quiet, past
<1>5. ASSUME NEW r \in Request, ScoreRead(r) PROVE HighScoreEscalates'
  BY <1>5 DEF ScoreRead, Goto, table, TypeOK
<1>6. ASSUME NEW r \in Request, EscalatedRead(r) PROVE HighScoreEscalates'
  BY <1>6 DEF EscalatedRead, Goto, table, past, TypeOK
<1>7. ASSUME NEW r \in Request, Escalate(r) PROVE HighScoreEscalates'
  BY <1>7 DEF Escalate
<1>8. ASSUME NEW r \in Request, EscalationNote(r) PROVE HighScoreEscalates'
  BY <1>2, <1>8 DEF EscalationNote, table
<1>9. ASSUME NEW r \in Request, AlertRead(r) \/ AlertSend(r) \/ AlertWrite(r)
      PROVE  HighScoreEscalates'
  <2>1. UNCHANGED <<score, settled, escalated>>
    BY <1>9 DEF AlertRead, AlertSend, AlertWrite, table, past
  <2>2. req[r].pc \in {"alert", "send", "sent"} /\ \E work : Goto(r, work)
    BY <1>9 DEF AlertRead, AlertSend, AlertWrite
  <2>3. QED
    BY <1>2, <2>1, <2>2
<1>10. ASSUME NEW r \in Request, Abort(r) PROVE HighScoreEscalates'
  <2>1. CASE req[r].pc \in {"check", "raise"}
    <3>1. settled' = FALSE
      BY <1>10, <2>1, Zenon DEF Abort
    <3>2. QED
      BY <3>1
  <2>2. CASE req[r].pc \notin {"check", "raise"}
    <3>1. settled' = settled
      BY <1>10, <2>2 DEF Abort, TypeOK
    <3>2. QED
      BY <1>2, <1>10, <2>2, <3>1 DEF Abort, table
  <2>3. QED
    BY <2>1, <2>2
<1>11. CASE ClearEscalation
  BY <1>11 DEF ClearEscalation
<1>12. CASE CooldownEnds
  BY <1>3, <1>12 DEF CooldownEnds
<1>13. CASE EventsAge
  BY <1>13, ScoreAssumption DEF EventsAge, past, TypeOK
<1>14. CASE LastAges \/ UNCHANGED vars
  BY <1>3, <1>14 DEF LastAges, past, vars
<1>15. QED
  BY <1>4, <1>5, <1>6, <1>7, <1>8, <1>9, <1>10, <1>11, <1>12, <1>13, <1>14
  DEF Next, Outside, Handler

\* A score that reached the threshold escalates at the login that reads it, and a
\* second notice needs two logins, or a login and the clear, to meet.
THEOREM EscalatedOnce == Spec => []EscalatesOnce
<1>1. Init => NoticeInv /\ HighScoreEscalates
  <2>1. Init => NoticeInv
    BY DEF Init, NoticeInv, OneIn, In, Section, At, Idle
  <2>2. Init => HighScoreEscalates
    BY ScoreAssumption DEF Init, HighScoreEscalates
  <2>3. QED
    BY <2>1, <2>2
<1>2. TypeOK /\ NoticeInv => OneNotice
  BY DEF NoticeInv, OneNotice, TypeOK
<1>3. OneNotice /\ HighScoreEscalates => EscalatesOnce
  BY DEF EscalatesOnce
<1>4. QED
  BY <1>1, <1>2, <1>3, NoticeStep, DueStep, EscalationTypeCorrect, PTL DEF Spec

-----------------------------------------------------------------------------
(* LoginWatch: its types. *)

LEMMA LoginGoto ==
  ASSUME Logins!TypeOK, NEW r \in Request, NEW work \in Logins!Work, Logins!Goto(r, work)
  PROVE  /\ login' \in [Request -> Logins!Work]
         /\ login'[r] = work /\ \A q \in Request \ {r} : login'[q] = login[q]
BY DEF Logins!TypeOK, Logins!Goto

LEMMA LoginWorkKinds ==
  /\ Logins!Idle \in Logins!Work
  /\ \A o \in Logins!Origin, prior \in BOOLEAN, step \in {"known", "insert"} :
       [pc |-> step, origin |-> o, prior |-> prior] \in Logins!Work
  /\ \A o \in Logins!Origin, step \in {"report", "sessions"} :
       [pc |-> step, origin |-> o] \in Logins!Work
  /\ \A o \in Logins!Origin, found \in BOOLEAN :
       [pc |-> "open", origin |-> o, found |-> found] \in Logins!Work
BY DEF Logins!Work

LEMMA LoginWorkAt ==
  ASSUME Logins!TypeOK, NEW r \in Request
  PROVE  /\ login[r].pc \in {"known", "insert"}
              => login[r] \in [pc : {"known", "insert"}, origin : Logins!Origin, prior : BOOLEAN]
         /\ login[r].pc \in {"report", "sessions"}
              => login[r] \in [pc : {"report", "sessions"}, origin : Logins!Origin]
         /\ login[r].pc = "open"
              => login[r] \in [pc : {"open"}, origin : Logins!Origin, found : BOOLEAN]
BY DEF Logins!TypeOK, Logins!Work, Logins!Idle

\* Where each step of a login leads.
LEMMA LoginGoes ==
  ASSUME Logins!TypeOK, NEW r \in Request, Logins!Handler(r)
  PROVE  \E work \in Logins!Work :
           /\ login' \in [Request -> Logins!Work]
           /\ login'[r] = work /\ \A q \in Request \ {r} : login'[q] = login[q]
<1> SUFFICES \E work \in Logins!Work : Logins!Goto(r, work)
  BY LoginGoto
<1>1. ASSUME NEW o \in Device \X Place, Logins!DeviceCount(r, o)
      PROVE  \E work \in Logins!Work : Logins!Goto(r, work)
  BY <1>1, LoginWorkKinds DEF Logins!DeviceCount, Logins!Origin
<1>2. ASSUME NEW p \in Place, Logins!LoginPlain(r, p)
      PROVE  \E work \in Logins!Work : Logins!Goto(r, work)
  BY <1>2, LoginWorkKinds DEF Logins!LoginPlain, Logins!Origin
<1>3. CASE Logins!DeviceRead(r)
  <2>1. login[r] \in [pc : {"known", "insert"}, origin : Logins!Origin, prior : BOOLEAN]
    BY <1>3, LoginWorkAt DEF Logins!DeviceRead, Logins!At
  <2>2. [login[r] EXCEPT !.pc = "insert"] \in Logins!Work
    BY <2>1 DEF Logins!Work
  <2>3. [pc |-> "sessions", origin |-> login[r].origin] \in Logins!Work
    BY <2>1 DEF Logins!Work
  <2>4. \/ Logins!Goto(r, [pc |-> "sessions", origin |-> login[r].origin])
        \/ Logins!Goto(r, [login[r] EXCEPT !.pc = "insert"])
    <3>1. CASE login[r].origin[1] \in known
      BY <1>3, <3>1, Zenon DEF Logins!DeviceRead
    <3>2. CASE login[r].origin[1] \notin known
      BY <1>3, <3>2, Zenon DEF Logins!DeviceRead
    <3> QED
      BY <3>1, <3>2
  <2> QED
    BY <2>2, <2>3, <2>4, Zenon
<1>4. CASE Logins!DeviceInsert(r)
  <2>1. login[r] \in [pc : {"known", "insert"}, origin : Logins!Origin, prior : BOOLEAN]
    BY <1>4, LoginWorkAt DEF Logins!DeviceInsert, Logins!At
  <2>2. [pc |-> IF login[r].prior THEN "report" ELSE "sessions",
         origin |-> login[r].origin] \in Logins!Work
    BY <2>1 DEF Logins!Work
  <2> QED
    BY <1>4, <2>2, Zenon DEF Logins!DeviceInsert
<1>5. CASE Logins!DeviceReport(r)
  <2>1. login[r] \in [pc : {"report", "sessions"}, origin : Logins!Origin]
    BY <1>5, LoginWorkAt DEF Logins!DeviceReport, Logins!At
  <2>2. [pc |-> "sessions", origin |-> login[r].origin] \in Logins!Work
    BY <2>1 DEF Logins!Work
  <2> QED
    BY <1>5, <2>2, Zenon DEF Logins!DeviceReport
<1>6. CASE Logins!SessionsRead(r)
  <2>1. login[r] \in [pc : {"report", "sessions"}, origin : Logins!Origin]
    BY <1>6, LoginWorkAt DEF Logins!SessionsRead, Logins!At
  <2>2. \A found \in BOOLEAN :
          [pc |-> "open", origin |-> login[r].origin, found |-> found] \in Logins!Work
    BY <2>1, LoginWorkKinds
  <2>3. (\E s \in open : s.live /\ s.origin # login[r].origin) \in BOOLEAN
    OBVIOUS
  <2> QED
    BY <1>6, <2>2, <2>3, Zenon DEF Logins!SessionsRead
<1>7. CASE Logins!DeviceTwice(r) \/ Logins!SessionOpen(r) \/ Logins!Abort(r)
  <2>1. Logins!Goto(r, Logins!Idle)
    BY <1>7, Zenon DEF Logins!DeviceTwice, Logins!SessionOpen, Logins!Abort
  <2> QED
    BY <2>1, LoginWorkKinds, Zenon
<1> QED
  BY <1>1, <1>2, <1>3, <1>4, <1>5, <1>6, <1>7 DEF Logins!Handler

\* A login that is checked for its device has one.
DeviceOrigin ==
  \A r \in Request :
    login[r].pc \in {"known", "insert", "report"} => login[r].origin \in Device \X Place

\* In the section of the device check, and of the session check.
InDevice(r) == login[r].pc \in {"known", "insert", "report"}
InSession(r) == login[r].pc = "open"

\* What each step of a login makes of its request.
LEMMA DeviceCountGoes ==
  ASSUME Logins!TypeOK, NEW r \in Request, NEW o \in Device \X Place, Logins!DeviceCount(r, o)
  PROVE  /\ login'[r].pc = "known" /\ login'[r].origin = o
         /\ login'[r].prior = (known # {})
         /\ \A q \in Request \ {r} : login'[q] = login[q]
<1>1. [pc |-> "known", origin |-> o, prior |-> known # {}] \in Logins!Work
  BY LoginWorkKinds DEF Logins!Origin
<1>2. /\ login'[r] = [pc |-> "known", origin |-> o, prior |-> known # {}]
      /\ \A q \in Request \ {r} : login'[q] = login[q]
  BY <1>1, LoginGoto, Zenon DEF Logins!DeviceCount
<1> QED
  BY <1>2

LEMMA DeviceReadGoes ==
  ASSUME Logins!TypeOK, NEW r \in Request, Logins!DeviceRead(r)
  PROVE  /\ \A q \in Request \ {r} : login'[q] = login[q]
         /\ \/ login'[r].pc = "sessions"
            \/ /\ login[r].pc = "known" /\ login'[r].pc = "insert"
               /\ login'[r].origin = login[r].origin /\ login'[r].prior = login[r].prior
<1>1. login[r] \in [pc : {"known", "insert"}, origin : Logins!Origin, prior : BOOLEAN]
  BY LoginWorkAt DEF Logins!DeviceRead, Logins!At
<1>2. \A q \in Request \ {r} : login'[q] = login[q]
  BY LoginGoes DEF Logins!Handler
<1>3. CASE login[r].origin[1] \in known
  BY <1>2, <1>3 DEF Logins!DeviceRead, Logins!Goto, Logins!TypeOK
<1>4. CASE login[r].origin[1] \notin known
  <2>1. login' = [login EXCEPT ![r] = [login[r] EXCEPT !.pc = "insert"]]
    BY <1>4 DEF Logins!DeviceRead, Logins!Goto
  <2>2. [login[r] EXCEPT !.pc = "insert"]
          = [pc |-> "insert", origin |-> login[r].origin, prior |-> login[r].prior]
    BY <1>1
  <2>3. login'[r] = [pc |-> "insert", origin |-> login[r].origin, prior |-> login[r].prior]
    BY <2>1, <2>2 DEF Logins!TypeOK
  <2> QED
    BY <1>2, <2>3 DEF Logins!DeviceRead, Logins!At
<1> QED
  BY <1>3, <1>4

LEMMA DeviceInsertGoes ==
  ASSUME Logins!TypeOK, NEW r \in Request, Logins!DeviceInsert(r)
  PROVE  /\ \A q \in Request \ {r} : login'[q] = login[q]
         /\ login'[r].pc = IF login[r].prior THEN "report" ELSE "sessions"
         /\ login'[r].origin = login[r].origin
<1>1. \A q \in Request \ {r} : login'[q] = login[q]
  BY LoginGoes DEF Logins!Handler
<1>2. login'[r] = [pc |-> IF login[r].prior THEN "report" ELSE "sessions",
                   origin |-> login[r].origin]
  BY DEF Logins!DeviceInsert, Logins!Goto, Logins!TypeOK
<1> QED
  BY <1>1, <1>2

\* The remaining steps leave the section of the device check, or are not in it.
LEMMA OthersGo ==
  ASSUME Logins!TypeOK, NEW r \in Request, Logins!Handler(r),
         ~\E o \in Device \X Place : Logins!DeviceCount(r, o),
         ~Logins!DeviceRead(r), ~Logins!DeviceInsert(r)
  PROVE  /\ \A q \in Request \ {r} : login'[q] = login[q]
         /\ ~InDevice(r)'
         /\ UNCHANGED <<known, first>>
         /\ InDevice(r) => Logins!DeviceTwice(r) \/ Logins!DeviceReport(r) \/ Logins!Abort(r)
         /\ Logins!DeviceReport(r) \/ UNCHANGED flagged
<1>1. \A q \in Request \ {r} : login'[q] = login[q]
  BY LoginGoes
<1>2. ~InDevice(r)'
  <2>1. CASE Logins!DeviceTwice(r) \/ Logins!SessionOpen(r) \/ Logins!Abort(r)
    BY <2>1 DEF Logins!DeviceTwice, Logins!SessionOpen, Logins!Abort, Logins!Goto,
                Logins!Idle, Logins!TypeOK, InDevice
  <2>2. CASE Logins!DeviceReport(r) \/ Logins!SessionsRead(r)
    BY <2>2 DEF Logins!DeviceReport, Logins!SessionsRead, Logins!Goto, Logins!TypeOK, InDevice
  <2>3. ASSUME NEW p \in Place, Logins!LoginPlain(r, p) PROVE ~InDevice(r)'
    BY <2>3 DEF Logins!LoginPlain, Logins!Goto, Logins!TypeOK, InDevice
  <2> QED
    BY <2>1, <2>2, <2>3 DEF Logins!Handler
<1>3. /\ UNCHANGED <<known, first>>
      /\ Logins!DeviceReport(r) \/ UNCHANGED flagged
  BY DEF Logins!Handler, Logins!LoginPlain, Logins!DeviceTwice, Logins!DeviceReport,
         Logins!SessionsRead, Logins!SessionOpen, Logins!Abort
<1>4. InDevice(r) => Logins!DeviceTwice(r) \/ Logins!DeviceReport(r) \/ Logins!Abort(r)
  BY DEF InDevice, Logins!Handler, Logins!LoginPlain, Logins!SessionsRead,
         Logins!SessionOpen, Logins!At
<1> QED
  BY <1>1, <1>2, <1>3, <1>4

LEMMA LoginHandlerType ==
  ASSUME Logins!TypeOK, DeviceOrigin, NEW r \in Request, Logins!Handler(r)
  PROVE  Logins!TypeOK' /\ DeviceOrigin'
<1>1. login' \in [Request -> Logins!Work]
  BY LoginGoes
<1>2. DeviceOrigin'
  <2>1. ASSUME NEW o \in Device \X Place, Logins!DeviceCount(r, o) PROVE DeviceOrigin'
    <3>1. login'[r].origin = o /\ \A q \in Request \ {r} : login'[q] = login[q]
      BY <2>1, DeviceCountGoes
    <3> QED
      BY <3>1 DEF DeviceOrigin
  <2>2. CASE Logins!DeviceRead(r)
    BY <2>2, DeviceReadGoes DEF DeviceOrigin
  <2>3. CASE Logins!DeviceInsert(r)
    BY <2>3, DeviceInsertGoes DEF DeviceOrigin, Logins!DeviceInsert, Logins!At
  <2> QED
    BY <2>1, <2>2, <2>3, OthersGo DEF DeviceOrigin, InDevice
<1>3. known' \subseteq Device /\ first' \in Device \cup {"none"}
  <2>1. CASE Logins!DeviceInsert(r)
    <3>1. login[r].origin[1] \in Device
      BY <2>1 DEF Logins!DeviceInsert, Logins!At, DeviceOrigin
    <3> QED
      BY <2>1, <3>1 DEF Logins!DeviceInsert, Logins!Insert, Logins!NoDevice, Logins!TypeOK
  <2>2. CASE ~Logins!DeviceInsert(r)
    BY <2>2 DEF Logins!Handler, Logins!DeviceCount, Logins!LoginPlain, Logins!DeviceRead,
       Logins!DeviceTwice, Logins!DeviceReport, Logins!SessionsRead, Logins!SessionOpen,
       Logins!Abort, Logins!NoDevice, Logins!TypeOK
  <2> QED
    BY <2>1, <2>2
<1>4. flagged' \subseteq Device
  <2>1. CASE Logins!DeviceReport(r)
    <3>1. login[r].origin[1] \in Device
      BY <2>1 DEF Logins!DeviceReport, Logins!At, DeviceOrigin
    <3> QED
      BY <2>1, <3>1 DEF Logins!DeviceReport, Logins!TypeOK
  <2>2. CASE ~Logins!DeviceReport(r)
    BY <2>2 DEF Logins!Handler, Logins!DeviceCount, Logins!LoginPlain, Logins!DeviceRead,
       Logins!DeviceInsert, Logins!DeviceTwice, Logins!SessionsRead, Logins!SessionOpen,
       Logins!Abort, Logins!TypeOK
  <2> QED
    BY <2>1, <2>2
<1>5. open' \subseteq Logins!Session /\ noted' \subseteq Nat /\ revived' \subseteq Nat
  <2>1. CASE Logins!SessionOpen(r)
    <3>1. PICK k \in 1..MaxSessions :
            /\ open' = open \cup {[key |-> k, origin |-> login[r].origin, live |-> TRUE]}
            /\ noted' = IF login[r].found THEN noted \cup {k} ELSE noted
      BY <2>1 DEF Logins!SessionOpen
    <3>2. k \in Nat \ {0}
      BY NumberAssumption
    <3>3. login[r].origin \in Logins!Origin
      BY <2>1, LoginWorkAt DEF Logins!SessionOpen, Logins!At
    <3>4. [key |-> k, origin |-> login[r].origin, live |-> TRUE] \in Logins!Session
      BY <3>2, <3>3 DEF Logins!Session
    <3> QED
      BY <2>1, <3>1, <3>2, <3>4 DEF Logins!SessionOpen, Logins!TypeOK
  <2>2. CASE ~Logins!SessionOpen(r)
    BY <2>2 DEF Logins!Handler, Logins!DeviceCount, Logins!LoginPlain, Logins!DeviceRead,
       Logins!DeviceInsert, Logins!Insert, Logins!DeviceTwice, Logins!DeviceReport,
       Logins!SessionsRead, Logins!Abort, Logins!TypeOK
  <2> QED
    BY <2>1, <2>2
<1>6. missed' \subseteq {"device", "session"}
  BY DEF Logins!Handler, Logins!DeviceCount, Logins!LoginPlain, Logins!DeviceRead,
     Logins!DeviceInsert, Logins!DeviceTwice, Logins!DeviceReport, Logins!SessionsRead,
     Logins!SessionOpen, Logins!Abort, Logins!Enter, Logins!Section, Logins!TypeOK
<1> QED
  BY <1>1, <1>2, <1>3, <1>4, <1>5, <1>6 DEF Logins!TypeOK, Logins!NoDevice

LEMMA LoginOthersType ==
  ASSUME Logins!TypeOK, DeviceOrigin,
         NEW s \in open, Logins!Logout(s) \/ Logins!Touch(s) \/ Logins!Age(s)
  PROVE  Logins!TypeOK' /\ DeviceOrigin'
<1>1. s \in Logins!Session /\ \A b \in BOOLEAN : [s EXCEPT !.live = b] \in Logins!Session
  BY DEF Logins!TypeOK, Logins!Session
<1>2. s.key \in Nat
  BY <1>1 DEF Logins!Session
<1>3. open' \subseteq Logins!Session /\ noted' \subseteq Nat /\ revived' \subseteq Nat
  BY <1>1, <1>2 DEF Logins!TypeOK, Logins!Logout, Logins!Touch, Logins!Age
<1>4. UNCHANGED <<known, login, first, flagged, missed>>
  BY DEF Logins!Logout, Logins!Touch, Logins!Age
<1> QED
  BY <1>3, <1>4 DEF Logins!TypeOK, DeviceOrigin

-----------------------------------------------------------------------------
(* LoginWatch: new devices are reported. *)

\* The first device is never up for a report: who reports has found one on file.
FirstOK ==
  /\ known # {} => first \in known
  /\ known = {} => first = "none"
  /\ flagged \subseteq known /\ first \notin flagged
  /\ \A r \in Request :
       /\ login[r].pc \in {"known", "insert"} /\ login[r].prior => known # {}
       /\ login[r].pc = "report" => login[r].origin[1] \in known \ {first}

\* As long as no two logins met in the check, the one that is there knows whether a
\* device is on file, and every device but the first was reported or is about to be.
ReportedOK ==
  "device" \notin missed =>
    /\ \A q, r \in Request : InDevice(q) /\ InDevice(r) => q = r
    /\ \A r \in Request :
         login[r].pc \in {"known", "insert"} /\ ~login[r].prior => known = {}
    /\ \A d \in known \ {first} :
         d \in flagged \/ \E r \in Request : login[r].pc = "report" /\ login[r].origin[1] = d

LEMMA DeviceEntered ==
  ASSUME Logins!Enter("device"), "device" \notin missed'
  PROVE  "device" \notin missed /\ \A q \in Request : ~InDevice(q)
BY DEF Logins!Enter, Logins!Section, InDevice

LEMMA DeviceAborted ==
  ASSUME NEW r \in Request, Logins!Abort(r), "device" \notin missed'
  PROVE  "device" \notin missed /\ ~InDevice(r)
<1>1. "device" \in DOMAIN Logins!Section
  BY DEF Logins!Section
<1> QED
  BY <1>1 DEF Logins!Abort, Logins!Section, InDevice

\* Nothing else takes a check for missed.
LEMMA DeviceNotMissed ==
  ASSUME NEW r \in Request, Logins!Handler(r),
         ~\E o \in Device \X Place : Logins!DeviceCount(r, o), "device" \notin missed'
  PROVE  "device" \notin missed
BY DeviceAborted DEF Logins!Handler, Logins!LoginPlain, Logins!DeviceRead, Logins!DeviceInsert,
   Logins!DeviceTwice, Logins!DeviceReport, Logins!SessionsRead, Logins!SessionOpen, Logins!Enter

LEMMA FirstStep ==
  ASSUME Logins!TypeOK, DeviceOrigin, FirstOK, NEW r \in Request, Logins!Handler(r)
  PROVE  FirstOK'
<1>1. ASSUME NEW o \in Device \X Place, Logins!DeviceCount(r, o) PROVE FirstOK'
  <2>1. /\ login'[r].pc = "known" /\ login'[r].prior = (known # {})
        /\ \A q \in Request \ {r} : login'[q] = login[q]
    BY <1>1, DeviceCountGoes
  <2>2. UNCHANGED <<known, first, flagged>>
    BY <1>1 DEF Logins!DeviceCount
  <2> QED
    BY <2>1, <2>2 DEF FirstOK
<1>2. CASE Logins!DeviceRead(r)
  <2>1. UNCHANGED <<known, first, flagged>>
    BY <1>2 DEF Logins!DeviceRead
  <2> QED
    BY <1>2, <2>1, DeviceReadGoes DEF FirstOK
<1>3. CASE Logins!DeviceInsert(r)
  <2> DEFINE d == login[r].origin[1]
  <2>1. /\ d \in Device /\ d \notin known /\ known' = known \cup {d} /\ flagged' = flagged
        /\ first' = IF first = "none" THEN d ELSE first
    BY <1>3 DEF Logins!DeviceInsert, Logins!Insert, Logins!At, Logins!NoDevice, DeviceOrigin
  <2>2. d # "none" /\ (first = "none" <=> known = {})
    BY <2>1, DeviceAssumption DEF FirstOK, Logins!TypeOK
  <2>3. /\ login'[r].pc = IF login[r].prior THEN "report" ELSE "sessions"
        /\ login'[r].origin[1] = d
        /\ \A q \in Request \ {r} : login'[q] = login[q]
    BY <1>3, DeviceInsertGoes
  <2>4. login[r].prior => known # {}
    BY <1>3 DEF FirstOK, Logins!DeviceInsert, Logins!At
  <2>5. \A q \in Request : login[q].pc = "report" => login[q].origin[1] \in known \ {first}
    BY DEF FirstOK
  <2>6. /\ known' # {} /\ first' \in known' /\ flagged' \subseteq known' /\ first' \notin flagged'
    BY <2>1, <2>2 DEF FirstOK
  <2>7. \A q \in Request : login'[q].pc = "report" => login'[q].origin[1] \in known' \ {first'}
    <3>1. first # "none" => first' = first
      BY <2>1
    <3>2. first = "none" => \A q \in Request : login[q].pc # "report"
      BY <2>2, <2>5
    <3>3. login'[r].pc = "report" => d \in known' \ {first'}
      BY <2>1, <2>2, <2>3, <2>4 DEF FirstOK
    <3> HIDE DEF d
    <3> QED
      BY <2>1, <2>3, <2>5, <3>1, <3>2, <3>3
  <2> HIDE DEF d
  <2> QED
    BY <2>6, <2>7 DEF FirstOK
<1>4. CASE /\ ~\E o \in Device \X Place : Logins!DeviceCount(r, o)
           /\ ~Logins!DeviceRead(r) /\ ~Logins!DeviceInsert(r)
  <2>1. /\ \A q \in Request \ {r} : login'[q] = login[q]
        /\ ~InDevice(r)' /\ UNCHANGED <<known, first>>
        /\ Logins!DeviceReport(r) \/ UNCHANGED flagged
    BY <1>4, OthersGo
  <2>2. flagged' \subseteq known /\ first \notin flagged'
    <3>1. CASE Logins!DeviceReport(r)
      BY <3>1 DEF FirstOK, Logins!DeviceReport, Logins!At
    <3> QED
      BY <2>1, <3>1 DEF FirstOK
  <2> QED
    BY <2>1, <2>2 DEF FirstOK, InDevice
<1> QED
  BY <1>1, <1>2, <1>3, <1>4

LEMMA ReportedStep ==
  ASSUME Logins!TypeOK, DeviceOrigin, FirstOK, ReportedOK, NEW r \in Request, Logins!Handler(r)
  PROVE  ReportedOK'
<1> SUFFICES ASSUME "device" \notin missed'
    PROVE /\ \A q, s \in Request : InDevice(q)' /\ InDevice(s)' => q = s
          /\ \A q \in Request :
               login'[q].pc \in {"known", "insert"} /\ ~login'[q].prior => known' = {}
          /\ \A d \in known' \ {first'} :
               d \in flagged' \/ \E q \in Request : login'[q].pc = "report" /\ login'[q].origin[1] = d
  BY DEF ReportedOK
<1>1. ASSUME NEW o \in Device \X Place, Logins!DeviceCount(r, o) PROVE ReportedOK'
  <2>1. /\ login'[r].pc = "known" /\ login'[r].prior = (known # {})
        /\ \A q \in Request \ {r} : login'[q] = login[q]
    BY <1>1, DeviceCountGoes
  <2>2. "device" \notin missed /\ \A q \in Request : ~InDevice(q)
    BY <1>1, DeviceEntered DEF Logins!DeviceCount
  <2>3. UNCHANGED <<known, first, flagged>>
    BY <1>1 DEF Logins!DeviceCount
  <2> QED
    BY <2>1, <2>2, <2>3 DEF ReportedOK, InDevice
<1>2. CASE ~\E o \in Device \X Place : Logins!DeviceCount(r, o)
  <2>1. "device" \notin missed
    BY <1>2, DeviceNotMissed
  <2>2. CASE Logins!DeviceRead(r)
    <3>1. UNCHANGED <<known, first, flagged>> /\ InDevice(r) /\ login[r].pc = "known"
      BY <2>2 DEF Logins!DeviceRead, Logins!At, InDevice
    <3>2. /\ \A q \in Request \ {r} : login'[q] = login[q]
          /\ \/ login'[r].pc = "sessions"
             \/ /\ login'[r].pc = "insert"
                /\ login'[r].origin = login[r].origin /\ login'[r].prior = login[r].prior
      BY <2>2, DeviceReadGoes
    <3> QED
      BY <2>1, <3>1, <3>2 DEF ReportedOK, InDevice
  <2>3. CASE Logins!DeviceInsert(r)
    <3> DEFINE d == login[r].origin[1]
    <3>1. /\ d \in Device /\ known' = known \cup {d} /\ flagged' = flagged
          /\ first' = IF first = "none" THEN d ELSE first
          /\ login[r].pc = "insert"
      BY <2>3 DEF Logins!DeviceInsert, Logins!Insert, Logins!At, Logins!NoDevice, DeviceOrigin
    <3>2. /\ login'[r].pc = IF login[r].prior THEN "report" ELSE "sessions"
          /\ login'[r].origin[1] = d
          /\ \A q \in Request \ {r} : login'[q] = login[q]
      BY <2>3, DeviceInsertGoes
    <3>3. \A q \in Request \ {r} : ~InDevice(q)
      BY <2>1, <3>1 DEF ReportedOK, InDevice
    <3>4. \A q \in Request \ {r} : ~InDevice(q)'
      BY <3>2, <3>3 DEF InDevice
    <3>5. login'[r].pc \notin {"known", "insert"}
      BY <3>2
    <3>6. \A c \in known' \ {first'} :
            c \in flagged' \/ \E q \in Request : login'[q].pc = "report" /\ login'[q].origin[1] = c
      <4>1. CASE login[r].prior
        <5>1. first # "none" /\ login'[r].pc = "report"
          BY <3>1, <3>2, <4>1, DeviceAssumption DEF FirstOK, Logins!TypeOK
        <5>2. \A c \in known \ {first} : c \in flagged
          BY <2>1, <3>1, <3>3 DEF ReportedOK, InDevice
        <5> HIDE DEF d
        <5> QED
          BY <3>1, <3>2, <5>1, <5>2
      <4>2. CASE ~login[r].prior
        <5>1. known = {} /\ first = "none"
          BY <2>1, <3>1, <4>2 DEF ReportedOK, FirstOK
        <5> QED
          BY <3>1, <5>1
      <4> QED
        BY <4>1, <4>2
    <3> HIDE DEF d
    <3> QED
      BY <3>4, <3>5, <3>6 DEF InDevice
  <2>4. CASE ~Logins!DeviceRead(r) /\ ~Logins!DeviceInsert(r)
    <3>1. /\ \A q \in Request \ {r} : login'[q] = login[q]
          /\ ~InDevice(r)' /\ UNCHANGED <<known, first>>
          /\ InDevice(r) => Logins!DeviceTwice(r) \/ Logins!DeviceReport(r) \/ Logins!Abort(r)
          /\ Logins!DeviceReport(r) \/ UNCHANGED flagged
      BY <1>2, <2>4, OthersGo
    <3>2. flagged \subseteq flagged'
      BY <3>1 DEF Logins!DeviceReport
    <3>3. login[r].pc = "report" => login[r].origin[1] \in flagged'
      BY <3>1, DeviceAborted DEF InDevice, Logins!DeviceTwice, Logins!DeviceReport, Logins!At
    <3> QED
      BY <2>1, <3>1, <3>2, <3>3 DEF ReportedOK, InDevice
  <2> QED
    BY <2>2, <2>3, <2>4
<1> QED
  BY <1>1, <1>2 DEF ReportedOK

LEMMA OthersKeepDevices ==
  ASSUME FirstOK, ReportedOK, UNCHANGED <<known, login, first, flagged, missed>>
  PROVE  FirstOK' /\ ReportedOK'
BY DEF FirstOK, ReportedOK, InDevice

-----------------------------------------------------------------------------
(* LoginWatch: of two live sessions the later one was reported. *)

Keyed == \A s, t \in open : s.key = t.key => s = t

\* As long as no two logins met there, the one that looked has found what is live.
FoundOK ==
  "session" \notin missed =>
    /\ \A q, r \in Request : InSession(q) /\ InSession(r) => q = r
    /\ \A r \in Request : InSession(r) =>
         \A s \in open :
           s.live /\ s.origin # login[r].origin => login[r].found \/ s.key \in revived

\* Whether or not the later one is live: it may be touched again.
NotedOK ==
  \A s, t \in open :
    s.live /\ s.origin # t.origin /\ s.key < t.key
    => t.key \in noted \/ s.key \in revived \/ "session" \in missed

SessionInv == Keyed /\ FoundOK /\ NotedOK

LEMMA SessionsReadGoes ==
  ASSUME Logins!TypeOK, NEW r \in Request, Logins!SessionsRead(r)
  PROVE  /\ login'[r].pc = "open" /\ login'[r].origin = login[r].origin
         /\ login'[r].found = (\E s \in open : s.live /\ s.origin # login[r].origin)
         /\ \A q \in Request \ {r} : login'[q] = login[q]
<1>1. \A q \in Request \ {r} : login'[q] = login[q]
  BY LoginGoes DEF Logins!Handler
<1>2. login' = [login EXCEPT ![r] =
        [pc |-> "open", origin |-> login[r].origin,
         found |-> \E s \in open : s.live /\ s.origin # login[r].origin]]
  BY Zenon DEF Logins!SessionsRead, Logins!Goto
<1>3. login'[r] =
        [pc |-> "open", origin |-> login[r].origin,
         found |-> \E s \in open : s.live /\ s.origin # login[r].origin]
  BY <1>2, Zenon DEF Logins!TypeOK
<1> QED
  BY <1>1, <1>3

\* The remaining steps of a login lead out of the session check or not into it.
LEMMA OthersOpenNothing ==
  ASSUME Logins!TypeOK, NEW r \in Request, Logins!Handler(r),
         ~Logins!SessionsRead(r), ~Logins!SessionOpen(r)
  PROVE  /\ \A q \in Request \ {r} : login'[q] = login[q]
         /\ ~InSession(r)'
         /\ UNCHANGED <<open, noted, revived>>
         /\ missed \cap {"session"} \subseteq missed'
<1>1. \A q \in Request \ {r} : login'[q] = login[q]
  BY LoginGoes
<1>2. ~InSession(r)'
  <2>1. CASE Logins!DeviceTwice(r) \/ Logins!Abort(r)
    BY <2>1 DEF Logins!DeviceTwice, Logins!Abort, Logins!Goto, Logins!Idle, Logins!TypeOK,
                InSession
  <2>2. CASE Logins!DeviceReport(r)
    BY <2>2 DEF Logins!DeviceReport, Logins!Goto, Logins!TypeOK, InSession
  <2>3. ASSUME NEW p \in Place, Logins!LoginPlain(r, p) PROVE ~InSession(r)'
    BY <2>3 DEF Logins!LoginPlain, Logins!Goto, Logins!TypeOK, InSession
  <2>4. ASSUME NEW o \in Device \X Place, Logins!DeviceCount(r, o) PROVE ~InSession(r)'
    BY <2>4, DeviceCountGoes DEF InSession
  <2>5. CASE Logins!DeviceRead(r)
    BY <2>5, DeviceReadGoes DEF InSession
  <2>6. CASE Logins!DeviceInsert(r)
    BY <2>6, DeviceInsertGoes DEF InSession
  <2> QED
    BY <2>1, <2>2, <2>3, <2>4, <2>5, <2>6 DEF Logins!Handler
<1>3. UNCHANGED <<open, noted, revived>> /\ missed \subseteq missed'
  BY DEF Logins!Handler, Logins!DeviceCount, Logins!LoginPlain, Logins!DeviceRead,
     Logins!DeviceInsert, Logins!DeviceTwice, Logins!DeviceReport, Logins!Abort, Logins!Enter
<1> QED
  BY <1>1, <1>2, <1>3

LEMMA SessionHandlerStep ==
  ASSUME Logins!TypeOK, SessionInv, NEW r \in Request, Logins!Handler(r)
  PROVE  SessionInv'
<1>1. CASE Logins!SessionsRead(r)
  <2>1. UNCHANGED <<open, noted, revived>> /\ missed \subseteq missed'
    BY <1>1 DEF Logins!SessionsRead, Logins!Enter
  <2>2. /\ login'[r].pc = "open" /\ login'[r].origin = login[r].origin
        /\ login'[r].found = (\E s \in open : s.live /\ s.origin # login[r].origin)
        /\ \A q \in Request \ {r} : login'[q] = login[q]
    BY <1>1, SessionsReadGoes
  <2>3. "session" \notin missed' => \A q \in Request : ~InSession(q)
    BY <1>1 DEF Logins!SessionsRead, Logins!Enter, Logins!Section, InSession
  <2>4. FoundOK'
    BY <2>1, <2>2, <2>3 DEF FoundOK, InSession
  <2> QED
    BY <2>1, <2>4 DEF SessionInv, Keyed, NotedOK
<1>2. CASE Logins!SessionOpen(r)
  <2>1. PICK k \in 1..MaxSessions :
          /\ \A s \in open : s.key < k
          /\ open' = open \cup {[key |-> k, origin |-> login[r].origin, live |-> TRUE]}
          /\ noted' = IF login[r].found THEN noted \cup {k} ELSE noted
    BY <1>2 DEF Logins!SessionOpen, Logins!Numbered
  <2>2. UNCHANGED <<revived, missed>> /\ InSession(r)
    BY <1>2 DEF Logins!SessionOpen, Logins!At, InSession
  <2>3. k \in Nat /\ \A s \in open : s.key \in Nat
    BY NumberAssumption DEF Logins!TypeOK, Logins!Session
  <2>4. \A q \in Request \ {r} : login'[q] = login[q]
    BY LoginGoes
  <2>5. ~InSession(r)'
    BY <1>2 DEF Logins!SessionOpen, Logins!Goto, Logins!Idle, Logins!TypeOK, InSession
  <2> DEFINE new == [key |-> k, origin |-> login[r].origin, live |-> TRUE]
  <2>6. open' = open \cup {new} /\ new.key = k /\ new.origin = login[r].origin
    BY <2>1
  <2> HIDE DEF new
  <2>7. Keyed'
    BY <2>1, <2>3, <2>6 DEF SessionInv, Keyed
  <2>8. FoundOK'
    BY <2>2, <2>4, <2>5 DEF SessionInv, FoundOK, InSession
  <2>9. NotedOK'
    <3> SUFFICES ASSUME NEW s \in open', NEW t \in open',
                        s.live, s.origin # t.origin, s.key < t.key, "session" \notin missed
                 PROVE  t.key \in noted' \/ s.key \in revived
      BY <2>2 DEF NotedOK
    <3>1. s \in open
      BY <2>1, <2>3, <2>6
    <3>2. CASE t \in open
      BY <2>1, <3>1, <3>2 DEF SessionInv, NotedOK
    <3>3. CASE t = new
      BY <2>1, <2>2, <2>6, <3>1, <3>3 DEF SessionInv, FoundOK
    <3> QED
      BY <2>6, <3>2, <3>3
  <2> QED
    BY <2>7, <2>8, <2>9 DEF SessionInv
<1>3. CASE ~Logins!SessionsRead(r) /\ ~Logins!SessionOpen(r)
  <2>1. /\ \A q \in Request \ {r} : login'[q] = login[q]
        /\ ~InSession(r)' /\ UNCHANGED <<open, noted, revived>>
        /\ missed \cap {"session"} \subseteq missed'
    BY <1>3, OthersOpenNothing
  <2> QED
    BY <2>1 DEF SessionInv, Keyed, FoundOK, NotedOK, InSession
<1> QED
  BY <1>1, <1>2, <1>3

LEMMA SessionOthersStep ==
  ASSUME Logins!TypeOK, SessionInv,
         NEW s \in open, Logins!Logout(s) \/ Logins!Touch(s) \/ Logins!Age(s)
  PROVE  SessionInv'
<1>1. UNCHANGED <<login, missed>>
  BY DEF Logins!Logout, Logins!Touch, Logins!Age
<1>2. \A t \in open : t.key = s.key => t = s
  BY DEF SessionInv, Keyed
<1>3. CASE Logins!Logout(s)
  <2>1. open' = open \ {s} /\ noted' = noted \ {s.key} /\ revived' = revived \ {s.key}
    BY <1>3 DEF Logins!Logout
  <2>2. \A t \in open' :
          t \in open /\ (t.key \in noted => t.key \in noted')
                     /\ (t.key \in revived => t.key \in revived')
    BY <1>2, <2>1
  <2>3. Keyed'
    BY <2>2 DEF SessionInv, Keyed
  <2>4. FoundOK'
    BY <1>1, <2>2 DEF SessionInv, FoundOK, InSession
  <2>5. NotedOK'
    BY <1>1, <2>2 DEF SessionInv, NotedOK
  <2> QED
    BY <2>3, <2>4, <2>5 DEF SessionInv
<1>4. ASSUME NEW b \in BOOLEAN, open' = (open \ {s}) \cup {[s EXCEPT !.live = b]},
             revived \subseteq revived', noted' = noted, b => s.key \in revived'
      PROVE  SessionInv'
  <2> DEFINE new == [s EXCEPT !.live = b]
  <2>1. new.key = s.key /\ new.origin = s.origin /\ new.live = b
    BY DEF Logins!TypeOK, Logins!Session
  <2>2. open' = (open \ {s}) \cup {new}
    BY <1>4
  <2> HIDE DEF new
  <2>3. Keyed'
    BY <1>2, <2>1, <2>2 DEF SessionInv, Keyed
  <2>4. \A t \in open' : \E u \in open :
          /\ u.key = t.key /\ u.origin = t.origin
          /\ t.live => u.live \/ t.key \in revived'
    BY <1>4, <2>1, <2>2
  <2>5. FoundOK'
    BY <1>1, <1>4, <2>4 DEF SessionInv, FoundOK, InSession
  <2>6. NotedOK'
    <3> SUFFICES ASSUME NEW t \in open', NEW u \in open',
                        t.live, t.origin # u.origin, t.key < u.key, "session" \notin missed
                 PROVE  u.key \in noted' \/ t.key \in revived'
      BY <1>1 DEF NotedOK
    <3>1. PICK t0 \in open : /\ t0.key = t.key /\ t0.origin = t.origin
                             /\ t0.live \/ t.key \in revived'
      BY <2>4
    <3>2. PICK u0 \in open : u0.key = u.key /\ u0.origin = u.origin
      BY <2>4
    <3> QED
      BY <1>4, <3>1, <3>2 DEF SessionInv, NotedOK
  <2> QED
    BY <2>3, <2>5, <2>6 DEF SessionInv
<1>5. CASE Logins!Touch(s)
  BY <1>4, <1>5 DEF Logins!Touch
<1>6. CASE Logins!Age(s)
  BY <1>4, <1>6 DEF Logins!Age
<1> QED
  BY <1>3, <1>5, <1>6

-----------------------------------------------------------------------------
(* Both stories together. *)

LoginInv == Logins!TypeOK /\ DeviceOrigin /\ FirstOK /\ ReportedOK /\ SessionInv

\* Every device after the first is reported, the first one never; of two live
\* sessions of different origins the later one was: unless logins met in the
\* check, one died there, or the earlier session came back to life.
THEOREM LoginsAreNoted == MCSpec => []LoginsNoted
<1>1. MCInit => LoginInv
  <2> SUFFICES ASSUME Logins!Init PROVE LoginInv
    BY DEF MCInit
  <2>1. Logins!TypeOK
    BY DEF Logins!Init, Logins!TypeOK, Logins!Work, Logins!NoDevice
  <2>2. \A r \in Request : login[r].pc = "idle"
    BY DEF Logins!Init, Logins!Idle
  <2>3. DeviceOrigin /\ FirstOK /\ ReportedOK /\ SessionInv
    BY <2>2 DEF Logins!Init, Logins!NoDevice, DeviceOrigin, FirstOK, ReportedOK, InDevice,
       SessionInv, Keyed, FoundOK, NotedOK, InSession
  <2> QED
    BY <2>1, <2>3 DEF LoginInv
<1>2. LoginInv /\ [MCNext]_<<story, vars, watch>> => LoginInv'
  <2> SUFFICES ASSUME LoginInv, [MCNext]_<<story, vars, watch>> PROVE LoginInv'
    OBVIOUS
  <2>1. CASE UNCHANGED watch
    <3>1. UNCHANGED <<known, open, login, first, flagged, noted, revived, missed>>
      BY <2>1 DEF watch
    <3>2. Logins!TypeOK' /\ DeviceOrigin'
      BY <3>1 DEF LoginInv, Logins!TypeOK, DeviceOrigin
    <3>3. FirstOK' /\ ReportedOK'
      BY <3>1, OthersKeepDevices DEF LoginInv
    <3>4. SessionInv'
      BY <3>1 DEF LoginInv, SessionInv, Keyed, FoundOK, NotedOK, InSession
    <3> QED
      BY <3>2, <3>3, <3>4 DEF LoginInv
  <2>2. ASSUME NEW r \in Request, Logins!Handler(r) PROVE LoginInv'
    BY <2>2, LoginHandlerType, FirstStep, ReportedStep, SessionHandlerStep DEF LoginInv
  <2>3. ASSUME NEW s \in open, Logins!Logout(s) \/ Logins!Touch(s) \/ Logins!Age(s)
        PROVE  LoginInv'
    <3>1. UNCHANGED <<known, login, first, flagged, missed>>
      BY <2>3 DEF Logins!Logout, Logins!Touch, Logins!Age
    <3>2. Logins!TypeOK' /\ DeviceOrigin'
      BY <2>3, LoginOthersType DEF LoginInv
    <3>3. SessionInv'
      BY <2>3, SessionOthersStep DEF LoginInv
    <3> QED
      BY <3>1, <3>2, <3>3, OthersKeepDevices DEF LoginInv
  <2>4. UNCHANGED watch \/ Logins!Next
    BY DEF MCNext
  <2> QED
    BY <2>1, <2>2, <2>3, <2>4 DEF Logins!Next
<1>3. LoginInv => LoginsNoted
  <2> SUFFICES ASSUME LoginInv PROVE Logins!NewDevicesFlagged /\ Logins!TwoSessionsNoted
    BY DEF LoginInv, LoginsNoted
  <2>1. Logins!NewDevicesFlagged
    BY DEF LoginInv, FirstOK, ReportedOK, Logins!NewDevicesFlagged, Logins!At
  <2>2. Logins!TwoSessionsNoted
    BY DEF LoginInv, SessionInv, NotedOK, Logins!TwoSessionsNoted
  <2> QED
    BY <2>1, <2>2
<1> QED
  BY <1>1, <1>2, <1>3, PTL DEF MCSpec
================================================================================
