------------------------------- MODULE Escalation -------------------------------
(*****************************************************************************)
(* What one student's security events lead to.  Every login compares the     *)
(* network with the last login's, computes a risk score from the audit log   *)
(* and, if it is high, escalates the student, whose marks are refused until  *)
(* an administrator clears it.  Marks add events of their own and, when they *)
(* land, may send an alert about low attendance, at most one per cooldown.   *)
(*                                                                           *)
(* Each statement on the database is a step; workers overtake each other     *)
(* between any two and may die there.  The last login is recent, late or old *)
(* (NETWORK_CHANGE_IMPOSSIBLE_MINUTES, NETWORK_CHANGE_WINDOW_MINUTES).       *)
(*****************************************************************************)
EXTENDS Integers

CONSTANTS
  Request,    \* worker slots
  Net,        \* networks logins come from
  Event,      \* security events of the student, of which "network" and "impossible"
  Weight,     \* RISK_EVENT_WEIGHTS
  Threshold,  \* SECURITY_RISK_ESCALATION_THRESHOLD
  MaxScore    \* the cap of the score

ASSUME EventAssumption == {"network", "impossible"} \subseteq Event
ASSUME WeightAssumption == Weight \in [Event -> Nat \ {0}]
ASSUME ScoreAssumption == MaxScore \in Nat /\ Threshold \in 1..MaxScore

VARIABLES
  last,       \* last_login_ip and last_login_at
  score,      \* the weighted events of the audit log within the window, capped
  escalated,  \* students.security_escalated
  due,        \* no low-attendance alert within the cooldown
  req,        \* what each worker is doing
  settled,    \* history: a login has read the score since it grew or the flag was
              \* cleared, and none has died since between the score and the flag
  notes,      \* history: escalation notices since the last clear, up to 2
  alerts,     \* history: alerts sent since the cooldown ended, up to 2
  blind       \* history: the checks in which two workers met, or one died

table == <<last, score, escalated, due>>
past == <<settled, notes, alerts, blind>>
vars == <<last, score, escalated, due, req, settled, notes, alerts, blind>>

NoNet == "none"
Idle == [pc |-> "idle"]
Work ==
  {Idle}
  \cup [pc : {"watch", "last"}, net : Net]
  \cup [pc : {"score", "check", "raise", "note", "alert", "send", "sent"}]

TypeOK ==
  /\ last \in [net : Net \cup {NoNet}, age : {"recent", "late", "old"}]
  /\ score \in 0..MaxScore /\ escalated \in BOOLEAN /\ due \in BOOLEAN
  /\ req \in [Request -> Work] /\ settled \in BOOLEAN
  /\ notes \in 0..2 /\ alerts \in 0..2
  /\ blind \subseteq {"escalation", "alert"}

Init ==
  /\ last = [net |-> NoNet, age |-> "old"]
  /\ score = 0 /\ escalated = FALSE /\ due = TRUE
  /\ req = [r \in Request |-> Idle]
  /\ settled = TRUE /\ notes = 0 /\ alerts = 0 /\ blind = {}

At(r, step) == req[r].pc = step
Goto(r, work) == req' = [req EXCEPT ![r] = work]
Once(n) == IF n < 2 THEN n + 1 ELSE n

\* log_audit of an event that counts for the score.
Log(e) ==
  /\ score' = IF score + Weight[e] > MaxScore THEN MaxScore ELSE score + Weight[e]
  /\ settled' = FALSE
Quiet == UNCHANGED <<score, settled>>

\* The steps between reading what a check decides on and writing what it decided.
Section == [escalation |-> {"check", "raise", "note"}, alert |-> {"send", "sent"}]

Enter(name) ==
  blind' = IF \E s \in Request : req[s].pc \in Section[name] THEN blind \cup {name} ELSE blind

-----------------------------------------------------------------------------
(* A login, after its session is opened (see LoginWatch) *)

\* _check_network_change
NetworkCheck(r, n) ==
  /\ At(r, "idle")
  /\ IF last.net \in {NoNet, n} \/ last.age = "old" THEN Quiet
     ELSE Log(IF last.age = "recent" THEN "impossible" ELSE "network")
  /\ Goto(r, [pc |-> "watch", net |-> n])
  /\ UNCHANGED <<last, escalated, due, notes, alerts, blind>>

\* The reports of LoginWatch, any of them.
Watch(r) ==
  /\ At(r, "watch")
  /\ \/ \E e \in Event \ {"network", "impossible"} : Log(e) /\ UNCHANGED req
     \/ Quiet /\ Goto(r, [pc |-> "last", net |-> req[r].net])
  /\ UNCHANGED <<last, escalated, due, notes, alerts, blind>>

\* UPDATE students SET last_login_ip=?, last_login_at=?
LastWrite(r) ==
  /\ At(r, "last")
  /\ last' = [net |-> req[r].net, age |-> "recent"]
  /\ Goto(r, [pc |-> "score"])
  /\ UNCHANGED <<score, escalated, due, past>>

\* _compute_risk_score
ScoreRead(r) ==
  /\ At(r, "score")
  /\ IF score >= Threshold
     THEN Goto(r, [pc |-> "check"]) /\ Enter("escalation")
     ELSE Goto(r, Idle) /\ UNCHANGED blind
  /\ settled' = TRUE
  /\ UNCHANGED <<table, notes, alerts>>

\* Slip: a student who is escalated is escalated once more.
EscalatedReadNot(r) ==
  /\ At(r, "check")
  /\ Goto(r, [pc |-> "raise"])
  /\ UNCHANGED <<table, past>>

\* _maybe_escalate_student leaves an escalated student alone.
EscalatedRead(r) ==
  /\ At(r, "check")
  /\ Goto(r, IF escalated THEN Idle ELSE [pc |-> "raise"])
  /\ UNCHANGED <<table, past>>

Escalate(r) ==
  /\ At(r, "raise")
  /\ escalated' = TRUE
  /\ Goto(r, [pc |-> "note"])
  /\ UNCHANGED <<last, score, due, past>>

EscalationNote(r) ==
  /\ At(r, "note")
  /\ notes' = Once(notes)
  /\ Goto(r, Idle)
  /\ UNCHANGED <<table, settled, alerts, blind>>

\* clear_security_escalation.  The events stay, so the next login may escalate
\* again, new events or not.
ClearEscalation ==
  /\ escalated' = FALSE
  /\ notes' = 0 /\ settled' = FALSE /\ Enter("escalation")
  /\ UNCHANGED <<last, score, due, req, alerts>>

-----------------------------------------------------------------------------
(* A mark: student_mark_attendance and _maybe_notify_low_attendance *)

\* It is refused because of the escalation; or some check fails; or it lands.
Mark(r) ==
  /\ At(r, "idle")
  /\ \/ \E e \in Event \ {"network", "impossible"} : Log(e) /\ UNCHANGED req
     \/ ~escalated /\ Goto(r, [pc |-> "alert"]) /\ Quiet
  /\ UNCHANGED <<last, escalated, due, notes, alerts, blind>>

\* Slip: the cooldown is not looked at.
AlertReadNot(r) ==
  /\ At(r, "alert")
  /\ Goto(r, [pc |-> "send"]) /\ Enter("alert")
  /\ UNCHANGED <<table, settled, notes, alerts>>

\* The percentage is low and no alert was sent within the cooldown, or not.
AlertRead(r) ==
  /\ At(r, "alert")
  /\ \/ due /\ Goto(r, [pc |-> "send"]) /\ Enter("alert")
     \/ Goto(r, Idle) /\ UNCHANGED blind
  /\ UNCHANGED <<table, settled, notes, alerts>>

\* notify_low_attendance
AlertSend(r) ==
  /\ At(r, "send")
  /\ alerts' = Once(alerts)
  /\ Goto(r, [pc |-> "sent"])
  /\ UNCHANGED <<table, settled, notes, blind>>

\* UPDATE students SET last_low_attendance_alert_at=?
AlertWrite(r) ==
  /\ At(r, "sent")
  /\ due' = FALSE
  /\ Goto(r, Idle)
  /\ UNCHANGED <<last, score, escalated, past>>

-----------------------------------------------------------------------------
(* Time, and workers that die. *)

LastAges ==
  /\ last.age # "old"
  /\ last' = [last EXCEPT !.age = IF @ = "recent" THEN "late" ELSE "old"]
  /\ UNCHANGED <<score, escalated, due, req, past>>

CooldownEnds ==
  /\ ~due /\ due' = TRUE /\ alerts' = 0 /\ Enter("alert")
  /\ UNCHANGED <<last, score, escalated, req, settled, notes>>

\* Some events leave the window of SECURITY_RISK_WINDOW_DAYS.
EventsAge ==
  /\ \E n \in 0..MaxScore : n < score /\ score' = n
  /\ UNCHANGED <<last, escalated, due, req, past>>

Abort(r) ==
  /\ ~At(r, "idle")
  /\ blind' = blind \cup {name \in DOMAIN Section : req[r].pc \in Section[name]}
  /\ settled' = (settled /\ req[r].pc \notin {"check", "raise"})
  /\ Goto(r, Idle)
  /\ UNCHANGED <<table, notes, alerts>>

Handler(r) ==
  \/ \E n \in Net : NetworkCheck(r, n)
  \/ Watch(r) \/ LastWrite(r)
  \/ ScoreRead(r) \/ EscalatedRead(r) \/ Escalate(r) \/ EscalationNote(r)
  \/ Mark(r) \/ AlertRead(r) \/ AlertSend(r) \/ AlertWrite(r)
  \/ Abort(r)

Outside == ClearEscalation \/ LastAges \/ CooldownEnds \/ EventsAge

Next == Outside \/ \E r \in Request : Handler(r)

Spec == Init /\ [][Next]_vars

-----------------------------------------------------------------------------
(* Properties *)

\* A login that read a score at the threshold leaves the student escalated until
\* an administrator clears it, or is about to.  Logins and clears that meet do not
\* lose it; only a login that dies between the score and the flag does, until the
\* next login reads the score.
HighScoreEscalates ==
  settled /\ score >= Threshold =>
    escalated \/ \E r \in Request : req[r].pc \in {"check", "raise"}

\* "No repeat notifications ... until an admin explicitly clears it", unless a
\* login, between reading the score and writing the notice, met another or the
\* clear, or died.
OneNotice == notes > 1 => "escalation" \in blind

\* Escalation happens when it is due, and once.
EscalatesOnce == HighScoreEscalates /\ OneNotice

\* An alert is sent "no more than once per" cooldown, unless a mark, between
\* reading the time of the last one and writing it, met another or the end of the
\* cooldown, or died.
OneAlert == alerts > 1 => "alert" \in blind
=============================================================================
