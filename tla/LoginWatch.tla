------------------------------- MODULE LoginWatch -------------------------------
(***************************************************************************)
(* What every login of one student records (_establish_student_session):   *)
(* the device it comes from and the login session it opens, and what it    *)
(* reports about them: a device that is new, and another session that is   *)
(* still in use elsewhere.  What becomes of the reports is in Escalation.  *)
(*                                                                         *)
(* Each statement on the database is a step; workers overtake each other   *)
(* between any two and may die there.  A login session is live within      *)
(* CONCURRENT_SESSION_WINDOW_MINUTES of its last use.                      *)
(***************************************************************************)
EXTENDS Integers

CONSTANTS
  Request,      \* worker slots
  Device,       \* device fingerprints
  Place,        \* addresses
  MaxSessions   \* bound: the numbers of login sessions

VARIABLES
  known,    \* device_fingerprints: the devices on file
  open,     \* student_login_sessions that have not ended
  req,      \* what each worker is doing
  first,    \* history: the first device ever recorded
  flagged,  \* history: devices reported as suspicious
  noted,    \* history: sessions that were reported as concurrent when they opened
  revived,  \* history: sessions used again after they were out of the window
  blind     \* history: the checks in which two logins met, or one died

vars == <<known, open, req, first, flagged, noted, revived, blind>>

NoDevice == "none"
Origin == (Device \cup {NoDevice}) \X Place
Session == [key : Nat \ {0}, origin : Origin, live : BOOLEAN]
Idle == [pc |-> "idle"]
Work ==
  {Idle}
  \cup [pc : {"known", "insert"}, origin : Origin, prior : BOOLEAN]
  \cup [pc : {"report", "sessions"}, origin : Origin]
  \cup [pc : {"open"}, origin : Origin, found : BOOLEAN]

TypeOK ==
  /\ known \subseteq Device /\ open \subseteq Session
  /\ req \in [Request -> Work]
  /\ first \in Device \cup {NoDevice} /\ flagged \subseteq Device
  /\ noted \subseteq Nat /\ revived \subseteq Nat
  /\ blind \subseteq {"device", "session"}

Init ==
  /\ known = {} /\ open = {}
  /\ req = [r \in Request |-> Idle]
  /\ first = NoDevice /\ flagged = {} /\ noted = {} /\ revived = {}
  /\ blind = {}

At(r, step) == req[r].pc = step
Goto(r, work) == req' = [req EXCEPT ![r] = work]

\* The steps between reading what a check decides on and writing what it decided.
Section == [device |-> {"known", "insert", "report"}, session |-> {"open"}]

Enter(name) ==
  blind' = IF \E s \in Request : req[s].pc \in Section[name] THEN blind \cup {name} ELSE blind

-----------------------------------------------------------------------------
(* _check_suspicious_device and _record_device_fingerprint *)

\* Whether any device is on file.
DeviceCount(r, o) ==
  /\ At(r, "idle")
  /\ Goto(r, [pc |-> "known", origin |-> o, prior |-> known # {}])
  /\ Enter("device")
  /\ UNCHANGED <<known, open, first, flagged, noted, revived>>

\* A login without a fingerprint, as through a provider, skips the check.
LoginPlain(r, p) ==
  /\ At(r, "idle")
  /\ Goto(r, [pc |-> "sessions", origin |-> <<NoDevice, p>>])
  /\ UNCHANGED <<known, open, first, flagged, noted, revived, blind>>

\* A device on file has its row touched; a new one will be inserted.
DeviceRead(r) ==
  /\ At(r, "known")
  /\ Goto(r, IF req[r].origin[1] \in known
             THEN [pc |-> "sessions", origin |-> req[r].origin]
             ELSE [req[r] EXCEPT !.pc = "insert"])
  /\ UNCHANGED <<known, open, first, flagged, noted, revived, blind>>

Insert(r) ==
  LET d == req[r].origin[1]
  IN  /\ d \notin known
      /\ known' = known \cup {d}
      /\ first' = IF first = NoDevice THEN d ELSE first

\* Slip: the first device is reported, too.
DeviceInsertReport(r) ==
  /\ At(r, "insert") /\ Insert(r)
  /\ Goto(r, [pc |-> "report", origin |-> req[r].origin])
  /\ UNCHANGED <<open, flagged, noted, revived, blind>>

\* The pair of student and fingerprint is UNIQUE: inserted meanwhile, it ends the
\* login in an error.
DeviceTwice(r) ==
  /\ At(r, "insert") /\ req[r].origin[1] \in known
  /\ Goto(r, Idle)
  /\ UNCHANGED <<known, open, first, flagged, noted, revived, blind>>

\* The new device is reported if another one was on file.
DeviceInsert(r) ==
  /\ At(r, "insert") /\ Insert(r)
  /\ Goto(r, [pc |-> IF req[r].prior THEN "report" ELSE "sessions",
              origin |-> req[r].origin])
  /\ UNCHANGED <<open, flagged, noted, revived, blind>>

\* log_audit and the notification of an administrator.
DeviceReport(r) ==
  /\ At(r, "report")
  /\ flagged' = flagged \cup {req[r].origin[1]}
  /\ Goto(r, [pc |-> "sessions", origin |-> req[r].origin])
  /\ UNCHANGED <<known, open, first, noted, revived, blind>>

-----------------------------------------------------------------------------
(* _check_concurrent_session and _start_login_session *)

\* A live session of another device or another address.
SessionsRead(r) ==
  /\ At(r, "sessions")
  /\ Goto(r, [pc |-> "open", origin |-> req[r].origin,
              found |-> \E s \in open : s.live /\ s.origin # req[r].origin])
  /\ Enter("session")
  /\ UNCHANGED <<known, open, first, flagged, noted, revived>>

\* A session that opens is numbered after those that are open.
Numbered(k) == /\ \A s \in open : s.key < k
               /\ k - 1 \in {s.key : s \in open} \cup {0}

\* What was found is reported, and the session is opened.
SessionOpen(r) ==
  /\ At(r, "open")
  /\ \E k \in 1..MaxSessions :
       /\ Numbered(k)
       /\ open' = open \cup {[key |-> k, origin |-> req[r].origin, live |-> TRUE]}
       /\ noted' = IF req[r].found THEN noted \cup {k} ELSE noted
  /\ Goto(r, Idle)
  /\ UNCHANGED <<known, first, flagged, revived, blind>>

\* logout: _end_login_session
Logout(s) ==
  /\ open' = open \ {s}
  /\ noted' = noted \ {s.key} /\ revived' = revived \ {s.key}
  /\ UNCHANGED <<known, req, first, flagged, blind>>

\* student_mark_attendance touches the session it comes with.
Touch(s) ==
  /\ ~s.live
  /\ open' = (open \ {s}) \cup {[s EXCEPT !.live = TRUE]}
  /\ revived' = revived \cup {s.key}
  /\ UNCHANGED <<known, req, first, flagged, noted, blind>>

Age(s) ==
  /\ s.live
  /\ open' = (open \ {s}) \cup {[s EXCEPT !.live = FALSE]}
  /\ UNCHANGED <<known, req, first, flagged, noted, revived, blind>>

Abort(r) ==
  /\ ~At(r, "idle")
  /\ blind' = blind \cup {name \in DOMAIN Section : req[r].pc \in Section[name]}
  /\ Goto(r, Idle)
  /\ UNCHANGED <<known, open, first, flagged, noted, revived>>

Handler(r) ==
  \/ \E o \in Device \X Place : DeviceCount(r, o)
  \/ \E p \in Place : LoginPlain(r, p)
  \/ DeviceRead(r) \/ DeviceInsert(r) \/ DeviceTwice(r) \/ DeviceReport(r)
  \/ SessionsRead(r) \/ SessionOpen(r)
  \/ Abort(r)

Next ==
  \/ \E r \in Request : Handler(r)
  \/ \E s \in open : Logout(s) \/ Touch(s) \/ Age(s)

Spec == Init /\ [][Next]_vars

-----------------------------------------------------------------------------
(* Properties *)

\* "A student's very first-ever device is never flagged", and every later one is
\* when its login got past the report, unless two logins met or one died.
NewDevicesFlagged ==
  /\ first \notin flagged
  /\ "device" \notin blind =>
       \A d \in known \ {first} :
         d \in flagged \/ \E r \in Request : At(r, "report") /\ req[r].origin[1] = d

\* Of two live login sessions of different origins, the later one was reported
\* when it opened, unless the earlier one came back to life after that, two
\* logins met between looking and opening, or one died there.
TwoSessionsNoted ==
  \A s, t \in open :
    s.live /\ t.live /\ s.origin # t.origin /\ s.key < t.key
    => t.key \in noted \/ s.key \in revived \/ "session" \in blind
=============================================================================
