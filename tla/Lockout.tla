-------------------------------- MODULE Lockout --------------------------------
(****************************************************************************)
(* The two lockouts of one account.  Login: the columns failed_attempts and *)
(* locked_until, written by login, student_login and the password resets.   *)
(* Attendance: attendance_security_failures and attendance_locked_until,    *)
(* written by student_mark_attendance and clear_attendance_lock.  Both run  *)
(* the same statements in the same order.                                   *)
(*                                                                          *)
(* An attempt reads the account's row, compares the password (or checks the *)
(* camera frames), and then either clears the counter in one UPDATE or      *)
(* registers a failure with a SELECT and an UPDATE.  The SELECT opens no    *)
(* transaction, so attempts served by other workers come in between.        *)
(****************************************************************************)
EXTENDS Integers

CONSTANTS
  Request,    \* worker slots
  MaxFails,   \* (ATTENDANCE_)LOCKOUT_MAX_FAILED_ATTEMPTS
  Duration,   \* (ATTENDANCE_)LOCKOUT_DURATION_MINUTES
  MaxCount,   \* bound: the failures the counter and the history reach
  MaxNow      \* bound: the last instant of the clock

ASSUME LimitAssumption == MaxFails \in Nat \ {0} /\ Duration \in Nat \ {0}
ASSUME BoundAssumption == MaxCount \in Nat /\ MaxNow \in Nat

VARIABLES
  fails,   \* the failure counter of the account
  until,   \* the end of its lock, 0 for NULL
  now,     \* the wall clock
  req,     \* what each worker is doing
  wrong,   \* history: failures registered since the last clear
  lost     \* history: one of them overwrote a counter it had not read

vars == <<fails, until, now, req, wrong, lost>>

Idle == [pc |-> "idle"]
Work == [pc : {"count", "clear"}] \cup [pc : {"store"}, seen : Nat] \cup {Idle}

TypeOK ==
  /\ fails \in Nat /\ until \in Nat /\ now \in Nat /\ wrong \in Nat
  /\ lost \in BOOLEAN
  /\ req \in [Request -> Work]

Init ==
  /\ fails = 0 /\ until = 0 /\ now = 1
  /\ req = [r \in Request |-> Idle]
  /\ wrong = 0 /\ lost = FALSE

-----------------------------------------------------------------------------

At(r, step) == req[r].pc = step
Goto(r, work) == req' = [req EXCEPT ![r] = work]

\* _is_locked_out, _is_attendance_locked_out
Locked == until > now

\* The row is read and not locked; the verdict on the password or the frames
\* decides what comes next.  (An ordinary mismatch of a face, or a second mark,
\* ends the request without touching the counter.)
Attempt(r) ==
  /\ At(r, "idle")
  /\ ~Locked
  /\ \E next \in {"count", "clear"} : Goto(r, [pc |-> next])
  /\ UNCHANGED <<fails, until, now, wrong, lost>>

\* _register_failed_login, _register_attendance_security_failure: the SELECT ...
CountRead(r) ==
  /\ At(r, "count")
  /\ Goto(r, [pc |-> "store", seen |-> fails])
  /\ UNCHANGED <<fails, until, now, wrong, lost>>

\* Slip: the account is locked one failure late.
CountWriteLate(r) ==
  /\ At(r, "store") /\ wrong < MaxCount /\ req[r].seen < MaxCount
  /\ fails' = req[r].seen + 1
  /\ until' = IF fails' > MaxFails THEN now + Duration ELSE 0
  /\ wrong' = wrong + 1
  /\ lost' = (lost \/ req[r].seen # fails)
  /\ Goto(r, Idle)
  /\ UNCHANGED now

\* ... and the UPDATE of both columns.
CountWrite(r) ==
  /\ At(r, "store") /\ wrong < MaxCount /\ req[r].seen < MaxCount
  /\ fails' = req[r].seen + 1
  /\ until' = IF fails' >= MaxFails THEN now + Duration ELSE 0
  /\ wrong' = wrong + 1
  /\ lost' = (lost \/ req[r].seen # fails)
  /\ Goto(r, Idle)
  /\ UNCHANGED now

\* Slip: a success gives back one failure.
ForgiveOne ==
  /\ fails' = fails - 1
  /\ until' = 0 /\ wrong' = 0 /\ lost' = FALSE
  /\ UNCHANGED now

\* Slip: the lock is lifted but the counter stays.
ForgiveLockOnly ==
  /\ until' = 0
  /\ wrong' = 0 /\ lost' = FALSE
  /\ UNCHANGED <<fails, now>>

\* _clear_failed_logins, _clear_attendance_security_failures
Forgive ==
  /\ fails' = 0 /\ until' = 0
  /\ wrong' = 0 /\ lost' = FALSE
  /\ UNCHANGED now

\* The attempt succeeded.
Clear(r) == At(r, "clear") /\ Forgive /\ Goto(r, Idle)

\* A password reset or an administrator, locked or not.
Reset(r) == At(r, "idle") /\ Forgive /\ UNCHANGED req

Abort(r) ==
  /\ ~At(r, "idle")
  /\ Goto(r, Idle)
  /\ UNCHANGED <<fails, until, now, wrong, lost>>

Tick ==
  /\ now < MaxNow
  /\ now' = now + 1
  /\ UNCHANGED <<fails, until, req, wrong, lost>>

Handler(r) ==
  Attempt(r) \/ CountRead(r) \/ CountWrite(r) \/ Clear(r) \/ Reset(r) \/ Abort(r)

Next == Tick \/ \E r \in Request : Handler(r)

Spec == Init /\ [][Next]_vars

-----------------------------------------------------------------------------
(* Properties *)

\* The counter and the lock never contradict each other, whatever overtakes
\* what: the account carries a lock exactly when its counter reached the limit.
LockMatchesCounter == until # 0 <=> fails >= MaxFails

\* "... consecutive failures lock that account".  True with one worker only.
FailuresLock == wrong >= MaxFails => until # 0

\* Too many failures leave the account unlocked only if one of them wrote a
\* counter that had changed since it read it.
UnlockedNeedsLostCount == wrong >= MaxFails /\ until = 0 => lost

Atomic == INSTANCE AtomicLockout

\* With one worker, attempts take effect as if each were a single step.
ImplementsAtomic == Atomic!Spec
=============================================================================
