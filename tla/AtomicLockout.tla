----------------------------- MODULE AtomicLockout -----------------------------
(****************************************************************************)
(* What config.py and the README promise of both lockouts: MaxFails         *)
(* consecutive failures lock the account for Duration, and a locked account *)
(* takes no further attempt.  Every attempt is one step.                    *)
(****************************************************************************)
EXTENDS Integers

CONSTANTS MaxFails, Duration

VARIABLES fails, until, now

vars == <<fails, until, now>>

Init == fails = 0 /\ until = 0 /\ now = 1

Fail ==
  /\ until <= now
  /\ fails' = fails + 1
  /\ until' = IF fails' >= MaxFails THEN now + Duration ELSE 0
  /\ UNCHANGED now

\* A successful attempt, or an administrator.
Forgive == fails' = 0 /\ until' = 0 /\ UNCHANGED now

Tick == now' = now + 1 /\ UNCHANGED <<fails, until>>

Next == Fail \/ Forgive \/ Tick

Spec == Init /\ [][Next]_vars
=============================================================================
