----------------------------- MODULE LockoutProofs -----------------------------
(****************************************************************************)
(* Proofs about Lockout, for any limits and any number of workers; the last *)
(* two theorems are about a single one.                                     *)
(****************************************************************************)
EXTENDS Lockout, TLAPS

LEMMA GotoType ==
  ASSUME TypeOK, NEW r \in Request, NEW work \in Work, Goto(r, work)
  PROVE  req' \in [Request -> Work]
BY DEF TypeOK, Goto

LEMMA SeenType ==
  ASSUME TypeOK, NEW r \in Request, At(r, "store")
  PROVE  req[r].seen \in Nat
BY DEF TypeOK, At, Work, Idle

LEMMA HandlerType ==
  ASSUME TypeOK, NEW r \in Request, Handler(r)
  PROVE  TypeOK'
<1>1. Idle \in Work /\ \A next \in {"count", "clear"} : [pc |-> next] \in Work
  BY DEF Work
<1>2. CASE Attempt(r)
  <2>1. req' \in [Request -> Work]
    BY <1>1, <1>2, GotoType DEF Attempt
  <2>2. QED
    BY <1>2, <2>1 DEF Attempt, TypeOK
<1>3. CASE CountRead(r)
  <2>1. [pc |-> "store", seen |-> fails] \in Work
    BY DEF TypeOK, Work
  <2>2. req' \in [Request -> Work]
    BY <1>3, <2>1, GotoType DEF CountRead
  <2>3. QED
    BY <1>3, <2>2 DEF CountRead, TypeOK
<1>4. CASE CountWrite(r)
  <2>1. req' \in [Request -> Work]
    BY <1>1, <1>4, GotoType DEF CountWrite
  <2>2. QED
    BY <1>4, <2>1, SeenType, LimitAssumption DEF CountWrite, TypeOK
<1>5. CASE Clear(r)
  <2>1. req' \in [Request -> Work]
    BY <1>1, <1>5, GotoType DEF Clear
  <2>2. QED
    BY <1>5, <2>1 DEF Clear, Forgive, TypeOK
<1>6. CASE Reset(r)
  BY <1>6 DEF Reset, Forgive, TypeOK
<1>7. CASE Abort(r)
  <2>1. req' \in [Request -> Work]
    BY <1>1, <1>7, GotoType DEF Abort
  <2>2. QED
    BY <1>7, <2>1 DEF Abort, TypeOK
<1>8. QED
  BY <1>2, <1>3, <1>4, <1>5, <1>6, <1>7 DEF Handler

LEMMA NextType == TypeOK /\ [Next]_vars => TypeOK'
<1>1. ASSUME TypeOK, Tick PROVE TypeOK'
  BY <1>1 DEF Tick, TypeOK
<1>2. ASSUME TypeOK, UNCHANGED vars PROVE TypeOK'
  BY <1>2 DEF vars, TypeOK
<1>3. QED
  BY <1>1, <1>2, HandlerType DEF Next

\* Counters, lock and clock are natural numbers in every reachable state.
THEOREM LockoutTypeCorrect == Spec => []TypeOK
<1>1. Init => TypeOK
  <2>1. Init => lost \in BOOLEAN
    BY Zenon DEF Init
  <2>2. Init => req \in [Request -> Work]
    BY DEF Init, Work
  <2>3. Init => fails \in Nat /\ until \in Nat /\ now \in Nat /\ wrong \in Nat
    BY DEF Init
  <2>4. QED
    BY <2>1, <2>2, <2>3 DEF TypeOK
<1>2. QED
  BY <1>1, NextType, PTL DEF Spec

-----------------------------------------------------------------------------
(* Any number of workers. *)

\* Both columns are written by one UPDATE, so they agree even when the UPDATE
\* is based on a counter that is out of date.
THEOREM LockMatches == Spec => []LockMatchesCounter
<1>1. Init => LockMatchesCounter
  BY LimitAssumption DEF Init, LockMatchesCounter
<1>2. TypeOK /\ LockMatchesCounter /\ [Next]_vars => LockMatchesCounter'
  <2> SUFFICES ASSUME TypeOK, LockMatchesCounter, [Next]_vars
               PROVE  LockMatchesCounter'
    OBVIOUS
  <2>1. CASE UNCHANGED <<fails, until>>
    BY <2>1 DEF LockMatchesCounter
  <2>2. CASE Forgive
    BY <2>2, LimitAssumption DEF Forgive, LockMatchesCounter
  <2>3. ASSUME NEW r \in Request, CountWrite(r) PROVE LockMatchesCounter'
    BY <2>3, SeenType, LimitAssumption DEF CountWrite, LockMatchesCounter, TypeOK
  <2>4. QED
    BY <2>1, <2>2, <2>3 DEF Next, Handler, Attempt, CountRead, Clear, Reset, Abort,
       Tick, vars
<1>3. QED
  BY <1>1, <1>2, LockoutTypeCorrect, PTL DEF Spec

\* The counter is exact as long as no failure was lost.
Exact == ~lost => fails = wrong

LEMMA NextExact == TypeOK /\ Exact /\ [Next]_vars => Exact'
<1> SUFFICES ASSUME TypeOK, Exact, [Next]_vars PROVE Exact'
  OBVIOUS
<1>1. CASE UNCHANGED <<fails, wrong, lost>>
  BY <1>1 DEF Exact
<1>2. CASE Forgive
  BY <1>2 DEF Forgive, Exact
<1>3. ASSUME NEW r \in Request, CountWrite(r) PROVE Exact'
  BY <1>3 DEF CountWrite, Exact
<1>4. QED
  BY <1>1, <1>2, <1>3 DEF Next, Handler, Attempt, CountRead, Clear, Reset, Abort,
     Tick, vars

LEMMA ExactInvariant == Spec => []Exact
<1>1. Init => Exact
  BY DEF Init, Exact
<1>2. QED
  BY <1>1, NextExact, LockoutTypeCorrect, PTL DEF Spec

\* An account that took too many failures and is not locked lost one of them to
\* an attempt that ran at the same time.
THEOREM UndercountsExplained == Spec => []UnlockedNeedsLostCount
<1>1. Exact /\ LockMatchesCounter => UnlockedNeedsLostCount
  BY DEF Exact, LockMatchesCounter, UnlockedNeedsLostCount
<1>2. QED
  BY <1>1, ExactInvariant, LockMatches, PTL

-----------------------------------------------------------------------------
(* One worker. *)

\* What a single worker has read is still so.
Current ==
  /\ ~lost
  /\ \A r \in Request : At(r, "store") => req[r].seen = fails
  /\ \A r \in Request : req[r].pc \in {"count", "store"} => ~Locked

LEMMA HandlerCurrent ==
  ASSUME \A q, r \in Request : q = r, TypeOK, Current, NEW r \in Request, Handler(r)
  PROVE  Current'
<1>1. \A q \in Request : q = r
  OBVIOUS
<1>2. CASE Attempt(r)
  BY <1>1, <1>2 DEF Attempt, Goto, Current, At, Locked, TypeOK
<1>3. CASE CountRead(r)
  BY <1>1, <1>3 DEF CountRead, Goto, Current, At, Locked, TypeOK
<1>4. CASE CountWrite(r)
  <2>1. req'[r] = Idle /\ ~lost'
    BY <1>4 DEF CountWrite, Goto, Current, TypeOK
  <2>2. QED
    BY <1>1, <2>1 DEF Current, At, Idle
<1>5. CASE Clear(r)
  <2>1. req'[r] = Idle /\ ~lost'
    BY <1>5 DEF Clear, Forgive, Goto, TypeOK
  <2>2. QED
    BY <1>1, <2>1 DEF Current, At, Idle
<1>6. CASE Reset(r)
  BY <1>1, <1>6 DEF Reset, Forgive, Current, At
<1>7. CASE Abort(r)
  <2>1. req'[r] = Idle /\ ~lost'
    BY <1>7 DEF Abort, Goto, Current, TypeOK
  <2>2. QED
    BY <1>1, <2>1 DEF Current, At, Idle
<1>8. QED
  BY <1>2, <1>3, <1>4, <1>5, <1>6, <1>7 DEF Handler

LEMMA NextCurrent ==
  ASSUME \A q, r \in Request : q = r, TypeOK, Current, [Next]_vars
  PROVE  Current'
<1>1. CASE Tick
  BY <1>1 DEF Tick, Current, At, Locked, TypeOK
<1>2. CASE UNCHANGED vars
  BY <1>2 DEF vars, Current, At, Locked
<1>3. QED
  BY <1>1, <1>2, HandlerCurrent DEF Next

LEMMA CurrentInvariant ==
  ASSUME \A q, r \in Request : q = r
  PROVE  Spec => []Current
<1>1. Init => Current
  BY DEF Init, Current, At, Idle
<1>2. TypeOK /\ Current /\ [Next]_vars => Current'
  BY NextCurrent
<1>3. QED
  BY <1>1, <1>2, LockoutTypeCorrect, PTL DEF Spec

\* With one worker, the limit is kept: so many failures always lock.
THEOREM OneWorkerFailuresLock ==
  ASSUME \A q, r \in Request : q = r
  PROVE  Spec => []FailuresLock
<1>1. Exact /\ LockMatchesCounter /\ Current => FailuresLock
  BY DEF Exact, LockMatchesCounter, Current, FailuresLock
<1>2. QED
  BY <1>1, ExactInvariant, LockMatches, CurrentInvariant, PTL

LEMMA StepAtomic ==
  ASSUME TypeOK, Current, [Next]_vars
  PROVE  [Atomic!Next]_<<fails, until, now>>
<1>1. CASE UNCHANGED <<fails, until, now>>
  BY <1>1
<1>2. CASE Tick
  BY <1>2 DEF Tick, Atomic!Next, Atomic!Tick
<1>3. CASE Forgive
  BY <1>3 DEF Forgive, Atomic!Next, Atomic!Forgive
<1>4. ASSUME NEW r \in Request, CountWrite(r) PROVE Atomic!Fail
  BY <1>4 DEF CountWrite, Current, At, Locked, TypeOK, Atomic!Fail
<1>5. QED
  BY <1>1, <1>2, <1>3, <1>4 DEF Next, Handler, Attempt, CountRead, Clear, Reset,
     Abort, vars, Atomic!Next

\* With one worker, the read, the verdict and the update of an attempt take
\* effect together, and never on a locked account.
THEOREM OneWorkerImplementsAtomic ==
  ASSUME \A q, r \in Request : q = r
  PROVE  Spec => ImplementsAtomic
<1>1. Init => Atomic!Init
  BY DEF Init, Atomic!Init
<1>2. TypeOK /\ Current /\ [Next]_vars => [Atomic!Next]_<<fails, until, now>>
  BY StepAtomic
<1>3. QED
  BY <1>1, <1>2, LockoutTypeCorrect, CurrentInvariant, PTL
  DEF Spec, ImplementsAtomic, Atomic!Spec, Atomic!vars
=============================================================================
