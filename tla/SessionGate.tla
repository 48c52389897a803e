------------------------------ MODULE SessionGate ------------------------------
(***************************************************************************)
(* What the attendance handlers may assume of the sessions table: a row is *)
(* created closed under the id after the largest one in use, opens, closes *)
(* or is cancelled by one UPDATE at any time, and disappears.              *)
(* SessionLifecycle implements it and Attendance runs on top of it.        *)
(***************************************************************************)
EXTENDS Integers

CONSTANT MaxSession
VARIABLE gate   \* gate[e]: "none", "closed", "open" or "cancelled"

SessionId == 1 .. MaxSession

\* INTEGER PRIMARY KEY without AUTOINCREMENT: max(rowid) + 1.
NextId(e, exists) ==
  /\ ~exists[e]
  /\ e > 1 => exists[e - 1]
  /\ \A f \in SessionId : f > e => ~exists[f]

Init == gate = [e \in SessionId |-> "none"]

Create(e) ==
  /\ NextId(e, [f \in SessionId |-> gate[f] # "none"])
  /\ gate' = [gate EXCEPT ![e] = "closed"]

Update(e) ==
  /\ gate[e] # "none"
  /\ \E state \in {"closed", "open", "cancelled"} : gate' = [gate EXCEPT ![e] = state]

Delete(e) ==
  /\ gate[e] # "none"
  /\ gate' = [gate EXCEPT ![e] = "none"]

Next == \E e \in SessionId : Create(e) \/ Update(e) \/ Delete(e)

Spec == Init /\ [][Next]_gate
=============================================================================
