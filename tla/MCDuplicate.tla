----------------------------- MODULE MCDuplicate -----------------------------
(* Attendance, with the pairs a self-service mark wrote a row of. *)
EXTENDS Attendance, TLC

VARIABLE marked  \* history: pairs that still have the rows a mark was recorded in

MCInit == Init /\ marked = {}

\* A mark is recorded by its INSERT.  A DELETE of the pair's rows, which an override
\* or a correction begins with, takes it out again.
MCNext ==
  /\ Next
  /\ marked' = {p \in Pair :
       /\ rows'[p] # <<>>
       /\ \/ p \in marked
          \/ \E r \in Request :
               /\ At(r, "m_insert") /\ req[r].pair = p
               /\ req'[r] # req[r] /\ rows'[p] # rows[p]}

MCSpec == MCInit /\ [][MCNext]_<<vars, marked>>

\* A student whose mark is recorded is recorded once in that session: "Duplicate-
\* marking prevention ... hardened with an atomic INSERT ... WHERE NOT EXISTS"
\* (README.md:489-492, and the docstring of _insert_attendance_if_absent).
MarkedOnce == \A p \in marked : Len(rows[p]) <= 1

Symmetry == Permutations(Student) \cup Permutations(Request)
=============================================================================
