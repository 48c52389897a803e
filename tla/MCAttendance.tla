---------------------------- MODULE MCAttendance ----------------------------
(* Attendance on small instances: workloads and symmetry. *)
EXTENDS Attendance, TLC

Symmetry == Permutations(Student) \cup Permutations(Request)
=============================================================================
