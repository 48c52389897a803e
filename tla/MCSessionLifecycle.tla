-------------------------- MODULE MCSessionLifecycle --------------------------
(* SessionLifecycle with one worker at work, or all of them. *)
EXTENDS SessionLifecycle, FiniteSets, TLC

VARIABLE workers   \* the workers there are

\* Two windows of day 0 that overlap.
Early == [date |-> 0, end |-> 0, from |-> 0, to |-> 2]
Late == [date |-> 0, end |-> 0, from |-> 1, to |-> 3]
OneDay == {Early, Late}

MCInit == Init /\ workers \in {Request} \cup {{r} : r \in Request}
MCNext == (Tick \/ \E r \in workers : Handler(r)) /\ UNCHANGED workers
MCSpec == MCInit /\ [][MCNext]_<<vars, workers>>

(* A listing page shows as active no session whose window had elapsed when the page *)
(* was asked for ("so the list a person sees is accurate"), where one worker runs.  *)
AloneListingIsAccurate == Cardinality(workers) = 1 => ListingIsAccurate

Symmetry == Permutations(Request)
=============================================================================
