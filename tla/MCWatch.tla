-------------------------------- MODULE MCWatch --------------------------------
(* Two stories, chosen at the start: what logins report, and what becomes of it. *)
EXTENDS Escalation, TLC

CONSTANTS Device, Place, MaxSessions

ASSUME DeviceAssumption == "none" \notin Device
ASSUME NumberAssumption == MaxSessions \in Nat

VARIABLES story, known, open, login, first, flagged, noted, revived, missed

watch == <<known, open, login, first, flagged, noted, revived, missed>>

Logins == INSTANCE LoginWatch WITH req <- login, blind <- missed

MCInit == story \in {"logins", "escalation"} /\ Init /\ Logins!Init

MCNext ==
  /\ story' = story
  /\ \/ story = "escalation" /\ Next /\ UNCHANGED watch
     \/ story = "logins" /\ Logins!Next /\ UNCHANGED vars

MCSpec == MCInit /\ [][MCNext]_<<story, vars, watch>>

\* One lesser event does not reach the threshold of 2, the gravest one does.
Weights == [x \in Event |-> IF x = "impossible" THEN 2 ELSE 1]

(* Of LoginWatch, with its types: devices are reported when they are new, the first *)
(* one aside, and sessions when they are live at the same time.                     *)
LoginsNoted ==
  story = "logins" =>
    Logins!TypeOK /\ Logins!NewDevicesFlagged /\ Logins!TwoSessionsNoted

Symmetry ==
  Permutations(Request) \cup Permutations(Net)
    \cup Permutations(Device) \cup Permutations(Place)
=============================================================================
