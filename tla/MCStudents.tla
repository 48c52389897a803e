------------------------------- MODULE MCStudents -------------------------------
(* Two stories, chosen at the start: who the students are, and their faces. *)
EXTENDS StudentDirectory, TLC

CONSTANTS m, n, MaxFaceId, MaxImages, MaxFile, MaxKey

ASSUME FaceBoundAssumption == {MaxFaceId, MaxImages, MaxFile, MaxKey} \subseteq Nat

VARIABLES story, pupil, file, embedding, work, made, owners, stale, state

faces == <<pupil, file, embedding, work, made, owners, stale, state>>

Faces == INSTANCE FaceEnrollment WITH
  student <- pupil, req <- work, born <- made, held <- owners, MaxId <- MaxFaceId

\* Every account has the address m.
OneMail == [a \in Account |-> m]

MCInit == story \in {"directory", "faces"} /\ Init /\ Faces!Init

MCNext ==
  /\ story' = story
  /\ \/ story = "directory" /\ Next /\ UNCHANGED faces
     \/ story = "faces" /\ Faces!Next /\ UNCHANGED vars

MCSpec == MCInit /\ [][MCNext]_<<story, vars, faces>>

(* Of FaceEnrollment, with its types: the photos, the embeddings and the count of a *)
(* student agree.                                                                   *)
PhotosAgree == story = "faces" => Faces!TypeOK /\ Faces!PhotosAgree

(* Of FaceEnrollment: recognition finds the faces of the students there are, each for *)
(* the right one.                                                                     *)
GalleryIsRight == story = "faces" => Faces!GalleryIsRight

Symmetry == Permutations(Request) \cup Permutations(Roll)
=============================================================================
