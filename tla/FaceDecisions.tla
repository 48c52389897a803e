------------------------------ MODULE FaceDecisions ------------------------------
(***********************************************************************************)
(* The decisions made from face similarities and face boxes, the numerics that     *)
(* produce those being inputs: whom find_best_match names among the stored         *)
(* photos, for any MATCH_TOP_K, and when face_security takes a burst of frames for *)
(* a head turn.                                                                    *)
(***********************************************************************************)
EXTENDS Integers, Sequences, FiniteSetsExt, Functions

CONSTANTS
  Student,   \* students
  Similarity,\* similarities a stored photo can have to the face at hand
  MaxPhoto,  \* bound: photos stored
  TopK,      \* bound: values of MATCH_TOP_K
  Box,       \* the face boxes of one axis: a centre x and a width w > 0
  MaxFrame,  \* bound: frames of a burst
  MinShift   \* ACTIVE_LIVENESS_HEAD_TURN_MIN_SHIFT_RATIO, in quarters of a face

VARIABLES
  gallery,   \* face_embeddings in the order they are read, with the similarity of each
  burst      \* the boxes found in the frames so far

vars == <<gallery, burst>>

Photo == [student : Student, similarity : Similarity]

TypeOK ==
  /\ gallery \in Seq(Photo) /\ Len(gallery) <= MaxPhoto
  /\ burst \in Seq(Box) /\ Len(burst) <= MaxFrame

Init == gallery = <<>> /\ burst = <<>>

\* A photo is stored; rows are read in the order of their ids.
Store(photo) ==
  /\ Len(gallery) < MaxPhoto /\ gallery' = Append(gallery, photo)
  /\ UNCHANGED burst

Capture(box) ==
  /\ Len(burst) < MaxFrame /\ burst' = Append(burst, box)
  /\ UNCHANGED gallery

Next == (\E photo \in Photo : Store(photo)) \/ (\E box \in Box : Capture(box))

Spec == Init /\ [][Next]_vars

-----------------------------------------------------------------------------
(* find_best_match, among the photos I (indices of the gallery).  A score is a fraction *)
(* [sum, of].                                                                           *)

\* get_student_embeddings, or the similarities grouped by student.
Owned(I, s) == {i \in I : gallery[i].student = s}

Sim == [i \in DOMAIN gallery |-> gallery[i].similarity]
Higher(a, b) == a.sum * b.of > b.sum * a.of
Nothing == [sum |-> 0, of |-> 1]
Average(top) == [sum |-> SumFunctionOnSet(Sim, top), of |-> Cardinality(top)]

\* As many photos as there are, k at most.
UpTo(own, k) == kSubset(IF Cardinality(own) < k THEN Cardinality(own) ELSE k, own)

\* The photos sorted by similarity, the first k: no photo left out is closer.
Closest(own, k) ==
  CHOOSE top \in UpTo(own, k) : \A i \in top, j \in own \ top : Sim[i] >= Sim[j]

\* Slip: the photos are not sorted before the first k are taken.
ScoreUnsorted(I, s, k) ==
  LET own == Owned(I, s)
  IN  Average(CHOOSE top \in UpTo(own, k) : \A i \in top, j \in own \ top : i < j)

\* The average of the k closest photos of student s, fewer if there are fewer.
Score(I, s, k) == Average(Closest(Owned(I, s), k))

\* With top_k <= 1 the code scans photos, else students in the order of their first photo.
Value(I, k, i) ==
  IF k <= 1 THEN [sum |-> Sim[i], of |-> 1] ELSE Score(I, gallery[i].student, k)

\* The first photo whose value no other exceeds.
Best(I, k) ==
  CHOOSE i \in I : /\ \A j \in I : ~Higher(Value(I, k, j), Value(I, k, i))
                   /\ \A j \in I : j < i => Higher(Value(I, k, i), Value(I, k, j))

Found(I, k) == IF I = {} THEN Nothing ELSE Value(I, k, Best(I, k))
Match(k) == gallery[Best(DOMAIN gallery, k)].student

\* student_mark_attendance compares with the photos of the student alone.
OwnScore(s, k) == Found(Owned(DOMAIN gallery, s), k)

-----------------------------------------------------------------------------
(* verify_head_turn *)

Distance(a, b) == IF a < b THEN b - a ELSE a - b

\* _max_axis_shift_ratio >= min_shift_ratio: some two frames are far enough apart,
\* measured in the average width of their faces.  (Fewer than two boxes have no shift.)
Turned(boxes) ==
  \/ MinShift = 0
  \/ \E i, j \in DOMAIN boxes :
       4 * 2 * Distance(boxes[i].x, boxes[j].x) >= MinShift * (boxes[i].w + boxes[j].w)

-----------------------------------------------------------------------------

(* Identification and verification agree: the similarity with which a face is        *)
(* recognised as a student among everybody (recognize_face) is the one the student's *)
(* own mark is decided by, for every MATCH_TOP_K.                                    *)
OwnScoreAgrees ==
  gallery # <<>> => \A k \in 0..TopK : OwnScore(Match(k), k) = Found(DOMAIN gallery, k)

(* A student each of whose photos is closer than every photo of everybody else is the *)
(* match, however few photos they have.                                               *)
DominantWins ==
  \A k \in 0..TopK : \A s \in {gallery[i].student : i \in DOMAIN gallery} :
    (\A i \in Owned(DOMAIN gallery, s) : \A j \in DOMAIN gallery \ Owned(DOMAIN gallery, s) :
       Sim[i] > Sim[j])
      => Match(k) = s

(* Averaging over more photos never makes a match easier: the best score falls or stays *)
(* as MATCH_TOP_K grows.                                                                *)
MoreIsStricter ==
  \A k \in 1..TopK : ~Higher(Found(DOMAIN gallery, k), Found(DOMAIN gallery, k - 1))

(* A head turn is taken as one exactly if the face moved far enough for its own width: *)
(* never when the whole span is too short for the narrowest face seen, always when it  *)
(* is enough for the widest, however slowly the head turned.                           *)
TurnIsSpan ==
  LET xs == {burst[i].x : i \in DOMAIN burst}
      ws == {burst[i].w : i \in DOMAIN burst}
      span == 4 * (Max(xs) - Min(xs))
  IN  Len(burst) >= 2 /\ MinShift > 0 =>
        /\ Turned(burst) => span >= MinShift * Min(ws)
        /\ span >= MinShift * Max(ws) => Turned(burst)
=============================================================================
