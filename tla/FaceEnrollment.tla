----------------------------- MODULE FaceEnrollment -----------------------------
(****************************************************************************)
(* Students and their faces: registration, deletion, and what adds, removes *)
(* and resets face photos afterwards.  A student is a row of                *)
(* students, files User.<id>.<number>.jpg and rows of face_embeddings, each *)
(* written by a statement of its own, in an order of its own in every       *)
(* handler.  Workers overtake each other between any two statements and may *)
(* die there.  The name and gender in FaceBase.people are left out: the     *)
(* program writes them and reads none of them.                              *)
(*                                                                          *)
(* A face is the number of the person it was taken of: the n-th account     *)
(* belongs to person n.  SQLite gives a new row the largest id in use plus  *)
(* one, so the id of a deleted student comes back, and the cookie of that   *)
(* student still names it.  Detection, quality checks and the comparison    *)
(* with the gallery only decide whether an image is kept or a request ends. *)
(****************************************************************************)
EXTENDS Integers, FiniteSets

CONSTANTS
  Request,    \* worker slots
  MaxId,      \* bound: ids of students
  MaxBorn,    \* bound: accounts ever made
  MaxImages,  \* bound: images in one request
  MaxFile,    \* bound: file numbers of one student
  MaxKey      \* bound: ids of embeddings

Id == 1..MaxId
Person == 1..MaxBorn
Number == 1..MaxFile
Key == 1..MaxKey

NoRow == [who |-> 0]
Row == [who : Person, photos : Nat] \cup {NoRow}

VARIABLES
  student,    \* the table students
  file,       \* the image files, by id and number
  embedding,  \* the table face_embeddings
  req,        \* what each worker is doing
  born,       \* history: accounts made so far
  held,       \* history: the persons each id has belonged to
  stale,      \* history: persons who added a face after their id was given away
  state       \* history: of each id, whether a photo was deleted by itself, and
              \* whether two workers were at it at once or one died at it

vars == <<student, file, embedding, req, born, held, stale, state>>

Idle == [pc |-> "idle"]
Work ==
  {Idle}
  \cup [pc : {"list"}, new : BOOLEAN, id : Id, who : Person]
  \cup [pc : {"image", "store"}, new : BOOLEAN, id : Id, who : Person,
        count : Nat, left : Nat, saved : Nat]
  \cup [pc : {"undo", "tally"}, id : Id] \cup [pc : {"photos"}, id : Id, total : Nat]
  \cup [pc : {"files", "row", "embeddings", "wipe", "sweep", "zero"}, id : Id]
  \cup [pc : {"unlink", "remove"}, id : Id, key : Key, number : Number]

Face == [key : Key, id : Id, face : Person, number : Number]

TypeOK ==
  /\ student \in [Id -> Row]
  /\ file \subseteq Id \X Number /\ embedding \subseteq Face
  /\ \A e, f \in embedding : e.key = f.key => e = f
  /\ req \in [Request -> Work]
  /\ born \in Nat /\ held \in [Id -> SUBSET Person]
  /\ stale \subseteq Person
  /\ state \in [Id -> {"clean", "picked", "blurred"}]

Init ==
  /\ student = [i \in Id |-> NoRow]
  /\ file = {} /\ embedding = {}
  /\ req = [r \in Request |-> Idle]
  /\ born = 0 /\ held = [i \in Id |-> {}]
  /\ stale = {} /\ state = [i \in Id |-> "clean"]

At(r, step) == req[r].pc = step
Goto(r, work) == req' = [req EXCEPT ![r] = work]
Exists(i) == student[i] # NoRow
Faces(i) == {e \in embedding : e.id = i}
Files(i) == {f \in file : f[1] = i}

\* A worker is between two statements on the student of this id.
Busy(i) == \E s \in Request : ~At(s, "idle") /\ req[s].id = i
Begin(i) == state' = IF Busy(i) THEN [state EXCEPT ![i] = "blurred"] ELSE state

\* INSERT INTO students: the next id, and a new person.
Insert(i) ==
  /\ born < MaxBorn
  /\ LET used == {j \in Id : Exists(j)}
     IN  (\A j \in used : j < i) /\ i - 1 \in used \cup {0}
  /\ born' = born + 1
  /\ student' = [student EXCEPT ![i] = [who |-> born + 1, photos |-> 0]]
  /\ held' = [held EXCEPT ![i] = @ \cup {born + 1}]
  /\ Begin(i)

-----------------------------------------------------------------------------
(* New accounts.  That their roll numbers are free is looked up before, see *)
(* StudentDirectory.                                                        *)

\* student_register goes on to the faces ...
Register(r, i) ==
  /\ At(r, "idle") /\ Insert(i)
  /\ Goto(r, [pc |-> "list", new |-> TRUE, id |-> i, who |-> born + 1])
  /\ UNCHANGED <<file, embedding, stale>>

\* ... bulk_import_students does not.
Import(i) ==
  /\ Insert(i)
  /\ UNCHANGED <<file, embedding, req, stale>>

-----------------------------------------------------------------------------
(* save_face_images, for student_register and student_register_face *)

\* While images are left the loop goes on; then what was saved decides how the
\* handler ends.
Further(w) ==
  CASE w.left > 0 -> w
    [] w.left = 0 /\ w.saved = 0 /\ w.new -> [pc |-> "undo", id |-> w.id]
    [] w.left = 0 /\ w.saved = 0 /\ ~w.new -> Idle
    [] w.left = 0 /\ w.saved > 0 /\ w.new -> [pc |-> "photos", id |-> w.id, total |-> w.saved]
    [] w.left = 0 /\ w.saved > 0 /\ ~w.new -> [pc |-> "tally", id |-> w.id]

\* The files of the student are counted once, ahead of the loop; n images will
\* pass the checks, the others are skipped.
ListFiles(r) ==
  /\ At(r, "list")
  /\ \E n \in 0..MaxImages :
       Goto(r, Further([pc |-> "image", new |-> req[r].new, id |-> req[r].id,
                        who |-> req[r].who, count |-> Cardinality(Files(req[r].id)),
                        left |-> n, saved |-> 0]))
  /\ UNCHANGED <<student, file, embedding, born, held, stale, state>>

\* The crop is written under the next number, over whatever has it.
SaveFile(r) ==
  /\ At(r, "image") /\ req[r].count < MaxFile
  /\ file' = file \cup {<<req[r].id, req[r].count + 1>>}
  /\ Goto(r, [req[r] EXCEPT !.pc = "store", !.count = @ + 1])
  /\ UNCHANGED <<student, embedding, born, held, stale, state>>

\* store_embedding
StoreEmbedding(r) ==
  /\ At(r, "store")
  /\ \E k \in Key :
       /\ \A e \in embedding : e.key < k
       /\ k - 1 \in {e.key : e \in embedding} \cup {0}
       /\ embedding' = embedding \cup
            {[key |-> k, id |-> req[r].id, face |-> req[r].who, number |-> req[r].count]}
  /\ Goto(r, Further([req[r] EXCEPT !.pc = "image", !.left = @ - 1, !.saved = @ + 1]))
  /\ UNCHANGED <<student, file, born, held, stale, state>>

\* student_register takes the account back; the row of people stays.
RegisterUndo(r) ==
  /\ At(r, "undo")
  /\ student' = [student EXCEPT ![req[r].id] = NoRow]
  /\ Goto(r, Idle)
  /\ UNCHANGED <<file, embedding, born, held, stale, state>>

\* len(get_student_embeddings(student_id))
TallyRead(r) ==
  /\ At(r, "tally")
  /\ Goto(r, [pc |-> "photos", id |-> req[r].id,
              total |-> Cardinality(Faces(req[r].id))])
  /\ UNCHANGED <<student, file, embedding, born, held, stale, state>>

\* UPDATE students SET photo_count=?
PhotosWrite(r) ==
  /\ At(r, "photos")
  /\ student' = IF Exists(req[r].id)
                THEN [student EXCEPT ![req[r].id].photos = req[r].total] ELSE student
  /\ Goto(r, Idle)
  /\ UNCHANGED <<file, embedding, born, held, stale, state>>

\* student_register_face, by whoever has a cookie with this id: the student must
\* exist.
RegisterFace(r, i, p) ==
  /\ At(r, "idle") /\ p \in held[i] /\ Exists(i)
  /\ Goto(r, [pc |-> "list", new |-> FALSE, id |-> i, who |-> p])
  /\ stale' = IF student[i].who # p THEN stale \cup {p} ELSE stale
  /\ Begin(i)
  /\ UNCHANGED <<student, file, embedding, born, held>>

-----------------------------------------------------------------------------
(* delete_student; its first statement, on attendance, is in Attendance.   *)
(* An administrator's page may still list a student who is gone.           *)

DeleteBegin(r, i) ==
  /\ At(r, "idle") /\ held[i] # {}
  /\ Goto(r, [pc |-> "files", id |-> i])
  /\ Begin(i)
  /\ UNCHANGED <<student, file, embedding, born, held, stale>>

\* _delete_student_face_files
DeleteFiles(r) ==
  /\ At(r, "files")
  /\ file' = file \ Files(req[r].id)
  /\ Goto(r, [req[r] EXCEPT !.pc = "row"])
  /\ UNCHANGED <<student, embedding, born, held, stale, state>>

DeleteRow(r) ==
  /\ At(r, "row")
  /\ student' = [student EXCEPT ![req[r].id] = NoRow]
  /\ Goto(r, [req[r] EXCEPT !.pc = "embeddings"])
  /\ UNCHANGED <<file, embedding, born, held, stale, state>>

\* Slip: the embeddings are left to a later cleanup.
DeleteEmbeddingsLater(r) ==
  /\ At(r, "embeddings")
  /\ Goto(r, Idle)
  /\ UNCHANGED <<student, file, embedding, born, held, stale, state>>

\* delete_student_embeddings.  Nothing is left of photos deleted before.
DeleteEmbeddings(r) ==
  /\ At(r, "embeddings")
  /\ embedding' = embedding \ Faces(req[r].id)
  /\ state' = IF state[req[r].id] = "picked"
              THEN [state EXCEPT ![req[r].id] = "clean"] ELSE state
  /\ Goto(r, Idle)
  /\ UNCHANGED <<student, file, born, held, stale>>

-----------------------------------------------------------------------------
(* _reset_student_face_data: reenroll_face and admin_reset_face_data *)

ResetBegin(r, i) ==
  /\ At(r, "idle") /\ held[i] # {}
  /\ Goto(r, [pc |-> "wipe", id |-> i])
  /\ Begin(i)
  /\ UNCHANGED <<student, file, embedding, born, held, stale>>

ResetEmbeddings(r) ==
  /\ At(r, "wipe")
  /\ embedding' = embedding \ Faces(req[r].id)
  /\ Goto(r, [req[r] EXCEPT !.pc = "sweep"])
  /\ UNCHANGED <<student, file, born, held, stale, state>>

ResetFiles(r) ==
  /\ At(r, "sweep")
  /\ file' = file \ Files(req[r].id)
  /\ Goto(r, [req[r] EXCEPT !.pc = "zero"])
  /\ UNCHANGED <<student, embedding, born, held, stale, state>>

\* Slip: the number of photos is not reset.
ResetPhotosNot(r) ==
  /\ At(r, "zero")
  /\ Goto(r, Idle)
  /\ UNCHANGED <<student, file, embedding, born, held, stale, state>>

ResetPhotos(r) ==
  /\ At(r, "zero")
  /\ student' = IF Exists(req[r].id)
                THEN [student EXCEPT ![req[r].id].photos = 0] ELSE student
  /\ state' = IF state[req[r].id] = "picked"
              THEN [state EXCEPT ![req[r].id] = "clean"] ELSE state
  /\ Goto(r, Idle)
  /\ UNCHANGED <<file, embedding, born, held, stale>>

-----------------------------------------------------------------------------
(* _delete_single_embedding: delete_own_face_photo, admin_delete_face_photo *)

PickRead(r, i) ==
  /\ At(r, "idle")
  /\ \E e \in Faces(i) :
       Goto(r, [pc |-> "unlink", id |-> i, key |-> e.key, number |-> e.number])
  /\ state' = IF Busy(i) \/ state[i] = "blurred" THEN [state EXCEPT ![i] = "blurred"]
              ELSE [state EXCEPT ![i] = "picked"]
  /\ UNCHANGED <<student, file, embedding, born, held, stale>>

PickUnlink(r) ==
  /\ At(r, "unlink")
  /\ file' = file \ {<<req[r].id, req[r].number>>}
  /\ Goto(r, [req[r] EXCEPT !.pc = "remove"])
  /\ UNCHANGED <<student, embedding, born, held, stale, state>>

\* The row goes; the count that follows is that of TallyRead.
PickRemove(r) ==
  /\ At(r, "remove")
  /\ embedding' = {e \in embedding : ~(e.key = req[r].key /\ e.id = req[r].id)}
  /\ Goto(r, [pc |-> "tally", id |-> req[r].id])
  /\ UNCHANGED <<student, file, born, held, stale, state>>

-----------------------------------------------------------------------------

\* A worker dies.
Abort(r) ==
  /\ ~At(r, "idle")
  /\ state' = [state EXCEPT ![req[r].id] = "blurred"]
  /\ Goto(r, Idle)
  /\ UNCHANGED <<student, file, embedding, born, held, stale>>

Handler(r) ==
  \/ \E i \in Id : Register(r, i)
  \/ RegisterUndo(r)
  \/ ListFiles(r) \/ SaveFile(r) \/ StoreEmbedding(r)
  \/ TallyRead(r) \/ PhotosWrite(r)
  \/ \E i \in Id, p \in Person : RegisterFace(r, i, p)
  \/ \E i \in Id : DeleteBegin(r, i) \/ ResetBegin(r, i) \/ PickRead(r, i)
  \/ DeleteFiles(r) \/ DeleteRow(r) \/ DeleteEmbeddings(r)
  \/ ResetEmbeddings(r) \/ ResetFiles(r) \/ ResetPhotos(r)
  \/ PickUnlink(r) \/ PickRemove(r)
  \/ Abort(r)

Next == (\E r \in Request : Handler(r)) \/ (\E i \in Id : Import(i))

Spec == Init /\ [][Next]_vars

-----------------------------------------------------------------------------
(* Properties *)

Quiet(i) == ~Busy(i)

\* Between requests, the photos of a student are numbered without a gap and each
\* has its embedding, unless one was deleted by itself (the next enrollment then
\* counts the files and overwrites one that is still in use), two requests met,
\* or one died.
EnrollmentConsistent ==
  \A i \in Id : state[i] = "clean" /\ Quiet(i) =>
    /\ Files(i) = {<<i, e.number>> : e \in Faces(i)}
    /\ {e.number : e \in Faces(i)} = 1..Cardinality(Faces(i))

\* photo_count is the number of embeddings also after photos were deleted one by one.
PhotoCountExplained ==
  \A i \in Id : Exists(i) /\ state[i] # "blurred" /\ Quiet(i)
                => student[i].photos = Cardinality(Faces(i))

\* The photos, the embeddings and the count of a student agree.
PhotosAgree == EnrollmentConsistent /\ PhotoCountExplained

\* A deleted student leaves no face that recognition could still find, unless
\* another request was at work on the student or one died.
NoFaceLeftBehind ==
  \A i \in Id : ~Exists(i) /\ state[i] # "blurred" /\ Quiet(i) => Faces(i) = {}

\* Recognition takes a face for another student's only if its owner had the id
\* before, and either the old cookie was used once more or the requests met.
FacesAreTheirs ==
  \A e \in embedding :
    Exists(e.id) /\ e.face # student[e.id].who =>
      /\ e.face \in held[e.id]
      /\ e.face \in stale \/ state[e.id] = "blurred"

\* Recognition finds the faces of the students there are, each for the right one.
GalleryIsRight == NoFaceLeftBehind /\ FacesAreTheirs
=============================================================================
