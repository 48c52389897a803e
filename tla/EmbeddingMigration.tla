---------------------------- MODULE EmbeddingMigration ----------------------------
(*******************************************************************************)
(* migrate_embeddings.py: an embedding for every face image of the old         *)
(* system, while the application saves and wipes faces.  An image is looked up *)
(* in the marker table, opened, its embedding stored in one commit and its     *)
(* name marked in another; a run may be killed between any two, started again, *)
(* or started twice.  Every image here is of a student of its own.             *)
(*******************************************************************************)
EXTENDS Integers

CONSTANTS
  Run,       \* runs of the script
  Last,      \* images User.<id>.<n>.jpg in the order of their names: 1..Last
  MaxEmb     \* bound: embeddings of one image

Image == 1..Last

VARIABLES
  file,       \* the images in Datasets
  emb,        \* face_embeddings: how many name each image
  marked,     \* migrated_embedding_sources
  run,        \* what each run of the script is doing
  saving,     \* images a registration has saved but not yet stored the embedding of
  wiping,     \* images whose embeddings are wiped, and the file not yet
  excused,    \* history: images the application saved, or that a run left half done,
              \* or that two runs had in hand
  wiped,      \* history: images that were ever wiped
  raced       \* history: images wiped while a run or a registration had them open

vars == <<file, emb, marked, run, saving, wiping, excused, wiped, raced>>
disk == <<file, emb, marked, saving, wiping>>
past == <<excused, wiped, raced>>

Idle == [pc |-> "idle"]
Work ==
  {Idle}
  \cup [pc : {"look", "open", "store", "mark"}, image : Image, list : SUBSET Image]

TypeOK ==
  /\ file \subseteq Image /\ emb \in [Image -> 0..MaxEmb] /\ marked \subseteq Image
  /\ run \in [Run -> Work] /\ saving \subseteq Image /\ wiping \subseteq Image
  /\ excused \subseteq Image /\ wiped \subseteq Image /\ raced \subseteq Image

\* The old system's images, none of which has an embedding.
Init ==
  /\ file \in SUBSET Image /\ emb = [i \in Image |-> 0] /\ marked = {}
  /\ run = [r \in Run |-> Idle] /\ saving = {} /\ wiping = {}
  /\ excused = {} /\ wiped = {} /\ raced = {}

At(r, step) == run[r].pc = step
On(r, i) == run[r].pc \in {"open", "store", "mark"} /\ run[r].image = i
Goto(r, work) == run' = [run EXCEPT ![r] = work]

\* The next image of the list, in the order of the names.
NextImage(r, list) ==
  Goto(r, IF list = {} THEN Idle
          ELSE LET i == CHOOSE i \in list : \A j \in list : i <= j
               IN  [pc |-> "look", image |-> i, list |-> list \ {i}])

-----------------------------------------------------------------------------
(* migrate_embeddings.main *)

\* os.listdir, once.
Start(r) ==
  /\ At(r, "idle")
  /\ NextImage(r, file)
  /\ UNCHANGED <<disk, past>>

\* Slip: the marker table is not asked.
LookNot(r) ==
  /\ At(r, "look")
  /\ Goto(r, [run[r] EXCEPT !.pc = "open"])
  /\ excused' = IF \E s \in Run \ {r} : On(s, run[r].image)
                THEN excused \cup {run[r].image} ELSE excused
  /\ UNCHANGED <<disk, wiped, raced>>

\* _already_migrated
Look(r) ==
  /\ At(r, "look")
  /\ IF run[r].image \in marked
     THEN NextImage(r, run[r].list) /\ UNCHANGED excused
     ELSE /\ Goto(r, [run[r] EXCEPT !.pc = "open"])
          /\ excused' = IF \E s \in Run \ {r} : On(s, run[r].image)
                        THEN excused \cup {run[r].image} ELSE excused
  /\ UNCHANGED <<disk, wiped, raced>>

\* Image.open and compute_embedding, either of which may fail.
Open(r) ==
  /\ At(r, "open")
  /\ \/ run[r].image \in file /\ Goto(r, [run[r] EXCEPT !.pc = "store"])
     \/ NextImage(r, run[r].list)
  /\ UNCHANGED <<disk, past>>

\* store_embedding, which may fail as well.
Store(r) ==
  /\ At(r, "store")
  /\ \/ /\ emb[run[r].image] < MaxEmb
        /\ emb' = [emb EXCEPT ![run[r].image] = @ + 1]
        /\ Goto(r, [run[r] EXCEPT !.pc = "mark"])
     \/ NextImage(r, run[r].list) /\ UNCHANGED emb
  /\ UNCHANGED <<file, marked, saving, wiping, past>>

\* _mark_migrated; if it fails, the run goes on with an image it has half done.
Mark(r) ==
  /\ At(r, "mark")
  /\ \/ marked' = marked \cup {run[r].image} /\ UNCHANGED excused
     \/ excused' = excused \cup {run[r].image} /\ UNCHANGED marked
  /\ NextImage(r, run[r].list)
  /\ UNCHANGED <<file, emb, saving, wiping, wiped, raced>>

Kill(r) ==
  /\ ~At(r, "idle")
  /\ excused' = IF At(r, "mark") THEN excused \cup {run[r].image} ELSE excused
  /\ Goto(r, Idle)
  /\ UNCHANGED <<disk, wiped, raced>>

-----------------------------------------------------------------------------
(* The application: save_face_images, and the handlers that wipe faces *)

SaveFile(i) ==
  /\ i \notin file \cup saving
  /\ file' = file \cup {i} /\ saving' = saving \cup {i}
  /\ excused' = excused \cup {i}
  /\ UNCHANGED <<emb, marked, run, wiping, wiped, raced>>

\* The embedding is stored, or the request dies before.
SaveEmbedding(i) ==
  /\ i \in saving
  /\ saving' = saving \ {i}
  /\ \/ emb[i] < MaxEmb /\ emb' = [emb EXCEPT ![i] = @ + 1]
     \/ emb' = emb
  /\ UNCHANGED <<file, marked, run, wiping, past>>

\* delete_student_embeddings, then _delete_student_face_files.
WipeEmbeddings(i) ==
  /\ wiping' = wiping \cup {i}
  /\ emb' = [emb EXCEPT ![i] = 0]
  /\ wiped' = wiped \cup {i}
  /\ raced' = IF i \in saving \/ \E r \in Run : At(r, "store") /\ On(r, i)
              THEN raced \cup {i} ELSE raced
  /\ UNCHANGED <<file, marked, run, saving, excused>>

\* A run or a registration that stored the embedding in between, or is about to,
\* met the wipe as well.
WipeFile(i) ==
  /\ i \in wiping
  /\ wiping' = wiping \ {i} /\ file' = file \ {i}
  /\ raced' = IF emb[i] > 0 \/ i \in saving \/ \E r \in Run : At(r, "store") /\ On(r, i)
              THEN raced \cup {i} ELSE raced
  /\ UNCHANGED <<emb, marked, run, saving, excused, wiped>>

WipeDies(i) ==
  /\ i \in wiping /\ wiping' = wiping \ {i}
  /\ UNCHANGED <<file, emb, marked, run, saving, past>>

Next ==
  \/ \E r \in Run : Start(r) \/ Look(r) \/ Open(r) \/ Store(r) \/ Mark(r) \/ Kill(r)
  \/ \E i \in Image : \/ SaveFile(i) \/ SaveEmbedding(i)
                      \/ WipeEmbeddings(i) \/ WipeFile(i) \/ WipeDies(i)

Spec == Init /\ [][Next]_vars

-----------------------------------------------------------------------------
(* Properties *)

\* "Running it twice won't create duplicate embedding rows": an image has two only
\* if the application had saved it (its own images are not marked), a run was killed
\* or failed between the two commits, or two runs had it in hand.
EmbeddedOnce == \A i \in Image : emb[i] > 1 => i \in excused

\* An image that is marked, and will be skipped forever, has its embedding, unless
\* its faces were wiped.
MarkedIsEmbedded == \A i \in marked : emb[i] > 0 \/ i \in wiped

\* An embedding outlives its image only if the image was wiped while a run or a
\* registration was about to store it, or had just done so.
EmbeddingHasImage == \A i \in Image : emb[i] > 0 => i \in file \cup raced
=============================================================================
