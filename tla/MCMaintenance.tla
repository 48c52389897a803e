----------------------------- MODULE MCMaintenance -----------------------------
(* Four stories, chosen at the start: several backups, a backup and restores, the  *)
(* migration of embeddings, the upgrade of the schema.  Outside its story a module *)
(* stays in its initial state.                                                     *)
EXTENDS SchemaUpgrade, Revisions, TLC

CONSTANTS Face, Keep, MaxClock, MaxRestore, Last, MaxEmb

ASSUME FaceAssumption == {"gone", "part", "none"} \cap Face = {}
ASSUME KeepAssumption == Keep \in Nat
ASSUME BoundAssumption ==
  MaxClock \in Nat \ {0} /\ MaxRestore \in Nat /\ Last \in Nat /\ MaxEmb \in Nat

VARIABLES
  story,
  clock, db, images, archive, aside, bak, res, begun, half,
  kept, torn, crowded, hurried, proven, mixed,
  file, emb, marked, run, saving, wiping, excused, wiped, raced

files ==
  <<clock, db, images, archive, aside, bak, res, begun, half,
    kept, torn, crowded, hurried, proven, mixed>>
faces == <<file, emb, marked, run, saving, wiping, excused, wiped, raced>>

Files == INSTANCE BackupRestore WITH Backup <- Process
Faces == INSTANCE EmbeddingMigration WITH Run <- Process

MCInit ==
  /\ story \in {"backups", "restores", "faces", "schema"}
  /\ Init /\ Files!Init /\ Faces!Init
  /\ story # "faces" => file = {}
  /\ story # "schema" => rev = 0 /\ schema = {}

\* A backup leaves images out only if there are none; once two met or fell into one
\* second, the clock stands.
Modest ==
  /\ \A b \in Process :
       bak[b] = Files!Idle /\ bak'[b] # Files!Idle /\ bak'[b].skip => images = Files!Gone
  /\ crowded => UNCHANGED clock

\* Where restores are the story, backups come one at a time, and once two fell into one
\* second, or two restores did, no more is archived and no restore begins.
Aside ==
  /\ clock' < MaxClock
  /\ \A b, c \in Process : bak'[b] # Files!Idle /\ bak'[c] # Files!Idle => b = c
  /\ crowded' \/ hurried' => UNCHANGED <<archive, begun>>

MCNext ==
  /\ story' = story
  /\ \/ /\ story = "backups" /\ Files!Next /\ Modest /\ begun' = 0
        /\ UNCHANGED <<faces, vars>>
     \/ /\ story = "restores" /\ Files!Next /\ Modest /\ Aside
        /\ UNCHANGED <<faces, vars>>
     \/ story = "faces" /\ Faces!Next /\ UNCHANGED <<files, vars>>
     \/ story = "schema" /\ Next /\ UNCHANGED <<files, faces>>

MCSpec == MCInit /\ [][MCNext]_<<story, files, faces, vars>>

Symmetry == Permutations(Process)

(* Of BackupRestore, with its types: an archive has the images of its embeddings, that *)
(* of a completed backup outlives every retention, and what students enrolled is live  *)
(* or was moved aside, with its images after a restore.                                *)
BackupsRestore ==
  /\ Files!TypeOK /\ Files!ArchivedFaceHasImage /\ Files!SomeGoodArchive
  /\ Files!NothingLost /\ Files!RestoredFaceHasImage

(* Of EmbeddingMigration, with its types: an image is embedded once, is embedded if it *)
(* is marked, and is there if it is embedded.                                          *)
EmbeddingsMigrate ==
  story = "faces" =>
    /\ Faces!TypeOK /\ Faces!EmbeddedOnce
    /\ Faces!MarkedIsEmbedded /\ Faces!EmbeddingHasImage
=============================================================================
