------------------------------- MODULE BackupRestore -------------------------------
(***************************************************************************************)
(* backup.py and restore.py over the files they copy: the database app.db              *)
(* and the face images in Datasets.  (FaceBase.db, which nothing reads, and            *)
(* the manifest are left out; run_migrations is in SchemaUpgrade.)                     *)
(*                                                                                     *)
(* A backup runs while the application works; it may fail or be killed, and            *)
(* two may run at once.  A restore moves what it replaces aside, piece by piece, while *)
(* the application is down; it may be killed and started again.  Archives and          *)
(* the files moved aside are named by the second.                                      *)
(***************************************************************************************)
EXTENDS Integers, FiniteSets

CONSTANTS
  Backup,    \* runs of backup.py
  Face,      \* faces students enroll, each with one image and one embedding
  Keep,      \* BACKUP_RETENTION_COUNT, 0: keep all
  MaxClock,  \* bound: seconds
  MaxRestore \* bound: restores started

Second == 1..MaxClock

VARIABLES
  clock,
  db,        \* app.db: the faces with an embedding, or that it is not there
  images,    \* Datasets: the faces with an image, or that it is not there
  archive,   \* BACKUP_DIR, by the second in the name
  aside,     \* what was moved aside, by the second in the name
  bak,       \* what each run of backup.py is doing
  res,       \* what restore.py is doing
  begun,     \* restores started
  half,      \* faces whose image is saved, and the embedding not yet
  kept,      \* history: faces enrolled and never deleted
  torn,      \* history: faces deleted while a backup was between database and images
  crowded,   \* history: two backups ran at once, or in one second
  hurried,   \* history: a restore moved something aside twice in one second
  proven,    \* history: a backup completed
  mixed      \* history: a restore died, left the images out, took the archive of a
             \* backup that had failed, or met a backup

vars == <<clock, db, images, archive, aside, bak, res, begun, half,
          kept, torn, crowded, hurried, proven, mixed>>
live == <<db, images, half>>
past == <<kept, torn, crowded, hurried, proven, mixed>>

Gone == {"gone"}   \* a file that is not there
Faces == (SUBSET Face) \cup {Gone}
NoFiles == [db |-> Gone, images |-> Gone]
Copy == [db : SUBSET Face, images : Faces]

\* An archive that was closed; cut (history): by a failure, before all was in it.
Tar == [db : Faces, images : Faces, cut : BOOLEAN]
NoArchive == [db |-> {"none"}, images |-> Gone, cut |-> FALSE]
\* It is being written, or its writer stopped where no restore can use it.
Part == [db |-> {"part"}, images |-> Gone, cut |-> FALSE]

Idle == [pc |-> "idle"]
BackupWork ==
  {Idle}
  \cup [pc : {"images"}, name : Second, skip : BOOLEAN, db : Faces]
  \cup {[pc |-> "retain"]}
RestoreWork ==
  {Idle} \cup [pc : {"db aside", "db", "images aside", "images"}, from : Copy]

TypeOK ==
  /\ clock \in Second /\ db \in Faces /\ images \in Faces
  /\ archive \in [Second -> Tar \cup {Part, NoArchive}]
  /\ aside \in [Second -> [db : Faces, images : Faces]]
  /\ bak \in [Backup -> BackupWork] /\ res \in RestoreWork /\ begun \in 0..MaxRestore
  /\ half \subseteq Face /\ kept \subseteq Face /\ torn \subseteq Face
  /\ crowded \in BOOLEAN /\ hurried \in BOOLEAN /\ proven \in BOOLEAN /\ mixed \in BOOLEAN

Init ==
  /\ clock = 1 /\ db = {} /\ images = {}
  /\ archive = [s \in Second |-> NoArchive]
  /\ aside = [s \in Second |-> NoFiles]
  /\ bak = [b \in Backup |-> Idle] /\ res = Idle /\ begun = 0 /\ half = {}
  /\ kept = {} /\ torn = {}
  /\ crowded = FALSE /\ hurried = FALSE /\ proven = FALSE /\ mixed = FALSE

Tick ==
  /\ clock < MaxClock /\ clock' = clock + 1
  /\ UNCHANGED <<live, archive, aside, bak, res, begun, past>>

-----------------------------------------------------------------------------
(* The application, which is down while a restore runs *)

Up == res = Idle /\ db # Gone /\ images # Gone

\* save_face_images: the image first, then the embedding.
SaveImage(f) ==
  /\ Up /\ f \notin images \cup db
  /\ images' = images \cup {f} /\ half' = half \cup {f}
  /\ UNCHANGED <<clock, db, archive, aside, bak, res, begun, past>>

StoreEmbedding(f) ==
  /\ Up /\ f \in half
  /\ db' = db \cup {f} /\ half' = half \ {f} /\ kept' = kept \cup {f}
  /\ UNCHANGED <<clock, images, archive, aside, bak, res, begun, torn, crowded, hurried, proven, mixed>>

\* A student is deleted, or resets the face: the embedding, then the image.
DeleteFace(f) ==
  /\ Up /\ f \in db
  /\ db' = db \ {f} /\ images' = images \ {f} /\ kept' = kept \ {f}
  /\ torn' = IF \E b \in Backup : bak[b].pc = "images" THEN torn \cup {f} ELSE torn
  /\ UNCHANGED <<clock, half, archive, aside, bak, res, begun, crowded, hurried, proven, mixed>>

\* wsgi.py: init_databases makes what is missing.
Startup ==
  /\ res = Idle /\ ~Up
  /\ db' = (IF db = Gone THEN {} ELSE db) /\ images' = (IF images = Gone THEN {} ELSE images)
  /\ UNCHANGED <<clock, half, archive, aside, bak, res, begun, past>>

-----------------------------------------------------------------------------
(* create_backup *)

\* The name, and the snapshot of the database (sqlite3's backup API).  That there is
\* no database is only logged.
SnapshotDatabase(b) ==
  /\ bak[b] = Idle
  /\ \E skip \in BOOLEAN :
       bak' = [bak EXCEPT ![b] = [pc |-> "images", name |-> clock,
                                  skip |-> skip \/ images = Gone, db |-> db]]
  /\ crowded' = (crowded \/ archive[clock] # NoArchive \/ \E c \in Backup : bak[c] # Idle)
  /\ mixed' = (mixed \/ res # Idle)
  /\ UNCHANGED <<clock, live, archive, aside, res, begun, kept, torn, hurried, proven>>

\* The archive is opened under its final name.
OpenArchive(b) ==
  /\ bak[b].pc = "images" /\ archive[bak[b].name] # Part
  /\ archive' = [archive EXCEPT ![bak[b].name] = Part]
  /\ UNCHANGED <<clock, live, aside, bak, res, begun, past>>

\* The images are added as they are now, and the archive is closed.
WriteArchive(b) ==
  /\ bak[b].pc = "images" /\ archive[bak[b].name] = Part
  /\ bak[b].skip \/ images # Gone
  /\ archive' = [archive EXCEPT ![bak[b].name] =
                   [db |-> bak[b].db, images |-> IF bak[b].skip THEN Gone ELSE images,
                    cut |-> FALSE]]
  /\ bak' = [bak EXCEPT ![b] = [pc |-> "retain"]]
  /\ proven' = TRUE
  /\ UNCHANGED <<clock, live, aside, res, begun, kept, torn, crowded, hurried, mixed>>

\* With the database in it, an image cannot be added (it was deleted since the listing,
\* Datasets was moved aside): the archive is closed with what it has, and the retention
\* is not reached.
FailArchive(b) ==
  /\ bak[b].pc = "images" /\ archive[bak[b].name] = Part /\ bak[b].db # Gone
  /\ \E got \in Faces :
       /\ got # Gone => ~bak[b].skip /\ images # Gone /\ got \subseteq images
       /\ archive' = [archive EXCEPT ![bak[b].name] =
                        [db |-> bak[b].db, images |-> got, cut |-> TRUE]]
  /\ bak' = [bak EXCEPT ![b] = Idle]
  /\ UNCHANGED <<clock, live, aside, res, begun, past>>

Archives == {s \in Second : archive[s] # NoArchive}
Newer(s) == {t \in Archives : t > s}

\* Slip: the oldest archives are kept.
RetainOldest(b) ==
  /\ bak[b].pc = "retain"
  /\ archive' = [s \in Second |->
       IF Keep > 0 /\ s \in Archives /\ Cardinality({t \in Archives : t < s}) >= Keep
       THEN NoArchive ELSE archive[s]]
  /\ bak' = [bak EXCEPT ![b] = Idle]
  /\ UNCHANGED <<clock, live, aside, res, begun, past>>

\* _apply_retention: archives go by their names, whatever is in them.
Retain(b) ==
  /\ bak[b].pc = "retain"
  /\ archive' = [s \in Second |->
       IF Keep > 0 /\ s \in Archives /\ Cardinality(Newer(s)) >= Keep
       THEN NoArchive ELSE archive[s]]
  /\ bak' = [bak EXCEPT ![b] = Idle]
  /\ UNCHANGED <<clock, live, aside, res, begun, past>>

\* It is killed, or fails before the database is in the archive or within a member.
KillBackup(b) ==
  /\ bak[b] # Idle
  /\ bak' = [bak EXCEPT ![b] = Idle]
  /\ UNCHANGED <<clock, live, archive, aside, res, begun, past>>

-----------------------------------------------------------------------------
(* restore_backup.  It refuses to start over existing data without --force, *)
(* and from an archive that cannot be unpacked or has no database.  It does *)
(* not see that an archive was closed early.                                *)

Closed(s) == archive[s] \notin {Part, NoArchive}
Restorable(s) == Closed(s) /\ archive[s].db # Gone

RestoreBegin(s) ==
  /\ res = Idle /\ begun < MaxRestore /\ Restorable(s)
  /\ \E skip \in BOOLEAN :
       LET from == [db |-> archive[s].db, images |-> IF skip THEN Gone ELSE archive[s].images]
       IN  /\ res' = [pc |-> "db aside", from |-> from]
           /\ mixed' = (mixed \/ from.images = Gone \/ archive[s].cut
                              \/ \E b \in Backup : bak[b].pc = "images")
  /\ half' = {} /\ begun' = begun + 1
  /\ UNCHANGED <<clock, db, images, archive, aside, bak, kept, torn, crowded, hurried, proven>>

\* _move_aside: a rename, over a file of that name.
DatabaseAside ==
  /\ res.pc = "db aside"
  /\ IF db = Gone THEN UNCHANGED <<db, aside, hurried>>
     ELSE /\ aside' = [aside EXCEPT ![clock].db = db]
          /\ db' = Gone
          /\ hurried' = (hurried \/ aside[clock].db # Gone)
  /\ res' = [res EXCEPT !.pc = "db"]
  /\ UNCHANGED <<clock, images, half, archive, begun, bak, kept, torn, crowded, proven, mixed>>

DatabaseIn ==
  /\ res.pc = "db"
  /\ db' = res.from.db
  /\ res' = IF res.from.images = Gone THEN Idle ELSE [res EXCEPT !.pc = "images aside"]
  /\ UNCHANGED <<clock, images, half, archive, aside, begun, bak, past>>

\* A directory of that name takes this one in.
ImagesAside ==
  /\ res.pc = "images aside"
  /\ IF images = Gone THEN UNCHANGED <<images, aside>>
     ELSE /\ aside' = [aside EXCEPT ![clock].images =
                         IF @ = Gone THEN images ELSE @ \cup images]
          /\ images' = Gone
  /\ res' = [res EXCEPT !.pc = "images"]
  /\ UNCHANGED <<clock, db, half, archive, begun, bak, past>>

ImagesIn ==
  /\ res.pc = "images"
  /\ images' = res.from.images
  /\ res' = Idle
  /\ UNCHANGED <<clock, db, half, archive, aside, begun, bak, past>>

KillRestore ==
  /\ res # Idle
  /\ res' = Idle /\ mixed' = TRUE
  /\ UNCHANGED <<clock, live, archive, aside, begun, bak, kept, torn, crowded, hurried, proven>>

Next ==
  \/ Tick \/ Startup
  \/ \E f \in Face : SaveImage(f) \/ StoreEmbedding(f) \/ DeleteFace(f)
  \/ \E b \in Backup : \/ SnapshotDatabase(b) \/ OpenArchive(b) \/ WriteArchive(b)
                        \/ FailArchive(b) \/ Retain(b) \/ KillBackup(b)
  \/ \E s \in Second : RestoreBegin(s)
  \/ DatabaseAside \/ DatabaseIn \/ ImagesAside \/ ImagesIn \/ KillRestore

Spec == Init /\ [][Next]_vars

-----------------------------------------------------------------------------
(* Properties *)

Complete(s) == Closed(s) /\ ~archive[s].cut

\* The archive of a backup that completed has, if it has images, the image of every
\* embedding in it: the database is copied first and the application saves the image
\* first.  Only a face deleted in between, a restore at the same time, or one that left
\* the live files apart breaks that.
ArchivedFaceHasImage ==
  \A s \in Second :
    LET a == archive[s]
    IN  ~mixed /\ Complete(s) /\ a.images # Gone => a.db \ a.images \subseteq torn

\* Once a backup has completed, the archive of one that did is kept: backups that were
\* killed or failed never push the last one out, although their archives count for the
\* retention; two backups at once, or in one second, may.  It can be restored, or else
\* it was made while there was no database (a restore was killed between moving aside
\* and moving in), which is only logged: that archive may have pushed out the others.
SomeGoodArchive ==
  proven /\ Keep > 0 /\ ~crowded =>
    \/ \E s \in Second : Complete(s) /\ Restorable(s)
    \/ \E s \in Second : Complete(s) /\ archive[s].db = Gone

\* "Existing data isn't deleted": what students enrolled is live or was moved aside,
\* wherever restores were killed, unless one moved the database aside twice in a
\* second.
NothingLost ==
  ~hurried =>
    /\ kept \subseteq db \cup UNION {aside[s].db : s \in Second}
    /\ kept \subseteq images \cup UNION {aside[s].images : s \in Second}

\* After restores that completed, images included, from archives of backups that did,
\* every embedding has its image, up to faces the archive was torn on.
RestoredFaceHasImage ==
  Up /\ ~mixed => db \ images \subseteq torn
=============================================================================
