------------------------------ MODULE SchemaUpgrade ------------------------------
(******************************************************************************)
(* run_migrations: how a starting process brings the database to the latest   *)
(* revision.  Every gunicorn worker does it when it loads wsgi.py (nothing is *)
(* preloaded), and so do restore.py and the scripts, so several processes may *)
(* run it at once, and any may be killed.                                     *)
(*                                                                            *)
(* SQLite's DDL is committed statement by statement; only the revision number *)
(* at the end of a revision is a transaction of its own.  A statement that    *)
(* creates what exists already fails and takes the process with it.           *)
(******************************************************************************)
EXTENDS Integers, Sequences

CONSTANTS
  Process,  \* processes that start
  Chain,    \* the revisions: for each, the objects it creates, in order
  Stamp     \* the revision of a database older than Alembic

ASSUME ChainAssumption ==
  /\ Len(Chain) \in Nat /\ Stamp \in 1..Len(Chain)
  /\ \A k \in 1..Len(Chain) : Len(Chain[k]) \in Nat \ {0}

\* No statement creates what another one does.
ASSUME DistinctAssumption ==
  \A j, k \in 1..Len(Chain) : \A i \in 1..Len(Chain[j]), l \in 1..Len(Chain[k]) :
    Chain[j][i] = Chain[k][l] => j = k /\ i = l

Latest == Len(Chain)
Objects(k) == {Chain[k][i] : i \in 1..Len(Chain[k])}
Through(k) == UNION {Objects(j) : j \in 1..k}
Admins == Chain[1][1]

VARIABLES
  schema,     \* the objects of the database
  versioned,  \* the table alembic_version exists
  rev,        \* the revision it names, 0 if it is empty
  proc,       \* what each process is doing
  disturbed   \* history: a process was killed on its way, or two were on it at once

vars == <<schema, versioned, rev, proc, disturbed>>
database == <<schema, versioned, rev>>

Idle == [pc |-> "idle"]
Work ==
  {Idle, [pc |-> "failed"]}
  \cup [pc : {"ensure", "create", "read"}, stamp : BOOLEAN]
  \cup [pc : {"stamp"}, from : 0..Latest]
  \cup [pc : {"run"}, rev : 1..Latest, next : Nat \ {0}]

TypeOK ==
  /\ schema \subseteq Through(Latest)
  /\ versioned \in BOOLEAN /\ rev \in 0..Latest
  /\ proc \in [Process -> Work] /\ disturbed \in BOOLEAN

\* A new database, one older than Alembic, or one some older release left.
Init ==
  /\ \/ schema = {} /\ rev = 0 /\ versioned = FALSE
     \/ schema = Through(Stamp) /\ rev = 0 /\ versioned = FALSE
     \/ /\ rev \in 1..Latest /\ schema = Through(rev) /\ versioned = TRUE
  /\ proc = [p \in Process |-> Idle]
  /\ disturbed = FALSE

At(p, step) == proc[p].pc = step
Goto(p, work) == proc' = [proc EXCEPT ![p] = work]
Fail(p) == Goto(p, [pc |-> "failed"]) /\ UNCHANGED <<database, disturbed>>
Under(p) == proc[p].pc \notin {"idle", "failed"}

\* _existing_tables, by a process that starts, or starts again.
Look(p) ==
  /\ proc[p].pc \in {"idle", "failed"}
  /\ Goto(p, [pc |-> "ensure", stamp |-> ~versioned /\ Admins \in schema])
  /\ disturbed' = (disturbed \/ \E q \in Process \ {p} : Under(q))
  /\ UNCHANGED database

\* stamp and upgrade both begin by looking for alembic_version ...
EnsureRead(p) ==
  /\ At(p, "ensure")
  /\ Goto(p, [pc |-> IF versioned THEN "read" ELSE "create", stamp |-> proc[p].stamp])
  /\ UNCHANGED <<database, disturbed>>

\* ... and creating it, empty.
EnsureCreate(p) ==
  /\ At(p, "create")
  /\ IF versioned THEN Fail(p)
     ELSE /\ versioned' = TRUE
          /\ Goto(p, [pc |-> "read", stamp |-> proc[p].stamp])
          /\ UNCHANGED <<schema, rev, disturbed>>

\* Slip: the first revision of a database with tables is not left out.
UpgradeReadAgain(p) ==
  /\ At(p, "read") /\ ~proc[p].stamp
  /\ Goto(p, IF rev = Latest THEN Idle ELSE [pc |-> "run", rev |-> 1, next |-> 1])
  /\ UNCHANGED <<database, disturbed>>

\* The revision is read once; the plan is made of those after it.
UpgradeRead(p) ==
  /\ At(p, "read") /\ ~proc[p].stamp
  /\ Goto(p, IF rev = Latest THEN Idle
             ELSE [pc |-> "run", rev |-> rev + 1, next |-> 1])
  /\ UNCHANGED <<database, disturbed>>

StampRead(p) ==
  /\ At(p, "read") /\ proc[p].stamp
  /\ Goto(p, [pc |-> "stamp", from |-> rev])
  /\ UNCHANGED <<database, disturbed>>

\* The stamp replaces the revision that was read, a later one as well.
StampWrite(p) ==
  /\ At(p, "stamp")
  /\ IF rev # proc[p].from THEN Fail(p)
     ELSE /\ rev' = Stamp
          /\ Goto(p, [pc |-> "ensure", stamp |-> FALSE])
          /\ UNCHANGED <<schema, versioned, disturbed>>

\* One statement of a revision.
Statement(p) ==
  /\ At(p, "run") /\ proc[p].next <= Len(Chain[proc[p].rev])
  /\ LET object == Chain[proc[p].rev][proc[p].next]
     IN  IF object \in schema THEN Fail(p)
         ELSE /\ schema' = schema \cup {object}
              /\ Goto(p, [pc |-> "run", rev |-> proc[p].rev, next |-> proc[p].next + 1])
              /\ UNCHANGED <<versioned, rev, disturbed>>

\* Slip: the revision is recorded before its last statement is run.
RecordEarly(p) ==
  /\ At(p, "run") /\ proc[p].next = Len(Chain[proc[p].rev])
  /\ IF rev # proc[p].rev - 1 THEN Fail(p)
     ELSE /\ rev' = proc[p].rev
          /\ Goto(p, IF proc[p].rev = Latest THEN Idle
                     ELSE [pc |-> "run", rev |-> proc[p].rev + 1, next |-> 1])
          /\ UNCHANGED <<schema, versioned, disturbed>>

\* UPDATE alembic_version SET version_num WHERE version_num is the one before.
Record(p) ==
  /\ At(p, "run") /\ proc[p].next = Len(Chain[proc[p].rev]) + 1
  /\ IF rev # proc[p].rev - 1 THEN Fail(p)
     ELSE /\ rev' = proc[p].rev
          /\ Goto(p, IF proc[p].rev = Latest THEN Idle
                     ELSE [pc |-> "run", rev |-> proc[p].rev + 1, next |-> 1])
          /\ UNCHANGED <<schema, versioned, disturbed>>

Kill(p) ==
  /\ Under(p)
  /\ disturbed' = TRUE
  /\ Goto(p, Idle)
  /\ UNCHANGED database

Next ==
  \E p \in Process :
    \/ Look(p) \/ EnsureRead(p) \/ EnsureCreate(p) \/ UpgradeRead(p)
    \/ StampRead(p) \/ StampWrite(p) \/ Statement(p) \/ Record(p) \/ Kill(p)

Spec == Init /\ [][Next]_vars

-----------------------------------------------------------------------------
(* Properties *)

\* The revision a database names is never ahead of its schema, whoever started at
\* once and wherever they were killed.
RevisionIsTrue == Through(rev) \subseteq schema

\* "an idempotent upgrade head": a process fails, and a database is left between two
\* revisions, only after one was killed or two were at it together.
FailureExplained ==
  ~disturbed => /\ \A p \in Process : ~At(p, "failed")
                /\ rev # 0 /\ (\A p \in Process : ~Under(p)) => schema = Through(rev)

\* The stamp is for databases "created by an older version of this app" and marks
\* "exactly the history it actually has, no more": a process that decided on it
\* finds the schema of that revision.
StampIsDue ==
  \A p \in Process :
    \/ At(p, "stamp")
    \/ proc[p].pc \in {"ensure", "create", "read"} /\ proc[p].stamp
    => Through(Stamp) \subseteq schema
=============================================================================
