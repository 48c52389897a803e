-------------------------- MODULE SchemaUpgradeProofs --------------------------
(***************************************************************************)
(* Proofs about what maintenance runs.  SchemaUpgrade: for any number of   *)
(* processes and any chain of revisions in which no statement creates what *)
(* another one does.  EmbeddingMigration and BackupRestore: for any number *)
(* of runs, images and faces, and any retention.                           *)
(***************************************************************************)
EXTENDS MCMaintenance, WellFoundedInduction, FiniteSetTheorems, TLAPS

-----------------------------------------------------------------------------
(* The objects of a chain. *)

LEMMA ThroughIs ==
  ASSUME NEW k \in 0..Latest, NEW x
  PROVE  x \in Through(k) <=> \E j \in 1..k : \E i \in 1..Len(Chain[j]) : x = Chain[j][i]
BY DEF Through, Objects

LEMMA ThroughZero == Through(0) = {}
BY DEF Through

LEMMA ThroughMore ==
  ASSUME NEW j \in 0..Latest, NEW k \in 0..Latest, j <= k
  PROVE  Through(j) \subseteq Through(k)
<1>1. 1..j \subseteq 1..k
  BY ChainAssumption DEF Latest
<1>2. QED
  BY <1>1 DEF Through

LEMMA ThroughNext ==
  ASSUME NEW k \in 1..Latest
  PROVE  Through(k) = Through(k - 1) \cup Objects(k)
<1>1. 1..k = (1..(k - 1)) \cup {k}
  BY ChainAssumption DEF Latest
<1>2. QED
  BY <1>1 DEF Through

\* No statement creates what an earlier one of the chain does.
LEMMA NewObject ==
  ASSUME NEW k \in 1..Latest, NEW n \in 1..Len(Chain[k])
  PROVE  /\ Chain[k][n] \notin Through(k - 1)
         /\ \A i \in 1..(n - 1) : Chain[k][n] # Chain[k][i]
<1>1. k \in 1..Len(Chain) /\ Len(Chain[k]) \in Nat /\ k - 1 \in 0..Latest
  BY ChainAssumption DEF Latest
<1>2. ASSUME NEW j \in 1..(k - 1), NEW i \in 1..Len(Chain[j]) PROVE Chain[k][n] # Chain[j][i]
  <2>1. j \in 1..Len(Chain) /\ j # k
    BY <1>1
  <2>2. QED
    BY <1>1, <2>1, DistinctAssumption, Zenon
<1>3. ASSUME NEW i \in 1..(n - 1) PROVE Chain[k][n] # Chain[k][i]
  <2>1. i \in 1..Len(Chain[k]) /\ i # n
    BY <1>1
  <2>2. QED
    BY <1>1, <2>1, DistinctAssumption, Zenon
<1>4. Chain[k][n] \notin Through(k - 1)
  <2>1. Chain[k][n] \in Through(k - 1) <=>
          \E j \in 1..(k - 1) : \E i \in 1..Len(Chain[j]) : Chain[k][n] = Chain[j][i]
    BY <1>1, ThroughIs
  <2>2. QED
    BY <1>2, <2>1, Zenon
<1>5. QED
  BY <1>3, <1>4

LEMMA AdminsStamped == Admins \in Through(Stamp)
<1>1. 1 \in 1..Stamp /\ 1 \in 1..Len(Chain[1])
  BY ChainAssumption
<1>2. QED
  BY <1>1 DEF Admins, Through, Objects

-----------------------------------------------------------------------------
(* Type correctness. *)

LEMMA GotoType ==
  ASSUME TypeOK, NEW p \in Process, NEW work \in Work, Goto(p, work)
  PROVE  proc' \in [Process -> Work]
BY DEF TypeOK, Goto

LEMMA WorkAt ==
  ASSUME TypeOK, NEW p \in Process
  PROVE  /\ proc[p].pc \in {"ensure", "create", "read"} => proc[p].stamp \in BOOLEAN
         /\ At(p, "stamp") => proc[p].from \in 0..Latest
         /\ At(p, "run") => proc[p].rev \in 1..Latest /\ proc[p].next \in Nat \ {0}
<1>1. proc[p] \in Work
  BY DEF TypeOK
<1>2. CASE proc[p] \in [pc : {"ensure", "create", "read"}, stamp : BOOLEAN]
  BY <1>2 DEF At
<1>3. CASE proc[p] \in [pc : {"stamp"}, from : 0..Latest]
  BY <1>3 DEF At
<1>4. CASE proc[p] \in [pc : {"run"}, rev : 1..Latest, next : Nat \ {0}]
  BY <1>4 DEF At
<1>5. CASE proc[p].pc \in {"idle", "failed"}
  BY <1>5 DEF At
<1>6. QED
  BY <1>1, <1>2, <1>3, <1>4, <1>5 DEF Work, Idle

LEMMA WorkKinds ==
  /\ Idle \in Work /\ [pc |-> "failed"] \in Work
  /\ \A step \in {"ensure", "create", "read"}, b \in BOOLEAN :
       [pc |-> step, stamp |-> b] \in Work
  /\ \A n \in 0..Latest : [pc |-> "stamp", from |-> n] \in Work
  /\ \A k \in 1..Latest, n \in Nat \ {0} : [pc |-> "run", rev |-> k, next |-> n] \in Work
BY DEF Work

LEMMA StatementObject ==
  ASSUME TypeOK, NEW p \in Process, Statement(p)
  PROVE  Chain[proc[p].rev][proc[p].next] \in Through(Latest)
<1> DEFINE k == proc[p].rev
           n == proc[p].next
<1>1. k \in 1..Latest /\ n \in 1..Len(Chain[k])
  BY WorkAt, ChainAssumption DEF Statement, Latest
<1>2. QED
  BY <1>1 DEF Through, Objects

LEMMA InitType == Init => TypeOK
<1> SUFFICES ASSUME Init PROVE TypeOK
  OBVIOUS
<1>1. Stamp \in 0..Latest /\ Latest \in 0..Latest
  BY ChainAssumption DEF Latest
<1>2. schema \subseteq Through(Latest)
  <2>1. CASE schema = {}
    BY <2>1
  <2>2. CASE schema = Through(Stamp)
    BY <1>1, <2>2, ThroughMore DEF Latest
  <2>3. CASE rev \in 1..Latest /\ schema = Through(rev)
    BY <1>1, <2>3, ThroughMore, ChainAssumption DEF Latest
  <2>4. QED
    BY <2>1, <2>2, <2>3 DEF Init
<1>3. rev \in 0..Latest
  BY <1>1 DEF Init
<1>4. versioned \in BOOLEAN /\ disturbed \in BOOLEAN
  BY Zenon DEF Init
<1>5. proc \in [Process -> Work]
  BY WorkKinds DEF Init
<1>6. QED
  BY <1>2, <1>3, <1>4, <1>5 DEF TypeOK

LEMMA FailType ==
  ASSUME TypeOK, NEW p \in Process, Fail(p)
  PROVE  TypeOK'
BY GotoType, WorkKinds DEF Fail, database, TypeOK

LEMMA StepType ==
  ASSUME TypeOK, NEW p \in Process,
         \/ Look(p) \/ EnsureRead(p) \/ EnsureCreate(p) \/ UpgradeRead(p)
         \/ StampRead(p) \/ StampWrite(p) \/ Statement(p) \/ Record(p) \/ Kill(p)
  PROVE  TypeOK'
<1>1. CASE Look(p)
  <2>1. (~versioned /\ Admins \in schema) \in BOOLEAN
    BY Zenon
  <2>2. proc' \in [Process -> Work]
    BY <1>1, <2>1, GotoType, WorkKinds DEF Look
  <2>3. disturbed' \in BOOLEAN
    BY <1>1, Zenon DEF Look, TypeOK
  <2>4. QED
    BY <1>1, <2>2, <2>3 DEF Look, database, TypeOK
<1>2. CASE EnsureRead(p)
  <2>1. proc' \in [Process -> Work]
    BY <1>2, GotoType, WorkKinds, WorkAt DEF EnsureRead, At
  <2>2. QED
    BY <1>2, <2>1 DEF EnsureRead, database, TypeOK
<1>3. CASE EnsureCreate(p)
  <2>1. CASE versioned
    BY <1>3, <2>1, FailType DEF EnsureCreate
  <2>2. CASE ~versioned
    <3>1. proc' \in [Process -> Work]
      BY <1>3, <2>2, GotoType, WorkKinds, WorkAt DEF EnsureCreate, At
    <3>2. versioned' \in BOOLEAN
      BY <1>3, <2>2, Zenon DEF EnsureCreate
    <3>3. QED
      BY <1>3, <2>2, <3>1, <3>2 DEF EnsureCreate, TypeOK
  <2>3. QED
    BY <2>1, <2>2
<1>4. CASE UpgradeRead(p)
  <2>1. CASE rev = Latest
    BY <1>4, <2>1, GotoType, WorkKinds DEF UpgradeRead, database, TypeOK
  <2>2. CASE rev # Latest
    <3>1. rev + 1 \in 1..Latest
      BY <2>2, ChainAssumption DEF TypeOK, Latest
    <3>2. proc' \in [Process -> Work]
      BY <1>4, <2>2, <3>1, GotoType, WorkKinds DEF UpgradeRead
    <3>3. QED
      BY <1>4, <3>2 DEF UpgradeRead, database, TypeOK
  <2>3. QED
    BY <2>1, <2>2
<1>5. CASE StampRead(p)
  <2>1. proc' \in [Process -> Work]
    BY <1>5, GotoType, WorkKinds DEF StampRead, TypeOK
  <2>2. QED
    BY <1>5, <2>1 DEF StampRead, database, TypeOK
<1>6. CASE StampWrite(p)
  <2>1. CASE rev # proc[p].from
    BY <1>6, <2>1, FailType DEF StampWrite
  <2>2. CASE rev = proc[p].from
    <3>1. proc' \in [Process -> Work]
      BY <1>6, <2>2, GotoType, WorkKinds DEF StampWrite
    <3>2. rev' \in 0..Latest
      BY <1>6, <2>2, ChainAssumption DEF StampWrite, Latest
    <3>3. QED
      BY <1>6, <2>2, <3>1, <3>2 DEF StampWrite, TypeOK
  <2>3. QED
    BY <2>1, <2>2
<1>7. CASE Statement(p)
  <2> DEFINE k == proc[p].rev
             n == proc[p].next
  <2>1. k \in 1..Latest /\ n \in Nat \ {0}
    BY <1>7, WorkAt DEF Statement
  <2>2. CASE Chain[k][n] \in schema
    BY <1>7, <2>2, FailType DEF Statement
  <2>3. CASE Chain[k][n] \notin schema
    <3>1. proc' \in [Process -> Work]
      BY <1>7, <2>1, <2>3, GotoType, WorkKinds DEF Statement
    <3>2. QED
      BY <1>7, <2>3, <3>1, StatementObject DEF Statement, TypeOK
  <2>4. QED
    BY <2>2, <2>3
<1>8. CASE Record(p)
  <2>1. proc[p].rev \in 1..Latest
    BY <1>8, WorkAt DEF Record
  <2>2. CASE rev # proc[p].rev - 1
    BY <1>8, <2>2, FailType DEF Record
  <2>3. CASE rev = proc[p].rev - 1
    <3>1. rev' \in 0..Latest
      BY <1>8, <2>1, <2>3, ChainAssumption DEF Record, Latest
    <3>2. CASE proc[p].rev = Latest
      BY <1>8, <2>3, <3>1, <3>2, GotoType, WorkKinds DEF Record, TypeOK
    <3>3. CASE proc[p].rev # Latest
      <4>1. proc[p].rev + 1 \in 1..Latest
        BY <2>1, <3>3, ChainAssumption DEF Latest
      <4>2. proc' \in [Process -> Work]
        BY <1>8, <2>3, <3>3, <4>1, GotoType, WorkKinds DEF Record
      <4>3. QED
        BY <1>8, <2>3, <3>1, <4>2 DEF Record, TypeOK
    <3>4. QED
      BY <3>2, <3>3
  <2>4. QED
    BY <2>2, <2>3
<1>9. CASE Kill(p)
  <2>1. disturbed' \in BOOLEAN
    BY <1>9, Zenon DEF Kill
  <2>2. QED
    BY <1>9, <2>1, GotoType, WorkKinds DEF Kill, database, TypeOK
<1>10. QED
  BY <1>1, <1>2, <1>3, <1>4, <1>5, <1>6, <1>7, <1>8, <1>9

LEMMA NextType == TypeOK /\ [Next]_vars => TypeOK'
<1>1. ASSUME TypeOK, UNCHANGED vars PROVE TypeOK'
  BY <1>1 DEF vars, TypeOK
<1>2. QED
  BY <1>1, StepType DEF Next

\* The schema, the version table and every process keep their types.
THEOREM SchemaTypeCorrect == Spec => []TypeOK
BY InitType, NextType, PTL DEF Spec

-----------------------------------------------------------------------------
(* What is there, whoever meets and dies. *)

\* The revisions a process found made, and its own statements so far, are made.
RunsOn(p) ==
  At(p, "run") =>
    /\ Through(proc[p].rev - 1) \subseteq schema
    /\ \A i \in 1..(proc[p].next - 1) : Chain[proc[p].rev][i] \in schema

\* A database without a version table is not touched before it has one, so a
\* process that looked for one and a process that stamps see the same schema.
TrueInv ==
  /\ RevisionIsTrue /\ StampIsDue
  /\ ~versioned /\ Admins \in schema => Through(Stamp) \subseteq schema
  /\ \A p \in Process : proc[p].pc \in {"read", "stamp", "run"} => versioned
  /\ \A p \in Process : RunsOn(p)

LEMMA InitTrue == Init => TrueInv
<1> SUFFICES ASSUME Init PROVE TrueInv
  OBVIOUS
<1>1. \A p \in Process : proc[p].pc = "idle"
  BY DEF Init, Idle
<1>2. Through(rev) \subseteq schema
  BY ThroughZero DEF Init
<1>3. ~versioned /\ Admins \in schema => Through(Stamp) \subseteq schema
  BY DEF Init
<1>4. QED
  BY <1>1, <1>2, <1>3 DEF TrueInv, RevisionIsTrue, StampIsDue, RunsOn, At

\* A step of p that takes nothing from the database and leaves p with what it has
\* found keeps the invariant.
LEMMA MoveTrue ==
  ASSUME TypeOK, TrueInv, NEW p \in Process, NEW work, Goto(p, work),
         schema \subseteq schema', versioned => versioned',
         ~versioned => schema' = schema,
         Through(rev') \subseteq schema',
         work.pc = "stamp" => Through(Stamp) \subseteq schema',
         work.pc \in {"ensure", "create", "read"} /\ work.stamp
           => Through(Stamp) \subseteq schema',
         work.pc \in {"read", "stamp", "run"} => versioned',
         work.pc = "run" =>
           /\ Through(work.rev - 1) \subseteq schema'
           /\ \A i \in 1..(work.next - 1) : Chain[work.rev][i] \in schema'
  PROVE  TrueInv'
<1>1. \A q \in Process : proc'[q] = IF q = p THEN work ELSE proc[q]
  BY DEF Goto, TypeOK
<1>2. RevisionIsTrue'
  BY DEF RevisionIsTrue
<1>3. StampIsDue'
  BY <1>1 DEF TrueInv, StampIsDue, At
<1>4. ~versioned' /\ Admins \in schema' => Through(Stamp) \subseteq schema'
  BY DEF TrueInv
<1>5. \A q \in Process : proc'[q].pc \in {"read", "stamp", "run"} => versioned'
  BY <1>1 DEF TrueInv
<1>6. \A q \in Process : RunsOn(q)'
  BY <1>1 DEF TrueInv, RunsOn, At
<1>7. QED
  BY <1>2, <1>3, <1>4, <1>5, <1>6 DEF TrueInv

LEMMA FailTrue ==
  ASSUME TypeOK, TrueInv, NEW p \in Process, Fail(p)
  PROVE  TrueInv'
BY MoveTrue DEF Fail, database, TrueInv, RevisionIsTrue

LEMMA StepTrue ==
  ASSUME TypeOK, TrueInv, NEW p \in Process,
         \/ Look(p) \/ EnsureRead(p) \/ EnsureCreate(p) \/ UpgradeRead(p)
         \/ StampRead(p) \/ StampWrite(p) \/ Statement(p) \/ Record(p) \/ Kill(p)
  PROVE  TrueInv'
<1>1. CASE Look(p)
  BY <1>1, MoveTrue DEF Look, database, TrueInv, RevisionIsTrue
<1>2. CASE EnsureRead(p)
  BY <1>2, MoveTrue DEF EnsureRead, database, TrueInv, RevisionIsTrue, StampIsDue, At
<1>3. CASE EnsureCreate(p)
  <2>1. CASE versioned
    BY <1>3, <2>1, FailTrue DEF EnsureCreate
  <2>2. CASE ~versioned
    BY <1>3, <2>2, MoveTrue DEF EnsureCreate, TrueInv, RevisionIsTrue, StampIsDue, At
  <2>3. QED
    BY <2>1, <2>2
<1>4. CASE UpgradeRead(p)
  <2>1. CASE rev = Latest
    BY <1>4, <2>1, MoveTrue DEF UpgradeRead, Idle, database, TrueInv, RevisionIsTrue
  <2>2. CASE rev # Latest
    <3>1. rev + 1 - 1 = rev /\ 1..(1 - 1) = {}
      BY DEF TypeOK
    <3>2. Goto(p, [pc |-> "run", rev |-> rev + 1, next |-> 1]) /\ versioned
      BY <1>4, <2>2 DEF UpgradeRead, TrueInv, At
    <3>3. UNCHANGED <<schema, versioned, rev>> /\ Through(rev) \subseteq schema
      BY <1>4 DEF UpgradeRead, database, TrueInv, RevisionIsTrue
    <3>4. \A work : Goto(p, work) /\ work.pc = "run" /\ work.rev - 1 = rev
                     /\ work.next - 1 = 0 => TrueInv'
      BY <3>2, <3>3, MoveTrue
    <3>5. QED
      <4> DEFINE w == [pc |-> "run", rev |-> rev + 1, next |-> 1]
      <4>1. w.pc = "run" /\ w.rev - 1 = rev /\ w.next - 1 = 0
        BY DEF TypeOK
      <4>2. Goto(p, w)
        BY <3>2
      <4> HIDE DEF w
      <4>3. QED
        BY <3>4, <4>1, <4>2
  <2>3. QED
    BY <2>1, <2>2
<1>5. CASE StampRead(p)
  BY <1>5, MoveTrue DEF StampRead, database, TrueInv, RevisionIsTrue, StampIsDue, At
<1>6. CASE StampWrite(p)
  <2>1. CASE rev # proc[p].from
    BY <1>6, <2>1, FailTrue DEF StampWrite
  <2>2. CASE rev = proc[p].from
    BY <1>6, <2>2, MoveTrue DEF StampWrite, TrueInv, StampIsDue, At
  <2>3. QED
    BY <2>1, <2>2
<1>7. CASE Statement(p)
  <2> DEFINE k == proc[p].rev
             n == proc[p].next
  <2>1. CASE Chain[k][n] \in schema
    BY <1>7, <2>1, FailTrue DEF Statement
  <2>2. CASE Chain[k][n] \notin schema
    <3>1. n \in Nat \ {0} /\ RunsOn(p) /\ versioned /\ At(p, "run")
      BY <1>7, WorkAt DEF Statement, TrueInv, At
    <3>2. \A i \in 1..(n + 1 - 1) : i \in 1..(n - 1) \/ i = n
      BY <3>1
    <3>3. schema' = schema \cup {Chain[k][n]} /\ UNCHANGED <<versioned, rev>>
      BY <1>7, <2>2 DEF Statement
    <3>4. Goto(p, [pc |-> "run", rev |-> k, next |-> n + 1])
      BY <1>7, <2>2 DEF Statement
    <3>5. /\ Through(k - 1) \subseteq schema'
          /\ \A i \in 1..(n + 1 - 1) : Chain[k][i] \in schema'
      BY <3>1, <3>2, <3>3 DEF RunsOn
    <3>6. Through(rev') \subseteq schema'
      BY <3>3 DEF TrueInv, RevisionIsTrue
    <3>7. QED
      BY <3>1, <3>3, <3>4, <3>5, <3>6, MoveTrue
  <2>3. QED
    BY <2>1, <2>2
<1>8. CASE Record(p)
  <2> DEFINE k == proc[p].rev
  <2>1. CASE rev # k - 1
    BY <1>8, <2>1, FailTrue DEF Record
  <2>2. CASE rev = k - 1
    <3>1. k \in 1..Latest /\ RunsOn(p) /\ versioned /\ At(p, "run")
      BY <1>8, WorkAt DEF Record, TrueInv, At
    <3>2. Len(Chain[k]) \in Nat \ {0} /\ proc[p].next - 1 = Len(Chain[k])
      BY <1>8, <3>1, ChainAssumption DEF Record, Latest
    <3>3. Objects(k) \subseteq schema
      BY <3>1, <3>2 DEF RunsOn, Objects
    <3>4. Through(k) \subseteq schema
      BY <3>1, <3>3, ThroughNext DEF RunsOn
    <3>5. rev' = k /\ UNCHANGED <<schema, versioned>>
      BY <1>8, <2>2 DEF Record
    <3>6. CASE k = Latest
      BY <1>8, <2>2, <3>4, <3>5, <3>6, MoveTrue DEF Record, Idle
    <3>7. CASE k # Latest
      <4>1. Goto(p, [pc |-> "run", rev |-> k + 1, next |-> 1])
        BY <1>8, <2>2, <3>7 DEF Record
      <4>2. k + 1 - 1 = k /\ 1..(1 - 1) = {}
        BY <3>1, ChainAssumption DEF Latest
      <4>3. QED
        BY <3>1, <3>4, <3>5, <4>1, <4>2, MoveTrue
    <3>8. QED
      BY <3>6, <3>7
  <2>3. QED
    BY <2>1, <2>2
<1>9. CASE Kill(p)
  BY <1>9, MoveTrue DEF Kill, Idle, database, TrueInv, RevisionIsTrue
<1>10. QED
  BY <1>1, <1>2, <1>3, <1>4, <1>5, <1>6, <1>7, <1>8, <1>9

LEMMA TrueInvariant == Spec => []TrueInv
<1>1. ASSUME TrueInv, UNCHANGED vars PROVE TrueInv'
  BY <1>1 DEF vars, TrueInv, RevisionIsTrue, StampIsDue, RunsOn, At
<1>2. TypeOK /\ TrueInv /\ [Next]_vars => TrueInv'
  BY <1>1, StepTrue DEF Next
<1>3. QED
  BY <1>2, InitTrue, SchemaTypeCorrect, PTL DEF Spec

\* Whatever processes start at once and wherever they are killed, the revision the
\* database names is made in full: what the application was written for is there.
THEOREM RevisionTrue == Spec => []RevisionIsTrue
<1>1. TrueInv => RevisionIsTrue
  BY DEF TrueInv
<1>2. QED
  BY <1>1, TrueInvariant, PTL

\* Only a database with the schema of the stamped revision is stamped.
THEOREM StampDue == Spec => []StampIsDue
<1>1. TrueInv => StampIsDue
  BY DEF TrueInv
<1>2. QED
  BY <1>1, TrueInvariant, PTL

-----------------------------------------------------------------------------
(* When nobody dies and nobody meets. *)

\* A database of that schema s, version table v and revision r: with the schema of
\* the revision it names, or one older than Alembic.
Clean(s, r) == s = Through(r)
Old(s, r) == r = 0 /\ s = Through(Stamp)
Settled(s, v, r) == Clean(s, r) \/ (Old(s, r) /\ ~v)

\* The first n - 1 objects of revision k.
Made(k, n) == {Chain[k][i] : i \in 1..(n - 1)}

\* What a process alone at its work finds in the database.
Fits(work, s, v, r) ==
  /\ work.pc # "failed"
  /\ work.pc = "idle" => Settled(s, v, r)
  /\ work.pc \in {"ensure", "create", "read"} => IF work.stamp THEN Old(s, r) ELSE Clean(s, r)
  /\ work.pc = "stamp" => Old(s, r) /\ work.from = 0
  /\ work.pc = "run" =>
       r = work.rev - 1 /\ s = Through(r) \cup Made(work.rev, work.next)

LEMMA MadeNext ==
  ASSUME NEW k \in 1..Latest, NEW n \in 1..Len(Chain[k])
  PROVE  Made(k, n + 1) = Made(k, n) \cup {Chain[k][n]}
<1>1. n \in Nat /\ 1..(n + 1 - 1) = (1..(n - 1)) \cup {n}
  BY ChainAssumption DEF Latest
<1>2. \A m, x : x \in Made(k, m) <=> \E i \in 1..(m - 1) : x = Chain[k][i]
  BY Zenon DEF Made
<1>3. \A x : x \in Made(k, n + 1) <=> x \in Made(k, n) \cup {Chain[k][n]}
  <2>1. \A i : i \in 1..(n + 1 - 1) <=> i \in 1..(n - 1) \/ i = n
    BY <1>1
  <2>2. PICK m : m = n + 1
    OBVIOUS
  <2>3. \A x : x \in Made(k, m) <=> \E i \in 1..(m - 1) : x = Chain[k][i]
    BY <1>2, Zenon
  <2>4. 1..(m - 1) = 1..(n + 1 - 1)
    BY <1>1, <2>2
  <2>5. \A x : x \in Made(k, m) <=> x \in Made(k, n) \cup {Chain[k][n]}
    BY <1>2, <2>1, <2>3, <2>4, Zenon
  <2>6. QED
    BY <2>2, <2>5, Zenon
<1>4. QED
  BY <1>3

UndisturbedInv ==
  /\ ~versioned => rev = 0
  /\ ~disturbed =>
       /\ \A p \in Process : ~At(p, "failed")
       /\ \A p, q \in Process : Under(p) /\ Under(q) => p = q
       /\ (\A p \in Process : ~Under(p)) => Settled(schema, versioned, rev)
       /\ \A p \in Process : Under(p) => Fits(proc[p], schema, versioned, rev)
       /\ \A p \in Process : At(p, "create") => ~versioned

LEMMA InitUndisturbed == Init => UndisturbedInv
<1> SUFFICES ASSUME Init PROVE UndisturbedInv
  OBVIOUS
<1>1. \A p \in Process : proc[p].pc = "idle"
  BY DEF Init, Idle
<1>2. Settled(schema, versioned, rev)
  BY ThroughZero DEF Init, Settled, Clean, Old
<1>3. ~versioned => rev = 0
  BY DEF Init
<1>4. QED
  BY <1>1, <1>2, <1>3 DEF UndisturbedInv, At, Under

\* A process alone at its work goes on to some that fits.
LEMMA MoveUndisturbed ==
  ASSUME TypeOK, UndisturbedInv, NEW p \in Process, NEW work, Goto(p, work),
         UNCHANGED disturbed, ~versioned' => rev' = 0,
         ~disturbed => \A q \in Process \ {p} : ~Under(q),
         ~disturbed => Fits(work, schema', versioned', rev'),
         work.pc = "create" => ~versioned'
  PROVE  UndisturbedInv'
<1>1. \A q \in Process : proc'[q] = IF q = p THEN work ELSE proc[q]
  BY DEF Goto, TypeOK
<1> SUFFICES ASSUME ~disturbed
             PROVE  /\ \A q \in Process : ~At(q, "failed")'
                    /\ \A q, r \in Process : Under(q)' /\ Under(r)' => q = r
                    /\ (\A q \in Process : ~Under(q)') => Settled(schema', versioned', rev')
                    /\ \A q \in Process : Under(q)' => Fits(proc'[q], schema', versioned', rev')
                    /\ \A q \in Process : At(q, "create")' => ~versioned'
  BY DEF UndisturbedInv
<1>2. \A q \in Process \ {p} : ~Under(q)'
  BY <1>1 DEF Under
<1>3. Fits(work, schema', versioned', rev') /\ proc'[p] = work /\ work.pc # "failed"
  BY <1>1 DEF Fits
<1>4. \A q \in Process : ~At(q, "failed")'
  BY <1>1, <1>3 DEF At, UndisturbedInv
<1>5. (\A q \in Process : ~Under(q)') => Settled(schema', versioned', rev')
  BY <1>3 DEF Under, Fits
<1>6. \A q \in Process : Under(q)' => Fits(proc'[q], schema', versioned', rev')
  BY <1>2, <1>3
<1>7. \A q \in Process : At(q, "create")' => ~versioned'
  <2> SUFFICES ASSUME NEW q \in Process, At(q, "create")' PROVE ~versioned'
    OBVIOUS
  <2>1. q = p
    BY <1>2 DEF Under, At
  <2>2. QED
    BY <1>3, <2>1 DEF At
<1>8. QED
  BY <1>2, <1>4, <1>5, <1>6, <1>7

\* Where one process is under way, no other is.
LEMMA AloneThere ==
  ASSUME TypeOK, UndisturbedInv, ~disturbed, NEW p \in Process, Under(p)
  PROVE  (\A q \in Process \ {p} : ~Under(q)) /\ Fits(proc[p], schema, versioned, rev)
BY DEF UndisturbedInv

LEMMA StepUndisturbed ==
  ASSUME TypeOK, TrueInv, UndisturbedInv, NEW p \in Process,
         \/ Look(p) \/ EnsureRead(p) \/ EnsureCreate(p) \/ UpgradeRead(p)
         \/ StampRead(p) \/ StampWrite(p) \/ Statement(p) \/ Record(p) \/ Kill(p)
  PROVE  UndisturbedInv'
<1>1. CASE Look(p)
  <2> DEFINE s == ~versioned /\ Admins \in schema
             w == [pc |-> "ensure", stamp |-> s]
  <2>1. Goto(p, w) /\ UNCHANGED <<schema, versioned, rev>>
    BY <1>1 DEF Look, database
  <2>2. CASE disturbed'
    BY <2>1, <2>2 DEF UndisturbedInv
  <2>3. CASE ~disturbed'
    <3>1. ~disturbed /\ \A q \in Process \ {p} : ~Under(q)
      BY <1>1, <2>3 DEF Look
    <3>2. ~Under(p)
      BY <1>1 DEF Look, Under
    <3>3. Settled(schema, versioned, rev)
      BY <3>1, <3>2 DEF UndisturbedInv
    <3>4. IF s THEN Old(schema, rev) ELSE Clean(schema, rev)
      <4>1. CASE s
        <5>1. rev = 0 /\ schema # {}
          BY <4>1 DEF UndisturbedInv
        <5>2. QED
          BY <3>3, <4>1, <5>1, ThroughZero DEF Settled, Clean
      <4>2. CASE ~s
        BY <3>3, <4>2, AdminsStamped DEF Settled, Old
      <4>3. QED
        BY <4>1, <4>2
    <3>5. Fits(w, schema', versioned', rev')
      BY <2>1, <3>4 DEF Fits, Old, Clean
    <3>6. QED
      <4>1. w.pc # "create"
        OBVIOUS
      <4> HIDE DEF w
      <4>2. disturbed' \in BOOLEAN /\ disturbed \in BOOLEAN
        BY StepType DEF TypeOK
      <4>3. disturbed' = disturbed
        BY <2>3, <3>1, <4>2, Zenon
      <4>4. QED
        BY <2>1, <3>1, <3>5, <4>1, <4>3, MoveUndisturbed DEF UndisturbedInv
  <2>4. QED
    BY <2>2, <2>3
<1>2. CASE EnsureRead(p)
  <2> DEFINE w == [pc |-> IF versioned THEN "read" ELSE "create", stamp |-> proc[p].stamp]
  <2>1. Goto(p, w) /\ UNCHANGED <<schema, versioned, rev, disturbed>> /\ Under(p)
    BY <1>2 DEF EnsureRead, database, At, Under
  <2>2. ~disturbed => Fits(w, schema', versioned', rev')
    BY <1>2, <2>1, AloneThere DEF EnsureRead, At, Fits, Old, Clean
  <2>3. w.pc = "create" => ~versioned'
    BY <2>1
  <2> HIDE DEF w
  <2>4. QED
    BY <2>1, <2>2, <2>3, AloneThere, MoveUndisturbed DEF UndisturbedInv
<1>3. CASE EnsureCreate(p)
  <2>1. ~disturbed => ~versioned
    BY <1>3 DEF EnsureCreate, UndisturbedInv
  <2>2. CASE versioned
    BY <1>3, <2>1, <2>2 DEF EnsureCreate, Fail, database, UndisturbedInv
  <2>3. CASE ~versioned
    <3> DEFINE w == [pc |-> "read", stamp |-> proc[p].stamp]
    <3>1. Goto(p, w) /\ UNCHANGED <<schema, rev, disturbed>> /\ Under(p) /\ versioned'
      BY <1>3, <2>3 DEF EnsureCreate, At, Under
    <3>2. ~disturbed => Fits(w, schema', versioned', rev')
      BY <1>3, <3>1, AloneThere DEF EnsureCreate, At, Fits, Old, Clean
    <3>3. w.pc # "create"
      OBVIOUS
    <3> HIDE DEF w
    <3>4. QED
      BY <3>1, <3>2, <3>3, AloneThere, MoveUndisturbed
  <2>4. QED
    BY <2>2, <2>3
<1>4. CASE UpgradeRead(p)
  <2>1. Under(p) /\ UNCHANGED <<schema, versioned, rev, disturbed>>
    BY <1>4 DEF UpgradeRead, At, Under, database
  <2>2. ~disturbed => Clean(schema, rev)
    BY <1>4, <2>1, AloneThere DEF UpgradeRead, At, Fits
  <2>3. CASE rev = Latest
    <3>1. Goto(p, Idle)
      BY <1>4, <2>3 DEF UpgradeRead
    <3>2. ~disturbed => Fits(Idle, schema', versioned', rev')
      BY <2>1, <2>2 DEF Fits, Idle, Settled, Clean
    <3>3. QED
      BY <2>1, <3>1, <3>2, AloneThere, MoveUndisturbed DEF UndisturbedInv, Idle
  <2>4. CASE rev # Latest
    <3> DEFINE w == [pc |-> "run", rev |-> rev + 1, next |-> 1]
    <3>1. Goto(p, w)
      BY <1>4, <2>4 DEF UpgradeRead
    <3>2. rev = rev + 1 - 1 /\ Made(rev + 1, 1) = {}
      BY DEF TypeOK, Made
    <3>3. ~disturbed => Fits(w, schema', versioned', rev')
      <4>1. w.pc = "run" /\ w.rev = rev + 1 /\ w.next = 1
        OBVIOUS
      <4> HIDE DEF w
      <4>2. Through(rev) \cup Made(w.rev, w.next) = Through(rev)
        BY <3>2, <4>1
      <4>3. rev' = w.rev - 1
        BY <2>1, <4>1 DEF TypeOK
      <4>4. ~disturbed => schema' = Through(rev') \cup Made(w.rev, w.next)
        BY <2>1, <2>2, <4>2 DEF Clean
      <4>5. QED
        BY <4>1, <4>3, <4>4 DEF Fits
    <3>4. w.pc # "create"
      OBVIOUS
    <3> HIDE DEF w
    <3>5. QED
      BY <2>1, <3>1, <3>3, <3>4, AloneThere, MoveUndisturbed DEF UndisturbedInv
  <2>5. QED
    BY <2>3, <2>4
<1>5. CASE StampRead(p)
  <2> DEFINE w == [pc |-> "stamp", from |-> rev]
  <2>1. Goto(p, w) /\ UNCHANGED <<schema, versioned, rev, disturbed>> /\ Under(p)
    BY <1>5 DEF StampRead, database, At, Under
  <2>2. ~disturbed => Fits(w, schema', versioned', rev')
    BY <1>5, <2>1, AloneThere DEF StampRead, At, Fits, Old
  <2>3. w.pc # "create"
    OBVIOUS
  <2> HIDE DEF w
  <2>4. QED
    BY <2>1, <2>2, <2>3, AloneThere, MoveUndisturbed DEF UndisturbedInv
<1>6. CASE StampWrite(p)
  <2>1. Under(p) /\ versioned
    BY <1>6 DEF StampWrite, At, Under, TrueInv
  <2>2. ~disturbed => Old(schema, rev) /\ rev = proc[p].from
    BY <1>6, <2>1, AloneThere DEF StampWrite, At, Fits, Old
  <2>3. CASE rev # proc[p].from
    BY <1>6, <2>2, <2>3 DEF StampWrite, Fail, database, UndisturbedInv
  <2>4. CASE rev = proc[p].from
    <3> DEFINE w == [pc |-> "ensure", stamp |-> FALSE]
    <3>1. Goto(p, w) /\ rev' = Stamp /\ UNCHANGED <<schema, versioned, disturbed>>
      BY <1>6, <2>4 DEF StampWrite
    <3>2. ~disturbed => Fits(w, schema', versioned', rev')
      BY <2>2, <3>1 DEF Fits, Old, Clean
    <3>3. w.pc # "create"
      OBVIOUS
    <3> HIDE DEF w
    <3>4. QED
      BY <2>1, <3>1, <3>2, <3>3, AloneThere, MoveUndisturbed
  <2>5. QED
    BY <2>3, <2>4
<1>7. CASE Statement(p)
  <2> DEFINE k == proc[p].rev
             n == proc[p].next
  <2>1. /\ Under(p) /\ At(p, "run") /\ versioned
        /\ k \in 1..Latest /\ n \in 1..Len(Chain[k])
    BY <1>7, WorkAt, ChainAssumption DEF Statement, At, Under, TrueInv, Latest
  <2>2. ~disturbed => rev = k - 1 /\ schema = Through(k - 1) \cup Made(k, n)
    BY <2>1, AloneThere DEF At, Fits
  <2>3. Chain[k][n] \notin Through(k - 1)
    BY <2>1, NewObject
  <2>4. Chain[k][n] \notin Made(k, n)
    BY <2>1, NewObject DEF Made
  <2>5. CASE Chain[k][n] \in schema
    <3>1. disturbed
      BY <2>2, <2>3, <2>4, <2>5
    <3>2. disturbed' /\ UNCHANGED <<versioned, rev>>
      BY <1>7, <2>5, <3>1 DEF Statement, Fail, database
    <3>3. QED
      BY <3>2 DEF UndisturbedInv
  <2>6. CASE Chain[k][n] \notin schema
    <3> DEFINE w == [pc |-> "run", rev |-> k, next |-> n + 1]
    <3>1. /\ Goto(p, w) /\ schema' = schema \cup {Chain[k][n]}
          /\ UNCHANGED <<versioned, rev, disturbed>>
      BY <1>7, <2>6 DEF Statement
    <3>2. Made(k, n + 1) = Made(k, n) \cup {Chain[k][n]}
      <4>1. k \in 1..Latest /\ n \in 1..Len(Chain[k])
        BY <2>1
      <4>2. QED
        BY <4>1, MadeNext
    <3>3. ~disturbed => rev' = k - 1 /\ schema' = Through(k - 1) \cup Made(k, n + 1)
      BY <2>2, <3>1, <3>2
    <3>4. ~disturbed => Fits(w, schema', versioned', rev')
      BY <3>3 DEF Fits, Made, Through, Objects
    <3>5. w.pc # "create"
      OBVIOUS
    <3> HIDE DEF w
    <3>6. QED
      BY <2>1, <3>1, <3>4, <3>5, AloneThere, MoveUndisturbed
  <2>7. QED
    BY <2>5, <2>6
<1>8. CASE Record(p)
  <2> DEFINE k == proc[p].rev
             n == proc[p].next
  <2>1. Under(p) /\ At(p, "run") /\ versioned /\ k \in 1..Latest
    BY <1>8, WorkAt DEF Record, At, Under, TrueInv
  <2>2. n - 1 = Len(Chain[k])
    BY <1>8, <2>1, ChainAssumption DEF Record, Latest
  <2>3. ~disturbed => rev = k - 1 /\ schema = Through(k - 1) \cup Made(k, n)
    BY <2>1, AloneThere DEF At, Fits
  <2>4. ~disturbed => schema = Through(k)
    BY <2>1, <2>2, <2>3, ThroughNext DEF Made, Objects
  <2>5. CASE rev # k - 1
    <3>1. disturbed' /\ UNCHANGED <<versioned, rev>>
      BY <1>8, <2>3, <2>5 DEF Record, Fail, database
    <3>2. QED
      BY <3>1 DEF UndisturbedInv
  <2>6. CASE rev = k - 1
    <3>1. rev' = k /\ UNCHANGED <<schema, versioned, disturbed>>
      BY <1>8, <2>6 DEF Record
    <3>2. ~disturbed => schema' = Through(rev')
      BY <2>4, <3>1
    <3>3. CASE k = Latest
      <4>1. Goto(p, Idle)
        BY <1>8, <2>6, <3>3 DEF Record
      <4>2. ~disturbed => Fits(Idle, schema', versioned', rev')
        BY <3>2 DEF Fits, Idle, Settled, Clean, Through, Objects
      <4>3. QED
        BY <2>1, <3>1, <4>1, <4>2, AloneThere, MoveUndisturbed DEF Idle
    <3>4. CASE k # Latest
      <4> DEFINE w == [pc |-> "run", rev |-> k + 1, next |-> 1]
      <4>1. Goto(p, w)
        BY <1>8, <2>6, <3>4 DEF Record
      <4>2. rev' = k + 1 - 1 /\ Made(k + 1, 1) = {}
        BY <2>1, <3>1, ChainAssumption DEF Latest, Made
      <4>3. ~disturbed => Fits(w, schema', versioned', rev')
        <5>1. w.pc = "run" /\ w.rev = k + 1 /\ w.next = 1
          OBVIOUS
        <5> HIDE DEF w
        <5>2. Through(rev') \cup Made(w.rev, w.next) = Through(rev')
          BY <4>2, <5>1
        <5>3. rev' = w.rev - 1
          BY <2>1, <3>1, <5>1, ChainAssumption DEF Latest
        <5>4. ~disturbed => schema' = Through(rev') \cup Made(w.rev, w.next)
          BY <3>2, <5>2
        <5>5. QED
          BY <5>1, <5>3, <5>4 DEF Fits
      <4>4. w.pc # "create"
        OBVIOUS
      <4> HIDE DEF w
      <4>5. QED
        BY <2>1, <3>1, <4>1, <4>3, <4>4, AloneThere, MoveUndisturbed
    <3>5. QED
      BY <3>3, <3>4
  <2>7. QED
    BY <2>5, <2>6
<1>9. CASE Kill(p)
  BY <1>9 DEF Kill, database, UndisturbedInv
<1>10. QED
  BY <1>1, <1>2, <1>3, <1>4, <1>5, <1>6, <1>7, <1>8, <1>9

LEMMA UndisturbedInvariant == Spec => []UndisturbedInv
<1>1. ASSUME UndisturbedInv, UNCHANGED vars PROVE UndisturbedInv'
  BY <1>1 DEF vars, UndisturbedInv, Settled, Clean, Old, Fits, At, Under, Made
<1>2. TypeOK /\ TrueInv /\ UndisturbedInv /\ [Next]_vars => UndisturbedInv'
  BY <1>1, StepUndisturbed DEF Next
<1>3. QED
  BY <1>2, InitUndisturbed, SchemaTypeCorrect, TrueInvariant, PTL DEF Spec

\* A process that starts alone and is not killed never fails, from whatever a fresh
\* database, an old one or an older release left; and what undisturbed processes
\* leave is the schema of the revision the database names.
THEOREM FailuresExplained == Spec => []FailureExplained
<1>1. UndisturbedInv => FailureExplained
  BY DEF UndisturbedInv, FailureExplained, Settled, Clean, Old
<1>2. QED
  BY <1>1, UndisturbedInvariant, PTL

-----------------------------------------------------------------------------
(* EmbeddingMigration. *)

\* The lists a run goes through have a first image.
Less == {pair \in Nat \X Nat : pair[1] < pair[2]}

LEMMA Smallest ==
  ASSUME NEW S \in SUBSET Nat, S # {}
  PROVE  \E i \in S : \A j \in S : i <= j
<1>1. OpToRel(<, Nat) = Less
  BY Zenon DEF OpToRel, Less
<1>2. IsWellFoundedOn(Less, Nat)
  BY <1>1, NatLessThanWellFounded, Zenon
<1>3. PICK i \in S : \A j \in S : <<j, i>> \notin Less
  BY <1>2, WFMin
<1>4. \A j \in S : ~(j < i)
  <2> TAKE j \in S
  <2>1. <<j, i>> \in Nat \X Nat
    OBVIOUS
  <2>2. j < i => <<j, i>> \in Less
    BY <2>1, Zenon DEF Less
  <2> QED
    BY <1>3, <2>2
<1> QED
  BY <1>4

LEMMA FacesGoto ==
  ASSUME Faces!TypeOK, NEW r \in Process, NEW work \in Faces!Work, Faces!Goto(r, work)
  PROVE  /\ run' \in [Process -> Faces!Work] /\ run'[r] = work
         /\ \A s \in Process \ {r} : run'[s] = run[s]
BY DEF Faces!TypeOK, Faces!Goto

\* A run that goes on with its list has no image in hand.
LEMMA FacesNext ==
  ASSUME Faces!TypeOK, NEW r \in Process, NEW list \in SUBSET Faces!Image,
         Faces!NextImage(r, list)
  PROVE  /\ run' \in [Process -> Faces!Work]
         /\ run'[r].pc \in {"idle", "look"}
         /\ \A s \in Process \ {r} : run'[s] = run[s]
<1> DEFINE least == CHOOSE i \in list : \A j \in list : i <= j
           look == [pc |-> "look", image |-> least, list |-> list \ {least}]
<1>1. CASE list = {}
  <2>1. Faces!Goto(r, Faces!Idle) /\ Faces!Idle \in Faces!Work
    BY <1>1, Zenon DEF Faces!NextImage, Faces!Work
  <2> QED
    BY <2>1, FacesGoto DEF Faces!Idle
<1>2. CASE list # {}
  <2>1. list \in SUBSET Nat
    BY BoundAssumption DEF Faces!Image
  <2>2. least \in list
    BY <1>2, <2>1, Smallest, Zenon
  <2>3. Faces!Goto(r, look)
    BY <1>2, Zenon DEF Faces!NextImage
  <2> HIDE DEF least
  <2>4. look \in Faces!Work /\ look.pc = "look"
    BY <2>2 DEF Faces!Work
  <2> HIDE DEF look
  <2> QED
    BY <2>3, <2>4, FacesGoto
<1> QED
  BY <1>1, <1>2

\* A run that moves on with its image has it, and its list, still.
LEMMA FacesMove ==
  ASSUME Faces!TypeOK, NEW r \in Process, NEW step \in {"open", "store", "mark"},
         run[r].pc # "idle", Faces!Goto(r, [run[r] EXCEPT !.pc = step])
  PROVE  /\ run' \in [Process -> Faces!Work]
         /\ run'[r].pc = step /\ run'[r].image = run[r].image
         /\ \A s \in Process \ {r} : run'[s] = run[s]
<1> DEFINE work == [pc |-> step, image |-> run[r].image, list |-> run[r].list]
<1>1. run[r] \in [pc : {"look", "open", "store", "mark"}, image : Faces!Image,
                  list : SUBSET Faces!Image]
  BY DEF Faces!TypeOK, Faces!Work, Faces!Idle
<1>2. [run[r] EXCEPT !.pc = step] = work
  BY <1>1
<1>3. work \in Faces!Work
  BY <1>1 DEF Faces!Work
<1>4. Faces!Goto(r, work)
  BY <1>2, Zenon
<1>5. work.pc = step /\ work.image = run[r].image
  OBVIOUS
<1> HIDE DEF work
<1> QED
  BY <1>3, <1>4, <1>5, FacesGoto

LEMMA FacesAt ==
  ASSUME Faces!TypeOK, NEW r \in Process, run[r].pc # "idle"
  PROVE  run[r].image \in Faces!Image /\ run[r].list \in SUBSET Faces!Image
BY DEF Faces!TypeOK, Faces!Work, Faces!Idle

\* An image in the hand of one run alone, that the application did not save, has no
\* embedding until the run stores it, and one from then on.
EmbedInv ==
  /\ saving \subseteq excused
  /\ \A i \in Faces!Image : i \notin excused =>
       /\ \A r, s \in Process : Faces!On(r, i) /\ Faces!On(s, i) => r = s
       /\ emb[i] > 0 =>
            /\ emb[i] = 1
            /\ i \in marked \/ \E r \in Process : run[r].pc = "mark" /\ run[r].image = i
       /\ \A r \in Process :
            run[r].pc \in {"open", "store"} /\ run[r].image = i => i \notin marked

\* What is about to be marked is embedded, what is about to be embedded is there.
HandInv ==
  /\ \A r \in Process :
       run[r].pc = "mark" => emb[run[r].image] > 0 \/ run[r].image \in wiped
  /\ \A r \in Process : run[r].pc = "store" => run[r].image \in file \cup raced
  /\ saving \subseteq file \cup raced
  /\ Faces!MarkedIsEmbedded /\ Faces!EmbeddingHasImage

FacesInv == Faces!TypeOK /\ EmbedInv /\ HandInv

LEMMA FacesStart ==
  ASSUME FacesInv, NEW r \in Process, Faces!Start(r)
  PROVE  FacesInv'
<1>1. /\ run' \in [Process -> Faces!Work] /\ run'[r].pc \in {"idle", "look"}
      /\ \A s \in Process \ {r} : run'[s] = run[s]
  BY FacesNext DEF FacesInv, Faces!TypeOK, Faces!Start
<1>2. /\ UNCHANGED <<file, emb, marked, saving, wiping, excused, wiped, raced>>
      /\ run[r].pc = "idle"
  BY DEF Faces!Start, Faces!disk, Faces!past, Faces!At
<1>3. Faces!TypeOK'
  BY <1>1, <1>2 DEF FacesInv, Faces!TypeOK
<1>4. EmbedInv'
  BY <1>1, <1>2 DEF FacesInv, EmbedInv, Faces!On
<1>5. HandInv'
  BY <1>1, <1>2 DEF FacesInv, HandInv, Faces!MarkedIsEmbedded, Faces!EmbeddingHasImage
<1> QED
  BY <1>3, <1>4, <1>5 DEF FacesInv

LEMMA FacesLook ==
  ASSUME FacesInv, NEW r \in Process, Faces!Look(r)
  PROVE  FacesInv'
<1>1. /\ UNCHANGED <<file, emb, marked, saving, wiping, wiped, raced>>
      /\ run[r].pc = "look" /\ run[r].image \in Faces!Image /\ run[r].list \in SUBSET Faces!Image
  BY FacesAt DEF FacesInv, Faces!Look, Faces!disk, Faces!At
<1>2. CASE run[r].image \in marked
  <2>1. /\ run' \in [Process -> Faces!Work] /\ run'[r].pc \in {"idle", "look"}
        /\ \A s \in Process \ {r} : run'[s] = run[s]
    BY <1>1, <1>2, FacesNext DEF FacesInv, Faces!Look
  <2>2. excused' = excused
    BY <1>2 DEF Faces!Look
  <2>3. Faces!TypeOK'
    BY <1>1, <2>1, <2>2 DEF FacesInv, Faces!TypeOK
  <2>4. EmbedInv'
    BY <1>1, <2>1, <2>2 DEF FacesInv, EmbedInv, Faces!On
  <2>5. HandInv'
    BY <1>1, <2>1 DEF FacesInv, HandInv, Faces!MarkedIsEmbedded, Faces!EmbeddingHasImage
  <2> QED
    BY <2>3, <2>4, <2>5 DEF FacesInv
<1>3. CASE run[r].image \notin marked
  <2> DEFINE i == run[r].image
  <2>1. Faces!Goto(r, [run[r] EXCEPT !.pc = "open"])
    BY <1>3, Zenon DEF Faces!Look
  <2>2. /\ run' \in [Process -> Faces!Work] /\ run'[r].pc = "open" /\ run'[r].image = i
        /\ \A s \in Process \ {r} : run'[s] = run[s]
    BY <1>1, <2>1, FacesMove DEF FacesInv
  <2>3. excused' = IF \E s \in Process \ {r} : Faces!On(s, i) THEN excused \cup {i} ELSE excused
    BY <1>3 DEF Faces!Look
  <2>4. i \notin marked /\ i \in Faces!Image
    BY <1>1, <1>3
  <2> HIDE DEF i
  <2>5. Faces!TypeOK'
    BY <1>1, <2>2, <2>3, <2>4 DEF FacesInv, Faces!TypeOK
  <2>6. EmbedInv'
    BY <1>1, <2>2, <2>3, <2>4 DEF FacesInv, EmbedInv, Faces!On
  <2>7. HandInv'
    BY <1>1, <2>2 DEF FacesInv, HandInv, Faces!MarkedIsEmbedded, Faces!EmbeddingHasImage
  <2> QED
    BY <2>5, <2>6, <2>7 DEF FacesInv
<1> QED
  BY <1>2, <1>3

LEMMA FacesOpen ==
  ASSUME FacesInv, NEW r \in Process, Faces!Open(r)
  PROVE  FacesInv'
<1>1. /\ UNCHANGED <<file, emb, marked, saving, wiping, excused, wiped, raced>>
      /\ run[r].pc = "open" /\ run[r].image \in Faces!Image /\ run[r].list \in SUBSET Faces!Image
  BY FacesAt DEF FacesInv, Faces!Open, Faces!disk, Faces!past, Faces!At
<1>2. /\ run' \in [Process -> Faces!Work]
      /\ \/ run'[r].pc \in {"idle", "look"}
         \/ run'[r].pc = "store" /\ run'[r].image = run[r].image /\ run[r].image \in file
      /\ \A s \in Process \ {r} : run'[s] = run[s]
  <2>1. CASE run[r].image \in file /\ Faces!Goto(r, [run[r] EXCEPT !.pc = "store"])
    BY <1>1, <2>1, FacesMove DEF FacesInv
  <2>2. CASE Faces!NextImage(r, run[r].list)
    BY <1>1, <2>2, FacesNext DEF FacesInv
  <2> QED
    BY <2>1, <2>2 DEF Faces!Open
<1>3. Faces!TypeOK'
  BY <1>1, <1>2 DEF FacesInv, Faces!TypeOK
<1>4. EmbedInv'
  BY <1>1, <1>2 DEF FacesInv, EmbedInv, Faces!On
<1>5. HandInv'
  BY <1>1, <1>2 DEF FacesInv, HandInv, Faces!MarkedIsEmbedded, Faces!EmbeddingHasImage
<1> QED
  BY <1>3, <1>4, <1>5 DEF FacesInv

LEMMA FacesStore ==
  ASSUME FacesInv, NEW r \in Process, Faces!Store(r)
  PROVE  FacesInv'
<1>1. /\ UNCHANGED <<file, marked, saving, wiping, excused, wiped, raced>>
      /\ run[r].pc = "store" /\ run[r].image \in Faces!Image /\ run[r].list \in SUBSET Faces!Image
  BY FacesAt DEF FacesInv, Faces!Store, Faces!past, Faces!At
<1>2. CASE Faces!NextImage(r, run[r].list) /\ UNCHANGED emb
  <2>1. /\ run' \in [Process -> Faces!Work] /\ run'[r].pc \in {"idle", "look"}
        /\ \A s \in Process \ {r} : run'[s] = run[s]
    BY <1>1, <1>2, FacesNext DEF FacesInv
  <2>2. Faces!TypeOK'
    BY <1>1, <1>2, <2>1 DEF FacesInv, Faces!TypeOK
  <2>3. EmbedInv'
    BY <1>1, <1>2, <2>1 DEF FacesInv, EmbedInv, Faces!On
  <2>4. HandInv'
    BY <1>1, <1>2, <2>1
    DEF FacesInv, HandInv, Faces!MarkedIsEmbedded, Faces!EmbeddingHasImage
  <2> QED
    BY <2>2, <2>3, <2>4 DEF FacesInv
<1>3. CASE /\ emb[run[r].image] < MaxEmb
           /\ emb' = [emb EXCEPT ![run[r].image] = @ + 1]
           /\ Faces!Goto(r, [run[r] EXCEPT !.pc = "mark"])
  <2> DEFINE i == run[r].image
  <2>1. /\ run' \in [Process -> Faces!Work] /\ run'[r].pc = "mark" /\ run'[r].image = i
        /\ \A s \in Process \ {r} : run'[s] = run[s]
    BY <1>1, <1>3, FacesMove DEF FacesInv
  <2>2. i \in Faces!Image /\ i \in file \cup raced
    BY <1>1 DEF FacesInv, HandInv
  <2>3. /\ emb[i] \in 0..MaxEmb /\ emb[i] < MaxEmb /\ emb'[i] = emb[i] + 1
        /\ emb' \in [Faces!Image -> 0..MaxEmb]
        /\ \A j \in Faces!Image \ {i} : emb'[j] = emb[j]
    BY <1>3, <2>2, BoundAssumption DEF FacesInv, Faces!TypeOK
  <2>4. i \notin excused => emb[i] = 0
    BY <1>1, <2>2, <2>3 DEF FacesInv, EmbedInv, Faces!On
  <2>5. run[r].pc = "store" /\ run[r].image = i
    BY <1>1
  <2> HIDE DEF i
  <2>6. Faces!TypeOK'
    BY <1>1, <2>1, <2>3 DEF FacesInv, Faces!TypeOK
  <2>7. EmbedInv'
    BY <1>1, <2>1, <2>2, <2>3, <2>4, <2>5 DEF FacesInv, EmbedInv, Faces!On
  <2>8. HandInv'
    <3>1. \A s \in Process : run[s].pc = "mark" => run[s].image \in Faces!Image
      BY FacesAt DEF FacesInv
    <3>2. \A j \in Faces!Image : emb[j] \in Nat /\ (emb[j] > 0 => emb'[j] > 0)
      BY <2>2, <2>3, BoundAssumption DEF FacesInv, Faces!TypeOK
    <3>3. marked \subseteq Faces!Image /\ emb'[i] > 0
      BY <2>3 DEF FacesInv, Faces!TypeOK
    <3> QED
      BY <1>1, <2>1, <2>2, <2>3, <3>1, <3>2, <3>3
      DEF FacesInv, HandInv, Faces!MarkedIsEmbedded, Faces!EmbeddingHasImage
  <2> QED
    BY <2>6, <2>7, <2>8 DEF FacesInv
<1> QED
  BY <1>2, <1>3 DEF Faces!Store

LEMMA FacesMark ==
  ASSUME FacesInv, NEW r \in Process, Faces!Mark(r)
  PROVE  FacesInv'
<1> DEFINE i == run[r].image
<1>1. /\ UNCHANGED <<file, emb, saving, wiping, wiped, raced>>
      /\ run[r].pc = "mark" /\ i \in Faces!Image /\ run[r].list \in SUBSET Faces!Image
  BY FacesAt DEF FacesInv, Faces!Mark, Faces!At
<1>2. \/ marked' = marked \cup {i} /\ excused' = excused
      \/ excused' = excused \cup {i} /\ marked' = marked
  BY DEF Faces!Mark
<1>3. /\ run' \in [Process -> Faces!Work] /\ run'[r].pc \in {"idle", "look"}
      /\ \A s \in Process \ {r} : run'[s] = run[s]
  BY <1>1, FacesNext DEF FacesInv, Faces!Mark
<1>4. i = run[r].image
  OBVIOUS
<1> HIDE DEF i
<1>5. Faces!TypeOK'
  BY <1>1, <1>2, <1>3 DEF FacesInv, Faces!TypeOK
<1>6. EmbedInv'
  BY <1>1, <1>2, <1>3, <1>4 DEF FacesInv, EmbedInv, Faces!On
<1>7. HandInv'
  BY <1>1, <1>2, <1>3, <1>4
  DEF FacesInv, HandInv, Faces!MarkedIsEmbedded, Faces!EmbeddingHasImage
<1> QED
  BY <1>5, <1>6, <1>7 DEF FacesInv

LEMMA FacesKill ==
  ASSUME FacesInv, NEW r \in Process, Faces!Kill(r)
  PROVE  FacesInv'
<1>1. /\ UNCHANGED <<file, emb, marked, saving, wiping, wiped, raced>>
      /\ run[r].image \in Faces!Image
      /\ excused' = IF run[r].pc = "mark" THEN excused \cup {run[r].image} ELSE excused
  BY FacesAt DEF FacesInv, Faces!Kill, Faces!disk, Faces!At
<1>2. /\ run' \in [Process -> Faces!Work] /\ run'[r].pc = "idle"
      /\ \A s \in Process \ {r} : run'[s] = run[s]
  BY FacesGoto DEF FacesInv, Faces!Kill, Faces!Work, Faces!Idle
<1>3. Faces!TypeOK'
  BY <1>1, <1>2 DEF FacesInv, Faces!TypeOK
<1>4. EmbedInv'
  BY <1>1, <1>2 DEF FacesInv, EmbedInv, Faces!On
<1>5. HandInv'
  BY <1>1, <1>2 DEF FacesInv, HandInv, Faces!MarkedIsEmbedded, Faces!EmbeddingHasImage
<1> QED
  BY <1>3, <1>4, <1>5 DEF FacesInv

\* The application stores an embedding only of what it saved, and wipes it all at once.
LEMMA FacesOutside ==
  ASSUME FacesInv, NEW i \in Faces!Image,
         \/ Faces!SaveFile(i) \/ Faces!SaveEmbedding(i)
         \/ Faces!WipeEmbeddings(i) \/ Faces!WipeFile(i) \/ Faces!WipeDies(i)
  PROVE  FacesInv'
<1>1. UNCHANGED run /\ marked' = marked
  BY DEF Faces!SaveFile, Faces!SaveEmbedding, Faces!WipeEmbeddings, Faces!WipeFile,
         Faces!WipeDies
<1>2. emb \in [Faces!Image -> 0..MaxEmb]
  BY DEF FacesInv, Faces!TypeOK
<1>3. \A s \in Process : run[s].pc = "mark" => run[s].image \in Faces!Image
  BY FacesAt DEF FacesInv
<1>4. \A s \in Process : run[s].pc = "store" => Faces!On(s, run[s].image)
  BY DEF Faces!On
<1>5. CASE Faces!SaveFile(i)
  <2>1. Faces!TypeOK'
    BY <1>1, <1>5 DEF FacesInv, Faces!TypeOK, Faces!SaveFile
  <2>2. EmbedInv'
    BY <1>1, <1>5 DEF FacesInv, EmbedInv, Faces!On, Faces!SaveFile
  <2>3. HandInv'
    BY <1>1, <1>5
    DEF FacesInv, HandInv, Faces!MarkedIsEmbedded, Faces!EmbeddingHasImage, Faces!SaveFile
  <2> QED
    BY <2>1, <2>2, <2>3 DEF FacesInv
<1>6. CASE Faces!SaveEmbedding(i)
  <2>1. /\ i \in saving /\ saving' = saving \ {i}
        /\ UNCHANGED <<file, wiping, excused, wiped, raced>>
    BY <1>6 DEF Faces!SaveEmbedding, Faces!past
  <2>2. /\ emb' \in [Faces!Image -> 0..MaxEmb]
        /\ emb[i] > 0 => emb'[i] > 0
        /\ \A j \in Faces!Image \ {i} : emb'[j] = emb[j]
    BY <1>2, <1>6, BoundAssumption DEF Faces!SaveEmbedding
  <2>3. Faces!TypeOK'
    BY <1>1, <2>1, <2>2 DEF FacesInv, Faces!TypeOK
  <2>4. EmbedInv'
    BY <1>1, <2>1, <2>2 DEF FacesInv, EmbedInv, Faces!On
  <2>5. HandInv'
    BY <1>1, <1>3, <2>1, <2>2
    DEF FacesInv, HandInv, Faces!TypeOK, Faces!MarkedIsEmbedded, Faces!EmbeddingHasImage
  <2> QED
    BY <2>3, <2>4, <2>5 DEF FacesInv
<1>7. CASE Faces!WipeEmbeddings(i)
  <2>1. /\ wiped' = wiped \cup {i} /\ wiping' = wiping \cup {i} /\ UNCHANGED <<file, saving, excused>>
        /\ raced' = raced \/ raced' = raced \cup {i}
    BY <1>7 DEF Faces!WipeEmbeddings
  <2>2. /\ emb' \in [Faces!Image -> 0..MaxEmb] /\ emb'[i] = 0
        /\ \A j \in Faces!Image \ {i} : emb'[j] = emb[j]
    BY <1>2, <1>7, BoundAssumption DEF Faces!WipeEmbeddings
  <2>3. Faces!TypeOK'
    BY <1>1, <2>1, <2>2 DEF FacesInv, Faces!TypeOK
  <2>4. EmbedInv'
    BY <1>1, <2>1, <2>2 DEF FacesInv, EmbedInv, Faces!On
  <2>5. HandInv'
    BY <1>1, <1>3, <2>1, <2>2
    DEF FacesInv, HandInv, Faces!TypeOK, Faces!MarkedIsEmbedded, Faces!EmbeddingHasImage
  <2> QED
    BY <2>3, <2>4, <2>5 DEF FacesInv
<1>8. CASE Faces!WipeFile(i)
  <2>1. /\ file' = file \ {i} /\ wiping' = wiping \ {i}
        /\ UNCHANGED <<emb, saving, excused, wiped>>
        /\ raced' = IF \/ emb[i] > 0 \/ i \in saving
                       \/ \E r \in Process : run[r].pc = "store" /\ Faces!On(r, i)
                    THEN raced \cup {i} ELSE raced
    BY <1>8 DEF Faces!WipeFile, Faces!At
  <2>2. Faces!TypeOK'
    BY <1>1, <2>1 DEF FacesInv, Faces!TypeOK
  <2>3. EmbedInv'
    BY <1>1, <2>1 DEF FacesInv, EmbedInv, Faces!On
  <2>4. HandInv'
    BY <1>1, <1>4, <2>1
    DEF FacesInv, HandInv, Faces!MarkedIsEmbedded, Faces!EmbeddingHasImage
  <2> QED
    BY <2>2, <2>3, <2>4 DEF FacesInv
<1>9. CASE Faces!WipeDies(i)
  <2>1. wiping' \subseteq wiping /\ UNCHANGED <<file, emb, saving, excused, wiped, raced>>
    BY <1>9 DEF Faces!WipeDies, Faces!past
  <2> QED
    BY <1>1, <2>1 DEF FacesInv, Faces!TypeOK, EmbedInv, Faces!On, HandInv,
       Faces!MarkedIsEmbedded, Faces!EmbeddingHasImage
<1> QED
  BY <1>5, <1>6, <1>7, <1>8, <1>9

\* Every image of the old system is embedded once, is embedded if it is marked, and is
\* there if it is embedded; save what the application saved, runs had in hand together
\* or left half done, and what was wiped meanwhile.
THEOREM MigrationEmbedsOnce == MCSpec => []EmbeddingsMigrate
<1>1. MCInit => FacesInv
  <2> SUFFICES ASSUME Faces!Init PROVE FacesInv
    BY DEF MCInit
  <2>1. \A r \in Process : run[r].pc = "idle"
    BY DEF Faces!Init, Faces!Idle
  <2>2. Faces!TypeOK
    BY BoundAssumption DEF Faces!Init, Faces!TypeOK, Faces!Work
  <2> QED
    BY <2>1, <2>2 DEF Faces!Init, FacesInv, EmbedInv, Faces!On, HandInv,
       Faces!MarkedIsEmbedded, Faces!EmbeddingHasImage
<1>2. FacesInv /\ [MCNext]_<<story, files, faces, vars>> => FacesInv'
  <2> SUFFICES ASSUME FacesInv, [MCNext]_<<story, files, faces, vars>> PROVE FacesInv'
    OBVIOUS
  <2>1. CASE UNCHANGED faces
    BY <2>1 DEF faces, FacesInv, Faces!TypeOK, EmbedInv, Faces!On, HandInv,
       Faces!MarkedIsEmbedded, Faces!EmbeddingHasImage
  <2>2. UNCHANGED faces \/ Faces!Next
    BY DEF MCNext
  <2> QED
    BY <2>1, <2>2, FacesStart, FacesLook, FacesOpen, FacesStore, FacesMark, FacesKill,
       FacesOutside DEF Faces!Next
<1>3. FacesInv => EmbeddingsMigrate
  <2> SUFFICES ASSUME FacesInv PROVE Faces!EmbeddedOnce
    BY DEF FacesInv, HandInv, EmbeddingsMigrate
  <2> QED
    BY DEF FacesInv, Faces!TypeOK, EmbedInv, Faces!EmbeddedOnce
<1> QED
  BY <1>1, <1>2, <1>3, PTL DEF MCSpec

-----------------------------------------------------------------------------
(* BackupRestore. *)

LEMMA FilesTar ==
  ASSUME NEW a \in Files!Tar \cup {Files!Part, Files!NoArchive}
  PROVE  /\ a \in Files!Tar <=> a \notin {Files!Part, Files!NoArchive}
         /\ a \in Files!Tar =>
              a.db \in Files!Faces /\ a.images \in Files!Faces /\ a.cut \in BOOLEAN
<1>1. {"part"} \notin Files!Faces /\ {"none"} \notin Files!Faces
  BY FaceAssumption DEF Files!Faces, Files!Gone
<1>2. a \in Files!Tar => a.db \in Files!Faces /\ a.images \in Files!Faces /\ a.cut \in BOOLEAN
  BY DEF Files!Tar
<1>3. Files!Part.db = {"part"} /\ Files!NoArchive.db = {"none"}
  BY DEF Files!Part, Files!NoArchive
<1> QED
  BY <1>1, <1>2, <1>3

LEMMA FilesThere ==
  ASSUME NEW x \in Files!Faces
  PROVE  /\ x # Files!Gone => x \subseteq Face
         /\ \A f \in Face : f \in x => x # Files!Gone
<1>1. "gone" \notin Face
  BY FaceAssumption
<1>2. CASE x \in SUBSET Face
  BY <1>1, <1>2 DEF Files!Gone
<1>3. CASE x = Files!Gone
  BY <1>1, <1>3 DEF Files!Gone
<1> QED
  BY <1>2, <1>3 DEF Files!Faces

LEMMA FilesRes ==
  ASSUME Files!TypeOK
  PROVE  /\ res = Files!Idle <=> res.pc = "idle"
         /\ res.pc # "idle" =>
              /\ res \in [pc : {"db aside", "db", "images aside", "images"}, from : Files!Copy]
              /\ res.from.db \subseteq Face /\ res.from.images \in Files!Faces
<1>1. CASE res = Files!Idle
  BY <1>1 DEF Files!Idle
<1>2. CASE res \in [pc : {"db aside", "db", "images aside", "images"}, from : Files!Copy]
  <2>1. res.from \in Files!Copy /\ res.pc # "idle"
    BY <1>2
  <2>2. res.from.db \subseteq Face /\ res.from.images \in Files!Faces
    BY <2>1 DEF Files!Copy
  <2>3. res # Files!Idle
    BY <2>1 DEF Files!Idle
  <2> QED
    BY <1>2, <2>1, <2>2, <2>3
<1> QED
  BY <1>1, <1>2 DEF Files!TypeOK, Files!RestoreWork

LEMMA FilesBak ==
  ASSUME Files!TypeOK, NEW b \in Process
  PROVE  /\ bak[b] = Files!Idle <=> bak[b].pc = "idle"
         /\ bak[b].pc = "images" =>
              bak[b].name \in Files!Second /\ bak[b].skip \in BOOLEAN /\ bak[b].db \in Files!Faces
         /\ bak[b].pc \in {"idle", "images", "retain"}
BY DEF Files!TypeOK, Files!BackupWork, Files!Idle

LEMMA FilesBakGoes ==
  ASSUME Files!TypeOK, NEW b \in Process, NEW work \in Files!BackupWork,
         bak' = [bak EXCEPT ![b] = work]
  PROVE  /\ bak' \in [Process -> Files!BackupWork] /\ bak'[b] = work
         /\ \A c \in Process \ {b} : bak'[c] = bak[c]
BY DEF Files!TypeOK

\* What was enrolled is live or aside; a face half enrolled has its image; a restore
\* puts a file only where there is none.
KeptInv ==
  /\ half \cap db = {} /\ half \subseteq images
  /\ res.pc # "idle" => half = {}
  /\ res.pc = "db" => db = Files!Gone
  /\ res.pc = "images" => images = Files!Gone
  /\ ~hurried => \A f \in kept :
       /\ f \in db \/ \E s \in Files!Second : f \in aside[s].db
       /\ f \in images \/ \E s \in Files!Second : f \in aside[s].images

\* The live files match, but between the pieces of a restore; then its archive does.
ImageInv ==
  ~mixed =>
    /\ res.pc = "idle" =>
         db # Files!Gone /\ images # Files!Gone /\ db \ images \subseteq torn
    /\ res.pc # "idle" =>
         /\ \A b \in Process : bak[b].pc # "images"
         /\ res.from.images # Files!Gone /\ res.from.db \ res.from.images \subseteq torn
         /\ res.pc \in {"images aside", "images"} => db = res.from.db
    /\ \A b \in Process :
         bak[b].pc = "images" /\ ~bak[b].skip => bak[b].db \ images \subseteq torn
    /\ Files!ArchivedFaceHasImage

\* Backups that come one at a time write archives that are newer and newer, so that
\* the one just written is the newest when the retention runs.
GoodInv ==
  ~crowded =>
    /\ \A b, c \in Process : bak[b].pc # "idle" /\ bak[c].pc # "idle" => b = c
    /\ \A s \in Files!Second : archive[s] # Files!NoArchive => s <= clock
    /\ \A b \in Process : bak[b].pc = "images" =>
         /\ archive[bak[b].name] \in {Files!NoArchive, Files!Part} /\ bak[b].name <= clock
         /\ \A s \in Files!Second : archive[s] # Files!NoArchive => s <= bak[b].name
    /\ \A b \in Process : bak[b].pc = "retain" =>
         \E s \in Files!Second :
           /\ Files!Complete(s)
           /\ \A t \in Files!Second : archive[t] # Files!NoArchive => t <= s
    /\ proven => \E s \in Files!Second : Files!Complete(s)

FilesInv == Files!TypeOK /\ KeptInv /\ ImageInv /\ GoodInv

LEMMA KeptFrame ==
  ASSUME KeptInv, UNCHANGED <<db, images, half, aside, res, kept, hurried>>
  PROVE  KeptInv'
BY DEF KeptInv

LEMMA ImageFrame ==
  ASSUME ImageInv, UNCHANGED <<db, images, res, bak, archive, torn, mixed>>
  PROVE  ImageInv'
BY DEF ImageInv, Files!ArchivedFaceHasImage, Files!Complete, Files!Closed

LEMMA GoodFrame ==
  ASSUME GoodInv, UNCHANGED <<clock, bak, archive, crowded, proven>>
  PROVE  GoodInv'
BY DEF GoodInv, Files!Complete, Files!Closed

-----------------------------------------------------------------------------
(* The application and the clock. *)

LEMMA TickKeeps ==
  ASSUME FilesInv, Files!Tick
  PROVE  FilesInv'
<1>1. /\ clock < MaxClock /\ clock' = clock + 1
      /\ UNCHANGED <<db, images, half, archive, aside, bak, res, begun,
                     kept, torn, crowded, hurried, proven, mixed>>
  BY DEF Files!Tick, Files!live, Files!past
<1>2. clock \in Nat /\ clock <= clock' /\ clock' \in Files!Second
  BY <1>1, BoundAssumption DEF FilesInv, Files!TypeOK, Files!Second
<1>3. Files!TypeOK'
  BY <1>1, <1>2 DEF FilesInv, Files!TypeOK
<1>4. GoodInv'
  <2>1. \A s \in Files!Second : s \in Nat /\ (s <= clock => s <= clock')
    BY <1>1, <1>2, BoundAssumption DEF Files!Second
  <2>2. \A b \in Process : bak[b].pc = "images" => bak[b].name \in Files!Second
    BY FilesBak DEF FilesInv
  <2> QED
    BY <1>1, <2>1, <2>2 DEF FilesInv, GoodInv, Files!Complete, Files!Closed
<1> QED
  BY <1>1, <1>3, <1>4, KeptFrame, ImageFrame DEF FilesInv

LEMMA ApplicationKeeps ==
  ASSUME FilesInv, NEW f \in Face,
         Files!SaveImage(f) \/ Files!StoreEmbedding(f) \/ Files!DeleteFace(f)
  PROVE  FilesInv'
<1>1. /\ res.pc = "idle" /\ db \subseteq Face /\ images \subseteq Face
      /\ db # Files!Gone /\ images # Files!Gone
      /\ UNCHANGED <<clock, archive, aside, bak, res, begun, crowded, hurried, proven, mixed>>
  BY FilesRes, FilesThere
  DEF FilesInv, Files!TypeOK, Files!SaveImage, Files!StoreEmbedding, Files!DeleteFace,
      Files!Up, Files!past
<1>2. \A x : x \subseteq Face => x \in Files!Faces /\ x # Files!Gone
  BY FaceAssumption DEF Files!Faces, Files!Gone
<1>3. GoodInv'
  BY <1>1, GoodFrame DEF FilesInv
<1>4. CASE Files!SaveImage(f)
  <2>1. /\ f \notin images \cup db /\ images' = images \cup {f} /\ half' = half \cup {f}
        /\ UNCHANGED <<db, kept, torn>>
    BY <1>4 DEF Files!SaveImage, Files!past
  <2>2. Files!TypeOK'
    BY <1>1, <1>2, <2>1 DEF FilesInv, Files!TypeOK
  <2>3. KeptInv'
    BY <1>1, <2>1 DEF FilesInv, KeptInv
  <2>4. ImageInv'
    BY <1>1, <1>2, <2>1
    DEF FilesInv, ImageInv, Files!ArchivedFaceHasImage, Files!Complete, Files!Closed
  <2> QED
    BY <1>3, <2>2, <2>3, <2>4 DEF FilesInv
<1>5. CASE Files!StoreEmbedding(f)
  <2>1. /\ f \in half /\ db' = db \cup {f} /\ half' = half \ {f} /\ kept' = kept \cup {f}
        /\ UNCHANGED <<images, torn>>
    BY <1>5 DEF Files!StoreEmbedding
  <2>2. Files!TypeOK'
    BY <1>1, <1>2, <2>1 DEF FilesInv, Files!TypeOK
  <2>3. KeptInv'
    BY <1>1, <2>1 DEF FilesInv, KeptInv
  <2>4. ImageInv'
    BY <1>1, <1>2, <2>1
    DEF FilesInv, KeptInv, ImageInv, Files!ArchivedFaceHasImage, Files!Complete, Files!Closed
  <2> QED
    BY <1>3, <2>2, <2>3, <2>4 DEF FilesInv
<1>6. CASE Files!DeleteFace(f)
  <2>1. /\ f \in db /\ db' = db \ {f} /\ images' = images \ {f} /\ kept' = kept \ {f}
        /\ half' = half
        /\ torn' = IF \E b \in Process : bak[b].pc = "images" THEN torn \cup {f} ELSE torn
    BY <1>6 DEF Files!DeleteFace
  <2>2. Files!TypeOK'
    BY <1>1, <1>2, <2>1 DEF FilesInv, Files!TypeOK
  <2>3. KeptInv'
    BY <1>1, <2>1 DEF FilesInv, KeptInv
  <2>4. ImageInv'
    BY <1>1, <1>2, <2>1
    DEF FilesInv, ImageInv, Files!ArchivedFaceHasImage, Files!Complete, Files!Closed
  <2> QED
    BY <1>3, <2>2, <2>3, <2>4 DEF FilesInv
<1> QED
  BY <1>4, <1>5, <1>6

LEMMA StartupKeeps ==
  ASSUME FilesInv, Files!Startup
  PROVE  FilesInv'
<1>1. /\ res.pc = "idle" /\ (db = Files!Gone \/ images = Files!Gone)
      /\ UNCHANGED <<clock, archive, aside, bak, res, begun, half,
                     kept, torn, crowded, hurried, proven, mixed>>
  BY FilesRes DEF FilesInv, Files!Startup, Files!Up, Files!past
<1>2. /\ db' = IF db = Files!Gone THEN {} ELSE db
      /\ images' = IF images = Files!Gone THEN {} ELSE images
  BY DEF Files!Startup
<1>3. db \in Files!Faces /\ images \in Files!Faces /\ kept \subseteq Face /\ half \subseteq Face
  BY DEF FilesInv, Files!TypeOK
<1>4. \A g \in Face : (g \in db => g \in db') /\ (g \in images => g \in images')
  BY <1>2, <1>3, FilesThere
<1>5. Files!TypeOK'
  BY <1>1, <1>2 DEF FilesInv, Files!TypeOK, Files!Faces
<1>6. KeptInv'
  <2>1. db' \subseteq db
    BY <1>2
  <2> QED
    BY <1>1, <1>3, <1>4, <2>1 DEF FilesInv, KeptInv
<1>7. ImageInv'
  BY <1>1 DEF FilesInv, ImageInv
<1> QED
  BY <1>1, <1>5, <1>6, <1>7, GoodFrame DEF FilesInv

-----------------------------------------------------------------------------
(* The backups. *)

LEMMA SnapshotKeeps ==
  ASSUME FilesInv, NEW b \in Process, Files!SnapshotDatabase(b)
  PROVE  FilesInv'
<1>1. /\ bak[b].pc = "idle"
      /\ UNCHANGED <<clock, db, images, half, archive, aside, res, begun,
                     kept, torn, hurried, proven>>
  BY FilesBak DEF FilesInv, Files!SnapshotDatabase, Files!live
<1>2. PICK skip \in BOOLEAN :
        bak' = [bak EXCEPT ![b] = [pc |-> "images", name |-> clock,
                                   skip |-> skip \/ images = Files!Gone, db |-> db]]
  BY DEF Files!SnapshotDatabase
<1>3. /\ crowded' = (crowded \/ archive[clock] # Files!NoArchive
                             \/ \E c \in Process : bak[c] # Files!Idle)
      /\ mixed' = (mixed \/ res # Files!Idle)
  BY DEF Files!SnapshotDatabase
<1>4. clock \in Files!Second /\ db \in Files!Faces
  BY DEF FilesInv, Files!TypeOK
<1> DEFINE work == [pc |-> "images", name |-> clock,
                    skip |-> skip \/ images = Files!Gone, db |-> db]
<1>5. work \in Files!BackupWork
  BY <1>4 DEF Files!BackupWork
<1>6. /\ work.pc = "images" /\ work.name = clock /\ work.db = db
      /\ ~work.skip => images # Files!Gone
  OBVIOUS
<1>7. bak' = [bak EXCEPT ![b] = work]
  BY <1>2
<1> HIDE DEF work
<1>8. /\ bak' \in [Process -> Files!BackupWork] /\ bak'[b] = work
      /\ \A c \in Process \ {b} : bak'[c] = bak[c]
  BY <1>5, <1>7, FilesBakGoes DEF FilesInv
<1>9. Files!TypeOK'
  BY <1>1, <1>3, <1>8 DEF FilesInv, Files!TypeOK
<1>10. ImageInv'
  <2>1. ~mixed' => ~mixed /\ res.pc = "idle"
    BY <1>3, FilesRes DEF FilesInv
  <2> QED
    BY <1>1, <1>6, <1>8, <2>1
    DEF FilesInv, ImageInv, Files!ArchivedFaceHasImage, Files!Complete, Files!Closed
<1>11. GoodInv'
  <2>1. ~crowded' => /\ ~crowded /\ archive[clock] = Files!NoArchive
                     /\ \A c \in Process : bak[c].pc = "idle"
    BY <1>3, FilesBak DEF FilesInv
  <2>2. clock <= clock
    BY <1>4, BoundAssumption DEF Files!Second
  <2> QED
    BY <1>1, <1>6, <1>8, <2>1, <2>2 DEF FilesInv, GoodInv, Files!Complete, Files!Closed
<1> QED
  BY <1>1, <1>9, <1>10, <1>11, KeptFrame DEF FilesInv

LEMMA OpenArchiveKeeps ==
  ASSUME FilesInv, NEW b \in Process, Files!OpenArchive(b)
  PROVE  FilesInv'
<1> DEFINE n == bak[b].name
<1>1. /\ bak[b].pc = "images" /\ n \in Files!Second
      /\ archive' = [archive EXCEPT ![n] = Files!Part]
      /\ UNCHANGED <<clock, db, images, half, aside, bak, res, begun,
                     kept, torn, crowded, hurried, proven, mixed>>
  BY FilesBak DEF FilesInv, Files!OpenArchive, Files!live, Files!past
<1>2. /\ archive' \in [Files!Second -> Files!Tar \cup {Files!Part, Files!NoArchive}]
      /\ archive'[n] = Files!Part /\ \A s \in Files!Second \ {n} : archive'[s] = archive[s]
  BY <1>1 DEF FilesInv, Files!TypeOK
<1>3. n = bak[b].name
  OBVIOUS
<1> HIDE DEF n
<1>4. Files!TypeOK'
  BY <1>1, <1>2 DEF FilesInv, Files!TypeOK
<1>5. ImageInv'
  BY <1>1, <1>2
  DEF FilesInv, ImageInv, Files!ArchivedFaceHasImage, Files!Complete, Files!Closed
<1>6. GoodInv'
  <2>1. CASE crowded
    BY <1>1, <2>1 DEF GoodInv
  <2>2. CASE ~crowded
    <3>1. /\ archive[n] \in {Files!NoArchive, Files!Part} /\ n <= clock
          /\ \A s \in Files!Second : archive[s] # Files!NoArchive => s <= n
          /\ \A c \in Process : bak[c].pc # "idle" => c = b
      BY <1>1, <1>3, <2>2 DEF FilesInv, GoodInv
    <3>2. n <= n
      BY <1>1, BoundAssumption DEF Files!Second
    <3>3. proven => \E s \in Files!Second : Files!Complete(s)'
      BY <1>2, <2>2, <3>1 DEF FilesInv, GoodInv, Files!Complete, Files!Closed
    <3> QED
      BY <1>1, <1>2, <1>3, <2>2, <3>1, <3>2, <3>3 DEF FilesInv, GoodInv
  <2> QED
    BY <2>1, <2>2
<1> QED
  BY <1>1, <1>4, <1>5, <1>6, KeptFrame DEF FilesInv

LEMMA WriteArchiveKeeps ==
  ASSUME FilesInv, NEW b \in Process, Files!WriteArchive(b)
  PROVE  FilesInv'
<1> DEFINE n == bak[b].name
           a == [db |-> bak[b].db, images |-> IF bak[b].skip THEN Files!Gone ELSE images,
                 cut |-> FALSE]
<1>1. /\ bak[b].pc = "images" /\ n \in Files!Second
      /\ bak[b].skip \in BOOLEAN /\ bak[b].db \in Files!Faces
      /\ archive' = [archive EXCEPT ![n] = a]
      /\ proven' = TRUE
      /\ UNCHANGED <<clock, db, images, half, aside, res, begun,
                     kept, torn, crowded, hurried, mixed>>
  BY FilesBak DEF FilesInv, Files!WriteArchive, Files!live
<1>2. a \in Files!Tar
  <2>1. images \in Files!Faces /\ Files!Gone \in Files!Faces
    BY DEF FilesInv, Files!TypeOK, Files!Faces
  <2>2. (IF bak[b].skip THEN Files!Gone ELSE images) \in Files!Faces
    BY <2>1
  <2> QED
    BY <1>1, <2>2 DEF Files!Tar
<1>3. /\ a.db = bak[b].db /\ a.cut = FALSE
      /\ a.images # Files!Gone => ~bak[b].skip /\ a.images = images
  BY <1>1
<1>4. n = bak[b].name
  OBVIOUS
<1> HIDE DEF n, a
<1>5. /\ archive' \in [Files!Second -> Files!Tar \cup {Files!Part, Files!NoArchive}]
      /\ archive'[n] = a /\ \A s \in Files!Second \ {n} : archive'[s] = archive[s]
  BY <1>1, <1>2 DEF FilesInv, Files!TypeOK
<1>6. archive'[n] \notin {Files!Part, Files!NoArchive} /\ ~archive'[n].cut
  <2>1. a \notin {Files!Part, Files!NoArchive}
    BY <1>2, FilesTar
  <2> QED
    BY <1>3, <1>5, <2>1
<1>7. /\ bak' \in [Process -> Files!BackupWork] /\ bak'[b].pc = "retain"
      /\ \A c \in Process \ {b} : bak'[c] = bak[c]
  <2>1. [pc |-> "retain"] \in Files!BackupWork
    BY DEF Files!BackupWork
  <2>2. bak' = [bak EXCEPT ![b] = [pc |-> "retain"]]
    BY DEF Files!WriteArchive
  <2> QED
    BY <2>1, <2>2, FilesBakGoes DEF FilesInv
<1>8. Files!TypeOK'
  BY <1>1, <1>5, <1>7 DEF FilesInv, Files!TypeOK
<1>9. ImageInv'
  <2>1. CASE mixed
    BY <1>1, <2>1 DEF ImageInv
  <2>2. CASE ~mixed
    <3>1. a.images # Files!Gone => a.db \ a.images \subseteq torn
      BY <1>1, <1>3, <2>2 DEF FilesInv, ImageInv
    <3>2. Files!ArchivedFaceHasImage'
      BY <1>1, <1>5, <2>2, <3>1
      DEF FilesInv, ImageInv, Files!ArchivedFaceHasImage, Files!Complete, Files!Closed
    <3> QED
      BY <1>1, <1>7, <2>2, <3>2 DEF FilesInv, ImageInv
  <2> QED
    BY <2>1, <2>2
<1>10. GoodInv'
  <2>1. CASE crowded
    BY <1>1, <2>1 DEF GoodInv
  <2>2. CASE ~crowded
    <3>1. /\ n <= clock /\ \A s \in Files!Second : archive[s] # Files!NoArchive => s <= n
          /\ \A c \in Process : bak[c].pc # "idle" => c = b
      BY <1>1, <1>4, <2>2 DEF FilesInv, GoodInv
    <3>2. n <= n
      BY <1>1, BoundAssumption DEF Files!Second
    <3>3. \A s \in Files!Second : archive'[s] # Files!NoArchive => s <= n /\ s <= clock
      BY <1>5, <2>2, <3>1, <3>2 DEF FilesInv, GoodInv
    <3>4. \A c \in Process : bak'[c].pc # "idle" => c = b
      BY <1>7, <3>1
    <3> QED
      BY <1>1, <1>6, <1>7, <3>3, <3>4 DEF GoodInv, Files!Complete, Files!Closed
  <2> QED
    BY <2>1, <2>2
<1> QED
  BY <1>1, <1>8, <1>9, <1>10, KeptFrame DEF FilesInv

LEMMA FailArchiveKeeps ==
  ASSUME FilesInv, NEW b \in Process, Files!FailArchive(b)
  PROVE  FilesInv'
<1> DEFINE n == bak[b].name
<1>1. /\ bak[b].pc = "images" /\ n \in Files!Second /\ archive[n] = Files!Part
      /\ bak[b].db \in Files!Faces
      /\ UNCHANGED <<clock, db, images, half, aside, res, begun,
                     kept, torn, crowded, hurried, proven, mixed>>
  BY FilesBak DEF FilesInv, Files!FailArchive, Files!live, Files!past
<1>2. PICK a \in Files!Tar : a.cut = TRUE /\ archive' = [archive EXCEPT ![n] = a]
  <2>1. PICK got \in Files!Faces :
          archive' = [archive EXCEPT ![n] = [db |-> bak[b].db, images |-> got, cut |-> TRUE]]
    BY DEF Files!FailArchive
  <2> QED
    BY <1>1, <2>1 DEF Files!Tar
<1>3. n = bak[b].name
  OBVIOUS
<1> HIDE DEF n
<1>4. /\ archive' \in [Files!Second -> Files!Tar \cup {Files!Part, Files!NoArchive}]
      /\ archive'[n] = a /\ \A s \in Files!Second \ {n} : archive'[s] = archive[s]
  BY <1>1, <1>2 DEF FilesInv, Files!TypeOK
<1>5. /\ bak' \in [Process -> Files!BackupWork] /\ bak'[b].pc = "idle"
      /\ \A c \in Process \ {b} : bak'[c] = bak[c]
  <2>1. Files!Idle \in Files!BackupWork /\ Files!Idle.pc = "idle"
    BY DEF Files!BackupWork, Files!Idle
  <2>2. bak' = [bak EXCEPT ![b] = Files!Idle]
    BY DEF Files!FailArchive
  <2> QED
    BY <2>1, <2>2, FilesBakGoes DEF FilesInv
<1>6. Files!TypeOK'
  BY <1>1, <1>4, <1>5 DEF FilesInv, Files!TypeOK
<1>7. ImageInv'
  <2>1. CASE mixed
    BY <1>1, <2>1 DEF ImageInv
  <2>2. CASE ~mixed
    <3>1. Files!ArchivedFaceHasImage'
      BY <1>1, <1>2, <1>4, <2>2
      DEF FilesInv, ImageInv, Files!ArchivedFaceHasImage, Files!Complete, Files!Closed
    <3> QED
      BY <1>1, <1>5, <2>2, <3>1 DEF FilesInv, ImageInv
  <2> QED
    BY <2>1, <2>2
<1>8. GoodInv'
  <2>1. CASE crowded
    BY <1>1, <2>1 DEF GoodInv
  <2>2. CASE ~crowded
    <3>1. /\ n <= clock /\ \A s \in Files!Second : archive[s] # Files!NoArchive => s <= n
          /\ \A c \in Process : bak[c].pc # "idle" => c = b
      BY <1>1, <1>3, <2>2 DEF FilesInv, GoodInv
    <3>2. \A s \in Files!Second : archive'[s] # Files!NoArchive => s <= clock
      BY <1>4, <2>2, <3>1 DEF FilesInv, GoodInv
    <3>3. \A c \in Process : bak'[c].pc = "idle"
      BY <1>5, <3>1, FilesBak DEF FilesInv
    <3>4. proven => \E s \in Files!Second : Files!Complete(s)'
      BY <1>1, <1>4, <2>2 DEF FilesInv, GoodInv, Files!Complete, Files!Closed
    <3> QED
      BY <1>1, <3>2, <3>3, <3>4 DEF GoodInv
  <2> QED
    BY <2>1, <2>2
<1> QED
  BY <1>1, <1>6, <1>7, <1>8, KeptFrame DEF FilesInv

LEMMA RetainKeeps ==
  ASSUME FilesInv, NEW b \in Process, Files!Retain(b)
  PROVE  FilesInv'
<1>1. /\ bak[b].pc = "retain"
      /\ UNCHANGED <<clock, db, images, half, aside, res, begun,
                     kept, torn, crowded, hurried, proven, mixed>>
  BY DEF Files!Retain, Files!live, Files!past
<1>2. /\ bak' \in [Process -> Files!BackupWork] /\ bak'[b].pc = "idle"
      /\ \A c \in Process \ {b} : bak'[c] = bak[c]
  <2>1. Files!Idle \in Files!BackupWork /\ Files!Idle.pc = "idle"
    BY DEF Files!BackupWork, Files!Idle
  <2>2. bak' = [bak EXCEPT ![b] = Files!Idle]
    BY DEF Files!Retain
  <2> QED
    BY <2>1, <2>2, FilesBakGoes DEF FilesInv
<1>3. archive' = [s \in Files!Second |->
        IF Keep > 0 /\ s \in Files!Archives /\ Files!Cardinality(Files!Newer(s)) >= Keep
        THEN Files!NoArchive ELSE archive[s]]
  BY Zenon DEF Files!Retain
<1>4. \A s \in Files!Second : archive'[s] \in {archive[s], Files!NoArchive}
  BY <1>3
<1>5. archive' \in [Files!Second -> Files!Tar \cup {Files!Part, Files!NoArchive}]
  BY <1>3 DEF FilesInv, Files!TypeOK
<1>6. ASSUME NEW s \in Files!Second,
             \A t \in Files!Second : archive[t] # Files!NoArchive => t <= s
      PROVE  archive'[s] = archive[s]
  <2>1. Files!Newer(s) = {}
    BY <1>6, BoundAssumption DEF Files!Newer, Files!Archives, Files!Second
  <2>2. Files!Cardinality(Files!Newer(s)) = Cardinality(Files!Newer(s))
    BY Zenon DEF Files!Cardinality, Cardinality
  <2>3. Files!Cardinality(Files!Newer(s)) = 0
    BY <2>1, <2>2, FS_EmptySet
  <2> QED
    BY <1>3, <2>3, KeepAssumption
<1>7. Files!TypeOK'
  BY <1>1, <1>2, <1>5 DEF FilesInv, Files!TypeOK
<1>8. ImageInv'
  <2>1. Files!ArchivedFaceHasImage => Files!ArchivedFaceHasImage'
    BY <1>1, <1>4 DEF Files!ArchivedFaceHasImage, Files!Complete, Files!Closed
  <2> QED
    BY <1>1, <1>2, <2>1 DEF FilesInv, ImageInv
<1>9. GoodInv'
  <2>1. CASE crowded
    BY <1>1, <2>1 DEF GoodInv
  <2>2. CASE ~crowded
    <3>1. PICK s \in Files!Second :
            /\ Files!Complete(s)
            /\ \A t \in Files!Second : archive[t] # Files!NoArchive => t <= s
      BY <1>1, <2>2 DEF FilesInv, GoodInv
    <3>2. Files!Complete(s)'
      BY <1>6, <3>1 DEF Files!Complete, Files!Closed
    <3>3. \A c \in Process : bak'[c].pc = "idle"
      BY <1>1, <1>2, <2>2 DEF FilesInv, GoodInv
    <3> QED
      BY <1>1, <1>4, <2>2, <3>2, <3>3 DEF FilesInv, GoodInv
  <2> QED
    BY <2>1, <2>2
<1> QED
  BY <1>1, <1>7, <1>8, <1>9, KeptFrame DEF FilesInv

LEMMA KillBackupKeeps ==
  ASSUME FilesInv, NEW b \in Process, Files!KillBackup(b)
  PROVE  FilesInv'
<1>1. UNCHANGED <<clock, db, images, half, archive, aside, res, begun,
                  kept, torn, crowded, hurried, proven, mixed>>
  BY DEF Files!KillBackup, Files!live, Files!past
<1>2. /\ bak' \in [Process -> Files!BackupWork] /\ bak'[b].pc = "idle"
      /\ \A c \in Process \ {b} : bak'[c] = bak[c]
  <2>1. Files!Idle \in Files!BackupWork /\ Files!Idle.pc = "idle"
    BY DEF Files!BackupWork, Files!Idle
  <2>2. bak' = [bak EXCEPT ![b] = Files!Idle]
    BY DEF Files!KillBackup
  <2> QED
    BY <2>1, <2>2, FilesBakGoes DEF FilesInv
<1>3. Files!TypeOK'
  BY <1>1, <1>2 DEF FilesInv, Files!TypeOK
<1>4. ImageInv'
  BY <1>1, <1>2
  DEF FilesInv, ImageInv, Files!ArchivedFaceHasImage, Files!Complete, Files!Closed
<1>5. GoodInv'
  BY <1>1, <1>2 DEF FilesInv, GoodInv, Files!Complete, Files!Closed
<1> QED
  BY <1>1, <1>3, <1>4, <1>5, KeptFrame DEF FilesInv

-----------------------------------------------------------------------------
(* The restores. *)

\* Moving on, a restore has the same archive in hand.
LEMMA FilesResGoes ==
  ASSUME Files!TypeOK, res.pc # "idle",
         NEW step \in {"db aside", "db", "images aside", "images"},
         res' = [res EXCEPT !.pc = step]
  PROVE  /\ res' \in Files!RestoreWork /\ res'.pc = step /\ res'.from = res.from
         /\ res'.pc # "idle"
<1>1. res \in [pc : {"db aside", "db", "images aside", "images"}, from : Files!Copy]
  BY FilesRes
<1>2. res' = [pc |-> step, from |-> res.from] /\ res.from \in Files!Copy
  BY <1>1
<1> QED
  BY <1>2 DEF Files!RestoreWork

LEMMA RestoreBeginKeeps ==
  ASSUME FilesInv, NEW s \in Files!Second, Files!RestoreBegin(s)
  PROVE  FilesInv'
<1>1. /\ res.pc = "idle" /\ archive[s] \notin {Files!Part, Files!NoArchive}
      /\ archive[s].db # Files!Gone
      /\ half' = {} /\ begun' = begun + 1 /\ begun < MaxRestore
      /\ UNCHANGED <<clock, db, images, archive, aside, bak, kept, torn, crowded, hurried, proven>>
  BY FilesRes DEF FilesInv, Files!RestoreBegin, Files!Restorable, Files!Closed
<1>2. PICK skip \in BOOLEAN :
        LET from == [db |-> archive[s].db,
                     images |-> IF skip THEN Files!Gone ELSE archive[s].images]
        IN  /\ res' = [pc |-> "db aside", from |-> from]
            /\ mixed' = (mixed \/ from.images = Files!Gone \/ archive[s].cut
                               \/ \E b \in Process : bak[b].pc = "images")
  BY DEF Files!RestoreBegin
<1> DEFINE from == [db |-> archive[s].db,
                    images |-> IF skip THEN Files!Gone ELSE archive[s].images]
<1>3. /\ archive[s].db \subseteq Face /\ archive[s].images \in Files!Faces
      /\ archive[s].cut \in BOOLEAN
  BY <1>1, FilesTar, FilesThere DEF FilesInv, Files!TypeOK
<1>4. /\ from.db = archive[s].db
      /\ from.images = IF skip THEN Files!Gone ELSE archive[s].images
  OBVIOUS
<1>5. from \in Files!Copy
  BY <1>3 DEF Files!Copy, Files!Faces
<1>6. /\ res' = [pc |-> "db aside", from |-> from]
      /\ mixed' = (mixed \/ from.images = Files!Gone \/ archive[s].cut
                         \/ \E b \in Process : bak[b].pc = "images")
  BY <1>2
<1> HIDE DEF from
<1>7. res' \in Files!RestoreWork /\ res'.pc = "db aside" /\ res'.from = from
  BY <1>5, <1>6 DEF Files!RestoreWork
<1>8. mixed' \in BOOLEAN /\ begun' \in 0..MaxRestore
  <2>1. mixed' \in BOOLEAN
    BY <1>6
  <2>2. begun' \in 0..MaxRestore
    BY <1>1, BoundAssumption DEF FilesInv, Files!TypeOK
  <2> QED
    BY <2>1, <2>2
<1>9. Files!TypeOK'
  BY <1>1, <1>7, <1>8 DEF FilesInv, Files!TypeOK
<1>10. KeptInv'
  BY <1>1, <1>7 DEF FilesInv, KeptInv
<1>11. ImageInv'
  <2>1. CASE mixed'
    BY <2>1 DEF ImageInv
  <2>2. CASE ~mixed'
    <3>1. /\ ~mixed /\ from.images # Files!Gone /\ ~archive[s].cut
          /\ \A b \in Process : bak[b].pc # "images"
      BY <1>6, <2>2
    <3>2. from.db \ from.images \subseteq torn
      BY <1>1, <1>4, <3>1
      DEF FilesInv, ImageInv, Files!ArchivedFaceHasImage, Files!Complete, Files!Closed
    <3> QED
      BY <1>1, <1>7, <3>1, <3>2
      DEF FilesInv, ImageInv, Files!ArchivedFaceHasImage, Files!Complete, Files!Closed
  <2> QED
    BY <2>1, <2>2
<1> QED
  BY <1>1, <1>9, <1>10, <1>11, GoodFrame DEF FilesInv

LEMMA DatabaseAsideKeeps ==
  ASSUME FilesInv, Files!DatabaseAside
  PROVE  FilesInv'
<1>1. /\ res.pc = "db aside" /\ res' = [res EXCEPT !.pc = "db"]
      /\ UNCHANGED <<clock, images, half, archive, begun, bak, kept, torn, crowded, proven, mixed>>
  BY DEF Files!DatabaseAside
<1>2. /\ res' \in Files!RestoreWork /\ res'.pc = "db" /\ res'.from = res.from
      /\ res'.pc # "idle"
  BY <1>1, FilesResGoes DEF FilesInv
<1>3. /\ aside \in [Files!Second -> [db : Files!Faces, images : Files!Faces]]
      /\ clock \in Files!Second /\ db \in Files!Faces /\ kept \subseteq Face
  BY DEF FilesInv, Files!TypeOK
<1>4. CASE db = Files!Gone
  <2>1. UNCHANGED <<db, aside, hurried>>
    BY <1>4 DEF Files!DatabaseAside
  <2>2. Files!TypeOK'
    BY <1>1, <1>2, <2>1 DEF FilesInv, Files!TypeOK
  <2>3. KeptInv'
    BY <1>1, <1>2, <1>4, <2>1 DEF FilesInv, KeptInv
  <2>4. ImageInv'
    BY <1>1, <1>2, <2>1
    DEF FilesInv, ImageInv, Files!ArchivedFaceHasImage, Files!Complete, Files!Closed
  <2> QED
    BY <1>1, <2>2, <2>3, <2>4, GoodFrame DEF FilesInv
<1>5. CASE db # Files!Gone
  <2>1. /\ aside' = [aside EXCEPT ![clock].db = db] /\ db' = Files!Gone
        /\ hurried' = (hurried \/ aside[clock].db # Files!Gone)
    BY <1>5 DEF Files!DatabaseAside
  <2>2. /\ aside' \in [Files!Second -> [db : Files!Faces, images : Files!Faces]]
        /\ aside'[clock].db = db /\ aside'[clock].images = aside[clock].images
        /\ \A s \in Files!Second \ {clock} : aside'[s] = aside[s]
    BY <1>3, <2>1
  <2>3. Files!TypeOK'
    BY <1>1, <1>2, <2>1, <2>2 DEF FilesInv, Files!TypeOK, Files!Faces
  <2>4. KeptInv'
    <3>1. half = {} /\ half' = {}
      BY <1>1 DEF FilesInv, KeptInv
    <3>2. ASSUME NEW f \in kept, ~hurried'
          PROVE  /\ \E s \in Files!Second : f \in aside'[s].db
                 /\ f \in images \/ \E s \in Files!Second : f \in aside'[s].images
      <4>1. aside[clock].db = Files!Gone /\ "gone" \notin kept
        BY <1>3, <2>1, <3>2, FaceAssumption
      <4>2. f \notin aside[clock].db
        BY <4>1 DEF Files!Gone
      <4>3. /\ f \in db \/ \E s \in Files!Second : f \in aside[s].db
            /\ f \in images \/ \E s \in Files!Second : f \in aside[s].images
        BY <2>1, <3>2 DEF FilesInv, KeptInv
      <4>4. \E s \in Files!Second : f \in aside'[s].db
        BY <1>3, <2>2, <4>2, <4>3
      <4>5. f \in images \/ \E s \in Files!Second : f \in aside'[s].images
        BY <1>3, <2>2, <4>3
      <4> QED
        BY <4>4, <4>5
    <3> QED
      BY <1>1, <1>2, <2>1, <3>1, <3>2 DEF KeptInv
  <2>5. ImageInv'
    BY <1>1, <1>2
    DEF FilesInv, ImageInv, Files!ArchivedFaceHasImage, Files!Complete, Files!Closed
  <2> QED
    BY <1>1, <2>3, <2>4, <2>5, GoodFrame DEF FilesInv
<1> QED
  BY <1>4, <1>5

LEMMA DatabaseInKeeps ==
  ASSUME FilesInv, Files!DatabaseIn
  PROVE  FilesInv'
<1>1. /\ res.pc = "db" /\ db' = res.from.db
      /\ UNCHANGED <<clock, images, half, archive, aside, begun, bak,
                     kept, torn, crowded, hurried, proven, mixed>>
  BY DEF Files!DatabaseIn, Files!past
<1>2. /\ res' \in Files!RestoreWork
      /\ \/ res.from.images = Files!Gone /\ res'.pc = "idle"
         \/ res'.pc = "images aside" /\ res'.from = res.from
  <2>1. CASE res.from.images = Files!Gone
    BY <2>1 DEF Files!DatabaseIn, Files!RestoreWork, Files!Idle
  <2>2. CASE res.from.images # Files!Gone
    <3>1. res' = [res EXCEPT !.pc = "images aside"]
      BY <2>2 DEF Files!DatabaseIn
    <3> QED
      BY <1>1, <3>1, FilesResGoes DEF FilesInv
  <2> QED
    BY <2>1, <2>2
<1>3. db' \subseteq Face /\ db' \in Files!Faces
  BY <1>1, FilesRes DEF FilesInv, Files!Faces
<1>4. Files!TypeOK'
  BY <1>1, <1>2, <1>3 DEF FilesInv, Files!TypeOK
<1>5. KeptInv'
  <2>1. db = Files!Gone /\ half = {}
    BY <1>1 DEF FilesInv, KeptInv
  <2>2. \A f \in kept : f \notin db
    BY <2>1, FaceAssumption DEF Files!Gone, FilesInv, Files!TypeOK
  <2> QED
    BY <1>1, <1>2, <2>1, <2>2 DEF FilesInv, KeptInv
<1>6. ImageInv'
  BY <1>1, <1>2
  DEF FilesInv, ImageInv, Files!ArchivedFaceHasImage, Files!Complete, Files!Closed
<1> QED
  BY <1>1, <1>4, <1>5, <1>6, GoodFrame DEF FilesInv

LEMMA ImagesAsideKeeps ==
  ASSUME FilesInv, Files!ImagesAside
  PROVE  FilesInv'
<1>1. /\ res.pc = "images aside" /\ res' = [res EXCEPT !.pc = "images"]
      /\ UNCHANGED <<clock, db, half, archive, begun, bak,
                     kept, torn, crowded, hurried, proven, mixed>>
  BY DEF Files!ImagesAside, Files!past
<1>2. /\ res' \in Files!RestoreWork /\ res'.pc = "images" /\ res'.from = res.from
      /\ res'.pc # "idle"
  BY <1>1, FilesResGoes DEF FilesInv
<1>3. /\ aside \in [Files!Second -> [db : Files!Faces, images : Files!Faces]]
      /\ clock \in Files!Second /\ images \in Files!Faces /\ kept \subseteq Face
  BY DEF FilesInv, Files!TypeOK
<1>4. ImageInv'
  BY <1>1, <1>2
  DEF FilesInv, ImageInv, Files!ArchivedFaceHasImage, Files!Complete, Files!Closed
<1>5. CASE images = Files!Gone
  <2>1. UNCHANGED <<images, aside>>
    BY <1>5 DEF Files!ImagesAside
  <2>2. Files!TypeOK'
    BY <1>1, <1>2, <2>1 DEF FilesInv, Files!TypeOK
  <2>3. KeptInv'
    BY <1>1, <1>2, <1>5, <2>1 DEF FilesInv, KeptInv
  <2> QED
    BY <1>1, <1>4, <2>2, <2>3, GoodFrame DEF FilesInv
<1>6. CASE images # Files!Gone
  <2> DEFINE both == IF aside[clock].images = Files!Gone THEN images
                     ELSE aside[clock].images \cup images
  <2>1. aside' = [aside EXCEPT ![clock].images = both] /\ images' = Files!Gone
    BY <1>6 DEF Files!ImagesAside
  <2>2. /\ both \in Files!Faces
        /\ \A f \in Face : f \in images \cup aside[clock].images => f \in both
    <3>1. aside[clock].images \in Files!Faces
      BY <1>3
    <3>2. CASE aside[clock].images = Files!Gone
      BY <1>3, <3>2, FaceAssumption DEF Files!Gone
    <3>3. CASE aside[clock].images # Files!Gone
      BY <1>3, <1>6, <3>1, <3>3 DEF Files!Faces
    <3> QED
      BY <3>2, <3>3
  <2> HIDE DEF both
  <2>3. /\ aside' \in [Files!Second -> [db : Files!Faces, images : Files!Faces]]
        /\ aside'[clock].images = both /\ aside'[clock].db = aside[clock].db
        /\ \A s \in Files!Second \ {clock} : aside'[s] = aside[s]
    BY <1>3, <2>1, <2>2
  <2>4. Files!TypeOK'
    BY <1>1, <1>2, <2>1, <2>3 DEF FilesInv, Files!TypeOK, Files!Faces
  <2>5. KeptInv'
    <3>1. half = {} /\ half' = {}
      BY <1>1 DEF FilesInv, KeptInv
    <3>2. ASSUME NEW f \in kept, ~hurried
          PROVE  /\ f \in db \/ \E s \in Files!Second : f \in aside'[s].db
                 /\ \E s \in Files!Second : f \in aside'[s].images
      <4>1. /\ f \in db \/ \E s \in Files!Second : f \in aside[s].db
            /\ f \in images \/ \E s \in Files!Second : f \in aside[s].images
        BY <3>2 DEF FilesInv, KeptInv
      <4>2. f \in Face
        BY <1>3
      <4>3. f \in db \/ \E s \in Files!Second : f \in aside'[s].db
        BY <1>3, <2>3, <4>1
      <4>4. \E s \in Files!Second : f \in aside'[s].images
        BY <1>3, <2>2, <2>3, <4>1, <4>2
      <4> QED
        BY <4>3, <4>4
    <3> QED
      BY <1>1, <1>2, <2>1, <3>1, <3>2 DEF FilesInv, KeptInv
  <2> QED
    BY <1>1, <1>4, <2>4, <2>5, GoodFrame DEF FilesInv
<1> QED
  BY <1>5, <1>6

LEMMA ImagesInKeeps ==
  ASSUME FilesInv, Files!ImagesIn
  PROVE  FilesInv'
<1>1. /\ res.pc = "images" /\ images' = res.from.images /\ res' = Files!Idle
      /\ UNCHANGED <<clock, db, half, archive, aside, begun, bak,
                     kept, torn, crowded, hurried, proven, mixed>>
  BY DEF Files!ImagesIn, Files!past
<1>2. res' \in Files!RestoreWork /\ res'.pc = "idle"
  BY <1>1 DEF Files!RestoreWork, Files!Idle
<1>3. res.from.images \in Files!Faces /\ res.from.db \subseteq Face
  BY <1>1, FilesRes DEF FilesInv
<1>4. Files!TypeOK'
  BY <1>1, <1>2, <1>3 DEF FilesInv, Files!TypeOK
<1>5. KeptInv'
  <2>1. images = Files!Gone /\ half = {}
    BY <1>1 DEF FilesInv, KeptInv
  <2>2. \A f \in kept : f \notin images
    BY <2>1, FaceAssumption DEF Files!Gone, FilesInv, Files!TypeOK
  <2> QED
    BY <1>1, <1>2, <2>1, <2>2 DEF FilesInv, KeptInv
<1>6. ImageInv'
  <2>1. res.from.db # Files!Gone
    BY <1>3, FaceAssumption DEF Files!Gone
  <2> QED
    BY <1>1, <1>2, <2>1
    DEF FilesInv, ImageInv, Files!ArchivedFaceHasImage, Files!Complete, Files!Closed
<1> QED
  BY <1>1, <1>4, <1>5, <1>6, GoodFrame DEF FilesInv

LEMMA KillRestoreKeeps ==
  ASSUME FilesInv, Files!KillRestore
  PROVE  FilesInv'
<1>1. /\ res.pc # "idle" /\ res' = Files!Idle /\ mixed' = TRUE
      /\ UNCHANGED <<clock, db, images, half, archive, aside, begun, bak,
                     kept, torn, crowded, hurried, proven>>
  BY FilesRes DEF FilesInv, Files!KillRestore, Files!live
<1>2. res' \in Files!RestoreWork /\ res'.pc = "idle"
  BY <1>1 DEF Files!RestoreWork, Files!Idle
<1>3. Files!TypeOK'
  BY <1>1, <1>2 DEF FilesInv, Files!TypeOK
<1>4. KeptInv'
  BY <1>1, <1>2 DEF FilesInv, KeptInv
<1>5. ImageInv'
  BY <1>1 DEF ImageInv
<1> QED
  BY <1>1, <1>3, <1>4, <1>5, GoodFrame DEF FilesInv

\* The archive of a completed backup has the image of every embedding in it, one such
\* archive outlives every retention (it can be restored, or was made while there was no
\* database), what students enrolled is live or aside, and after a restore every
\* embedding has its image: save what the history names.  This needs none of the limits
\* that the run sets on the two stories of BackupRestore.
THEOREM BackupsRestored ==
  /\ Files!Spec => []BackupsRestore
  /\ MCSpec => []BackupsRestore
<1>1. Files!Init => FilesInv
  <2> SUFFICES ASSUME Files!Init PROVE FilesInv
    OBVIOUS
  <2>1. res.pc = "idle" /\ \A b \in Process : bak[b].pc = "idle"
    BY DEF Files!Init, Files!Idle
  <2>2. Files!TypeOK
    <3>1. 1 \in Files!Second /\ 0 \in 0..MaxRestore
      BY BoundAssumption DEF Files!Second
    <3>2. Files!NoFiles \in [db : Files!Faces, images : Files!Faces] /\ {} \in Files!Faces
      BY DEF Files!NoFiles, Files!Faces
    <3>3. Files!Idle \in Files!BackupWork /\ Files!Idle \in Files!RestoreWork
      BY DEF Files!BackupWork, Files!RestoreWork
    <3> QED
      BY <3>1, <3>2, <3>3 DEF Files!Init, Files!TypeOK
  <2>3. KeptInv
    BY <2>1 DEF Files!Init, KeptInv
  <2>4. ImageInv
    BY <2>1
    DEF Files!Init, ImageInv, Files!ArchivedFaceHasImage, Files!Complete, Files!Closed, Files!Gone
  <2>5. GoodInv
    BY <2>1 DEF Files!Init, GoodInv
  <2> QED
    BY <2>2, <2>3, <2>4, <2>5 DEF FilesInv
<1>2. FilesInv /\ [Files!Next]_(Files!vars) => FilesInv'
  <2> SUFFICES ASSUME FilesInv, [Files!Next]_(Files!vars) PROVE FilesInv'
    OBVIOUS
  <2>1. CASE UNCHANGED Files!vars
    <3>1. UNCHANGED <<clock, db, images, archive, aside, bak, res, begun, half,
                      kept, torn, crowded, hurried, proven, mixed>>
      BY <2>1 DEF Files!vars
    <3>2. Files!TypeOK'
      BY <3>1 DEF FilesInv, Files!TypeOK
    <3> QED
      BY <3>1, <3>2, KeptFrame, ImageFrame, GoodFrame DEF FilesInv
  <2>2. UNCHANGED Files!vars \/ Files!Next
    OBVIOUS
  <2> QED
    BY <2>1, <2>2, TickKeeps, StartupKeeps, ApplicationKeeps, SnapshotKeeps, OpenArchiveKeeps,
       WriteArchiveKeeps, FailArchiveKeeps, RetainKeeps, KillBackupKeeps, RestoreBeginKeeps, DatabaseAsideKeeps,
       DatabaseInKeeps, ImagesAsideKeeps, ImagesInKeeps, KillRestoreKeeps DEF Files!Next
<1>3. FilesInv => BackupsRestore
  <2> SUFFICES ASSUME FilesInv
               PROVE  /\ Files!ArchivedFaceHasImage /\ Files!SomeGoodArchive
                      /\ Files!NothingLost /\ Files!RestoredFaceHasImage
    BY DEF FilesInv, BackupsRestore
  <2>1. Files!ArchivedFaceHasImage
    BY DEF FilesInv, ImageInv, Files!ArchivedFaceHasImage
  <2>2. Files!SomeGoodArchive
    BY DEF FilesInv, GoodInv, Files!SomeGoodArchive, Files!Restorable, Files!Complete
  <2>3. Files!NothingLost
    BY DEF FilesInv, KeptInv, Files!NothingLost
  <2>4. Files!RestoredFaceHasImage
    BY FilesRes DEF FilesInv, ImageInv, Files!RestoredFaceHasImage, Files!Up
  <2> QED
    BY <2>1, <2>2, <2>3, <2>4
<1>4. MCInit => Files!Init
  BY DEF MCInit
<1>5. [MCNext]_<<story, files, faces, vars>> => [Files!Next]_(Files!vars)
  BY DEF MCNext, files, Files!vars
<1>6. Files!Spec => []BackupsRestore
  BY <1>1, <1>2, <1>3, PTL DEF Files!Spec
<1>7. MCSpec => []BackupsRestore
  BY <1>1, <1>2, <1>3, <1>4, <1>5, PTL DEF MCSpec
<1> QED
  BY <1>6, <1>7
================================================================================
