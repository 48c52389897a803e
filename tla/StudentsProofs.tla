---------------------------- MODULE StudentsProofs ----------------------------
(***************************************************************************)
(* Proofs about StudentDirectory, for any number of workers, roll numbers, *)
(* addresses, accounts and students, and about FaceEnrollment, for any     *)
(* number of workers, students, images, files and embeddings.              *)
(***************************************************************************)
EXTENDS MCStudents, FiniteSetTheorems, TLAPS

-----------------------------------------------------------------------------
(* Types. *)

LEMMA GotoType ==
  ASSUME TypeOK, NEW r \in Request, NEW work0 \in Work, Goto(r, work0)
  PROVE  req' \in [Request -> Work]
BY DEF TypeOK, Goto

LEMMA IdleType ==
  ASSUME TypeOK, NEW r \in Request, Goto(r, Idle)
  PROVE  req' \in [Request -> Work]
BY GotoType DEF Work

LEMMA Arrives ==
  ASSUME TypeOK, NEW r \in Request, NEW work0, Goto(r, work0)
  PROVE  req'[r] = work0
BY DEF Goto, TypeOK

\* What a worker knows at each step.
LEMMA Known ==
  ASSUME TypeOK, NEW r \in Request
  PROVE  /\ req[r].pc = "insert" => req[r].roll \in Roll
         /\ req[r].pc = "rows" => req[r].taken \subseteq Roll
         /\ req[r].pc \in {"enroll", "target", "link", "adopt"} => req[r].id \in Id
         /\ req[r].pc \in {"target", "link", "match", "adopt"} => req[r].acc \in Account
         /\ req[r].pc \in {"target", "link"} => req[r].who \in Person
         /\ req[r].pc = "link" => req[r].mail \in Mail
<1>1. req[r] \in Work
  BY DEF TypeOK
<1>2. QED
  BY <1>1 DEF Work, Idle

LEMMA RowFacts ==
  ASSUME TypeOK, NEW i \in Students
  PROVE  /\ i \in Id /\ student[i] \in Row \ {NoRow}
         /\ student[i].who \in Person /\ student[i].roll \in Roll
         /\ student[i].mail \in Mail \cup {NoMail} /\ student[i].sub \in Account \cup {NoSub}
<1>1. i \in Id /\ student[i] \in Row \ {NoRow}
  BY DEF TypeOK, Students
<1>2. QED
  BY <1>1 DEF Row

\* A row that says who it belongs to is a row.
LEMMA RealRow ==
  ASSUME NEW p \in Person, NEW x \in Roll, NEW m0 \in Mail \cup {NoMail},
         NEW a \in Account \cup {NoSub}
  PROVE  [who |-> p, roll |-> x, mail |-> m0, sub |-> a] \in Row \ {NoRow}
<1>1. p # 0
  BY DEF Person
<1>2. QED
  BY <1>1 DEF Row, NoRow

LEMMA InsertType ==
  ASSUME TypeOK, NEW r \in Request, NEW i \in Id, NEW x \in Roll, NEW m0 \in Mail \cup {NoMail},
         Insert(r, i, x, m0)
  PROVE  /\ student' \in [Id -> Row] /\ born' \in Nat /\ born + 1 \in Person
         /\ held' \in [Id -> SUBSET Person]
         /\ chosen' \in [Person -> Mail \cup {NoMail}]
         /\ lost' \subseteq Person /\ overtaken' \subseteq Roll
<1>1. born' = born + 1 /\ born + 1 \in Person
  BY BoundAssumption DEF Insert, TypeOK, Person
<1>2. [who |-> born + 1, roll |-> x, mail |-> m0, sub |-> NoSub] \in Row
  BY <1>1, RealRow
<1>3. student' \in [Id -> Row]
  BY <1>2 DEF Insert, TypeOK
<1>4. held' \in [Id -> SUBSET Person]
  BY <1>1 DEF Insert, TypeOK
<1>5. chosen' \in [Person -> Mail \cup {NoMail}] /\ lost' \subseteq Person
  BY <1>1 DEF Insert, Give, TypeOK
<1>6. overtaken' \subseteq Roll
  BY DEF Insert, TypeOK
<1>7. QED
  BY <1>1, <1>3, <1>4, <1>5, <1>6 DEF Person

LEMMA RemoveType ==
  ASSUME TypeOK, NEW i \in Id, Remove(i)
  PROVE  student' \in [Id -> Row] /\ gone' \subseteq Person
<1>1. student' \in [Id -> Row]
  BY DEF Remove, Row, TypeOK
<1>2. gone' \subseteq Person
  BY RowFacts DEF Remove, Exists, TypeOK
<1>3. QED
  BY <1>1, <1>2

\* Changing the address or the account of a row leaves it a row of the same
\* student.
LEMMA ChangeMail ==
  ASSUME TypeOK, NEW i \in Students, NEW m0 \in Mail \cup {NoMail},
         student' = [student EXCEPT ![i].mail = m0]
  PROVE  /\ student' \in [Id -> Row] /\ \A j \in Id \ {i} : student'[j] = student[j]
         /\ student'[i] = [who |-> student[i].who, roll |-> student[i].roll,
                           mail |-> m0, sub |-> student[i].sub]
<1>1. i \in Id /\ student[i] \in Row \ {NoRow}
  BY RowFacts
<1>2. [student[i] EXCEPT !.mail = m0] =
         [who |-> student[i].who, roll |-> student[i].roll, mail |-> m0, sub |-> student[i].sub]
  BY <1>1 DEF Row
<1>3. [who |-> student[i].who, roll |-> student[i].roll, mail |-> m0, sub |-> student[i].sub] \in Row
  BY RowFacts, RealRow
<1>4. QED
  BY <1>1, <1>2, <1>3 DEF TypeOK

LEMMA ChangeSub ==
  ASSUME TypeOK, NEW i \in Students, NEW a \in Account,
         student' = [student EXCEPT ![i].sub = a]
  PROVE  /\ student' \in [Id -> Row] /\ \A j \in Id \ {i} : student'[j] = student[j]
         /\ student'[i] = [who |-> student[i].who, roll |-> student[i].roll,
                           mail |-> student[i].mail, sub |-> a]
<1>1. i \in Id /\ student[i] \in Row \ {NoRow}
  BY RowFacts
<1>2. [student[i] EXCEPT !.sub = a] =
         [who |-> student[i].who, roll |-> student[i].roll, mail |-> student[i].mail, sub |-> a]
  BY <1>1 DEF Row
<1>3. [who |-> student[i].who, roll |-> student[i].roll, mail |-> student[i].mail, sub |-> a] \in Row
  BY RowFacts, RealRow
<1>4. QED
  BY <1>1, <1>2, <1>3 DEF TypeOK

LEMMA LinkWriteChange ==
  ASSUME TypeOK, NEW r \in Request, LinkWrite(r), NEW i \in Students, i = req[r].id
  PROVE  /\ student' \in [Id -> Row] /\ \A j \in Id \ {i} : student'[j] = student[j]
         /\ student'[i] = [who |-> student[i].who, roll |-> student[i].roll,
                           mail |-> req[r].mail, sub |-> req[r].acc]
<1> DEFINE a == req[r].acc
           m0 == req[r].mail
           new == [who |-> student[i].who, roll |-> student[i].roll, mail |-> m0, sub |-> a]
<1>1. a \in Account /\ m0 \in Mail
  BY Known DEF LinkWrite, At
<1>2. student' = [student EXCEPT ![i].sub = a, ![i].mail = m0]
  BY DEF LinkWrite, Exists
<1> HIDE DEF a, m0
<1>3. i \in Id /\ student[i] \in Row \ {NoRow}
  BY RowFacts
<1>4. [[student[i] EXCEPT !.sub = a] EXCEPT !.mail = m0] = new
  <2>1. [student[i] EXCEPT !.sub = a] =
          [who |-> student[i].who, roll |-> student[i].roll, mail |-> student[i].mail, sub |-> a]
    BY <1>3 DEF Row
  <2>2. [[who |-> student[i].who, roll |-> student[i].roll, mail |-> student[i].mail, sub |-> a]
           EXCEPT !.mail = m0] = new
    OBVIOUS
  <2>3. QED
    BY <2>1, <2>2, Zenon
<1>5. new \in Row
  BY <1>1, RowFacts, RealRow
<1>6. student'[i] = [[student[i] EXCEPT !.sub = a] EXCEPT !.mail = m0]
  BY <1>2, <1>3 DEF TypeOK
<1>7. student'[i] = new
  BY <1>4, <1>6, Zenon
<1>8. \A j \in Id \ {i} : student'[j] = student[j]
  BY <1>2, <1>3 DEF TypeOK
<1>9. student' \in [Id -> Row]
  <2>1. student' = [j \in Id |-> student'[j]]
    BY <1>2 DEF TypeOK
  <2>2. \A j \in Id : student'[j] \in Row
    BY <1>5, <1>7, <1>8 DEF TypeOK
  <2>3. QED
    BY <2>1, <2>2
<1>10. QED
  BY <1>7, <1>8, <1>9 DEF a, m0

LEMMA RegisterType ==
  ASSUME TypeOK, NEW r \in Request,
         \/ \E x \in Roll : RegisterRead(r, x)
         \/ RegisterInsert(r) \/ RegisterKeep(r) \/ RegisterUndo(r)
  PROVE  TypeOK'
<1>1. ASSUME NEW x \in Roll, RegisterRead(r, x) PROVE TypeOK'
  <2>1. [pc |-> "insert", roll |-> x] \in Work
    BY DEF Work
  <2>2. req' \in [Request -> Work]
    BY <1>1, <2>1, GotoType DEF RegisterRead
  <2>3. QED
    BY <1>1, <2>2 DEF RegisterRead, TypeOK, rows
<1>2. CASE RegisterInsert(r)
  <2>1. PICK i \in Id, m0 \in Mail \cup {NoMail} :
          Insert(r, i, req[r].roll, m0) /\ Goto(r, [pc |-> "enroll", id |-> i])
    BY <1>2 DEF RegisterInsert
  <2>2. req[r].roll \in Roll
    BY <1>2, Known DEF RegisterInsert, At
  <2>3. [pc |-> "enroll", id |-> i] \in Work
    BY DEF Work
  <2>4. req' \in [Request -> Work]
    BY <2>1, <2>3, GotoType
  <2>5. QED
    BY <1>2, <2>1, <2>2, <2>4, InsertType DEF RegisterInsert, TypeOK
<1>3. CASE RegisterKeep(r)
  <2>1. req' \in [Request -> Work]
    BY <1>3, IdleType DEF RegisterKeep
  <2>2. QED
    BY <1>3, <2>1 DEF RegisterKeep, TypeOK, rows
<1>4. CASE RegisterUndo(r)
  <2>1. req' \in [Request -> Work]
    BY <1>4, IdleType DEF RegisterUndo
  <2>2. student' \in [Id -> Row] /\ gone' \subseteq Person
    BY <1>4, Known, RemoveType DEF RegisterUndo, At
  <2>3. QED
    BY <1>4, <2>1, <2>2 DEF RegisterUndo, Remove, TypeOK
<1>5. QED
  BY <1>1, <1>2, <1>3, <1>4

LEMMA ImportType ==
  ASSUME TypeOK, NEW r \in Request, ImportRead(r) \/ ImportInsert(r) \/ ImportDone(r)
  PROVE  TypeOK'
<1>1. CASE ImportRead(r)
  <2>1. Rolls \subseteq Roll
    BY RowFacts DEF Rolls
  <2>2. [pc |-> "rows", taken |-> Rolls] \in Work
    BY <2>1 DEF Work
  <2>3. req' \in [Request -> Work]
    BY <1>1, <2>2, GotoType DEF ImportRead
  <2>4. QED
    BY <1>1, <2>3 DEF ImportRead, TypeOK, rows
<1>2. CASE ImportInsert(r)
  <2>1. PICK x \in Roll \ req[r].taken, i \in Id, m0 \in Mail \cup {NoMail} :
          /\ Insert(r, i, x, m0)
          /\ Goto(r, [req[r] EXCEPT !.taken = @ \cup {x}])
    BY <1>2 DEF ImportInsert
  <2>2. req[r] \in [pc : {"rows"}, taken : SUBSET Roll]
    BY <1>2 DEF ImportInsert, TypeOK, At, Work, Idle
  <2>3. [req[r] EXCEPT !.taken = @ \cup {x}] \in Work
    BY <2>2 DEF Work
  <2>4. req' \in [Request -> Work]
    BY <2>1, <2>3, GotoType
  <2>5. QED
    BY <1>2, <2>1, <2>4, InsertType DEF ImportInsert, TypeOK
<1>3. CASE ImportDone(r)
  <2>1. req' \in [Request -> Work]
    BY <1>3, IdleType DEF ImportDone
  <2>2. QED
    BY <1>3, <2>1 DEF ImportDone, TypeOK, rows
<1>4. QED
  BY <1>1, <1>2, <1>3

LEMMA LinkType ==
  ASSUME TypeOK, NEW r \in Request,
         \/ \E a \in Account, i \in Id, p \in Person : LinkBegin(r, a, i, p)
         \/ LinkTarget(r) \/ LinkWrite(r)
  PROVE  TypeOK'
<1>1. ASSUME NEW a \in Account, NEW i \in Id, NEW p \in Person, LinkBegin(r, a, i, p)
      PROVE  TypeOK'
  <2>1. [pc |-> "target", acc |-> a, id |-> i, who |-> p] \in Work
    BY DEF Work
  <2>2. req' \in [Request -> Work]
    BY <1>1, <2>1, GotoType DEF LinkBegin
  <2>3. QED
    BY <1>1, <2>2 DEF LinkBegin, Meet, TypeOK, rows
<1>2. CASE LinkTarget(r)
  <2>1. req[r].acc \in Account /\ req[r].id \in Id /\ req[r].who \in Person
    BY <1>2, Known DEF LinkTarget, At
  <2>2. req' \in [Request -> Work]
    <3>1. CASE Exists(req[r].id)
      <4> DEFINE mail == student[req[r].id].mail
                 mail2 == IF mail = NoMail THEN MailOf[req[r].acc] ELSE mail
      <4>1. mail2 \in Mail
        BY <2>1, <3>1, RowFacts, MailAssumption DEF Exists
      <4>2. [pc |-> "link", acc |-> req[r].acc, id |-> req[r].id, who |-> req[r].who,
             mail |-> mail2] \in Work
        BY <2>1, <4>1 DEF Work
      <4>3. QED
        BY <1>2, <3>1, <4>2, GotoType DEF LinkTarget
    <3>2. CASE ~Exists(req[r].id)
      BY <1>2, <3>2, IdleType DEF LinkTarget
    <3>3. QED
      BY <3>1, <3>2
  <2>3. QED
    BY <1>2, <2>2 DEF LinkTarget, TypeOK, rows
<1>3. CASE LinkWrite(r)
  <2>1. /\ req[r].acc \in Account /\ req[r].id \in Id /\ req[r].who \in Person
        /\ req[r].mail \in Mail
    BY <1>3, Known DEF LinkWrite, At
  <2>2. req' \in [Request -> Work]
    BY <1>3, IdleType DEF LinkWrite
  <2>3. student' \in [Id -> Row] /\ astray' \subseteq Person
    <3>1. CASE Exists(req[r].id)
      <4>1. student' \in [Id -> Row]
        BY <1>3, <3>1, LinkWriteChange DEF Exists
      <4>2. astray' \subseteq Person
        BY <1>3, <2>1, <3>1 DEF LinkWrite, TypeOK
      <4>3. QED
        BY <4>1, <4>2
    <3>2. CASE ~Exists(req[r].id)
      BY <1>3, <3>2 DEF LinkWrite, TypeOK
    <3>3. QED
      BY <3>1, <3>2
  <2>4. QED
    BY <1>3, <2>2, <2>3 DEF LinkWrite, TypeOK
<1>4. QED
  BY <1>1, <1>2, <1>3

LEMMA LoginType ==
  ASSUME TypeOK, NEW r \in Request,
         \/ \E a \in Account : LoginBegin(r, a)
         \/ LoginMatch(r) \/ LoginAdopt(r) \/ Abort(r)
  PROVE  TypeOK'
<1>1. ASSUME NEW a \in Account, LoginBegin(r, a) PROVE TypeOK'
  <2>1. [pc |-> "match", acc |-> a] \in Work
    BY DEF Work
  <2>2. req' \in [Request -> Work]
    BY <1>1, <2>1, GotoType DEF LoginBegin
  <2>3. QED
    BY <1>1, <2>2 DEF LoginBegin, Meet, TypeOK, rows
<1>2. CASE LoginMatch(r)
  <2>1. req[r].acc \in Account
    BY <1>2, Known DEF LoginMatch, At
  <2>2. \A i \in Id : [pc |-> "adopt", acc |-> req[r].acc, id |-> i] \in Work
    BY <2>1 DEF Work
  <2>3. req' \in [Request -> Work]
    BY <1>2, <2>2, GotoType, IdleType DEF LoginMatch, Students
  <2>4. QED
    BY <1>2, <2>3 DEF LoginMatch, TypeOK, rows
<1>3. CASE LoginAdopt(r)
  <2>1. req[r].acc \in Account /\ req[r].id \in Id
    BY <1>3, Known DEF LoginAdopt, At
  <2>2. req' \in [Request -> Work]
    BY <1>3, IdleType DEF LoginAdopt
  <2>3. student' \in [Id -> Row]
    BY <1>3, <2>1, ChangeSub DEF LoginAdopt, Exists, TypeOK
  <2>4. QED
    BY <1>3, <2>2, <2>3 DEF LoginAdopt, TypeOK
<1>4. CASE Abort(r)
  <2>1. req' \in [Request -> Work]
    BY <1>4, IdleType DEF Abort
  <2>2. QED
    BY <1>4, <2>1 DEF Abort, TypeOK, rows
<1>5. QED
  BY <1>1, <1>2, <1>3, <1>4

LEMMA UpdateType ==
  ASSUME TypeOK, NEW i \in Id, UpdateContact(i)
  PROVE  TypeOK'
<1>1. PICK m0 \in Mail \cup {NoMail} :
        student' = [student EXCEPT ![i].mail = m0] /\ Give(i, student[i].who, m0)
  BY DEF UpdateContact
<1>2. i \in Students
  BY DEF UpdateContact, Exists
<1>3. student' \in [Id -> Row]
  BY <1>1, <1>2, ChangeMail
<1>4. chosen' \in [Person -> Mail \cup {NoMail}] /\ lost' \subseteq Person
  BY <1>1, <1>2, RowFacts DEF Give, TypeOK
<1>5. QED
  BY <1>3, <1>4 DEF UpdateContact, TypeOK

LEMMA NextType == TypeOK /\ [Next]_vars => TypeOK'
<1> SUFFICES ASSUME TypeOK, [Next]_vars PROVE TypeOK'
  OBVIOUS
<1>1. ASSUME NEW r \in Request, Handler(r) PROVE TypeOK'
  BY <1>1, RegisterType, ImportType, LinkType, LoginType DEF Handler
<1>2. ASSUME NEW i \in Id, DeleteStudent(i) PROVE TypeOK'
  <2>1. student' \in [Id -> Row] /\ gone' \subseteq Person
    BY <1>2, RemoveType DEF DeleteStudent
  <2>2. QED
    BY <1>2, <2>1 DEF DeleteStudent, Remove, TypeOK
<1>3. CASE UNCHANGED vars
  BY <1>3 DEF vars, TypeOK
<1>4. QED
  BY <1>1, <1>2, <1>3, UpdateType DEF Next

\* The table of students, what each worker remembers and the histories have
\* their types in every reachable state.
THEOREM DirectoryTypeCorrect == Spec => []TypeOK
<1>1. Init => TypeOK
  BY DEF Init, TypeOK, Row, Work
<1>2. QED
  BY <1>1, NextType, PTL DEF Spec

-----------------------------------------------------------------------------
(* What a step does to the rows and to the workers. *)

\* A worker's step leaves the others where they are.
LEMMA OthersStay ==
  ASSUME TypeOK, NEW s \in Request, Handler(s), NEW r \in Request, r # s
  PROVE  req'[r] = req[r]
<1>1. \E work0 : Goto(s, work0)
  BY Zenon DEF Handler, RegisterRead, RegisterInsert, RegisterKeep, RegisterUndo, ImportRead,
     ImportInsert, ImportDone, LoginBegin, LinkBegin, LinkTarget, LinkWrite, LoginMatch,
     LoginAdopt, Abort
<1>2. QED
  BY <1>1 DEF Goto, TypeOK

\* A worker that finds a roll number free.
Free(r, x) == \/ At(r, "insert") /\ req[r].roll = x
              \/ At(r, "rows") /\ x \notin req[r].taken

\* Worker r inserts student i, and no longer finds the number free.
Inserts(r, i, x, m0) ==
  /\ Insert(r, i, x, m0) /\ Free(r, x) /\ gone' = gone /\ crossed' = crossed
  /\ astray' = astray
  /\ \/ req'[r].pc = "enroll"
     \/ /\ At(r, "rows") /\ req'[r].pc = "rows"
        /\ req'[r].taken = req[r].taken \cup {x}

LEMMA InsertsStep ==
  ASSUME TypeOK, NEW r \in Request, RegisterInsert(r) \/ ImportInsert(r)
  PROVE  \E i \in Id, x \in Roll, m0 \in Mail \cup {NoMail} : Inserts(r, i, x, m0)
<1>1. CASE RegisterInsert(r)
  <2>1. PICK i \in Id, m0 \in Mail \cup {NoMail} :
          Insert(r, i, req[r].roll, m0) /\ Goto(r, [pc |-> "enroll", id |-> i])
    BY <1>1 DEF RegisterInsert
  <2>2. req[r].roll \in Roll
    BY <1>1, Known DEF RegisterInsert, At
  <2>3. req'[r].pc = "enroll"
    BY <2>1, Arrives
  <2>4. QED
    BY <1>1, <2>1, <2>2, <2>3 DEF RegisterInsert, Inserts, Free
<1>2. CASE ImportInsert(r)
  <2>1. PICK x \in Roll \ req[r].taken, i \in Id, m0 \in Mail \cup {NoMail} :
          /\ Insert(r, i, x, m0)
          /\ Goto(r, [req[r] EXCEPT !.taken = @ \cup {x}])
    BY <1>2 DEF ImportInsert
  <2>2. req[r] \in [pc : {"rows"}, taken : SUBSET Roll]
    BY <1>2 DEF ImportInsert, TypeOK, At, Work, Idle
  <2>3. /\ [req[r] EXCEPT !.taken = @ \cup {x}].pc = "rows"
        /\ [req[r] EXCEPT !.taken = @ \cup {x}].taken = req[r].taken \cup {x}
    BY <2>2
  <2>4. req'[r] = [req[r] EXCEPT !.taken = @ \cup {x}]
    BY <2>1, Arrives
  <2>5. req'[r].pc = "rows" /\ req'[r].taken = req[r].taken \cup {x}
    BY <2>3, <2>4, Zenon
  <2>6. QED
    BY <1>2, <2>1, <2>5 DEF ImportInsert, Inserts, Free
<1>3. QED
  BY <1>1, <1>2

\* What an insertion does to the rows.
LEMMA InsertRows ==
  ASSUME TypeOK, NEW r \in Request, NEW i \in Id, NEW x \in Roll,
         NEW m0 \in Mail \cup {NoMail}, Insert(r, i, x, m0)
  PROVE  /\ i \notin Students /\ Students' = Students \cup {i}
         /\ \A j \in Students : student'[j] = student[j]
         /\ student'[i] = [who |-> born + 1, roll |-> x, mail |-> m0, sub |-> NoSub]
         /\ born + 1 \in Person
<1>1. i \notin Students
  BY DEF Insert, Id
<1>2. born + 1 \in Person
  BY InsertType
<1>3. [who |-> born + 1, roll |-> x, mail |-> m0, sub |-> NoSub] # NoRow
  BY <1>2, RealRow
<1>4. /\ student'[i] = [who |-> born + 1, roll |-> x, mail |-> m0, sub |-> NoSub]
      /\ \A j \in Id \ {i} : student'[j] = student[j]
  BY DEF Insert, TypeOK
<1>5. Students' = Students \cup {i}
  BY <1>3, <1>4 DEF Students
<1>6. QED
  BY <1>1, <1>2, <1>4, <1>5 DEF Students

\* A row that stays is a row of the same student, with the same number.
Standing(i) == student'[i].who = student[i].who /\ student'[i].roll = student[i].roll

\* Steps that add nobody.
NobodyNew ==
  /\ Students' \subseteq Students /\ \A i \in Students' : Standing(i)
  /\ \A i \in Students \ Students' : student[i].who \in gone'
  /\ gone \subseteq gone' /\ held' = held /\ born' = born /\ overtaken' = overtaken

LEMMA RemoveRows ==
  ASSUME TypeOK, NEW i \in Id, Remove(i)
  PROVE  /\ NobodyNew /\ Students' = Students \ {i}
         /\ \A j \in Students' : student'[j] = student[j]
<1>1. student'[i] = NoRow /\ \A j \in Id \ {i} : student'[j] = student[j]
  BY DEF Remove, TypeOK
<1>2. Students' = Students \ {i}
  BY <1>1 DEF Students
<1>3. \A j \in Students' : student'[j] = student[j]
  BY <1>1, <1>2 DEF Students
<1>4. QED
  BY <1>2, <1>3 DEF NobodyNew, Standing, Remove, Exists

\* One row changes its address or its account.
LEMMA ChangeRows ==
  ASSUME TypeOK, NEW i \in Students,
         \A j \in Id \ {i} : student'[j] = student[j],
         NEW m0 \in Mail \cup {NoMail}, NEW a \in Account \cup {NoSub},
         student'[i] = [who |-> student[i].who, roll |-> student[i].roll, mail |-> m0, sub |-> a]
  PROVE  Students' = Students /\ \A j \in Students : Standing(j)
<1>1. student'[i] # NoRow /\ i \in Id
  BY RowFacts, RealRow
<1>2. Students' = Students
  BY <1>1 DEF Students
<1>3. \A j \in Students : Standing(j)
  BY <1>1 DEF Standing, Students
<1>4. QED
  BY <1>2, <1>3

LEMMA LinkWriteRows ==
  ASSUME TypeOK, NEW r \in Request, LinkWrite(r), NEW i \in Students, i = req[r].id
  PROVE  /\ Students' = Students /\ (\A j \in Students : Standing(j))
         /\ \A j \in Students \ {i} : student'[j] = student[j]
         /\ student'[i].sub = req[r].acc /\ student'[i].mail = req[r].mail
<1>1. req[r].acc \in Account /\ req[r].mail \in Mail
  BY Known DEF LinkWrite, At
<1>2. /\ \A j \in Id \ {i} : student'[j] = student[j]
      /\ student'[i] = [who |-> student[i].who, roll |-> student[i].roll,
                        mail |-> req[r].mail, sub |-> req[r].acc]
  BY LinkWriteChange
<1>3. QED
  BY <1>1, <1>2, ChangeRows DEF Students

LEMMA AdoptRows ==
  ASSUME TypeOK, NEW r \in Request, LoginAdopt(r), NEW i \in Students, i = req[r].id
  PROVE  /\ Students' = Students /\ (\A j \in Students : Standing(j))
         /\ \A j \in Students \ {i} : student'[j] = student[j]
         /\ student'[i].sub = req[r].acc /\ student'[i].mail = student[i].mail
<1>1. req[r].acc \in Account
  BY Known DEF LoginAdopt, At
<1>2. student' = [student EXCEPT ![i].sub = req[r].acc]
  BY DEF LoginAdopt, Exists
<1>3. /\ \A j \in Id \ {i} : student'[j] = student[j]
      /\ student'[i] = [who |-> student[i].who, roll |-> student[i].roll,
                        mail |-> student[i].mail, sub |-> req[r].acc]
  <2>1. PICK a \in Account : a = req[r].acc
    BY <1>1
  <2>2. student' = [student EXCEPT ![i].sub = a]
    BY <1>2, <2>1, Zenon
  <2>3. \A j \in Id \ {i} : student'[j] = student[j]
    BY <2>2, ChangeSub, Zenon
  <2>4. student'[i] = [who |-> student[i].who, roll |-> student[i].roll,
                       mail |-> student[i].mail, sub |-> a]
    BY <2>2, ChangeSub, Zenon
  <2>5. QED
    BY <2>1, <2>3, <2>4, Zenon
<1>4. QED
  BY <1>1, <1>3, ChangeRows, RowFacts DEF Students

LEMMA UpdateRows ==
  ASSUME TypeOK, NEW i \in Id, UpdateContact(i)
  PROVE  \E m0 \in Mail \cup {NoMail} :
           /\ Give(i, student[i].who, m0) /\ i \in Students
           /\ Students' = Students /\ (\A j \in Students : Standing(j))
           /\ \A j \in Students \ {i} : student'[j] = student[j]
           /\ student'[i].sub = student[i].sub /\ student'[i].mail = m0
<1>1. PICK m0 \in Mail \cup {NoMail} :
        student' = [student EXCEPT ![i].mail = m0] /\ Give(i, student[i].who, m0)
  BY DEF UpdateContact
<1>2. i \in Students
  BY DEF UpdateContact, Exists
<1>3. /\ \A j \in Id \ {i} : student'[j] = student[j]
      /\ student'[i] = [who |-> student[i].who, roll |-> student[i].roll,
                        mail |-> m0, sub |-> student[i].sub]
  BY <1>1, <1>2, ChangeMail
<1>4. Students' = Students /\ \A j \in Students : Standing(j)
  BY <1>2, <1>3, ChangeRows, RowFacts
<1>5. QED
  BY <1>1, <1>2, <1>3, <1>4 DEF Students

\* The kinds of steps there are: most leave the rows as they are.
Still == UNCHANGED <<rows, overtaken, lost, astray>>

LEMMA StepKinds ==
  ASSUME TypeOK, [Next]_vars
  PROVE  \/ Still
         \/ \E r \in Request : RegisterInsert(r) \/ ImportInsert(r)
         \/ \E r \in Request : LinkWrite(r) \/ LoginAdopt(r)
         \/ \E i \in Id : Remove(i)
         \/ \E i \in Id : UpdateContact(i)
<1>1. ASSUME NEW r \in Request, Handler(r)
      PROVE  \/ Still \/ RegisterInsert(r) \/ ImportInsert(r) \/ LinkWrite(r) \/ LoginAdopt(r)
             \/ RegisterUndo(r)
  BY <1>1 DEF Handler, RegisterRead, RegisterKeep, ImportRead, ImportDone, LoginBegin,
     LinkBegin, LinkTarget, LoginMatch, Abort, Still
<1>2. ASSUME NEW r \in Request, RegisterUndo(r) PROVE \E i \in Id : Remove(i)
  BY <1>2, Known DEF RegisterUndo, At
<1>3. UNCHANGED vars => Still
  BY DEF vars, rows, Still
<1>4. QED
  BY <1>1, <1>2, <1>3 DEF Next, DeleteStudent

LEMMA NobodyNewStep ==
  ASSUME TypeOK, [Next]_vars, ~\E r \in Request : RegisterInsert(r) \/ ImportInsert(r)
  PROVE  NobodyNew
<1>1. CASE Still
  BY <1>1 DEF Still, rows, NobodyNew, Standing, Students
<1>2. ASSUME NEW r \in Request, LinkWrite(r) PROVE NobodyNew
  <2>1. CASE req[r].id \in Students
    BY <1>2, <2>1, LinkWriteRows DEF LinkWrite, NobodyNew
  <2>2. CASE req[r].id \notin Students
    BY <1>2, <2>2 DEF LinkWrite, Exists, NobodyNew, Standing, Students
  <2>3. QED
    BY <2>1, <2>2
<1>3. ASSUME NEW r \in Request, LoginAdopt(r) PROVE NobodyNew
  <2>1. CASE req[r].id \in Students
    BY <1>3, <2>1, AdoptRows DEF LoginAdopt, NobodyNew
  <2>2. CASE req[r].id \notin Students
    BY <1>3, <2>2 DEF LoginAdopt, Exists, NobodyNew, Standing, Students
  <2>3. QED
    BY <2>1, <2>2
<1>4. ASSUME NEW i \in Id, UpdateContact(i) PROVE NobodyNew
  BY <1>4, UpdateRows DEF UpdateContact, NobodyNew
<1>5. QED
  BY <1>1, <1>2, <1>3, <1>4, StepKinds, RemoveRows

\* Where the callbacks go.
LEMMA CallbackGoes ==
  ASSUME TypeOK, NEW r \in Request
  PROVE  /\ \A a \in Account, i \in Id, p \in Person : LinkBegin(r, a, i, p) =>
              req'[r] = [pc |-> "target", acc |-> a, id |-> i, who |-> p]
         /\ \A a \in Account : LoginBegin(r, a) => req'[r] = [pc |-> "match", acc |-> a]
         /\ LinkTarget(r) =>
              \/ req'[r] = Idle
              \/ /\ req[r].id \in Students
                 /\ req'[r] = [pc |-> "link", acc |-> req[r].acc, id |-> req[r].id,
                               who |-> req[r].who,
                               mail |-> IF student[req[r].id].mail = NoMail
                                        THEN MailOf[req[r].acc] ELSE student[req[r].id].mail]
         /\ LoginMatch(r) =>
              \/ req'[r] = Idle
              \/ \E i \in Students : req'[r] = [pc |-> "adopt", acc |-> req[r].acc, id |-> i]
<1>1. \A work0 : Goto(r, work0) => req'[r] = work0
  BY Arrives
<1>2. \A a \in Account, i \in Id, p \in Person : LinkBegin(r, a, i, p) =>
        req'[r] = [pc |-> "target", acc |-> a, id |-> i, who |-> p]
  BY <1>1 DEF LinkBegin
<1>3. \A a \in Account : LoginBegin(r, a) => req'[r] = [pc |-> "match", acc |-> a]
  BY <1>1 DEF LoginBegin
<1>4. ASSUME LinkTarget(r)
      PROVE  \/ req'[r] = Idle
             \/ /\ req[r].id \in Students
                /\ req'[r] = [pc |-> "link", acc |-> req[r].acc, id |-> req[r].id,
                              who |-> req[r].who,
                              mail |-> IF student[req[r].id].mail = NoMail
                                       THEN MailOf[req[r].acc] ELSE student[req[r].id].mail]
  <2>1. CASE Exists(req[r].id)
    BY <1>1, <1>4, <2>1, Zenon DEF LinkTarget, Exists
  <2>2. CASE ~Exists(req[r].id)
    BY <1>1, <1>4, <2>2, Zenon DEF LinkTarget
  <2>3. QED
    BY <2>1, <2>2
<1>5. ASSUME LoginMatch(r)
      PROVE  \/ req'[r] = Idle
             \/ \E i \in Students : req'[r] = [pc |-> "adopt", acc |-> req[r].acc, id |-> i]
  <2>1. \/ Goto(r, Idle)
        \/ \E i \in Students : Goto(r, [pc |-> "adopt", acc |-> req[r].acc, id |-> i])
    BY <1>5 DEF LoginMatch
  <2>2. QED
    BY <1>1, <2>1, Zenon
<1>6. QED
  BY <1>2, <1>3, <1>4, <1>5

-----------------------------------------------------------------------------
(* Roll numbers. *)

\* Until a number is inserted behind somebody's back, who finds it free is right.
RollsRight ==
  /\ \A r \in Request, x \in Roll \ overtaken : Free(r, x) => x \notin Rolls
  /\ DuplicateRollExplained

\* Who finds a number free after a step found it free before, or has just looked.
LEMMA FreeStep ==
  ASSUME TypeOK, [Next]_vars, NEW r \in Request, NEW x \in Roll, Free(r, x)'
  PROVE  \/ Free(r, x)
         \/ x \notin Rolls /\ (RegisterRead(r, x) \/ ImportRead(r))
<1>1. CASE req'[r] = req[r]
  BY <1>1 DEF Free, At
<1>2. CASE req'[r] # req[r]
  <2>1. PICK s \in Request : Handler(s)
    BY <1>2 DEF Next, DeleteStudent, UpdateContact, vars
  <2>2. r = s
    BY <1>2, <2>1, OthersStay
  <2>3. req'[r].pc \in {"insert", "rows"}
    BY DEF Free, At
  <2>4. \A work0 : Goto(r, work0) => req'[r] = work0
    BY Arrives
  <2>5. ASSUME NEW y \in Roll, RegisterRead(r, y)
        PROVE  x \notin Rolls /\ RegisterRead(r, x)
    <3>1. req'[r] = [pc |-> "insert", roll |-> y]
      BY <2>4, <2>5 DEF RegisterRead
    <3>2. x = y
      BY <3>1 DEF Free, At
    <3>3. QED
      BY <2>5, <3>2 DEF RegisterRead
  <2>6. ASSUME ImportRead(r) PROVE x \notin Rolls
    <3>1. req'[r] = [pc |-> "rows", taken |-> Rolls]
      BY <2>4, <2>6 DEF ImportRead
    <3>2. QED
      BY <3>1 DEF Free, At
  <2>7. ASSUME RegisterInsert(r) \/ ImportInsert(r) PROVE Free(r, x)
    <3>1. PICK i \in Id, y \in Roll, m0 \in Mail \cup {NoMail} : Inserts(r, i, y, m0)
      BY <2>7, InsertsStep
    <3>2. At(r, "rows") /\ req'[r].pc = "rows" /\ req'[r].taken = req[r].taken \cup {y}
      BY <2>3, <3>1 DEF Inserts
    <3>3. QED
      BY <3>2 DEF Free, At
  <2>8. ASSUME \/ RegisterKeep(r) \/ RegisterUndo(r) \/ ImportDone(r) \/ LinkWrite(r)
               \/ LoginAdopt(r) \/ Abort(r)
        PROVE  FALSE
    <3>1. Goto(r, Idle)
      BY <2>8 DEF RegisterKeep, RegisterUndo, ImportDone, LinkWrite, LoginAdopt, Abort
    <3>2. req'[r] = Idle
      BY <2>4, <3>1
    <3>3. QED
      BY <2>3, <3>2 DEF Idle
  <2>9. ASSUME \/ \E b \in Account : LoginBegin(r, b) \/ \E i \in Id, p \in Person : LinkBegin(r, b, i, p)
               \/ LinkTarget(r) \/ LoginMatch(r)
        PROVE  FALSE
    <3>1. ASSUME NEW b \in Account, NEW i \in Id, NEW p \in Person, LinkBegin(r, b, i, p)
          PROVE  FALSE
      <4>1. req'[r] = [pc |-> "target", acc |-> b, id |-> i, who |-> p]
        BY <3>1, CallbackGoes
      <4>2. QED
        BY <2>3, <4>1
    <3>2. ASSUME NEW b \in Account, LoginBegin(r, b) PROVE FALSE
      <4>1. req'[r] = [pc |-> "match", acc |-> b]
        BY <3>2, CallbackGoes
      <4>2. QED
        BY <2>3, <4>1
    <3>3. req'[r] # Idle
      BY <2>3 DEF Idle
    <3>4. ASSUME LinkTarget(r) PROVE FALSE
      <4>1. PICK m0 : req'[r] = [pc |-> "link", acc |-> req[r].acc, id |-> req[r].id,
                                 who |-> req[r].who, mail |-> m0]
        BY <3>3, <3>4, CallbackGoes, Zenon
      <4>2. QED
        BY <2>3, <4>1
    <3>5. ASSUME LoginMatch(r) PROVE FALSE
      <4>1. PICK i \in Students : req'[r] = [pc |-> "adopt", acc |-> req[r].acc, id |-> i]
        BY <3>3, <3>5, CallbackGoes, Zenon
      <4>2. QED
        BY <2>3, <4>1
    <3>6. QED
      BY <2>9, <3>1, <3>2, <3>4, <3>5
  <2>10. QED
    BY <2>1, <2>2, <2>5, <2>6, <2>7, <2>8, <2>9 DEF Handler
<1>3. QED
  BY <1>1, <1>2

LEMMA NextRollsRight ==
  ASSUME TypeOK, RollsRight, [Next]_vars
  PROVE  RollsRight'
<1>1. CASE ~\E r \in Request : RegisterInsert(r) \/ ImportInsert(r)
  <2>1. NobodyNew
    BY <1>1, NobodyNewStep
  <2>2. Rolls' \subseteq Rolls
    BY <2>1 DEF NobodyNew, Standing, Rolls
  <2>3. ASSUME NEW r \in Request, NEW x \in Roll \ overtaken', Free(r, x)' PROVE x \notin Rolls'
    BY <2>1, <2>2, <2>3, FreeStep DEF NobodyNew, RollsRight
  <2>4. DuplicateRollExplained'
    BY <2>1 DEF NobodyNew, Standing, RollsRight, DuplicateRollExplained
  <2>5. QED
    BY <2>3, <2>4 DEF RollsRight
<1>2. ASSUME NEW s \in Request, RegisterInsert(s) \/ ImportInsert(s)
      PROVE  RollsRight'
  <2>1. PICK i \in Id, y \in Roll, m0 \in Mail \cup {NoMail} : Inserts(s, i, y, m0)
    BY <1>2, InsertsStep
  <2>2. Insert(s, i, y, m0) /\ Free(s, y)
    BY <2>1 DEF Inserts
  <2>3. /\ i \notin Students /\ Students' = Students \cup {i}
        /\ \A j \in Students : student'[j] = student[j]
        /\ student'[i].roll = y
    <3>1. /\ i \notin Students /\ Students' = Students \cup {i}
          /\ \A j \in Students : student'[j] = student[j]
          /\ student'[i] = [who |-> born + 1, roll |-> y, mail |-> m0, sub |-> NoSub]
      BY <2>2, InsertRows, Zenon
    <3>2. student'[i].roll = y
      BY <3>1
    <3>3. QED
      BY <3>1, <3>2
  <2>4. Rolls' = Rolls \cup {y}
    BY <2>3 DEF Rolls
  <2>5. overtaken \subseteq overtaken'
    BY <2>2 DEF Insert
  <2>6. ASSUME NEW r \in Request, NEW x \in Roll \ overtaken', Free(r, x)' PROVE x \notin Rolls'
    <3>1. CASE r = s
      <4>1. /\ At(s, "rows") /\ req'[s].pc = "rows"
            /\ req'[s].taken = req[s].taken \cup {y}
        BY <2>1, <2>6, <3>1 DEF Inserts, Free, At
      <4>2. x # y /\ Free(s, x)
        BY <2>6, <3>1, <4>1 DEF Free, At
      <4>3. QED
        BY <2>4, <2>5, <2>6, <4>2 DEF RollsRight
    <3>2. CASE r # s
      <4>1. req'[r] = req[r]
        BY <1>2, <3>2, OthersStay DEF Handler
      <4>2. Free(r, x)
        BY <2>6, <4>1 DEF Free, At
      <4>3. x # y
        BY <2>2, <2>6, <3>2, <4>2 DEF Insert, Free
      <4>4. QED
        BY <2>4, <2>5, <2>6, <4>2, <4>3 DEF RollsRight
    <3>3. QED
      BY <3>1, <3>2
  <2>7. DuplicateRollExplained'
    <3>1. y \notin overtaken => \A j \in Students : student[j].roll # y
      BY <2>2 DEF RollsRight, Rolls
    <3>2. QED
      BY <2>3, <2>5, <3>1 DEF RollsRight, DuplicateRollExplained
  <2>8. QED
    BY <2>6, <2>7 DEF RollsRight
<1>3. QED
  BY <1>1, <1>2

\* "Roll number already registered": two students have one number only if it was
\* inserted while another registration or import had found it free.
THEOREM DuplicateRollsExplained == Spec => []DuplicateRollExplained
<1>1. Init => RollsRight
  BY DEF Init, RollsRight, Free, At, Idle, DuplicateRollExplained, Students
<1>2. TypeOK /\ RollsRight /\ [Next]_vars => RollsRight'
  BY NextRollsRight
<1>3. RollsRight => DuplicateRollExplained
  BY DEF RollsRight
<1>4. QED
  BY <1>1, <1>2, <1>3, DirectoryTypeCorrect, PTL DEF Spec

-----------------------------------------------------------------------------
(* Accounts of the provider. *)

Linking(r) == req[r].pc \in {"target", "link"}
Logging(r) == req[r].pc \in {"match", "adopt"}

\* Where the other handlers go.
LEMMA ElsewhereGoes ==
  ASSUME TypeOK, NEW r \in Request, Handler(r),
         ~\E a \in Account : LoginBegin(r, a) \/ \E i \in Id, p \in Person : LinkBegin(r, a, i, p),
         ~LinkTarget(r), ~LoginMatch(r)
  PROVE  req'[r].pc \in {"insert", "rows", "enroll", "idle"}
<1>1. \A work0 : Goto(r, work0) => req'[r] = work0
  BY Arrives
<1>2. ASSUME NEW x \in Roll, RegisterRead(r, x) PROVE req'[r].pc = "insert"
  <2>1. req'[r] = [pc |-> "insert", roll |-> x]
    BY <1>1, <1>2 DEF RegisterRead
  <2>2. QED
    BY <2>1
<1>3. ASSUME ImportRead(r) PROVE req'[r].pc = "rows"
  <2>1. req'[r] = [pc |-> "rows", taken |-> Rolls]
    BY <1>1, <1>3 DEF ImportRead
  <2>2. QED
    BY <2>1
<1>4. ASSUME RegisterInsert(r) \/ ImportInsert(r) PROVE req'[r].pc \in {"enroll", "rows"}
  BY <1>4, InsertsStep DEF Inserts
<1>5. ASSUME \/ RegisterKeep(r) \/ RegisterUndo(r) \/ ImportDone(r) \/ LinkWrite(r)
             \/ LoginAdopt(r) \/ Abort(r)
      PROVE  req'[r].pc = "idle"
  <2>1. Goto(r, Idle)
    BY <1>5 DEF RegisterKeep, RegisterUndo, ImportDone, LinkWrite, LoginAdopt, Abort
  <2>2. QED
    BY <1>1, <2>1 DEF Idle
<1>6. QED
  BY <1>2, <1>3, <1>4, <1>5 DEF Handler

\* A callback after a step was under way before, for the same row, or begins.
LEMMA CallbackStep ==
  ASSUME TypeOK, [Next]_vars, NEW r \in Request, NEW a \in Account, Callback(r, a)'
  PROVE  \/ /\ Callback(r, a)
            /\ Linking(r)' => Linking(r) /\ req'[r].id = req[r].id /\ req'[r].who = req[r].who
            /\ Logging(r)' => Logging(r)
         \/ /\ \E i \in Id, p \in Person : /\ LinkBegin(r, a, i, p) /\ req'[r].id = i
                                            /\ req'[r].who = p
            /\ req'[r].pc = "target"
         \/ LoginBegin(r, a) /\ req'[r].pc = "match"
<1>1. CASE req'[r] = req[r]
  BY <1>1 DEF Callback, Linking, Logging
<1>2. CASE req'[r] # req[r]
  <2>1. Handler(r)
    <3>1. PICK s \in Request : Handler(s)
      BY <1>2 DEF Next, DeleteStudent, UpdateContact, vars
    <3>2. QED
      BY <1>2, <3>1, OthersStay
  <2>2. req'[r].pc \in {"target", "link", "match", "adopt"} /\ req'[r].acc = a
    BY DEF Callback
  <2>3. req'[r] # Idle
    BY <2>2 DEF Idle
  <2>4. CASE LinkTarget(r)
    <3>1. PICK m0 : req'[r] = [pc |-> "link", acc |-> req[r].acc, id |-> req[r].id,
                               who |-> req[r].who, mail |-> m0]
      BY <2>3, <2>4, CallbackGoes, Zenon
    <3>2. /\ req'[r].pc = "link" /\ req'[r].acc = req[r].acc /\ req'[r].id = req[r].id
          /\ req'[r].who = req[r].who
      BY <3>1
    <3>3. req[r].pc = "target"
      BY <2>4 DEF LinkTarget, At
    <3>4. QED
      BY <2>2, <3>2, <3>3 DEF Callback, Linking, Logging
  <2>5. CASE LoginMatch(r)
    <3>1. PICK i \in Students : req'[r] = [pc |-> "adopt", acc |-> req[r].acc, id |-> i]
      BY <2>3, <2>5, CallbackGoes, Zenon
    <3>2. req'[r].pc = "adopt" /\ req'[r].acc = req[r].acc
      BY <3>1
    <3>3. req[r].pc = "match"
      BY <2>5 DEF LoginMatch, At
    <3>4. QED
      BY <2>2, <3>2, <3>3 DEF Callback, Linking, Logging
  <2>6. ASSUME NEW b \in Account, NEW i \in Id, NEW p \in Person, LinkBegin(r, b, i, p)
        PROVE  /\ LinkBegin(r, a, i, p) /\ req'[r].pc = "target" /\ req'[r].id = i
               /\ req'[r].who = p
    <3>1. req'[r] = [pc |-> "target", acc |-> b, id |-> i, who |-> p]
      BY <2>6, CallbackGoes
    <3>2. b = a /\ req'[r].pc = "target" /\ req'[r].id = i /\ req'[r].who = p
      BY <2>2, <3>1
    <3>3. QED
      BY <2>6, <3>2
  <2>7. ASSUME NEW b \in Account, LoginBegin(r, b)
        PROVE  LoginBegin(r, a) /\ req'[r].pc = "match"
    <3>1. req'[r] = [pc |-> "match", acc |-> b]
      BY <2>7, CallbackGoes
    <3>2. b = a /\ req'[r].pc = "match"
      BY <2>2, <3>1
    <3>3. QED
      BY <2>7, <3>2
  <2>8. QED
    BY <2>1, <2>2, <2>4, <2>5, <2>6, <2>7, ElsewhereGoes
<1>3. QED
  BY <1>1, <1>2

\* Worker r connects account a to row i.
Connects(r, a, i) ==
  (LinkWrite(r) \/ LoginAdopt(r)) /\ req[r].acc = a /\ req[r].id = i

\* A row has the account it had, or somebody connects it.
LEMMA SubStep ==
  ASSUME TypeOK, [Next]_vars, NEW a \in Account, a # NoSub,
         NEW i \in Students', student'[i].sub = a
  PROVE  \/ i \in Students /\ student[i].sub = a
         \/ \E r \in Request : Connects(r, a, i)
<1>1. CASE Still
  BY <1>1 DEF Still, rows, Students
<1>2. ASSUME NEW r \in Request, RegisterInsert(r) \/ ImportInsert(r)
      PROVE  i \in Students /\ student[i].sub = a
  <2>1. PICK j \in Id, x \in Roll, m0 \in Mail \cup {NoMail} : Insert(r, j, x, m0)
    BY <1>2, InsertsStep DEF Inserts
  <2>2. /\ Students' = Students \cup {j}
        /\ \A k \in Students : student'[k] = student[k]
        /\ student'[j] = [who |-> born + 1, roll |-> x, mail |-> m0, sub |-> NoSub]
    BY <2>1, InsertRows, Zenon
  <2>3. student'[j].sub = NoSub
    BY <2>2
  <2>4. QED
    BY <2>2, <2>3
<1>3. ASSUME NEW r \in Request, LinkWrite(r)
      PROVE  \/ i \in Students /\ student[i].sub = a
             \/ Connects(r, a, i)
  <2>1. CASE req[r].id \in Students
    BY <1>3, <2>1, LinkWriteRows DEF Connects
  <2>2. CASE req[r].id \notin Students
    BY <1>3, <2>2 DEF LinkWrite, Exists, Students
  <2>3. QED
    BY <2>1, <2>2
<1>4. ASSUME NEW r \in Request, LoginAdopt(r)
      PROVE  \/ i \in Students /\ student[i].sub = a
             \/ Connects(r, a, i)
  <2>1. CASE req[r].id \in Students
    BY <1>4, <2>1, AdoptRows DEF Connects
  <2>2. CASE req[r].id \notin Students
    BY <1>4, <2>2 DEF LoginAdopt, Exists, Students
  <2>3. QED
    BY <2>1, <2>2
<1>5. ASSUME NEW j \in Id, UpdateContact(j)
      PROVE  i \in Students /\ student[i].sub = a
  BY <1>5, UpdateRows
<1>6. QED
  BY <1>1, <1>2, <1>3, <1>4, <1>5, StepKinds, RemoveRows

\* An account of which no two callbacks met has at most one callback under way;
\* no other student is connected to it while it is being linked, and nobody is
\* while it is matched by its address.
OneAt(a) ==
  /\ \A r, s \in Request : Callback(r, a) /\ Callback(s, a) => r = s
  /\ \A r \in Request : Callback(r, a) /\ Linking(r) =>
       \A j \in Students \ {req[r].id} : student[j].sub # a
  /\ \A r \in Request : Callback(r, a) /\ Logging(r) => \A j \in Students : student[j].sub # a
  /\ \A i, j \in Students : student[i].sub = a /\ student[j].sub = a => i = j

OneEach == \A a \in Account \ (crossed \cup {NoSub}) : OneAt(a)

LEMMA ConnectOne ==
  ASSUME TypeOK, [Next]_vars, NEW a \in Account, a # NoSub, OneAt(a),
         NEW r \in Request, NEW i, Connects(r, a, i)
  PROVE  OneAt(a)'
<1>1. Callback(r, a) /\ (Linking(r) \/ Logging(r))
  BY DEF Connects, Callback, Linking, Logging, LinkWrite, LoginAdopt, At
<1>2. req'[r] = Idle
  BY Arrives DEF Connects, LinkWrite, LoginAdopt
<1>3. \A s \in Request : ~Callback(s, a)'
  <2> SUFFICES ASSUME NEW s \in Request, Callback(s, a)' PROVE FALSE
    OBVIOUS
  <2>1. s # r
    BY <1>2 DEF Callback, Idle
  <2>2. req'[s] = req[s]
    BY <2>1, OthersStay DEF Connects, Handler
  <2>3. QED
    BY <1>1, <2>1, <2>2 DEF OneAt, Callback
<1>4. \A j \in Students' : student'[j].sub = a => j = i
  <2> SUFFICES ASSUME NEW j \in Students', student'[j].sub = a, j # i PROVE FALSE
    OBVIOUS
  <2>1. ~\E s \in Request : Connects(s, a, j)
    <3> SUFFICES ASSUME NEW s \in Request, Connects(s, a, j) PROVE FALSE
      OBVIOUS
    <3>1. Callback(s, a)
      BY DEF Connects, Callback, LinkWrite, LoginAdopt, At
    <3>2. QED
      BY <1>1, <3>1 DEF OneAt, Connects
  <2>2. j \in Students /\ student[j].sub = a
    BY <2>1, SubStep
  <2>3. QED
    BY <1>1, <2>2 DEF OneAt, Connects
<1>5. QED
  BY <1>3, <1>4 DEF OneAt

LEMMA NextOneEach ==
  ASSUME TypeOK, OneEach, [Next]_vars
  PROVE  OneEach'
<1> SUFFICES ASSUME NEW a \in Account, a # NoSub, a \notin crossed' PROVE OneAt(a)'
  BY DEF OneEach, NoSub
<1>1. crossed \subseteq crossed'
  BY DEF Next, Handler, DeleteStudent, UpdateContact, Remove, RegisterRead, RegisterInsert,
     RegisterKeep, RegisterUndo, ImportRead, ImportInsert, ImportDone, LoginBegin, LinkBegin,
     Meet, LinkTarget, LinkWrite, LoginMatch, LoginAdopt, Abort, vars
<1>2. OneAt(a)
  BY <1>1 DEF OneEach
<1>3. CASE \E r \in Request, i \in Id : Connects(r, a, i)
  BY <1>2, <1>3, ConnectOne
<1>4. CASE ~\E r \in Request, i \in Id : Connects(r, a, i)
  <2>1. \A j \in Students' : student'[j].sub = a => j \in Students /\ student[j].sub = a
    BY <1>4, SubStep DEF Students
  <2>2. ASSUME NEW r \in Request, LoginBegin(r, a) \/ \E i \in Id, p \in Person : LinkBegin(r, a, i, p)
        PROVE  \A s \in Request : ~Callback(s, a)
    BY <2>2 DEF LoginBegin, LinkBegin, Meet
  <2>3. ASSUME NEW r \in Request, Callback(r, a)', NEW s \in Request, Callback(s, a)' PROVE r = s
    <3>1. CASE Callback(r, a) /\ Callback(s, a)
      BY <1>2, <3>1 DEF OneAt
    <3>2. ASSUME NEW q \in Request, NEW t \in Request, ~Callback(q, a), Callback(q, a)',
                 Callback(t, a)', q # t
          PROVE  FALSE
      <4>1. LoginBegin(q, a) \/ \E i \in Id, p \in Person : LinkBegin(q, a, i, p)
        BY <3>2, CallbackStep
      <4>2. Handler(q)
        BY <4>1 DEF Handler
      <4>3. req'[t] = req[t]
        BY <3>2, <4>2, OthersStay
      <4>4. QED
        BY <2>2, <3>2, <4>1, <4>3 DEF Callback
    <3>3. QED
      BY <2>3, <3>1, <3>2
  <2>4. ASSUME NEW r \in Request, Callback(r, a)', Linking(r)', NEW j \in Students', j # req'[r].id
        PROVE  student'[j].sub # a
    <3>1. \A k \in Students \ {req'[r].id} : student[k].sub # a
      BY <1>2, <2>4, CallbackStep DEF OneAt, LinkBegin, Linking
    <3>2. QED
      BY <2>1, <2>4, <3>1
  <2>5. ASSUME NEW r \in Request, Callback(r, a)', Logging(r)', NEW j \in Students'
        PROVE  student'[j].sub # a
    <3>1. \A k \in Students : student[k].sub # a
      BY <1>2, <2>5, CallbackStep DEF OneAt, LoginBegin, Logging
    <3>2. QED
      BY <2>1, <3>1
  <2>6. \A i, j \in Students' : student'[i].sub = a /\ student'[j].sub = a => i = j
    BY <1>2, <2>1 DEF OneAt
  <2>7. QED
    BY <2>3, <2>4, <2>5, <2>6 DEF OneAt
<1>5. QED
  BY <1>3, <1>4

LEMMA OneEachInvariant == Spec => []OneEach
<1>1. Init => OneEach
  BY DEF Init, OneEach, OneAt, Callback, Idle, Students
<1>2. TypeOK /\ OneEach /\ [Next]_vars => OneEach'
  BY NextOneEach
<1>3. QED
  BY <1>1, <1>2, DirectoryTypeCorrect, PTL DEF Spec

LEMMA OneEachConnects ==
  ASSUME TypeOK, OneEach
  PROVE  OneStudentPerAccount
BY RowFacts DEF OneEach, OneAt, OneStudentPerAccount

-----------------------------------------------------------------------------
(* Who a row belongs to, and the address that person gave. *)

\* Nobody has two rows, and nobody has one before the account was made.
Distinct ==
  /\ \A i \in Students : student[i].who <= born
  /\ \A i, j \in Students : student[i].who = student[j].who => i = j

LEMMA NextDistinct ==
  ASSUME TypeOK, Distinct, [Next]_vars
  PROVE  Distinct'
<1>1. CASE ~\E r \in Request : RegisterInsert(r) \/ ImportInsert(r)
  BY <1>1, NobodyNewStep DEF NobodyNew, Standing, Distinct
<1>2. ASSUME NEW r \in Request, RegisterInsert(r) \/ ImportInsert(r)
      PROVE  Distinct'
  <2>1. PICK i \in Id, x \in Roll, m0 \in Mail \cup {NoMail} : Insert(r, i, x, m0)
    BY <1>2, InsertsStep DEF Inserts
  <2>2. /\ i \notin Students /\ Students' = Students \cup {i}
        /\ \A j \in Students : student'[j] = student[j]
        /\ student'[i] = [who |-> born + 1, roll |-> x, mail |-> m0, sub |-> NoSub]
    BY <2>1, InsertRows, Zenon
  <2>3. student'[i].who = born + 1 /\ born' = born + 1 /\ born \in Nat
    BY <2>1, <2>2 DEF Insert, TypeOK
  <2>4. \A j \in Students : student[j].who \in Nat /\ student[j].who <= born
    BY RowFacts DEF Distinct, Person
  <2>5. QED
    BY <2>2, <2>3, <2>4 DEF Distinct
<1>3. QED
  BY <1>1, <1>2

\* Whoever had an id either has it still or is gone; a callback that links an
\* account is of somebody who had the id.
Theirs ==
  /\ \A i \in Id : \A p \in held[i] : p \in gone \/ (i \in Students /\ student[i].who = p)
  /\ \A r \in Request : Linking(r) => req[r].who \in held[req[r].id]
  /\ AstrayNeedsDeletion

LEMMA HeldStep ==
  ASSUME TypeOK, [Next]_vars
  PROVE  /\ gone \subseteq gone' /\ \A i \in Id : held[i] \subseteq held'[i]
<1>1. CASE ~\E r \in Request : RegisterInsert(r) \/ ImportInsert(r)
  BY <1>1, NobodyNewStep DEF NobodyNew
<1>2. ASSUME NEW r \in Request, RegisterInsert(r) \/ ImportInsert(r)
      PROVE  gone \subseteq gone' /\ \A i \in Id : held[i] \subseteq held'[i]
  <2>1. PICK i \in Id, x \in Roll, m0 \in Mail \cup {NoMail} : Inserts(r, i, x, m0)
    BY <1>2, InsertsStep
  <2>2. gone' = gone /\ held' = [held EXCEPT ![i] = @ \cup {born + 1}]
    BY <2>1 DEF Inserts, Insert
  <2>3. QED
    BY <2>2 DEF TypeOK
<1>3. QED
  BY <1>1, <1>2

\* Linking callbacks after a step were linking the same row before, or begin.
LEMMA LinkingStep ==
  ASSUME TypeOK, TypeOK', [Next]_vars, NEW r \in Request, Linking(r)'
  PROVE  \/ Linking(r) /\ req'[r].id = req[r].id /\ req'[r].who = req[r].who
         \/ req'[r].pc = "target" /\ req'[r].who \in held[req'[r].id]
<1>1. req[r] \in Work /\ req'[r] \in Work
  BY DEF TypeOK
<1>2. req'[r].pc \in {"target", "link"}
  BY DEF Linking
<1>3. req'[r].acc \in Account
  BY <1>1, <1>2 DEF Work, Idle
<1>4. PICK a \in Account : Callback(r, a)'
  BY <1>2, <1>3 DEF Callback
<1>5. QED
  BY <1>2, <1>4, CallbackStep DEF LinkBegin

LEMMA NextTheirs ==
  ASSUME TypeOK, TypeOK', Theirs, [Next]_vars
  PROVE  Theirs'
<1>1. ASSUME NEW i \in Id, NEW p \in held'[i]
      PROVE  p \in gone' \/ (i \in Students' /\ student'[i].who = p)
  <2>1. CASE ~\E r \in Request : RegisterInsert(r) \/ ImportInsert(r)
    BY <1>1, <2>1, NobodyNewStep DEF NobodyNew, Standing, Theirs
  <2>2. ASSUME NEW r \in Request, RegisterInsert(r) \/ ImportInsert(r)
        PROVE  p \in gone' \/ (i \in Students' /\ student'[i].who = p)
    <3>1. PICK k \in Id, x \in Roll, m0 \in Mail \cup {NoMail} : Inserts(r, k, x, m0)
      BY <2>2, InsertsStep
    <3>2. /\ Insert(r, k, x, m0) /\ gone' = gone
          /\ held' = [held EXCEPT ![k] = @ \cup {born + 1}]
      BY <3>1 DEF Inserts, Insert
    <3>3. /\ k \notin Students /\ Students' = Students \cup {k}
          /\ \A j \in Students : student'[j] = student[j]
          /\ student'[k] = [who |-> born + 1, roll |-> x, mail |-> m0, sub |-> NoSub]
      BY <3>2, InsertRows, Zenon
    <3>4. student'[k].who = born + 1
      BY <3>3
    <3>5. p \in held[i] \/ (i = k /\ p = born + 1)
      BY <1>1, <3>2 DEF TypeOK
    <3>6. QED
      BY <3>2, <3>3, <3>4, <3>5 DEF Theirs
  <2>3. QED
    BY <2>1, <2>2
<1>2. ASSUME NEW r \in Request, Linking(r)' PROVE req'[r].who \in held'[req'[r].id]
  <2>1. req'[r].who \in held[req'[r].id]
    BY <1>2, LinkingStep DEF Theirs
  <2>2. req'[r] \in Work
    BY DEF TypeOK
  <2>3. req'[r].id \in Id
    BY <1>2, <2>2 DEF Linking, Work, Idle
  <2>4. QED
    BY <2>1, <2>3, HeldStep
<1>3. astray' \subseteq gone'
  <2>1. CASE astray' = astray
    BY <2>1, HeldStep DEF Theirs, AstrayNeedsDeletion
  <2>2. ASSUME NEW r \in Request, LinkWrite(r) PROVE astray' \subseteq gone
    <3>1. req[r].id \in Id /\ req[r].who \in held[req[r].id]
      BY <2>2, Known DEF LinkWrite, At, Theirs, Linking
    <3>2. astray' = astray
          \/ (/\ astray' = astray \cup {req[r].who} /\ Exists(req[r].id)
              /\ student[req[r].id].who # req[r].who)
      BY <2>2, Zenon DEF LinkWrite
    <3>3. QED
      BY <3>1, <3>2 DEF Theirs, AstrayNeedsDeletion
  <2>3. \/ astray' = astray
        \/ \E r \in Request : LinkWrite(r)
    <3>1. ASSUME NEW r \in Request, RegisterInsert(r) \/ ImportInsert(r) PROVE astray' = astray
      BY <3>1 DEF RegisterInsert, ImportInsert
    <3>2. QED
      BY <3>1, StepKinds DEF Still, LoginAdopt, Remove, UpdateContact
  <2>4. QED
    BY <2>1, <2>2, <2>3, HeldStep
<1>4. QED
  BY <1>1, <1>2, <1>3 DEF Theirs, AstrayNeedsDeletion

\* A callback that is about to write an address has read the one its student
\* gave, unless the student gave another since.
Fresh(r) ==
  LET p == student[req[r].id].who
  IN  chosen[p] # NoMail /\ p \notin lost => req[r].mail = chosen[p]

Addresses ==
  /\ AddressKept
  /\ \A r \in Request : At(r, "link") /\ req[r].id \in Students => Fresh(r)

\* A callback that is about to write an address was so before, or has just read it.
LEMMA LinkArrives ==
  ASSUME TypeOK, [Next]_vars, NEW r \in Request, At(r, "link")'
  PROVE  \/ req'[r] = req[r]
         \/ /\ LinkTarget(r) /\ req[r].id \in Students /\ req'[r].id = req[r].id
            /\ \/ student[req[r].id].mail = NoMail
               \/ req'[r].mail = student[req[r].id].mail
<1>1. CASE req'[r] # req[r]
  <2>1. Handler(r)
    <3>1. PICK s \in Request : Handler(s)
      BY <1>1 DEF Next, DeleteStudent, UpdateContact, vars
    <3>2. QED
      BY <1>1, <3>1, OthersStay
  <2>2. req'[r].pc = "link"
    BY DEF At
  <2>3. req'[r] # Idle
    BY <2>2 DEF Idle
  <2>4. ~\E a \in Account : LoginBegin(r, a)
    <3> SUFFICES ASSUME NEW a \in Account, LoginBegin(r, a) PROVE FALSE
      OBVIOUS
    <3>1. req'[r] = [pc |-> "match", acc |-> a]
      BY CallbackGoes
    <3>2. QED
      BY <2>2, <3>1
  <2>5. ~\E a \in Account, i \in Id, p \in Person : LinkBegin(r, a, i, p)
    <3> SUFFICES ASSUME NEW a \in Account, NEW i \in Id, NEW p \in Person, LinkBegin(r, a, i, p)
                 PROVE  FALSE
      OBVIOUS
    <3>1. req'[r] = [pc |-> "target", acc |-> a, id |-> i, who |-> p]
      BY CallbackGoes
    <3>2. QED
      BY <2>2, <3>1
  <2>6. ~LoginMatch(r)
    <3> SUFFICES ASSUME LoginMatch(r) PROVE FALSE
      OBVIOUS
    <3>1. PICK i \in Students : req'[r] = [pc |-> "adopt", acc |-> req[r].acc, id |-> i]
      BY <2>3, CallbackGoes, Zenon
    <3>2. QED
      BY <2>2, <3>1
  <2>7. LinkTarget(r)
    BY <2>1, <2>2, <2>4, <2>5, <2>6, ElsewhereGoes
  <2>8. /\ req[r].id \in Students
        /\ req'[r] = [pc |-> "link", acc |-> req[r].acc, id |-> req[r].id, who |-> req[r].who,
                      mail |-> IF student[req[r].id].mail = NoMail
                               THEN MailOf[req[r].acc] ELSE student[req[r].id].mail]
    BY <2>3, <2>7, CallbackGoes, Zenon
  <2>9. QED
    BY <2>7, <2>8
<1>2. QED
  BY <1>1

\* A worker that inserts or connects is not one that reads an address, and the
\* others stay where they are.
LEMMA NotBoth ==
  ASSUME TypeOK, NEW s \in Request,
         RegisterInsert(s) \/ ImportInsert(s) \/ LinkWrite(s) \/ LoginAdopt(s),
         NEW r \in Request, LinkTarget(r)
  PROVE  req'[r] = req[r]
<1>1. r # s
  BY DEF RegisterInsert, ImportInsert, LinkWrite, LoginAdopt, LinkTarget, At
<1>2. QED
  BY <1>1, OthersStay DEF Handler

\* Steps that keep every row that stays.
LEMMA QuietAddresses ==
  ASSUME TypeOK, Addresses, [Next]_vars, UNCHANGED <<chosen, lost>>, Students' \subseteq Students,
         \A i \in Students' : student'[i] = student[i]
  PROVE  Addresses'
<1>1. AddressKept'
  BY DEF Addresses, AddressKept
<1>2. ASSUME NEW r \in Request, At(r, "link")', req'[r].id \in Students' PROVE Fresh(r)'
  <2>1. CASE req'[r] = req[r]
    BY <1>2, <2>1 DEF Addresses, Fresh, At
  <2>2. CASE req'[r] # req[r]
    <3>1. /\ req[r].id \in Students /\ req'[r].id = req[r].id
          /\ \/ student[req[r].id].mail = NoMail
             \/ req'[r].mail = student[req[r].id].mail
      BY <1>2, <2>2, LinkArrives
    <3>2. QED
      BY <1>2, <3>1 DEF Addresses, AddressKept, Fresh
  <2>3. QED
    BY <2>1, <2>2
<1>3. QED
  BY <1>1, <1>2 DEF Addresses

LEMMA InsertAddresses ==
  ASSUME TypeOK, Distinct, Addresses, [Next]_vars,
         NEW s \in Request, RegisterInsert(s) \/ ImportInsert(s)
  PROVE  Addresses'
<1>1. PICK i \in Id, x \in Roll, m0 \in Mail \cup {NoMail} : Inserts(s, i, x, m0)
  BY InsertsStep
<1>2. Insert(s, i, x, m0) /\ Give(i, born + 1, m0)
  BY <1>1 DEF Inserts, Insert
<1>3. /\ i \notin Students /\ Students' = Students \cup {i} /\ born + 1 \in Person
      /\ \A j \in Students : student'[j] = student[j]
      /\ student'[i] = [who |-> born + 1, roll |-> x, mail |-> m0, sub |-> NoSub]
  BY <1>2, InsertRows, Zenon
<1>4. student'[i].who = born + 1 /\ student'[i].mail = m0
  BY <1>3
<1>5. chosen'[born + 1] = m0 /\ \A p \in Person \ {born + 1} : chosen'[p] = chosen[p]
  BY <1>2, <1>3 DEF Give, TypeOK
<1>6. \A j \in Students : student[j].who \in Person \ {born + 1}
  BY RowFacts DEF Distinct, Person, TypeOK
<1>7. lost \subseteq lost'
  BY <1>2 DEF Give
<1>8. AddressKept'
  BY <1>3, <1>4, <1>5, <1>6, <1>7 DEF Addresses, AddressKept
<1>9. ASSUME NEW r \in Request, At(r, "link")', req'[r].id \in Students' PROVE Fresh(r)'
  <2>1. req'[r] = req[r]
    BY <1>9, LinkArrives, NotBoth
  <2>2. CASE req[r].id = i
    BY <1>2, <1>4, <1>9, <2>1, <2>2 DEF Give, Fresh, At
  <2>3. CASE req[r].id # i
    <3>1. req[r].id \in Students /\ Fresh(r)
      BY <1>3, <1>9, <2>1, <2>3 DEF Addresses, At
    <3>2. QED
      BY <1>3, <1>5, <1>6, <1>7, <2>1, <3>1 DEF Fresh
  <2>4. QED
    BY <2>2, <2>3
<1>10. QED
  BY <1>8, <1>9 DEF Addresses

LEMMA ConnectAddresses ==
  ASSUME TypeOK, Addresses, [Next]_vars, NEW s \in Request, LinkWrite(s) \/ LoginAdopt(s)
  PROVE  Addresses'
<1>1. UNCHANGED <<chosen, lost>>
  BY DEF LinkWrite, LoginAdopt
<1>2. CASE req[s].id \notin Students
  <2>1. student' = student
    BY <1>2 DEF LinkWrite, LoginAdopt, Exists
  <2>2. QED
    BY <1>1, <2>1, QuietAddresses DEF Students
<1>3. CASE req[s].id \in Students
  <2> DEFINE i == req[s].id
  <2>1. /\ Students' = Students /\ (\A j \in Students : Standing(j))
        /\ \A j \in Students \ {i} : student'[j] = student[j]
        /\ \/ student'[i].mail = student[i].mail
           \/ At(s, "link") /\ student'[i].mail = req[s].mail
    BY <1>3, LinkWriteRows, AdoptRows DEF LinkWrite
  <2>2. \A j \in Students : student'[j].who = student[j].who
    BY <2>1 DEF Standing
  <2>3. AddressKept'
    <3> SUFFICES ASSUME NEW j \in Students', chosen'[student'[j].who] # NoMail,
                        student'[j].mail # chosen'[student'[j].who]
                 PROVE  student'[j].who \in lost'
      BY DEF AddressKept
    <3>1. CASE j # i \/ student'[i].mail = student[i].mail
      BY <1>1, <2>1, <2>2, <3>1 DEF Addresses, AddressKept
    <3>2. CASE j = i /\ At(s, "link") /\ student'[i].mail = req[s].mail
      BY <1>1, <1>3, <2>1, <2>2, <3>2 DEF Addresses, Fresh
    <3>3. QED
      BY <2>1, <3>1, <3>2
  <2>4. ASSUME NEW r \in Request, At(r, "link")', req'[r].id \in Students' PROVE Fresh(r)'
    <3>1. req'[r] = req[r]
      BY <2>4, LinkArrives, NotBoth
    <3>2. Fresh(r)
      BY <2>1, <2>4, <3>1 DEF Addresses, At
    <3>3. QED
      BY <1>1, <2>1, <2>2, <2>4, <3>1, <3>2 DEF Fresh
  <2>5. QED
    BY <2>3, <2>4 DEF Addresses
<1>4. QED
  BY <1>2, <1>3

LEMMA UpdateAddresses ==
  ASSUME TypeOK, Distinct, Addresses, [Next]_vars, NEW i \in Id, UpdateContact(i)
  PROVE  Addresses'
<1> DEFINE p == student[i].who
<1>1. PICK m0 \in Mail \cup {NoMail} :
        /\ Give(i, p, m0) /\ i \in Students
        /\ Students' = Students /\ (\A j \in Students : Standing(j))
        /\ \A j \in Students \ {i} : student'[j] = student[j]
        /\ student'[i].sub = student[i].sub /\ student'[i].mail = m0
  BY UpdateRows
<1>2. \A j \in Students : student'[j].who = student[j].who
  BY <1>1 DEF Standing
<1>3. p \in Person /\ \A j \in Students \ {i} : student[j].who \in Person \ {p}
  BY <1>1, RowFacts DEF Distinct
<1>4. chosen'[p] = m0 /\ \A q \in Person \ {p} : chosen'[q] = chosen[q]
  BY <1>1, <1>3 DEF Give, TypeOK
<1>5. lost \subseteq lost'
  BY <1>1 DEF Give
<1>6. AddressKept'
  BY <1>1, <1>2, <1>3, <1>4, <1>5 DEF Addresses, AddressKept
<1>7. ASSUME NEW r \in Request, At(r, "link")', req'[r].id \in Students' PROVE Fresh(r)'
  <2>1. req'[r] = req[r]
    BY DEF UpdateContact
  <2>2. CASE req[r].id = i
    BY <1>1, <1>2, <1>7, <2>1, <2>2 DEF Give, Fresh, At
  <2>3. CASE req[r].id # i
    <3>1. req[r].id \in Students /\ Fresh(r)
      BY <1>1, <1>7, <2>1 DEF Addresses, At
    <3>2. QED
      BY <1>1, <1>2, <1>3, <1>4, <1>5, <2>1, <2>3, <3>1 DEF Fresh
  <2>4. QED
    BY <2>2, <2>3
<1>8. QED
  BY <1>6, <1>7 DEF Addresses

LEMMA NextAddresses ==
  ASSUME TypeOK, Distinct, Addresses, [Next]_vars
  PROVE  Addresses'
<1>1. CASE Still
  BY <1>1, QuietAddresses DEF Still, rows, Students
<1>2. ASSUME NEW i \in Id, Remove(i) PROVE Addresses'
  <2>1. UNCHANGED <<chosen, lost>>
    BY <1>2 DEF Remove
  <2>2. QED
    BY <1>2, <2>1, RemoveRows, QuietAddresses DEF NobodyNew
<1>3. QED
  BY <1>1, <1>2, StepKinds, InsertAddresses, ConnectAddresses, UpdateAddresses

\* Whatever meets it, connecting an account connects it to one student, keeps the
\* address that was given, and reaches somebody else's row only by an old id.
THEOREM LinksAreExplained == Spec => []LinksExplained
<1>1. Init => Distinct /\ Theirs /\ Addresses
  BY DEF Init, Distinct, Theirs, Linking, AstrayNeedsDeletion, Addresses, AddressKept, At, Idle,
     Students
<1>2. TypeOK /\ TypeOK' /\ Distinct /\ Theirs /\ Addresses /\ [Next]_vars
        => (Distinct /\ Theirs /\ Addresses)'
  BY NextDistinct, NextTheirs, NextAddresses
<1>3. TypeOK /\ OneEach /\ Theirs /\ Addresses => LinksExplained
  BY OneEachConnects DEF Theirs, Addresses, LinksExplained
<1>4. QED
  BY <1>1, <1>2, <1>3, DirectoryTypeCorrect, OneEachInvariant, PTL DEF Spec

-----------------------------------------------------------------------------
(* StudentDirectory served by a single worker. *)

\* A single worker overtakes nobody.
Alone == overtaken = {} /\ crossed = {}

LEMMA AloneKept ==
  ASSUME \A q, r \in Request : q = r, Alone, [Next]_vars
  PROVE  Alone'
<1>1. CASE UNCHANGED vars
  BY <1>1 DEF Alone, vars
<1>2. ASSUME NEW r \in Request, NEW i, NEW x, NEW a, Insert(r, i, x, a) PROVE overtaken' = {}
  BY <1>2 DEF Alone, Insert
<1>3. ASSUME NEW r \in Request, NEW a, At(r, "idle"), Meet(a) PROVE crossed' = {}
  BY <1>3 DEF Alone, Meet, Callback, At
<1>4. ASSUME NEW i, Remove(i) PROVE Alone'
  BY <1>4 DEF Alone, Remove
<1>5. ASSUME NEW r \in Request, Handler(r) PROVE Alone'
  <2>1. ASSUME RegisterInsert(r) \/ ImportInsert(r) PROVE Alone'
    <3>1. overtaken' = {} /\ UNCHANGED crossed
      BY <1>2, <2>1 DEF RegisterInsert, ImportInsert
    <3> QED
      BY <3>1 DEF Alone
  <2>2. ASSUME NEW a, LoginBegin(r, a) \/ \E i \in Id, p \in Person : LinkBegin(r, a, i, p)
        PROVE  Alone'
    <3>1. crossed' = {} /\ UNCHANGED overtaken
      BY <1>3, <2>2 DEF LoginBegin, LinkBegin
    <3> QED
      BY <3>1 DEF Alone
  <2>3. ASSUME RegisterUndo(r) PROVE Alone'
    BY <1>4, <2>3 DEF RegisterUndo
  <2>4. ASSUME \/ \E x \in Roll : RegisterRead(r, x)
               \/ RegisterKeep(r) \/ ImportRead(r) \/ ImportDone(r)
               \/ LinkTarget(r) \/ LinkWrite(r) \/ LoginMatch(r) \/ LoginAdopt(r) \/ Abort(r)
        PROVE  Alone'
    <3>1. UNCHANGED <<overtaken, crossed>>
      BY <2>4 DEF RegisterRead, RegisterKeep, ImportRead, ImportDone, LinkTarget, LinkWrite,
         LoginMatch, LoginAdopt, Abort
    <3> QED
      BY <3>1 DEF Alone
  <2> QED
    BY <1>5, <2>1, <2>2, <2>3, <2>4 DEF Handler
<1>6. ASSUME NEW i, DeleteStudent(i) \/ UpdateContact(i) PROVE Alone'
  <2>1. CASE DeleteStudent(i)
    BY <1>4, <2>1 DEF DeleteStudent
  <2>2. CASE UpdateContact(i)
    <3>1. UNCHANGED <<overtaken, crossed>>
      BY <2>2 DEF UpdateContact
    <3> QED
      BY <3>1 DEF Alone
  <2> QED
    BY <1>6, <2>1, <2>2
<1> QED
  BY <1>1, <1>5, <1>6 DEF Next

RollsUnique == \A i, j \in Students : i # j => student[i].roll # student[j].roll
AccountsUnique ==
  \A i, j \in Students : i # j /\ student[i].sub # NoSub => student[i].sub # student[j].sub

\* Served by a single worker, the application keeps roll numbers unique and connects an
\* account of the provider to one student at most, although no column is UNIQUE.
THEOREM OneWorkerKeepsUnique ==
  ASSUME \A q, r \in Request : q = r
  PROVE  Spec => [](RollsUnique /\ AccountsUnique)
<1>1. Init => Alone
  BY DEF Init, Alone
<1>2. Alone /\ [Next]_vars => Alone'
  BY AloneKept
<1>3. Alone /\ DuplicateRollExplained /\ LinksExplained => RollsUnique /\ AccountsUnique
  BY DEF Alone, DuplicateRollExplained, LinksExplained, OneStudentPerAccount,
     RollsUnique, AccountsUnique
<1> QED
  BY <1>1, <1>2, <1>3, DuplicateRollsExplained, LinksAreExplained, PTL DEF Spec

-----------------------------------------------------------------------------
(* FaceEnrollment: its tables. *)

\* The faces of student i on file.
Count(i) == Cardinality(Faces!Faces(i))

\* The three tables have their columns, are finite, and keys are not given twice.
Tables ==
  /\ pupil \in [Faces!Id -> Faces!Row]
  /\ file \subseteq Faces!Id \X Faces!Number /\ IsFiniteSet(file)
  /\ embedding \subseteq Faces!Face /\ IsFiniteSet(embedding)
  /\ \A e, f \in embedding : e.key = f.key => e = f
  /\ made \in Nat /\ owners \in [Faces!Id -> SUBSET Faces!Person]
  /\ stale \subseteq Faces!Person
  /\ state \in [Faces!Id -> {"clean", "picked", "blurred"}]

LEMMA CardinalitySame == \A S : Faces!Cardinality(S) = Cardinality(S)
BY Zenon DEF Faces!Cardinality, Cardinality

LEMMA FinitePart ==
  ASSUME NEW S, IsFiniteSet(S), NEW T \in SUBSET S
  PROVE  IsFiniteSet(T) /\ Cardinality(T) \in Nat /\ (Cardinality(T) = 0 <=> T = {})
<1>1. IsFiniteSet(T)
  BY FS_Subset
<1> QED
  BY <1>1, FS_CardinalityType, FS_EmptySet

LEMMA Pairs ==
  ASSUME NEW i, NEW c \in Nat
  PROVE  Cardinality({<<i, k>> : k \in 1..c}) = c
<1> DEFINE T == {<<i, k>> : k \in 1..c}
           f == [k \in 1..c |-> <<i, k>>]
<1>1. f \in Bijection(1..c, T)
  <2>1. f \in [1..c -> T]
    OBVIOUS
  <2>2. \A a, b \in 1..c : f[a] = f[b] => a = b
    OBVIOUS
  <2>3. \A t \in T : \E k \in 1..c : f[k] = t
    OBVIOUS
  <2> QED
    BY <2>1, <2>2, <2>3 DEF Bijection, Injection, Surjection, IsInjective
<1>2. ExistsBijection(1..c, T)
  BY <1>1 DEF ExistsBijection
<1>3. IsFiniteSet(1..c) /\ Cardinality(1..c) = c
  BY FS_Interval
<1> QED
  BY <1>2, <1>3, FS_Bijection

\* What a worker holds at each step.
LEMMA Holds ==
  ASSUME NEW w \in Faces!Work
  PROVE  /\ w.pc \in {"idle", "list", "image", "store", "undo", "tally", "photos", "files", "row",
                      "embeddings", "wipe", "sweep", "zero", "unlink", "remove"}
         /\ w.pc # "idle" => w.id \in Faces!Id
         /\ w.pc = "list" => w.new \in BOOLEAN /\ w.who \in Faces!Person
         /\ w.pc \in {"image", "store"} =>
              /\ w.new \in BOOLEAN /\ w.who \in Faces!Person
              /\ w.count \in Nat /\ w.left \in Nat /\ w.saved \in Nat
              /\ w = [pc |-> w.pc, new |-> w.new, id |-> w.id, who |-> w.who,
                      count |-> w.count, left |-> w.left, saved |-> w.saved]
         /\ w.pc = "photos" => w.total \in Nat
         /\ w.pc \in {"files", "row", "embeddings", "wipe", "sweep", "zero"} =>
              w = [pc |-> w.pc, id |-> w.id]
         /\ w.pc \in {"unlink", "remove"} =>
              /\ w.key \in Faces!Key /\ w.number \in Faces!Number
              /\ w = [pc |-> w.pc, id |-> w.id, key |-> w.key, number |-> w.number]
BY DEF Faces!Work, Faces!Idle

\* What of the faces a row is of.
LEMMA RowIs ==
  ASSUME NEW row \in Faces!Row, row # Faces!NoRow
  PROVE  /\ row.who \in Faces!Person /\ row.photos \in Nat
         /\ \A k \in Nat : /\ [row EXCEPT !.photos = k] \in Faces!Row \ {Faces!NoRow}
                           /\ [row EXCEPT !.photos = k].photos = k
                           /\ [row EXCEPT !.photos = k].who = row.who
<1>1. row \in [who : Faces!Person, photos : Nat]
  BY DEF Faces!Row
<1>2. \A k \in Nat : [row EXCEPT !.photos = k] \in [who : Faces!Person, photos : Nat]
  BY <1>1
<1>3. \A x \in [who : Faces!Person, photos : Nat] : x \in Faces!Row \ {Faces!NoRow}
  <2>1. 0 \notin Faces!Person
    BY BoundAssumption DEF Faces!Person
  <2> QED
    BY <2>1 DEF Faces!Row, Faces!NoRow
<1> QED
  BY <1>1, <1>2, <1>3

-----------------------------------------------------------------------------
(* FaceEnrollment: the invariant.  A student that is not blurred is in one worker's *)
(* hands at most, and then as far as that worker got.                               *)

\* Worker r is at work on student i.
Works(r, i) == ~Faces!At(r, "idle") /\ work[r].id = i

\* The files the embeddings name; the numbers of the embeddings leave no gap; both.
Named(i) == {<<i, e.number>> : e \in Faces!Faces(i)}
Gapless(i) == {e.number : e \in Faces!Faces(i)} = 1..Count(i)
Numbered(i) == Faces!Files(i) = Named(i) /\ Gapless(i)

\* What a worker alone at student i may rely on at each of its statements: how far the
\* count it will write, the files and the embeddings are from one another there, and,
\* where no photo was ever picked out, which number comes next.
Agrees(w, i) ==
  /\ w.pc \in {"list", "image", "store"} =>
       /\ Faces!Exists(i) /\ (w.who = pupil[i].who \/ w.who \in stale)
       /\ w.new => pupil[i].photos = 0
  /\ w.pc = "list" => pupil[i].photos = Count(i)
  /\ w.pc \in {"image", "store"} => pupil[i].photos + w.saved = Count(i)
  /\ w.pc = "undo" => Faces!Faces(i) = {}
  /\ w.pc \in {"tally", "photos"} => Faces!Exists(i)
  /\ w.pc = "photos" => w.total = Count(i)
  /\ w.pc \in {"row", "embeddings", "zero"} => Faces!Files(i) = {}
  /\ w.pc = "embeddings" => ~Faces!Exists(i)
  /\ w.pc \in {"sweep", "zero"} => Faces!Faces(i) = {}
  /\ w.pc \in {"unlink", "remove"} => Faces!Exists(i) /\ state[i] # "clean"
  /\ state[i] = "clean" =>
       /\ w.pc \in {"list", "image", "undo", "tally", "photos"} => Numbered(i)
       /\ w.pc = "image" => w.count = Count(i)
       /\ w.pc = "store" =>
            /\ w.count = Count(i) + 1 /\ Gapless(i)
            /\ Faces!Files(i) = Named(i) \cup {<<i, w.count>>}

\* What holds of student i when nobody is at work on it.
Rests(i) ==
  /\ ~Faces!Exists(i) => Faces!Faces(i) = {}
  /\ Faces!Exists(i) => pupil[i].photos = Count(i)
  /\ state[i] = "clean" => Numbered(i)

\* A face of student i is its own, or came with a cookie that outlived its student.
Rightly(i) ==
  \A e \in Faces!Faces(i) : Faces!Exists(i) => e.face = pupil[i].who \/ e.face \in stale

\* Unless requests met at student i or one died there, one worker at most is at work on
\* it, finds what it relies on, and leaves the tables at rest.
Sound(i) ==
  state[i] # "blurred" =>
    /\ \A r, s \in Request : Works(r, i) /\ Works(s, i) => r = s
    /\ \A r \in Request : Works(r, i) => Agrees(work[r], i)
    /\ ~Faces!Busy(i) => Rests(i)
    /\ Rightly(i)

\* What a worker that enrolls holds.
Enrolls(w) ==
  /\ w.pc \in {"list", "image", "store"} => w.who \in owners[w.id]
  /\ w.pc \in {"image", "store"} => w.left > 0
  /\ w.pc = "store" => w.count \in Faces!Number

\* Whoever has a face under an id has had that id.
Owned ==
  /\ \A e \in embedding : e.face \in owners[e.id]
  /\ \A r \in Request : Enrolls(work[r])

\* The inductive invariant of FaceEnrollment.
FacesInv ==
  /\ Tables /\ work \in [Request -> Faces!Work]
  /\ \A i \in Faces!Id : Sound(i)
  /\ Owned

\* A step on the student i leaves the others alone.
Spared(i) ==
  \A j \in Faces!Id \ {i} :
    /\ pupil'[j] = pupil[j] /\ state'[j] = state[j]
    /\ Faces!Faces(j)' = Faces!Faces(j) /\ Faces!Files(j)' = Faces!Files(j)

LEMMA SparedSound ==
  ASSUME FacesInv, NEW j \in Faces!Id, stale \subseteq stale',
         pupil'[j] = pupil[j], state'[j] = state[j],
         Faces!Faces(j)' = Faces!Faces(j), Faces!Files(j)' = Faces!Files(j),
         \A s \in Request : Works(s, j)' <=> Works(s, j),
         \A s \in Request : Works(s, j) => work'[s] = work[s]
  PROVE  Sound(j)'
<1>1. /\ pupil'[j] = pupil[j] /\ state'[j] = state[j]
      /\ Faces!Faces(j)' = Faces!Faces(j) /\ Faces!Files(j)' = Faces!Files(j)
  OBVIOUS
<1>2. Count(j)' = Count(j) /\ Named(j)' = Named(j)
  BY <1>1 DEF Count, Named
<1>3. (Gapless(j)' <=> Gapless(j)) /\ (Numbered(j)' <=> Numbered(j))
  BY <1>1, <1>2 DEF Gapless, Numbered
<1>4. Faces!Exists(j)' <=> Faces!Exists(j)
  BY <1>1 DEF Faces!Exists
<1>5. Faces!Busy(j)' <=> Faces!Busy(j)
  BY DEF Faces!Busy, Works
<1> SUFFICES ASSUME state[j] # "blurred"
             PROVE  /\ \A r, s \in Request : Works(r, j)' /\ Works(s, j)' => r = s
                    /\ \A r \in Request : Works(r, j)' => Agrees(work[r], j)'
                    /\ ~Faces!Busy(j)' => Rests(j)'
                    /\ Rightly(j)'
  BY <1>1 DEF Sound
<1>6. /\ \A r, s \in Request : Works(r, j) /\ Works(s, j) => r = s
      /\ \A r \in Request : Works(r, j) => Agrees(work[r], j)
      /\ ~Faces!Busy(j) => Rests(j)
      /\ Rightly(j)
  BY DEF FacesInv, Sound
<1>7. Rests(j) => Rests(j)'
  BY <1>1, <1>2, <1>3, <1>4 DEF Rests
<1>8. Rightly(j)'
  BY <1>1, <1>4, <1>6 DEF Rightly
<1>9. ASSUME NEW r \in Request, Works(r, j)'
      PROVE  Agrees(work[r], j)'
  <2>1. work'[r] = work[r] /\ Agrees(work[r], j)
    BY <1>6, <1>9
  <2> QED
    BY <1>1, <1>2, <1>3, <1>4, <2>1 DEF Agrees
<1> QED
  BY <1>5, <1>6, <1>7, <1>8, <1>9

LEMMA StepKeeps ==
  ASSUME FacesInv, NEW r \in Request, NEW i \in Faces!Id, NEW w \in Faces!Work,
         Faces!At(r, "idle") \/ work[r].id = i,
         Faces!Goto(r, w), w.pc = "idle" \/ w.id = i,
         Tables', Spared(i), stale \subseteq stale',
         \A j \in Faces!Id : owners[j] \subseteq owners'[j],
         \A e \in embedding' : e \in embedding \/ e.face \in owners'[e.id],
         Enrolls(w)',
         state'[i] # "blurred" =>
           /\ state[i] # "blurred" /\ (Faces!At(r, "idle") => ~Faces!Busy(i))
           /\ w.pc # "idle" => Agrees(w, i)'
           /\ w.pc = "idle" => Rests(i)'
           /\ Rightly(i)'
  PROVE  FacesInv'
<1>1. /\ work' \in [Request -> Faces!Work] /\ work'[r] = w
      /\ \A s \in Request \ {r} : work'[s] = work[s]
  BY DEF Faces!Goto, FacesInv
<1>2. \A s \in Request \ {r} : \A j \in Faces!Id : Works(s, j)' <=> Works(s, j)
  BY <1>1 DEF Works, Faces!At
<1>3. \A j \in Faces!Id \ {i} : ~Works(r, j) /\ ~Works(r, j)'
  BY <1>1 DEF Works, Faces!At
<1>4. \A j \in Faces!Id \ {i} : Sound(j)'
  BY <1>1, <1>2, <1>3, SparedSound DEF Spared
<1>5. Sound(i)'
  <2> SUFFICES ASSUME state'[i] # "blurred"
               PROVE  /\ \A s, t \in Request : Works(s, i)' /\ Works(t, i)' => s = t
                      /\ \A s \in Request : Works(s, i)' => Agrees(work[s], i)'
                      /\ ~Faces!Busy(i)' => Rests(i)'
                      /\ Rightly(i)'
    BY DEF Sound
  <2>1. \A s \in Request \ {r} : ~Works(s, i)
    <3>1. CASE Faces!At(r, "idle")
      BY <3>1 DEF Faces!Busy, Works
    <3>2. CASE ~Faces!At(r, "idle")
      BY <3>2 DEF FacesInv, Sound, Works
    <3> QED
      BY <3>1, <3>2
  <2>2. \A s \in Request : Works(s, i)' => s = r
    BY <1>2, <2>1
  <2>3. Works(r, i)' <=> w.pc # "idle"
    BY <1>1 DEF Works, Faces!At
  <2>4. w.pc # "idle" => Agrees(work[r], i)'
    <3>1. w.pc # "idle" => Agrees(w, i)'
      OBVIOUS
    <3> QED
      BY <1>1, <3>1 DEF Agrees
  <2>5. w.pc # "idle" => Faces!Busy(i)'
    BY <1>1 DEF Faces!Busy, Faces!At
  <2> QED
    BY <2>2, <2>3, <2>4, <2>5
<1>6. Owned'
  <2>1. \A e \in embedding' : e.face \in owners'[e.id]
    <3>1. \A e \in embedding : e.id \in Faces!Id /\ e.face \in owners[e.id]
      BY DEF FacesInv, Tables, Owned, Faces!Face
    <3> QED
      BY <3>1
  <2>2. ASSUME NEW s \in Request
        PROVE  Enrolls(work[s])'
    <3>1. CASE s = r
      BY <1>1, <3>1 DEF Enrolls
    <3>2. CASE s # r
      <4>1. Enrolls(work[s]) /\ work'[s] = work[s] /\ (work[s].pc # "idle" => work[s].id \in Faces!Id)
        BY <1>1, <3>2, Holds DEF FacesInv, Owned
      <4> QED
        BY <4>1 DEF Enrolls
    <3> QED
      BY <3>1, <3>2
  <2> QED
    BY <2>1, <2>2 DEF Owned
<1> QED
  BY <1>1, <1>4, <1>5, <1>6 DEF FacesInv

LEMMA Spares ==
  ASSUME NEW i \in Faces!Id,
         \A j \in Faces!Id \ {i} : pupil'[j] = pupil[j] /\ state'[j] = state[j],
         \A e : e.id # i => (e \in embedding' <=> e \in embedding),
         \A f : f[1] # i => (f \in file' <=> f \in file)
  PROVE  Spared(i)
BY DEF Spared, Faces!Faces, Faces!Files

LEMMA Finite ==
  ASSUME Tables, NEW i \in Faces!Id
  PROVE  /\ IsFiniteSet(Faces!Faces(i)) /\ Count(i) \in Nat
         /\ Count(i) = 0 <=> Faces!Faces(i) = {}
         /\ Faces!Cardinality(Faces!Faces(i)) = Count(i)
         /\ Faces!Cardinality(Faces!Files(i)) \in Nat
         /\ Faces!Exists(i) => pupil[i].who \in Faces!Person /\ pupil[i].photos \in Nat
<1>1. Faces!Faces(i) \subseteq embedding /\ Faces!Files(i) \subseteq file
  BY DEF Faces!Faces, Faces!Files
<1>2. IsFiniteSet(embedding) /\ IsFiniteSet(file)
  BY DEF Tables
<1>3. /\ IsFiniteSet(Faces!Faces(i)) /\ Count(i) \in Nat
      /\ Count(i) = 0 <=> Faces!Faces(i) = {}
  BY <1>1, <1>2, FinitePart DEF Count
<1>4. Cardinality(Faces!Files(i)) \in Nat
  BY <1>1, <1>2, FinitePart
<1>5. /\ Faces!Cardinality(Faces!Faces(i)) = Cardinality(Faces!Faces(i))
      /\ Faces!Cardinality(Faces!Files(i)) = Cardinality(Faces!Files(i))
  BY CardinalitySame, Zenon
<1>6. Faces!Exists(i) => pupil[i].who \in Faces!Person /\ pupil[i].photos \in Nat
  BY RowIs DEF Tables, Faces!Exists
<1> QED
  BY <1>3, <1>4, <1>5, <1>6 DEF Count

LEMMA FiniteAfter ==
  ASSUME Tables', NEW i \in Faces!Id
  PROVE  /\ IsFiniteSet(Faces!Faces(i)') /\ Count(i)' \in Nat
         /\ Count(i)' = 0 <=> Faces!Faces(i)' = {}
         /\ Faces!Exists(i)' => pupil'[i].who \in Faces!Person /\ pupil'[i].photos \in Nat
<1>1. Faces!Faces(i)' \subseteq embedding'
  BY DEF Faces!Faces
<1>2. IsFiniteSet(embedding')
  BY DEF Tables
<1>3. /\ IsFiniteSet(Faces!Faces(i)') /\ Count(i)' \in Nat
      /\ Count(i)' = 0 <=> Faces!Faces(i)' = {}
  BY <1>1, <1>2, FinitePart DEF Count
<1>6. Faces!Exists(i)' => pupil'[i].who \in Faces!Person /\ pupil'[i].photos \in Nat
  BY RowIs DEF Tables, Faces!Exists
<1> QED
  BY <1>3, <1>6

\* What a worker that is on a student may take for granted.
LEMMA Mine ==
  ASSUME FacesInv, NEW r \in Request, NEW i \in Faces!Id,
         ~Faces!At(r, "idle"), work[r].id = i
  PROVE  /\ work[r] \in Faces!Work /\ Enrolls(work[r])
         /\ state[i] # "blurred" => Agrees(work[r], i) /\ Rightly(i)
BY DEF FacesInv, Sound, Works, Owned

\* How a loop that saves images goes on.
LEMMA FurtherFits ==
  ASSUME NEW i \in Faces!Id, Tables', NEW new \in BOOLEAN, NEW who \in Faces!Person,
         NEW count \in Nat, NEW left0 \in Nat, NEW saved \in Nat, NEW w,
         w = [pc |-> "image", new |-> new, id |-> i, who |-> who, count |-> count,
              left |-> left0, saved |-> saved],
         who \in owners'[i], state'[i] # "blurred" => Agrees(w, i)',
         NEW v, v = Faces!Further(w)
  PROVE  /\ v \in Faces!Work /\ (v.pc = "idle" \/ v.id = i) /\ Enrolls(v)'
         /\ state'[i] # "blurred" =>
              (v.pc # "idle" => Agrees(v, i)') /\ (v.pc = "idle" => Rests(i)')
<1>1. /\ w.pc = "image" /\ w.new = new /\ w.id = i /\ w.who = who /\ w.count = count
      /\ w.left = left0 /\ w.saved = saved
  OBVIOUS
<1>2. state'[i] # "blurred" =>
        /\ Faces!Exists(i)' /\ (who = pupil'[i].who \/ who \in stale')
        /\ new => pupil'[i].photos = 0
        /\ pupil'[i].photos + saved = Count(i)'
        /\ state'[i] = "clean" => Numbered(i)' /\ count = Count(i)'
  BY <1>1 DEF Agrees
<1>3. /\ Count(i)' \in Nat /\ (Count(i)' = 0 <=> Faces!Faces(i)' = {})
      /\ Faces!Exists(i)' => pupil'[i].photos \in Nat
  BY FiniteAfter
<1>4. CASE left0 > 0
  <2>1. v = w
    BY <1>1, <1>4 DEF Faces!Further
  <2>2. w \in Faces!Work
    BY DEF Faces!Work
  <2>3. Enrolls(w)'
    BY <1>1, <1>4 DEF Enrolls
  <2> QED
    BY <1>1, <2>1, <2>2, <2>3
<1>5. CASE left0 = 0 /\ saved = 0 /\ new
  <2>1. v = [pc |-> "undo", id |-> i]
    BY <1>1, <1>5 DEF Faces!Further
  <2>2. v \in Faces!Work /\ v.pc = "undo" /\ v.id = i
    BY <2>1 DEF Faces!Work
  <2>3. state'[i] # "blurred" => Faces!Faces(i)' = {}
    BY <1>2, <1>3, <1>5
  <2> QED
    BY <1>2, <2>2, <2>3 DEF Agrees, Enrolls
<1>6. CASE left0 = 0 /\ saved = 0 /\ ~new
  <2>1. v = Faces!Idle
    BY <1>1, <1>6 DEF Faces!Further
  <2>2. v \in Faces!Work /\ v.pc = "idle"
    BY <2>1 DEF Faces!Work, Faces!Idle
  <2>3. state'[i] # "blurred" => Rests(i)'
    BY <1>2, <1>3, <1>6 DEF Rests
  <2> QED
    BY <2>2, <2>3 DEF Enrolls
<1>7. CASE left0 = 0 /\ saved > 0 /\ new
  <2>1. v = [pc |-> "photos", id |-> i, total |-> saved]
    BY <1>1, <1>7 DEF Faces!Further
  <2>2. v \in Faces!Work /\ v.pc = "photos" /\ v.id = i /\ v.total = saved
    BY <2>1 DEF Faces!Work
  <2>3. state'[i] # "blurred" => saved = Count(i)'
    BY <1>2, <1>3, <1>7
  <2> QED
    BY <1>2, <2>2, <2>3 DEF Agrees, Enrolls
<1>8. CASE left0 = 0 /\ saved > 0 /\ ~new
  <2>1. v = [pc |-> "tally", id |-> i]
    BY <1>1, <1>8 DEF Faces!Further
  <2>2. v \in Faces!Work /\ v.pc = "tally" /\ v.id = i
    BY <2>1 DEF Faces!Work
  <2> QED
    BY <1>2, <2>2 DEF Agrees, Enrolls
<1> QED
  BY <1>4, <1>5, <1>6, <1>7, <1>8

-----------------------------------------------------------------------------
(* FaceEnrollment: enrolling. *)

LEMMA ListKeeps ==
  ASSUME FacesInv, NEW r \in Request, Faces!ListFiles(r)
  PROVE  FacesInv'
<1>1. /\ Faces!At(r, "list") /\ UNCHANGED <<pupil, file, embedding, made, owners, stale, state>>
  BY DEF Faces!ListFiles
<1>2. PICK i \in Faces!Id : work[r].id = i
  BY <1>1, Holds DEF FacesInv, Faces!At
<1>3. PICK left0 \in 0..MaxImages :
        Faces!Goto(r, Faces!Further([pc |-> "image", new |-> work[r].new, id |-> work[r].id,
                        who |-> work[r].who, count |-> Faces!Cardinality(Faces!Files(work[r].id)),
                        left |-> left0, saved |-> 0]))
  BY Zenon DEF Faces!ListFiles
<1>4. PICK new, who, count : new = work[r].new /\ who = work[r].who
                             /\ count = Faces!Cardinality(Faces!Files(work[r].id))
  OBVIOUS
<1>5. PICK w : w = [pc |-> "image", new |-> new, id |-> i, who |-> who, count |-> count,
                    left |-> left0, saved |-> 0]
  OBVIOUS
<1>6. PICK v : v = Faces!Further(w)
  OBVIOUS
<1>7. Faces!Goto(r, v)
  BY <1>2, <1>3, <1>4, <1>5, <1>6, Zenon
<1>8. /\ new \in BOOLEAN /\ who \in Faces!Person /\ count \in Nat /\ left0 \in Nat
      /\ who \in owners'[i]
  <2>1. new \in BOOLEAN /\ who \in Faces!Person
    BY <1>1, <1>4, Holds DEF FacesInv, Faces!At
  <2>2. count \in Nat
    BY <1>2, <1>4, Finite DEF FacesInv
  <2>3. who \in owners'[i]
    BY <1>1, <1>2, <1>4 DEF FacesInv, Owned, Enrolls, Faces!At
  <2> QED
    BY <2>1, <2>2, <2>3, FaceBoundAssumption
<1>9. Tables' /\ Spared(i)
  BY <1>1, Spares DEF FacesInv, Tables
<1>10. /\ Faces!Faces(i)' = Faces!Faces(i) /\ Faces!Files(i)' = Faces!Files(i)
       /\ Faces!Exists(i)' <=> Faces!Exists(i)
  BY <1>1 DEF Faces!Faces, Faces!Files, Faces!Exists
<1>11. state'[i] # "blurred" => Agrees(w, i)' /\ Rightly(i)'
  <2> SUFFICES ASSUME state[i] # "blurred"
               PROVE  Agrees(w, i)' /\ Rightly(i)'
    BY <1>1
  <2>1. Agrees(work[r], i) /\ Rightly(i)
    BY <1>1, <1>2, Mine DEF Faces!At
  <2>2. /\ Faces!Exists(i) /\ (who = pupil[i].who \/ who \in stale)
        /\ new => pupil[i].photos = 0
        /\ pupil[i].photos = Count(i)
        /\ state[i] = "clean" => Numbered(i)
    BY <1>1, <1>4, <2>1 DEF Agrees, Faces!At
  <2>3. state[i] = "clean" => count = Count(i)
    <3>1. ASSUME Numbered(i)
          PROVE  Cardinality(Faces!Files(i)) = Count(i)
      <4>1. Faces!Files(i) = {<<i, k>> : k \in 1..Count(i)}
        BY <3>1 DEF Numbered, Named, Gapless
      <4>2. Count(i) \in Nat
        BY Finite DEF FacesInv
      <4> QED
        BY <4>1, <4>2, Pairs
    <3>2. count = Cardinality(Faces!Files(i))
      BY <1>2, <1>4, CardinalitySame, Zenon
    <3> QED
      BY <2>2, <3>1, <3>2
  <2>4. Count(i)' = Count(i) /\ Numbered(i)' = Numbered(i)
    BY <1>10 DEF Count, Numbered, Named, Gapless
  <2>5. pupil[i].photos \in Nat
    BY <2>2, Finite DEF FacesInv
  <2>6. Agrees(w, i)'
    BY <1>1, <1>5, <1>10, <2>2, <2>3, <2>4, <2>5 DEF Agrees
  <2>7. Rightly(i)'
    BY <1>1, <1>10, <2>1 DEF Rightly
  <2> QED
    BY <2>6, <2>7
<1>12. /\ v \in Faces!Work /\ (v.pc = "idle" \/ v.id = i) /\ Enrolls(v)'
       /\ state'[i] # "blurred" =>
            (v.pc # "idle" => Agrees(v, i)') /\ (v.pc = "idle" => Rests(i)')
  BY <1>5, <1>6, <1>8, <1>9, <1>11, FurtherFits
<1>13. ~Faces!At(r, "idle") /\ work[r].id = i
  BY <1>1, <1>2 DEF Faces!At
<1> QED
  BY <1>1, <1>7, <1>9, <1>11, <1>12, <1>13, StepKeeps

\* What a worker holds while it saves images.
Saves(step) ==
  [pc : {step}, new : BOOLEAN, id : Faces!Id, who : Faces!Person,
   count : Nat, left : Nat, saved : Nat]

LEMMA SavesOn ==
  ASSUME NEW x \in Saves("image"), NEW c, c = x.count + 1,
         NEW w, w = [x EXCEPT !.pc = "store", !.count = c]
  PROVE  w = [pc |-> "store", new |-> x.new, id |-> x.id, who |-> x.who,
              count |-> c, left |-> x.left, saved |-> x.saved]
<1>1. c \in Nat
  BY DEF Saves
<1>2. PICK step : step = "store"
  OBVIOUS
<1>3. w = [x EXCEPT !.pc = step, !.count = c]
  BY <1>2, Zenon
<1>4. w = [pc |-> step, new |-> x.new, id |-> x.id, who |-> x.who,
           count |-> c, left |-> x.left, saved |-> x.saved]
  BY <1>1, <1>3 DEF Saves
<1> QED
  BY <1>2, <1>4, Zenon

LEMMA StoresOn ==
  ASSUME NEW x \in Saves("store"), NEW d \in Nat, NEW f \in Nat,
         NEW w, w = [x EXCEPT !.pc = "image", !.left = d, !.saved = f]
  PROVE  w = [pc |-> "image", new |-> x.new, id |-> x.id, who |-> x.who,
              count |-> x.count, left |-> d, saved |-> f]
<1>1. PICK step : step = "image"
  OBVIOUS
<1>2. w = [x EXCEPT !.pc = step, !.left = d, !.saved = f]
  BY <1>1, Zenon
<1>3. w = [pc |-> step, new |-> x.new, id |-> x.id, who |-> x.who,
           count |-> x.count, left |-> d, saved |-> f]
  BY <1>2 DEF Saves
<1> QED
  BY <1>1, <1>3, Zenon

LEMMA SaveKeeps ==
  ASSUME FacesInv, NEW r \in Request, Faces!SaveFile(r)
  PROVE  FacesInv'
<1>1. /\ Faces!At(r, "image") /\ work[r].count < MaxFile
      /\ UNCHANGED <<pupil, embedding, made, owners, stale, state>>
      /\ file' = file \cup {<<work[r].id, work[r].count + 1>>}
      /\ Faces!Goto(r, [work[r] EXCEPT !.pc = "store", !.count = @ + 1])
  BY DEF Faces!SaveFile
<1>2. PICK i, new, who, count, left0, saved :
        work[r] = [pc |-> "image", new |-> new, id |-> i, who |-> who,
                   count |-> count, left |-> left0, saved |-> saved]
  BY <1>1, Holds DEF FacesInv, Faces!At
<1>3. /\ i \in Faces!Id /\ new \in BOOLEAN /\ who \in Faces!Person
      /\ count \in Nat /\ left0 \in Nat /\ saved \in Nat
      /\ work[r].pc = "image" /\ work[r].id = i /\ work[r].new = new /\ work[r].who = who
      /\ work[r].count = count /\ work[r].left = left0 /\ work[r].saved = saved
  <2>1. work[r].pc = "image" /\ work[r].id = i /\ work[r].new = new /\ work[r].who = who
        /\ work[r].count = count /\ work[r].left = left0 /\ work[r].saved = saved
    BY <1>2
  <2> QED
    BY <2>1, Holds DEF FacesInv
<1>4. PICK w : w = [pc |-> "store", new |-> new, id |-> i, who |-> who,
                    count |-> count + 1, left |-> left0, saved |-> saved]
  OBVIOUS
<1>5. Faces!Goto(r, w) /\ file' = file \cup {<<i, count + 1>>}
  <2>1. work[r] \in Saves("image")
    BY <1>2, <1>3 DEF Saves
  <2>2. PICK c : c = work[r].count + 1
    OBVIOUS
  <2>3. [work[r] EXCEPT !.pc = "store", !.count = @ + 1]
          = [work[r] EXCEPT !.pc = "store", !.count = c]
    BY <2>2, Zenon
  <2>4. [work[r] EXCEPT !.pc = "store", !.count = c]
          = [pc |-> "store", new |-> new, id |-> i, who |-> who,
             count |-> c, left |-> left0, saved |-> saved]
    BY <1>3, <2>1, <2>2, SavesOn, Zenon
  <2>5. c = count + 1
    BY <1>3, <2>2
  <2>6. [work[r] EXCEPT !.pc = "store", !.count = @ + 1] = w
    BY <1>4, <2>3, <2>4, <2>5, Zenon
  <2> QED
    BY <1>1, <1>3, <2>6, Zenon
<1>6. /\ w.pc = "store" /\ w.id = i /\ w.new = new /\ w.who = who
      /\ w.count = count + 1 /\ w.left = left0 /\ w.saved = saved
  BY <1>4
<1>7. w \in Faces!Work
  BY <1>3, <1>4 DEF Faces!Work
<1>8. count + 1 \in Faces!Number
  BY <1>1, <1>3, FaceBoundAssumption DEF Faces!Number
<1>9. Tables'
  <2>1. IsFiniteSet(file')
    BY <1>5, FS_AddElement DEF FacesInv, Tables
  <2>2. file' \subseteq Faces!Id \X Faces!Number
    BY <1>3, <1>5, <1>8 DEF FacesInv, Tables
  <2> QED
    BY <1>1, <2>1, <2>2 DEF FacesInv, Tables
<1>10. Spared(i)
  <2>1. <<i, count + 1>>[1] = i
    OBVIOUS
  <2> QED
    BY <1>1, <1>3, <1>5, <2>1, Spares
<1>11. ~Faces!At(r, "idle") /\ Enrolls(work[r])
       /\ (state[i] # "blurred" => Agrees(work[r], i) /\ Rightly(i))
  BY <1>1, <1>3, Mine DEF Faces!At
<1>12. Enrolls(w)'
  BY <1>1, <1>3, <1>6, <1>8, <1>11 DEF Enrolls
<1>13. state'[i] # "blurred" => Agrees(w, i)' /\ Rightly(i)'
  <2> SUFFICES ASSUME state[i] # "blurred"
               PROVE  Agrees(w, i)' /\ Rightly(i)'
    BY <1>1
  <2>1. /\ Faces!Exists(i) /\ (who = pupil[i].who \/ who \in stale)
        /\ new => pupil[i].photos = 0
        /\ pupil[i].photos + saved = Count(i)
        /\ state[i] = "clean" => Numbered(i) /\ count = Count(i)
    BY <1>3, <1>11 DEF Agrees
  <2>2. /\ Faces!Faces(i)' = Faces!Faces(i) /\ (Faces!Exists(i)' <=> Faces!Exists(i))
        /\ Faces!Files(i)' = Faces!Files(i) \cup {<<i, count + 1>>}
    BY <1>1, <1>5 DEF Faces!Faces, Faces!Files, Faces!Exists
  <2>3. Count(i)' = Count(i) /\ Named(i)' = Named(i) /\ Gapless(i)' = Gapless(i)
    BY <2>2 DEF Count, Named, Gapless
  <2>4. Agrees(w, i)'
    BY <1>1, <1>6, <2>1, <2>2, <2>3 DEF Agrees, Numbered
  <2>5. Rightly(i)'
    BY <1>1, <1>11, <2>2 DEF Rightly
  <2> QED
    BY <2>4, <2>5
<1> QED
  BY <1>1, <1>3, <1>5, <1>6, <1>7, <1>9, <1>10, <1>11, <1>12, <1>13, StepKeeps

\* One more face, under a new key.
LEMMA OneMore ==
  ASSUME Tables, NEW i \in Faces!Id, NEW e, e.id = i, e \notin embedding,
         embedding' = embedding \cup {e}
  PROVE  /\ Faces!Faces(i)' = Faces!Faces(i) \cup {e} /\ Count(i)' = Count(i) + 1
         /\ Named(i)' = Named(i) \cup {<<i, e.number>>}
         /\ Gapless(i) /\ e.number = Count(i) + 1 => Gapless(i)'
<1>1. Faces!Faces(i)' = Faces!Faces(i) \cup {e} /\ e \notin Faces!Faces(i)
  BY DEF Faces!Faces
<1>2. Count(i)' = Count(i) + 1
  BY <1>1, Finite, FS_AddElement DEF Count
<1>3. Named(i)' = Named(i) \cup {<<i, e.number>>}
  BY <1>1 DEF Named
<1>4. Gapless(i) /\ e.number = Count(i) + 1 => Gapless(i)'
  <2>1. {f.number : f \in Faces!Faces(i)'} = {f.number : f \in Faces!Faces(i)} \cup {e.number}
    BY <1>1
  <2>2. Count(i) \in Nat
    BY Finite
  <2>3. 1..(Count(i) + 1) = 1..Count(i) \cup {Count(i) + 1}
    BY <2>2
  <2> QED
    BY <1>2, <2>1, <2>3 DEF Gapless
<1> QED
  BY <1>1, <1>2, <1>3, <1>4

LEMMA StoreKeeps ==
  ASSUME FacesInv, NEW r \in Request, Faces!StoreEmbedding(r)
  PROVE  FacesInv'
<1>1. /\ Faces!At(r, "store") /\ UNCHANGED <<pupil, file, made, owners, stale, state>>
      /\ Faces!Goto(r, Faces!Further([work[r] EXCEPT !.pc = "image", !.left = @ - 1, !.saved = @ + 1]))
  BY DEF Faces!StoreEmbedding
<1>2. PICK i, new, who, count, left0, saved :
        work[r] = [pc |-> "store", new |-> new, id |-> i, who |-> who,
                   count |-> count, left |-> left0, saved |-> saved]
  BY <1>1, Holds DEF FacesInv, Faces!At
<1>3. /\ i \in Faces!Id /\ new \in BOOLEAN /\ who \in Faces!Person
      /\ count \in Nat /\ left0 \in Nat /\ saved \in Nat
      /\ work[r].pc = "store" /\ work[r].id = i /\ work[r].new = new /\ work[r].who = who
      /\ work[r].count = count /\ work[r].left = left0 /\ work[r].saved = saved
  <2>1. work[r].pc = "store" /\ work[r].id = i /\ work[r].new = new /\ work[r].who = who
        /\ work[r].count = count /\ work[r].left = left0 /\ work[r].saved = saved
    BY <1>2
  <2> QED
    BY <2>1, Holds DEF FacesInv
<1>4. ~Faces!At(r, "idle") /\ Enrolls(work[r])
      /\ (state[i] # "blurred" => Agrees(work[r], i) /\ Rightly(i))
  BY <1>1, <1>3, Mine DEF Faces!At
<1>5. who \in owners[i] /\ left0 > 0 /\ count \in Faces!Number
  BY <1>3, <1>4 DEF Enrolls
<1>6. PICK w : w = [pc |-> "image", new |-> new, id |-> i, who |-> who,
                    count |-> count, left |-> left0 - 1, saved |-> saved + 1]
  OBVIOUS
<1>7. PICK v : v = Faces!Further(w)
  OBVIOUS
<1>8. Faces!Goto(r, v)
  <2>1. work[r] \in Saves("store")
    BY <1>2, <1>3 DEF Saves
  <2>2. PICK d, f : d = work[r].left - 1 /\ f = work[r].saved + 1
    OBVIOUS
  <2>3. d = left0 - 1 /\ f = saved + 1 /\ d \in Nat /\ f \in Nat
    BY <1>3, <1>5, <2>2
  <2>4. [work[r] EXCEPT !.pc = "image", !.left = @ - 1, !.saved = @ + 1]
          = [work[r] EXCEPT !.pc = "image", !.left = d, !.saved = f]
    BY <2>2, Zenon
  <2>5. [work[r] EXCEPT !.pc = "image", !.left = d, !.saved = f]
          = [pc |-> "image", new |-> new, id |-> i, who |-> who,
             count |-> count, left |-> d, saved |-> f]
    <3>1. d \in Nat /\ f \in Nat
      BY <2>3
    <3>2. [work[r] EXCEPT !.pc = "image", !.left = d, !.saved = f]
            = [pc |-> "image", new |-> work[r].new, id |-> work[r].id, who |-> work[r].who,
               count |-> work[r].count, left |-> d, saved |-> f]
      BY <2>1, <3>1, StoresOn, Zenon
    <3> QED
      BY <1>3, <3>2, Zenon
  <2>6. [work[r] EXCEPT !.pc = "image", !.left = @ - 1, !.saved = @ + 1] = w
    BY <1>6, <2>3, <2>4, <2>5, Zenon
  <2> QED
    BY <1>1, <1>7, <2>6, Zenon
<1>9. PICK k \in Faces!Key :
        /\ \A e \in embedding : e.key < k
        /\ embedding' = embedding \cup
             {[key |-> k, id |-> work[r].id, face |-> work[r].who, number |-> work[r].count]}
  BY Zenon DEF Faces!StoreEmbedding
<1>10. PICK e : e = [key |-> k, id |-> i, face |-> who, number |-> count]
  OBVIOUS
<1>11. embedding' = embedding \cup {e}
  BY <1>3, <1>9, <1>10, Zenon
<1>12. /\ e \in Faces!Face /\ e.key = k /\ e.id = i /\ e.face = who /\ e.number = count
  BY <1>3, <1>5, <1>10 DEF Faces!Face
<1>13. e \notin embedding /\ \A f \in embedding : f.key # k
  <2>1. k \in Int /\ \A f \in embedding : f.key \in Int
    BY DEF FacesInv, Tables, Faces!Face, Faces!Key
  <2> QED
    BY <1>9, <1>12, <2>1
<1>14. Tables'
  <2>1. IsFiniteSet(embedding')
    BY <1>11, FS_AddElement DEF FacesInv, Tables
  <2>2. embedding' \subseteq Faces!Face
    BY <1>11, <1>12 DEF FacesInv, Tables
  <2>3. \A f, g \in embedding' : f.key = g.key => f = g
    BY <1>11, <1>12, <1>13 DEF FacesInv, Tables
  <2> QED
    BY <1>1, <2>1, <2>2, <2>3 DEF FacesInv, Tables
<1>15. Spared(i)
  BY <1>1, <1>3, <1>11, <1>12, Spares
<1>16. state'[i] # "blurred" => Agrees(w, i)' /\ Rightly(i)'
  <2> SUFFICES ASSUME state[i] # "blurred"
               PROVE  Agrees(w, i)' /\ Rightly(i)'
    BY <1>1
  <2>1. /\ Faces!Exists(i) /\ (who = pupil[i].who \/ who \in stale)
        /\ new => pupil[i].photos = 0
        /\ pupil[i].photos + saved = Count(i)
        /\ state[i] = "clean" =>
             /\ count = Count(i) + 1 /\ Gapless(i)
             /\ Faces!Files(i) = Named(i) \cup {<<i, count>>}
    BY <1>3, <1>4 DEF Agrees
  <2>2. /\ Faces!Files(i)' = Faces!Files(i) /\ (Faces!Exists(i)' <=> Faces!Exists(i))
    BY <1>1 DEF Faces!Files, Faces!Exists
  <2>3. /\ Faces!Faces(i)' = Faces!Faces(i) \cup {e} /\ Count(i)' = Count(i) + 1
        /\ Named(i)' = Named(i) \cup {<<i, count>>}
        /\ Gapless(i) /\ count = Count(i) + 1 => Gapless(i)'
    BY <1>3, <1>11, <1>12, <1>13, OneMore DEF FacesInv
  <2>4. /\ w.pc = "image" /\ w.new = new /\ w.who = who /\ w.count = count /\ w.saved = saved + 1
    BY <1>6
  <2>5. pupil[i].photos \in Nat /\ Count(i) \in Nat
    BY <1>3, <2>1, Finite DEF FacesInv
  <2>6. state[i] = "clean" => Numbered(i)' /\ count = Count(i)'
    BY <2>1, <2>2, <2>3 DEF Numbered
  <2>7. pupil[i].photos + (saved + 1) = Count(i) + 1
    BY <1>3, <2>1, <2>5
  <2>8. Agrees(w, i)'
    BY <1>1, <2>1, <2>2, <2>3, <2>4, <2>6, <2>7 DEF Agrees
  <2>9. Rightly(i)'
    BY <1>1, <1>4, <1>12, <2>1, <2>3 DEF Rightly
  <2> QED
    BY <2>8, <2>9
<1>17. /\ v \in Faces!Work /\ (v.pc = "idle" \/ v.id = i) /\ Enrolls(v)'
       /\ state'[i] # "blurred" =>
            (v.pc # "idle" => Agrees(v, i)') /\ (v.pc = "idle" => Rests(i)')
  <2>1. left0 - 1 \in Nat /\ saved + 1 \in Nat /\ who \in owners'[i]
    BY <1>1, <1>3, <1>5
  <2> QED
    BY <1>3, <1>6, <1>7, <1>14, <1>16, <2>1, FurtherFits
<1>18. \A f \in embedding' : f \in embedding \/ f.face \in owners'[f.id]
  BY <1>1, <1>5, <1>11, <1>12
<1> QED
  BY <1>1, <1>3, <1>4, <1>8, <1>14, <1>15, <1>16, <1>17, <1>18, StepKeeps

-----------------------------------------------------------------------------
(* FaceEnrollment: requests that begin. *)

LEMMA BeginIs ==
  ASSUME Tables, NEW i \in Faces!Id, Faces!Begin(i)
  PROVE  /\ state' \in [Faces!Id -> {"clean", "picked", "blurred"}]
         /\ \A j \in Faces!Id \ {i} : state'[j] = state[j]
         /\ state'[i] # "blurred" => ~Faces!Busy(i) /\ state'[i] = state[i]
BY DEF Tables, Faces!Begin

LEMMA InsertIs ==
  ASSUME FacesInv, NEW i \in Faces!Id, Faces!Insert(i), UNCHANGED <<file, embedding, stale>>
  PROVE  /\ Tables' /\ Spared(i) /\ made + 1 \in Faces!Person
         /\ ~Faces!Exists(i) /\ Faces!Exists(i)'
         /\ pupil'[i].who = made + 1 /\ pupil'[i].photos = 0
         /\ made + 1 \in owners'[i] /\ \A j \in Faces!Id : owners[j] \subseteq owners'[j]
         /\ state'[i] # "blurred" =>
              /\ state[i] # "blurred" /\ ~Faces!Busy(i)
              /\ Faces!Faces(i)' = {} /\ Count(i)' = 0
              /\ state'[i] = "clean" => Numbered(i)'
<1>1. /\ made < MaxBorn /\ made' = made + 1 /\ Faces!Begin(i)
      /\ pupil' = [pupil EXCEPT ![i] = [who |-> made + 1, photos |-> 0]]
      /\ owners' = [owners EXCEPT ![i] = @ \cup {made + 1}]
      /\ \A j \in Faces!Id : Faces!Exists(j) => j < i
  BY DEF Faces!Insert
<1>2. Tables
  BY DEF FacesInv
<1>3. made + 1 \in Faces!Person /\ made' \in Nat
  BY <1>1, <1>2, BoundAssumption DEF Tables, Faces!Person
<1>4. ~Faces!Exists(i)
  <2>1. i \in Int
    BY DEF Faces!Id
  <2> QED
    BY <1>1, <2>1
<1> DEFINE row == [who |-> made + 1, photos |-> 0]
<1>5. row \in Faces!Row /\ row.who = made + 1 /\ row.photos = 0 /\ row # Faces!NoRow
  BY <1>2, <1>3 DEF Faces!Row, Faces!NoRow, Tables
<1> HIDE DEF row
<1>6. /\ pupil' \in [Faces!Id -> Faces!Row] /\ pupil'[i] = row
      /\ \A j \in Faces!Id \ {i} : pupil'[j] = pupil[j]
  <2>1. pupil' = [pupil EXCEPT ![i] = row]
    BY <1>1 DEF row
  <2> QED
    BY <1>2, <1>5, <2>1 DEF Tables
<1>7. /\ owners' \in [Faces!Id -> SUBSET Faces!Person] /\ made + 1 \in owners'[i]
      /\ \A j \in Faces!Id : owners[j] \subseteq owners'[j]
  BY <1>1, <1>2, <1>3 DEF Tables
<1>8. /\ state' \in [Faces!Id -> {"clean", "picked", "blurred"}]
      /\ \A j \in Faces!Id \ {i} : state'[j] = state[j]
      /\ state'[i] # "blurred" => ~Faces!Busy(i) /\ state'[i] = state[i]
  BY <1>1, <1>2, BeginIs
<1>9. Tables'
  BY <1>2, <1>3, <1>6, <1>7, <1>8 DEF Tables
<1>10. Spared(i)
  BY <1>6, <1>8, Spares
<1>11. Faces!Faces(i)' = Faces!Faces(i) /\ Faces!Files(i)' = Faces!Files(i)
  BY DEF Faces!Faces, Faces!Files
<1>12. ASSUME state'[i] # "blurred"
       PROVE  /\ Faces!Faces(i)' = {} /\ Count(i)' = 0
              /\ state'[i] = "clean" => Numbered(i)'
  <2>1. Rests(i)
    BY <1>8, <1>12 DEF FacesInv, Sound
  <2>2. Faces!Faces(i) = {}
    BY <1>4, <2>1 DEF Rests
  <2>3. Count(i)' = 0 /\ Count(i)' = Count(i)
    BY <1>11, <2>2, FS_EmptySet DEF Count
  <2>4. state[i] = "clean" => Numbered(i)'
    BY <1>11, <2>1, <2>3 DEF Rests, Numbered, Named, Gapless
  <2> QED
    BY <1>8, <1>11, <1>12, <2>2, <2>3, <2>4
<1>13. Faces!Exists(i)'
  BY <1>5, <1>6 DEF Faces!Exists
<1> QED
  BY <1>3, <1>4, <1>5, <1>6, <1>7, <1>8, <1>9, <1>10, <1>12, <1>13

LEMMA RegisterKeeps ==
  ASSUME FacesInv, NEW r \in Request, NEW i \in Faces!Id, Faces!Register(r, i)
  PROVE  FacesInv'
<1>1. /\ Faces!At(r, "idle") /\ Faces!Insert(i) /\ UNCHANGED <<file, embedding, stale>>
      /\ Faces!Goto(r, [pc |-> "list", new |-> TRUE, id |-> i, who |-> made + 1])
  BY DEF Faces!Register
<1>2. PICK p : p = made + 1
  OBVIOUS
<1>3. PICK w : w = [pc |-> "list", new |-> TRUE, id |-> i, who |-> p]
  OBVIOUS
<1>4. Faces!Goto(r, w)
  BY <1>1, <1>2, <1>3, Zenon
<1>5. /\ Tables' /\ Spared(i) /\ p \in Faces!Person /\ Faces!Exists(i)'
      /\ pupil'[i].who = p /\ pupil'[i].photos = 0
      /\ p \in owners'[i] /\ \A j \in Faces!Id : owners[j] \subseteq owners'[j]
      /\ state'[i] # "blurred" =>
           /\ state[i] # "blurred" /\ ~Faces!Busy(i)
           /\ Faces!Faces(i)' = {} /\ Count(i)' = 0
           /\ state'[i] = "clean" => Numbered(i)'
  BY <1>1, <1>2, InsertIs
<1>6. w \in Faces!Work
  BY <1>3, <1>5 DEF Faces!Work
<1>7. w.pc = "list" /\ w.new /\ w.id = i /\ w.who = p
  BY <1>3
<1>8. Enrolls(w)'
  BY <1>5, <1>7 DEF Enrolls
<1>9. state'[i] # "blurred" => Agrees(w, i)' /\ Rightly(i)'
  BY <1>5, <1>7 DEF Agrees, Rightly
<1> QED
  BY <1>1, <1>4, <1>5, <1>6, <1>7, <1>8, <1>9, StepKeeps

LEMMA ImportKeeps ==
  ASSUME FacesInv, NEW i \in Faces!Id, Faces!Import(i)
  PROVE  FacesInv'
<1>1. Faces!Insert(i) /\ UNCHANGED <<file, embedding, work, stale>>
  BY DEF Faces!Import
<1>2. /\ Tables' /\ Spared(i) /\ Faces!Exists(i)' /\ pupil'[i].photos = 0
      /\ \A j \in Faces!Id : owners[j] \subseteq owners'[j]
      /\ state'[i] # "blurred" =>
           /\ state[i] # "blurred" /\ ~Faces!Busy(i)
           /\ Faces!Faces(i)' = {} /\ Count(i)' = 0
           /\ state'[i] = "clean" => Numbered(i)'
  BY <1>1, InsertIs
<1>3. \A s \in Request : \A j \in Faces!Id : Works(s, j)' <=> Works(s, j)
  BY <1>1 DEF Works, Faces!At
<1>4. \A j \in Faces!Id \ {i} : Sound(j)'
  BY <1>1, <1>2, <1>3, SparedSound DEF Spared
<1>5. Sound(i)'
  <2> SUFFICES ASSUME state'[i] # "blurred"
               PROVE  (\A s \in Request : ~Works(s, i)') /\ Rests(i)' /\ Rightly(i)'
    BY DEF Sound
  <2>1. \A s \in Request : ~Works(s, i)'
    BY <1>2, <1>3 DEF Faces!Busy, Works
  <2>2. Rests(i)' /\ Rightly(i)'
    BY <1>2 DEF Rests, Rightly
  <2> QED
    BY <2>1, <2>2
<1>6. Owned'
  <2>1. \A e \in embedding : e.id \in Faces!Id
    BY DEF FacesInv, Tables, Faces!Face
  <2>2. \A s \in Request : Enrolls(work[s]) /\ (work[s].pc # "idle" => work[s].id \in Faces!Id)
    BY Holds DEF FacesInv, Owned
  <2> QED
    BY <1>1, <1>2, <2>1, <2>2 DEF FacesInv, Owned, Enrolls
<1> QED
  BY <1>1, <1>2, <1>4, <1>5, <1>6 DEF FacesInv

LEMMA RegisterFaceKeeps ==
  ASSUME FacesInv, NEW r \in Request, NEW i \in Faces!Id, NEW p \in Faces!Person,
         Faces!RegisterFace(r, i, p)
  PROVE  FacesInv'
<1>1. /\ Faces!At(r, "idle") /\ p \in owners[i] /\ Faces!Exists(i)
      /\ stale' = IF pupil[i].who # p THEN stale \cup {p} ELSE stale
      /\ Faces!Begin(i) /\ UNCHANGED <<pupil, file, embedding, made, owners>>
      /\ Faces!Goto(r, [pc |-> "list", new |-> FALSE, id |-> i, who |-> p])
  BY DEF Faces!RegisterFace
<1>2. PICK w : w = [pc |-> "list", new |-> FALSE, id |-> i, who |-> p]
  OBVIOUS
<1>3. w \in Faces!Work /\ w.pc = "list" /\ ~w.new /\ w.id = i /\ w.who = p
  BY <1>2 DEF Faces!Work
<1>4. /\ state' \in [Faces!Id -> {"clean", "picked", "blurred"}]
      /\ \A j \in Faces!Id \ {i} : state'[j] = state[j]
      /\ state'[i] # "blurred" => ~Faces!Busy(i) /\ state'[i] = state[i]
  BY <1>1, BeginIs DEF FacesInv
<1>5. /\ stale \subseteq stale' /\ stale' \subseteq Faces!Person
      /\ p = pupil[i].who \/ p \in stale'
  BY <1>1 DEF FacesInv, Tables
<1>6. Tables' /\ Spared(i)
  BY <1>1, <1>4, <1>5, Spares DEF FacesInv, Tables
<1>7. Enrolls(w)'
  BY <1>1, <1>3 DEF Enrolls
<1>8. state'[i] # "blurred" => Agrees(w, i)' /\ Rightly(i)'
  <2> SUFFICES ASSUME state'[i] # "blurred"
               PROVE  Agrees(w, i)' /\ Rightly(i)'
    OBVIOUS
  <2>1. Rests(i) /\ Rightly(i)
    BY <1>4 DEF FacesInv, Sound
  <2>2. /\ Faces!Faces(i)' = Faces!Faces(i) /\ Faces!Files(i)' = Faces!Files(i)
        /\ Faces!Exists(i)' <=> Faces!Exists(i)
    BY <1>1 DEF Faces!Faces, Faces!Files, Faces!Exists
  <2>3. Count(i)' = Count(i) /\ Numbered(i)' = Numbered(i)
    BY <2>2 DEF Count, Numbered, Named, Gapless
  <2> QED
    BY <1>1, <1>3, <1>4, <1>5, <2>1, <2>2, <2>3 DEF Agrees, Rightly, Rests
<1>9. Faces!Goto(r, w)
  BY <1>1, <1>2, Zenon
<1> QED
  BY <1>1, <1>3, <1>4, <1>5, <1>6, <1>7, <1>8, <1>9, StepKeeps

\* delete_student and a reset begin, whatever the student's faces are.
LEMMA RemovalKeeps ==
  ASSUME FacesInv, NEW r \in Request, NEW i \in Faces!Id,
         Faces!DeleteBegin(r, i) \/ Faces!ResetBegin(r, i)
  PROVE  FacesInv'
<1>1. PICK w \in {[pc |-> "files", id |-> i], [pc |-> "wipe", id |-> i]} : Faces!Goto(r, w)
  BY Zenon DEF Faces!DeleteBegin, Faces!ResetBegin
<1>2. /\ Faces!At(r, "idle") /\ Faces!Begin(i)
      /\ UNCHANGED <<pupil, file, embedding, made, owners, stale>>
  BY DEF Faces!DeleteBegin, Faces!ResetBegin
<1>3. w \in Faces!Work /\ w.pc \in {"files", "wipe"} /\ w.id = i
  BY <1>1 DEF Faces!Work
<1>4. /\ state' \in [Faces!Id -> {"clean", "picked", "blurred"}]
      /\ \A j \in Faces!Id \ {i} : state'[j] = state[j]
      /\ state'[i] # "blurred" => ~Faces!Busy(i) /\ state'[i] = state[i]
  BY <1>2, BeginIs DEF FacesInv
<1>5. Tables' /\ Spared(i)
  BY <1>2, <1>4, Spares DEF FacesInv, Tables
<1>6. state'[i] # "blurred" => Agrees(w, i)' /\ Rightly(i)'
  <2>1. state'[i] # "blurred" => Rightly(i)
    BY <1>4 DEF FacesInv, Sound
  <2>2. Faces!Faces(i)' = Faces!Faces(i) /\ (Faces!Exists(i)' <=> Faces!Exists(i))
    BY <1>2 DEF Faces!Faces, Faces!Exists
  <2> QED
    BY <1>2, <1>3, <2>1, <2>2 DEF Agrees, Rightly
<1>7. Enrolls(w)'
  BY <1>3 DEF Enrolls
<1> QED
  BY <1>1, <1>2, <1>3, <1>4, <1>5, <1>6, <1>7, StepKeeps

LEMMA PickKeeps ==
  ASSUME FacesInv, NEW r \in Request, NEW i \in Faces!Id, Faces!PickRead(r, i)
  PROVE  FacesInv'
<1>1. PICK e \in Faces!Faces(i) :
        Faces!Goto(r, [pc |-> "unlink", id |-> i, key |-> e.key, number |-> e.number])
  BY Zenon DEF Faces!PickRead
<1>2. /\ Faces!At(r, "idle") /\ UNCHANGED <<pupil, file, embedding, made, owners, stale>>
      /\ state' = IF Faces!Busy(i) \/ state[i] = "blurred" THEN [state EXCEPT ![i] = "blurred"]
                  ELSE [state EXCEPT ![i] = "picked"]
  BY DEF Faces!PickRead
<1>3. PICK key, number : key = e.key /\ number = e.number
  OBVIOUS
<1>4. PICK w : w = [pc |-> "unlink", id |-> i, key |-> key, number |-> number]
  OBVIOUS
<1>5. Faces!Goto(r, w)
  BY <1>1, <1>3, <1>4, Zenon
<1>6. w \in Faces!Work /\ w.pc = "unlink" /\ w.id = i
  <2>1. key \in Faces!Key /\ number \in Faces!Number
    BY <1>3 DEF FacesInv, Tables, Faces!Faces, Faces!Face
  <2> QED
    BY <1>4, <2>1 DEF Faces!Work
<1>7. /\ state' \in [Faces!Id -> {"clean", "picked", "blurred"}]
      /\ \A j \in Faces!Id \ {i} : state'[j] = state[j]
      /\ state'[i] # "blurred" =>
           ~Faces!Busy(i) /\ state[i] # "blurred" /\ state'[i] = "picked"
  BY <1>2 DEF FacesInv, Tables
<1>8. Tables' /\ Spared(i)
  BY <1>2, <1>7, Spares DEF FacesInv, Tables
<1>9. state'[i] # "blurred" => Agrees(w, i)' /\ Rightly(i)'
  <2>1. state'[i] # "blurred" => Rests(i) /\ Rightly(i)
    BY <1>7 DEF FacesInv, Sound
  <2>2. Faces!Faces(i)' = Faces!Faces(i) /\ (Faces!Exists(i)' <=> Faces!Exists(i))
    BY <1>2 DEF Faces!Faces, Faces!Exists
  <2> QED
    BY <1>2, <1>6, <1>7, <2>1, <2>2 DEF Agrees, Rightly, Rests
<1>10. Enrolls(w)'
  BY <1>6 DEF Enrolls
<1> QED
  BY <1>2, <1>5, <1>6, <1>7, <1>8, <1>9, <1>10, StepKeeps

-----------------------------------------------------------------------------
(* FaceEnrollment: requests that go on. *)

\* The worker is at a step of deleting or resetting, or counts photos.
LEMMA OnStudent ==
  ASSUME FacesInv, NEW r \in Request, ~Faces!At(r, "idle")
  PROVE  \E i \in Faces!Id :
           /\ work[r].id = i /\ work[r] \in Faces!Work
           /\ state[i] # "blurred" => Agrees(work[r], i) /\ Rightly(i)
<1>1. work[r].id \in Faces!Id
  BY Holds DEF FacesInv, Faces!At
<1> QED
  BY <1>1, Mine

LEMMA NextStep ==
  ASSUME NEW a, NEW b, NEW x \in [pc : {a}, id : Faces!Id],
         NEW v, v = [x EXCEPT !.pc = b]
  PROVE  v = [pc |-> b, id |-> x.id]
  OBVIOUS

LEMMA NextPick ==
  ASSUME NEW a, NEW b,
         NEW x \in [pc : {a}, id : Faces!Id, key : Faces!Key, number : Faces!Number],
         NEW v, v = [x EXCEPT !.pc = b]
  PROVE  v = [pc |-> b, id |-> x.id, key |-> x.key, number |-> x.number]
  OBVIOUS

\* No face of the student is left.
LEMMA Wiped ==
  ASSUME Tables, NEW i \in Faces!Id, embedding' = embedding \ Faces!Faces(i)
  PROVE  /\ embedding' \subseteq embedding /\ IsFiniteSet(embedding')
         /\ Faces!Faces(i)' = {} /\ Count(i)' = 0
         /\ \A e : e.id # i => (e \in embedding' <=> e \in embedding)
<1>1. embedding' \subseteq embedding /\ Faces!Faces(i)' = {}
  BY DEF Faces!Faces
<1>2. IsFiniteSet(embedding')
  BY <1>1, FS_Subset DEF Tables
<1>3. Count(i)' = 0
  BY <1>1, FS_EmptySet DEF Count
<1>4. \A e : e.id # i => (e \in embedding' <=> e \in embedding)
  BY DEF Faces!Faces
<1> QED
  BY <1>1, <1>2, <1>3, <1>4

\* No file of the student is left.
LEMMA SweptOut ==
  ASSUME Tables, NEW i \in Faces!Id, file' = file \ Faces!Files(i)
  PROVE  /\ file' \subseteq file /\ IsFiniteSet(file') /\ Faces!Files(i)' = {}
         /\ \A f : f[1] # i => (f \in file' <=> f \in file)
<1>1. file' \subseteq file /\ Faces!Files(i)' = {}
  BY DEF Faces!Files
<1>2. IsFiniteSet(file')
  BY <1>1, FS_Subset DEF Tables
<1>3. \A f : f[1] # i => (f \in file' <=> f \in file)
  BY DEF Faces!Files
<1> QED
  BY <1>1, <1>2, <1>3

LEMMA NoneNumbered ==
  ASSUME NEW i \in Faces!Id, Faces!Faces(i)' = {}, Faces!Files(i)' = {}
  PROVE  Numbered(i)' /\ Count(i)' = 0
<1>1. Count(i)' = 0
  BY FS_EmptySet DEF Count
<1> QED
  BY <1>1 DEF Numbered, Named, Gapless

LEMMA RowGone ==
  ASSUME Tables, NEW i \in Faces!Id, pupil' = [pupil EXCEPT ![i] = Faces!NoRow]
  PROVE  /\ pupil' \in [Faces!Id -> Faces!Row] /\ ~Faces!Exists(i)'
         /\ \A j \in Faces!Id \ {i} : pupil'[j] = pupil[j]
BY DEF Tables, Faces!Exists, Faces!Row

LEMMA RowCounts ==
  ASSUME Tables, NEW i \in Faces!Id, NEW k \in Nat,
         pupil' = IF Faces!Exists(i) THEN [pupil EXCEPT ![i].photos = k] ELSE pupil
  PROVE  /\ pupil' \in [Faces!Id -> Faces!Row] /\ (Faces!Exists(i)' <=> Faces!Exists(i))
         /\ Faces!Exists(i) => pupil'[i].photos = k /\ pupil'[i].who = pupil[i].who
         /\ \A j \in Faces!Id \ {i} : pupil'[j] = pupil[j]
<1>1. CASE Faces!Exists(i)
  <2> DEFINE row == [pupil[i] EXCEPT !.photos = k]
  <2>1. row \in Faces!Row \ {Faces!NoRow} /\ row.photos = k /\ row.who = pupil[i].who
    BY <1>1, RowIs DEF Tables, Faces!Exists
  <2>2. pupil' = [pupil EXCEPT ![i] = row]
    BY <1>1 DEF Tables
  <2> HIDE DEF row
  <2> QED
    BY <1>1, <2>1, <2>2 DEF Tables, Faces!Exists
<1>2. CASE ~Faces!Exists(i)
  BY <1>2 DEF Tables, Faces!Exists
<1> QED
  BY <1>1, <1>2

LEMMA UndoKeeps ==
  ASSUME FacesInv, NEW r \in Request, Faces!RegisterUndo(r)
  PROVE  FacesInv'
<1>1. Faces!At(r, "undo") /\ Faces!Goto(r, Faces!Idle)
      /\ UNCHANGED <<file, embedding, made, owners, stale, state>>
  BY DEF Faces!RegisterUndo
<1>2. PICK i \in Faces!Id :
        /\ work[r].id = i /\ work[r].pc = "undo"
        /\ state[i] # "blurred" => Agrees(work[r], i) /\ Rightly(i)
  BY <1>1, OnStudent DEF Faces!At
<1>3. /\ pupil' \in [Faces!Id -> Faces!Row] /\ ~Faces!Exists(i)'
      /\ \A j \in Faces!Id \ {i} : pupil'[j] = pupil[j]
  <2>1. pupil' = [pupil EXCEPT ![i] = Faces!NoRow]
    BY <1>2 DEF Faces!RegisterUndo
  <2> QED
    BY <2>1, RowGone DEF FacesInv
<1>4. Tables' /\ Spared(i)
  BY <1>1, <1>3, Spares DEF FacesInv, Tables
<1>5. Faces!Idle \in Faces!Work /\ Faces!Idle.pc = "idle" /\ Enrolls(Faces!Idle)'
  BY DEF Faces!Work, Faces!Idle, Enrolls
<1>6. state'[i] # "blurred" => Rests(i)' /\ Rightly(i)'
  <2>1. /\ Faces!Faces(i)' = Faces!Faces(i)
        /\ Numbered(i)' = Numbered(i)
    BY <1>1 DEF Faces!Faces, Faces!Files, Numbered, Named, Gapless, Count
  <2> QED
    BY <1>1, <1>2, <1>3, <2>1 DEF Agrees, Rests, Rightly
<1> QED
  BY <1>1, <1>2, <1>4, <1>5, <1>6, StepKeeps DEF Faces!At

LEMMA TallyKeeps ==
  ASSUME FacesInv, NEW r \in Request, Faces!TallyRead(r)
  PROVE  FacesInv'
<1>1. Faces!At(r, "tally") /\ UNCHANGED <<pupil, file, embedding, made, owners, stale, state>>
  BY DEF Faces!TallyRead
<1>2. PICK i \in Faces!Id :
        /\ work[r].id = i /\ work[r].pc = "tally"
        /\ state[i] # "blurred" => Agrees(work[r], i) /\ Rightly(i)
  BY <1>1, OnStudent DEF Faces!At
<1>3. PICK total : total = Faces!Cardinality(Faces!Faces(i))
  OBVIOUS
<1>4. total \in Nat /\ total = Count(i)
  BY <1>3, Finite DEF FacesInv
<1>5. PICK w : w = [pc |-> "photos", id |-> i, total |-> total]
  OBVIOUS
<1>6. Faces!Goto(r, w)
  BY <1>2, <1>3, <1>5, Zenon DEF Faces!TallyRead
<1>7. w \in Faces!Work /\ w.pc = "photos" /\ w.id = i /\ w.total = total
  BY <1>4, <1>5 DEF Faces!Work
<1>8. Tables' /\ Spared(i)
  BY <1>1, Spares DEF FacesInv, Tables
<1>9. state'[i] # "blurred" => Agrees(w, i)' /\ Rightly(i)'
  <2>1. /\ Faces!Faces(i)' = Faces!Faces(i) /\ Count(i)' = Count(i)
        /\ Numbered(i)' = Numbered(i) /\ (Faces!Exists(i)' <=> Faces!Exists(i))
    BY <1>1 DEF Faces!Faces, Faces!Files, Numbered, Named, Gapless, Count, Faces!Exists
  <2> QED
    BY <1>1, <1>2, <1>4, <1>7, <2>1 DEF Agrees, Rightly
<1>10. Enrolls(w)'
  BY <1>7 DEF Enrolls
<1> QED
  BY <1>1, <1>2, <1>6, <1>7, <1>8, <1>9, <1>10, StepKeeps DEF Faces!At

LEMMA PhotosKeeps ==
  ASSUME FacesInv, NEW r \in Request, Faces!PhotosWrite(r)
  PROVE  FacesInv'
<1>1. Faces!At(r, "photos") /\ Faces!Goto(r, Faces!Idle)
      /\ UNCHANGED <<file, embedding, made, owners, stale, state>>
  BY DEF Faces!PhotosWrite
<1>2. PICK i \in Faces!Id :
        /\ work[r].id = i /\ work[r].pc = "photos" /\ work[r] \in Faces!Work
        /\ state[i] # "blurred" => Agrees(work[r], i) /\ Rightly(i)
  BY <1>1, OnStudent DEF Faces!At
<1>3. work[r].total \in Nat
  BY <1>2, Holds
<1>4. /\ pupil' \in [Faces!Id -> Faces!Row] /\ (Faces!Exists(i)' <=> Faces!Exists(i))
      /\ Faces!Exists(i) => pupil'[i].photos = work[r].total /\ pupil'[i].who = pupil[i].who
      /\ \A j \in Faces!Id \ {i} : pupil'[j] = pupil[j]
  <2>1. pupil' = IF Faces!Exists(i) THEN [pupil EXCEPT ![i].photos = work[r].total] ELSE pupil
    BY <1>2 DEF Faces!PhotosWrite
  <2> QED
    BY <1>3, <2>1, RowCounts DEF FacesInv
<1>5. Tables' /\ Spared(i)
  BY <1>1, <1>4, Spares DEF FacesInv, Tables
<1>6. Faces!Idle \in Faces!Work /\ Faces!Idle.pc = "idle" /\ Enrolls(Faces!Idle)'
  BY DEF Faces!Work, Faces!Idle, Enrolls
<1>7. state'[i] # "blurred" => Rests(i)' /\ Rightly(i)'
  <2>1. /\ Faces!Faces(i)' = Faces!Faces(i) /\ Count(i)' = Count(i)
        /\ Numbered(i)' = Numbered(i)
    BY <1>1 DEF Faces!Faces, Faces!Files, Numbered, Named, Gapless, Count
  <2> QED
    BY <1>1, <1>2, <1>4, <2>1 DEF Agrees, Rests, Rightly
<1> QED
  BY <1>1, <1>2, <1>5, <1>6, <1>7, StepKeeps DEF Faces!At

-----------------------------------------------------------------------------
(* FaceEnrollment: what is taken away. *)

LEMMA DeleteFilesKeeps ==
  ASSUME FacesInv, NEW r \in Request, Faces!DeleteFiles(r)
  PROVE  FacesInv'
<1>1. /\ Faces!At(r, "files") /\ UNCHANGED <<pupil, embedding, made, owners, stale, state>>
      /\ Faces!Goto(r, [work[r] EXCEPT !.pc = "row"])
  BY DEF Faces!DeleteFiles
<1>2. PICK i \in Faces!Id :
        /\ work[r].id = i /\ work[r].pc = "files" /\ work[r] \in Faces!Work
        /\ state[i] # "blurred" => Agrees(work[r], i) /\ Rightly(i)
  BY <1>1, OnStudent DEF Faces!At
<1>3. PICK w : w = [pc |-> "row", id |-> i]
  OBVIOUS
<1>4. Faces!Goto(r, w)
  <2>1. work[r] \in [pc : {"files"}, id : Faces!Id]
    BY <1>2, Holds
  <2>2. PICK v : v = [work[r] EXCEPT !.pc = "row"]
    OBVIOUS
  <2>3. v = [pc |-> "row", id |-> i]
    <3>1. v = [pc |-> "row", id |-> work[r].id]
      BY <2>1, <2>2, NextStep, Zenon
    <3> QED
      BY <1>2, <3>1, Zenon
  <2> QED
    BY <1>1, <1>3, <2>2, <2>3, Zenon
<1>5. w \in Faces!Work /\ w.pc = "row" /\ w.id = i
  BY <1>3 DEF Faces!Work
<1>6. /\ file' \subseteq file /\ IsFiniteSet(file') /\ Faces!Files(i)' = {}
      /\ \A f : f[1] # i => (f \in file' <=> f \in file)
  <2>1. file' = file \ Faces!Files(i)
    BY <1>2 DEF Faces!DeleteFiles
  <2> QED
    BY <2>1, SweptOut DEF FacesInv
<1>7. Tables' /\ Spared(i)
  BY <1>1, <1>6, Spares DEF FacesInv, Tables
<1>8. state'[i] # "blurred" => Agrees(w, i)' /\ Rightly(i)'
  <2>1. Faces!Faces(i)' = Faces!Faces(i) /\ (Faces!Exists(i)' <=> Faces!Exists(i))
    BY <1>1 DEF Faces!Faces, Faces!Exists
  <2> QED
    BY <1>1, <1>2, <1>5, <1>6, <2>1 DEF Agrees, Rightly
<1>9. Enrolls(w)'
  BY <1>5 DEF Enrolls
<1> QED
  BY <1>1, <1>2, <1>4, <1>5, <1>6, <1>7, <1>8, <1>9, StepKeeps DEF Faces!At

LEMMA DeleteRowKeeps ==
  ASSUME FacesInv, NEW r \in Request, Faces!DeleteRow(r)
  PROVE  FacesInv'
<1>1. /\ Faces!At(r, "row") /\ UNCHANGED <<file, embedding, made, owners, stale, state>>
      /\ Faces!Goto(r, [work[r] EXCEPT !.pc = "embeddings"])
  BY DEF Faces!DeleteRow
<1>2. PICK i \in Faces!Id :
        /\ work[r].id = i /\ work[r].pc = "row" /\ work[r] \in Faces!Work
        /\ state[i] # "blurred" => Agrees(work[r], i) /\ Rightly(i)
  BY <1>1, OnStudent DEF Faces!At
<1>3. PICK w : w = [pc |-> "embeddings", id |-> i]
  OBVIOUS
<1>4. Faces!Goto(r, w)
  <2>1. work[r] \in [pc : {"row"}, id : Faces!Id]
    BY <1>2, Holds
  <2>2. PICK v : v = [work[r] EXCEPT !.pc = "embeddings"]
    OBVIOUS
  <2>3. v = [pc |-> "embeddings", id |-> i]
    <3>1. v = [pc |-> "embeddings", id |-> work[r].id]
      BY <2>1, <2>2, NextStep, Zenon
    <3> QED
      BY <1>2, <3>1, Zenon
  <2> QED
    BY <1>1, <1>3, <2>2, <2>3, Zenon
<1>5. w \in Faces!Work /\ w.pc = "embeddings" /\ w.id = i
  BY <1>3 DEF Faces!Work
<1>6. /\ pupil' \in [Faces!Id -> Faces!Row] /\ ~Faces!Exists(i)'
      /\ \A j \in Faces!Id \ {i} : pupil'[j] = pupil[j]
  <2>1. pupil' = [pupil EXCEPT ![i] = Faces!NoRow]
    BY <1>2 DEF Faces!DeleteRow
  <2> QED
    BY <2>1, RowGone DEF FacesInv
<1>7. Tables' /\ Spared(i)
  BY <1>1, <1>6, Spares DEF FacesInv, Tables
<1>8. state'[i] # "blurred" => Agrees(w, i)' /\ Rightly(i)'
  <2>1. Faces!Files(i)' = Faces!Files(i)
    BY <1>1 DEF Faces!Files
  <2> QED
    BY <1>1, <1>2, <1>5, <1>6, <2>1 DEF Agrees, Rightly
<1>9. Enrolls(w)'
  BY <1>5 DEF Enrolls
<1> QED
  BY <1>1, <1>2, <1>4, <1>5, <1>6, <1>7, <1>8, <1>9, StepKeeps DEF Faces!At

LEMMA ResetEmbeddingsKeeps ==
  ASSUME FacesInv, NEW r \in Request, Faces!ResetEmbeddings(r)
  PROVE  FacesInv'
<1>1. /\ Faces!At(r, "wipe") /\ UNCHANGED <<pupil, file, made, owners, stale, state>>
      /\ Faces!Goto(r, [work[r] EXCEPT !.pc = "sweep"])
  BY DEF Faces!ResetEmbeddings
<1>2. PICK i \in Faces!Id :
        /\ work[r].id = i /\ work[r].pc = "wipe" /\ work[r] \in Faces!Work
        /\ state[i] # "blurred" => Agrees(work[r], i) /\ Rightly(i)
  BY <1>1, OnStudent DEF Faces!At
<1>3. PICK w : w = [pc |-> "sweep", id |-> i]
  OBVIOUS
<1>4. Faces!Goto(r, w)
  <2>1. work[r] \in [pc : {"wipe"}, id : Faces!Id]
    BY <1>2, Holds
  <2>2. PICK v : v = [work[r] EXCEPT !.pc = "sweep"]
    OBVIOUS
  <2>3. v = [pc |-> "sweep", id |-> i]
    <3>1. v = [pc |-> "sweep", id |-> work[r].id]
      BY <2>1, <2>2, NextStep, Zenon
    <3> QED
      BY <1>2, <3>1, Zenon
  <2> QED
    BY <1>1, <1>3, <2>2, <2>3, Zenon
<1>5. w \in Faces!Work /\ w.pc = "sweep" /\ w.id = i
  BY <1>3 DEF Faces!Work
<1>6. /\ embedding' \subseteq embedding /\ IsFiniteSet(embedding')
      /\ Faces!Faces(i)' = {} /\ Count(i)' = 0
      /\ \A e : e.id # i => (e \in embedding' <=> e \in embedding)
  <2>1. embedding' = embedding \ Faces!Faces(i)
    BY <1>2 DEF Faces!ResetEmbeddings
  <2> QED
    BY <2>1, Wiped DEF FacesInv
<1>7. Tables' /\ Spared(i)
  BY <1>1, <1>6, Spares DEF FacesInv, Tables
<1>8. state'[i] # "blurred" => Agrees(w, i)' /\ Rightly(i)'
  BY <1>5, <1>6 DEF Agrees, Rightly
<1>9. Enrolls(w)'
  BY <1>5 DEF Enrolls
<1> QED
  BY <1>1, <1>2, <1>4, <1>5, <1>6, <1>7, <1>8, <1>9, StepKeeps DEF Faces!At

LEMMA ResetFilesKeeps ==
  ASSUME FacesInv, NEW r \in Request, Faces!ResetFiles(r)
  PROVE  FacesInv'
<1>1. /\ Faces!At(r, "sweep") /\ UNCHANGED <<pupil, embedding, made, owners, stale, state>>
      /\ Faces!Goto(r, [work[r] EXCEPT !.pc = "zero"])
  BY DEF Faces!ResetFiles
<1>2. PICK i \in Faces!Id :
        /\ work[r].id = i /\ work[r].pc = "sweep" /\ work[r] \in Faces!Work
        /\ state[i] # "blurred" => Agrees(work[r], i) /\ Rightly(i)
  BY <1>1, OnStudent DEF Faces!At
<1>3. PICK w : w = [pc |-> "zero", id |-> i]
  OBVIOUS
<1>4. Faces!Goto(r, w)
  <2>1. work[r] \in [pc : {"sweep"}, id : Faces!Id]
    BY <1>2, Holds
  <2>2. PICK v : v = [work[r] EXCEPT !.pc = "zero"]
    OBVIOUS
  <2>3. v = [pc |-> "zero", id |-> i]
    <3>1. v = [pc |-> "zero", id |-> work[r].id]
      BY <2>1, <2>2, NextStep, Zenon
    <3> QED
      BY <1>2, <3>1, Zenon
  <2> QED
    BY <1>1, <1>3, <2>2, <2>3, Zenon
<1>5. w \in Faces!Work /\ w.pc = "zero" /\ w.id = i
  BY <1>3 DEF Faces!Work
<1>6. /\ file' \subseteq file /\ IsFiniteSet(file') /\ Faces!Files(i)' = {}
      /\ \A f : f[1] # i => (f \in file' <=> f \in file)
  <2>1. file' = file \ Faces!Files(i)
    BY <1>2 DEF Faces!ResetFiles
  <2> QED
    BY <2>1, SweptOut DEF FacesInv
<1>7. Tables' /\ Spared(i)
  BY <1>1, <1>6, Spares DEF FacesInv, Tables
<1>8. state'[i] # "blurred" => Agrees(w, i)' /\ Rightly(i)'
  <2>1. Faces!Faces(i)' = Faces!Faces(i)
    BY <1>1 DEF Faces!Faces
  <2> QED
    BY <1>1, <1>2, <1>5, <1>6, <2>1 DEF Agrees, Rightly
<1>9. Enrolls(w)'
  BY <1>5 DEF Enrolls
<1> QED
  BY <1>1, <1>2, <1>4, <1>5, <1>6, <1>7, <1>8, <1>9, StepKeeps DEF Faces!At

LEMMA DeleteEmbeddingsKeeps ==
  ASSUME FacesInv, NEW r \in Request, Faces!DeleteEmbeddings(r)
  PROVE  FacesInv'
<1>1. /\ Faces!At(r, "embeddings") /\ UNCHANGED <<pupil, file, made, owners, stale>>
      /\ Faces!Goto(r, Faces!Idle)
  BY DEF Faces!DeleteEmbeddings
<1>2. PICK i \in Faces!Id :
        /\ work[r].id = i /\ work[r].pc = "embeddings"
        /\ state[i] # "blurred" => Agrees(work[r], i) /\ Rightly(i)
  BY <1>1, OnStudent DEF Faces!At
<1>3. /\ embedding' = embedding \ Faces!Faces(i)
      /\ state' = IF state[i] = "picked" THEN [state EXCEPT ![i] = "clean"] ELSE state
  BY <1>2 DEF Faces!DeleteEmbeddings
<1>4. /\ embedding' \subseteq embedding /\ IsFiniteSet(embedding')
      /\ Faces!Faces(i)' = {} /\ Count(i)' = 0
      /\ \A e : e.id # i => (e \in embedding' <=> e \in embedding)
  BY <1>3, Wiped DEF FacesInv
<1>5. /\ state' \in [Faces!Id -> {"clean", "picked", "blurred"}]
      /\ \A j \in Faces!Id \ {i} : state'[j] = state[j]
      /\ state'[i] # "blurred" => state[i] # "blurred"
  BY <1>3 DEF FacesInv, Tables
<1>6. Tables' /\ Spared(i)
  BY <1>1, <1>4, <1>5, Spares DEF FacesInv, Tables
<1>7. Faces!Idle \in Faces!Work /\ Faces!Idle.pc = "idle" /\ Enrolls(Faces!Idle)'
  BY DEF Faces!Work, Faces!Idle, Enrolls
<1>8. state'[i] # "blurred" => Rests(i)' /\ Rightly(i)'
  <2> SUFFICES ASSUME state'[i] # "blurred" PROVE Rests(i)' /\ Rightly(i)'
    OBVIOUS
  <2>1. ~Faces!Exists(i) /\ Faces!Files(i) = {}
    BY <1>2, <1>5 DEF Agrees
  <2>2. ~Faces!Exists(i)' /\ Faces!Files(i)' = {}
    BY <1>1, <2>1 DEF Faces!Exists, Faces!Files
  <2>3. Numbered(i)'
    BY <1>4, <2>2, NoneNumbered
  <2> QED
    BY <1>4, <2>2, <2>3 DEF Rests, Rightly
<1> QED
  BY <1>1, <1>2, <1>4, <1>5, <1>6, <1>7, <1>8, StepKeeps DEF Faces!At

LEMMA ResetPhotosKeeps ==
  ASSUME FacesInv, NEW r \in Request, Faces!ResetPhotos(r)
  PROVE  FacesInv'
<1>1. /\ Faces!At(r, "zero") /\ UNCHANGED <<file, embedding, made, owners, stale>>
      /\ Faces!Goto(r, Faces!Idle)
  BY DEF Faces!ResetPhotos
<1>2. PICK i \in Faces!Id :
        /\ work[r].id = i /\ work[r].pc = "zero"
        /\ state[i] # "blurred" => Agrees(work[r], i) /\ Rightly(i)
  BY <1>1, OnStudent DEF Faces!At
<1>3. /\ pupil' = IF Faces!Exists(i) THEN [pupil EXCEPT ![i].photos = 0] ELSE pupil
      /\ state' = IF state[i] = "picked" THEN [state EXCEPT ![i] = "clean"] ELSE state
  BY <1>2 DEF Faces!ResetPhotos
<1>4. /\ pupil' \in [Faces!Id -> Faces!Row]
      /\ Faces!Exists(i)' <=> Faces!Exists(i)
      /\ Faces!Exists(i) => pupil'[i].photos = 0 /\ pupil'[i].who = pupil[i].who
      /\ \A j \in Faces!Id \ {i} : pupil'[j] = pupil[j]
  BY <1>3, RowCounts DEF FacesInv
<1>5. /\ state' \in [Faces!Id -> {"clean", "picked", "blurred"}]
      /\ \A j \in Faces!Id \ {i} : state'[j] = state[j]
      /\ state'[i] # "blurred" => state[i] # "blurred"
  BY <1>3 DEF FacesInv, Tables
<1>6. Tables' /\ Spared(i)
  BY <1>1, <1>4, <1>5, Spares DEF FacesInv, Tables
<1>7. Faces!Idle \in Faces!Work /\ Faces!Idle.pc = "idle" /\ Enrolls(Faces!Idle)'
  BY DEF Faces!Work, Faces!Idle, Enrolls
<1>8. state'[i] # "blurred" => Rests(i)' /\ Rightly(i)'
  <2> SUFFICES ASSUME state'[i] # "blurred" PROVE Rests(i)' /\ Rightly(i)'
    OBVIOUS
  <2>1. Faces!Faces(i) = {} /\ Faces!Files(i) = {}
    BY <1>2, <1>5 DEF Agrees
  <2>2. Faces!Faces(i)' = {} /\ Faces!Files(i)' = {}
    BY <1>1, <2>1 DEF Faces!Faces, Faces!Files
  <2>3. Numbered(i)' /\ Count(i)' = 0
    BY <2>2, NoneNumbered
  <2> QED
    BY <1>4, <2>2, <2>3 DEF Rests, Rightly
<1> QED
  BY <1>1, <1>2, <1>5, <1>6, <1>7, <1>8, StepKeeps DEF Faces!At

LEMMA UnlinkKeeps ==
  ASSUME FacesInv, NEW r \in Request, Faces!PickUnlink(r)
  PROVE  FacesInv'
<1>1. /\ Faces!At(r, "unlink") /\ UNCHANGED <<pupil, embedding, made, owners, stale, state>>
      /\ file' = file \ {<<work[r].id, work[r].number>>}
      /\ Faces!Goto(r, [work[r] EXCEPT !.pc = "remove"])
  BY DEF Faces!PickUnlink
<1>2. PICK i \in Faces!Id :
        /\ work[r].id = i /\ work[r].pc = "unlink" /\ work[r] \in Faces!Work
        /\ state[i] # "blurred" => Agrees(work[r], i) /\ Rightly(i)
  BY <1>1, OnStudent DEF Faces!At
<1>3. PICK key, number :
        /\ key \in Faces!Key /\ number \in Faces!Number
        /\ work[r] = [pc |-> "unlink", id |-> i, key |-> key, number |-> number]
  BY <1>2, Holds
<1>4. PICK w : w = [pc |-> "remove", id |-> i, key |-> key, number |-> number]
  OBVIOUS
<1>5. Faces!Goto(r, w)
  <2>1. PICK v : v = [work[r] EXCEPT !.pc = "remove"]
    OBVIOUS
  <2>2. v = [pc |-> "remove", id |-> i, key |-> key, number |-> number]
    <3>1. work[r] \in [pc : {"unlink"}, id : Faces!Id, key : Faces!Key,
                       number : Faces!Number]
      BY <1>3
    <3>2. v = [pc |-> "remove", id |-> work[r].id, key |-> work[r].key,
               number |-> work[r].number]
      BY <2>1, <3>1, NextPick, Zenon
    <3>3. work[r].id = i /\ work[r].key = key /\ work[r].number = number
      BY <1>3
    <3> QED
      BY <3>2, <3>3, Zenon
  <2> QED
    BY <1>1, <1>4, <2>1, <2>2, Zenon
<1>6. w \in Faces!Work /\ w.pc = "remove" /\ w.id = i
  BY <1>3, <1>4 DEF Faces!Work
<1>7. /\ file' \subseteq file /\ IsFiniteSet(file')
      /\ \A f : f[1] # i => (f \in file' <=> f \in file)
  <2>1. file' = file \ {<<i, work[r].number>>}
    BY <1>1, <1>2
  <2>2. IsFiniteSet(file')
    BY <2>1, FS_RemoveElement DEF FacesInv, Tables
  <2> QED
    BY <2>1, <2>2
<1>8. Tables' /\ Spared(i)
  BY <1>1, <1>7, Spares DEF FacesInv, Tables
<1>9. state'[i] # "blurred" => Agrees(w, i)' /\ Rightly(i)'
  <2>1. Faces!Faces(i)' = Faces!Faces(i) /\ (Faces!Exists(i)' <=> Faces!Exists(i))
    BY <1>1 DEF Faces!Faces, Faces!Exists
  <2> QED
    BY <1>1, <1>2, <1>6, <2>1 DEF Agrees, Rightly
<1>10. Enrolls(w)'
  BY <1>6 DEF Enrolls
<1> QED
  BY <1>1, <1>2, <1>5, <1>6, <1>8, <1>9, <1>10, StepKeeps DEF Faces!At

LEMMA RemoveKeeps ==
  ASSUME FacesInv, NEW r \in Request, Faces!PickRemove(r)
  PROVE  FacesInv'
<1>1. /\ Faces!At(r, "remove") /\ UNCHANGED <<pupil, file, made, owners, stale, state>>
      /\ embedding' = {e \in embedding : ~(e.key = work[r].key /\ e.id = work[r].id)}
      /\ Faces!Goto(r, [pc |-> "tally", id |-> work[r].id])
  BY DEF Faces!PickRemove
<1>2. PICK i \in Faces!Id :
        /\ work[r].id = i /\ work[r].pc = "remove"
        /\ state[i] # "blurred" => Agrees(work[r], i) /\ Rightly(i)
  BY <1>1, OnStudent DEF Faces!At
<1>3. PICK w : w = [pc |-> "tally", id |-> i]
  OBVIOUS
<1>4. Faces!Goto(r, w)
  BY <1>1, <1>2, <1>3, Zenon
<1>5. w \in Faces!Work /\ w.pc = "tally" /\ w.id = i
  BY <1>3 DEF Faces!Work
<1>6. /\ embedding' \subseteq embedding /\ IsFiniteSet(embedding')
      /\ \A e : e.id # i => (e \in embedding' <=> e \in embedding)
  <2>1. embedding' \subseteq embedding /\ \A e : e.id # i => (e \in embedding' <=> e \in embedding)
    BY <1>1, <1>2
  <2>2. IsFiniteSet(embedding')
    BY <2>1, FS_Subset DEF FacesInv, Tables
  <2> QED
    BY <2>1, <2>2
<1>7. Tables' /\ Spared(i)
  BY <1>1, <1>6, Spares DEF FacesInv, Tables
<1>8. state'[i] # "blurred" => Agrees(w, i)' /\ Rightly(i)'
  <2>1. Faces!Faces(i)' \subseteq Faces!Faces(i) /\ (Faces!Exists(i)' <=> Faces!Exists(i))
    BY <1>1 DEF Faces!Faces, Faces!Exists
  <2> QED
    BY <1>1, <1>2, <1>5, <2>1 DEF Agrees, Rightly
<1>9. Enrolls(w)'
  BY <1>5 DEF Enrolls
<1> QED
  BY <1>1, <1>2, <1>4, <1>5, <1>6, <1>7, <1>8, <1>9, StepKeeps DEF Faces!At

LEMMA AbortKeeps ==
  ASSUME FacesInv, NEW r \in Request, Faces!Abort(r)
  PROVE  FacesInv'
<1>1. /\ ~Faces!At(r, "idle") /\ Faces!Goto(r, Faces!Idle)
      /\ UNCHANGED <<pupil, file, embedding, made, owners, stale>>
  BY DEF Faces!Abort
<1>2. PICK i \in Faces!Id : work[r].id = i
  BY <1>1, OnStudent
<1>3. /\ state' \in [Faces!Id -> {"clean", "picked", "blurred"}] /\ state'[i] = "blurred"
      /\ \A j \in Faces!Id \ {i} : state'[j] = state[j]
  BY <1>2 DEF Faces!Abort, FacesInv, Tables
<1>4. Tables' /\ Spared(i)
  BY <1>1, <1>3, Spares DEF FacesInv, Tables
<1>5. Faces!Idle \in Faces!Work /\ Faces!Idle.pc = "idle" /\ Enrolls(Faces!Idle)'
  BY DEF Faces!Work, Faces!Idle, Enrolls
<1> QED
  BY <1>1, <1>2, <1>3, <1>4, <1>5, StepKeeps

-----------------------------------------------------------------------------
(* FaceEnrollment: the theorems. *)

LEMMA FacesNext ==
  ASSUME FacesInv, Faces!Next
  PROVE  FacesInv'
<1>1. CASE \E i \in Faces!Id : Faces!Import(i)
  BY <1>1, ImportKeeps
<1>2. CASE \E r \in Request : Faces!Handler(r)
  <2>1. PICK r \in Request : Faces!Handler(r)
    BY <1>2
  <2>2. CASE \E i \in Faces!Id : Faces!Register(r, i)
    BY <2>2, RegisterKeeps
  <2>3. CASE \E i \in Faces!Id, p \in Faces!Person : Faces!RegisterFace(r, i, p)
    BY <2>3, RegisterFaceKeeps
  <2>4. CASE \E i \in Faces!Id :
               Faces!DeleteBegin(r, i) \/ Faces!ResetBegin(r, i) \/ Faces!PickRead(r, i)
    BY <2>4, RemovalKeeps, PickKeeps
  <2>5. CASE Faces!RegisterUndo(r) \/ Faces!ListFiles(r) \/ Faces!SaveFile(r)
             \/ Faces!StoreEmbedding(r) \/ Faces!TallyRead(r) \/ Faces!PhotosWrite(r)
    BY <2>5, UndoKeeps, ListKeeps, SaveKeeps, StoreKeeps, TallyKeeps, PhotosKeeps
  <2>6. CASE Faces!DeleteFiles(r) \/ Faces!DeleteRow(r) \/ Faces!DeleteEmbeddings(r)
             \/ Faces!ResetEmbeddings(r) \/ Faces!ResetFiles(r) \/ Faces!ResetPhotos(r)
    BY <2>6, DeleteFilesKeeps, DeleteRowKeeps, DeleteEmbeddingsKeeps,
       ResetEmbeddingsKeeps, ResetFilesKeeps, ResetPhotosKeeps
  <2>7. CASE Faces!PickUnlink(r) \/ Faces!PickRemove(r) \/ Faces!Abort(r)
    BY <2>7, UnlinkKeeps, RemoveKeeps, AbortKeeps
  <2> QED
    BY <2>1, <2>2, <2>3, <2>4, <2>5, <2>6, <2>7 DEF Faces!Handler
<1> QED
  BY <1>1, <1>2 DEF Faces!Next

LEMMA FacesStutter ==
  ASSUME FacesInv, UNCHANGED faces
  PROVE  FacesInv'
<1>1. UNCHANGED <<pupil, file, embedding, work, made, owners, stale, state>>
  BY DEF faces
<1>2. Tables' /\ work' \in [Request -> Faces!Work] /\ Owned'
  BY <1>1 DEF FacesInv, Tables, Owned, Enrolls
<1>3. ASSUME NEW i \in Faces!Id
      PROVE  Sound(i)'
  <2>1. Faces!Faces(i)' = Faces!Faces(i) /\ Faces!Files(i)' = Faces!Files(i)
    BY <1>1 DEF Faces!Faces, Faces!Files
  <2>2. \A s \in Request : Works(s, i)' <=> Works(s, i)
    BY <1>1 DEF Works, Faces!At
  <2> QED
    BY <1>1, <2>1, <2>2, SparedSound
<1> QED
  BY <1>2, <1>3 DEF FacesInv

LEMMA FacesInit ==
  ASSUME Faces!Init
  PROVE  FacesInv
<1>1. Tables /\ work \in [Request -> Faces!Work]
  BY FS_EmptySet
  DEF Faces!Init, Tables, Faces!Row, Faces!NoRow, Faces!Work, Faces!Idle
<1>2. \A r \in Request : work[r].pc = "idle"
  BY DEF Faces!Init, Faces!Idle
<1>3. Owned
  BY <1>2 DEF Faces!Init, Owned, Enrolls
<1>4. ASSUME NEW i \in Faces!Id
      PROVE  Sound(i)
  <2>1. Faces!Faces(i) = {} /\ Faces!Files(i) = {} /\ ~Faces!Exists(i)
    BY DEF Faces!Init, Faces!Faces, Faces!Files, Faces!Exists
  <2>2. Count(i) = 0
    BY <2>1, FS_EmptySet DEF Count
  <2>3. Rests(i) /\ Rightly(i)
    BY <2>1, <2>2 DEF Rests, Rightly, Numbered, Named, Gapless
  <2> QED
    BY <1>2, <2>3 DEF Sound, Works, Faces!At
<1> QED
  BY <1>1, <1>3, <1>4 DEF FacesInv

LEMMA FacesAlways == MCSpec => [](story = "faces" => FacesInv)
<1> DEFINE Inv == story = "faces" => FacesInv
<1>1. MCInit => Inv
  BY FacesInit DEF MCInit
<1>2. Inv /\ [MCNext]_<<story, vars, faces>> => Inv'
  <2> SUFFICES ASSUME Inv, [MCNext]_<<story, vars, faces>>, story' = "faces"
               PROVE  FacesInv'
    OBVIOUS
  <2>1. story = "faces" /\ FacesInv
    BY DEF MCNext
  <2>2. Faces!Next \/ UNCHANGED faces
    BY <2>1 DEF MCNext
  <2> QED
    BY <2>1, <2>2, FacesNext, FacesStutter
<1> QED
  BY <1>1, <1>2, PTL DEF MCSpec

(* Of FaceEnrollment: for any number of workers, students and images, the photos, the *)
(* embeddings and the count of a student agree whenever nobody is at work on the      *)
(* student, unless two requests met there or one died.                                *)
THEOREM PhotosAlwaysAgree == MCSpec => []PhotosAgree
<1>1. (story = "faces" => FacesInv) => PhotosAgree
  <2> SUFFICES ASSUME FacesInv PROVE Faces!TypeOK /\ Faces!PhotosAgree
    BY DEF PhotosAgree
  <2>1. Faces!TypeOK
    BY DEF FacesInv, Tables, Faces!TypeOK
  <2>2. ASSUME NEW i \in Faces!Id, state[i] # "blurred", Faces!Quiet(i)
        PROVE  Rests(i) /\ Faces!Cardinality(Faces!Faces(i)) = Count(i)
    BY <2>2, Finite DEF FacesInv, Sound, Faces!Quiet
  <2>3. Faces!PhotoCountExplained
    BY <2>2 DEF Faces!PhotoCountExplained, Rests
  <2>4. Faces!EnrollmentConsistent
    BY <2>2 DEF Faces!EnrollmentConsistent, Rests, Numbered, Named, Gapless
  <2> QED
    BY <2>1, <2>3, <2>4 DEF Faces!PhotosAgree
<1> QED
  BY <1>1, FacesAlways, PTL

(* Of FaceEnrollment: a deleted student leaves no face behind, and a face is taken for *)
(* another student's only if its owner had the id before and used the old cookie once  *)
(* more, or requests met on the student or one died.                                   *)
THEOREM GalleryIsAlwaysRight == MCSpec => []GalleryIsRight
<1>1. (story = "faces" => FacesInv) => GalleryIsRight
  <2> SUFFICES ASSUME FacesInv PROVE Faces!NoFaceLeftBehind /\ Faces!FacesAreTheirs
    BY DEF GalleryIsRight, Faces!GalleryIsRight
  <2>1. Faces!NoFaceLeftBehind
    BY DEF Faces!NoFaceLeftBehind, FacesInv, Sound, Rests, Faces!Quiet
  <2>2. Faces!FacesAreTheirs
    <3>1. \A e \in embedding : e.id \in Faces!Id /\ e \in Faces!Faces(e.id)
      BY DEF FacesInv, Tables, Faces!Face, Faces!Faces
    <3> QED
      BY <3>1 DEF Faces!FacesAreTheirs, FacesInv, Owned, Sound, Rightly
  <2> QED
    BY <2>1, <2>2
<1> QED
  BY <1>1, FacesAlways, PTL
=============================================================================
