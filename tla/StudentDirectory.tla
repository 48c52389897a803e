---------------------------- MODULE StudentDirectory ----------------------------
(*****************************************************************************)
(* Who a student is: the roll number, the e-mail address and the linked      *)
(* account of a single sign-on provider.  Registration and CSV import add    *)
(* students, delete_student takes them away; a provider's callback links an  *)
(* account or logs a student in (_oauth_finish_callback, the same for Google *)
(* and OIDC, each with a column of its own).  None of the three columns is   *)
(* UNIQUE, every statement is a step of its own, and workers overtake each   *)
(* other between any two and may die there.                                  *)
(*                                                                           *)
(* The n-th account made belongs to person n.  SQLite gives a new row the    *)
(* largest id in use plus one, so the id of a deleted student comes back,    *)
(* and the browser session of that student still names it.                   *)
(*****************************************************************************)
EXTENDS Integers

CONSTANTS
  Request,   \* worker slots
  Roll,      \* roll numbers
  Mail,      \* e-mail addresses, up to letter case
  Account,   \* accounts of the provider
  MailOf,    \* the address of each account
  MaxId,     \* bound: ids of students
  MaxBorn    \* bound: students ever made

ASSUME MailAssumption == MailOf \in [Account -> Mail]
ASSUME BoundAssumption == MaxId \in Nat /\ MaxBorn \in Nat

Id == 1..MaxId
Person == 1..MaxBorn
NoMail == "none"
NoSub == "none"

NoRow == [who |-> 0]
Row == [who : Person, roll : Roll, mail : Mail \cup {NoMail}, sub : Account \cup {NoSub}]
       \cup {NoRow}

VARIABLES
  student,    \* the table students
  req,        \* what each worker is doing
  born,       \* history: students made so far
  held,       \* history: the persons each id has belonged to
  gone,       \* history: persons whose row was deleted
  chosen,     \* history: the address each person gave last
  overtaken,  \* history: roll numbers inserted while another worker thought them free
  crossed,    \* history: accounts of which two callbacks met
  lost,       \* history: persons who gave an address while a callback had read the old one
  astray      \* history: persons who linked an account to somebody else's row

vars == <<student, req, born, held, gone, chosen, overtaken, crossed, lost, astray>>
rows == <<student, born, held, gone, chosen>>

Idle == [pc |-> "idle"]
Work ==
  {Idle}
  \cup [pc : {"insert"}, roll : Roll]
  \cup [pc : {"rows"}, taken : SUBSET Roll]
  \cup [pc : {"enroll"}, id : Id]
  \cup [pc : {"target"}, acc : Account, id : Id, who : Person]
  \cup [pc : {"link"}, acc : Account, id : Id, who : Person, mail : Mail]
  \cup [pc : {"match"}, acc : Account] \cup [pc : {"adopt"}, acc : Account, id : Id]

TypeOK ==
  /\ student \in [Id -> Row] /\ req \in [Request -> Work]
  /\ born \in Nat /\ held \in [Id -> SUBSET Person] /\ gone \subseteq Person
  /\ chosen \in [Person -> Mail \cup {NoMail}]
  /\ overtaken \subseteq Roll /\ crossed \subseteq Account
  /\ lost \subseteq Person /\ astray \subseteq Person

Init ==
  /\ student = [i \in Id |-> NoRow] /\ req = [r \in Request |-> Idle]
  /\ born = 0 /\ held = [i \in Id |-> {}] /\ gone = {}
  /\ chosen = [p \in Person |-> NoMail]
  /\ overtaken = {} /\ crossed = {} /\ lost = {} /\ astray = {}

At(r, step) == req[r].pc = step
Goto(r, work) == req' = [req EXCEPT ![r] = work]
Students == {i \in Id : student[i] # NoRow}
Exists(i) == i \in Students
Rolls == {student[i].roll : i \in Students}

\* Person p gives an address for row i, while a callback may be about to write
\* the one it read before.
Give(i, p, m) ==
  /\ chosen' = [chosen EXCEPT ![p] = m]
  /\ lost' = IF \E s \in Request : At(s, "link") /\ req[s].id = i
             THEN lost \cup {p} ELSE lost

\* INSERT INTO students by worker r: a row with the next id, for a new person.
Insert(r, i, roll, mail) ==
  /\ born < MaxBorn
  /\ (\A j \in Students : j < i) /\ i - 1 \in Students \cup {0}
  /\ born' = born + 1
  /\ student' = [student EXCEPT ![i] =
                   [who |-> born + 1, roll |-> roll, mail |-> mail, sub |-> NoSub]]
  /\ held' = [held EXCEPT ![i] = @ \cup {born + 1}]
  /\ Give(i, born + 1, mail)
  /\ overtaken' =
       IF \E s \in Request \ {r} : \/ At(s, "insert") /\ req[s].roll = roll
                                   \/ At(s, "rows") /\ roll \notin req[s].taken
       THEN overtaken \cup {roll} ELSE overtaken

\* DELETE FROM students WHERE id=?
Remove(i) ==
  /\ student' = [student EXCEPT ![i] = NoRow]
  /\ gone' = IF Exists(i) THEN gone \cup {student[i].who} ELSE gone
  /\ UNCHANGED <<born, held, chosen, overtaken, crossed, lost, astray>>

-----------------------------------------------------------------------------
(* student_register, bulk_import_students, delete_student *)

\* The roll number is free, and so is the face (see FaceEnrollment).
RegisterRead(r, roll) ==
  /\ At(r, "idle") /\ roll \notin Rolls
  /\ Goto(r, [pc |-> "insert", roll |-> roll])
  /\ UNCHANGED <<rows, overtaken, crossed, lost, astray>>

RegisterInsert(r) ==
  /\ At(r, "insert")
  /\ \E i \in Id, m \in Mail \cup {NoMail} :
       /\ Insert(r, i, req[r].roll, m)
       /\ Goto(r, [pc |-> "enroll", id |-> i])
  /\ UNCHANGED <<gone, crossed, astray>>

\* Some photo was usable.
RegisterKeep(r) ==
  /\ At(r, "enroll")
  /\ Goto(r, Idle)
  /\ UNCHANGED <<rows, overtaken, crossed, lost, astray>>

\* None was: the row is deleted again.
RegisterUndo(r) ==
  /\ At(r, "enroll")
  /\ Remove(req[r].id)
  /\ Goto(r, Idle)

\* The roll numbers in use are read once, for the whole file.
ImportRead(r) ==
  /\ At(r, "idle")
  /\ Goto(r, [pc |-> "rows", taken |-> Rolls])
  /\ UNCHANGED <<rows, overtaken, crossed, lost, astray>>

\* Slip: a number that comes twice in the file is not skipped.
ImportInsertAgain(r) ==
  /\ At(r, "rows")
  /\ \E roll \in Roll \ req[r].taken, i \in Id, m \in Mail \cup {NoMail} :
       Insert(r, i, roll, m)
  /\ UNCHANGED <<req, gone, crossed, astray>>

\* A row of the file whose number is neither in use nor seen in the file.
ImportInsert(r) ==
  /\ At(r, "rows")
  /\ \E roll \in Roll \ req[r].taken, i \in Id, m \in Mail \cup {NoMail} :
       /\ Insert(r, i, roll, m)
       /\ Goto(r, [req[r] EXCEPT !.taken = @ \cup {roll}])
  /\ UNCHANGED <<gone, crossed, astray>>

ImportDone(r) ==
  /\ At(r, "rows")
  /\ Goto(r, Idle)
  /\ UNCHANGED <<rows, overtaken, crossed, lost, astray>>

DeleteStudent(i) == Exists(i) /\ Remove(i) /\ UNCHANGED req

-----------------------------------------------------------------------------
(* student_update_contact, by whoever has a cookie with this id.  A student *)
(* who sets an address while a callback is linking an account may lose it.  *)

UpdateContact(i) ==
  /\ Exists(i)
  /\ \E m \in Mail \cup {NoMail} :
       /\ student' = [student EXCEPT ![i].mail = m]
       /\ Give(i, student[i].who, m)
  /\ UNCHANGED <<req, born, held, gone, overtaken, crossed, astray>>

-----------------------------------------------------------------------------
(* _oauth_finish_callback *)

Callback(s, a) == req[s].pc \in {"target", "link", "match", "adopt"} /\ req[s].acc = a
Meet(a) == crossed' = IF \E s \in Request : Callback(s, a) THEN crossed \cup {a} ELSE crossed

\* Slip: whether the account is connected to another student is not asked.
LinkBeginUnchecked(r, a, i, p) ==
  /\ At(r, "idle") /\ p \in held[i]
  /\ Goto(r, [pc |-> "target", acc |-> a, id |-> i, who |-> p])
  /\ Meet(a)
  /\ UNCHANGED <<rows, overtaken, lost, astray>>

\* Intent "link": p logged in, or just registered, as student i and now comes
\* back from the provider.  No other student is connected to the account.
LinkBegin(r, a, i, p) ==
  /\ At(r, "idle") /\ p \in held[i]
  /\ \A j \in Students \ {i} : student[j].sub # a
  /\ Goto(r, [pc |-> "target", acc |-> a, id |-> i, who |-> p])
  /\ Meet(a)
  /\ UNCHANGED <<rows, overtaken, lost, astray>>

\* The student's row, whose address is kept if there is one.
LinkTarget(r) ==
  /\ At(r, "target")
  /\ IF Exists(req[r].id)
     THEN LET mail == student[req[r].id].mail
          IN  Goto(r, [pc |-> "link", acc |-> req[r].acc, id |-> req[r].id,
                       who |-> req[r].who,
                       mail |-> IF mail = NoMail THEN MailOf[req[r].acc] ELSE mail])
     ELSE Goto(r, Idle)
  /\ UNCHANGED <<rows, overtaken, crossed, lost, astray>>

\* UPDATE students SET sub=?, email=? WHERE id=?
LinkWrite(r) ==
  /\ At(r, "link")
  /\ LET i == req[r].id
     IN  IF Exists(i)
         THEN /\ student' = [student EXCEPT ![i].sub = req[r].acc, ![i].mail = req[r].mail]
              /\ astray' = IF student[i].who # req[r].who THEN astray \cup {req[r].who}
                           ELSE astray
         ELSE UNCHANGED <<student, astray>>
  /\ Goto(r, Idle)
  /\ UNCHANGED <<born, held, gone, chosen, overtaken, crossed, lost>>

\* Intent "login": a student has the account, or the address decides.
LoginBegin(r, a) ==
  /\ At(r, "idle")
  /\ \A i \in Students : student[i].sub # a
  /\ Goto(r, [pc |-> "match", acc |-> a])
  /\ Meet(a)
  /\ UNCHANGED <<rows, overtaken, lost, astray>>

LoginMatch(r) ==
  /\ At(r, "match")
  /\ LET same == {i \in Students : student[i].mail = MailOf[req[r].acc]}
     IN  \/ same = {} /\ Goto(r, Idle)
         \/ \E i \in same : Goto(r, [pc |-> "adopt", acc |-> req[r].acc, id |-> i])
  /\ UNCHANGED <<rows, overtaken, crossed, lost, astray>>

\* UPDATE students SET sub=? WHERE id=?
LoginAdopt(r) ==
  /\ At(r, "adopt")
  /\ student' = IF Exists(req[r].id) THEN [student EXCEPT ![req[r].id].sub = req[r].acc]
                ELSE student
  /\ Goto(r, Idle)
  /\ UNCHANGED <<born, held, gone, chosen, overtaken, crossed, lost, astray>>

-----------------------------------------------------------------------------

Abort(r) ==
  /\ ~At(r, "idle")
  /\ Goto(r, Idle)
  /\ UNCHANGED <<rows, overtaken, crossed, lost, astray>>

Handler(r) ==
  \/ \E x \in Roll : RegisterRead(r, x)
  \/ RegisterInsert(r) \/ RegisterKeep(r) \/ RegisterUndo(r)
  \/ ImportRead(r) \/ ImportInsert(r) \/ ImportDone(r)
  \/ \E a \in Account : LoginBegin(r, a) \/ \E i \in Id, p \in Person : LinkBegin(r, a, i, p)
  \/ LinkTarget(r) \/ LinkWrite(r) \/ LoginMatch(r) \/ LoginAdopt(r)
  \/ Abort(r)

Next ==
  \/ \E r \in Request : Handler(r)
  \/ \E i \in Id : DeleteStudent(i) \/ UpdateContact(i)

Spec == Init /\ [][Next]_vars

-----------------------------------------------------------------------------
(* Properties *)

\* "Roll number already registered": two students have one number only if it was
\* inserted while another registration or import had found it free.
DuplicateRollExplained ==
  \A i, j \in Students : i # j /\ student[i].roll = student[j].roll
                         => student[i].roll \in overtaken

\* "This account is already connected to a different student account": an account
\* is connected to two students only if two of its callbacks met.
OneStudentPerAccount ==
  \A i, j \in Students : i # j /\ student[i].sub = student[j].sub
                         => student[i].sub \in crossed \cup {NoSub}

\* Connecting an account never replaces the address a student gave, unless it
\* was given while the callback was under way.
AddressKept ==
  \A i \in Students :
    LET p == student[i].who
    IN  chosen[p] # NoMail /\ student[i].mail # chosen[p] => p \in lost

\* A browser session that outlives its student connects an account to the row
\* that got the id next, and to no other row of somebody else.
AstrayNeedsDeletion == astray \subseteq gone

\* What connecting an account may do to a row, whatever meets it.
LinksExplained == OneStudentPerAccount /\ AddressKept /\ AstrayNeedsDeletion
=============================================================================
