------------------------------ MODULE Credentials ------------------------------
(****************************************************************************)
(* The accounts of administrators and students and what changes their       *)
(* passwords: login, the emailed reset links, the temporary password an     *)
(* administrator hands out, the account pages, and the two server-side      *)
(* scripts.  Every statement on the database is a step of its own; workers  *)
(* overtake each other between any two and may die there.                   *)
(*                                                                          *)
(* Passwords are not modelled as values: a comparison is a choice.  The     *)
(* counting of failures is in module Lockout; here a failed login locks the *)
(* account or does not.  SQLite gives a new row the largest id in use plus  *)
(* one, so the id of a deleted account comes back; "who" tells the accounts *)
(* that had one id apart.                                                   *)
(****************************************************************************)
EXTENDS Integers, FiniteSets

CONSTANTS
  Request,   \* worker slots
  Name,      \* user names of administrators
  Root,      \* the name of the administrator of a fresh installation
  MaxAdmin,  \* bound: ids of administrators
  MaxPupil,  \* bound: ids of students
  MaxBorn,   \* bound: accounts ever made
  Link       \* bound: reset links ever made

ASSUME BoundAssumption == MaxAdmin \in Nat \ {0} /\ MaxPupil \in Nat /\ MaxBorn \in Nat
ASSUME RootAssumption == Root \in Name

Id == 1..MaxAdmin
Pupil == 1..MaxPupil
Acct == ({"admin"} \X Id) \cup ({"student"} \X Pupil)

NoRow == [who |-> 0]
Row == [who : Nat \ {0}, name : Name, locked : BOOLEAN] \cup {NoRow}
NoLink == [owner |-> 0]
LinkRow == [owner : Nat \ {0}, acct : Acct, state : {"good", "used", "expired"}]
           \cup {NoLink}

VARIABLES
  row,     \* admins and students
  link,    \* admin_password_reset_tokens and password_reset_tokens
  cookie,  \* the names of the administrators who are logged in
  req,     \* what each worker is doing
  born,    \* history: accounts made so far
  gone,    \* history: accounts deleted
  raced,   \* history: an administrator was deleted on a count that was overtaken
  shared,  \* history: links two workers held at once
  torn,    \* history: links whose worker died after changing the password
  uses,    \* history: how often a link changed a password
  owed,    \* history: links that changed the password of a locked account, still locked
  astray   \* history: accounts in whose name another one's password was changed

ghosts == <<born, gone, raced, shared, torn, uses, owed, astray>>
vars == <<row, link, cookie, req, born, gone, raced, shared, torn, uses, owed, astray>>

Idle == [pc |-> "idle"]
Work ==
  {Idle}
  \cup [pc : {"welcome", "fail"}, acct : Acct, key : Name]
  \cup [pc : {"target", "remove"}, id : Id, me : Name, late : BOOLEAN]
  \cup [pc : {"insert", "script"}, name : Name]
  \cup [pc : {"set", "temp"}, acct : Acct, who : Nat]
  \cup [pc : {"password", "spend", "unlock"}, link : Link]

TypeOK ==
  /\ row \in [Acct -> Row] /\ link \in [Link -> LinkRow]
  /\ cookie \subseteq Name /\ req \in [Request -> Work]
  /\ born \in Nat /\ gone \subseteq Nat /\ raced \in BOOLEAN
  /\ shared \subseteq Link /\ torn \subseteq Link /\ owed \subseteq Link
  /\ uses \in [Link -> Nat] /\ astray \subseteq Nat

At(r, step) == req[r].pc = step
Goto(r, work) == req' = [req EXCEPT ![r] = work]
Exists(a) == row[a] # NoRow
Admins == {i \in Id : Exists(<<"admin", i>>)}
Pupils == {i \in Pupil : Exists(<<"student", i>>)}

\* init_databases leaves one administrator; the tables start empty otherwise.
Init ==
  /\ row = [a \in Acct |-> IF a = <<"admin", 1>>
                           THEN [who |-> 1, name |-> Root, locked |-> FALSE]
                           ELSE NoRow]
  /\ link = [t \in Link |-> NoLink]
  /\ cookie = {}
  /\ req = [r \in Request |-> Idle]
  /\ born = 1 /\ gone = {} /\ raced = FALSE
  /\ shared = {} /\ torn = {} /\ owed = {} /\ astray = {}
  /\ uses = [t \in Link |-> 0]

\* A new row of a table whose ids in use are given.
Insert(kind, ids, used, name) ==
  /\ born < MaxBorn
  /\ born' = born + 1
  /\ \E i \in ids :
       /\ \A j \in used : j < i
       /\ i = 1 \/ i - 1 \in used
       /\ row' = [row EXCEPT ![<<kind, i>>] =
                    [who |-> born + 1, name |-> name, locked |-> FALSE]]

\* The links of an account whose lock was lifted, or that is gone, owe nothing.
Settle(a) == owed' = {t \in owed : link[t].acct # a}

\* UPDATE ... SET password=?, failed_attempts=0, locked_until=NULL WHERE id=?
SetAndUnlock(a) ==
  /\ row' = IF Exists(a) THEN [row EXCEPT ![a].locked = FALSE] ELSE row
  /\ Settle(a)

\* Somebody meant account "meant" and the statement reached the row of a.
Blame(a, meant) ==
  astray' = IF Exists(a) /\ row[a].who # meant
            THEN astray \cup {meant} ELSE astray

-----------------------------------------------------------------------------
(* Logging in and out: login, student_login, logout. *)

\* The row is found and not locked; the comparison decides what comes next.
LoginRead(r, a) ==
  /\ At(r, "idle") /\ Exists(a) /\ ~row[a].locked
  /\ \E next \in {"welcome", "fail"} :
       Goto(r, [pc |-> next, acct |-> a, key |-> row[a].name])
  /\ UNCHANGED <<row, link, cookie, ghosts>>

\* _clear_failed_logins, and the answer carries the cookie.
Welcome(r) ==
  /\ At(r, "welcome")
  /\ LET a == req[r].acct
     IN  /\ SetAndUnlock(a)
         /\ cookie' = IF a[1] = "admin" THEN cookie \cup {req[r].key} ELSE cookie
  /\ Goto(r, Idle)
  /\ UNCHANGED <<link, born, gone, raced, shared, torn, uses, astray>>

\* _register_failed_login: the limit is reached, or not (see Lockout).
Fail(r) ==
  /\ At(r, "fail")
  /\ LET a == req[r].acct
     IN  IF Exists(a)
         THEN \E locked \in BOOLEAN :
                /\ row' = [row EXCEPT ![a].locked = locked]
                /\ IF locked THEN owed' = owed ELSE Settle(a)
         ELSE UNCHANGED <<row, owed>>
  /\ Goto(r, Idle)
  /\ UNCHANGED <<link, cookie, born, gone, raced, shared, torn, uses, astray>>

Logout ==
  /\ \E n \in cookie : cookie' = cookie \ {n}
  /\ UNCHANGED <<row, link, req, ghosts>>

LockEnds(a) ==
  /\ Exists(a) /\ row[a].locked
  /\ row' = [row EXCEPT ![a].locked = FALSE] /\ Settle(a)
  /\ UNCHANGED <<link, cookie, req, born, gone, raced, shared, torn, uses, astray>>

-----------------------------------------------------------------------------
(* Administrators: admin_settings, delete_admin, and init_databases. *)

\* The name is free, so far.  reset_admin_password.py --create asks the same.
CreateRead(r, n) ==
  /\ At(r, "idle")
  /\ \A i \in Admins : row[<<"admin", i>>].name # n
  /\ Goto(r, [pc |-> "insert", name |-> n])
  /\ UNCHANGED <<row, link, cookie, ghosts>>

\* The column is UNIQUE: a name taken meanwhile ends the request in an error.
CreateInsert(r) ==
  /\ At(r, "insert")
  /\ \/ /\ \A i \in Admins : row[<<"admin", i>>].name # req[r].name
        /\ Insert("admin", Id, Admins, req[r].name)
     \/ /\ \E i \in Admins : row[<<"admin", i>>].name = req[r].name
        /\ UNCHANGED <<row, born>>
  /\ Goto(r, Idle)
  /\ UNCHANGED <<link, cookie, gone, raced, shared, torn, uses, owed, astray>>

\* A worker starts up and finds no administrator at all.
Startup(r) ==
  /\ At(r, "idle") /\ Admins = {}
  /\ Goto(r, [pc |-> "insert", name |-> Root])
  /\ UNCHANGED <<row, link, cookie, ghosts>>

\* Slip: a single account counts as enough.
DeleteCountOne(r) ==
  /\ At(r, "idle")
  /\ Cardinality(Admins) >= 1
  /\ \E me \in cookie, i \in Id :
       Goto(r, [pc |-> "target", id |-> i, me |-> me, late |-> FALSE])
  /\ UNCHANGED <<row, link, cookie, ghosts>>

\* SELECT COUNT(*): more than this one account.
DeleteCount(r) ==
  /\ At(r, "idle")
  /\ Cardinality(Admins) > 1
  /\ \E me \in cookie, i \in Id :
       Goto(r, [pc |-> "target", id |-> i, me |-> me, late |-> FALSE])
  /\ UNCHANGED <<row, link, cookie, ghosts>>

\* The name of that account: none, or one's own, ends the request.
DeleteTarget(r) ==
  /\ At(r, "target")
  /\ LET a == <<"admin", req[r].id>>
     IN  IF Exists(a) /\ row[a].name # req[r].me
         THEN Goto(r, [req[r] EXCEPT !.pc = "remove"])
         ELSE Goto(r, Idle)
  /\ UNCHANGED <<row, link, cookie, ghosts>>

\* DELETE FROM admins WHERE id=?.  Whoever counted before is late now.
DeleteRow(r) ==
  /\ At(r, "remove")
  /\ LET a == <<"admin", req[r].id>>
     IN  /\ row' = [row EXCEPT ![a] = NoRow]
         /\ gone' = IF Exists(a) THEN gone \cup {row[a].who} ELSE gone
         /\ Settle(a)
  /\ raced' = (raced \/ req[r].late)
  /\ req' = [s \in Request |->
       IF s = r THEN Idle
       ELSE IF req[s].pc \in {"target", "remove"} THEN [req[s] EXCEPT !.late = TRUE]
       ELSE req[s]]
  /\ UNCHANGED <<link, cookie, born, shared, torn, uses, astray>>

-----------------------------------------------------------------------------
(* Changing a password one knows: admin_change_own_password,               *)
(* student_change_password.                                                *)

\* Any student may be the one who is logged in.
Own == {<<"admin", i>> : i \in {j \in Admins : row[<<"admin", j>>].name \in cookie}}
       \cup {<<"student", i>> : i \in Pupils}

\* Slip: the row is looked up by an id of the form.
OwnReadAny(r) ==
  /\ At(r, "idle") /\ Own # {}
  /\ \E a \in Own, b \in Acct : Goto(r, [pc |-> "set", acct |-> b, who |-> row[a].who])
  /\ UNCHANGED <<row, link, cookie, ghosts>>

\* The row of the one who is logged in; the current password is right.
OwnRead(r) ==
  /\ At(r, "idle")
  /\ \E a \in Own : Goto(r, [pc |-> "set", acct |-> a, who |-> row[a].who])
  /\ UNCHANGED <<row, link, cookie, ghosts>>

\* UPDATE ... SET password=? WHERE id=?
OwnWrite(r) ==
  /\ At(r, "set")
  /\ Blame(req[r].acct, req[r].who)
  /\ Goto(r, Idle)
  /\ UNCHANGED <<row, link, cookie, born, gone, raced, shared, torn, uses, owed>>

\* reset_student_password: an administrator picks a student ...
TempRead(r, i) ==
  /\ At(r, "idle") /\ cookie # {} /\ Exists(<<"student", i>>)
  /\ Goto(r, [pc |-> "temp", acct |-> <<"student", i>>, who |-> row[<<"student", i>>].who])
  /\ UNCHANGED <<row, link, cookie, ghosts>>

\* ... whose password, failures and lock one UPDATE resets.
TempWrite(r) ==
  /\ At(r, "temp")
  /\ SetAndUnlock(req[r].acct)
  /\ Blame(req[r].acct, req[r].who)
  /\ Goto(r, Idle)
  /\ UNCHANGED <<link, cookie, born, gone, raced, shared, torn, uses>>

\* reset_admin_password.py without --create: the account exists ...
ScriptRead(r, n) ==
  /\ At(r, "idle")
  /\ \E i \in Admins : row[<<"admin", i>>].name = n
  /\ Goto(r, [pc |-> "script", name |-> n])
  /\ UNCHANGED <<row, link, cookie, ghosts>>

\* ... and, after the prompts, the UPDATE finds it by its name.
ScriptWrite(r) ==
  /\ At(r, "script")
  /\ LET hit == {i \in Admins : row[<<"admin", i>>].name = req[r].name}
     IN  IF hit = {} THEN UNCHANGED <<row, owed>>
         ELSE \E i \in hit : SetAndUnlock(<<"admin", i>>)
  /\ Goto(r, Idle)
  /\ UNCHANGED <<link, cookie, born, gone, raced, shared, torn, uses, astray>>

-----------------------------------------------------------------------------
(* Reset links: admin_forgot_password and student_forgot_password, then    *)
(* admin_reset_password and student_reset_password.                        *)

\* An account with an address (admins.recovery_email, students.email) is sent a
\* new link; older ones stay good.
Forgot(a) ==
  /\ Exists(a)
  /\ \E t \in Link :
       /\ link[t] = NoLink
       /\ \A u \in Link : u < t => link[u] # NoLink
       /\ link' = [link EXCEPT ![t] = [owner |-> row[a].who, acct |-> a,
                                       state |-> "good"]]
  /\ UNCHANGED <<row, cookie, req, ghosts>>

Expire(t) ==
  /\ link[t] # NoLink /\ link[t].state = "good"
  /\ link' = [link EXCEPT ![t].state = "expired"]
  /\ UNCHANGED <<row, cookie, req, ghosts>>

Holds(s, t) == req[s].pc \in {"password", "spend"} /\ req[s].link = t

\* Slip: the link is marked as soon as it is looked up.
ResetReadSpends(r, t) ==
  /\ At(r, "idle") /\ link[t] # NoLink /\ link[t].state = "good"
  /\ Exists(link[t].acct)
  /\ Goto(r, [pc |-> "password", link |-> t])
  /\ link' = [link EXCEPT ![t].state = "used"]
  /\ UNCHANGED <<row, cookie, ghosts>>

\* Slip: a link that was used is good as long as it has not expired.
ResetReadUsed(r, t) ==
  /\ At(r, "idle") /\ link[t] # NoLink /\ link[t].state # "expired"
  /\ Exists(link[t].acct)
  /\ Goto(r, [pc |-> "password", link |-> t])
  /\ shared' = IF \E s \in Request : Holds(s, t) THEN shared \cup {t} ELSE shared
  /\ UNCHANGED <<row, link, cookie, born, gone, raced, torn, uses, owed, astray>>

\* The link is looked up and is good, and so is its account.
ResetRead(r, t) ==
  /\ At(r, "idle") /\ link[t] # NoLink /\ link[t].state = "good"
  /\ Exists(link[t].acct)
  /\ Goto(r, [pc |-> "password", link |-> t])
  /\ shared' = IF \E s \in Request : Holds(s, t) THEN shared \cup {t} ELSE shared
  /\ UNCHANGED <<row, link, cookie, born, gone, raced, torn, uses, owed, astray>>

\* UPDATE of the password; of an administrator, the lock goes with it.
ResetPassword(r) ==
  /\ At(r, "password")
  /\ LET t == req[r].link
         a == link[t].acct
     IN  /\ IF a[1] = "admin" THEN SetAndUnlock(a)
            ELSE /\ row' = row
                 /\ owed' = IF Exists(a) /\ row[a].locked THEN owed \cup {t} ELSE owed
         /\ uses' = IF Exists(a) /\ uses[t] < 2 THEN [uses EXCEPT ![t] = @ + 1] ELSE uses
         /\ Blame(a, link[t].owner)
  /\ Goto(r, [req[r] EXCEPT !.pc = "spend"])
  /\ UNCHANGED <<link, cookie, born, gone, raced, shared, torn>>

\* UPDATE ... SET used_at=?
ResetSpend(r) ==
  /\ At(r, "spend")
  /\ link' = [link EXCEPT ![req[r].link].state = "used"]
  /\ IF link[req[r].link].acct[1] = "admin" THEN Goto(r, Idle)
     ELSE Goto(r, [req[r] EXCEPT !.pc = "unlock"])
  /\ UNCHANGED <<row, cookie, ghosts>>

\* _clear_failed_logins for a student.
ResetUnlock(r) ==
  /\ At(r, "unlock")
  /\ SetAndUnlock(link[req[r].link].acct)
  /\ Goto(r, Idle)
  /\ UNCHANGED <<link, cookie, born, gone, raced, shared, torn, uses, astray>>

-----------------------------------------------------------------------------
(* Students come and go (student_register, delete_student), and workers die. *)

StudentJoins ==
  /\ Insert("student", Pupil, Pupils, Root)
  /\ UNCHANGED <<link, cookie, req, gone, raced, shared, torn, uses, owed, astray>>

StudentLeaves(i) ==
  /\ Exists(<<"student", i>>)
  /\ row' = [row EXCEPT ![<<"student", i>>] = NoRow]
  /\ gone' = gone \cup {row[<<"student", i>>].who}
  /\ Settle(<<"student", i>>)
  /\ UNCHANGED <<link, cookie, req, born, raced, shared, torn, uses, astray>>

Abort(r) ==
  /\ ~At(r, "idle")
  /\ torn' = IF req[r].pc \in {"spend", "unlock"} THEN torn \cup {req[r].link} ELSE torn
  /\ Goto(r, Idle)
  /\ UNCHANGED <<row, link, cookie, born, gone, raced, shared, uses, owed, astray>>

Handler(r) ==
  \/ \E a \in Acct : LoginRead(r, a)
  \/ Welcome(r) \/ Fail(r)
  \/ \E n \in Name : CreateRead(r, n) \/ ScriptRead(r, n)
  \/ CreateInsert(r) \/ ScriptWrite(r) \/ Startup(r)
  \/ DeleteCount(r) \/ DeleteTarget(r) \/ DeleteRow(r)
  \/ OwnRead(r) \/ OwnWrite(r)
  \/ \E i \in Pupil : TempRead(r, i)
  \/ TempWrite(r)
  \/ \E t \in Link : ResetRead(r, t)
  \/ ResetPassword(r) \/ ResetSpend(r) \/ ResetUnlock(r)
  \/ Abort(r)

Outside ==
  \/ Logout \/ StudentJoins
  \/ \E a \in Acct : LockEnds(a) \/ Forgot(a)
  \/ \E i \in Pupil : StudentLeaves(i)
  \/ \E t \in Link : Expire(t)

Next == Outside \/ \E r \in Request : Handler(r)

Spec == Init /\ [][Next]_vars

-----------------------------------------------------------------------------
(* Properties *)

\* "Cannot delete the last remaining admin account": there is always one, unless
\* two deletions counted the same accounts.  An administrator who was deleted
\* and is still logged in does not change that.
LastAdminKept == Admins # {} \/ raced

\* A reset link is "single use": it changed a password twice only if two workers
\* held it at once, or one died before it could mark the link.
SecondUseExplained == \A t \in Link : uses[t] > 1 => t \in shared \cup torn

\* However the worker dies, a link is not spent for nothing: the password was
\* changed, or the account that asked is gone.
SpentLinkChangedPassword ==
  \A t \in Link :
    link[t] # NoLink /\ link[t].state = "used" => uses[t] > 0 \/ link[t].owner \in gone

\* A reset done by the student ends the lock as well ("a reset clears the
\* lockout"), unless the worker died in between or still has to do it.
SpentLinkUnlocks ==
  \A t \in owed : link[t].state = "used" =>
    t \in torn \/ \E r \in Request : req[r].pc \in {"spend", "unlock"} /\ req[r].link = t

\* A link that is spent did all of its work, unless somebody died at it.
SpentLinkTookEffect == SpentLinkChangedPassword /\ SpentLinkUnlocks

\* A password is changed in the name of another account only when that account
\* was deleted and its id given out again.
AstrayNeedsDeletion == astray \subseteq gone
=============================================================================
