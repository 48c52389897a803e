--------------------------- MODULE CredentialsProofs ---------------------------
(***************************************************************************)
(* Proofs about Credentials, for any number of workers, names, ids and     *)
(* links.                                                                  *)
(***************************************************************************)
EXTENDS Credentials, FiniteSetTheorems, TLAPS

-----------------------------------------------------------------------------
(* Types. *)

LEMMA GotoType ==
  ASSUME TypeOK, NEW r \in Request, NEW work \in Work, Goto(r, work)
  PROVE  req' \in [Request -> Work]
BY DEF TypeOK, Goto

LEMMA IdleType ==
  ASSUME TypeOK, NEW r \in Request, Goto(r, Idle)
  PROVE  req' \in [Request -> Work]
BY GotoType DEF Work

\* What a worker knows at each step.
LEMMA Known ==
  ASSUME TypeOK, NEW r \in Request
  PROVE  /\ req[r].pc \in {"welcome", "fail"} => req[r].acct \in Acct /\ req[r].key \in Name
         /\ req[r].pc \in {"target", "remove"} =>
              req[r].id \in Id /\ req[r].me \in Name /\ req[r].late \in BOOLEAN
         /\ req[r].pc \in {"insert", "script"} => req[r].name \in Name
         /\ req[r].pc \in {"set", "temp"} => req[r].acct \in Acct /\ req[r].who \in Nat
         /\ req[r].pc \in {"password", "spend", "unlock"} => req[r].link \in Link
<1>1. req[r] \in Work
  BY DEF TypeOK
<1>2. QED
  BY <1>1 DEF Work, Idle

LEMMA Accounts ==
  /\ \A i \in Id : <<"admin", i>> \in Acct
  /\ \A i \in Pupil : <<"student", i>> \in Acct
BY DEF Acct

\* A row holds no account exactly if it says so.
LEMMA RowFacts ==
  ASSUME TypeOK, NEW a \in Acct
  PROVE  /\ row[a] \in Row /\ row[a].who \in Nat
         /\ Exists(a) <=> row[a].who # 0
         /\ Exists(a) => row[a].name \in Name /\ row[a].locked \in BOOLEAN
<1>1. row[a] \in Row
  BY DEF TypeOK
<1>2. QED
  BY <1>1 DEF Row, NoRow, Exists

LEMMA LinkFacts ==
  ASSUME TypeOK, NEW t \in Link, link[t] # NoLink
  PROVE  /\ link[t].owner \in Nat \ {0} /\ link[t].acct \in Acct
         /\ link[t].state \in {"good", "used", "expired"}
         /\ link[t].acct[1] \in {"admin", "student"}
<1>1. link[t] \in LinkRow
  BY DEF TypeOK
<1>2. QED
  BY <1>1 DEF LinkRow, NoLink, Acct

\* Locking or unlocking an account leaves every account in its row.
LEMMA LockType ==
  ASSUME TypeOK, NEW a \in Acct, Exists(a), NEW locked \in BOOLEAN,
         row' = [row EXCEPT ![a].locked = locked]
  PROVE  row' \in [Acct -> Row] /\ \A b \in Acct : row'[b].who = row[b].who
<1>1. row[a] \in Row \ {NoRow}
  BY RowFacts DEF Exists
<1>2. [row[a] EXCEPT !.locked = locked] \in Row
  BY <1>1 DEF Row
<1>3. [row[a] EXCEPT !.locked = locked].who = row[a].who
  BY <1>1 DEF Row
<1>4. QED
  BY <1>2, <1>3 DEF TypeOK

LEMMA UnlockType ==
  ASSUME TypeOK, NEW a \in Acct, SetAndUnlock(a)
  PROVE  /\ row' \in [Acct -> Row] /\ \A b \in Acct : row'[b].who = row[b].who
         /\ owed' \subseteq Link
<1>1. owed' \subseteq Link
  BY DEF SetAndUnlock, Settle, TypeOK
<1>2. CASE Exists(a)
  BY <1>1, <1>2, LockType DEF SetAndUnlock
<1>3. CASE ~Exists(a)
  BY <1>1, <1>3 DEF SetAndUnlock, TypeOK
<1>4. QED
  BY <1>2, <1>3

LEMMA InsertType ==
  ASSUME TypeOK, NEW kind, NEW ids, NEW used, NEW name \in Name,
         \A i \in ids : <<kind, i>> \in Acct, Insert(kind, ids, used, name)
  PROVE  row' \in [Acct -> Row] /\ born' \in Nat
<1>1. PICK i \in ids : row' = [row EXCEPT ![<<kind, i>>] =
                    [who |-> born + 1, name |-> name, locked |-> FALSE]]
  BY DEF Insert
<1>2. born + 1 \in Nat \ {0}
  BY DEF TypeOK
<1>3. [who |-> born + 1, name |-> name, locked |-> FALSE] \in Row
  BY <1>2 DEF Row
<1>4. born' = born + 1
  BY DEF Insert
<1>5. QED
  BY <1>1, <1>2, <1>3, <1>4 DEF TypeOK

LEMMA BlameType ==
  ASSUME TypeOK, NEW a \in Acct, NEW meant \in Nat, Blame(a, meant)
  PROVE  astray' \subseteq Nat
BY DEF Blame, TypeOK

LEMMA LogType ==
  ASSUME TypeOK, NEW r \in Request,
         \/ \E a \in Acct : LoginRead(r, a)
         \/ Welcome(r) \/ Fail(r)
  PROVE  TypeOK'
<1>1. ASSUME NEW a \in Acct, LoginRead(r, a) PROVE TypeOK'
  <2>1. PICK next \in {"welcome", "fail"} : Goto(r, [pc |-> next, acct |-> a, key |-> row[a].name])
    BY <1>1 DEF LoginRead
  <2>2. row[a].name \in Name
    BY <1>1, RowFacts DEF LoginRead
  <2>3. [pc |-> next, acct |-> a, key |-> row[a].name] \in Work
    BY <2>2 DEF Work
  <2>4. req' \in [Request -> Work]
    BY <2>1, <2>3, GotoType
  <2>5. QED
    BY <1>1, <2>4 DEF LoginRead, TypeOK, ghosts
<1>2. CASE Welcome(r)
  <2>1. req[r].acct \in Acct /\ req[r].key \in Name
    BY <1>2, Known DEF Welcome, At
  <2>2. row' \in [Acct -> Row] /\ owed' \subseteq Link
    BY <1>2, <2>1, UnlockType DEF Welcome
  <2>3. req' \in [Request -> Work]
    BY <1>2, IdleType DEF Welcome
  <2>4. cookie' \subseteq Name
    BY <1>2, <2>1 DEF Welcome, TypeOK
  <2>5. QED
    BY <1>2, <2>2, <2>3, <2>4 DEF Welcome, TypeOK
<1>3. CASE Fail(r)
  <2>1. req[r].acct \in Acct
    BY <1>3, Known DEF Fail, At
  <2>2. req' \in [Request -> Work]
    BY <1>3, IdleType DEF Fail
  <2>3. row' \in [Acct -> Row]
    <3>1. CASE Exists(req[r].acct)
      BY <1>3, <2>1, <3>1, LockType DEF Fail
    <3>2. CASE ~Exists(req[r].acct)
      BY <1>3, <3>2 DEF Fail, TypeOK
    <3>3. QED
      BY <3>1, <3>2
  <2>4. owed' \subseteq Link
    BY <1>3 DEF Fail, Settle, TypeOK
  <2>5. QED
    BY <1>3, <2>2, <2>3, <2>4 DEF Fail, TypeOK
<1>4. QED
  BY <1>1, <1>2, <1>3

LEMMA CreateType ==
  ASSUME TypeOK, NEW r \in Request,
         \/ \E n \in Name : CreateRead(r, n) \/ ScriptRead(r, n)
         \/ CreateInsert(r) \/ ScriptWrite(r) \/ Startup(r)
  PROVE  TypeOK'
<1>1. \A n \in Name : [pc |-> "insert", name |-> n] \in Work /\ [pc |-> "script", name |-> n] \in Work
  BY DEF Work
<1>2. ASSUME NEW n \in Name, CreateRead(r, n) \/ ScriptRead(r, n) PROVE TypeOK'
  <2>1. req' \in [Request -> Work]
    BY <1>1, <1>2, GotoType DEF CreateRead, ScriptRead
  <2>2. QED
    BY <1>2, <2>1 DEF CreateRead, ScriptRead, TypeOK, ghosts
<1>3. CASE CreateInsert(r)
  <2>1. req' \in [Request -> Work]
    BY <1>3, IdleType DEF CreateInsert
  <2>2. req[r].name \in Name
    BY <1>3, Known DEF CreateInsert, At
  <2>3. row' \in [Acct -> Row] /\ born' \in Nat
    <3>1. CASE Insert("admin", Id, Admins, req[r].name)
      BY <2>2, <3>1, InsertType, Accounts
    <3>2. CASE UNCHANGED <<row, born>>
      BY <3>2 DEF TypeOK
    <3>3. QED
      BY <1>3, <3>1, <3>2 DEF CreateInsert
  <2>4. QED
    BY <1>3, <2>1, <2>3 DEF CreateInsert, TypeOK
<1>4. CASE ScriptWrite(r)
  <2>1. req' \in [Request -> Work]
    BY <1>4, IdleType DEF ScriptWrite
  <2>2. row' \in [Acct -> Row] /\ owed' \subseteq Link
    <3>1. CASE UNCHANGED <<row, owed>>
      BY <3>1 DEF TypeOK
    <3>2. ASSUME NEW i \in Admins, SetAndUnlock(<<"admin", i>>)
          PROVE  row' \in [Acct -> Row] /\ owed' \subseteq Link
      BY <3>2, UnlockType, Accounts DEF Admins
    <3>3. QED
      BY <1>4, <3>1, <3>2 DEF ScriptWrite
  <2>3. QED
    BY <1>4, <2>1, <2>2 DEF ScriptWrite, TypeOK
<1>5. CASE Startup(r)
  <2>1. req' \in [Request -> Work]
    BY <1>1, <1>5, GotoType, RootAssumption DEF Startup
  <2>2. QED
    BY <1>5, <2>1 DEF Startup, TypeOK, ghosts
<1>6. QED
  BY <1>2, <1>3, <1>4, <1>5

LEMMA DeleteType ==
  ASSUME TypeOK, NEW r \in Request, DeleteCount(r) \/ DeleteTarget(r) \/ DeleteRow(r)
  PROVE  TypeOK'
<1>1. CASE DeleteCount(r)
  <2>1. PICK me \in cookie, i \in Id :
          Goto(r, [pc |-> "target", id |-> i, me |-> me, late |-> FALSE])
    BY <1>1 DEF DeleteCount
  <2>2. [pc |-> "target", id |-> i, me |-> me, late |-> FALSE] \in Work
    BY DEF Work, TypeOK
  <2>3. req' \in [Request -> Work]
    BY <2>1, <2>2, GotoType
  <2>4. QED
    BY <1>1, <2>3 DEF DeleteCount, TypeOK, ghosts
<1>2. CASE DeleteTarget(r)
  <2>1. [req[r] EXCEPT !.pc = "remove"] \in Work
    <3>1. req[r] \in [pc : {"target", "remove"}, id : Id, me : Name, late : BOOLEAN]
      BY <1>2 DEF TypeOK, DeleteTarget, At, Work, Idle
    <3>2. QED
      BY <3>1 DEF Work
  <2>2. req' \in [Request -> Work]
    BY <1>2, <2>1, GotoType, IdleType DEF DeleteTarget
  <2>3. QED
    BY <1>2, <2>2 DEF DeleteTarget, TypeOK, ghosts
<1>3. CASE DeleteRow(r)
  <2>1. req[r].id \in Id /\ req[r].late \in BOOLEAN
    BY <1>3, Known DEF DeleteRow, At
  <2> DEFINE a == <<"admin", req[r].id>>
  <2>2. a \in Acct
    BY <2>1, Accounts
  <2>3. row' \in [Acct -> Row]
    BY <1>3, <2>2 DEF DeleteRow, Row, TypeOK
  <2>4. gone' \subseteq Nat /\ owed' \subseteq Link
    BY <1>3, <2>2, RowFacts DEF DeleteRow, Settle, TypeOK
  <2>5. raced' \in BOOLEAN
    BY <1>3, <2>1, Zenon DEF DeleteRow, TypeOK
  <2>6. req' \in [Request -> Work]
    <3>1. ASSUME NEW s \in Request, req[s].pc \in {"target", "remove"}
          PROVE  [req[s] EXCEPT !.late = TRUE] \in Work
      <4>1. req[s] \in [pc : {"target", "remove"}, id : Id, me : Name, late : BOOLEAN]
        BY <3>1 DEF TypeOK, Work, Idle
      <4>2. QED
        BY <4>1 DEF Work
    <3>2. Idle \in Work /\ \A s \in Request : req[s] \in Work
      BY DEF Work, TypeOK
    <3>3. QED
      BY <1>3, <3>1, <3>2 DEF DeleteRow
  <2>7. QED
    BY <1>3, <2>3, <2>4, <2>5, <2>6 DEF DeleteRow, TypeOK
<1>4. QED
  BY <1>1, <1>2, <1>3

LEMMA OwnType ==
  ASSUME TypeOK, NEW r \in Request,
         \/ OwnRead(r) \/ OwnWrite(r)
         \/ \E i \in Pupil : TempRead(r, i)
         \/ TempWrite(r)
  PROVE  TypeOK'
<1>1. CASE OwnRead(r)
  <2>1. PICK a \in Own : Goto(r, [pc |-> "set", acct |-> a, who |-> row[a].who])
    BY <1>1 DEF OwnRead
  <2>2. a \in Acct
    BY Accounts DEF Own, Admins, Pupils
  <2>3. [pc |-> "set", acct |-> a, who |-> row[a].who] \in Work
    BY <2>2, RowFacts DEF Work
  <2>4. req' \in [Request -> Work]
    BY <2>1, <2>3, GotoType
  <2>5. QED
    BY <1>1, <2>4 DEF OwnRead, TypeOK, ghosts
<1>2. CASE OwnWrite(r)
  <2>1. req' \in [Request -> Work]
    BY <1>2, IdleType DEF OwnWrite
  <2>2. astray' \subseteq Nat
    BY <1>2, Known, BlameType DEF OwnWrite, At
  <2>3. QED
    BY <1>2, <2>1, <2>2 DEF OwnWrite, TypeOK
<1>3. ASSUME NEW i \in Pupil, TempRead(r, i) PROVE TypeOK'
  <2>1. <<"student", i>> \in Acct
    BY Accounts
  <2>2. [pc |-> "temp", acct |-> <<"student", i>>, who |-> row[<<"student", i>>].who] \in Work
    BY <2>1, RowFacts DEF Work
  <2>3. req' \in [Request -> Work]
    BY <1>3, <2>2, GotoType DEF TempRead
  <2>4. QED
    BY <1>3, <2>3 DEF TempRead, TypeOK, ghosts
<1>4. CASE TempWrite(r)
  <2>1. req' \in [Request -> Work]
    BY <1>4, IdleType DEF TempWrite
  <2>2. req[r].acct \in Acct /\ req[r].who \in Nat
    BY <1>4, Known DEF TempWrite, At
  <2>3. row' \in [Acct -> Row] /\ owed' \subseteq Link
    BY <1>4, <2>2, UnlockType DEF TempWrite
  <2>4. astray' \subseteq Nat
    BY <1>4, <2>2, BlameType DEF TempWrite
  <2>5. QED
    BY <1>4, <2>1, <2>3, <2>4 DEF TempWrite, TypeOK
<1>5. QED
  BY <1>1, <1>2, <1>3, <1>4

\* Whoever is past the look-up of a link holds one that was made.
Held ==
  \A r \in Request :
    req[r].pc \in {"password", "spend", "unlock"} => link[req[r].link] # NoLink

\* What a worker that holds a link knows of it.
LEMMA HeldFacts ==
  ASSUME TypeOK, Held, NEW r \in Request, req[r].pc \in {"password", "spend", "unlock"}
  PROVE  /\ req[r].link \in Link /\ link[req[r].link] # NoLink
         /\ link[req[r].link].owner \in Nat \ {0}
         /\ link[req[r].link].acct \in Acct
         /\ link[req[r].link].acct[1] \in {"admin", "student"}
<1>1. req[r].link \in Link /\ link[req[r].link] # NoLink
  BY Known DEF Held
<1>2. QED
  BY <1>1, LinkFacts

LEMMA MarkType ==
  ASSUME TypeOK, NEW t \in Link, link[t] # NoLink, NEW mark \in {"used", "expired"},
         link' = [link EXCEPT ![t].state = mark]
  PROVE  link' \in [Link -> LinkRow]
<1>1. link[t] \in LinkRow \ {NoLink}
  BY DEF TypeOK
<1>2. [link[t] EXCEPT !.state = mark] \in LinkRow
  BY <1>1 DEF LinkRow
<1>3. QED
  BY <1>2 DEF TypeOK

LEMMA ResetType ==
  ASSUME TypeOK, Held, NEW r \in Request,
         \/ \E t \in Link : ResetRead(r, t)
         \/ ResetPassword(r) \/ ResetSpend(r) \/ ResetUnlock(r)
  PROVE  TypeOK'
<1>1. ASSUME NEW t \in Link, ResetRead(r, t) PROVE TypeOK'
  <2>1. [pc |-> "password", link |-> t] \in Work
    BY DEF Work
  <2>2. req' \in [Request -> Work]
    BY <1>1, <2>1, GotoType DEF ResetRead
  <2>3. shared' \subseteq Link
    BY <1>1 DEF ResetRead, TypeOK
  <2>4. QED
    BY <1>1, <2>2, <2>3 DEF ResetRead, TypeOK
<1>2. \A next \in {"spend", "unlock"} :
        req[r].pc \in {"password", "spend"} => [req[r] EXCEPT !.pc = next] \in Work
  <2> SUFFICES ASSUME NEW next \in {"spend", "unlock"}, req[r].pc \in {"password", "spend"}
               PROVE  [req[r] EXCEPT !.pc = next] \in Work
    OBVIOUS
  <2>1. req[r] \in [pc : {"password", "spend", "unlock"}, link : Link]
    BY DEF TypeOK, Work, Idle
  <2>2. QED
    BY <2>1 DEF Work
<1>3. CASE ResetPassword(r)
  <2> DEFINE t == req[r].link
             a == link[t].acct
  <2>1. t \in Link /\ link[t].owner \in Nat /\ a \in Acct
    BY <1>3, HeldFacts DEF ResetPassword, At
  <2>2. req' \in [Request -> Work]
    BY <1>2, <1>3, GotoType DEF ResetPassword, At
  <2>3. row' \in [Acct -> Row] /\ owed' \subseteq Link
    <3>1. CASE a[1] = "admin"
      BY <1>3, <2>1, <3>1, UnlockType DEF ResetPassword
    <3>2. CASE a[1] # "admin"
      BY <1>3, <2>1, <3>2 DEF ResetPassword, TypeOK
    <3>3. QED
      BY <3>1, <3>2
  <2>4. uses' \in [Link -> Nat]
    BY <1>3, <2>1 DEF ResetPassword, TypeOK
  <2>5. astray' \subseteq Nat
    BY <1>3, <2>1, BlameType DEF ResetPassword
  <2>6. QED
    BY <1>3, <2>2, <2>3, <2>4, <2>5 DEF ResetPassword, TypeOK
<1>4. CASE ResetSpend(r)
  <2>1. link' \in [Link -> LinkRow]
    BY <1>4, HeldFacts, MarkType DEF ResetSpend, At
  <2>2. req' \in [Request -> Work]
    BY <1>2, <1>4, GotoType, IdleType DEF ResetSpend, At
  <2>3. QED
    BY <1>4, <2>1, <2>2 DEF ResetSpend, TypeOK, ghosts
<1>5. CASE ResetUnlock(r)
  <2>1. req' \in [Request -> Work]
    BY <1>5, IdleType DEF ResetUnlock
  <2>2. row' \in [Acct -> Row] /\ owed' \subseteq Link
    BY <1>5, HeldFacts, UnlockType DEF ResetUnlock, At
  <2>3. QED
    BY <1>5, <2>1, <2>2 DEF ResetUnlock, TypeOK
<1>6. QED
  BY <1>1, <1>3, <1>4, <1>5

LEMMA AbortType ==
  ASSUME TypeOK, NEW r \in Request, Abort(r)
  PROVE  TypeOK'
<1>1. req' \in [Request -> Work]
  BY IdleType DEF Abort
<1>2. torn' \subseteq Link
  BY Known DEF Abort, TypeOK
<1>3. QED
  BY <1>1, <1>2 DEF Abort, TypeOK

LEMMA OutsideType ==
  ASSUME TypeOK, Outside
  PROVE  TypeOK'
<1>1. CASE Logout
  BY <1>1 DEF Logout, TypeOK, ghosts
<1>2. CASE StudentJoins
  <2>1. row' \in [Acct -> Row] /\ born' \in Nat
    BY <1>2, InsertType, Accounts, RootAssumption DEF StudentJoins
  <2>2. QED
    BY <1>2, <2>1 DEF StudentJoins, TypeOK
<1>3. ASSUME NEW a \in Acct, LockEnds(a) PROVE TypeOK'
  <2>1. row' \in [Acct -> Row]
    BY <1>3, LockType DEF LockEnds
  <2>2. owed' \subseteq Link
    BY <1>3 DEF LockEnds, Settle, TypeOK
  <2>3. QED
    BY <1>3, <2>1, <2>2 DEF LockEnds, TypeOK
<1>4. ASSUME NEW a \in Acct, Forgot(a) PROVE TypeOK'
  <2>1. row[a].who \in Nat \ {0}
    BY <1>4, RowFacts DEF Forgot
  <2>2. [owner |-> row[a].who, acct |-> a, state |-> "good"] \in LinkRow
    BY <2>1 DEF LinkRow
  <2>3. QED
    BY <1>4, <2>2 DEF Forgot, TypeOK, ghosts
<1>5. ASSUME NEW i \in Pupil, StudentLeaves(i) PROVE TypeOK'
  <2>1. row' \in [Acct -> Row]
    BY <1>5 DEF StudentLeaves, Row, TypeOK
  <2>2. gone' \subseteq Nat
    BY <1>5, RowFacts, Accounts DEF StudentLeaves, TypeOK
  <2>3. owed' \subseteq Link
    BY <1>5 DEF StudentLeaves, Settle, TypeOK
  <2>4. QED
    BY <1>5, <2>1, <2>2, <2>3 DEF StudentLeaves, TypeOK
<1>6. ASSUME NEW t \in Link, Expire(t) PROVE TypeOK'
  <2>1. link' \in [Link -> LinkRow]
    BY <1>6, MarkType DEF Expire
  <2>2. QED
    BY <1>6, <2>1 DEF Expire, TypeOK, ghosts
<1>7. QED
  BY <1>1, <1>2, <1>3, <1>4, <1>5, <1>6 DEF Outside

-----------------------------------------------------------------------------
(* What a step does to the accounts and to the links. *)

\* A link, once made, stays a link of the same account.
LEMMA LinkStep ==
  ASSUME TypeOK, Held, [Next]_vars, NEW t \in Link, link[t] # NoLink
  PROVE  /\ link'[t] # NoLink
         /\ link'[t].owner = link[t].owner /\ link'[t].acct = link[t].acct
<1>1. CASE UNCHANGED link
  BY <1>1
<1>2. ASSUME NEW u \in Link, link[u] # NoLink, NEW mark,
             link' = [link EXCEPT ![u].state = mark]
      PROVE  /\ link'[t] # NoLink
             /\ link'[t].owner = link[t].owner /\ link'[t].acct = link[t].acct
  <2>1. link[u] \in LinkRow \ {NoLink} /\ link[t] \in LinkRow \ {NoLink}
    BY <1>2 DEF TypeOK
  <2>2. /\ [link[u] EXCEPT !.state = mark].owner = link[u].owner
        /\ [link[u] EXCEPT !.state = mark].acct = link[u].acct
    BY <2>1 DEF LinkRow
  <2>3. link'[t] = IF t = u THEN [link[u] EXCEPT !.state = mark] ELSE link[t]
    BY <1>2 DEF TypeOK
  <2>4. link[t].owner # 0 /\ NoLink.owner = 0
    BY LinkFacts DEF NoLink
  <2>5. link'[t].owner = link[t].owner /\ link'[t].acct = link[t].acct
    BY <2>2, <2>3
  <2>6. QED
    BY <2>4, <2>5
<1>3. ASSUME NEW a \in Acct, Forgot(a)
      PROVE  link'[t] = link[t]
  BY <1>3 DEF Forgot, TypeOK
<1>4. ASSUME NEW u \in Link, Expire(u)
      PROVE  link[u] # NoLink /\ link' = [link EXCEPT ![u].state = "expired"]
  BY <1>4 DEF Expire
<1>5. ASSUME NEW r \in Request, ResetSpend(r)
      PROVE  \E u \in Link : link[u] # NoLink /\ link' = [link EXCEPT ![u].state = "used"]
  BY <1>5, HeldFacts DEF ResetSpend, At
<1>6. QED
  BY <1>1, <1>2, <1>3, <1>4, <1>5 DEF Next, Outside, Handler, Logout, StudentJoins,
     LockEnds, StudentLeaves, LoginRead, Welcome, Fail, CreateRead, ScriptRead,
     CreateInsert, ScriptWrite, Startup, DeleteCount, DeleteTarget, DeleteRow, OwnRead,
     OwnWrite, TempRead, TempWrite, ResetRead, ResetPassword, ResetUnlock, Abort, vars

\* A worker's step leaves the others where they are; a deletion only tells those
\* who delete as well that they are late.
LEMMA OthersStay ==
  ASSUME TypeOK, NEW s \in Request, Handler(s), NEW r \in Request, r # s
  PROVE  /\ req[r].pc \notin {"target", "remove"} => req'[r] = req[r]
         /\ req[r].pc \in {"target", "remove"} => req'[r].pc \in {"target", "remove"}
         /\ ~DeleteRow(s) => req'[r] = req[r]
<1>1. CASE DeleteRow(s)
  <2>1. req'[r] = IF req[r].pc \in {"target", "remove"} THEN [req[r] EXCEPT !.late = TRUE]
                  ELSE req[r]
    BY <1>1 DEF DeleteRow
  <2>2. req[r].pc \in {"target", "remove"} =>
          req[r] \in [pc : {"target", "remove"}, id : Id, me : Name, late : BOOLEAN]
    BY DEF TypeOK, Work, Idle
  <2>3. req[r].pc \in {"target", "remove"} =>
          [req[r] EXCEPT !.late = TRUE].pc = req[r].pc
    BY <2>2
  <2>4. QED
    BY <1>1, <2>1, <2>3
<1>2. CASE ~DeleteRow(s)
  <2>1. \E work : Goto(s, work)
    BY <1>2, Zenon DEF Handler, LoginRead, Welcome, Fail, CreateRead, ScriptRead,
       CreateInsert, ScriptWrite, Startup, DeleteCount, DeleteTarget, OwnRead, OwnWrite,
       TempRead, TempWrite, ResetRead, ResetPassword, ResetSpend, ResetUnlock, Abort
  <2>2. QED
    BY <2>1 DEF Goto, TypeOK
<1>3. QED
  BY <1>1, <1>2

LEMMA Arrives ==
  ASSUME TypeOK, NEW s \in Request, NEW work, Goto(s, work)
  PROVE  req'[s] = work
BY DEF Goto, TypeOK

\* Where each step takes its worker.
LEMMA Destination ==
  ASSUME TypeOK, NEW s \in Request, Handler(s)
  PROVE  \/ req'[s].pc \in {"idle", "welcome", "fail", "insert", "script"}
         \/ req'[s].pc \in {"target", "remove"} /\ (DeleteCount(s) \/ DeleteTarget(s))
         \/ req'[s].pc = "set" /\ OwnRead(s)
         \/ req'[s].pc = "temp" /\ \E i \in Pupil : TempRead(s, i)
         \/ \E t \in Link : ResetRead(s, t) /\ req'[s] = [pc |-> "password", link |-> t]
         \/ ResetPassword(s) /\ req'[s].pc = "spend" /\ req'[s].link = req[s].link
         \/ ResetSpend(s) /\ req'[s].pc = "unlock" /\ req'[s].link = req[s].link
<1>1. ASSUME NEW t \in Link, ResetRead(s, t)
      PROVE  req'[s] = [pc |-> "password", link |-> t]
  BY <1>1, Arrives DEF ResetRead
<1>2. \A next : req[s].pc \in {"password", "spend"} =>
        /\ [req[s] EXCEPT !.pc = next].pc = next
        /\ [req[s] EXCEPT !.pc = next].link = req[s].link
  <2>1. req[s].pc \in {"password", "spend"} =>
          req[s] \in [pc : {"password", "spend", "unlock"}, link : Link]
    BY DEF TypeOK, Work, Idle
  <2>2. QED
    BY <2>1
<1>3. ASSUME ResetPassword(s)
      PROVE  req'[s].pc = "spend" /\ req'[s].link = req[s].link
  BY <1>2, <1>3, Arrives DEF ResetPassword, At
<1>4. CASE ResetSpend(s)
  <2>1. CASE link[req[s].link].acct[1] = "admin"
    <3>1. Goto(s, Idle)
      BY <1>4, <2>1 DEF ResetSpend
    <3>2. QED
      BY <3>1, Arrives DEF Idle
  <2>2. CASE link[req[s].link].acct[1] # "admin"
    <3>1. req'[s] = [req[s] EXCEPT !.pc = "unlock"]
      BY <1>4, <2>2, Arrives DEF ResetSpend
    <3>2. QED
      BY <1>2, <1>4, <3>1 DEF ResetSpend, At
  <2>3. QED
    BY <2>1, <2>2
<1>5. ASSUME DeleteTarget(s) PROVE req'[s].pc \in {"remove", "idle"}
  <2>1. req[s] \in [pc : {"target", "remove"}, id : Id, me : Name, late : BOOLEAN]
    BY <1>5 DEF TypeOK, DeleteTarget, At, Work, Idle
  <2>2. [req[s] EXCEPT !.pc = "remove"].pc = "remove"
    BY <2>1
  <2>3. req'[s] = [req[s] EXCEPT !.pc = "remove"] \/ req'[s] = Idle
    <3>1. Goto(s, [req[s] EXCEPT !.pc = "remove"]) \/ Goto(s, Idle)
      BY <1>5 DEF DeleteTarget
    <3>2. \A work : Goto(s, work) => req'[s] = work
      BY Arrives
    <3>3. QED
      BY <3>1, <3>2, Zenon
  <2>4. Idle.pc = "idle"
    BY DEF Idle
  <2>5. CASE req'[s] = [req[s] EXCEPT !.pc = "remove"]
    <3>1. req'[s].pc = "remove"
      BY <2>2, <2>5, Zenon
    <3>2. QED
      BY <3>1
  <2>6. CASE req'[s] = Idle
    BY <2>4, <2>6
  <2>7. QED
    BY <2>3, <2>5, <2>6
<1>6. ASSUME DeleteRow(s) PROVE req'[s].pc = "idle"
  BY <1>6 DEF DeleteRow, Idle
<1>7. ASSUME NEW a \in Acct, LoginRead(s, a) PROVE req'[s].pc \in {"welcome", "fail"}
  <2>1. PICK next \in {"welcome", "fail"} : Goto(s, [pc |-> next, acct |-> a, key |-> row[a].name])
    BY <1>7 DEF LoginRead
  <2>2. QED
    BY <2>1, Arrives
<1>8. ASSUME \/ Welcome(s) \/ Fail(s) \/ CreateInsert(s) \/ ScriptWrite(s) \/ OwnWrite(s)
             \/ TempWrite(s) \/ ResetUnlock(s) \/ Abort(s)
      PROVE  req'[s].pc = "idle"
  <2>1. Goto(s, Idle)
    BY <1>8 DEF Welcome, Fail, CreateInsert, ScriptWrite, OwnWrite, TempWrite, ResetUnlock,
       Abort
  <2>2. QED
    BY <2>1, Arrives DEF Idle
<1>9. ASSUME \/ \E n \in Name : CreateRead(s, n) \/ ScriptRead(s, n)
             \/ Startup(s)
      PROVE  req'[s].pc \in {"insert", "script"}
  <2>1. PICK next \in {"insert", "script"}, n \in Name : Goto(s, [pc |-> next, name |-> n])
    BY <1>9, RootAssumption DEF CreateRead, ScriptRead, Startup
  <2>2. QED
    BY <2>1, Arrives
<1>10. ASSUME DeleteCount(s) PROVE req'[s].pc = "target"
  <2>1. PICK me \in cookie, i \in Id :
          Goto(s, [pc |-> "target", id |-> i, me |-> me, late |-> FALSE])
    BY <1>10 DEF DeleteCount
  <2>2. QED
    BY <2>1, Arrives
<1>11. ASSUME OwnRead(s) PROVE req'[s].pc = "set"
  <2>1. PICK a \in Own : Goto(s, [pc |-> "set", acct |-> a, who |-> row[a].who])
    BY <1>11 DEF OwnRead
  <2>2. QED
    BY <2>1, Arrives
<1>12. ASSUME NEW i \in Pupil, TempRead(s, i) PROVE req'[s].pc = "temp"
  BY <1>12, Arrives DEF TempRead
<1>13. QED
  BY <1>1, <1>3, <1>4, <1>5, <1>6, <1>7, <1>8, <1>9, <1>10, <1>11, <1>12 DEF Handler

LEMMA HoldStep ==
  ASSUME TypeOK, NEW s \in Request, Handler(s),
         req'[s].pc \in {"password", "spend", "unlock"}
  PROVE  \/ \E t \in Link : ResetRead(s, t) /\ req'[s] = [pc |-> "password", link |-> t]
         \/ ResetPassword(s) /\ req'[s].pc = "spend" /\ req'[s].link = req[s].link
         \/ ResetSpend(s) /\ req'[s].pc = "unlock" /\ req'[s].link = req[s].link
BY Destination

LEMMA Outsiders ==
  ASSUME Outside
  PROVE  req' = req
BY DEF Outside, Logout, StudentJoins, LockEnds, Forgot, StudentLeaves, Expire, ghosts

LEMMA NextHeld ==
  ASSUME TypeOK, Held, [Next]_vars
  PROVE  Held'
<1> SUFFICES ASSUME NEW r \in Request, req'[r].pc \in {"password", "spend", "unlock"}
             PROVE  link'[req'[r].link] # NoLink
  BY DEF Held
<1>1. CASE req'[r] = req[r]
  BY <1>1, HeldFacts, LinkStep
<1>2. CASE req'[r] # req[r]
  <2>1. PICK s \in Request : Handler(s)
    BY <1>2, Outsiders DEF Next, vars
  <2>2. r = s
    BY <1>2, <2>1, OthersStay
  <2>3. ASSUME NEW t \in Link, ResetRead(s, t), req'[s] = [pc |-> "password", link |-> t]
        PROVE  link'[req'[r].link] # NoLink
    BY <2>2, <2>3 DEF ResetRead
  <2>4. CASE req'[s].link = req[s].link /\ (ResetPassword(s) \/ ResetSpend(s))
    BY <2>2, <2>4, HeldFacts, LinkStep DEF ResetPassword, ResetSpend, At
  <2>5. QED
    BY <2>1, <2>2, <2>3, <2>4, HoldStep
<1>3. QED
  BY <1>1, <1>2

LEMMA NextType ==
  ASSUME TypeOK, Held, [Next]_vars
  PROVE  TypeOK'
<1>1. CASE UNCHANGED vars
  BY <1>1 DEF vars, TypeOK
<1>2. ASSUME NEW r \in Request, Handler(r) PROVE TypeOK'
  BY <1>2, LogType, CreateType, DeleteType, OwnType, ResetType, AbortType DEF Handler
<1>3. QED
  BY <1>1, <1>2, OutsideType DEF Next

\* The tables, what each worker remembers and the histories have their types, and
\* a worker that holds a link holds one that was made, in every reachable state.
THEOREM CredentialsTypeCorrect == Spec => [](TypeOK /\ Held)
<1>1. Init => TypeOK
  <2> SUFFICES ASSUME Init PROVE TypeOK
    OBVIOUS
  <2>1. [who |-> 1, name |-> Root, locked |-> FALSE] \in Row /\ NoRow \in Row
    BY RootAssumption DEF Row
  <2>2. row \in [Acct -> Row]
    BY <2>1 DEF Init
  <2>3. link \in [Link -> LinkRow]
    BY DEF Init, LinkRow
  <2>4. req \in [Request -> Work]
    BY DEF Init, Work
  <2>5. raced \in BOOLEAN
    BY Zenon DEF Init
  <2>6. QED
    BY <2>2, <2>3, <2>4, <2>5 DEF Init, TypeOK
<1>2. Init => Held
  BY DEF Init, Held, Idle
<1>3. TypeOK /\ Held /\ [Next]_vars => (TypeOK /\ Held)'
  BY NextType, NextHeld
<1>4. QED
  BY <1>1, <1>2, <1>3, PTL DEF Spec

-----------------------------------------------------------------------------
(* Who an id stands for. *)

Standing(b) == row'[b].who = row[b].who

LEMMA InsertStep ==
  ASSUME TypeOK, NEW name,
         \/ Insert("admin", Id, Admins, name)
         \/ Insert("student", Pupil, Pupils, name)
  PROVE  \E a \in Acct :
           row[a].who = 0 /\ row'[a].who = born + 1 /\ \A b \in Acct \ {a} : row'[b] = row[b]
<1>1. CASE Insert("admin", Id, Admins, name)
  <2>1. PICK i \in Id :
          /\ \A j \in Admins : j < i
          /\ row' = [row EXCEPT ![<<"admin", i>>] =
                       [who |-> born + 1, name |-> name, locked |-> FALSE]]
    BY <1>1 DEF Insert
  <2>2. <<"admin", i>> \in Acct
    BY Accounts
  <2>3. ~Exists(<<"admin", i>>)
    BY <2>1 DEF Admins, Id
  <2>4. row[<<"admin", i>>].who = 0
    BY <2>2, <2>3, RowFacts
  <2>5. QED
    BY <2>1, <2>2, <2>4 DEF TypeOK
<1>2. CASE Insert("student", Pupil, Pupils, name)
  <2>1. PICK i \in Pupil :
          /\ \A j \in Pupils : j < i
          /\ row' = [row EXCEPT ![<<"student", i>>] =
                       [who |-> born + 1, name |-> name, locked |-> FALSE]]
    BY <1>2 DEF Insert
  <2>2. <<"student", i>> \in Acct
    BY Accounts
  <2>3. ~Exists(<<"student", i>>)
    BY <2>1 DEF Pupils, Pupil
  <2>4. row[<<"student", i>>].who = 0
    BY <2>2, <2>3, RowFacts
  <2>5. QED
    BY <2>1, <2>2, <2>4 DEF TypeOK
<1>3. QED
  BY <1>1, <1>2

\* An account stays in its row until it is deleted; a new one gets an empty row.
LEMMA RowStep ==
  ASSUME TypeOK, Held, [Next]_vars
  PROVE  \/ (\A b \in Acct : Standing(b)) /\ gone' = gone
         \/ /\ \E a \in Acct : /\ row[a].who = 0 /\ row'[a].who = born + 1
                               /\ \A b \in Acct \ {a} : row'[b] = row[b]
            /\ gone' = gone
         \/ \E a \in Acct : /\ row'[a] = NoRow
                            /\ a[1] = "student" \/ \E r \in Request : DeleteRow(r)
                            /\ \A b \in Acct \ {a} : row'[b] = row[b]
                            /\ gone' = IF Exists(a) THEN gone \cup {row[a].who} ELSE gone
<1>1. CASE row' = row /\ gone' = gone
  BY <1>1 DEF Standing
<1>2. ASSUME NEW a \in Acct, SetAndUnlock(a) PROVE \A b \in Acct : Standing(b)
  BY <1>2, UnlockType DEF Standing
<1>3. ASSUME Outside, ~\E i \in Pupil : StudentLeaves(i), ~StudentJoins
      PROVE  (\A b \in Acct : Standing(b)) /\ gone' = gone
  <2>1. ASSUME NEW a \in Acct, LockEnds(a)
        PROVE  (\A b \in Acct : Standing(b)) /\ gone' = gone
    BY <2>1, LockType DEF LockEnds, Standing
  <2>2. ASSUME Logout \/ (\E a \in Acct : Forgot(a)) \/ (\E t \in Link : Expire(t))
        PROVE  row' = row /\ gone' = gone
    BY <2>2 DEF Logout, Forgot, Expire, ghosts
  <2>3. QED
    BY <1>3, <2>1, <2>2 DEF Outside, Standing
<1>4. ASSUME StudentJoins
      PROVE  /\ gone' = gone
             /\ \E a \in Acct : row[a].who = 0 /\ row'[a].who = born + 1
                                /\ \A b \in Acct \ {a} : row'[b] = row[b]
  BY <1>4, InsertStep DEF StudentJoins
<1>5. ASSUME NEW i \in Pupil, StudentLeaves(i)
      PROVE  \E a \in Acct : /\ row'[a] = NoRow
                             /\ a[1] = "student" \/ \E q \in Request : DeleteRow(q)
                             /\ \A b \in Acct \ {a} : row'[b] = row[b]
                             /\ gone' = IF Exists(a) THEN gone \cup {row[a].who} ELSE gone
  <2>1. <<"student", i>> \in Acct
    BY Accounts
  <2>2. QED
    BY <1>5, <2>1 DEF StudentLeaves, TypeOK
<1>6. ASSUME NEW r \in Request, DeleteRow(r)
      PROVE  \E a \in Acct : /\ row'[a] = NoRow
                             /\ a[1] = "student" \/ \E q \in Request : DeleteRow(q)
                             /\ \A b \in Acct \ {a} : row'[b] = row[b]
                             /\ gone' = IF Exists(a) THEN gone \cup {row[a].who} ELSE gone
  <2>1. <<"admin", req[r].id>> \in Acct
    BY <1>6, Known, Accounts DEF DeleteRow, At
  <2>2. QED
    BY <1>6, <2>1 DEF DeleteRow, TypeOK
<1>7. ASSUME NEW r \in Request, Welcome(r) \/ TempWrite(r) \/ ResetUnlock(r)
      PROVE  (\A b \in Acct : Standing(b)) /\ gone' = gone
  <2>1. PICK a \in Acct : SetAndUnlock(a)
    BY <1>7, Known, HeldFacts DEF Welcome, TempWrite, ResetUnlock, At
  <2>2. QED
    BY <1>2, <1>7, <2>1 DEF Welcome, TempWrite, ResetUnlock
<1>8. ASSUME NEW r \in Request, Fail(r)
      PROVE  (\A b \in Acct : Standing(b)) /\ gone' = gone
  <2>1. req[r].acct \in Acct
    BY <1>8, Known DEF Fail, At
  <2>2. CASE Exists(req[r].acct)
    BY <1>8, <2>1, <2>2, LockType DEF Fail, Standing
  <2>3. CASE ~Exists(req[r].acct)
    BY <1>8, <2>3 DEF Fail, Standing
  <2>4. QED
    BY <2>2, <2>3
<1>9. ASSUME NEW r \in Request, ScriptWrite(r)
      PROVE  (\A b \in Acct : Standing(b)) /\ gone' = gone
  <2>1. CASE UNCHANGED row
    BY <1>9, <2>1 DEF ScriptWrite, Standing
  <2>2. ASSUME NEW i \in Admins, SetAndUnlock(<<"admin", i>>)
        PROVE  \A b \in Acct : Standing(b)
    BY <1>2, <2>2, Accounts DEF Admins
  <2>3. QED
    BY <1>9, <2>1, <2>2 DEF ScriptWrite
<1>10. ASSUME NEW r \in Request, ResetPassword(r)
      PROVE  (\A b \in Acct : Standing(b)) /\ gone' = gone
  <2>1. link[req[r].link].acct \in Acct
    BY <1>10, HeldFacts DEF ResetPassword, At
  <2>2. CASE SetAndUnlock(link[req[r].link].acct)
    BY <1>2, <1>10, <2>1, <2>2 DEF ResetPassword
  <2>3. CASE row' = row
    BY <1>10, <2>3 DEF ResetPassword, Standing
  <2>4. QED
    BY <1>10, <2>2, <2>3 DEF ResetPassword
<1>11. ASSUME NEW r \in Request, CreateInsert(r)
       PROVE  /\ gone' = gone
              /\ \/ row' = row
                 \/ \E a \in Acct : row[a].who = 0 /\ row'[a].who = born + 1
                                    /\ \A b \in Acct \ {a} : row'[b] = row[b]
  <2>1. CASE Insert("admin", Id, Admins, req[r].name)
    BY <1>11, <2>1, InsertStep DEF CreateInsert
  <2>2. CASE row' = row
    BY <1>11, <2>2 DEF CreateInsert
  <2>3. QED
    BY <1>11, <2>1, <2>2 DEF CreateInsert
<1>12. ASSUME NEW r \in Request,
              \/ \E a \in Acct : LoginRead(r, a)
              \/ \E n \in Name : CreateRead(r, n) \/ ScriptRead(r, n)
              \/ Startup(r) \/ DeleteCount(r) \/ DeleteTarget(r) \/ OwnRead(r) \/ OwnWrite(r)
              \/ \E i \in Pupil : TempRead(r, i)
              \/ \E t \in Link : ResetRead(r, t)
              \/ ResetSpend(r) \/ Abort(r)
       PROVE  row' = row /\ gone' = gone
  BY <1>12 DEF LoginRead, CreateRead, ScriptRead, Startup, DeleteCount, DeleteTarget,
     OwnRead, OwnWrite, TempRead, ResetRead, ResetSpend, Abort, ghosts
<1>13. ASSUME NEW r \in Request, Handler(r), ~(row' = row /\ gone' = gone)
       PROVE  \/ Welcome(r) \/ TempWrite(r) \/ ResetUnlock(r) \/ Fail(r) \/ ScriptWrite(r)
              \/ ResetPassword(r) \/ CreateInsert(r) \/ DeleteRow(r)
  BY <1>12, <1>13 DEF Handler
<1>14. CASE Outside
  BY <1>3, <1>4, <1>5, <1>14
<1>15. ASSUME NEW r \in Request, Handler(r), ~(row' = row /\ gone' = gone)
       PROVE  \/ (\A b \in Acct : Standing(b)) /\ gone' = gone
              \/ /\ \E a \in Acct : /\ row[a].who = 0 /\ row'[a].who = born + 1
                                    /\ \A b \in Acct \ {a} : row'[b] = row[b]
                 /\ gone' = gone
              \/ DeleteRow(r)
  BY <1>7, <1>8, <1>9, <1>10, <1>11, <1>13, <1>15
<1>16. QED
  BY <1>1, <1>6, <1>14, <1>15 DEF Next, vars

\* Somebody who had an id either still has it or is gone.
LEMMA StaysOrGone ==
  ASSUME TypeOK, Held, [Next]_vars, NEW a \in Acct, NEW who \in Nat \ {0},
         who \in gone \/ row[a].who = who
  PROVE  who \in gone' \/ row'[a].who = who
<1>1. CASE (\A b \in Acct : Standing(b)) /\ gone' = gone
  BY <1>1 DEF Standing
<1>2. ASSUME NEW b \in Acct, row[b].who = 0, \A c \in Acct \ {b} : row'[c] = row[c],
             gone' = gone
      PROVE  who \in gone' \/ row'[a].who = who
  BY <1>2
<1>3. ASSUME NEW b \in Acct, \A c \in Acct \ {b} : row'[c] = row[c],
             gone' = IF Exists(b) THEN gone \cup {row[b].who} ELSE gone
      PROVE  who \in gone' \/ row'[a].who = who
  <2>1. Exists(b) <=> row[b].who # 0
    BY RowFacts
  <2>2. QED
    BY <1>3, <2>1
<1>4. QED
  BY <1>1, <1>2, <1>3, RowStep

\* A request that changes a password knows whose it means to change, and so does
\* a link: the account is in the row it had, or gone.
Meant ==
  /\ \A r \in Request : req[r].pc \in {"set", "temp"} =>
       req[r].who # 0 /\ (req[r].who \in gone \/ row[req[r].acct].who = req[r].who)
  /\ \A t \in Link : link[t] # NoLink =>
       link[t].owner \in gone \/ row[link[t].acct].who = link[t].owner

\* How a request comes to mean somebody.
LEMMA MeanStep ==
  ASSUME TypeOK, Held, NEW s \in Request, Handler(s), req'[s].pc \in {"set", "temp"}
  PROVE  /\ gone' = gone /\ row' = row
         /\ req'[s].acct \in Acct /\ req'[s].who # 0 /\ req'[s].who = row[req'[s].acct].who
<1>1. OwnRead(s) \/ \E i \in Pupil : TempRead(s, i)
  <2>1. ASSUME NEW t \in Link, req'[s] = [pc |-> "password", link |-> t] PROVE FALSE
    BY <2>1
  <2>2. QED
    BY <2>1, Destination
<1>2. CASE OwnRead(s)
  <2>1. PICK a \in Own : Goto(s, [pc |-> "set", acct |-> a, who |-> row[a].who])
    BY <1>2 DEF OwnRead
  <2>2. a \in Acct /\ Exists(a)
    BY Accounts DEF Own, Admins, Pupils
  <2>3. row[a].who # 0
    BY <2>2, RowFacts
  <2>4. req'[s] = [pc |-> "set", acct |-> a, who |-> row[a].who]
    BY <2>1, Arrives
  <2>5. QED
    BY <1>2, <2>2, <2>3, <2>4 DEF OwnRead, ghosts
<1>3. ASSUME NEW i \in Pupil, TempRead(s, i)
      PROVE  /\ gone' = gone /\ row' = row
             /\ req'[s].acct \in Acct /\ req'[s].who # 0
             /\ req'[s].who = row[req'[s].acct].who
  <2> DEFINE a == <<"student", i>>
  <2>1. a \in Acct /\ Exists(a)
    BY <1>3, Accounts DEF TempRead
  <2>2. row[a].who # 0
    BY <2>1, RowFacts
  <2>3. req'[s] = [pc |-> "temp", acct |-> a, who |-> row[a].who]
    BY <1>3, Arrives DEF TempRead
  <2>4. QED
    BY <1>3, <2>1, <2>2, <2>3 DEF TempRead, ghosts
<1>4. QED
  BY <1>1, <1>2, <1>3

LEMMA OnlyForgotMakes ==
  ASSUME TypeOK, Held, [Next]_vars, NEW t \in Link, link[t] = NoLink, link'[t] # NoLink
  PROVE  \E a \in Acct : Forgot(a)
<1>1. ASSUME NEW u \in Link, link[u] # NoLink, NEW mark,
             link' = [link EXCEPT ![u].state = mark]
      PROVE  FALSE
  BY <1>1 DEF TypeOK
<1>2. ~\E u \in Link : Expire(u)
  BY <1>1 DEF Expire
<1>3. ~\E r \in Request : ResetSpend(r)
  BY <1>1, HeldFacts DEF ResetSpend, At
<1>4. ~UNCHANGED link
  OBVIOUS
<1>5. ASSUME NEW r \in Request, Handler(r) PROVE ResetSpend(r) \/ UNCHANGED link
  BY <1>5 DEF Handler, LoginRead, Welcome, Fail, CreateRead, ScriptRead,
     CreateInsert, ScriptWrite, Startup, DeleteCount, DeleteTarget, DeleteRow, OwnRead,
     OwnWrite, TempRead, TempWrite, ResetRead, ResetPassword, ResetUnlock, Abort
<1>6. Outside
  BY <1>3, <1>4, <1>5 DEF Next, vars
<1>7. QED
  BY <1>2, <1>4, <1>6 DEF Outside, Logout, StudentJoins, LockEnds, StudentLeaves

\* What a statement does in the name of another account.
LEMMA Blamed ==
  ASSUME TypeOK, NEW a \in Acct, NEW meant \in Nat \ {0}, Blame(a, meant),
         meant \in gone \/ row[a].who = meant, AstrayNeedsDeletion
  PROVE  astray' \subseteq gone
BY DEF Blame, AstrayNeedsDeletion

LEMMA NextMeant ==
  ASSUME TypeOK, TypeOK', Held, Meant, [Next]_vars
  PROVE  Meant'
<1>1. ASSUME NEW r \in Request, req'[r].pc \in {"set", "temp"}
      PROVE  /\ req'[r].who # 0
             /\ req'[r].who \in gone' \/ row'[req'[r].acct].who = req'[r].who
  <2>1. CASE req'[r] = req[r]
    <3>1. req[r].acct \in Acct /\ req[r].who \in Nat \ {0}
      BY <1>1, <2>1, Known DEF Meant
    <3>2. req[r].who \in gone \/ row[req[r].acct].who = req[r].who
      BY <1>1, <2>1 DEF Meant
    <3>3. QED
      BY <2>1, <3>1, <3>2, StaysOrGone
  <2>2. CASE req'[r] # req[r]
    <3>1. PICK s \in Request : Handler(s)
      BY <2>2, Outsiders DEF Next, vars
    <3>2. r = s
      <4>1. r # s => req[r].pc \in {"target", "remove"}
        BY <2>2, <3>1, OthersStay
      <4>2. QED
        BY <1>1, <3>1, <4>1, OthersStay
    <3>3. QED
      BY <1>1, <3>1, <3>2, MeanStep
  <2>3. QED
    BY <2>1, <2>2
<1>2. ASSUME NEW t \in Link, link'[t] # NoLink
      PROVE  link'[t].owner \in gone' \/ row'[link'[t].acct].who = link'[t].owner
  <2>1. CASE link[t] # NoLink
    <3>1. link[t].owner \in gone \/ row[link[t].acct].who = link[t].owner
      BY <2>1 DEF Meant
    <3>2. link[t].owner \in gone' \/ row'[link[t].acct].who = link[t].owner
      BY <2>1, <3>1, LinkFacts, StaysOrGone
    <3>3. QED
      BY <2>1, <3>2, LinkStep
  <2>2. CASE link[t] = NoLink
    <3>1. PICK a \in Acct : Forgot(a)
      BY <1>2, <2>2, OnlyForgotMakes
    <3>2. link'[t].owner = row[a].who /\ link'[t].acct = a /\ row' = row
      BY <1>2, <2>2, <3>1 DEF Forgot, TypeOK
    <3>3. QED
      BY <3>2
  <2>3. QED
    BY <2>1, <2>2
<1>3. QED
  BY <1>1, <1>2 DEF Meant

LEMMA InitMeant == Init => Meant
BY DEF Init, Meant, Idle

\* A deed in the name of another account: what a step adds to astray.
LEMMA NextAstray ==
  ASSUME TypeOK, Held, Meant, AstrayNeedsDeletion, [Next]_vars
  PROVE  AstrayNeedsDeletion'
<1>1. gone \subseteq gone'
  BY RowStep
<1>2. CASE UNCHANGED astray
  BY <1>1, <1>2 DEF AstrayNeedsDeletion
<1>3. ASSUME NEW r \in Request, OwnWrite(r) \/ TempWrite(r) PROVE astray' \subseteq gone
  <2>1. /\ req[r].acct \in Acct /\ req[r].who \in Nat \ {0}
        /\ req[r].who \in gone \/ row[req[r].acct].who = req[r].who
    BY <1>3, Known DEF OwnWrite, TempWrite, At, Meant
  <2>2. QED
    BY <1>3, <2>1, Blamed DEF OwnWrite, TempWrite
<1>4. ASSUME NEW r \in Request, ResetPassword(r) PROVE astray' \subseteq gone
  <2> DEFINE t == req[r].link
  <2>1. /\ link[t].acct \in Acct /\ link[t].owner \in Nat \ {0}
        /\ link[t].owner \in gone \/ row[link[t].acct].who = link[t].owner
    BY <1>4, HeldFacts DEF ResetPassword, At, Meant
  <2>2. QED
    BY <1>4, <2>1, Blamed DEF ResetPassword
<1>5. ASSUME NEW r \in Request, Handler(r)
      PROVE  UNCHANGED astray \/ OwnWrite(r) \/ TempWrite(r) \/ ResetPassword(r)
  BY <1>5 DEF Handler, LoginRead, Welcome, Fail, CreateRead, ScriptRead,
     CreateInsert, ScriptWrite, Startup, DeleteCount, DeleteTarget, DeleteRow, OwnRead,
     TempRead, ResetRead, ResetSpend, ResetUnlock, Abort, ghosts
<1>6. ASSUME Outside PROVE UNCHANGED astray
  BY <1>6 DEF Outside, Logout, StudentJoins, LockEnds, Forgot, StudentLeaves, Expire, ghosts
<1>7. CASE astray' \subseteq gone
  BY <1>1, <1>7 DEF AstrayNeedsDeletion
<1>8. QED
  BY <1>2, <1>3, <1>4, <1>5, <1>6, <1>7 DEF Next, vars

\* In every reachable state, what a worker or a link means is still so or gone.
LEMMA MeantInvariant == Spec => []Meant
<1>1. TypeOK /\ Held /\ TypeOK' /\ Meant /\ [Next]_vars => Meant'
  BY NextMeant
<1>2. QED
  BY <1>1, InitMeant, CredentialsTypeCorrect, PTL DEF Spec

\* A password is changed in the name of another account only when that account
\* was deleted and its id given out again.
THEOREM AstrayExplained == Spec => []AstrayNeedsDeletion
<1>1. Init => AstrayNeedsDeletion
  BY DEF Init, AstrayNeedsDeletion
<1>2. TypeOK /\ Held /\ Meant /\ AstrayNeedsDeletion /\ [Next]_vars => AstrayNeedsDeletion'
  BY NextAstray
<1>3. QED
  BY <1>1, <1>2, CredentialsTypeCorrect, MeantInvariant, PTL DEF Spec

-----------------------------------------------------------------------------
(* The last administrator. *)

Two == \E i, j \in Admins : i # j

\* Unless a deletion was based on a count that was overtaken, there is an
\* administrator, and two where a deletion is under way that was not overtaken.
Enough ==
  ~raced => /\ Admins # {}
            /\ \A r \in Request :
                 req[r].pc \in {"target", "remove"} /\ ~req[r].late => Two

LEMMA MoreThanOne ==
  ASSUME Cardinality(Admins) > 1
  PROVE  Two
<1>1. Admins \subseteq Id /\ IsFiniteSet(Id)
  BY FS_Interval, BoundAssumption DEF Admins, Id
<1>2. IsFiniteSet(Admins)
  BY <1>1, FS_Subset
<1>3. Admins # {}
  BY FS_EmptySet
<1>4. PICK i \in Admins : TRUE
  BY <1>3
<1>5. Cardinality(Admins \ {i}) = Cardinality(Admins) - 1
  BY <1>2, FS_RemoveElement
<1>6. Cardinality(Admins) \in Nat
  BY <1>2, FS_CardinalityType
<1>7. Admins \ {i} # {}
  BY <1>5, <1>6, FS_EmptySet
<1>8. QED
  BY <1>7 DEF Two

\* Only delete_admin takes an administrator away, and then only one.
LEMMA AdminsStay ==
  ASSUME TypeOK, Held, [Next]_vars, ~\E r \in Request : DeleteRow(r)
  PROVE  Admins \subseteq Admins'
<1> SUFFICES ASSUME NEW i \in Admins PROVE i \in Admins'
  OBVIOUS
<1> DEFINE a == <<"admin", i>>
<1>1. a \in Acct /\ row[a].who # 0
  BY Accounts, RowFacts DEF Admins
<1>2. row'[a].who # 0 => i \in Admins'
  BY DEF Admins, Exists, NoRow
<1>3. CASE row'[a].who = row[a].who
  BY <1>1, <1>2, <1>3
<1>4. CASE row'[a].who # row[a].who
  <2>1. ~\A b \in Acct : Standing(b)
    BY <1>1, <1>4 DEF Standing
  <2>2. PICK c \in Acct : c[1] = "student" /\ \A b \in Acct \ {c} : row'[b] = row[b]
    BY <1>1, <1>4, <2>1, RowStep
  <2>3. a # c
    BY <2>2
  <2>4. QED
    BY <1>1, <1>4, <2>2, <2>3
<1>5. QED
  BY <1>3, <1>4

LEMMA DeletionEnough ==
  ASSUME TypeOK, Enough, NEW s \in Request, DeleteRow(s)
  PROVE  Enough'
<1> SUFFICES ASSUME ~raced' PROVE Enough'
  BY DEF Enough
<1>1. req[s].id \in Id /\ req[s].late \in BOOLEAN /\ req[s].pc = "remove"
  BY Known DEF DeleteRow, At
<1>2. ~raced /\ ~req[s].late
  BY DEF DeleteRow
<1>3. PICK i, j \in Admins : i # j
  BY <1>1, <1>2 DEF Enough, Two
<1>4. \A k \in Admins : k # req[s].id => k \in Admins'
  <2> SUFFICES ASSUME NEW k \in Admins, k # req[s].id PROVE k \in Admins'
    OBVIOUS
  <2>1. <<"admin", k>> \in Acct /\ <<"admin", k>> # <<"admin", req[s].id>>
    BY Accounts DEF Admins
  <2>2. row'[<<"admin", k>>] = row[<<"admin", k>>]
    BY <2>1 DEF DeleteRow, TypeOK
  <2>3. QED
    BY <2>2 DEF Admins, Exists
<1>5. Admins' # {}
  BY <1>3, <1>4
<1>6. ASSUME NEW r \in Request, req'[r].pc \in {"target", "remove"} PROVE req'[r].late
  <2>1. r # s
    BY <1>6 DEF DeleteRow, Idle
  <2>2. CASE req[r].pc \in {"target", "remove"}
    <3>1. req[r] \in [pc : {"target", "remove"}, id : Id, me : Name, late : BOOLEAN]
      BY <2>2 DEF TypeOK, Work, Idle
    <3>2. [req[r] EXCEPT !.late = TRUE].late = TRUE
      BY <3>1
    <3>3. req'[r] = [req[r] EXCEPT !.late = TRUE]
      BY <2>1, <2>2 DEF DeleteRow
    <3>4. QED
      BY <3>2, <3>3, Zenon
  <2>3. CASE req[r].pc \notin {"target", "remove"}
    BY <1>6, <2>1, <2>3 DEF DeleteRow
  <2>4. QED
    BY <2>2, <2>3
<1>7. QED
  BY <1>5, <1>6 DEF Enough

LEMMA CountedEnough ==
  ASSUME TypeOK, Held, Enough, [Next]_vars, ~\E r \in Request : DeleteRow(r),
         NEW r \in Request, ~raced, req'[r].pc \in {"target", "remove"}, ~req'[r].late
  PROVE  Two
<1>1. CASE req'[r] = req[r]
  BY <1>1 DEF Enough
<1>2. CASE req'[r] # req[r]
  <2>1. PICK s \in Request : Handler(s)
    BY <1>2, Outsiders DEF Next, vars
  <2>2. r = s
    BY <1>2, <2>1, OthersStay
  <2>3. DeleteCount(r) \/ DeleteTarget(r)
    <3>1. ASSUME NEW t \in Link, req'[r] = [pc |-> "password", link |-> t] PROVE FALSE
      BY <3>1
    <3>2. QED
      BY <2>1, <2>2, <3>1, Destination
  <2>4. CASE DeleteCount(r)
    BY <2>4, MoreThanOne DEF DeleteCount
  <2>5. CASE DeleteTarget(r)
    <3>1. req[r] \in [pc : {"target", "remove"}, id : Id, me : Name, late : BOOLEAN]
      BY <2>5 DEF TypeOK, DeleteTarget, At, Work, Idle
    <3>2. [req[r] EXCEPT !.pc = "remove"].late = req[r].late
      BY <3>1
    <3>3. Goto(r, [req[r] EXCEPT !.pc = "remove"]) \/ Goto(r, Idle)
      BY <2>5 DEF DeleteTarget
    <3>4. \A work : Goto(r, work) => req'[r] = work
      BY Arrives
    <3>5. req'[r] # Idle
      BY DEF Idle
    <3>6. req'[r] = [req[r] EXCEPT !.pc = "remove"]
      BY <3>3, <3>4, <3>5, Zenon
    <3>7. req'[r].late = req[r].late
      BY <3>2, <3>6, Zenon
    <3>8. QED
      BY <2>5, <3>7 DEF DeleteTarget, At, Enough
  <2>6. QED
    BY <2>3, <2>4, <2>5
<1>3. QED
  BY <1>1, <1>2

LEMMA NextEnough ==
  ASSUME TypeOK, Held, Enough, [Next]_vars
  PROVE  Enough'
<1>1. CASE \E r \in Request : DeleteRow(r)
  BY <1>1, DeletionEnough
<1>2. CASE ~\E r \in Request : DeleteRow(r)
  <2>1. raced' = raced
    <3>1. ASSUME NEW r \in Request, Handler(r) PROVE raced' = raced
      BY <1>2, <3>1 DEF Handler, LoginRead, Welcome, Fail, CreateRead, ScriptRead,
         CreateInsert, ScriptWrite, Startup, DeleteCount, DeleteTarget, OwnRead, OwnWrite,
         TempRead, TempWrite, ResetRead, ResetPassword, ResetSpend, ResetUnlock, Abort,
         ghosts
    <3>2. ASSUME Outside PROVE raced' = raced
      BY <3>2 DEF Outside, Logout, StudentJoins, LockEnds, Forgot, StudentLeaves, Expire,
         ghosts
    <3>3. QED
      BY <3>1, <3>2 DEF Next, vars
  <2>2. Admins \subseteq Admins'
    BY <1>2, AdminsStay
  <2>3. Two => Two'
    BY <2>2 DEF Two
  <2>4. ASSUME ~raced PROVE Admins' # {}
    BY <2>2, <2>4 DEF Enough
  <2>5. ASSUME NEW r \in Request, ~raced, req'[r].pc \in {"target", "remove"}, ~req'[r].late
        PROVE  Two'
    BY <1>2, <2>3, <2>5, CountedEnough
  <2>6. QED
    BY <2>1, <2>4, <2>5 DEF Enough
<1>3. QED
  BY <1>1, <1>2

\* "Cannot delete the last remaining admin account": there is always one, unless
\* two deletions counted the same accounts.
THEOREM LastAdminStays == Spec => []LastAdminKept
<1>1. Init => Enough
  <2> SUFFICES ASSUME Init PROVE Enough
    OBVIOUS
  <2>1. 1 \in Id /\ <<"admin", 1>> \in Acct
    BY BoundAssumption, Accounts DEF Id
  <2>2. row[<<"admin", 1>>] # NoRow
    BY <2>1 DEF Init, NoRow
  <2>3. Admins # {}
    BY <2>1, <2>2 DEF Admins, Exists
  <2>4. QED
    BY <2>3 DEF Init, Enough, Idle
<1>2. TypeOK /\ Held /\ Enough /\ [Next]_vars => Enough'
  BY NextEnough
<1>3. Enough => LastAdminKept
  BY DEF Enough, LastAdminKept
<1>4. QED
  BY <1>1, <1>2, <1>3, CredentialsTypeCorrect, PTL DEF Spec

-----------------------------------------------------------------------------
(* Reset links. *)

\* What a worker that holds a link can do.
LEMMA HolderActs ==
  ASSUME TypeOK, NEW s \in Request, Handler(s), req[s].pc \in {"password", "spend", "unlock"}
  PROVE  \/ ResetPassword(s) /\ req[s].pc = "password"
         \/ ResetSpend(s) /\ req[s].pc = "spend"
         \/ ResetUnlock(s) /\ req[s].pc = "unlock"
         \/ Abort(s)
BY DEF Handler, LoginRead, Welcome, Fail, CreateRead, ScriptRead, CreateInsert, ScriptWrite,
   Startup, DeleteCount, DeleteTarget, DeleteRow, OwnRead, OwnWrite, TempRead, TempWrite,
   ResetRead, ResetPassword, ResetSpend, ResetUnlock, Abort, At

\* Only a reset counts as a use of its link.
LEMMA HandlerUses ==
  ASSUME TypeOK, Held, NEW s \in Request, Handler(s), NEW t \in Link
  PROVE  \/ uses'[t] = uses[t]
         \/ ResetPassword(s) /\ req[s].link = t /\ uses'[t] = uses[t] + 1
<1>1. ASSUME ResetPassword(s)
      PROVE  uses'[t] = uses[t] \/ (req[s].link = t /\ uses'[t] = uses[t] + 1)
  <2>1. req[s].link \in Link /\ uses \in [Link -> Nat]
    BY <1>1, HeldFacts DEF ResetPassword, At, TypeOK
  <2>2. uses' = uses \/ uses' = [uses EXCEPT ![req[s].link] = @ + 1]
    BY <1>1, Zenon DEF ResetPassword
  <2>3. QED
    BY <2>1, <2>2
<1>2. ResetPassword(s) \/ UNCHANGED uses
  BY DEF Handler, LoginRead, Welcome, Fail, CreateRead, ScriptRead, CreateInsert,
     ScriptWrite, Startup, DeleteCount, DeleteTarget, DeleteRow, OwnRead, OwnWrite,
     TempRead, TempWrite, ResetRead, ResetSpend, ResetUnlock, Abort, ghosts
<1>3. QED
  BY <1>1, <1>2

LEMMA UsesGrow ==
  ASSUME TypeOK, Held, [Next]_vars, NEW t \in Link
  PROVE  uses'[t] >= uses[t]
<1>1. uses[t] \in Nat
  BY DEF TypeOK
<1>2. Outside => UNCHANGED uses
  BY DEF Outside, Logout, StudentJoins, LockEnds, Forgot, StudentLeaves, Expire, ghosts
<1>3. QED
  BY <1>1, <1>2, HandlerUses DEF Next, vars

Used(t) == link[t] # NoLink /\ link[t].state = "used"

\* A link is marked by the worker that spends it, and stays marked.
LEMMA UsedStep ==
  ASSUME TypeOK, Held, [Next]_vars, NEW t \in Link
  PROVE  /\ Used(t) => Used(t)'
         /\ Used(t)' => Used(t) \/ \E s \in Request : ResetSpend(s) /\ req[s].link = t
         /\ \A s \in Request : ResetSpend(s) /\ req[s].link = t => Used(t)'
<1>1. ASSUME NEW u \in Link, link[u] # NoLink, NEW mark,
             link' = [link EXCEPT ![u].state = mark]
      PROVE  link'[t] = link[t] \/ (t = u /\ link'[t].state = mark)
  <2>1. link[u] \in LinkRow \ {NoLink}
    BY <1>1 DEF TypeOK
  <2>2. [link[u] EXCEPT !.state = mark].state = mark
    BY <2>1 DEF LinkRow
  <2>3. link'[t] = IF t = u THEN [link[u] EXCEPT !.state = mark] ELSE link[t]
    BY <1>1 DEF TypeOK
  <2>4. CASE t = u
    <3>1. link'[t] = [link[u] EXCEPT !.state = mark]
      BY <2>3, <2>4
    <3>2. link'[t].state = mark
      BY <2>2, <3>1, Zenon
    <3>3. QED
      BY <2>4, <3>2
  <2>5. CASE t # u
    BY <2>3, <2>5
  <2>6. QED
    BY <2>4, <2>5
<1>2. ASSUME NEW s \in Request, ResetSpend(s)
      PROVE  /\ link'[t] = link[t] \/ (req[s].link = t /\ link'[t].state = "used")
             /\ req[s].link = t => Used(t)'
  <2>1. req[s].link \in Link /\ link[req[s].link] # NoLink
    BY <1>2, HeldFacts DEF ResetSpend, At
  <2>2. link'[t] = link[t] \/ (req[s].link = t /\ link'[t].state = "used")
    BY <1>1, <1>2, <2>1 DEF ResetSpend
  <2>3. ASSUME req[s].link = t PROVE Used(t)'
    <3>1. link[t] \in LinkRow \ {NoLink}
      BY <2>1, <2>3 DEF TypeOK
    <3>2. [link[t] EXCEPT !.state = "used"].state = "used"
      BY <3>1 DEF LinkRow
    <3>3. link'[t] = [link[t] EXCEPT !.state = "used"]
      BY <1>2, <2>3 DEF ResetSpend, TypeOK
    <3>4. link'[t].state = "used"
      BY <3>2, <3>3, Zenon
    <3>5. QED
      BY <2>1, <2>3, <3>4, LinkStep DEF Used
  <2>4. QED
    BY <2>2, <2>3
<1>3. ASSUME NEW u \in Link, Expire(u)
      PROVE  link'[t] = link[t] \/ (link[t].state = "good" /\ link'[t].state = "expired")
  BY <1>1, <1>3 DEF Expire
<1>4. ASSUME NEW a \in Acct, Forgot(a)
      PROVE  link'[t] = link[t] \/ (link[t] = NoLink /\ link'[t].state = "good")
  BY <1>4 DEF Forgot, TypeOK
<1>5. ASSUME NEW s \in Request, Handler(s) PROVE ResetSpend(s) \/ UNCHANGED link
  BY <1>5 DEF Handler, LoginRead, Welcome, Fail, CreateRead, ScriptRead,
     CreateInsert, ScriptWrite, Startup, DeleteCount, DeleteTarget, DeleteRow, OwnRead,
     OwnWrite, TempRead, TempWrite, ResetRead, ResetPassword, ResetUnlock, Abort
<1>6. ASSUME Outside
      PROVE  UNCHANGED link \/ (\E u \in Link : Expire(u)) \/ (\E a \in Acct : Forgot(a))
  BY <1>6 DEF Outside, Logout, StudentJoins, LockEnds, StudentLeaves
<1>7. CASE UNCHANGED link
  BY <1>2, <1>7 DEF Used
<1>8. CASE \E s \in Request : ResetSpend(s)
  BY <1>2, <1>8, LinkStep DEF Used
<1>9. CASE (\E u \in Link : Expire(u)) \/ (\E a \in Acct : Forgot(a))
  BY <1>2, <1>3, <1>4, <1>9, LinkStep DEF Used
<1>10. QED
  BY <1>5, <1>6, <1>7, <1>8, <1>9 DEF Next, vars

\* A link two workers never held at once, and none of whose workers died at it,
\* has at most one holder; until that one changes the password it was not used.
SingleAt(t) ==
  /\ \A r, s \in Request : Holds(r, t) /\ Holds(s, t) => r = s
  /\ \A r \in Request : At(r, "password") /\ req[r].link = t => uses[t] = 0
  /\ uses[t] <= 1
  /\ uses[t] > 0 => Used(t) \/ \E r \in Request : At(r, "spend") /\ req[r].link = t

Single == \A t \in Link \ (shared \cup torn) : SingleAt(t)

\* Who holds a link after a step held it before, or has just looked it up.
LEMMA HoldsStep ==
  ASSUME TypeOK, NEW s \in Request, Handler(s), NEW r \in Request, NEW t \in Link, Holds(r, t)'
  PROVE  \/ r # s /\ req'[r] = req[r] /\ Holds(r, t)
         \/ r = s /\ ResetRead(s, t)
         \/ r = s /\ ResetPassword(s) /\ Holds(s, t) /\ At(s, "spend")'
<1>1. req'[r].pc \in {"password", "spend"} /\ req'[r].link = t
  BY DEF Holds
<1>2. CASE r # s
  <2>1. req[r].pc \notin {"target", "remove"}
    BY <1>1, <1>2, OthersStay
  <2>2. QED
    BY <1>2, <2>1, OthersStay DEF Holds
<1>3. CASE r = s
  <2>1. ASSUME NEW u \in Link, ResetRead(s, u), req'[s] = [pc |-> "password", link |-> u]
        PROVE  ResetRead(s, t)
    BY <1>1, <1>3, <2>1
  <2>2. ASSUME ResetPassword(s), req'[s].pc = "spend", req'[s].link = req[s].link
        PROVE  Holds(s, t) /\ At(s, "spend")'
    BY <1>1, <1>3, <2>2 DEF ResetPassword, Holds, At
  <2>3. QED
    BY <1>1, <1>3, <2>1, <2>2, HoldStep
<1>4. QED
  BY <1>2, <1>3

\* The histories of the links only grow.
LEMMA MarksStay ==
  ASSUME [Next]_vars
  PROVE  shared \subseteq shared' /\ torn \subseteq torn'
<1>1. ASSUME NEW s \in Request, Handler(s)
      PROVE  shared \subseteq shared' /\ torn \subseteq torn'
  BY <1>1 DEF Handler, LoginRead, Welcome, Fail, CreateRead, ScriptRead, CreateInsert,
     ScriptWrite, Startup, DeleteCount, DeleteTarget, DeleteRow, OwnRead, OwnWrite,
     TempRead, TempWrite, ResetRead, ResetPassword, ResetSpend, ResetUnlock, Abort, ghosts
<1>2. ASSUME Outside PROVE shared \subseteq shared' /\ torn \subseteq torn'
  BY <1>2 DEF Outside, Logout, StudentJoins, LockEnds, Forgot, StudentLeaves, Expire, ghosts
<1>3. QED
  BY <1>1, <1>2 DEF Next, vars

LEMMA Spends ==
  ASSUME TypeOK, NEW s \in Request, ResetPassword(s)
  PROVE  At(s, "spend")' /\ req'[s].link = req[s].link
<1>1. req[s] \in [pc : {"password", "spend", "unlock"}, link : Link]
  BY DEF TypeOK, ResetPassword, At, Work, Idle
<1>2. /\ [req[s] EXCEPT !.pc = "spend"].pc = "spend"
      /\ [req[s] EXCEPT !.pc = "spend"].link = req[s].link
  BY <1>1
<1>3. req'[s] = [req[s] EXCEPT !.pc = "spend"]
  BY Arrives DEF ResetPassword
<1>4. QED
  BY <1>2, <1>3, Zenon DEF At

LEMMA HandlerSingle ==
  ASSUME TypeOK, Held, NEW s \in Request, Handler(s),
         NEW t \in Link \ (shared' \cup torn'), SingleAt(t)
  PROVE  SingleAt(t)'
<1>0. [Next]_vars /\ uses[t] \in Nat
  BY DEF Next, TypeOK
<1>1. CASE ResetRead(s, t)
  <2>1. \A r \in Request : ~Holds(r, t)
    BY <1>1 DEF ResetRead
  <2>2. uses'[t] = uses[t] /\ link[t].state = "good"
    BY <1>1 DEF ResetRead
  <2>3. uses[t] = 0
    BY <1>0, <2>1, <2>2 DEF SingleAt, Used, Holds, At
  <2>4. \A r \in Request : Holds(r, t)' => r = s
    BY <2>1, HoldsStep
  <2>5. QED
    BY <2>2, <2>3, <2>4 DEF SingleAt
<1>2. CASE ~ResetRead(s, t)
  <2>1. \A r \in Request : Holds(r, t)' => Holds(r, t)
    BY <1>2, HoldsStep
  <2>2. \A r \in Request : At(r, "password")' /\ req'[r].link = t =>
            r # s /\ At(r, "password") /\ req[r].link = t
    <3> SUFFICES ASSUME NEW r \in Request, At(r, "password")', req'[r].link = t
                 PROVE  r # s /\ At(r, "password") /\ req[r].link = t
      OBVIOUS
    <3>1. Holds(r, t)' /\ ~At(r, "spend")'
      BY DEF Holds, At
    <3>2. r # s /\ req'[r] = req[r]
      BY <1>2, <3>1, HoldsStep
    <3>3. QED
      BY <3>2 DEF At
  <2>3. CASE ResetPassword(s) /\ req[s].link = t
    <3>1. uses[t] = 0
      BY <2>3 DEF SingleAt, ResetPassword
    <3>2. uses'[t] <= 1
      BY <1>0, <3>1, HandlerUses
    <3>3. Holds(s, t)
      BY <2>3 DEF ResetPassword, Holds, At
    <3>4. ~\E r \in Request : At(r, "password")' /\ req'[r].link = t
      BY <2>2, <3>3 DEF SingleAt, Holds, At
    <3>5. At(s, "spend")' /\ req'[s].link = t
      BY <2>3, Spends
    <3>6. QED
      BY <2>1, <3>2, <3>4, <3>5 DEF SingleAt
  <2>4. CASE ~(ResetPassword(s) /\ req[s].link = t)
    <3>1. uses'[t] = uses[t]
      BY <1>0, <2>4, HandlerUses
    <3>2. ASSUME uses[t] > 0
          PROVE  Used(t)' \/ \E r \in Request : At(r, "spend")' /\ req'[r].link = t
      <4>1. CASE Used(t)
        BY <1>0, <4>1, UsedStep
      <4>2. ASSUME NEW r \in Request, At(r, "spend"), req[r].link = t
            PROVE  Used(t)' \/ \E q \in Request : At(q, "spend")' /\ req'[q].link = t
        <5>1. CASE r # s
          BY <4>2, <5>1, OthersStay DEF At
        <5>2. CASE r = s
          <6>1. ResetSpend(s) \/ Abort(s)
            BY <4>2, <5>2, HolderActs DEF At
          <6>2. ~Abort(s)
            BY <4>2, <5>2 DEF Abort, At
          <6>3. QED
            BY <1>0, <4>2, <5>2, <6>1, <6>2, UsedStep
        <5>3. QED
          BY <5>1, <5>2
      <4>3. QED
        BY <3>2, <4>1, <4>2 DEF SingleAt
    <3>3. QED
      BY <2>1, <2>2, <3>1, <3>2 DEF SingleAt
  <2>5. QED
    BY <2>3, <2>4
<1>3. QED
  BY <1>1, <1>2

LEMMA NextSingle ==
  ASSUME TypeOK, Held, Single, [Next]_vars
  PROVE  Single'
<1> SUFFICES ASSUME NEW t \in Link \ (shared' \cup torn') PROVE SingleAt(t)'
  BY DEF Single
<1>1. SingleAt(t)
  BY MarksStay DEF Single
<1>2. ASSUME NEW s \in Request, Handler(s) PROVE SingleAt(t)'
  BY <1>1, <1>2, HandlerSingle
<1>3. CASE Outside \/ UNCHANGED vars
  <2>1. req' = req /\ uses' = uses
    BY <1>3, Outsiders DEF vars, Outside, Logout, StudentJoins, LockEnds, Forgot,
       StudentLeaves, Expire, ghosts
  <2>2. Used(t) => Used(t)'
    BY UsedStep
  <2>3. QED
    BY <1>1, <2>1, <2>2 DEF SingleAt, Holds, At
<1>4. QED
  BY <1>2, <1>3 DEF Next

\* A reset link is "single use": it changed a password twice only if two workers
\* held it at once, or one died before it could mark the link.
THEOREM SecondUsesExplained == Spec => []SecondUseExplained
<1>1. Init => Single
  <2> SUFFICES ASSUME Init, NEW t \in Link PROVE SingleAt(t)
    BY DEF Single
  <2>1. \A r \in Request : req[r].pc = "idle"
    BY DEF Init, Idle
  <2>2. uses[t] = 0
    BY DEF Init
  <2>3. QED
    BY <2>1, <2>2 DEF SingleAt, Holds, At
<1>2. TypeOK /\ Held /\ Single /\ [Next]_vars => Single'
  BY NextSingle
<1>3. TypeOK /\ Single => SecondUseExplained
  BY DEF TypeOK, Single, SingleAt, SecondUseExplained
<1>4. QED
  BY <1>1, <1>2, <1>3, CredentialsTypeCorrect, PTL DEF Spec

\* What makes a spent link a link that worked: whoever is about to mark it has
\* changed the password, or nobody is left to change it for; and only a student's
\* link owes an unlock.
Effect ==
  /\ \A r \in Request : At(r, "spend") =>
       uses[req[r].link] > 0 \/ link[req[r].link].owner \in gone
  /\ \A t \in Link : Used(t) => uses[t] > 0 \/ link[t].owner \in gone
  /\ \A t \in owed : link[t] # NoLink /\ link[t].acct[1] # "admin"

Unlocking(t) == \E r \in Request : req[r].pc \in {"spend", "unlock"} /\ req[r].link = t

Owing == \A t \in owed : Used(t) => t \in torn \/ Unlocking(t)

LEMMA NextPassword ==
  ASSUME TypeOK, Held, Meant, NEW s \in Request, ResetPassword(s), Next
  PROVE  LET t == req[s].link IN uses'[t] > 0 \/ link[t].owner \in gone
<1> DEFINE t == req[s].link
           a == link[t].acct
<1>1. /\ t \in Link /\ link[t] # NoLink /\ a \in Acct
      /\ link[t].owner # 0 /\ uses[t] \in Nat
  BY HeldFacts DEF ResetPassword, At, TypeOK
<1>2. CASE Exists(a)
  <2>1. CASE uses[t] < 2
    <3>1. uses' = [uses EXCEPT ![t] = @ + 1]
      BY <1>2, <2>1 DEF ResetPassword
    <3>2. uses'[t] = uses[t] + 1
      BY <1>1, <3>1 DEF TypeOK
    <3>3. QED
      BY <1>1, <3>2
  <2>2. CASE ~(uses[t] < 2)
    <3>1. uses' = uses
      BY <2>2 DEF ResetPassword
    <3>2. QED
      BY <1>1, <2>2, <3>1
  <2>3. QED
    BY <2>1, <2>2
<1>3. CASE ~Exists(a)
  BY <1>1, <1>3, RowFacts DEF Meant
<1>4. QED
  BY <1>2, <1>3

\* What a step adds to the links that owe an unlock.
LEMMA OwedStep ==
  ASSUME TypeOK, Held, [Next]_vars, NEW t \in owed', t \notin owed
  PROVE  \E s \in Request :
           /\ ResetPassword(s) /\ req[s].link = t /\ req[s].pc = "password"
           /\ link[t].acct[1] # "admin"
<1>1. ASSUME NEW a, Settle(a) PROVE owed' \subseteq owed
  BY <1>1 DEF Settle
<1>2. ASSUME NEW s \in Request, Handler(s)
      PROVE  owed' \subseteq owed \/ ResetPassword(s)
  BY <1>1, <1>2 DEF Handler, LoginRead, Welcome, Fail, CreateRead, ScriptRead, CreateInsert,
     ScriptWrite, Startup, DeleteCount, DeleteTarget, DeleteRow, OwnRead, OwnWrite,
     TempRead, TempWrite, ResetRead, ResetSpend, ResetUnlock, Abort, ghosts, SetAndUnlock
<1>3. Outside => owed' \subseteq owed
  BY <1>1 DEF Outside, Logout, StudentJoins, LockEnds, Forgot, StudentLeaves, Expire, ghosts
<1>4. PICK s \in Request : ResetPassword(s)
  BY <1>2, <1>3 DEF Next, vars
<1>5. link[req[s].link].acct[1] # "admin"
  BY <1>1, <1>4 DEF ResetPassword, SetAndUnlock
<1>6. QED
  BY <1>4, <1>5 DEF ResetPassword, At

LEMMA NextEffect ==
  ASSUME TypeOK, TypeOK', Held, Meant, Effect, [Next]_vars
  PROVE  Effect'
<1>1. gone \subseteq gone'
  BY RowStep
<1>2. ASSUME NEW t \in Link, link[t] # NoLink, uses[t] > 0 \/ link[t].owner \in gone
      PROVE  uses'[t] > 0 \/ link'[t].owner \in gone'
  <2>1. uses[t] \in Nat /\ uses'[t] \in Nat /\ uses'[t] >= uses[t]
    BY UsesGrow DEF TypeOK
  <2>2. link'[t].owner = link[t].owner
    BY <1>2, LinkStep
  <2>3. QED
    BY <1>1, <1>2, <2>1, <2>2
<1>3. ASSUME NEW r \in Request, At(r, "spend")'
      PROVE  uses'[req'[r].link] > 0 \/ link'[req'[r].link].owner \in gone'
  <2>1. CASE req'[r] = req[r]
    <3>1. At(r, "spend") /\ req[r].link \in Link /\ link[req[r].link] # NoLink
      BY <1>3, <2>1, HeldFacts DEF At
    <3>2. QED
      BY <1>2, <2>1, <3>1 DEF Effect
  <2>2. CASE req'[r] # req[r]
    <3>1. PICK s \in Request : Handler(s)
      BY <2>2, Outsiders DEF Next, vars
    <3>2. r = s
      BY <1>3, <2>2, <3>1, OthersStay DEF At
    <3>3. ResetPassword(s) /\ req'[s].link = req[s].link
      <4>1. ASSUME NEW t \in Link, req'[s] = [pc |-> "password", link |-> t] PROVE FALSE
        BY <1>3, <3>2, <4>1 DEF At
      <4>2. QED
        BY <1>3, <3>1, <3>2, <4>1, HoldStep DEF At
    <3>4. /\ req[s].link \in Link /\ link[req[s].link] # NoLink
          /\ link'[req[s].link].owner = link[req[s].link].owner
      BY <3>3, HeldFacts, LinkStep DEF ResetPassword, At
    <3>5. Next
      BY <3>1 DEF Next
    <3>6. QED
      BY <1>1, <3>2, <3>3, <3>4, <3>5, NextPassword
  <2>3. QED
    BY <2>1, <2>2
<1>4. ASSUME NEW t \in Link, Used(t)'
      PROVE  uses'[t] > 0 \/ link'[t].owner \in gone'
  <2>1. CASE Used(t)
    BY <1>2, <2>1 DEF Used, Effect
  <2>2. ASSUME NEW s \in Request, ResetSpend(s), req[s].link = t
        PROVE  uses'[t] > 0 \/ link'[t].owner \in gone'
    <3>1. link[t] # NoLink
      BY <2>2, HeldFacts DEF ResetSpend, At
    <3>2. uses[t] > 0 \/ link[t].owner \in gone
      BY <2>2 DEF ResetSpend, Effect
    <3>3. QED
      BY <1>2, <3>1, <3>2
  <2>3. QED
    BY <1>4, <2>1, <2>2, UsedStep
<1>5. ASSUME NEW t \in owed'
      PROVE  link'[t] # NoLink /\ link'[t].acct[1] # "admin"
  <2>1. t \in Link
    BY <1>5 DEF TypeOK
  <2>2. link[t] # NoLink /\ link[t].acct[1] # "admin"
    BY <1>5, OwedStep, HeldFacts DEF Effect
  <2>3. QED
    BY <2>1, <2>2, LinkStep
<1>6. QED
  BY <1>3, <1>4, <1>5 DEF Effect

\* A worker that has the unlock to do keeps it to do, until it does it or dies.
LEMMA UnlockingStep ==
  ASSUME TypeOK, Held, Effect, [Next]_vars, NEW t \in owed, t \in owed', Unlocking(t)
  PROVE  t \in torn' \/ Unlocking(t)'
<1>1. PICK r \in Request : req[r].pc \in {"spend", "unlock"} /\ req[r].link = t
  BY DEF Unlocking
<1>2. CASE req'[r] = req[r]
  BY <1>1, <1>2 DEF Unlocking
<1>3. CASE req'[r] # req[r]
  <2>1. PICK s \in Request : Handler(s)
    BY <1>3, Outsiders DEF Next, vars
  <2>2. r = s
    BY <1>1, <1>3, <2>1, OthersStay
  <2>3. CASE ResetSpend(r)
    <3>1. req'[r] = [req[r] EXCEPT !.pc = "unlock"]
      <4>1. link[req[r].link].acct[1] # "admin"
        BY <1>1 DEF Effect
      <4>2. Goto(r, [req[r] EXCEPT !.pc = "unlock"])
        BY <2>3, <4>1 DEF ResetSpend
      <4>3. QED
        BY <4>2, Arrives
    <3>2. req[r] \in [pc : {"password", "spend", "unlock"}, link : Link]
      BY <1>1 DEF TypeOK, Work, Idle
    <3>3. /\ [req[r] EXCEPT !.pc = "unlock"].pc = "unlock"
          /\ [req[r] EXCEPT !.pc = "unlock"].link = req[r].link
      BY <3>2
    <3>4. req'[r].pc = "unlock" /\ req'[r].link = t
      BY <1>1, <3>1, <3>3, Zenon
    <3>5. QED
      BY <3>4 DEF Unlocking
  <2>4. CASE ResetUnlock(r)
    BY <1>1, <2>4 DEF ResetUnlock, SetAndUnlock, Settle
  <2>5. CASE Abort(r)
    BY <1>1, <2>5 DEF Abort
  <2>6. QED
    BY <1>1, <2>1, <2>2, <2>3, <2>4, <2>5, HolderActs
<1>4. QED
  BY <1>2, <1>3

LEMMA NextOwing ==
  ASSUME TypeOK, TypeOK', Held, Effect, Owing, [Next]_vars
  PROVE  Owing'
<1> SUFFICES ASSUME NEW t \in owed', Used(t)' PROVE t \in torn' \/ Unlocking(t)'
  BY DEF Owing
<1>1. t \in Link
  BY DEF TypeOK
<1>2. CASE t \notin owed
  <2>1. PICK s \in Request : ResetPassword(s) /\ req[s].link = t
    BY <1>2, OwedStep
  <2>2. At(s, "spend")' /\ req'[s].link = t
    BY <2>1, Spends
  <2>3. QED
    BY <2>2 DEF Unlocking, At
<1>3. CASE t \in owed /\ Unlocking(t)
  BY <1>3, UnlockingStep
<1>4. CASE t \in owed /\ Used(t)
  BY <1>3, <1>4, MarksStay DEF Owing
<1>5. CASE t \in owed /\ ~Used(t)
  <2>1. PICK s \in Request : ResetSpend(s) /\ req[s].link = t
    BY <1>1, <1>5, UsedStep
  <2>2. Unlocking(t)
    BY <2>1 DEF Unlocking, ResetSpend, At
  <2>3. QED
    BY <1>3, <1>5, <2>2
<1>6. QED
  BY <1>2, <1>4, <1>5

\* A link that is spent did all of its work, unless somebody died at it: it
\* changed the password or its account is gone, and it ended a student's lock.
THEOREM SpentLinksTakeEffect == Spec => []SpentLinkTookEffect
<1>1. Init => Effect /\ Owing
  BY DEF Init, Effect, Owing, Used, At, Idle
<1>2. TypeOK /\ TypeOK' /\ Held /\ Meant /\ Effect /\ Owing /\ [Next]_vars => (Effect /\ Owing)'
  BY NextEffect, NextOwing
<1>3. TypeOK /\ Effect /\ Owing => SpentLinkTookEffect
  <2> SUFFICES ASSUME TypeOK, Effect, Owing PROVE SpentLinkTookEffect
    OBVIOUS
  <2>1. SpentLinkChangedPassword
    BY DEF Effect, Used, SpentLinkChangedPassword
  <2>2. SpentLinkUnlocks
    BY DEF Effect, Owing, Used, Unlocking, SpentLinkUnlocks
  <2>3. QED
    BY <2>1, <2>2 DEF SpentLinkTookEffect
<1>4. QED
  BY <1>1, <1>2, <1>3, CredentialsTypeCorrect, MeantInvariant, PTL DEF Spec

-----------------------------------------------------------------------------
(* Served by a single worker. *)

\* A single worker is never late with a deletion and shares no link.
OnTime ==
  /\ raced = FALSE /\ shared = {}
  /\ \A r \in Request : req[r].pc \in {"target", "remove"} => req[r].late = FALSE

LEMMA OnTimeKept ==
  ASSUME TypeOK, \A q, r \in Request : q = r, OnTime, [Next]_vars
  PROVE  OnTime'
<1>1. CASE UNCHANGED vars
  BY <1>1 DEF OnTime, vars
<1>2. CASE Outside
  <2>1. UNCHANGED <<req, raced, shared>>
    BY <1>2 DEF Outside, Logout, StudentJoins, LockEnds, Forgot, StudentLeaves, Expire, ghosts
  <2> QED
    BY <2>1 DEF OnTime
<1>3. ASSUME NEW r \in Request, Handler(r) PROVE OnTime'
  <2>1. \A work0 : Goto(r, work0) => req'[r] = work0
    BY DEF TypeOK, Goto
  <2>2. \A s \in Request : s = r
    OBVIOUS
  <2>3. ASSUME DeleteCount(r) PROVE OnTime'
    <3>1. PICK me \in cookie, i \in Id :
            Goto(r, [pc |-> "target", id |-> i, me |-> me, late |-> FALSE])
      BY <2>3 DEF DeleteCount
    <3>2. req'[r].late = FALSE /\ UNCHANGED <<raced, shared>>
      BY <2>1, <2>3, <3>1 DEF DeleteCount, ghosts
    <3> QED
      BY <2>2, <3>2 DEF OnTime
  <2>4. ASSUME DeleteTarget(r) PROVE OnTime'
    <3>1. req[r] \in Work /\ req[r].pc = "target"
      BY <2>4 DEF DeleteTarget, At, TypeOK
    <3>2. req[r].late = FALSE
      BY <3>1 DEF OnTime
    <3>3. Goto(r, [req[r] EXCEPT !.pc = "remove"]) \/ Goto(r, Idle)
      BY <2>4 DEF DeleteTarget
    <3>4. [req[r] EXCEPT !.pc = "remove"].late = FALSE
      BY <3>1, <3>2 DEF Work, Idle
    <3>7. req'[r] = [req[r] EXCEPT !.pc = "remove"] \/ req'[r] = Idle
      BY <2>1, <3>3, Zenon
    <3>8. Idle.pc = "idle"
      BY DEF Idle
    <3>5. req'[r].late = FALSE \/ req'[r].pc = "idle"
      BY <3>4, <3>7, <3>8, Zenon
    <3>6. UNCHANGED <<raced, shared>>
      BY <2>4 DEF DeleteTarget, ghosts
    <3> QED
      BY <2>2, <3>5, <3>6 DEF OnTime
  <2>5. ASSUME DeleteRow(r) PROVE OnTime'
    <3>1. req[r].late = FALSE
      BY <2>5 DEF DeleteRow, At, OnTime
    <3>2. raced' = FALSE /\ UNCHANGED shared /\ req'[r] = Idle
      BY <2>5, <3>1 DEF DeleteRow, OnTime
    <3> QED
      BY <2>2, <3>2 DEF OnTime, Idle
  <2>6. ASSUME NEW t \in Link, ResetRead(r, t) PROVE OnTime'
    <3>1. ~\E s \in Request : Holds(s, t)
      BY <2>2, <2>6 DEF ResetRead, At, Holds
    <3>2. UNCHANGED <<shared, raced>> /\ req'[r].pc = "password"
      BY <2>1, <2>6, <3>1 DEF ResetRead
    <3> QED
      BY <2>2, <3>2 DEF OnTime
  <2>7. ASSUME \/ Welcome(r) \/ Fail(r) \/ CreateInsert(r) \/ ScriptWrite(r) \/ OwnWrite(r)
               \/ TempWrite(r) \/ ResetUnlock(r) \/ Abort(r)
        PROVE  OnTime'
    <3>1. Goto(r, Idle) /\ UNCHANGED <<raced, shared>>
      BY <2>7 DEF Welcome, Fail, CreateInsert, ScriptWrite, OwnWrite, TempWrite, ResetUnlock, Abort
    <3> QED
      BY <2>1, <2>2, <3>1 DEF OnTime, Idle
  <2>8. ASSUME \/ \E a \in Acct : LoginRead(r, a)
               \/ \E n \in Name : CreateRead(r, n) \/ ScriptRead(r, n)
               \/ Startup(r) \/ OwnRead(r) \/ \E i \in Pupil : TempRead(r, i)
        PROVE  OnTime'
    <3>1. PICK work0 : Goto(r, work0) /\ work0.pc \notin {"target", "remove"}
      <4>1. ASSUME NEW a \in Acct, LoginRead(r, a)
            PROVE  \E work : Goto(r, work) /\ work.pc \notin {"target", "remove"}
        <5>1. PICK to \in {"welcome", "fail"} :
                Goto(r, [pc |-> to, acct |-> a, key |-> row[a].name])
          BY <4>1 DEF LoginRead
        <5> QED
          BY <5>1
      <4>2. ASSUME NEW n \in Name, CreateRead(r, n) \/ ScriptRead(r, n)
            PROVE  \E work : Goto(r, work) /\ work.pc \notin {"target", "remove"}
        BY <4>2 DEF CreateRead, ScriptRead
      <4>3. ASSUME Startup(r)
            PROVE  \E work : Goto(r, work) /\ work.pc \notin {"target", "remove"}
        BY <4>3 DEF Startup
      <4>4. ASSUME OwnRead(r)
            PROVE  \E work : Goto(r, work) /\ work.pc \notin {"target", "remove"}
        <5>1. PICK a : Goto(r, [pc |-> "set", acct |-> a, who |-> row[a].who])
          BY <4>4 DEF OwnRead
        <5> QED
          BY <5>1
      <4>5. ASSUME NEW i \in Pupil, TempRead(r, i)
            PROVE  \E work : Goto(r, work) /\ work.pc \notin {"target", "remove"}
        BY <4>5 DEF TempRead
      <4> QED
        BY <2>8, <4>1, <4>2, <4>3, <4>4, <4>5, Zenon
    <3>2. UNCHANGED <<raced, shared>>
      BY <2>8 DEF LoginRead, CreateRead, ScriptRead, Startup, OwnRead, TempRead, ghosts
    <3> QED
      BY <2>1, <2>2, <3>1, <3>2 DEF OnTime
  <2>9. ASSUME ResetPassword(r) \/ ResetSpend(r) PROVE OnTime'
    <3>1. req[r].pc \in {"password", "spend"} /\ req[r] \in Work
      BY <2>9 DEF ResetPassword, ResetSpend, At, TypeOK
    <3>2. \/ Goto(r, [req[r] EXCEPT !.pc = "spend"]) \/ Goto(r, Idle)
          \/ Goto(r, [req[r] EXCEPT !.pc = "unlock"])
      BY <2>9 DEF ResetPassword, ResetSpend
    <3>3. req'[r].pc \in {"spend", "idle", "unlock"}
      BY <2>1, <3>1, <3>2 DEF Work, Idle
    <3>4. UNCHANGED <<raced, shared>>
      BY <2>9 DEF ResetPassword, ResetSpend, ghosts
    <3> QED
      BY <2>2, <3>3, <3>4 DEF OnTime
  <2> QED
    BY <1>3, <2>3, <2>4, <2>5, <2>6, <2>7, <2>8, <2>9 DEF Handler
<1> QED
  BY <1>1, <1>2, <1>3 DEF Next

UsedOnce == \A t \in Link : uses[t] > 1 => t \in torn

\* Served by a single worker, the last administrator is never deleted, and a reset link
\* changes a second password only if the worker died before it could mark the link.
THEOREM OneWorkerCredentials ==
  ASSUME \A q, r \in Request : q = r
  PROVE  Spec => [](Admins # {} /\ UsedOnce)
<1>1. Init => OnTime
  BY DEF Init, OnTime, Idle
<1>2. TypeOK /\ OnTime /\ [Next]_vars => OnTime'
  BY OnTimeKept
<1>3. OnTime /\ LastAdminKept /\ SecondUseExplained => Admins # {} /\ UsedOnce
  BY DEF OnTime, LastAdminKept, SecondUseExplained, UsedOnce
<1> QED
  BY <1>1, <1>2, <1>3, CredentialsTypeCorrect, LastAdminStays, SecondUsesExplained, PTL DEF Spec

=============================================================================
