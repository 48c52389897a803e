-------------------------------- MODULE Monitor --------------------------------
(****************************************************************************)
(* The live page of one session (templates/attendance_session.html) and the *)
(* long-poll that feeds it (session_updates in app.py).                     *)
(*                                                                          *)
(* Every worker process keeps its own in-memory version of the session and  *)
(* increments it after a mark, an override or an approval it served itself. *)
(* A poll parks until the version of ITS process differs from the one the   *)
(* page saw last, or until the deadline, then reads the attendance and      *)
(* answers.  A second, slow interval refresh reads without any version.     *)
(* gunicorn runs many processes of one thread, waitress one process of many *)
(* threads: host says which thread belongs to which process.                *)
(****************************************************************************)
EXTENDS Integers

CONSTANTS
  Process,      \* worker processes
  Thread,       \* threads that serve one request at a time
  Topology,     \* the servers it may run under: the process of each thread
  Page,         \* browser tabs on the session's page
  MaxMarks,     \* bound: published changes of the session's attendance
  MaxSilent,    \* bound: changes of it that nobody publishes
  MaxRestarts,  \* bound: restarts of a process
  Abrupt        \* a process may also die while it serves a request

ASSUME TopologyAssumption == Topology \subseteq [Thread -> Process]
ASSUME BoundAssumption ==
  MaxMarks \in Nat /\ MaxSilent \in Nat /\ MaxRestarts \in Nat /\ Abrupt \in BOOLEAN

VARIABLES
  host,      \* the process of each thread
  data,      \* the committed attendance, as the number of changes of each kind
  version,   \* _SESSION_UPDATE_VERSIONS[session] of each process
  work,      \* what each thread is doing
  page,      \* each tab: its poll, its version, what it shows
  reply,     \* the answer of a tab's long-poll, on its way
  refresh,   \* the answer of a tab's interval refresh, on its way
  got,       \* history: the data of the tab's last long-poll answer
  restarts   \* history: processes restarted so far

vars == <<data, version, work, page, reply, refresh, got, restarts>>

-----------------------------------------------------------------------------
(* Types *)

Data == [marks : Nat, silent : Nat]
NoData == [marks |-> 0, silent |-> 0]
None == [answer |-> "none"]
Payload == [answer : {"data"}, data : Data]
Versioned == [answer : {"data"}, data : Data, version : Nat]

Idle == [pc |-> "idle"]
Work == [pc : {"publish"}]
        \cup [pc : {"parked", "select"}, page : Page, seen : Nat]
        \cup {Idle}
Tab == [pc : {"new", "ready", "waiting", "left"}, since : Nat, shown : Data]

TypeOK ==
  /\ host \in Topology
  /\ data \in Data
  /\ version \in [Process -> Nat]
  /\ work \in [Thread -> Work]
  /\ page \in [Page -> Tab]
  /\ reply \in [Page -> Versioned \cup {None}]
  /\ refresh \in [Page -> Payload \cup {None}]
  /\ got \in [Page -> Data]
  /\ restarts \in Nat

Init ==
  /\ host \in Topology
  /\ data = NoData
  /\ version = [p \in Process |-> 0]
  /\ work = [t \in Thread |-> Idle]
  /\ page = [g \in Page |-> [pc |-> "new", since |-> 0, shown |-> NoData]]
  /\ reply = [g \in Page |-> None] /\ refresh = [g \in Page |-> None]
  /\ got = [g \in Page |-> NoData]
  /\ restarts = 0

At(t, step) == work[t].pc = step
Goto(t, new) == work' = [work EXCEPT ![t] = new]

-----------------------------------------------------------------------------
(* Writers *)

\* The last statement of a mark, an override or an approval commits ...
Mark(t) ==
  /\ At(t, "idle") /\ data.marks < MaxMarks
  /\ data' = [data EXCEPT !.marks = @ + 1]
  /\ Goto(t, [pc |-> "publish"])
  /\ UNCHANGED <<version, page, reply, refresh, got, restarts>>

\* ... and then the handler calls _publish_session_update.
Publish(t) ==
  /\ At(t, "publish")
  /\ version' = [version EXCEPT ![host[t]] = @ + 1]
  /\ Goto(t, Idle)
  /\ UNCHANGED <<data, page, reply, refresh, got, restarts>>

\* delete_student, registration and the failed attempts of the audit log change
\* the page as well but publish nothing.
Silent(t) ==
  /\ At(t, "idle") /\ data.silent < MaxSilent
  /\ data' = [data EXCEPT !.silent = @ + 1]
  /\ UNCHANGED <<version, work, page, reply, refresh, got, restarts>>

-----------------------------------------------------------------------------
(* The long-poll: session_updates and longPollForUpdates. *)

\* attendance_session renders the page; its script starts from version 0.
Load(g, t) ==
  /\ At(t, "idle") /\ page[g].pc = "new"
  /\ page' = [page EXCEPT ![g] = [pc |-> "ready", since |-> 0, shown |-> data]]
  /\ got' = [got EXCEPT ![g] = data]
  /\ UNCHANGED <<data, version, work, reply, refresh, restarts>>

\* A free thread takes the poll and reads the version for the first time.
OpenPoll(g, t) ==
  /\ At(t, "idle") /\ page[g].pc = "ready"
  /\ Goto(t, [pc |-> IF version[host[t]] = page[g].since THEN "parked" ELSE "select",
              page |-> g, seen |-> version[host[t]]])
  /\ page' = [page EXCEPT ![g].pc = "waiting"]
  /\ UNCHANGED <<data, version, reply, refresh, got, restarts>>

\* The wait loop reads a version other than the one it started from.
Wake(t) ==
  /\ At(t, "parked") /\ version[host[t]] # work[t].seen
  /\ Goto(t, [work[t] EXCEPT !.pc = "select", !.seen = version[host[t]]])
  /\ UNCHANGED <<data, version, page, reply, refresh, got, restarts>>

\* Slip: a poll without news is answered with version -1.
ExpireMinusOne(t) ==
  /\ At(t, "parked") /\ version[host[t]] = work[t].seen
  /\ Goto(t, [work[t] EXCEPT !.pc = "select", !.seen = -1])
  /\ UNCHANGED <<data, version, page, reply, refresh, got, restarts>>

\* Slip: the wait loop has no deadline.
ExpireNever(t) ==
  /\ At(t, "parked") /\ version[host[t]] # work[t].seen
  /\ Goto(t, [work[t] EXCEPT !.pc = "select"])
  /\ UNCHANGED <<data, version, page, reply, refresh, got, restarts>>

\* The deadline passes after a read that found the version unchanged.
Expire(t) ==
  /\ At(t, "parked") /\ version[host[t]] = work[t].seen
  /\ Goto(t, [work[t] EXCEPT !.pc = "select"])
  /\ UNCHANGED <<data, version, page, reply, refresh, got, restarts>>

\* The payload is read after the version, and the answer leaves with both.  The
\* reader may have left the page meanwhile.
Answer(t) ==
  /\ At(t, "select")
  /\ LET g == work[t].page
     IN  reply' = IF page[g].pc = "waiting"
                  THEN [reply EXCEPT ![g] = [answer |-> "data", data |-> data,
                                             version |-> work[t].seen]]
                  ELSE reply
  /\ Goto(t, Idle)
  /\ UNCHANGED <<data, version, page, refresh, got, restarts>>

\* Slip: the version is read once more when the answer leaves.
DeliverLateVersion(g) ==
  /\ reply[g] # None
  /\ \E p \in Process :
       page' = [page EXCEPT ![g] = [pc |-> "ready", since |-> version[p],
                                    shown |-> reply[g].data]]
  /\ got' = [got EXCEPT ![g] = reply[g].data]
  /\ reply' = [reply EXCEPT ![g] = None]
  /\ UNCHANGED <<data, version, work, refresh, restarts>>

\* The tab shows the answer, remembers its version and polls again.
Deliver(g) ==
  /\ reply[g] # None
  /\ page' = [page EXCEPT ![g] = [pc |-> "ready", since |-> reply[g].version,
                                  shown |-> reply[g].data]]
  /\ got' = [got EXCEPT ![g] = reply[g].data]
  /\ reply' = [reply EXCEPT ![g] = None]
  /\ UNCHANGED <<data, version, work, refresh, restarts>>

Leave(g) ==
  /\ page[g].pc \in {"ready", "waiting"}
  /\ page' = [page EXCEPT ![g].pc = "left"]
  /\ reply' = [reply EXCEPT ![g] = None] /\ refresh' = [refresh EXCEPT ![g] = None]
  /\ UNCHANGED <<data, version, work, got, restarts>>

-----------------------------------------------------------------------------
(* The interval refresh: session_attendance_data and refreshAttendanceData. *)

Refresh(g, t) ==
  /\ At(t, "idle") /\ page[g].pc \in {"ready", "waiting"} /\ refresh[g] = None
  /\ refresh' = [refresh EXCEPT ![g] = [answer |-> "data", data |-> data]]
  /\ UNCHANGED <<data, version, work, page, reply, got, restarts>>

\* It may arrive after a long-poll answer that is newer.
DeliverRefresh(g) ==
  /\ refresh[g] # None
  /\ page' = [page EXCEPT ![g].shown = refresh[g].data]
  /\ refresh' = [refresh EXCEPT ![g] = None]
  /\ UNCHANGED <<data, version, work, reply, got, restarts>>

-----------------------------------------------------------------------------

\* A process is recycled between two requests (max_requests), or dies: its
\* counter starts again from 0, an update it had committed is never published,
\* and the tabs polling it get an error and try again.
Restart(p) ==
  /\ restarts < MaxRestarts
  /\ Abrupt \/ \A t \in Thread : host[t] = p => At(t, "idle")
  /\ restarts' = restarts + 1
  /\ version' = [version EXCEPT ![p] = 0]
  /\ work' = [t \in Thread |-> IF host[t] = p THEN Idle ELSE work[t]]
  /\ page' = [g \in Page |->
       IF /\ page[g].pc = "waiting"
          /\ \E t \in Thread :
               host[t] = p /\ work[t].pc \in {"parked", "select"} /\ work[t].page = g
       THEN [page[g] EXCEPT !.pc = "ready"] ELSE page[g]]
  /\ UNCHANGED <<data, reply, refresh, got>>

Serve(t) ==
  \/ Mark(t) \/ Publish(t) \/ Silent(t)
  \/ Wake(t) \/ Expire(t) \/ Answer(t)
  \/ \E g \in Page : Load(g, t) \/ OpenPoll(g, t) \/ Refresh(g, t)

Browse(g) == Deliver(g) \/ DeliverRefresh(g) \/ Leave(g)

Next ==
  /\ \/ \E t \in Thread : Serve(t)
     \/ \E g \in Page : Browse(g)
     \/ \E p \in {host[t] : t \in Thread} : Restart(p)
  /\ UNCHANGED host

(****************************************************************************)
(* Fairness.  A thread runs on with the request it has; the wait loop has a *)
(* deadline; the network delivers an answer; and the tab's next poll, in    *)
(* the accept queue of the server, is taken by one of the threads that keep *)
(* coming free.  Nobody has to mark, to refresh or to leave.                *)
(****************************************************************************)
Fairness ==
  /\ \A t \in Thread : WF_vars(Publish(t)) /\ WF_vars(Wake(t) \/ Expire(t) \/ Answer(t))
  /\ \A g \in Page :
       /\ WF_vars(Deliver(g)) /\ WF_vars(DeliverRefresh(g))
       /\ SF_vars(\E t \in Thread : OpenPoll(g, t))

Spec == Init /\ [][Next]_<<host, vars>> /\ Fairness

-----------------------------------------------------------------------------
(* Properties *)

Viewing(g) == page[g].pc \in {"ready", "waiting"}

\* While a poll is parked on an unchanged version and its process published every
\* mark there was, the tab was already given every one: the poll is never left to
\* wait for news the tab has missed ("Setting GUNICORN_WORKERS=1 makes the signal
\* fully reliable").
ParkedIsFresh ==
  \A t \in Thread :
    /\ At(t, "parked") /\ page[work[t].page].pc = "waiting"
    /\ version[host[t]] = work[t].seen
    /\ version[host[t]] = data.marks /\ restarts = 0
    => got[work[t].page].marks = data.marks

\* However many processes there are, and whatever they publish or forget, each
\* open tab ends up showing the attendance as it is ("correctness never depends
\* on the version-counter signal actually being seen").
EventuallyCurrent ==
  \A g \in Page : <>[](Viewing(g) => page[g].shown = data)

\* No tab keeps a thread for ever ("a bounded long-poll ties up a worker for at
\* most that many seconds per cycle").
ThreadsComeFree == \A t \in Thread : []<>At(t, "idle")
=============================================================================
