------------------------------ MODULE PagesProofs ------------------------------
(******************************************************************************)
(* Proofs about what the pages of browsers see.  Monitor: for any topology    *)
(* and any number of tabs.  Of MCRules, BrowserSession: for any number of     *)
(* tabs and tokens; SessionRules: for any sessions, schedules, grace and      *)
(* window; AttendanceReport, AttendanceTrend and FaceDecisions, whose figures *)
(* are sums over sets: for any of their constants.  What the library says of  *)
(* induction takes an operator as a parameter; here induction is over a set   *)
(* of the cases done, the least case left out being impossible.               *)
(******************************************************************************)
EXTENDS Monitor, MCRules, Sequences, Functions, FiniteSetTheorems, WellFoundedInduction, TLAPS

-----------------------------------------------------------------------------
(* Monitor. *)


Polling(t, g) == work[t].pc \in {"parked", "select"} /\ work[t].page = g

\* The threads of a process that have committed a mark and not published it yet.
Publishing(p) == {t \in Thread : host[t] = p /\ At(t, "publish")}

\* A process never counted more marks than were committed, those it still has to
\* publish included.
Counted ==
  \A p \in Process :
    /\ IsFiniteSet(Publishing(p))
    /\ version[p] + Cardinality(Publishing(p)) <= data.marks

\* A tab has one poll on its way at most: with a thread, or as an answer.
OnePoll ==
  \A g \in Page :
    /\ page[g].pc \in {"new", "ready"} => reply[g] = None /\ \A t \in Thread : ~Polling(t, g)
    /\ reply[g] # None => page[g].pc = "waiting" /\ \A t \in Thread : ~Polling(t, g)
    /\ \A t, u \in Thread : Polling(t, g) /\ Polling(u, g) => t = u

\* Nobody knows of a version that is newer than the data that came with it.
SeenIsCommitted ==
  \A t \in Thread, g \in Page : Polling(t, g) => work[t].seen <= data.marks

ReplyCovers ==
  \A g \in Page : reply[g] # None =>
    reply[g].version <= reply[g].data.marks /\ reply[g].data.marks <= data.marks

GotCovers ==
  \A g \in Page : page[g].since <= got[g].marks /\ got[g].marks <= data.marks

\* A poll is parked on the version its tab remembers.
ParkedOnSince ==
  \A t \in Thread :
    At(t, "parked") /\ page[work[t].page].pc = "waiting"
      => work[t].seen = page[work[t].page].since

Covers == SeenIsCommitted /\ ReplyCovers /\ GotCovers /\ ParkedOnSince

Unrestarted == restarts = 0 => Counted /\ OnePoll /\ Covers

-----------------------------------------------------------------------------

LEMMA TypeInit == Init => TypeOK
  BY DEF Init, TypeOK, NoData, Data, Work, Idle, Tab, None

\* The writers keep the types.
LEMMA WritersType ==
  ASSUME TypeOK, UNCHANGED host, NEW t \in Thread, Mark(t) \/ Publish(t) \/ Silent(t)
  PROVE  TypeOK'
<1>1. data' \in Data
  BY DEF TypeOK, Mark, Publish, Silent, Data
<1>2. version' \in [Process -> Nat]
  BY TopologyAssumption DEF TypeOK, Mark, Publish, Silent
<1>3. work' \in [Thread -> Work]
  BY DEF TypeOK, Mark, Publish, Silent, Goto, Work, Idle
<1> QED
  BY <1>1, <1>2, <1>3 DEF TypeOK, Mark, Publish, Silent

\* A poll under way has a tab and a version.
LEMMA PollType ==
  ASSUME TypeOK, NEW t \in Thread, At(t, "parked") \/ At(t, "select")
  PROVE  /\ work[t] \in [pc : {"parked", "select"}, page : Page, seen : Nat]
         /\ work[t].page \in Page /\ work[t].seen \in Nat
  BY DEF TypeOK, At, Work, Idle

\* A poll that stops waiting keeps its tab and knows the version it last read.
LEMMA GoesOn ==
  ASSUME TypeOK, NEW t \in Thread, Wake(t) \/ Expire(t)
  PROVE  /\ At(t, "parked")
         /\ work' = [work EXCEPT ![t] = [pc |-> "select", page |-> work[t].page,
                                         seen |-> version[host[t]]]]
<1>1. At(t, "parked")
  BY DEF Wake, Expire
<1>2. work[t] \in [pc : {"parked", "select"}, page : Page, seen : Nat]
  BY <1>1, PollType
<1>3. [work[t] EXCEPT !.pc = "select"]
        = [pc |-> "select", page |-> work[t].page, seen |-> work[t].seen]
  BY <1>2
<1>4. \A v : [[pc |-> "select", page |-> work[t].page, seen |-> work[t].seen] EXCEPT !.seen = v]
               = [pc |-> "select", page |-> work[t].page, seen |-> v]
  OBVIOUS
<1>5. CASE Wake(t)
  <2>1. work' = [work EXCEPT ![t] = [work[t] EXCEPT !.pc = "select", !.seen = version[host[t]]]]
    BY <1>5 DEF Wake, Goto
  <2> QED
    BY <2>1, <1>1, <1>3, <1>4, Zenon
<1>6. CASE Expire(t)
  <2>1. work[t].seen = version[host[t]]
    BY <1>6 DEF Expire
  <2>2. work' = [work EXCEPT ![t] = [work[t] EXCEPT !.pc = "select"]]
    BY <1>6 DEF Expire, Goto
  <2> QED
    BY <2>1, <2>2, <1>1, <1>3, Zenon
<1> QED
  BY <1>1, <1>5, <1>6

LEMMA PollStepType ==
  ASSUME TypeOK, UNCHANGED host, NEW t \in Thread, Wake(t) \/ Expire(t) \/ Answer(t)
  PROVE  TypeOK'
<1>1. At(t, "parked") \/ At(t, "select")
  BY DEF Wake, Expire, Answer
<1>2. work[t] \in [pc : {"parked", "select"}, page : Page, seen : Nat]
  BY <1>1, PollType
<1>3. host[t] \in Process /\ version[host[t]] \in Nat
  BY TopologyAssumption DEF TypeOK
<1>4. work' \in [Thread -> Work]
  <2>1. CASE Wake(t) \/ Expire(t)
    <3>1. [pc |-> "select", page |-> work[t].page, seen |-> version[host[t]]] \in Work
      BY <1>2, <1>3 DEF Work
    <3> QED
      <4>1. work' = [work EXCEPT ![t] = [pc |-> "select", page |-> work[t].page,
                                         seen |-> version[host[t]]]]
        BY <2>1, GoesOn
      <4> QED
        BY <4>1, <3>1 DEF TypeOK
  <2>2. CASE Answer(t)
    BY <2>2 DEF TypeOK, Answer, Goto, Work
  <2> QED
    BY <2>1, <2>2
<1>5. reply' \in [Page -> Versioned \cup {None}]
  <2>1. [answer |-> "data", data |-> data, version |-> work[t].seen] \in Versioned
    BY <1>2 DEF TypeOK, Versioned
  <2> QED
    BY <2>1, <1>2 DEF TypeOK, Wake, Expire, Answer
<1> QED
  BY <1>4, <1>5 DEF TypeOK, Wake, Expire, Answer

\* A poll that a thread takes up is parked, or goes on at once.
LEMMA TakenUp ==
  ASSUME NEW t \in Thread, NEW g \in Page, OpenPoll(g, t)
  PROVE  \E step \in {"parked", "select"} :
           /\ work' = [work EXCEPT ![t] = [pc |-> step, page |-> g, seen |-> version[host[t]]]]
           /\ step = "parked" => version[host[t]] = page[g].since
<1>1. CASE version[host[t]] = page[g].since
  BY <1>1 DEF OpenPoll, Goto
<1>2. CASE version[host[t]] # page[g].since
  BY <1>2 DEF OpenPoll, Goto
<1> QED
  BY <1>1, <1>2

LEMMA OpenType ==
  ASSUME TypeOK, UNCHANGED host, NEW t \in Thread, NEW g \in Page,
         Load(g, t) \/ OpenPoll(g, t) \/ Refresh(g, t)
  PROVE  TypeOK'
<1>1. host[t] \in Process /\ version[host[t]] \in Nat
  BY TopologyAssumption DEF TypeOK
<1>2. work' \in [Thread -> Work]
  <2>1. \A step \in {"parked", "select"} :
          [pc |-> step, page |-> g, seen |-> version[host[t]]] \in Work
    BY <1>1 DEF Work
  <2>2. ASSUME OpenPoll(g, t) PROVE work' \in [Thread -> Work]
    <3>1. PICK step \in {"parked", "select"} :
            work' = [work EXCEPT ![t] = [pc |-> step, page |-> g, seen |-> version[host[t]]]]
      BY <2>2, TakenUp
    <3> QED
      BY <3>1, <2>1 DEF TypeOK
  <2> QED
    BY <2>2 DEF TypeOK, Load, Refresh
<1>3. page' \in [Page -> Tab]
  <2>1. page[g] \in Tab /\ [pc |-> "ready", since |-> 0, shown |-> data] \in Tab
    BY DEF TypeOK, Tab
  <2>2. [page[g] EXCEPT !.pc = "waiting"] \in Tab
    BY <2>1 DEF Tab
  <2>3. CASE Load(g, t)
    BY <2>1, <2>3 DEF TypeOK, Load
  <2>4. CASE OpenPoll(g, t)
    BY <2>2, <2>4 DEF TypeOK, OpenPoll
  <2>5. CASE Refresh(g, t)
    BY <2>5 DEF TypeOK, Refresh
  <2> QED
    BY <2>3, <2>4, <2>5
<1>4. refresh' \in [Page -> Payload \cup {None}] /\ got' \in [Page -> Data]
  BY DEF TypeOK, Load, OpenPoll, Refresh, Payload
<1> QED
  BY <1>2, <1>3, <1>4 DEF TypeOK, Load, OpenPoll, Refresh

LEMMA BrowseType ==
  ASSUME TypeOK, UNCHANGED host, NEW g \in Page, Browse(g)
  PROVE  TypeOK'
<1>1. reply[g] # None => reply[g].version \in Nat /\ reply[g].data \in Data
  BY DEF TypeOK, Versioned
<1>2. refresh[g] # None => refresh[g].data \in Data
  BY DEF TypeOK, Payload
<1>3. page' \in [Page -> Tab]
  <2>1. page[g] \in Tab
    BY DEF TypeOK
  <2>2. CASE Deliver(g)
    <3>1. [pc |-> "ready", since |-> reply[g].version, shown |-> reply[g].data] \in Tab
      BY <1>1, <2>2 DEF Deliver, Tab
    <3> QED
      BY <3>1, <2>2 DEF TypeOK, Deliver
  <2>3. CASE DeliverRefresh(g)
    <3>1. [page[g] EXCEPT !.shown = refresh[g].data] \in Tab
      BY <1>2, <2>1, <2>3 DEF DeliverRefresh, Tab
    <3> QED
      BY <3>1, <2>3 DEF TypeOK, DeliverRefresh
  <2>4. CASE Leave(g)
    <3>1. [page[g] EXCEPT !.pc = "left"] \in Tab
      BY <2>1 DEF Tab
    <3> QED
      BY <3>1, <2>4 DEF TypeOK, Leave
  <2> QED
    BY <2>2, <2>3, <2>4 DEF Browse
<1>4. got' \in [Page -> Data]
  BY <1>1 DEF TypeOK, Browse, Deliver, DeliverRefresh, Leave
<1> QED
  BY <1>3, <1>4 DEF TypeOK, Browse, Deliver, DeliverRefresh, Leave

LEMMA RestartType ==
  ASSUME TypeOK, UNCHANGED host, NEW p \in Process, Restart(p)
  PROVE  TypeOK'
<1>1. work' \in [Thread -> Work]
  BY DEF TypeOK, Restart, Work
<1>2. page' \in [Page -> Tab]
  <2> SUFFICES ASSUME NEW g \in Page PROVE page'[g] \in Tab
    BY DEF Restart
  <2>1. page[g] \in Tab /\ [page[g] EXCEPT !.pc = "ready"] \in Tab
    BY DEF TypeOK, Tab
  <2> QED
    BY <2>1 DEF Restart
<1> QED
  BY <1>1, <1>2 DEF TypeOK, Restart

\* Every variable keeps its type in every step of a thread, a tab or a process.
THEOREM MonitorTypeCorrect == Spec => []TypeOK
<1>1. TypeOK /\ [Next]_<<host, vars>> => TypeOK'
  <2> SUFFICES ASSUME TypeOK, [Next]_<<host, vars>> PROVE TypeOK'
    OBVIOUS
  <2>1. CASE UNCHANGED <<host, vars>>
    BY <2>1 DEF TypeOK, vars
  <2>2. ASSUME UNCHANGED host, NEW t \in Thread, Serve(t) PROVE TypeOK'
    BY <2>2, WritersType, PollStepType, OpenType DEF Serve
  <2>3. ASSUME UNCHANGED host, NEW g \in Page, Browse(g) PROVE TypeOK'
    BY <2>3, BrowseType
  <2>4. ASSUME UNCHANGED host, NEW p \in {host[t] : t \in Thread}, Restart(p) PROVE TypeOK'
    <3>1. p \in Process
      BY TopologyAssumption DEF TypeOK
    <3> QED
      BY <2>4, <3>1, RestartType
  <2> QED
    BY <2>1, <2>2, <2>3, <2>4 DEF Next
<1> QED
  BY <1>1, TypeInit, PTL DEF Spec

-----------------------------------------------------------------------------
(* A process counts only what was committed. *)

\* What every request but a writer leaves alone.
LEMMA ReadersCountNothing ==
  ASSUME TypeOK, NEW t \in Thread,
         \/ Silent(t) \/ Wake(t) \/ Expire(t) \/ Answer(t)
         \/ \E g \in Page : Load(g, t) \/ OpenPoll(g, t) \/ Refresh(g, t)
  PROVE  /\ data'.marks = data.marks /\ version' = version
         /\ \A u \in Thread : At(u, "publish")' <=> At(u, "publish")
<1>1. data'.marks = data.marks /\ version' = version
  BY DEF TypeOK, Data, Silent, Wake, Expire, Answer, Load, OpenPoll, Refresh
<1>2. ASSUME NEW g \in Page, OpenPoll(g, t)
      PROVE  \A u \in Thread : At(u, "publish")' <=> At(u, "publish")
  <2>1. PICK step \in {"parked", "select"} :
          work' = [work EXCEPT ![t] = [pc |-> step, page |-> g, seen |-> version[host[t]]]]
    BY <1>2, TakenUp
  <2> QED
    BY <1>2, <2>1 DEF TypeOK, OpenPoll, At
<1>3. CASE Wake(t) \/ Expire(t)
  <2>1. /\ At(t, "parked")
        /\ work' = [work EXCEPT ![t] = [pc |-> "select", page |-> work[t].page,
                                        seen |-> version[host[t]]]]
    BY <1>3, GoesOn
  <2>2. data' = data /\ version' = version
    BY <1>3 DEF Wake, Expire
  <2> QED
    BY <2>1, <2>2 DEF TypeOK, At
<1>4. CASE Answer(t)
  BY <1>4 DEF TypeOK, Answer, Goto, At, Idle
<1>5. ASSUME Silent(t) \/ \E g \in Page : Load(g, t) \/ Refresh(g, t)
      PROVE  \A u \in Thread : At(u, "publish")' <=> At(u, "publish")
  BY <1>5 DEF Silent, Load, Refresh, At
<1> QED
  BY <1>1, <1>2, <1>3, <1>4, <1>5

LEMMA CountedByWriters ==
  ASSUME TypeOK, Counted, UNCHANGED host, NEW t \in Thread, Mark(t) \/ Publish(t)
  PROVE  Counted'
<1> SUFFICES ASSUME NEW p \in Process
             PROVE  /\ IsFiniteSet(Publishing(p)')
                    /\ version'[p] + Cardinality(Publishing(p)') <= data'.marks
  BY DEF Counted
<1>1. /\ IsFiniteSet(Publishing(p)) /\ version[p] \in Nat /\ data.marks \in Nat
      /\ version[p] + Cardinality(Publishing(p)) <= data.marks
  BY DEF Counted, TypeOK, Data
<1>2. Cardinality(Publishing(p)) \in Nat
  BY <1>1, FS_CardinalityType
<1>3. CASE Mark(t)
  <2>1. data'.marks = data.marks + 1 /\ version' = version
    BY <1>3 DEF TypeOK, Data, Mark
  <2>2. \A u \in Thread : At(u, "publish")' <=> u = t \/ At(u, "publish")
    BY <1>3 DEF TypeOK, Mark, Goto, At
  <2>3. t \notin Publishing(p)
    BY <1>3 DEF Mark, At, Publishing
  <2>4. CASE host[t] = p
    <3>1. Publishing(p)' = Publishing(p) \cup {t}
      BY <2>2, <2>4 DEF Publishing
    <3>2. /\ IsFiniteSet(Publishing(p) \cup {t})
          /\ Cardinality(Publishing(p) \cup {t}) = Cardinality(Publishing(p)) + 1
      BY <1>1, <2>3, FS_AddElement
    <3> QED
      BY <3>1, <3>2, <2>1, <1>1, <1>2
  <2>5. CASE host[t] # p
    <3>1. Publishing(p)' = Publishing(p)
      BY <2>2, <2>5 DEF Publishing
    <3> QED
      BY <3>1, <2>1, <1>1, <1>2
  <2> QED
    BY <2>4, <2>5
<1>4. CASE Publish(t)
  <2>1. data' = data /\ \A u \in Thread : At(u, "publish")' <=> u # t /\ At(u, "publish")
    BY <1>4 DEF TypeOK, Publish, Goto, At, Idle
  <2>2. CASE host[t] = p
    <3>1. version'[p] = version[p] + 1
      BY <1>4, <2>2 DEF TypeOK, Publish
    <3>2. t \in Publishing(p)
      BY <1>4, <2>2 DEF Publish, Publishing
    <3>3. Publishing(p)' = Publishing(p) \ {t}
      BY <2>1, <2>2 DEF Publishing
    <3>4. /\ IsFiniteSet(Publishing(p) \ {t})
          /\ Cardinality(Publishing(p) \ {t}) = Cardinality(Publishing(p)) - 1
      BY <1>1, <3>2, FS_RemoveElement
    <3> QED
      BY <3>1, <3>3, <3>4, <2>1, <1>1, <1>2
  <2>3. CASE host[t] # p
    <3>1. version'[p] = version[p]
      BY <1>4, <2>3, TopologyAssumption DEF TypeOK, Publish
    <3>2. Publishing(p)' = Publishing(p)
      BY <2>1, <2>3 DEF Publishing
    <3> QED
      BY <3>1, <3>2, <2>1, <1>1
  <2> QED
    BY <2>2, <2>3
<1> QED
  BY <1>3, <1>4

LEMMA CountedStep ==
  ASSUME TypeOK, Counted, UNCHANGED host,
         (\E t \in Thread : Serve(t)) \/ (\E g \in Page : Browse(g))
  PROVE  Counted'
<1>1. ASSUME NEW t \in Thread, Serve(t), ~(Mark(t) \/ Publish(t)) PROVE Counted'
  <2>1. /\ data'.marks = data.marks /\ version' = version
        /\ \A u \in Thread : At(u, "publish")' <=> At(u, "publish")
    BY <1>1, ReadersCountNothing DEF Serve
  <2>2. \A p \in Process : Publishing(p)' = Publishing(p)
    BY <2>1 DEF Publishing
  <2> QED
    BY <2>1, <2>2 DEF Counted
<1>2. ASSUME NEW g \in Page, Browse(g) PROVE Counted'
  <2>1. data' = data /\ version' = version /\ work' = work
    BY <1>2 DEF Browse, Deliver, DeliverRefresh, Leave
  <2>2. \A p \in Process : Publishing(p)' = Publishing(p)
    BY <2>1 DEF Publishing, At
  <2> QED
    BY <2>1, <2>2 DEF Counted
<1> QED
  BY <1>1, <1>2, CountedByWriters

\* A version is never ahead of the data.
LEMMA VersionIsCommitted ==
  ASSUME TypeOK, Counted, NEW p \in Process
  PROVE  version[p] <= data.marks
<1>1. /\ IsFiniteSet(Publishing(p)) /\ version[p] \in Nat /\ data.marks \in Nat
      /\ version[p] + Cardinality(Publishing(p)) <= data.marks
  BY DEF Counted, TypeOK, Data
<1>2. Cardinality(Publishing(p)) \in Nat
  BY <1>1, FS_CardinalityType
<1> QED
  BY <1>1, <1>2

-----------------------------------------------------------------------------
(* A tab has one poll, and what it is told covers the version it is told. *)

\* What a step of a thread that is not polling, or does not answer, leaves alone.
LEMMA OnePollStep ==
  ASSUME TypeOK, OnePoll, UNCHANGED host, NEW t \in Thread, Serve(t)
  PROVE  OnePoll'
<1> SUFFICES ASSUME NEW g \in Page
    PROVE /\ page'[g].pc \in {"new", "ready"}
             => reply'[g] = None /\ \A u \in Thread : ~Polling(u, g)'
          /\ reply'[g] # None => page'[g].pc = "waiting" /\ \A u \in Thread : ~Polling(u, g)'
          /\ \A u, v \in Thread : Polling(u, g)' /\ Polling(v, g)' => u = v
  BY DEF OnePoll
<1>1. ASSUME Mark(t) \/ Publish(t) \/ Silent(t) \/ \E h \in Page : Refresh(h, t)
      PROVE  page' = page /\ reply' = reply /\ \A u \in Thread : Polling(u, g)' <=> Polling(u, g)
  BY <1>1 DEF TypeOK, Mark, Publish, Silent, Refresh, Goto, At, Polling, Idle
<1>2. ASSUME Wake(t) \/ Expire(t)
      PROVE  page' = page /\ reply' = reply /\ \A u \in Thread : Polling(u, g)' <=> Polling(u, g)
  <2>1. /\ At(t, "parked")
        /\ work' = [work EXCEPT ![t] = [pc |-> "select", page |-> work[t].page,
                                        seen |-> version[host[t]]]]
    BY <1>2, GoesOn
  <2>2. page' = page /\ reply' = reply
    BY <1>2 DEF Wake, Expire
  <2> QED
    BY <2>1, <2>2 DEF TypeOK, At, Polling
<1>3. CASE Answer(t)
  <2>1. \A u \in Thread : Polling(u, g)' <=> u # t /\ Polling(u, g)
    BY <1>3 DEF TypeOK, Answer, Goto, Polling, Idle
  <2>2. page' = page /\ Polling(t, work[t].page) /\ work[t].page \in Page
    BY <1>3, PollType DEF Answer, Polling, At
  <2>3. reply'[g] = reply[g] \/ (g = work[t].page /\ page[g].pc = "waiting")
    BY <1>3 DEF TypeOK, Answer
  <2> QED
    BY <2>1, <2>2, <2>3 DEF OnePoll
<1>4. ASSUME NEW h \in Page, Load(h, t)
      PROVE  /\ reply' = reply /\ \A u \in Thread : Polling(u, g)' <=> Polling(u, g)
             /\ page'[g] = page[g] \/ (page[g].pc = "new" /\ page'[g].pc = "ready")
  BY <1>4 DEF TypeOK, Load, Polling
<1>5. ASSUME NEW h \in Page, OpenPoll(h, t)
      PROVE  /\ reply' = reply
             /\ \A u \in Thread : Polling(u, g)' <=> (u = t /\ g = h) \/ Polling(u, g)
             /\ ~\E f \in Page : Polling(t, f)
             /\ page[h].pc = "ready" /\ page'[h].pc = "waiting"
             /\ g # h => page'[g] = page[g]
  <2>1. PICK step \in {"parked", "select"} :
          work' = [work EXCEPT ![t] = [pc |-> step, page |-> h, seen |-> version[host[t]]]]
    BY <1>5, TakenUp
  <2>2. \A u \in Thread : Polling(u, g)' <=> (u = t /\ g = h) \/ Polling(u, g)
    BY <1>5, <2>1 DEF TypeOK, OpenPoll, Polling, At
  <2>3. page'[h].pc = "waiting" /\ (g # h => page'[g] = page[g])
    BY <1>5 DEF TypeOK, Tab, OpenPoll
  <2> QED
    BY <1>5, <2>2, <2>3 DEF OpenPoll, At, Polling
<1>6. CASE \E h \in Page : Load(h, t)
  BY <1>4, <1>6 DEF OnePoll
<1>7. CASE \E h \in Page : OpenPoll(h, t)
  <2>1. PICK h \in Page : OpenPoll(h, t)
    BY <1>7
  <2> QED
    BY <2>1, <1>5 DEF OnePoll
<1> QED
  BY <1>1, <1>2, <1>3, <1>6, <1>7 DEF Serve, OnePoll

LEMMA OnePollBrowse ==
  ASSUME TypeOK, OnePoll, NEW h \in Page, Browse(h)
  PROVE  OnePoll'
<1> SUFFICES ASSUME NEW g \in Page
    PROVE /\ page'[g].pc \in {"new", "ready"}
             => reply'[g] = None /\ \A u \in Thread : ~Polling(u, g)'
          /\ reply'[g] # None => page'[g].pc = "waiting" /\ \A u \in Thread : ~Polling(u, g)'
          /\ \A u, v \in Thread : Polling(u, g)' /\ Polling(v, g)' => u = v
  BY DEF OnePoll
<1>1. \A u \in Thread : Polling(u, g)' <=> Polling(u, g)
  BY DEF Browse, Deliver, DeliverRefresh, Leave, Polling
<1>2. g # h => page'[g] = page[g] /\ reply'[g] = reply[g]
  BY DEF TypeOK, Browse, Deliver, DeliverRefresh, Leave
<1>3. CASE Deliver(h)
  <2>1. reply[h] # None /\ reply'[h] = None
    BY <1>3 DEF TypeOK, Deliver
  <2> QED
    BY <2>1, <1>1, <1>2 DEF OnePoll
<1>4. CASE DeliverRefresh(h)
  <2>1. page'[h].pc = page[h].pc /\ reply' = reply
    BY <1>4 DEF TypeOK, Tab, DeliverRefresh
  <2> QED
    BY <2>1, <1>1, <1>2 DEF OnePoll
<1>5. CASE Leave(h)
  <2>1. page'[h].pc = "left" /\ reply'[h] = None
    BY <1>5 DEF TypeOK, Tab, Leave
  <2> QED
    BY <2>1, <1>1, <1>2 DEF OnePoll
<1> QED
  BY <1>3, <1>4, <1>5 DEF Browse

LEMMA MarksGrow ==
  ASSUME TypeOK, (\E t \in Thread : Serve(t)) \/ (\E g \in Page : Browse(g))
  PROVE  data.marks \in Nat /\ data'.marks \in Nat /\ data.marks <= data'.marks
<1>1. data.marks \in Nat
  BY DEF TypeOK, Data
<1>2. ASSUME NEW t \in Thread, Serve(t)
      PROVE  data'.marks = data.marks \/ data'.marks = data.marks + 1
  <2>1. CASE Mark(t)
    BY <2>1 DEF TypeOK, Data, Mark
  <2>2. CASE Publish(t)
    BY <2>2 DEF Publish
  <2>3. CASE ~(Mark(t) \/ Publish(t))
    BY <1>2, <2>3, ReadersCountNothing DEF Serve
  <2> QED
    BY <2>1, <2>2, <2>3
<1>3. ASSUME NEW g \in Page, Browse(g) PROVE data' = data
  BY <1>3 DEF Browse, Deliver, DeliverRefresh, Leave
<1> QED
  BY <1>1, <1>2, <1>3

\* A thread at work on a poll holds what it held, or has just read the version.
LEMMA SeenStep ==
  ASSUME TypeOK, Counted, SeenIsCommitted, UNCHANGED host,
         (\E t \in Thread : Serve(t)) \/ (\E g \in Page : Browse(g))
  PROVE  SeenIsCommitted'
<1> SUFFICES ASSUME NEW u \in Thread, NEW h \in Page, Polling(u, h)'
             PROVE  work'[u].seen <= data'.marks
  BY DEF SeenIsCommitted
<1>1. data.marks \in Nat /\ data'.marks \in Nat /\ data.marks <= data'.marks
  BY MarksGrow
<1>2. version[host[u]] \in Nat /\ version[host[u]] <= data.marks
  BY VersionIsCommitted, TopologyAssumption DEF TypeOK
<1>3. work'[u] = work[u] \/ work'[u].seen = version[host[u]]
  <2>1. ASSUME NEW t \in Thread, Mark(t) \/ Publish(t) \/ Silent(t) \/ Answer(t)
        PROVE  work'[u] = work[u]
    BY <2>1 DEF TypeOK, Mark, Publish, Silent, Answer, Goto, Polling, Idle
  <2>2. ASSUME NEW t \in Thread, Wake(t) \/ Expire(t)
        PROVE  work'[u] = work[u] \/ work'[u].seen = version[host[u]]
    <3>1. work' = [work EXCEPT ![t] = [pc |-> "select", page |-> work[t].page,
                                       seen |-> version[host[t]]]]
      BY <2>2, GoesOn
    <3> QED
      BY <3>1 DEF TypeOK
  <2>3. ASSUME NEW t \in Thread, NEW g \in Page, OpenPoll(g, t)
        PROVE  work'[u] = work[u] \/ work'[u].seen = version[host[u]]
    <3>1. PICK step \in {"parked", "select"} :
            work' = [work EXCEPT ![t] = [pc |-> step, page |-> g, seen |-> version[host[t]]]]
      BY <2>3, TakenUp
    <3> QED
      BY <3>1 DEF TypeOK
  <2>4. ASSUME NEW t \in Thread, NEW g \in Page, Load(g, t) \/ Refresh(g, t)
        PROVE  work'[u] = work[u]
    BY <2>4 DEF Load, Refresh
  <2>5. ASSUME NEW g \in Page, Browse(g) PROVE work'[u] = work[u]
    BY <2>5 DEF Browse, Deliver, DeliverRefresh, Leave
  <2> QED
    BY <2>1, <2>2, <2>3, <2>4, <2>5 DEF Serve
<1>4. CASE work'[u] = work[u]
  <2>1. Polling(u, h) /\ work[u].seen <= data.marks
    BY <1>4 DEF Polling, SeenIsCommitted
  <2>2. work[u].seen \in Nat
    BY <2>1, PollType DEF Polling, At
  <2> QED
    BY <1>1, <1>4, <2>1, <2>2
<1> QED
  BY <1>1, <1>2, <1>3, <1>4

\* An answer is read after its version.
LEMMA ReplyStep ==
  ASSUME TypeOK, SeenIsCommitted, ReplyCovers,
         (\E t \in Thread : Serve(t)) \/ (\E g \in Page : Browse(g))
  PROVE  ReplyCovers'
<1> SUFFICES ASSUME NEW g \in Page, reply'[g] # None
             PROVE  /\ reply'[g].version <= reply'[g].data.marks
                    /\ reply'[g].data.marks <= data'.marks
  BY DEF ReplyCovers
<1>1. data.marks \in Nat /\ data'.marks \in Nat /\ data.marks <= data'.marks
  BY MarksGrow
<1>2. ASSUME NEW t \in Thread, Answer(t), reply'[g] # reply[g]
      PROVE  reply'[g].version <= data.marks /\ reply'[g].data = data /\ data' = data
  <2>1. g = work[t].page /\ reply'[g] = [answer |-> "data", data |-> data, version |-> work[t].seen]
    BY <1>2 DEF TypeOK, Answer
  <2>2. work[t].seen <= data.marks
    BY <1>2, <2>1 DEF Answer, At, Polling, SeenIsCommitted
  <2> QED
    BY <1>2, <2>1, <2>2 DEF Answer
<1>3. ASSUME ~\E t \in Thread : Answer(t) PROVE reply'[g] = reply[g]
  <2>1. ASSUME NEW h \in Page, Browse(h) PROVE reply'[g] = reply[g]
    BY <2>1 DEF TypeOK, Browse, Deliver, DeliverRefresh, Leave
  <2>2. ASSUME NEW t \in Thread, Serve(t) PROVE reply' = reply
    BY <1>3, <2>2 DEF Serve, Mark, Publish, Silent, Wake, Expire, Load, OpenPoll, Refresh
  <2> QED
    BY <2>1, <2>2
<1>4. CASE reply'[g] = reply[g]
  <2>1. /\ reply[g].data.marks \in Nat
        /\ reply[g].version <= reply[g].data.marks /\ reply[g].data.marks <= data.marks
    BY <1>4 DEF TypeOK, Versioned, Data, ReplyCovers
  <2> QED
    BY <1>1, <1>4, <2>1
<1> QED
  BY <1>1, <1>2, <1>3, <1>4

\* A tab remembers the version of the answer it shows.
LEMMA GotStep ==
  ASSUME TypeOK, ReplyCovers, GotCovers,
         (\E t \in Thread : Serve(t)) \/ (\E g \in Page : Browse(g))
  PROVE  GotCovers'
<1> SUFFICES ASSUME NEW g \in Page
             PROVE  page'[g].since <= got'[g].marks /\ got'[g].marks <= data'.marks
  BY DEF GotCovers
<1>1. data.marks \in Nat /\ data'.marks \in Nat /\ data.marks <= data'.marks
  BY MarksGrow
<1>2. page[g] \in Tab /\ got[g].marks \in Nat
  BY DEF TypeOK, Data
<1>3. page[g].since <= got[g].marks /\ got[g].marks <= data.marks
  BY DEF GotCovers
<1>4. CASE page'[g].since = page[g].since /\ got'[g] = got[g]
  BY <1>1, <1>2, <1>3, <1>4
<1>5. CASE reply[g] # None /\ Deliver(g)
  <2>1. page'[g].since = reply[g].version /\ got'[g] = reply[g].data
    BY <1>5 DEF TypeOK, Deliver
  <2>2. /\ reply[g].version <= reply[g].data.marks /\ reply[g].data.marks <= data.marks
        /\ reply[g].data.marks \in Nat
    BY <1>5 DEF TypeOK, Versioned, Data, ReplyCovers
  <2> QED
    BY <1>1, <2>1, <2>2
<1>6. ASSUME NEW t \in Thread, Load(g, t)
      PROVE  page'[g].since <= got'[g].marks /\ got'[g].marks <= data'.marks
  <2>1. page'[g].since = 0 /\ got'[g] = data /\ data' = data
    BY <1>6 DEF TypeOK, Load
  <2> QED
    BY <1>1, <2>1
<1>7. ASSUME ~(\E t \in Thread : Load(g, t)), ~Deliver(g)
      PROVE  page'[g].since = page[g].since /\ got'[g] = got[g]
  <2>1. \A step : [page[g] EXCEPT !.pc = step].since = page[g].since
    BY <1>2 DEF Tab
  <2>2. ASSUME NEW h \in Page, Browse(h)
        PROVE  page'[g].since = page[g].since /\ got'[g] = got[g]
    <3>1. CASE Deliver(h)
      BY <1>7, <3>1 DEF TypeOK, Deliver
    <3>2. CASE DeliverRefresh(h)
      BY <1>2, <3>2 DEF TypeOK, Tab, DeliverRefresh
    <3>3. CASE Leave(h)
      BY <2>1, <3>3 DEF TypeOK, Leave
    <3> QED
      BY <2>2, <3>1, <3>2, <3>3 DEF Browse
  <2>3. ASSUME NEW t \in Thread, NEW h \in Page, Load(h, t) \/ OpenPoll(h, t) \/ Refresh(h, t)
        PROVE  page'[g].since = page[g].since /\ got'[g] = got[g]
    <3>1. CASE Load(h, t)
      BY <1>7, <3>1 DEF TypeOK, Load
    <3>2. CASE OpenPoll(h, t)
      BY <2>1, <3>2 DEF TypeOK, OpenPoll
    <3>3. CASE Refresh(h, t)
      BY <3>3 DEF Refresh
    <3> QED
      BY <2>3, <3>1, <3>2, <3>3
  <2>4. ASSUME NEW t \in Thread,
               Mark(t) \/ Publish(t) \/ Silent(t) \/ Wake(t) \/ Expire(t) \/ Answer(t)
        PROVE  page' = page /\ got' = got
    BY <2>4 DEF Mark, Publish, Silent, Wake, Expire, Answer
  <2> QED
    BY <2>2, <2>3, <2>4 DEF Serve
<1> QED
  BY <1>4, <1>5, <1>6, <1>7 DEF Deliver

\* While a tab waits its version stays, and so does that of its one poll.
LEMMA ParkedStep ==
  ASSUME TypeOK, OnePoll, ParkedOnSince,
         (\E t \in Thread : Serve(t)) \/ (\E g \in Page : Browse(g))
  PROVE  ParkedOnSince'
<1> SUFFICES ASSUME NEW u \in Thread, At(u, "parked")', page'[work'[u].page].pc = "waiting"
             PROVE  work'[u].seen = page'[work'[u].page].since
  BY DEF ParkedOnSince
<1>1. ASSUME work'[u] = work[u], page'[work[u].page] = page[work[u].page]
      PROVE  work'[u].seen = page'[work'[u].page].since
  BY <1>1 DEF At, ParkedOnSince
<1>2. ASSUME work'[u] = work[u] PROVE Polling(u, work[u].page) /\ work[u].page \in Page
  BY <1>2, PollType DEF At, Polling
<1>3. ASSUME NEW t \in Thread, Mark(t) \/ Publish(t) \/ Silent(t) \/ Answer(t)
      PROVE  work'[u] = work[u] /\ page' = page
  BY <1>3 DEF TypeOK, Mark, Publish, Silent, Answer, Goto, At, Idle
<1>4. ASSUME NEW t \in Thread, Wake(t) \/ Expire(t)
      PROVE  work'[u] = work[u] /\ page' = page
  <2>1. work' = [work EXCEPT ![t] = [pc |-> "select", page |-> work[t].page,
                                     seen |-> version[host[t]]]]
    BY <1>4, GoesOn
  <2>2. page' = page
    BY <1>4 DEF Wake, Expire
  <2> QED
    BY <2>1, <2>2 DEF TypeOK, At
<1>5. ASSUME NEW t \in Thread, NEW g \in Page, OpenPoll(g, t)
      PROVE  work'[u].seen = page'[work'[u].page].since
  <2>1. PICK step \in {"parked", "select"} :
          /\ work' = [work EXCEPT ![t] = [pc |-> step, page |-> g, seen |-> version[host[t]]]]
          /\ step = "parked" => version[host[t]] = page[g].since
    BY <1>5, TakenUp
  <2>2. page[g].pc = "ready" /\ page[g] \in Tab
    BY <1>5 DEF TypeOK, OpenPoll
  <2>3. page'[g].since = page[g].since /\ \A h \in Page \ {g} : page'[h] = page[h]
    BY <1>5, <2>2 DEF TypeOK, OpenPoll, Tab
  <2>4. CASE u = t
    <3>1. work'[u] = [pc |-> step, page |-> g, seen |-> version[host[t]]]
      BY <2>1, <2>4 DEF TypeOK
    <3>2. step = "parked"
      BY <3>1 DEF At
    <3> QED
      BY <2>1, <2>3, <3>1, <3>2
  <2>5. CASE u # t
    <3>1. work'[u] = work[u]
      BY <2>1, <2>5 DEF TypeOK
    <3>2. work[u].page # g
      BY <3>1, <1>2, <2>2 DEF OnePoll
    <3> QED
      BY <3>1, <3>2, <1>1, <1>2, <2>3
  <2> QED
    BY <2>4, <2>5
<1>6. ASSUME NEW t \in Thread, NEW g \in Page, Load(g, t) \/ Refresh(g, t)
      PROVE  work'[u] = work[u] /\ page'[work[u].page] = page[work[u].page]
  <2>1. work' = work
    BY <1>6 DEF Load, Refresh
  <2>2. CASE Load(g, t)
    BY <2>1, <2>2, <1>2 DEF TypeOK, Load
  <2>3. CASE Refresh(g, t)
    BY <2>1, <2>3 DEF Refresh
  <2> QED
    BY <1>6, <2>2, <2>3
<1>7. ASSUME NEW g \in Page, Browse(g)
      PROVE  work'[u].seen = page'[work'[u].page].since
  <2>1. work'[u] = work[u]
    BY <1>7 DEF Browse, Deliver, DeliverRefresh, Leave
  <2>2. work[u].page \in Page /\ page[work[u].page] \in Tab /\ page[g] \in Tab
    BY <2>1, <1>2 DEF TypeOK
  <2>3. CASE Deliver(g)
    BY <2>1, <2>2, <2>3, <1>1 DEF TypeOK, Deliver
  <2>4. CASE Leave(g)
    BY <2>1, <2>2, <2>4, <1>1 DEF TypeOK, Leave, Tab
  <2>5. CASE DeliverRefresh(g)
    <3>1. /\ page'[work[u].page].since = page[work[u].page].since
          /\ page'[work[u].page].pc = page[work[u].page].pc
      BY <2>2, <2>5 DEF TypeOK, DeliverRefresh, Tab
    <3> QED
      BY <2>1, <3>1 DEF At, ParkedOnSince
  <2> QED
    BY <1>7, <2>3, <2>4, <2>5 DEF Browse
<1> QED
  BY <1>1, <1>3, <1>4, <1>5, <1>6, <1>7 DEF Serve

\* In every topology, with any number of processes, threads and tabs: as long as
\* no process has restarted, a poll that is left parked by a process that
\* published every mark belongs to a tab that was given every mark.
THEOREM ParkedPollsAreFresh == Spec => []ParkedIsFresh
<1>1. Init => Unrestarted
  <2> SUFFICES ASSUME Init PROVE Counted /\ OnePoll /\ Covers
    BY DEF Unrestarted
  <2>1. \A t \in Thread : work[t] = Idle
    BY DEF Init
  <2>2. Counted
    <3>1. \A p \in Process : Publishing(p) = {}
      BY <2>1 DEF Publishing, At, Idle
    <3>2. IsFiniteSet({}) /\ Cardinality({}) = 0
      BY FS_EmptySet, Zenon
    <3>3. data.marks = 0 /\ \A p \in Process : version[p] = 0
      BY DEF Init, NoData
    <3>4. 0 + 0 <= 0
      OBVIOUS
    <3> QED
      BY <3>1, <3>2, <3>3, <3>4, Zenon DEF Counted
  <2>3. OnePoll
    BY <2>1 DEF Init, OnePoll, Polling, Idle
  <2>4. Covers
    BY <2>1 DEF Init, Covers, SeenIsCommitted, ReplyCovers, GotCovers, ParkedOnSince,
                Polling, At, Idle, NoData
  <2> QED
    BY <2>2, <2>3, <2>4
<1>2. TypeOK /\ Unrestarted /\ [Next]_<<host, vars>> => Unrestarted'
  <2> SUFFICES ASSUME TypeOK, Unrestarted, [Next]_<<host, vars>>, restarts' = 0
               PROVE  Counted' /\ OnePoll' /\ Covers'
    BY DEF Unrestarted
  <2>1. CASE UNCHANGED <<host, vars>>
    <3>1. \A t \in Thread, g \in Page : Polling(t, g)' <=> Polling(t, g)
      BY <2>1 DEF vars, Polling
    <3>2. \A p \in Process : Publishing(p)' = Publishing(p)
      BY <2>1 DEF vars, Publishing, At
    <3>3. restarts = 0
      BY <2>1 DEF vars
    <3>4. Counted'
      BY <2>1, <3>2, <3>3 DEF vars, Unrestarted, Counted
    <3>5. OnePoll'
      BY <2>1, <3>1, <3>3 DEF vars, Unrestarted, OnePoll
    <3>6. Covers'
      BY <2>1, <3>1, <3>3 DEF vars, Unrestarted, Covers, SeenIsCommitted, ReplyCovers,
                             GotCovers, ParkedOnSince, At
    <3> QED
      BY <3>4, <3>5, <3>6
  <2>2. ASSUME (\E t \in Thread : Serve(t)) \/ (\E g \in Page : Browse(g)), UNCHANGED host
        PROVE  Counted' /\ OnePoll' /\ Covers'
    <3>1. restarts = 0
      BY <2>2 DEF Serve, Mark, Publish, Silent, Wake, Expire, Answer, Load, OpenPoll, Refresh,
                  Browse, Deliver, DeliverRefresh, Leave
    <3>2. Counted /\ OnePoll /\ Covers
      BY <3>1 DEF Unrestarted
    <3>3. Counted'
      BY <2>2, <3>2, CountedStep
    <3>4. OnePoll'
      BY <2>2, <3>2, OnePollStep, OnePollBrowse
    <3>5. Covers'
      BY <2>2, <3>2, SeenStep, ReplyStep, GotStep, ParkedStep DEF Covers
    <3> QED
      BY <3>3, <3>4, <3>5
  <2>3. ~\E p \in {host[t] : t \in Thread} : Restart(p)
    BY DEF TypeOK, Restart
  <2> QED
    BY <2>1, <2>2, <2>3 DEF Next
<1>3. TypeOK /\ Unrestarted => ParkedIsFresh
  <2> SUFFICES ASSUME TypeOK, Unrestarted, NEW t \in Thread,
                      At(t, "parked"), page[work[t].page].pc = "waiting",
                      version[host[t]] = work[t].seen,
                      version[host[t]] = data.marks, restarts = 0
               PROVE  got[work[t].page].marks = data.marks
    BY DEF ParkedIsFresh
  <2>1. work[t].page \in Page
    BY PollType
  <2>2. data.marks \in Nat /\ got[work[t].page].marks \in Nat
    BY <2>1 DEF TypeOK, Data
  <2>3. page[work[t].page].since = data.marks
    BY DEF Unrestarted, Covers, ParkedOnSince
  <2>4. /\ page[work[t].page].since <= got[work[t].page].marks
        /\ got[work[t].page].marks <= data.marks
    BY <2>1 DEF Unrestarted, Covers, GotCovers
  <2> QED
    BY <2>2, <2>3, <2>4
<1> QED
  BY <1>1, <1>2, <1>3, MonitorTypeCorrect, PTL DEF Spec


-----------------------------------------------------------------------------
(* BrowserSession. *)

LEMMA CookieKinds ==
  /\ Browser!Empty \in Browser!Cookie /\ Browser!Silent \notin Browser!Cookie
  /\ ~Browser!Empty.user /\ Browser!Empty.captcha = 0 /\ Browser!Empty.challenge = 0
  /\ Browser!Silent.user = FALSE /\ Browser!Silent.captcha = -1 /\ Browser!Silent.challenge = 0
BY TokenAssumption
DEF Browser!Empty, Browser!Silent, Browser!Cookie, Browser!Token, Browser!None

LEMMA TabAt ==
  ASSUME Browser!TypeOK, NEW t \in BrowserTab
  PROVE  /\ t \in Browser!Awaiting <=> tab[t] \in Browser!Reply
         /\ t \notin Browser!Awaiting <=> tab[t] = Browser!Idle
         /\ t \in Browser!Awaiting =>
              /\ tab[t].cookie \in Browser!Cookie \cup {Browser!Silent}
              /\ tab[t].takes \in Browser!Token \cup {0}
              /\ tab[t].shows \in Browser!Token \cup {0}
              /\ tab[t].alone \in BOOLEAN /\ tab[t].does \in {"login", "logout", "other"}
<1>1. Browser!Idle \notin Browser!Reply
  BY DEF Browser!Idle, Browser!Reply
<1>2. tab[t] \in Browser!Reply \cup {Browser!Idle}
  BY DEF Browser!TypeOK
<1>3. tab[t] \in Browser!Reply =>
        /\ tab[t].cookie \in Browser!Cookie \cup {Browser!Silent}
        /\ tab[t].takes \in Browser!Token \cup {0}
        /\ tab[t].shows \in Browser!Token \cup {0}
        /\ tab[t].alone \in BOOLEAN /\ tab[t].does \in {"login", "logout", "other"}
  BY DEF Browser!Reply, Browser!None
<1> QED
  BY <1>1, <1>2, <1>3 DEF Browser!Awaiting

\* A copy of the cookie has tokens that were issued, no token in both places.
Sane(c, k) ==
  /\ c.captcha <= k /\ c.challenge <= k
  /\ c.captcha = c.challenge => c.captcha = 0

Free(c, n) == c.captcha # n /\ c.challenge # n

\* A response that is said to be alone is.
AloneInv ==
  \A t \in Browser!Awaiting : tab[t].alone => \A u \in Browser!Awaiting : u = t

SaneInv ==
  Sane(cookie, issued) /\ \A t \in Browser!Awaiting : Sane(tab[t].cookie, issued)

\* After a logout that met nobody only a login is about to bring a user back.
LeftInv ==
  /\ left = "alone" =>
       /\ ~cookie.user
       /\ \A t \in Browser!Awaiting : tab[t].does = "login" \/ ~tab[t].cookie.user
  /\ \A t \in Browser!Awaiting :
       tab[t].does = "logout" =>
         /\ ~tab[t].cookie.user
         /\ tab[t].alone /\ tab[t].cookie = Browser!Silent => ~cookie.user

\* A token that was accepted is in no copy of the cookie any more, or only one
\* response is awaited and takes it out.
UsedInv ==
  \A k \in Browser!Token : accepted[k] > 0 /\ k \notin met =>
    /\ accepted[k] = 1 /\ k <= issued
    /\ \/ \E t \in Browser!Awaiting :
             /\ tab[t].takes = k /\ tab[t].cookie # Browser!Silent /\ Free(tab[t].cookie, k)
             /\ \A u \in Browser!Awaiting : u = t
       \/ /\ Free(cookie, k)
          /\ \A t \in Browser!Awaiting : Free(tab[t].cookie, k)

BrowserInv == Browser!TypeOK /\ AloneInv /\ SaneInv /\ LeftInv /\ UsedInv

\* What every request has in common.
LEMMA SendKeeps ==
  ASSUME BrowserInv, NEW t \in BrowserTab, NEW does \in {"login", "logout", "other"},
         NEW c \in Browser!Cookie, NEW shows \in Browser!Token \cup {0},
         NEW takes \in Browser!Token \cup {0},
         Browser!Send(t, does, c, shows, takes),
         issued' \in 0..MaxToken, issued <= issued', Sane(c, issued'),
         \A k \in Browser!Token : k <= issued /\ Free(cookie, k) => Free(c, k),
         takes # 0 => ~Free(cookie, takes) /\ Free(c, takes),
         does = "login" \/ ~c.user \/ cookie.user,
         does = "logout" => ~c.user
  PROVE  BrowserInv'
<1> USE DEF Browser!None
<1> DEFINE said(sets) ==
      tab' = [u \in BrowserTab |->
        IF u = t THEN [does |-> does, alone |-> Browser!Awaiting = {}, cookie |-> sets,
                       shows |-> shows, takes |-> takes]
        ELSE IF u \in Browser!Awaiting THEN [tab[u] EXCEPT !.alone = FALSE]
        ELSE Browser!Idle]
<1>1. PICK sets \in {c, Browser!Silent} :
        (c.user \/ c # cookie => sets = c) /\ said(sets)
  <2>1. \E sets \in IF c.user \/ c # cookie THEN {c} ELSE {c, Browser!Silent} : said(sets)
    BY Zenon DEF Browser!Send
  <2>2. PICK sets \in IF c.user \/ c # cookie THEN {c} ELSE {c, Browser!Silent} : said(sets)
    BY <2>1, Zenon
  <2> HIDE DEF said
  <2>3. sets \in {c, Browser!Silent} /\ (c.user \/ c # cookie => sets = c)
    OBVIOUS
  <2> QED
    BY <2>2, <2>3, Zenon
<1>2. /\ t \notin Browser!Awaiting
      /\ accepted' = [k \in Browser!Token |->
           IF k = takes /\ accepted[k] < 2 THEN accepted[k] + 1 ELSE accepted[k]]
      /\ met' = (met \cup {tab[u].takes : u \in Browser!Awaiting}
                     \cup IF Browser!Awaiting = {} THEN {} ELSE {takes}) \ {0}
      /\ UNCHANGED <<cookie, shown, left>>
  BY DEF Browser!Send
<1> DEFINE mine == [does |-> does, alone |-> Browser!Awaiting = {}, cookie |-> sets,
                    shows |-> shows, takes |-> takes]
<1>3. sets \in Browser!Cookie \cup {Browser!Silent} /\ Sane(sets, issued') /\ sets.user \in BOOLEAN
  <2>1. Sane(Browser!Silent, issued')
    BY CookieKinds DEF Sane
  <2>2. c.user \in BOOLEAN /\ Browser!Silent.user \in BOOLEAN
    BY CookieKinds DEF Browser!Cookie
  <2> QED
    BY <1>1, <2>1, <2>2
<1>4. /\ mine \in Browser!Reply /\ mine # Browser!Idle
      /\ mine.does = does /\ mine.cookie = sets /\ mine.takes = takes
      /\ mine.alone = (Browser!Awaiting = {})
  BY <1>3 DEF Browser!Reply, Browser!Idle
<1>5. /\ tab'[t] = mine
      /\ \A u \in BrowserTab \ {t} :
           tab'[u] = IF u \in Browser!Awaiting THEN [tab[u] EXCEPT !.alone = FALSE]
                     ELSE Browser!Idle
  BY <1>1, Zenon
<1>6. ASSUME NEW u \in Browser!Awaiting
      PROVE  /\ u \in BrowserTab /\ u # t
             /\ tab'[u] \in Browser!Reply /\ tab'[u] # Browser!Idle
             /\ ~tab'[u].alone /\ tab'[u].cookie = tab[u].cookie
             /\ tab'[u].takes = tab[u].takes /\ tab'[u].does = tab[u].does
  <2>1. u \in BrowserTab /\ u # t
    BY <1>2 DEF Browser!Awaiting
  <2>2. tab[u] \in Browser!Reply
    BY <2>1, TabAt DEF BrowserInv
  <2>3. tab'[u] = [tab[u] EXCEPT !.alone = FALSE]
    BY <1>5, <2>1
  <2> QED
    BY <2>1, <2>2, <2>3 DEF Browser!Reply, Browser!Idle
<1> HIDE DEF mine
<1>7. Browser!Awaiting' = Browser!Awaiting \cup {t}
  <2>1. \A u \in BrowserTab : u \in Browser!Awaiting' <=> tab'[u] # Browser!Idle
    BY DEF Browser!Awaiting
  <2>2. \A u \in Browser!Awaiting' \cup Browser!Awaiting : u \in BrowserTab
    BY DEF Browser!Awaiting
  <2> QED
    BY <1>4, <1>5, <1>6, <2>1, <2>2
<1>8. Browser!TypeOK'
  <2>1. tab' \in [BrowserTab -> Browser!Reply \cup {Browser!Idle}]
    <3>1. \A u \in BrowserTab : tab'[u] \in Browser!Reply \cup {Browser!Idle}
      BY <1>4, <1>5, <1>6
    <3>2. tab' = [u \in BrowserTab |-> tab'[u]]
      BY <1>1
    <3> QED
      BY <3>1, <3>2, Zenon
  <2>2. accepted' \in [Browser!Token -> 0..2]
    BY <1>2 DEF BrowserInv, Browser!TypeOK
  <2>3. met' \subseteq Browser!Token
    <3>1. \A u \in Browser!Awaiting : tab[u].takes \in Browser!Token \cup {0}
      BY <1>6, TabAt DEF BrowserInv
    <3> QED
      BY <1>2, <3>1 DEF BrowserInv, Browser!TypeOK
  <2> QED
    BY <1>2, <2>1, <2>2, <2>3 DEF BrowserInv, Browser!TypeOK
<1>9. AloneInv'
  BY <1>4, <1>5, <1>6, <1>7 DEF AloneInv
<1>10. SaneInv'
  <2>1. cookie \in Browser!Cookie /\ \A u \in Browser!Awaiting :
          tab[u].cookie \in Browser!Cookie \cup {Browser!Silent}
    BY <1>6, TabAt DEF BrowserInv, Browser!TypeOK
  <2>2. \A d \in Browser!Cookie \cup {Browser!Silent} : d.captcha \in Int /\ d.challenge \in Int
    BY CookieKinds, TokenAssumption DEF Browser!Cookie, Browser!Token
  <2>3. issued \in Int /\ issued' \in Int
    BY TokenAssumption DEF BrowserInv, Browser!TypeOK
  <2>4. \A d \in Browser!Cookie \cup {Browser!Silent} : Sane(d, issued) => Sane(d, issued')
    BY <2>2, <2>3 DEF Sane
  <2> QED
    BY <1>2, <1>3, <1>4, <1>5, <1>6, <1>7, <2>1, <2>4 DEF BrowserInv, SaneInv
<1>11. LeftInv'
  <2>1. ~Browser!Silent.user /\ cookie' = cookie /\ left' = left
    BY <1>2, CookieKinds
  <2>2. sets.user => c.user
    BY <1>1, <2>1
  <2>3. sets = Browser!Silent => ~cookie.user
    BY <1>1, <2>1, CookieKinds
  <2>4. left = "alone" =>
          /\ ~cookie.user
          /\ \A u \in Browser!Awaiting' : tab'[u].does = "login" \/ ~tab'[u].cookie.user
    BY <1>4, <1>5, <1>6, <1>7, <2>2 DEF BrowserInv, LeftInv
  <2>5. \A u \in Browser!Awaiting' : tab'[u].does = "logout" =>
          /\ ~tab'[u].cookie.user
          /\ tab'[u].alone /\ tab'[u].cookie = Browser!Silent => ~cookie.user
    BY <1>4, <1>5, <1>6, <1>7, <2>2, <2>3 DEF BrowserInv, LeftInv
  <2> QED
    BY <2>1, <2>4, <2>5 DEF LeftInv
<1>12. UsedInv'
  <2> SUFFICES ASSUME NEW k \in Browser!Token, accepted'[k] > 0, k \notin met'
               PROVE  /\ accepted'[k] = 1 /\ k <= issued'
                      /\ \/ \E u \in Browser!Awaiting' :
                               /\ tab'[u].takes = k /\ tab'[u].cookie # Browser!Silent
                               /\ Free(tab'[u].cookie, k)
                               /\ \A w \in Browser!Awaiting' : w = u
                         \/ /\ Free(cookie, k)
                            /\ \A u \in Browser!Awaiting' : Free(tab'[u].cookie, k)
    BY <1>2 DEF UsedInv
  <2>1. k \in Nat \ {0} /\ accepted[k] \in 0..2 /\ issued \in Nat /\ issued' \in Nat
    BY TokenAssumption DEF BrowserInv, Browser!TypeOK, Browser!Token
  <2>2. k \notin met /\ \A u \in Browser!Awaiting : tab[u].takes # k
    BY <1>2, <2>1
  <2>3. takes = k => Browser!Awaiting = {}
    BY <1>2, <2>1
  <2>4. CASE takes = k
    <3>1. accepted[k] = 0
      BY <2>1, <2>2, <2>3, <2>4 DEF BrowserInv, UsedInv
    <3>2. accepted'[k] = 1
      BY <1>2, <2>4, <3>1
    <3>3. k <= issued
      BY <2>1, <2>4 DEF BrowserInv, SaneInv, Sane, Free
    <3>4. sets = c /\ c # Browser!Silent /\ Free(c, k)
      BY <1>1, <2>1, <2>4, CookieKinds
    <3> QED
      BY <1>4, <1>5, <1>7, <2>1, <2>3, <2>4, <3>2, <3>3, <3>4
  <2>5. CASE takes # k
    <3>1. accepted'[k] = accepted[k]
      BY <1>2, <2>5
    <3>2. /\ accepted[k] = 1 /\ k <= issued
          /\ Free(cookie, k) /\ \A u \in Browser!Awaiting : Free(tab[u].cookie, k)
      BY <2>2, <3>1 DEF BrowserInv, UsedInv
    <3>3. Free(sets, k)
      <4>1. Free(Browser!Silent, k)
        BY <2>1, CookieKinds DEF Free
      <4> QED
        BY <1>1, <3>2, <4>1
    <3> QED
      BY <1>4, <1>5, <1>6, <1>7, <2>1, <3>1, <3>2, <3>3
  <2> QED
    BY <2>4, <2>5
<1> QED
  BY <1>8, <1>9, <1>10, <1>11, <1>12 DEF BrowserInv

\* A response that arrives is the whole cookie, one that is lost meets its token.
LEMMA AnsweredKeeps ==
  ASSUME BrowserInv, NEW t \in BrowserTab, Browser!Arrive(t) \/ Browser!Lose(t)
  PROVE  BrowserInv'
<1> USE DEF Browser!None
<1>1. /\ t \in Browser!Awaiting /\ tab' = [tab EXCEPT ![t] = Browser!Idle]
      /\ UNCHANGED <<issued, accepted>>
  BY DEF Browser!Arrive, Browser!Lose
<1>2. /\ tab' \in [BrowserTab -> Browser!Reply \cup {Browser!Idle}]
      /\ tab'[t] = Browser!Idle /\ \A u \in BrowserTab \ {t} : tab'[u] = tab[u]
  BY <1>1 DEF BrowserInv, Browser!TypeOK
<1>3. Browser!Awaiting' = Browser!Awaiting \ {t}
  BY <1>2 DEF Browser!Awaiting
<1>4. /\ Browser!Awaiting \subseteq BrowserTab
      /\ \A u \in Browser!Awaiting' : tab'[u] = tab[u] /\ u \in Browser!Awaiting /\ u # t
  BY <1>2, <1>3 DEF Browser!Awaiting
<1>5. /\ tab[t].cookie \in Browser!Cookie \cup {Browser!Silent}
      /\ tab[t].takes \in Browser!Token \cup {0}
      /\ tab[t].shows \in Browser!Token \cup {0}
      /\ tab[t].alone \in BOOLEAN /\ tab[t].does \in {"login", "logout", "other"}
  BY <1>1, TabAt DEF BrowserInv
<1>6. AloneInv'
  BY <1>4 DEF BrowserInv, AloneInv
<1>7. CASE Browser!Lose(t)
  <2>1. UNCHANGED <<cookie, shown, left>> /\ met' = (met \cup {tab[t].takes}) \ {0}
    BY <1>7 DEF Browser!Lose
  <2>2. Browser!TypeOK'
    BY <1>1, <1>2, <1>5, <2>1 DEF BrowserInv, Browser!TypeOK
  <2>3. SaneInv' /\ LeftInv'
    BY <1>1, <1>4, <2>1 DEF BrowserInv, SaneInv, LeftInv
  <2>4. UsedInv'
    <3>1. \A k \in Browser!Token : k # 0
      BY DEF Browser!Token
    <3> QED
      BY <1>1, <1>4, <2>1, <3>1 DEF BrowserInv, UsedInv
  <2> QED
    BY <1>6, <2>2, <2>3, <2>4 DEF BrowserInv
<1>8. CASE Browser!Arrive(t)
  <2>1. /\ cookie' = IF tab[t].cookie = Browser!Silent THEN cookie ELSE tab[t].cookie
        /\ shown' = [shown EXCEPT ![t] = IF tab[t].shows = 0 THEN @ ELSE tab[t].shows]
        /\ met' = met
    BY <1>8 DEF Browser!Arrive
  <2>2. /\ tab[t].does = "logout" => left' = IF tab[t].alone THEN "alone" ELSE "amid"
        /\ tab[t].does = "login" => left' = "no"
        /\ tab[t].does = "other" => left' = left
    BY <1>8 DEF Browser!Arrive
  <2>3. Browser!TypeOK'
    <3>1. cookie' \in Browser!Cookie /\ left' \in {"no", "alone", "amid"}
      BY <1>5, <2>1, <2>2 DEF BrowserInv, Browser!TypeOK
    <3>2. shown' \in [BrowserTab -> Browser!Token \cup {0}]
      BY <1>5, <2>1 DEF BrowserInv, Browser!TypeOK
    <3> QED
      BY <1>1, <1>2, <2>1, <3>1, <3>2 DEF BrowserInv, Browser!TypeOK
  <2>4. SaneInv'
    BY <1>1, <1>4, <2>1 DEF BrowserInv, SaneInv
  <2>5. LeftInv'
    <3>1. left' = "alone" =>
            /\ ~cookie'.user
            /\ \A u \in Browser!Awaiting' : tab'[u].does = "login" \/ ~tab'[u].cookie.user
      <4>1. CASE tab[t].does = "logout"
        <5>1. tab[t].alone => Browser!Awaiting' = {}
          BY <1>1, <1>4 DEF BrowserInv, AloneInv
        <5>2. tab[t].alone => ~cookie'.user
          BY <1>1, <2>1, <4>1 DEF BrowserInv, LeftInv
        <5> QED
          BY <2>2, <4>1, <5>1, <5>2
      <4>2. CASE tab[t].does = "login"
        BY <2>2, <4>2
      <4>3. CASE tab[t].does = "other"
        BY <1>1, <1>4, <2>1, <2>2, <4>3 DEF BrowserInv, LeftInv
      <4> QED
        BY <1>5, <4>1, <4>2, <4>3
    <3>2. \A u \in Browser!Awaiting' : tab'[u].does = "logout" =>
            ~tab'[u].cookie.user /\ ~tab'[u].alone
      BY <1>1, <1>4 DEF BrowserInv, AloneInv, LeftInv
    <3> QED
      BY <3>1, <3>2 DEF LeftInv
  <2>6. UsedInv'
    BY <1>1, <1>4, <2>1 DEF BrowserInv, UsedInv
  <2> QED
    BY <1>6, <2>3, <2>4, <2>5, <2>6 DEF BrowserInv
<1> QED
  BY <1>7, <1>8

LEMMA RequestKeeps ==
  ASSUME BrowserInv, NEW t \in BrowserTab,
         \/ Browser!CaptchaImage(t) \/ Browser!Login(t) \/ Browser!Challenge(t)
         \/ Browser!Mark(t) \/ Browser!Logout(t) \/ Browser!Page(t)
  PROVE  BrowserInv'
<1> USE DEF Browser!None
<1>1. /\ cookie \in Browser!Cookie /\ Sane(cookie, issued)
      /\ cookie.user \in BOOLEAN
      /\ cookie.captcha \in Browser!Token \cup {0}
      /\ cookie.challenge \in Browser!Token \cup {0}
      /\ issued \in 0..MaxToken /\ MaxToken \in Nat
      /\ shown \in [BrowserTab -> Browser!Token \cup {0}]
  BY TokenAssumption DEF BrowserInv, SaneInv, Browser!TypeOK, Browser!Cookie
<1>2. cookie = [user |-> cookie.user, challenge |-> cookie.challenge, captcha |-> cookie.captcha]
  BY <1>1 DEF Browser!Cookie
<1>3. \A k \in Browser!Token : k \in Nat \ {0} /\ k \in 1..MaxToken
  BY <1>1 DEF Browser!Token
<1> DEFINE drawn == [user |-> cookie.user, challenge |-> cookie.challenge, captcha |-> issued + 1]
           asked == [user |-> cookie.user, challenge |-> issued + 1, captcha |-> cookie.captcha]
           tried == [user |-> cookie.user, challenge |-> cookie.challenge, captcha |-> 0]
           taken == [user |-> cookie.user, challenge |-> 0, captcha |-> cookie.captcha]
           named == [user |-> TRUE, challenge |-> 0, captcha |-> 0]
           empty == [user |-> FALSE, challenge |-> 0, captcha |-> 0]
<1>4. /\ [cookie EXCEPT !.captcha = issued + 1] = drawn
      /\ [cookie EXCEPT !.challenge = issued + 1] = asked
      /\ [cookie EXCEPT !.captcha = 0] = tried
      /\ [cookie EXCEPT !.challenge = 0] = taken
  BY <1>1, <1>2
<1>5. [Browser!Empty EXCEPT !.user = TRUE] = named /\ Browser!Empty = empty
  <2>1. Browser!Empty = empty
    BY DEF Browser!Empty
  <2>2. \A a, b : [[user |-> b, challenge |-> 0, captcha |-> 0] EXCEPT !.user = a]
                 = [user |-> a, challenge |-> 0, captcha |-> 0]
    OBVIOUS
  <2> QED
    BY <2>1, <2>2, Zenon
<1>6. CASE Browser!CaptchaImage(t)
  <2>1. issued < MaxToken /\ issued' = issued + 1 /\ Browser!Send(t, "other", drawn, issued + 1, 0)
    BY <1>4, <1>6, Zenon DEF Browser!CaptchaImage
  <2>2. drawn \in Browser!Cookie /\ issued + 1 \in Browser!Token
    BY <1>1, <2>1 DEF Browser!Cookie, Browser!Token
  <2>3. Sane(drawn, issued') /\ issued' \in 0..MaxToken /\ issued <= issued'
    BY <1>1, <1>3, <2>1 DEF Sane
  <2>4. \A k \in Browser!Token : k <= issued /\ Free(cookie, k) => Free(drawn, k)
    BY <1>1, <1>3 DEF Free
  <2>5. ~drawn.user \/ cookie.user
    BY <1>1
  <2> HIDE DEF drawn
  <2> QED
    BY <2>1, <2>2, <2>3, <2>4, <2>5, SendKeeps
<1>7. CASE Browser!Challenge(t)
  <2>1. issued < MaxToken /\ issued' = issued + 1 /\ Browser!Send(t, "other", asked, issued + 1, 0)
    BY <1>4, <1>7, Zenon DEF Browser!Challenge
  <2>2. asked \in Browser!Cookie /\ issued + 1 \in Browser!Token
    BY <1>1, <2>1 DEF Browser!Cookie, Browser!Token
  <2>3. Sane(asked, issued') /\ issued' \in 0..MaxToken /\ issued <= issued'
    BY <1>1, <1>3, <2>1 DEF Sane
  <2>4. \A k \in Browser!Token : k <= issued /\ Free(cookie, k) => Free(asked, k)
    BY <1>1, <1>3 DEF Free
  <2>5. ~asked.user \/ cookie.user
    BY <1>1
  <2> HIDE DEF asked
  <2> QED
    BY <2>1, <2>2, <2>3, <2>4, <2>5, SendKeeps
<1>8. CASE Browser!Login(t)
  <2>1. issued' = issued
    BY <1>8 DEF Browser!Login
  <2>2. /\ Browser!CaptchaHolds(t) /\ Browser!Send(t, "login", named, 0, shown[t])
        \/ /\ Browser!CaptchaHolds(t) /\ Browser!Send(t, "other", tried, 0, shown[t])
        \/ Browser!Send(t, "other", tried, 0, 0)
    BY <1>4, <1>5, <1>8, Zenon DEF Browser!Login
  <2>3. named \in Browser!Cookie /\ tried \in Browser!Cookie /\ issued' \in 0..MaxToken
    BY <1>1, <2>1 DEF Browser!Cookie
  <2>4. Sane(named, issued') /\ Sane(tried, issued') /\ issued <= issued'
    BY <1>1, <1>3, <2>1 DEF Sane
  <2>5. \A k \in Browser!Token :
          Free(named, k) /\ (k <= issued /\ Free(cookie, k) => Free(tried, k))
    BY <1>1, <1>3 DEF Free
  <2>6. Browser!CaptchaHolds(t) =>
          /\ shown[t] \in Browser!Token /\ ~Free(cookie, shown[t]) /\ Free(tried, shown[t])
    BY <1>1, <1>3 DEF Free, Sane, Browser!CaptchaHolds
  <2>7. ~tried.user \/ cookie.user
    BY <1>1
  <2> HIDE DEF named, tried
  <2>8. CASE Browser!CaptchaHolds(t) /\ Browser!Send(t, "login", named, 0, shown[t])
    BY <2>3, <2>4, <2>5, <2>6, <2>8, SendKeeps
  <2>9. CASE Browser!CaptchaHolds(t) /\ Browser!Send(t, "other", tried, 0, shown[t])
    BY <2>3, <2>4, <2>5, <2>6, <2>7, <2>9, SendKeeps
  <2>10. CASE Browser!Send(t, "other", tried, 0, 0)
    BY <2>3, <2>4, <2>5, <2>7, <2>10, SendKeeps
  <2> QED
    BY <2>2, <2>8, <2>9, <2>10
<1>9. CASE Browser!Mark(t)
  <2>1. cookie.user /\ issued' = issued /\ Browser!Send(t, "other", taken, 0, Browser!Taken(t))
    BY <1>4, <1>9, Zenon DEF Browser!Mark
  <2>2. taken \in Browser!Cookie /\ issued' \in 0..MaxToken
    BY <1>1, <2>1 DEF Browser!Cookie
  <2>3. Sane(taken, issued') /\ issued <= issued'
    BY <1>1, <1>3, <2>1 DEF Sane
  <2>4. \A k \in Browser!Token : k <= issued /\ Free(cookie, k) => Free(taken, k)
    BY <1>1, <1>3 DEF Free
  <2>5. /\ Browser!Taken(t) \in Browser!Token \cup {0}
        /\ Browser!Taken(t) # 0 => ~Free(cookie, Browser!Taken(t)) /\ Free(taken, Browser!Taken(t))
    BY <1>1, <1>3 DEF Free, Sane, Browser!Taken
  <2> HIDE DEF taken
  <2> QED
    BY <2>1, <2>2, <2>3, <2>4, <2>5, SendKeeps
<1>10. CASE Browser!Logout(t)
  <2>1. issued' = issued /\ Browser!Send(t, "logout", empty, 0, 0)
    BY <1>5, <1>10, Zenon DEF Browser!Logout
  <2>2. empty \in Browser!Cookie /\ issued' \in 0..MaxToken
    BY <1>1, <2>1 DEF Browser!Cookie
  <2>3. Sane(empty, issued') /\ issued <= issued' /\ ~empty.user
    BY <1>1, <2>1 DEF Sane
  <2>4. \A k \in Browser!Token : Free(empty, k)
    BY <1>3 DEF Free
  <2> HIDE DEF empty
  <2> QED
    BY <2>1, <2>2, <2>3, <2>4, SendKeeps
<1>11. CASE Browser!Page(t)
  <2>1. issued' = issued /\ Browser!Send(t, "other", cookie, 0, 0)
    BY <1>11, Zenon DEF Browser!Page
  <2>2. issued' \in 0..MaxToken /\ issued <= issued' /\ Sane(cookie, issued')
    BY <1>1, <2>1
  <2>3. \A k \in Browser!Token : Free(cookie, k) => Free(cookie, k)
    OBVIOUS
  <2>4. ~cookie.user \/ cookie.user
    OBVIOUS
  <2> QED
    BY <1>1, <2>1, <2>2, <2>3, <2>4, SendKeeps
<1> QED
  BY <1>6, <1>7, <1>8, <1>9, <1>10, <1>11

(* Of BrowserSession: no captcha and no challenge is accepted twice unless its use met *)
(* another request or went unanswered, and a browser that logged out with nothing else *)
(* under way stays logged out, for any number of tabs and tokens.                      *)
THEOREM CookiesKeepUp == MCSpec => []CookieKeepsUp
<1> DEFINE Inv == story = "browser" => BrowserInv
<1>1. MCInit => Inv
  <2> SUFFICES ASSUME MCInit PROVE BrowserInv
    OBVIOUS
  <2>1. Browser!Init
    BY DEF MCInit
  <2>2. Browser!Awaiting = {}
    BY <2>1 DEF Browser!Init, Browser!Awaiting
  <2>3. Browser!TypeOK
    BY <2>1, CookieKinds, TokenAssumption
    DEF Browser!Init, Browser!TypeOK, Browser!None, Browser!Token
  <2>4. AloneInv /\ SaneInv /\ LeftInv
    BY <2>1, <2>2, CookieKinds DEF Browser!Init, AloneInv, SaneInv, LeftInv, Sane
  <2>5. UsedInv
    BY <2>1 DEF Browser!Init, UsedInv
  <2> QED
    BY <2>3, <2>4, <2>5 DEF BrowserInv
<1>2. Inv /\ [MCNext]_<<story, browser, schedule, report, trend, face>> => Inv'
  <2> SUFFICES ASSUME Inv, [MCNext]_<<story, browser, schedule, report, trend, face>>,
                      story' = "browser"
               PROVE  BrowserInv'
    OBVIOUS
  <2>1. story = "browser" /\ BrowserInv
    BY DEF MCNext
  <2>2. CASE UNCHANGED browser
    <3>1. Browser!Awaiting' = Browser!Awaiting
      BY <2>2 DEF browser, Browser!Awaiting
    <3> QED
      BY <2>1, <2>2, <3>1
      DEF browser, BrowserInv, Browser!TypeOK, AloneInv, SaneInv, LeftInv, UsedInv
  <2>3. CASE Browser!Next
    BY <2>1, <2>3, RequestKeeps, AnsweredKeeps DEF Browser!Next
  <2> QED
    BY <2>1, <2>2, <2>3 DEF MCNext
<1>3. Inv => CookieKeepsUp
  <2> SUFFICES ASSUME BrowserInv
               PROVE  Browser!TypeOK /\ Browser!SingleUse /\ Browser!LogoutSticks
    BY DEF CookieKeepsUp
  <2>1. Browser!SingleUse
    BY DEF BrowserInv, Browser!TypeOK, UsedInv, Browser!SingleUse
  <2> QED
    BY <2>1 DEF BrowserInv, LeftInv, Browser!LogoutSticks
<1> QED
  BY <1>1, <1>2, <1>3, PTL DEF MCSpec

-----------------------------------------------------------------------------
(* SessionRules. *)

LEMMA Plans ==
  /\ DayLength \in Nat \ {0} /\ Grace \in Int /\ LateWindow \in Int /\ MaxNow \in Nat
  /\ \A p \in Plan :
       /\ p.date \in Int /\ p.end \in Int /\ p.daily \in BOOLEAN
       /\ p.from \in 0..(DayLength - 1) /\ p.to \in 0..(DayLength - 1)
       /\ p.grace \in Int /\ p.window \in Int
       /\ Schedule!StartOf(p) = p.date * DayLength + p.from /\ Schedule!StartOf(p) \in Int
       /\ Schedule!EndOf(p) = p.end * DayLength + p.to /\ Schedule!EndOf(p) \in Int
       /\ Schedule!WindowOf(p) \in Int /\ Schedule!GraceOf(p) \in Int
<1>1. /\ DayLength \in Nat \ {0} /\ Grace \in Int /\ LateWindow \in Int /\ MaxNow \in Nat
      /\ \A p \in Plan :
           p \in [date : Int, end : Int, from : 0..(DayLength - 1), to : 0..(DayLength - 1),
                  daily : BOOLEAN, grace : Int, window : Int]
  BY ScheduleAssumption
<1> QED
  BY <1>1 DEF Schedule!StartOf, Schedule!EndOf, Schedule!WindowOf, Schedule!GraceOf,
              Schedule!Default

LEMMA Monotone ==
  ASSUME NEW x \in Int, NEW y \in Int, NEW d \in Nat, x <= y
  PROVE  x * d <= y * d
OBVIOUS

LEMMA Divided ==
  ASSUME NEW n \in Int, NEW d \in Nat \ {0}, NEW q \in Int, NEW r \in 0..(d - 1), n = q * d + r
  PROVE  n \div d = q /\ n % d = r
OBVIOUS

\* A session of one day is listed on that day, between its times.
LEMMA ListedByDay ==
  ASSUME Schedule!TypeOK, NEW e \in Schedule!Rows,
         ~session[e].active, Schedule!Listed(session[e]), ~Schedule!Overnight(session[e].plan)
  PROVE  LET p == session[e].plan
         IN  /\ p.date <= Schedule!Today /\ Schedule!Today <= p.end
             /\ p.from <= Schedule!TimeOfDay /\ Schedule!TimeOfDay <= p.to
             /\ Schedule!Today \in Int /\ Schedule!TimeOfDay \in Int
<1>1. session[e] \in Schedule!Row
  BY DEF Schedule!TypeOK, Schedule!Rows
<1>2. session[e].plan \in Plan
  BY <1>1 DEF Schedule!Row
<1> DEFINE p == session[e].plan
<1> HIDE DEF p
<1>3. /\ p.date \in Int /\ p.end \in Int /\ p.daily \in BOOLEAN
      /\ p.from \in 0..(DayLength - 1) /\ p.to \in 0..(DayLength - 1)
      /\ now \in Nat /\ DayLength \in Nat \ {0}
  BY <1>2, Plans DEF p, Schedule!TypeOK
<1>4. Schedule!Today = now \div DayLength /\ Schedule!TimeOfDay = now % DayLength
  BY DEF Schedule!Today, Schedule!TimeOfDay
<1>5. Schedule!Today \in Int /\ Schedule!TimeOfDay \in Int
  BY <1>3, <1>4
<1>6. \/ /\ Schedule!Today \in p.date .. p.end
         /\ Schedule!TimeOfDay \in p.from .. p.to
      \/ /\ ~p.daily
         /\ now \in p.date * DayLength + p.from .. p.end * DayLength + p.to
  BY <1>2, Plans DEF Schedule!Listed, p
<1>7. CASE /\ Schedule!Today \in p.date .. p.end
           /\ Schedule!TimeOfDay \in p.from .. p.to
  BY <1>3, <1>5, <1>7 DEF p
<1>8. CASE /\ ~p.daily
           /\ now \in p.date * DayLength + p.from .. p.end * DayLength + p.to
  <2>1. p.end <= p.date
    BY <1>3, <1>8 DEF Schedule!Overnight, p
  <2> DEFINE first == p.date * DayLength
             last == p.end * DayLength
  <2>2. first \in Int /\ last \in Int /\ first + p.from <= now /\ now <= last + p.to
    BY <1>3, <1>8
  <2>3. p.end < p.date => last <= first - DayLength
    <3>1. p.end < p.date => last <= (p.date - 1) * DayLength
      BY <1>3, Monotone
    <3>2. (p.date - 1) * DayLength = first - DayLength
      BY <1>3
    <3> QED
      BY <3>1, <3>2
  <2> HIDE DEF first, last
  <2>4. p.end = p.date
    BY <1>3, <2>1, <2>2, <2>3
  <2> DEFINE minute == now - first
  <2>5. minute \in 0..(DayLength - 1) /\ minute >= p.from /\ minute <= p.to
    BY <1>3, <2>2, <2>4 DEF first, last
  <2>6. now = p.date * DayLength + minute
    BY <1>3, <2>2 DEF first
  <2> HIDE DEF minute
  <2>7. now \div DayLength = p.date /\ now % DayLength = minute
    BY <1>3, <2>5, <2>6, Divided
  <2> QED
    BY <1>3, <1>4, <2>2, <2>4, <2>5, <2>7 DEF p
<1> QED
  BY <1>6, <1>7, <1>8

\* No two sessions conflict, and a session is active as its status says.
Apart == \A e, f \in Schedule!Rows : e # f => ~Schedule!Conflict(session[e].plan, session[f].plan)
Kept == \A e \in Schedule!Rows : session[e].active <=> session[e].status = "active"

ScheduleInv == Schedule!TypeOK /\ Apart /\ Kept /\ Schedule!MarkedInWindow

\* The lazy close leaves a row of the same plan, active if it was and is not over.
LEMMA SweptKeeps ==
  ASSUME NEW row \in Schedule!Row, row.active <=> row.status = "active", now \in Nat
  PROVE  /\ Schedule!Swept(row) \in Schedule!Row /\ Schedule!Swept(row).plan = row.plan
         /\ Schedule!Swept(row).active <=> Schedule!Swept(row).status = "active"
         /\ Schedule!Swept(row).active /\ autoclose =>
              now <= Schedule!StartOf(row.plan) + Schedule!WindowOf(row.plan)
<1>1. row.plan \in Plan
  BY DEF Schedule!Row
<1>2. /\ Schedule!StartOf(row.plan) \in Int /\ Schedule!WindowOf(row.plan) \in Int
  BY <1>1, Plans
<1>3. CASE autoclose /\ row.status = "active"
           /\ now > Schedule!StartOf(row.plan) + Schedule!WindowOf(row.plan)
  <2>1. Schedule!Swept(row) = [row EXCEPT !.status = "completed", !.active = FALSE]
    BY <1>3 DEF Schedule!Swept
  <2>2. /\ Schedule!Swept(row) \in Schedule!Row /\ Schedule!Swept(row).plan = row.plan
        /\ Schedule!Swept(row).active = FALSE /\ Schedule!Swept(row).status = "completed"
    BY <2>1 DEF Schedule!Row
  <2> QED
    BY <2>2
<1>4. CASE ~(autoclose /\ row.status = "active"
             /\ now > Schedule!StartOf(row.plan) + Schedule!WindowOf(row.plan))
  <2>1. Schedule!Swept(row) = row
    BY <1>4 DEF Schedule!Swept
  <2> QED
    BY <1>2, <1>4, <2>1
<1> QED
  BY <1>3, <1>4

\* A step that leaves every row its plan and sets it active as its status says.
LEMMA RowsKeep ==
  ASSUME ScheduleInv, session' \in [SessionId -> Schedule!Row \cup {Schedule!NoRow}],
         \A e \in SessionId : session'[e] = Schedule!NoRow <=> session[e] = Schedule!NoRow,
         \A e \in Schedule!Rows :
           /\ session'[e].plan = session[e].plan
           /\ session'[e].active <=> session'[e].status = "active"
  PROVE  Apart' /\ Kept'
<1>1. Schedule!Rows' = Schedule!Rows
  BY DEF Schedule!Rows
<1> QED
  BY <1>1 DEF ScheduleInv, Apart, Kept, Schedule!Conflict

LEMMA ScheduleNext ==
  ASSUME ScheduleInv, Schedule!Next
  PROVE  ScheduleInv'
<1>1. /\ session \in [SessionId -> Schedule!Row \cup {Schedule!NoRow}]
      /\ now \in Nat /\ now <= MaxNow /\ MaxNow \in Nat
      /\ answer \in Schedule!Answer \cup {Schedule!NoAnswer}
      /\ enforce \in BOOLEAN /\ autoclose \in BOOLEAN
  BY Plans DEF ScheduleInv, Schedule!TypeOK
<1>2. Schedule!NoRow \notin Schedule!Row
  BY DEF Schedule!NoRow, Schedule!Row
<1>3. \A e \in Schedule!Rows :
        /\ e \in SessionId /\ session[e] \in Schedule!Row /\ session[e].plan \in Plan
        /\ session[e].active <=> session[e].status = "active"
  BY <1>1 DEF Schedule!Rows, Schedule!Row, ScheduleInv, Kept
<1>4. UNCHANGED <<enforce, autoclose>>
  BY DEF Schedule!Next, Schedule!Tick, Schedule!List, Schedule!Start, Schedule!Stop,
         Schedule!MarkAttempt, Schedule!Create
<1>5. UNCHANGED answer => Schedule!MarkedInWindow'
  BY <1>4 DEF ScheduleInv, Schedule!MarkedInWindow, Schedule!StartOf, Schedule!WindowOf,
              Schedule!GraceOf
<1>6. CASE Schedule!Tick
  <2>1. now' \in 0..MaxNow /\ UNCHANGED <<session, answer>>
    BY <1>1, <1>6 DEF Schedule!Tick
  <2>2. Schedule!TypeOK'
    BY <1>1, <1>4, <2>1 DEF Schedule!TypeOK
  <2>3. Apart' /\ Kept'
    BY <1>1, <1>3, <2>1, RowsKeep
  <2> QED
    BY <1>5, <2>1, <2>2, <2>3 DEF ScheduleInv
<1>7. CASE Schedule!List
  <2>1. /\ session' = [e \in SessionId |->
             IF e \in Schedule!Rows THEN Schedule!Swept(session[e]) ELSE Schedule!NoRow]
        /\ UNCHANGED <<now, answer>>
    BY <1>7, Zenon DEF Schedule!List
  <2>2. \A e \in Schedule!Rows :
          /\ session'[e] = Schedule!Swept(session[e]) /\ session'[e] \in Schedule!Row
          /\ session'[e].plan = session[e].plan
          /\ session'[e].active <=> session'[e].status = "active"
    BY <1>1, <1>3, <2>1, SweptKeeps
  <2>3. \A e \in SessionId \ Schedule!Rows :
          session'[e] = Schedule!NoRow /\ session[e] = Schedule!NoRow
    BY <2>1 DEF Schedule!Rows
  <2>4. session' \in [SessionId -> Schedule!Row \cup {Schedule!NoRow}]
    BY <2>1, <2>2, <2>3
  <2>5. Apart' /\ Kept'
    BY <1>2, <1>3, <2>2, <2>3, <2>4, RowsKeep
  <2>6. Schedule!TypeOK'
    BY <1>4, <2>1, <2>4 DEF ScheduleInv, Schedule!TypeOK
  <2> QED
    BY <1>5, <2>1, <2>5, <2>6 DEF ScheduleInv
<1>8. ASSUME NEW e \in SessionId, Schedule!Start(e) \/ Schedule!Stop(e)
      PROVE  ScheduleInv'
  <2>1. e \in Schedule!Rows /\ UNCHANGED <<now, answer>>
    BY <1>8 DEF Schedule!Start, Schedule!Stop
  <2>2. PICK row \in Schedule!Row :
          /\ session' = [session EXCEPT ![e] = row]
          /\ row.plan = session[e].plan /\ (row.active <=> row.status = "active")
    <3>1. CASE Schedule!Start(e)
      <4> DEFINE row == [session[e] EXCEPT !.status = "active", !.active = TRUE]
      <4>1. session' = [session EXCEPT ![e] = row]
        BY <1>1, <3>1 DEF Schedule!Start
      <4>2. row \in Schedule!Row /\ row.plan = session[e].plan /\ row.active /\ row.status = "active"
        BY <1>3, <2>1 DEF Schedule!Row
      <4> HIDE DEF row
      <4> QED
        BY <4>1, <4>2
    <3>2. CASE Schedule!Stop(e)
      <4> DEFINE row == [session[e] EXCEPT !.status = "completed", !.active = FALSE]
      <4>1. session' = [session EXCEPT ![e] = row]
        BY <1>1, <3>2 DEF Schedule!Stop
      <4>2. row \in Schedule!Row /\ row.plan = session[e].plan /\ ~row.active /\ row.status = "completed"
        BY <1>3, <2>1 DEF Schedule!Row
      <4> HIDE DEF row
      <4> QED
        BY <4>1, <4>2
    <3> QED
      BY <1>8, <3>1, <3>2
  <2>3. session'[e] = row /\ \A f \in SessionId \ {e} : session'[f] = session[f]
    BY <1>1, <2>2
  <2>4. session' \in [SessionId -> Schedule!Row \cup {Schedule!NoRow}]
    BY <1>1, <2>2
  <2>5. Apart' /\ Kept'
    BY <1>2, <1>3, <2>1, <2>2, <2>3, <2>4, RowsKeep
  <2>6. Schedule!TypeOK'
    BY <1>4, <2>1, <2>4 DEF ScheduleInv, Schedule!TypeOK
  <2> QED
    BY <1>5, <2>1, <2>5, <2>6 DEF ScheduleInv
<1>9. ASSUME NEW e \in SessionId, Schedule!MarkAttempt(e)
      PROVE  ScheduleInv'
  <2> DEFINE row == Schedule!Swept(session[e])
             p == session[e].plan
  <2>1. /\ e \in Schedule!Rows /\ session' = [session EXCEPT ![e] = row] /\ UNCHANGED now
        /\ answer' = [plan |-> p, at |-> now,
             says |-> IF session'[e].active THEN Schedule!LateEntry(p) ELSE "not active"]
    BY <1>9, Zenon DEF Schedule!MarkAttempt
  <2>2. /\ row \in Schedule!Row /\ row.plan = p
        /\ row.active <=> row.status = "active"
        /\ row.active /\ autoclose => now <= Schedule!StartOf(p) + Schedule!WindowOf(p)
    BY <1>1, <1>3, <2>1, SweptKeeps
  <2>3. p \in Plan
    BY <1>3, <2>1
  <2> HIDE DEF row, p
  <2>4. session'[e] = row /\ \A f \in SessionId \ {e} : session'[f] = session[f]
    BY <1>1, <2>1
  <2>5. session' \in [SessionId -> Schedule!Row \cup {Schedule!NoRow}]
    BY <1>1, <2>1, <2>2
  <2>6. Apart' /\ Kept'
    <3>1. row.plan = session[e].plan
      BY <2>2 DEF p
    <3>2. \A f \in SessionId : session'[f] = Schedule!NoRow <=> session[f] = Schedule!NoRow
      <4>1. session[e] # Schedule!NoRow /\ row # Schedule!NoRow
        BY <1>2, <2>1, <2>2 DEF Schedule!Rows
      <4> QED
        BY <2>4, <4>1
    <3>3. \A f \in Schedule!Rows : /\ session'[f].plan = session[f].plan
                                   /\ session'[f].active <=> session'[f].status = "active"
      BY <1>3, <2>2, <2>4, <3>1
    <3> QED
      BY <2>5, <3>2, <3>3, RowsKeep
  <2>7. /\ Schedule!StartOf(p) \in Int /\ Schedule!WindowOf(p) \in Int /\ Schedule!GraceOf(p) \in Int
    BY <2>3, Plans
  <2>8. /\ Schedule!LateEntry(p) \in {"Present", "Late", "closed"}
        /\ enforce /\ Schedule!LateEntry(p) # "closed" =>
             \/ now <= Schedule!StartOf(p) + Schedule!WindowOf(p)
             \/ now <= Schedule!StartOf(p) + Schedule!GraceOf(p)
    BY <1>1, <2>7 DEF Schedule!LateEntry
  <2>9. /\ answer' \in Schedule!Answer /\ answer'.plan = p /\ answer'.at = now
        /\ answer'.says \in {"Present", "Late"} => row.active /\ Schedule!LateEntry(p) # "closed"
    BY <1>1, <2>1, <2>3, <2>4, <2>8 DEF Schedule!Answer
  <2>10. Schedule!MarkedInWindow'
    <3>1. answer'.says \in {"Present", "Late"} =>
            /\ autoclose => now <= Schedule!StartOf(p) + Schedule!WindowOf(p)
            /\ enforce => \/ now <= Schedule!StartOf(p) + Schedule!WindowOf(p)
                          \/ now <= Schedule!StartOf(p) + Schedule!GraceOf(p)
      BY <2>2, <2>8, <2>9
    <3> QED
      BY <1>4, <2>9, <3>1 DEF Schedule!MarkedInWindow, Schedule!StartOf, Schedule!WindowOf,
                              Schedule!GraceOf
  <2>11. Schedule!TypeOK'
    BY <1>4, <2>1, <2>5, <2>9 DEF ScheduleInv, Schedule!TypeOK
  <2> QED
    BY <2>6, <2>10, <2>11 DEF ScheduleInv
<1>10. ASSUME NEW e \in SessionId, NEW p \in Plan, Schedule!Create(e, p)
       PROVE  ScheduleInv'
  <2> DEFINE row == [plan |-> p, status |-> "scheduled", active |-> FALSE]
  <2>1. /\ e \notin Schedule!Rows /\ \A f \in Schedule!Rows : ~Schedule!Conflict(p, session[f].plan)
        /\ session' = [session EXCEPT ![e] = row] /\ UNCHANGED <<now, answer>>
    BY <1>10, Zenon DEF Schedule!Create
  <2>2. row \in Schedule!Row /\ row.plan = p /\ ~row.active /\ row.status = "scheduled"
    BY DEF Schedule!Row
  <2> HIDE DEF row
  <2>3. session'[e] = row /\ \A f \in SessionId \ {e} : session'[f] = session[f]
    BY <1>1, <2>1
  <2>4. Schedule!Rows' = Schedule!Rows \cup {e}
    BY <1>2, <2>2, <2>3 DEF Schedule!Rows
  <2>5. Kept'
    BY <1>3, <2>1, <2>2, <2>3, <2>4 DEF Kept
  <2>6. \A f \in Schedule!Rows : ~Schedule!Conflict(session[f].plan, p)
    BY <2>1 DEF Schedule!Conflict
  <2>7. Apart'
    <3>1. ASSUME NEW f \in Schedule!Rows', NEW g \in Schedule!Rows', f # g,
                 Schedule!Conflict(session'[f].plan, session'[g].plan)
          PROVE  FALSE
      <4>1. CASE f = e
        BY <2>1, <2>2, <2>3, <2>4, <3>1, <4>1, <1>3
      <4>2. CASE g = e
        BY <2>2, <2>3, <2>4, <2>6, <3>1, <4>2, <1>3
      <4>3. CASE f # e /\ g # e
        BY <2>3, <2>4, <3>1, <4>3, <1>3 DEF ScheduleInv, Apart
      <4> QED
        BY <4>1, <4>2, <4>3
    <3> QED
      BY <3>1 DEF Apart, Schedule!Conflict
  <2>8. Schedule!TypeOK'
    BY <1>1, <1>4, <2>1, <2>2 DEF ScheduleInv, Schedule!TypeOK
  <2> QED
    BY <1>5, <2>1, <2>5, <2>7, <2>8 DEF ScheduleInv
<1> QED
  BY <1>6, <1>7, <1>8, <1>9, <1>10 DEF Schedule!Next

\* Two sessions that are listed by their schedules overlap in their days and touch in
\* the time of day: as they do not conflict, one ends when the other begins.
LEMMA OneListed ==
  ASSUME ScheduleInv
  PROVE  Schedule!NoTwoListed
<1> SUFFICES ASSUME NEW e \in Schedule!Rows, NEW f \in Schedule!Rows, e # f,
                    ~session[e].active, Schedule!Listed(session[e]),
                    ~session[f].active, Schedule!Listed(session[f]),
                    ~Schedule!Overnight(session[e].plan), ~Schedule!Overnight(session[f].plan)
             PROVE  Schedule!TimeOfDay \in {session[e].plan.to, session[f].plan.to}
                                      \cap {session[e].plan.from, session[f].plan.from}
  BY DEF Schedule!NoTwoListed
<1> DEFINE p == session[e].plan
           q == session[f].plan
<1>1. /\ p.date <= Schedule!Today /\ Schedule!Today <= p.end
      /\ p.from <= Schedule!TimeOfDay /\ Schedule!TimeOfDay <= p.to
      /\ Schedule!Today \in Int /\ Schedule!TimeOfDay \in Int
  BY ListedByDay DEF ScheduleInv
<1>2. /\ q.date <= Schedule!Today /\ Schedule!Today <= q.end
      /\ q.from <= Schedule!TimeOfDay /\ Schedule!TimeOfDay <= q.to
  BY ListedByDay DEF ScheduleInv
<1>3. ~Schedule!Conflict(p, q)
  BY DEF ScheduleInv, Apart
<1>4. p \in Plan /\ q \in Plan
  BY DEF ScheduleInv, Schedule!TypeOK, Schedule!Rows, Schedule!Row
<1> HIDE DEF p, q
<1>5. /\ p.date \in Int /\ p.end \in Int /\ p.from \in Int /\ p.to \in Int
      /\ q.date \in Int /\ q.end \in Int /\ q.from \in Int /\ q.to \in Int
  BY <1>4, Plans
<1>6. \/ Schedule!TimeOfDay = p.from /\ Schedule!TimeOfDay = q.to
      \/ Schedule!TimeOfDay = q.from /\ Schedule!TimeOfDay = p.to
  BY <1>1, <1>2, <1>3, <1>5 DEF Schedule!Conflict
<1> QED
  BY <1>6 DEF p, q

\* What the lazy close leaves active is within its window, and so not closed.
LEMMA StartedOpen ==
  ASSUME ScheduleInv
  PROVE  Schedule!StartedIsOpen
<1> SUFFICES ASSUME NEW e \in Schedule!Rows, autoclose, Schedule!Swept(session[e]).active
             PROVE  Schedule!LateEntry(session[e].plan) # "closed"
  BY DEF Schedule!StartedIsOpen
<1> DEFINE p == session[e].plan
<1>1. session[e] \in Schedule!Row /\ p \in Plan /\ now \in Nat
  BY Plans DEF ScheduleInv, Schedule!TypeOK, Schedule!Rows, Schedule!Row
<1>2. now <= Schedule!StartOf(p) + Schedule!WindowOf(p)
  BY <1>1, SweptKeeps DEF ScheduleInv, Kept
<1> HIDE DEF p
<1>3. Schedule!StartOf(p) \in Int /\ Schedule!WindowOf(p) \in Int /\ Schedule!GraceOf(p) \in Int
  BY <1>1, Plans
<1>4. Schedule!LateEntry(p) # "closed"
  BY <1>1, <1>2, <1>3 DEF Schedule!LateEntry
<1> QED
  BY <1>4 DEF p

(* Of SessionRules: for any schedules, any length of the day and any grace and window, *)
(* two sessions the conflict check let in are listed together only in the minute where *)
(* they touch or overnight, what the lazy close leaves started takes marks, and no     *)
(* mark is accepted after the window.                                                  *)
THEOREM RulesAlwaysAgree == MCSpec => []RulesAgree
<1> DEFINE Inv == story = "schedule" => ScheduleInv
<1>1. MCInit => Inv
  <2> SUFFICES ASSUME MCInit PROVE ScheduleInv
    OBVIOUS
  <2>1. Schedule!Init
    BY DEF MCInit
  <2>2. Schedule!Rows = {}
    BY <2>1 DEF Schedule!Init, Schedule!Rows
  <2>3. Schedule!TypeOK
    BY <2>1, Plans DEF Schedule!Init, Schedule!TypeOK
  <2>4. Schedule!MarkedInWindow
    BY <2>1 DEF Schedule!Init, Schedule!NoAnswer, Schedule!MarkedInWindow
  <2> QED
    BY <2>2, <2>3, <2>4 DEF ScheduleInv, Apart, Kept
<1>2. Inv /\ [MCNext]_<<story, browser, schedule, report, trend, face>> => Inv'
  <2> SUFFICES ASSUME Inv, [MCNext]_<<story, browser, schedule, report, trend, face>>,
                      story' = "schedule"
               PROVE  ScheduleInv'
    OBVIOUS
  <2>1. story = "schedule" /\ ScheduleInv
    BY DEF MCNext
  <2>2. CASE UNCHANGED schedule
    BY <2>1, <2>2
    DEF schedule, ScheduleInv, Apart, Kept, Schedule!TypeOK, Schedule!Rows, Schedule!Conflict,
        Schedule!MarkedInWindow, Schedule!StartOf, Schedule!WindowOf, Schedule!GraceOf
  <2>3. CASE Schedule!Next
    BY <2>1, <2>3, ScheduleNext
  <2> QED
    BY <2>1, <2>2, <2>3 DEF MCNext
<1>3. Inv => RulesAgree
  BY OneListed, StartedOpen DEF RulesAgree, ScheduleInv
<1> QED
  BY <1>1, <1>2, <1>3, PTL DEF MCSpec

-----------------------------------------------------------------------------
(* Folds over finite sets. *)

\* Induction over the subsets of a finite set, for a set C of subsets: the least
\* subset that is not in C has all its proper subsets there.
LEMMA SubsetInduction ==
  ASSUME NEW S, IsFiniteSet(S), NEW C,
         \A s \in SUBSET S : (\A t \in SUBSET s : t # s => t \in C) => s \in C
  PROVE  SUBSET S \subseteq C
<1> DEFINE T == (SUBSET S) \ C
           R == StrictSubsetOrdering(S)
<1>1. IsWellFoundedOn(R, SUBSET S)
  BY FS_StrictSubsetOrderingWellFounded, FS_FiniteSubsetsOfFinite
<1>2. SUFFICES ASSUME T # {} PROVE FALSE
  OBVIOUS
<1>3. T \subseteq SUBSET S
  OBVIOUS
<1>4. PICK s \in T : \A t \in T : <<t, s>> \notin R
  <2> HIDE DEF T, R
  <2> QED
    BY <1>1, <1>2, <1>3, WFMin
<1>5. ASSUME NEW t \in SUBSET s, t # s PROVE t \in C
  <2>1. t \in SUBSET S /\ s \in SUBSET S
    BY <1>3, <1>4
  <2>2. <<t, s>> \in R
    BY <1>5, <2>1 DEF StrictSubsetOrdering
  <2> QED
    BY <1>4, <2>1, <2>2
<1>6. s \in C
  BY <1>3, <1>4, <1>5
<1> QED
  BY <1>4, <1>6

\* it folds the subsets of S: c picks an element, h adds it to the fold of the rest.
Folds(it, S, base, h, c) ==
  it = [s \in SUBSET S |-> IF s = {} THEN base ELSE h[<<it[s \ {c[s]}], c[s]>>]]

Picks(S, c) == \A s \in SUBSET S : s # {} => c[s] \in s

LEMMA FoldsAgree ==
  ASSUME NEW S, NEW T, IsFiniteSet(S), NEW base, NEW h, NEW c, Picks(S, c),
         NEW i, Folds(i, S, base, h, c), NEW j, Folds(j, T, base, h, c)
  PROVE  \A s \in SUBSET (S \cap T) : i[s] = j[s]
<1> DEFINE C == {s \in SUBSET S : s \subseteq T => i[s] = j[s]}
<1>1. ASSUME NEW s \in SUBSET S, \A t \in SUBSET s : t # s => t \in C
      PROVE  s \in C
  <2> SUFFICES ASSUME s \subseteq T PROVE i[s] = j[s]
    OBVIOUS
  <2>1. CASE s = {}
    BY <2>1 DEF Folds
  <2>2. CASE s # {}
    <3>1. c[s] \in s
      BY <2>2 DEF Picks
    <3>2. i[s \ {c[s]}] = j[s \ {c[s]}]
      BY <1>1, <3>1
    <3>3. i[s] = h[<<i[s \ {c[s]}], c[s]>>] /\ j[s] = h[<<j[s \ {c[s]}], c[s]>>]
      BY <2>2 DEF Folds
    <3> QED
      BY <3>2, <3>3, Zenon
  <2> QED
    BY <2>1, <2>2
<1>2. SUBSET S \subseteq C
  <2> HIDE DEF C
  <2> QED
    BY <1>1, SubsetInduction
<1> QED
  BY <1>2

LEMMA FoldsExist ==
  ASSUME NEW S, IsFiniteSet(S), NEW base, NEW h, NEW c, Picks(S, c)
  PROVE  \E it : Folds(it, S, base, h, c)
<1> DEFINE F(it, s) == Folds(it, s, base, h, c)
           C == {s \in SUBSET S : \E it : F(it, s)}
           V(t) == (CHOOSE it : F(it, t))[t]
<1>1. ASSUME NEW s \in SUBSET S, \A t \in SUBSET s : t # s => t \in C
      PROVE  s \in C
  <2> DEFINE it == [t \in SUBSET s |->
                      IF t = {} THEN base ELSE h[<<V(t \ {c[t]}), c[t]>>]]
  <2>1. ASSUME NEW t \in SUBSET s, t # s PROVE F(CHOOSE i : F(i, t), t)
    BY <1>1, <2>1
  <2>2. ASSUME NEW t \in SUBSET s, t # s PROVE it[t] = V(t)
    <3>1. PICK i : i = (CHOOSE j : F(j, t)) /\ F(i, t)
      BY <2>1, <2>2
    <3>2. CASE t = {}
      BY <3>1, <3>2 DEF Folds
    <3>3. CASE t # {}
      <4> DEFINE u == t \ {c[t]}
      <4>1. c[t] \in t /\ u \in SUBSET s /\ u # s /\ u \subseteq t
        BY <2>2, <3>3 DEF Picks
      <4>2. PICK j : j = (CHOOSE k : F(k, u)) /\ F(j, u)
        BY <2>1, <4>1
      <4>3. i[u] = j[u]
        <5>1. IsFiniteSet(t) /\ Picks(t, c) /\ u \in SUBSET (t \cap u)
          BY <4>1, FS_Subset DEF Picks
        <5> HIDE DEF u
        <5> QED
          BY <3>1, <4>2, <5>1, FoldsAgree
      <4>4. i[t] = h[<<i[u], c[t]>>]
        BY <3>1, <3>3 DEF Folds
      <4>5. it[t] = h[<<V(u), c[t]>>]
        BY <3>3
      <4>6. V(u) = j[u] /\ V(t) = i[t]
        BY <3>1, <4>2
      <4> HIDE DEF u, V, it
      <4> QED
        BY <4>3, <4>4, <4>5, <4>6
    <3> QED
      BY <3>2, <3>3
  <2>3. ASSUME NEW t \in SUBSET s, t # {} PROVE V(t \ {c[t]}) = it[t \ {c[t]}]
    <3>1. c[t] \in t
      BY <2>3 DEF Picks
    <3>2. t \ {c[t]} \in SUBSET s /\ t \ {c[t]} # s
      BY <3>1
    <3> HIDE DEF V, it
    <3> QED
      BY <2>2, <3>2
  <2>4. F(it, s)
    <3>1. it = [t \in SUBSET s |-> IF t = {} THEN base ELSE h[<<it[t \ {c[t]}], c[t]>>]]
      <4>1. \A t \in SUBSET s : it[t] = IF t = {} THEN base ELSE h[<<it[t \ {c[t]}], c[t]>>]
        <5> TAKE t \in SUBSET s
        <5>1. it[t] = IF t = {} THEN base ELSE h[<<V(t \ {c[t]}), c[t]>>]
          OBVIOUS
        <5> HIDE DEF it, V
        <5> QED
          BY <2>3, <5>1
      <4>2. it = [t \in SUBSET s |-> it[t]]
        OBVIOUS
      <4> HIDE DEF it
      <4> QED
        BY <4>1, <4>2
    <3> QED
      BY <3>1 DEF Folds
  <2> QED
    BY <2>4
<1>2. SUBSET S \subseteq C
  <2> HIDE DEF C
  <2> QED
    BY <1>1, SubsetInduction
<1> QED
  BY <1>2

LEMMA FoldsTyped ==
  ASSUME NEW S, IsFiniteSet(S), NEW T, NEW base \in T, NEW h, NEW c, Picks(S, c),
         \A t \in T, x \in S : h[<<t, x>>] \in T, NEW it, Folds(it, S, base, h, c)
  PROVE  it \in [SUBSET S -> T]
<1> DEFINE C == {s \in SUBSET S : it[s] \in T}
<1>1. ASSUME NEW s \in SUBSET S, \A t \in SUBSET s : t # s => t \in C
      PROVE  s \in C
  <2>1. CASE s = {}
    BY <2>1 DEF Folds
  <2>2. CASE s # {}
    <3>1. c[s] \in s
      BY <2>2 DEF Picks
    <3>2. it[s \ {c[s]}] \in T
      BY <1>1, <3>1
    <3>3. it[s] = h[<<it[s \ {c[s]}], c[s]>>]
      BY <2>2 DEF Folds
    <3> QED
      BY <3>1, <3>2, <3>3
  <2> QED
    BY <2>1, <2>2
<1>2. SUBSET S \subseteq C
  <2> HIDE DEF C
  <2> QED
    BY <1>1, SubsetInduction
<1> QED
  BY <1>2 DEF Folds

-----------------------------------------------------------------------------
(* Sums over finite sets. *)

Sum(f, S) == SumFunctionOnSet(f, S)

Sums(it, f, S) ==
  it = [s \in SUBSET S |->
          IF s = {} THEN 0 ELSE f[CHOOSE x \in s : TRUE] + it[s \ {CHOOSE x \in s : TRUE}]]

LEMMA SumIs == \A f, S : Sum(f, S) = (CHOOSE it : Sums(it, f, S))[S]
BY DEF Sum, SumFunctionOnSet, FoldFunctionOnSet, MapThenFoldSet, Sums

\* Which sums there are, as a fold.
Adding(f, S) == [p \in Int \X S |-> f[p[2]] + p[1]]
Choice(S) == [s \in SUBSET S |-> CHOOSE x \in s : TRUE]

LEMMA ChoicePicks == \A S : Picks(S, Choice(S))
BY DEF Picks, Choice

LEMMA SumsFold ==
  ASSUME NEW S, IsFiniteSet(S), NEW f, \A x \in S : f[x] \in Int
  PROVE  \E it \in [SUBSET S -> Int] : Sums(it, f, S)
<1>1. PICK it : Folds(it, S, 0, Adding(f, S), Choice(S))
  BY ChoicePicks, FoldsExist
<1>2. \A t \in Int, x \in S : Adding(f, S)[<<t, x>>] = f[x] + t
  BY DEF Adding
<1>3. it \in [SUBSET S -> Int]
  <2>1. PICK h, c : h = Adding(f, S) /\ c = Choice(S)
    OBVIOUS
  <2>2. ASSUME NEW t \in Int, NEW x \in S PROVE h[<<t, x>>] \in Int
    <3>1. h[<<t, x>>] = f[x] + t /\ f[x] \in Int
      BY <1>2, <2>1
    <3> QED
      BY <3>1
  <2>3. Folds(it, S, 0, h, c) /\ Picks(S, c)
    BY <1>1, <2>1, ChoicePicks
  <2>4. 0 \in Int /\ \A t \in Int, x \in S : h[<<t, x>>] \in Int
    BY <2>2
  <2> QED
    BY <2>3, <2>4, FoldsTyped, Zenon
<1>4. \A s \in SUBSET S : it[s] =
        IF s = {} THEN 0 ELSE f[CHOOSE x \in s : TRUE] + it[s \ {CHOOSE x \in s : TRUE}]
  <2> TAKE s \in SUBSET S
  <2>1. CASE s = {}
    BY <1>1, <2>1 DEF Folds
  <2>2. CASE s # {}
    <3>1. PICK x : x = (CHOOSE y \in s : TRUE)
      OBVIOUS
    <3>2. Choice(S)[s] = x /\ x \in s
      BY <2>2, <3>1 DEF Choice
    <3>3. it[s] = Adding(f, S)[<<it[s \ {x}], x>>]
      BY <1>1, <2>2, <3>2 DEF Folds
    <3>4. it[s] = f[x] + it[s \ {x}]
      BY <1>2, <1>3, <3>2, <3>3
    <3> QED
      BY <2>2, <3>1, <3>4
  <2> QED
    BY <2>1, <2>2
<1>5. it = [s \in SUBSET S |-> it[s]]
  BY <1>3
<1>6. Sums(it, f, S)
  BY <1>4, <1>5 DEF Sums
<1> QED
  BY <1>3, <1>6

\* Whichever function sums the subsets, an element may be taken out first.
Takes(it, f, S) == \A s \in SUBSET S : \A y \in s : it[s] = f[y] + it[s \ {y}]

LEMMA SumsTake ==
  ASSUME NEW S, IsFiniteSet(S), NEW f, \A x \in S : f[x] \in Int,
         NEW it, \A s \in SUBSET S : it[s] \in Int, Sums(it, f, S)
  PROVE  Takes(it, f, S)
<1> DEFINE C == {s \in SUBSET S : \A y \in s : it[s] = f[y] + it[s \ {y}]}
<1>1. ASSUME NEW s \in SUBSET S, \A t \in SUBSET s : t # s => t \in C
      PROVE  s \in C
  <2> SUFFICES ASSUME NEW y \in s PROVE it[s] = f[y] + it[s \ {y}]
    OBVIOUS
  <2>1. PICK x : x = (CHOOSE z \in s : TRUE)
    OBVIOUS
  <2>2. x \in s
    BY <2>1
  <2>3. it[s] = f[x] + it[s \ {x}]
    BY <2>1, <2>2 DEF Sums
  <2>4. CASE x = y
    BY <2>3, <2>4
  <2>5. CASE x # y
    <3>1. it[s \ {x}] = f[y] + it[(s \ {x}) \ {y}]
      BY <1>1, <2>2, <2>5
    <3>2. it[s \ {y}] = f[x] + it[(s \ {y}) \ {x}]
      BY <1>1, <2>2, <2>5
    <3>3. (s \ {x}) \ {y} = (s \ {y}) \ {x}
      OBVIOUS
    <3>4. PICK a, b, r : a = f[x] /\ b = f[y] /\ r = it[(s \ {y}) \ {x}]
      OBVIOUS
    <3>5. a \in Int /\ b \in Int /\ r \in Int
      BY <2>2, <3>4
    <3>6. it[s \ {x}] = b + r /\ it[s \ {y}] = a + r
      BY <3>1, <3>2, <3>3, <3>4, Zenon
    <3>7. it[s] = a + (b + r) /\ a + (b + r) = b + (a + r)
      BY <2>3, <3>4, <3>5, <3>6
    <3> QED
      BY <3>4, <3>6, <3>7, Zenon
  <2> QED
    BY <2>4, <2>5
<1>2. SUBSET S \subseteq C
  <2> HIDE DEF C
  <2> QED
    BY <1>1, SubsetInduction
<1> QED
  BY <1>2 DEF Takes

\* Two sums of the same values agree.
LEMMA SumsAgree ==
  ASSUME NEW S, NEW T, IsFiniteSet(S), NEW f, NEW g, \A x \in S \cap T : f[x] = g[x],
         NEW i, Sums(i, f, S), NEW j, Sums(j, g, T)
  PROVE  \A s \in SUBSET (S \cap T) : i[s] = j[s]
<1> DEFINE C == {s \in SUBSET S : s \subseteq T => i[s] = j[s]}
<1>1. ASSUME NEW s \in SUBSET S, \A t \in SUBSET s : t # s => t \in C
      PROVE  s \in C
  <2> SUFFICES ASSUME s \subseteq T PROVE i[s] = j[s]
    OBVIOUS
  <2>1. CASE s = {}
    BY <2>1 DEF Sums
  <2>2. CASE s # {}
    <3>1. PICK x : x = (CHOOSE z \in s : TRUE)
      OBVIOUS
    <3>2. x \in s
      BY <2>2, <3>1
    <3>3. i[s \ {x}] = j[s \ {x}] /\ f[x] = g[x]
      <4>1. PICK t : t = s \ {x}
        OBVIOUS
      <4>2. t \in SUBSET s /\ t # s /\ t \subseteq T /\ x \in S \cap T
        BY <3>2, <4>1
      <4>3. i[t] = j[t] /\ f[x] = g[x]
        BY <1>1, <4>2
      <4> QED
        BY <4>1, <4>3
    <3>4. s \in SUBSET S /\ s \in SUBSET T
      OBVIOUS
    <3>5. i[s] = f[x] + i[s \ {x}]
      BY <2>2, <3>1, <3>4 DEF Sums
    <3>6. j[s] = g[x] + j[s \ {x}]
      BY <2>2, <3>1, <3>4 DEF Sums
    <3> QED
      BY <3>3, <3>5, <3>6
  <2> QED
    BY <2>1, <2>2
<1>2. SUBSET S \subseteq C
  <2> HIDE DEF C
  <2> QED
    BY <1>1, SubsetInduction
<1> QED
  BY <1>2

LEMMA SumEmpty == \A f : Sum(f, {}) = 0
<1> TAKE f
<1>1. PICK it : Sums(it, f, {})
  BY FS_EmptySet, SumsFold
<1>2. Sums((CHOOSE i : Sums(i, f, {})), f, {})
  BY <1>1
<1> QED
  BY <1>2, SumIs DEF Sums

\* A sum is a number, an element may be taken out of it, and it depends only on the
\* values summed.
LEMMA SumFacts ==
  ASSUME NEW S, IsFiniteSet(S), NEW f, \A x \in S : f[x] \in Int
  PROVE  /\ Sum(f, S) \in Int
         /\ \A y \in S : Sum(f, S) = f[y] + Sum(f, S \ {y})
         /\ \A g : (\A x \in S : g[x] = f[x]) => Sum(g, S) = Sum(f, S)
<1>1. ASSUME NEW T \in SUBSET S, NEW g, \A x \in S : g[x] = f[x]
      PROVE  \E it \in [SUBSET T -> Int] : Sums(it, g, T) /\ Sum(g, T) = it[T]
  <2>1. IsFiniteSet(T) /\ \A x \in T : g[x] \in Int
    BY <1>1, FS_Subset
  <2>2. PICK it \in [SUBSET T -> Int] : Sums(it, g, T)
    BY <2>1, SumsFold
  <2>3. PICK i : i = (CHOOSE j : Sums(j, g, T))
    OBVIOUS
  <2>4. Sums(i, g, T)
    BY <2>2, <2>3
  <2>5. \A s \in SUBSET T : i[s] = it[s]
    BY <2>1, <2>2, <2>4, SumsAgree
  <2>6. i = [s \in SUBSET T |-> i[s]]
    BY <2>4 DEF Sums
  <2>7. i \in [SUBSET T -> Int]
    BY <2>5, <2>6
  <2>8. Sum(g, T) = i[T]
    BY <2>3, SumIs, Zenon
  <2> QED
    BY <2>4, <2>7, <2>8
<1>2. PICK it \in [SUBSET S -> Int] : Sums(it, f, S) /\ Sum(f, S) = it[S]
  BY <1>1
<1>3. Sum(f, S) \in Int
  BY <1>2
<1>4. ASSUME NEW y \in S PROVE Sum(f, S) = f[y] + Sum(f, S \ {y})
  <2>1. PICK i : Sums(i, f, S \ {y}) /\ Sum(f, S \ {y}) = i[S \ {y}]
    BY <1>1
  <2>2. it[S \ {y}] = i[S \ {y}]
    <3>1. PICK T : T = S \ {y}
      OBVIOUS
    <3>2. T \in SUBSET (S \cap T) /\ Sums(i, f, T) /\ \A x \in S \cap T : f[x] = f[x]
      BY <2>1, <3>1
    <3>3. \A s \in SUBSET (S \cap T) : it[s] = i[s]
      BY <1>2, <3>2, SumsAgree
    <3> QED
      BY <3>1, <3>2, <3>3
  <2>3. it[S] = f[y] + it[S \ {y}]
    <3>1. Sums(it, f, S) /\ \A s \in SUBSET S : it[s] \in Int
      BY <1>2
    <3>2. Takes(it, f, S)
      BY <3>1, SumsTake, Zenon
    <3> QED
      BY <3>2 DEF Takes
  <2> QED
    BY <1>2, <2>1, <2>2, <2>3
<1>5. ASSUME NEW g, \A x \in S : g[x] = f[x] PROVE Sum(g, S) = Sum(f, S)
  <2>1. PICK i : Sums(i, g, S) /\ Sum(g, S) = i[S]
    BY <1>1, <1>5
  <2>2. it[S] = i[S]
    BY <1>2, <1>5, <2>1, SumsAgree
  <2> QED
    BY <1>2, <2>1, <2>2
<1> QED
  BY <1>3, <1>4, <1>5

LEMMA OneMore ==
  ASSUME NEW S, IsFiniteSet(S), NEW x, x \notin S, NEW T, T = S \cup {x}
  PROVE  IsFiniteSet(T) /\ Cardinality(S) \in Nat /\ Cardinality(T) = Cardinality(S) + 1
<1>1. IsFiniteSet(T) /\ Cardinality(T) = Cardinality(S) + 1
  BY FS_AddElement
<1>2. Cardinality(S) \in Nat
  BY FS_CardinalityType
<1> QED
  BY <1>1, <1>2

LEMMA SumAtMost ==
  ASSUME NEW S, IsFiniteSet(S), NEW f, NEW most \in Int, \A x \in S : f[x] \in Int /\ f[x] <= most
  PROVE  Sum(f, S) <= most * Cardinality(S)
<1> DEFINE C == {s \in SUBSET S : Sum(f, s) <= most * Cardinality(s)}
<1>1. ASSUME NEW s \in SUBSET S, \A t \in SUBSET s : t # s => t \in C
      PROVE  s \in C
  <2>1. CASE s = {}
    BY <2>1, SumEmpty, FS_EmptySet
  <2>2. ASSUME NEW x \in s PROVE s \in C
    <3>1. IsFiniteSet(s) /\ (\A y \in s : f[y] \in Int) /\ f[x] <= most
      BY FS_Subset
    <3>2. Sum(f, s) = f[x] + Sum(f, s \ {x})
      BY <3>1, SumFacts, Zenon
    <3>3. IsFiniteSet(s \ {x}) /\ \A y \in s \ {x} : f[y] \in Int
      BY <3>1, FS_Subset
    <3>4. Sum(f, s \ {x}) \in Int
      BY <3>3, SumFacts, Zenon
    <3>5. PICK n : n = Cardinality(s \ {x}) /\ n \in Nat
      BY <3>3, FS_CardinalityType
    <3>6. Cardinality(s) = n + 1
      <4>1. s = (s \ {x}) \cup {x} /\ x \notin s \ {x}
        BY <2>2
      <4>2. Cardinality(s) = Cardinality(s \ {x}) + 1
        BY <3>3, <4>1, OneMore
      <4> QED
        BY <3>5, <4>2, Zenon
    <3>7. Sum(f, s \ {x}) <= most * n
      BY <1>1, <2>2, <3>5
    <3>8. most * (n + 1) = most * n + most /\ most * n \in Int
      BY <3>5
    <3> QED
      BY <3>1, <3>2, <3>4, <3>6, <3>7, <3>8
  <2> QED
    BY <2>1, <2>2
<1>2. SUBSET S \subseteq C
  <2> HIDE DEF C
  <2> QED
    BY <1>1, SubsetInduction
<1> QED
  BY <1>2

LEMMA SumAtLeast ==
  ASSUME NEW S, IsFiniteSet(S), NEW f, NEW least \in Int, \A x \in S : f[x] \in Int /\ least <= f[x]
  PROVE  least * Cardinality(S) <= Sum(f, S)
<1> DEFINE C == {s \in SUBSET S : least * Cardinality(s) <= Sum(f, s)}
<1>1. ASSUME NEW s \in SUBSET S, \A t \in SUBSET s : t # s => t \in C
      PROVE  s \in C
  <2>1. CASE s = {}
    BY <2>1, SumEmpty, FS_EmptySet
  <2>2. ASSUME NEW x \in s PROVE s \in C
    <3>1. IsFiniteSet(s) /\ (\A y \in s : f[y] \in Int) /\ least <= f[x]
      BY FS_Subset
    <3>2. Sum(f, s) = f[x] + Sum(f, s \ {x})
      BY <3>1, SumFacts, Zenon
    <3>3. IsFiniteSet(s \ {x}) /\ \A y \in s \ {x} : f[y] \in Int
      BY <3>1, FS_Subset
    <3>4. Sum(f, s \ {x}) \in Int
      BY <3>3, SumFacts, Zenon
    <3>5. PICK n : n = Cardinality(s \ {x}) /\ n \in Nat
      BY <3>3, FS_CardinalityType
    <3>6. Cardinality(s) = n + 1
      <4>1. s = (s \ {x}) \cup {x} /\ x \notin s \ {x}
        BY <2>2
      <4>2. Cardinality(s) = Cardinality(s \ {x}) + 1
        BY <3>3, <4>1, OneMore
      <4> QED
        BY <3>5, <4>2, Zenon
    <3>7. least * n <= Sum(f, s \ {x})
      BY <1>1, <2>2, <3>5
    <3>8. least * (n + 1) = least * n + least /\ least * n \in Int
      BY <3>5
    <3> QED
      BY <3>1, <3>2, <3>4, <3>6, <3>7, <3>8
  <2> QED
    BY <2>1, <2>2
<1>2. SUBSET S \subseteq C
  <2> HIDE DEF C
  <2> QED
    BY <1>1, SubsetInduction
<1> QED
  BY <1>2

\* The values of g that are d, in s.
Fibre(s, g, d) == {x \in s : g[x] = d}

LEMMA FibreFinite ==
  ASSUME NEW s, IsFiniteSet(s), NEW g, NEW d
  PROVE  IsFiniteSet(Fibre(s, g, d)) /\ Cardinality(Fibre(s, g, d)) \in Nat
<1>1. Fibre(s, g, d) \subseteq s
  BY DEF Fibre
<1> QED
  BY <1>1, FS_Subset, FS_CardinalityType

\* The sizes of the fibres of g add up to the size of its domain.
LEMMA FibresAddUp ==
  ASSUME NEW D, IsFiniteSet(D), NEW S, IsFiniteSet(S), NEW g, \A x \in S : g[x] \in D
  PROVE  Sum([d \in D |-> Cardinality(Fibre(S, g, d))], D) = Cardinality(S)
<1> DEFINE F(s) == [d \in D |-> Cardinality(Fibre(s, g, d))]
           C == {s \in SUBSET S : Sum(F(s), D) = Cardinality(s)}
<1>0. \A s \in SUBSET S : IsFiniteSet(s) /\ \A d \in D :
        F(s)[d] = Cardinality(Fibre(s, g, d)) /\ F(s)[d] \in Int
  BY FibreFinite, FS_Subset
<1>1. ASSUME NEW s \in SUBSET S, \A t \in SUBSET s : t # s => t \in C
      PROVE  s \in C
  <2>1. CASE s = {}
    <3>1. \A d \in D : Fibre(s, g, d) = {} /\ F(s)[d] = Cardinality(Fibre(s, g, d))
      BY <2>1 DEF Fibre
    <3>2. \A d \in D : F(s)[d] = 0
      BY <3>1, FS_EmptySet
    <3>3. PICK f : f = F(s)
      OBVIOUS
    <3>4. \A d \in D : f[d] \in Int /\ f[d] <= 0 /\ 0 <= f[d]
      BY <3>2, <3>3
    <3>5. Sum(f, D) \in Int /\ Cardinality(D) \in Nat
      BY <3>4, SumFacts, FS_CardinalityType
    <3>6. Sum(f, D) <= 0 * Cardinality(D) /\ 0 * Cardinality(D) <= Sum(f, D)
      BY <3>4, SumAtMost, SumAtLeast
    <3>7. Sum(f, D) = 0
      BY <3>5, <3>6
    <3> QED
      BY <2>1, <3>3, <3>7, FS_EmptySet
  <2>2. ASSUME NEW x \in s PROVE s \in C
    <3>1. PICK t, a : t = s \ {x} /\ a = g[x]
      OBVIOUS
    <3>2. t \in SUBSET S /\ t \in C /\ a \in D /\ x \notin t /\ s = t \cup {x}
      BY <1>1, <2>2, <3>1
    <3>3. PICK e, f : e = F(s) /\ f = F(t)
      OBVIOUS
    <3>4. \A d \in D : /\ e[d] = Cardinality(Fibre(s, g, d)) /\ e[d] \in Int
                       /\ f[d] = Cardinality(Fibre(t, g, d)) /\ f[d] \in Int
      BY <1>0, <3>2, <3>3
    <3>5. \A d \in D \ {a} : e[d] = f[d]
      <4>1. \A d \in D \ {a} : Fibre(s, g, d) = Fibre(t, g, d)
        BY <3>1, <3>2 DEF Fibre
      <4> QED
        BY <3>4, <4>1
    <3>6. e[a] = f[a] + 1
      <4>1. Fibre(s, g, a) = Fibre(t, g, a) \cup {x} /\ x \notin Fibre(t, g, a)
        BY <3>1, <3>2 DEF Fibre
      <4>2. IsFiniteSet(Fibre(t, g, a))
        BY <1>0, <3>2, FibreFinite
      <4>3. Cardinality(Fibre(s, g, a)) = Cardinality(Fibre(t, g, a)) + 1
        BY <4>1, <4>2, OneMore, Zenon
      <4> QED
        BY <3>2, <3>4, <4>3
    <3>7. /\ Sum(e, D) = e[a] + Sum(e, D \ {a}) /\ Sum(f, D) = f[a] + Sum(f, D \ {a})
      BY <3>2, <3>4, SumFacts
    <3>8. IsFiniteSet(D \ {a}) /\ \A d \in D \ {a} : f[d] \in Int
      BY <3>4, FS_Subset
    <3>9. Sum(e, D \ {a}) = Sum(f, D \ {a}) /\ Sum(f, D \ {a}) \in Int
      BY <3>5, <3>8, SumFacts
    <3>10. Sum(f, D) = Cardinality(t) /\ Cardinality(s) = Cardinality(t) + 1
      BY <1>0, <3>2, <3>3, FS_AddElement
    <3>11. Sum(e, D) = Cardinality(s)
      BY <3>2, <3>4, <3>6, <3>7, <3>9, <3>10
    <3> QED
      BY <3>3, <3>11
  <2> QED
    BY <2>1, <2>2
<1>2. SUBSET S \subseteq C
  <2> HIDE DEF C
  <2> QED
    BY <1>1, SubsetInduction
<1> QED
  BY <1>2

-----------------------------------------------------------------------------
(* AttendanceReport. *)

LEMMA ReportOperators ==
  /\ \A f : Report!SumFunction(f) = Sum(f, DOMAIN f)
  /\ \A S : Report!Cardinality(S) = Cardinality(S)
  /\ \A S : Report!Max(S) = (CHOOSE x \in S : \A y \in S : x >= y)
  /\ \A S : Report!Min(S) = (CHOOSE x \in S : \A y \in S : x <= y)
<1>1. \A f : Report!SumFunction(f) = Sum(f, DOMAIN f)
  BY Zenon DEF Report!SumFunction, Report!SumFunctionOnSet, Report!FoldFunctionOnSet, Report!MapThenFoldSet,
     Sum, SumFunctionOnSet, FoldFunctionOnSet, MapThenFoldSet
<1>2. \A S : Report!Cardinality(S) = Cardinality(S)
  BY Zenon DEF Report!Cardinality, Cardinality, Report!IsFiniteSet, IsFiniteSet
<1>3. \A S : Report!Max(S) = (CHOOSE x \in S : \A y \in S : x >= y)
  BY Zenon DEF Report!Max
<1>4. \A S : Report!Min(S) = (CHOOSE x \in S : \A y \in S : x <= y)
  BY Zenon DEF Report!Min
<1> QED
  BY <1>1, <1>2, <1>3, <1>4

LEMMA Disjoint ==
  ASSUME NEW A, NEW B, NEW S, IsFiniteSet(S), A \cup B = S, A \cap B = {}
  PROVE  /\ Cardinality(A) \in Nat /\ Cardinality(B) \in Nat /\ Cardinality(S) \in Nat
         /\ Cardinality(S) = Cardinality(A) + Cardinality(B)
         /\ IsFiniteSet(A) /\ IsFiniteSet(B)
<1>1. IsFiniteSet(A) /\ IsFiniteSet(B)
  BY FS_Subset
<1>2. Cardinality(S) = Cardinality(A) + Cardinality(B) - Cardinality({})
  BY <1>1, FS_Union
<1>3. Cardinality(A) \in Nat /\ Cardinality(B) \in Nat /\ Cardinality(S) \in Nat
  BY <1>1, FS_CardinalityType
<1> QED
  BY <1>1, <1>2, <1>3, FS_EmptySet

LEMMA ReportRows ==
  ASSUME Report!TypeOK
  PROVE  /\ IsFiniteSet(Report!Rows) /\ Report!Rows \subseteq HeldId
         /\ \A e \in Report!Rows :
              /\ held[e].subject \in Subject /\ held[e].day \in Day
              /\ \A st \in Student : held[e].status[st] \in {"none", "Present", "Late"}
<1>1. Report!Rows \subseteq HeldId
  BY DEF Report!Rows
<1>2. IsFiniteSet(HeldId)
  BY ReportAssumption
<1>3. IsFiniteSet(Report!Rows)
  BY <1>1, <1>2, FS_Subset
<1>4. ASSUME NEW e \in Report!Rows
      PROVE  /\ held[e].subject \in Subject /\ held[e].day \in Day
             /\ \A st \in Student : held[e].status[st] \in {"none", "Present", "Late"}
  <2>1. held[e] \in Report!Row
    BY <1>4 DEF Report!TypeOK, Report!Rows
  <2> QED
    BY <2>1 DEF Report!Row
<1> QED
  BY <1>1, <1>3, <1>4

\* The sessions of E in which student st has this status, and those that count.
With(E, st, status) == {e \in E : held[e].status[st] = status}
Counting(E, st) == {e \in E : Report!Counts(held[e].status[st])}

LEMMA LineOf ==
  \A E, st :
    /\ Report!Line(E, st).total = Cardinality(E)
    /\ Report!Line(E, st).present = Cardinality(With(E, st, "Present"))
    /\ Report!Line(E, st).late = Cardinality(With(E, st, "Late"))
    /\ Report!Line(E, st).absent =
         Cardinality(E) - Cardinality(With(E, st, "Present")) - Cardinality(With(E, st, "Late"))
    /\ Report!Line(E, st).counted =
         Cardinality(With(E, st, "Present"))
           + IF late THEN Cardinality(With(E, st, "Late")) ELSE 0
<1> TAKE E, st
<1>1. /\ Report!Number(E, LAMBDA e : held[e].status[st] = "Late") = Cardinality(With(E, st, "Late"))
      /\ Report!Number(E, LAMBDA e : held[e].status[st] = "Present") = Cardinality(With(E, st, "Present"))
  BY ReportOperators, Zenon DEF Report!Number, With
<1>2. Report!Cardinality(E) = Cardinality(E)
  BY ReportOperators
<1> QED
  BY <1>1, <1>2, Zenon DEF Report!Line

\* What a line says of the sessions E.
LEMMA LineCounts ==
  ASSUME Report!TypeOK, NEW E \in SUBSET Report!Rows, NEW st \in Student
  PROVE  LET l == Report!Line(E, st)
         IN  /\ IsFiniteSet(E) /\ l.total = Cardinality(E) /\ l.total \in Nat
             /\ l.present \in Nat /\ l.late \in Nat
             /\ l.counted = Cardinality(Counting(E, st)) /\ l.counted \in Nat
             /\ l.absent = Cardinality(With(E, st, "none")) /\ l.absent \in Nat
             /\ l.present + l.late + l.absent = l.total
             /\ l.counted <= l.total
<1> DEFINE p == With(E, st, "Present")
           a == With(E, st, "Late")
           n == With(E, st, "none")
<1>1. /\ IsFiniteSet(E)
      /\ \A e \in E : held[e].status[st] \in {"none", "Present", "Late"}
  BY ReportRows, FS_Subset
<1>2. /\ p \cup (a \cup n) = E /\ p \cap (a \cup n) = {} /\ a \cap n = {}
  BY <1>1 DEF With
<1>3. /\ Cardinality(E) = Cardinality(p) + (Cardinality(a) + Cardinality(n))
      /\ Cardinality(E) \in Nat /\ Cardinality(p) \in Nat
      /\ Cardinality(a) \in Nat /\ Cardinality(n) \in Nat
  <2>1. /\ Cardinality(E) = Cardinality(p) + Cardinality(a \cup n) /\ IsFiniteSet(a \cup n)
        /\ Cardinality(E) \in Nat /\ Cardinality(p) \in Nat
    BY <1>1, <1>2, Disjoint
  <2>2. /\ Cardinality(a \cup n) = Cardinality(a) + Cardinality(n)
        /\ Cardinality(a) \in Nat /\ Cardinality(n) \in Nat
    BY <1>2, <2>1, Disjoint
  <2> QED
    BY <2>1, <2>2
<1>4. Cardinality(Counting(E, st)) = Cardinality(p) + IF late THEN Cardinality(a) ELSE 0
  <2>1. CASE late
    <3>1. /\ p \cup a = Counting(E, st) /\ p \cap a = {}
      BY <2>1 DEF With, Counting, Report!Counts
    <3>2. IsFiniteSet(Counting(E, st))
      BY <1>1, FS_Subset DEF Counting
    <3>3. Cardinality(Counting(E, st)) = Cardinality(p) + Cardinality(a)
      BY <3>1, <3>2, Disjoint
    <3> QED
      BY <2>1, <3>3
  <2>2. CASE ~late
    <3>1. p = Counting(E, st)
      BY <2>2 DEF With, Counting, Report!Counts
    <3> HIDE DEF p, a
    <3> QED
      BY <1>3, <2>2, <3>1
  <2> QED
    BY <2>1, <2>2
<1>5. PICK l : l = Report!Line(E, st)
  OBVIOUS
<1>6. /\ l.total = Cardinality(E) /\ l.present = Cardinality(p) /\ l.late = Cardinality(a)
      /\ l.absent = Cardinality(E) - Cardinality(p) - Cardinality(a)
      /\ l.counted = Cardinality(p) + IF late THEN Cardinality(a) ELSE 0
  BY <1>5, LineOf, Zenon
<1>7. late \in BOOLEAN
  BY DEF Report!TypeOK
<1> HIDE DEF p, a
<1>8. l.absent = Cardinality(n)
  BY <1>3, <1>6
<1>9. l.counted = Cardinality(Counting(E, st))
  BY <1>4, <1>6, Zenon
<1>10. l.counted \in Nat /\ l.counted <= l.total /\ l.present + l.late + l.absent = l.total
  BY <1>3, <1>6, <1>7, <1>8
<1> QED
  BY <1>1, <1>3, <1>5, <1>6, <1>8, <1>9, <1>10

LEMMA SumOfValues ==
  ASSUME NEW D, IsFiniteSet(D), NEW f, NEW g, \A d \in D : f[d] \in Int /\ g[d] = f[d]
  PROVE  Sum(g, D) = Sum(f, D)
BY SumFacts

\* A subset of the sessions is partitioned by their subjects.
LEMMA BySubject ==
  ASSUME Report!TypeOK, NEW A \in SUBSET Report!Rows, NEW f, DOMAIN f = Subject,
         \A s \in Subject : f[s] = Cardinality(A \cap Report!OfSubject(s))
  PROVE  Report!SumFunction(f) = Cardinality(A)
<1> DEFINE g == [e \in A |-> held[e].subject]
           h == [s \in Subject |-> Cardinality(Fibre(A, g, s))]
<1>1. IsFiniteSet(A) /\ (\A e \in A : g[e] \in Subject) /\ IsFiniteSet(Subject)
  BY ReportRows, ReportAssumption, FS_Subset
<1>2. Sum(h, Subject) = Cardinality(A)
  <2> HIDE DEF g
  <2> QED
    BY <1>1, FibresAddUp
<1>3. \A s \in Subject : h[s] \in Int /\ f[s] = h[s]
  <2> TAKE s \in Subject
  <2>1. A \cap Report!OfSubject(s) = Fibre(A, g, s)
    BY DEF Fibre, Report!OfSubject
  <2>2. Cardinality(Fibre(A, g, s)) \in Nat
    BY <1>1, FibreFinite
  <2> QED
    BY <2>1, <2>2
<1>4. Sum(f, Subject) = Sum(h, Subject)
  <2> HIDE DEF h
  <2> QED
    BY <1>1, <1>3, SumOfValues
<1> QED
  BY <1>2, <1>4, ReportOperators

LEMMA SubjectsMatch == ASSUME Report!TypeOK PROVE Report!SubjectsAddUp
<1> SUFFICES ASSUME NEW st \in Student
             PROVE  /\ LET l == Report!Line(Report!Rows, st)
                       IN  l.present + l.late + l.absent = l.total
                    /\ Report!Line(Report!Rows, st).counted =
                         Report!SumFunction([s \in Subject |-> Report!Line(Report!OfSubject(s), st).counted])
                    /\ Report!Line(Report!Rows, st).absent =
                         Report!SumFunction([s \in Subject |-> Report!Line(Report!OfSubject(s), st).absent])
  BY DEF Report!SubjectsAddUp
<1>1. \A s \in Subject : Report!OfSubject(s) \in SUBSET Report!Rows
  BY DEF Report!OfSubject
<1>2. PICK counted, absent :
        /\ counted = [s \in Subject |-> Report!Line(Report!OfSubject(s), st).counted]
        /\ absent = [s \in Subject |-> Report!Line(Report!OfSubject(s), st).absent]
  OBVIOUS
<1>3. PICK here, away : here = Counting(Report!Rows, st) /\ away = With(Report!Rows, st, "none")
  OBVIOUS
<1>4. here \in SUBSET Report!Rows /\ away \in SUBSET Report!Rows
  BY <1>3 DEF Counting, With
<1>5. ASSUME NEW s \in Subject
      PROVE  /\ counted[s] = Cardinality(here \cap Report!OfSubject(s))
             /\ absent[s] = Cardinality(away \cap Report!OfSubject(s))
  <2>1. /\ counted[s] = Cardinality(Counting(Report!OfSubject(s), st))
        /\ absent[s] = Cardinality(With(Report!OfSubject(s), st, "none"))
    BY <1>1, <1>2, LineCounts
  <2>2. /\ Counting(Report!OfSubject(s), st) = here \cap Report!OfSubject(s)
        /\ With(Report!OfSubject(s), st, "none") = away \cap Report!OfSubject(s)
    BY <1>1, <1>3 DEF Counting, With
  <2> QED
    BY <2>1, <2>2
<1>6. DOMAIN counted = Subject /\ DOMAIN absent = Subject
  BY <1>2
<1>7. /\ Report!SumFunction(counted) = Cardinality(here)
      /\ Report!SumFunction(absent) = Cardinality(away)
  BY <1>4, <1>5, <1>6, BySubject
<1>8. PICK l : l = Report!Line(Report!Rows, st)
  OBVIOUS
<1>9. /\ l.present + l.late + l.absent = l.total
      /\ l.counted = Cardinality(here) /\ l.absent = Cardinality(away)
  BY <1>3, <1>8, LineCounts
<1> QED
  BY <1>2, <1>7, <1>8, <1>9, Zenon


LEMMA Quotient ==
  ASSUME NEW a \in Int, NEW b \in Nat \ {0}
  PROVE  /\ a \div b \in Int
         /\ b * (a \div b) <= a /\ a < b * (a \div b) + b
<1>1. a = b * (a \div b) + (a % b) /\ a % b \in 0..(b - 1) /\ a \div b \in Int
  OBVIOUS
<1>2. b * (a \div b) \in Int
  BY <1>1
<1> QED
  BY <1>1, <1>2

\* The percentage is a whole number of tenths, at most half a tenth off.
LEMMA TenthOf ==
  ASSUME NEW n \in Nat, NEW d \in Nat \ {0}
  PROVE  /\ Report!Tenth(n, d) \in Int
         /\ (2 * d) * Report!Tenth(n, d) <= 2000 * n + d
         /\ 2000 * n + d < (2 * d) * Report!Tenth(n, d) + 2 * d
<1> DEFINE a == 2000 * n + d
           b == 2 * d
<1>1. a \in Int /\ b \in Nat \ {0}
  <2>1. n \in Int /\ d \in Int /\ d > 0
    OBVIOUS
  <2> QED
    BY <2>1
<1>2. Report!Tenth(n, d) = a \div b
  BY DEF Report!Tenth
<1>3. /\ a \div b \in Int
      /\ b * (a \div b) <= a /\ a < b * (a \div b) + b
  <2> HIDE DEF a, b
  <2> QED
    BY <1>1, Quotient
<1>4. PICK t : t = Report!Tenth(n, d)
  OBVIOUS
<1>5. t \in Int /\ b * t <= a /\ a < b * t + b
  <2> HIDE DEF a, b
  <2> QED
    BY <1>2, <1>3, <1>4
<1> QED
  BY <1>4, <1>5

\* All of d is there exactly where the percentage, to a tenth, is 100.
LEMMA Perfect ==
  ASSUME NEW n \in Nat, NEW d \in Nat \ {0}, n <= d, d < 2000
  PROVE  Report!Tenth(n, d) = 1000 <=> n = d
<1>1. PICK t : t = Report!Tenth(n, d)
  OBVIOUS
<1>2. t \in Int /\ (2 * d) * t <= 2000 * n + d /\ 2000 * n + d < (2 * d) * t + 2 * d
  BY <1>1, TenthOf
<1>3. ASSUME t = 1000 PROVE n = d
  <2>1. 2000 * d <= 2000 * n + d
    BY <1>2, <1>3
  <2> QED
    BY <2>1
<1>4. ASSUME n = d PROVE t = 1000
  <2>1. t <= 1000
    <3>1. SUFFICES ASSUME t >= 1001 PROVE FALSE
      BY <1>2
    <3>2. (2 * d) * 1001 <= (2 * d) * t
      BY <1>2, <3>1
    <3> QED
      BY <1>2, <1>4, <3>2
  <2>2. t >= 1000
    <3>1. SUFFICES ASSUME t <= 999 PROVE FALSE
      BY <1>2
    <3>2. (2 * d) * t <= (2 * d) * 999
      BY <1>2, <3>1
    <3> QED
      BY <1>2, <1>4, <3>2
  <2> QED
    BY <1>2, <2>1, <2>2
<1> QED
  BY <1>1, <1>3, <1>4

LEMMA PerfectMatch == ASSUME Report!TypeOK PROVE Report!PerfectMeansAll
<1> SUFFICES ASSUME NEW st \in Student, NEW s \in Subject, Report!OfSubject(s) # {},
                    Report!Cardinality(Report!OfSubject(s)) < 2000
             PROVE  Report!Percentage(Report!OfSubject(s), st) = 1000
                      <=> \A e \in Report!OfSubject(s) : Report!Counts(held[e].status[st])
  BY DEF Report!PerfectMeansAll
<1>1. PICK E : E = Report!OfSubject(s)
  OBVIOUS
<1>2. E \in SUBSET Report!Rows
  BY <1>1 DEF Report!OfSubject
<1>3. PICK l : l = Report!Line(E, st)
  OBVIOUS
<1>4. /\ IsFiniteSet(E) /\ l.total = Cardinality(E) /\ l.total \in Nat
      /\ l.counted = Cardinality(Counting(E, st)) /\ l.counted \in Nat /\ l.counted <= l.total
  BY <1>2, <1>3, LineCounts
<1>5. l.total # 0 /\ l.total < 2000
  BY <1>1, <1>4, ReportOperators, FS_EmptySet
<1>6. Report!Percentage(E, st) = 1000 <=> l.counted = l.total
  BY <1>3, <1>4, <1>5, Perfect DEF Report!Percentage
<1>7. l.counted = l.total <=> Counting(E, st) = E
  BY <1>4, FS_Subset DEF Counting
<1>8. Counting(E, st) = E <=> \A e \in E : Report!Counts(held[e].status[st])
  BY DEF Counting
<1> QED
  BY <1>1, <1>6, <1>7, <1>8

LEMMA FiniteImage ==
  ASSUME NEW S, IsFiniteSet(S), NEW f
  PROVE  IsFiniteSet({f[x] : x \in S})
<1> DEFINE T == {f[x] : x \in S}
           g == [x \in S |-> f[x]]
<1>1. g \in Surjection(S, T)
  BY DEF Surjection
<1> HIDE DEF T, g
<1>2. IsFiniteSet(T)
  BY <1>1, FS_Surjection
<1> QED
  BY <1>2 DEF T

LEMMA TimesOne ==
  ASSUME NEW S, IsFiniteSet(S), NEW x
  PROVE  IsFiniteSet(S \X {x}) /\ Cardinality(S \X {x}) = Cardinality(S)
<1>1. IsFiniteSet({x}) /\ Cardinality({x}) = 1 /\ Cardinality(S) \in Nat
  BY FS_Singleton, FS_CardinalityType
<1>2. IsFiniteSet(S \X {x}) /\ Cardinality(S \X {x}) = Cardinality(S) * Cardinality({x})
  BY <1>1, FS_Product
<1> QED
  BY <1>1, <1>2

Days == {held[e].day : e \in Report!Rows}
Pairs == Report!Rows \X Student
OnDay(P, d) == {p \in P : held[p[1]].day = d}
OfStudent(P, st) == {e \in Report!Rows : <<e, st>> \in P}

\* A set of pairs of a session and a student, counted by day and by student.
LEMMA CountedTwice ==
  ASSUME Report!TypeOK, NEW P \in SUBSET Pairs,
         NEW f, DOMAIN f = Days, NEW h, DOMAIN h = Student,
         \A d \in Days : f[d] = Cardinality(OnDay(P, d)),
         \A st \in Student : h[st] = Cardinality(OfStudent(P, st))
  PROVE  Report!SumFunction(f) = Cardinality(P) /\ Report!SumFunction(h) = Cardinality(P)
<1>1. IsFiniteSet(Report!Rows) /\ IsFiniteSet(Student) /\ IsFiniteSet(Days)
  <2>1. IsFiniteSet(Report!Rows)
    BY ReportRows
  <2>2. PICK day : day = [e \in Report!Rows |-> held[e].day]
    OBVIOUS
  <2>3. IsFiniteSet({day[e] : e \in Report!Rows}) /\ {day[e] : e \in Report!Rows} = Days
    BY <2>1, <2>2, FiniteImage DEF Days
  <2> QED
    BY <2>1, <2>2, <2>3, ReportAssumption
<1>2. IsFiniteSet(P)
  BY <1>1, FS_Product, FS_Subset DEF Pairs
<1>3. Sum(f, Days) = Cardinality(P)
  <2> DEFINE g == [p \in P |-> held[p[1]].day]
             F == [d \in Days |-> Cardinality(Fibre(P, g, d))]
  <2>1. \A p \in P : g[p] \in Days
    BY DEF Days, Pairs
  <2>2. Sum(F, Days) = Cardinality(P)
    <3> HIDE DEF g
    <3> QED
      BY <1>1, <1>2, <2>1, FibresAddUp
  <2>3. \A d \in Days : F[d] \in Int /\ f[d] = F[d]
    <3> TAKE d \in Days
    <3>1. Fibre(P, g, d) = OnDay(P, d)
      BY DEF Fibre, OnDay
    <3>2. Cardinality(Fibre(P, g, d)) \in Nat
      BY <1>2, FibreFinite
    <3> QED
      BY <3>1, <3>2
  <2> HIDE DEF F
  <2>4. Sum(f, Days) = Sum(F, Days)
    BY <1>1, <2>3, SumOfValues
  <2> QED
    BY <2>2, <2>4
<1>4. Sum(h, Student) = Cardinality(P)
  <2> DEFINE g == [p \in P |-> p[2]]
             F == [st \in Student |-> Cardinality(Fibre(P, g, st))]
  <2>1. \A p \in P : g[p] \in Student
    BY DEF Pairs
  <2>2. Sum(F, Student) = Cardinality(P)
    <3> HIDE DEF g
    <3> QED
      BY <1>1, <1>2, <2>1, FibresAddUp
  <2>3. \A st \in Student : F[st] \in Int /\ h[st] = F[st]
    <3> TAKE st \in Student
    <3> DEFINE E == OfStudent(P, st)
    <3>1. Fibre(P, g, st) = E \X {st}
      BY DEF Fibre, Pairs, OfStudent
    <3>2. IsFiniteSet(E)
      BY <1>1, FS_Subset DEF OfStudent
    <3>3. Cardinality(E \X {st}) = Cardinality(E) /\ Cardinality(E) \in Nat
      <4> HIDE DEF E
      <4> QED
        BY <3>2, TimesOne, FS_CardinalityType
    <3>4. h[st] = Cardinality(E) /\ F[st] = Cardinality(Fibre(P, g, st))
      OBVIOUS
    <3> HIDE DEF E, F, g
    <3> QED
      BY <3>1, <3>3, <3>4
  <2> HIDE DEF F
  <2>4. Sum(h, Student) = Sum(F, Student)
    BY <1>1, <2>3, SumOfValues
  <2> QED
    BY <2>2, <2>4
<1> QED
  BY <1>3, <1>4, ReportOperators

LEMMA TrendMatches == ASSUME Report!TypeOK PROVE Report!TrendAgreesWithReport
<1> DEFINE P == {p \in Pairs : Report!Counts(held[p[1]].status[p[2]])}
           R == Report!Rows
           On(d) == {e \in R : held[e].day = d}
<1>1. PICK present, total, counted, all :
        /\ present = [d \in Days |-> Report!Bucket(R, d).present]
        /\ total = [d \in Days |-> Report!Bucket(R, d).total]
        /\ counted = [st \in Student |-> Report!Line(R, st).counted]
        /\ all = [st \in Student |-> Report!Line(R, st).total]
  OBVIOUS
<1>2. ASSUME NEW d \in Days
      PROVE  /\ present[d] = Cardinality(OnDay(P, d))
             /\ total[d] = Cardinality(OnDay(Pairs, d))
  <2>1. /\ {p \in On(d) \X Student : Report!Counts(held[p[1]].status[p[2]])}
              = OnDay(P, d)
        /\ On(d) \X Student = OnDay(Pairs, d)
    BY DEF Pairs, OnDay
  <2>2. /\ Report!Bucket(R, d).present =
             Cardinality({p \in On(d) \X Student : Report!Counts(held[p[1]].status[p[2]])})
        /\ Report!Bucket(R, d).total = Cardinality(On(d) \X Student)
    BY ReportOperators, Zenon DEF Report!Bucket
  <2> HIDE DEF On, P
  <2> QED
    BY <1>1, <2>1, <2>2
<1>3. ASSUME NEW st \in Student
      PROVE  /\ counted[st] = Cardinality(OfStudent(P, st))
             /\ all[st] = Cardinality(OfStudent(Pairs, st))
  <2>1. OfStudent(P, st) = Counting(R, st) /\ OfStudent(Pairs, st) = R
    BY DEF Pairs, Counting, OfStudent
  <2>2. /\ Report!Line(R, st).counted = Cardinality(Counting(R, st))
        /\ Report!Line(R, st).total = Cardinality(R)
    BY LineCounts
  <2> HIDE DEF P, R
  <2> QED
    BY <1>1, <2>1, <2>2
<1>4. /\ DOMAIN present = Days /\ DOMAIN total = Days
      /\ DOMAIN counted = Student /\ DOMAIN all = Student
      /\ P \in SUBSET Pairs /\ Pairs \in SUBSET Pairs
  BY <1>1
<1>5. /\ Report!SumFunction(present) = Cardinality(P)
      /\ Report!SumFunction(counted) = Cardinality(P)
  <2> HIDE DEF P
  <2> QED
    BY <1>2, <1>3, <1>4, CountedTwice
<1>6. /\ Report!SumFunction(total) = Cardinality(Pairs)
      /\ Report!SumFunction(all) = Cardinality(Pairs)
  <2> PICK Q : Q = Pairs
    OBVIOUS
  <2> HIDE DEF P, R
  <2>1. /\ \A d \in Days : total[d] = Cardinality(OnDay(Q, d))
        /\ \A st \in Student : all[st] = Cardinality(OfStudent(Q, st))
        /\ Q \in SUBSET Pairs
    BY <1>2, <1>3
  <2>2. Report!SumFunction(total) = Cardinality(Q) /\ Report!SumFunction(all) = Cardinality(Q)
    BY <1>4, <2>1, CountedTwice
  <2> QED
    BY <2>2
<1> QED
  BY <1>1, <1>5, <1>6 DEF Report!TrendAgreesWithReport, Days

LEMMA Extremes ==
  ASSUME NEW S, IsFiniteSet(S), S \subseteq Int, S # {}
  PROVE  /\ \E x \in S : \A y \in S : x <= y
         /\ \E x \in S : \A y \in S : x >= y
<1> DEFINE C == {s \in SUBSET S :
                   s # {} => /\ \E x \in s : \A y \in s : x <= y
                             /\ \E x \in s : \A y \in s : x >= y}
<1>1. ASSUME NEW s \in SUBSET S, \A t \in SUBSET s : t # s => t \in C
      PROVE  s \in C
  <2>0. CASE s = {}
    BY <2>0
  <2>1. ASSUME NEW z \in s, s = {z} PROVE s \in C
    <3>1. z \in Int
      OBVIOUS
    <3>2. /\ \E x \in s : \A y \in s : x <= y
          /\ \E x \in s : \A y \in s : x >= y
      BY <2>1, <3>1
    <3> QED
      BY <3>2
  <2>2. ASSUME NEW z \in s, s # {z} PROVE s \in C
    <3>1. PICK t : t = s \ {z}
      OBVIOUS
    <3>2. t \in SUBSET s /\ t # s /\ t # {}
      BY <2>2, <3>1
    <3>3. t \in C
      BY <1>1, <3>2
    <3>4. PICK a \in t, b \in t : \A y \in t : a <= y /\ b >= y
      BY <3>2, <3>3
    <3>5. \A y \in s : y = z \/ y \in t
      BY <3>1
    <3>6. a \in Int /\ b \in Int /\ z \in Int /\ t \subseteq Int /\ a \in s /\ b \in s
      BY <3>2
    <3>7. \E x \in s : \A y \in s : x <= y
      <4>1. CASE a <= z
        BY <3>4, <3>5, <3>6, <4>1
      <4>2. CASE z <= a
        BY <3>4, <3>5, <3>6, <4>2
      <4> QED
        BY <3>6, <4>1, <4>2
    <3>8. \E x \in s : \A y \in s : x >= y
      <4>1. CASE b >= z
        BY <3>4, <3>5, <3>6, <4>1
      <4>2. CASE z >= b
        BY <3>4, <3>5, <3>6, <4>2
      <4> QED
        BY <3>6, <4>1, <4>2
    <3> QED
      BY <3>7, <3>8
  <2> QED
    BY <2>0, <2>1, <2>2
<1>2. SUBSET S \subseteq C
  <2> HIDE DEF C
  <2> QED
    BY <1>1, SubsetInduction
<1> QED
  BY <1>2

\* A rounded average lies between the least and the greatest value.
LEMMA AverageBetween ==
  ASSUME NEW n \in Int, NEW m \in Nat \ {0}, NEW lo \in Int, NEW hi \in Int,
         lo * m <= n, n <= hi * m
  PROVE  (2 * n + m) \div (2 * m) \in lo..hi
<1> DEFINE a == 2 * n + m
           b == 2 * m
<1>1. a \in Int /\ b \in Nat \ {0}
  <2>1. n \in Int /\ m \in Int /\ m > 0
    OBVIOUS
  <2> QED
    BY <2>1
<1>2. PICK q : q = a \div b
  OBVIOUS
<1>3. q \in Int /\ b * q <= a /\ a < b * q + b
  <2> HIDE DEF a, b
  <2> QED
    BY <1>1, <1>2, Quotient
<1>4. lo <= q
  <2>1. SUFFICES ASSUME q + 1 <= lo PROVE FALSE
    BY <1>3
  <2>2. (q + 1) * m <= lo * m
    BY <1>3, <2>1
  <2>3. m * q \in Int /\ lo * m \in Int /\ (q + 1) * m = m * q + m /\ b * q = 2 * (m * q)
    BY <1>3
  <2> QED
    BY <1>3, <2>2, <2>3
<1>5. q <= hi
  <2>1. SUFFICES ASSUME hi + 1 <= q PROVE FALSE
    BY <1>3
  <2>2. (hi + 1) * m <= q * m
    BY <1>3, <2>1
  <2>3. q * m \in Int /\ hi * m \in Int /\ (hi + 1) * m = hi * m + m /\ b * q = 2 * (q * m)
    BY <1>3
  <2> QED
    BY <1>3, <2>2, <2>3
<1> QED
  BY <1>2, <1>3, <1>4, <1>5

LabelOf(st) == IF Branch[st] = "" THEN "Unspecified" ELSE Branch[st]
MembersOf(b) == {st \in Student : LabelOf(st) = b}
CohortOf(b) ==
  [label |-> b, count |-> Cardinality(MembersOf(b)),
   average |->
     (2 * Report!SumFunction([st \in MembersOf(b) |-> Report!Percentage(Report!Rows, st)])
        + Cardinality(MembersOf(b))) \div (2 * Cardinality(MembersOf(b)))]

LEMMA CohortsAre == Report!Cohorts = {CohortOf(b) : b \in {LabelOf(st) : st \in Student}}
BY ReportOperators, Zenon DEF Report!Cohorts, CohortOf, MembersOf, LabelOf

LEMMA CohortsMatch == ASSUME Report!TypeOK PROVE Report!CohortsCover
<1> SUFFICES ASSUME Report!Rows # {}
             PROVE  LET all == {Report!Percentage(Report!Rows, st) : st \in Student}
                    IN  /\ Report!SumFunction([c \in Report!Cohorts |-> c.count])
                             = Report!Cardinality(Student)
                        /\ \A c \in Report!Cohorts :
                             c.average \in Report!Min(all)..Report!Max(all)
  BY DEF Report!CohortsCover
<1>1. IsFiniteSet(Student)
  BY ReportAssumption
<1>2. PICK part : part = [st \in Student |-> CohortOf(LabelOf(st))]
  OBVIOUS
<1>3. Report!Cohorts = {part[st] : st \in Student}
  BY <1>2, CohortsAre
<1>4. IsFiniteSet(Report!Cohorts)
  BY <1>1, <1>3, FiniteImage
<1>5. Report!SumFunction([c \in Report!Cohorts |-> c.count]) = Cardinality(Student)
  <2> DEFINE f == [c \in Report!Cohorts |-> c.count]
             F == [c \in Report!Cohorts |-> Cardinality(Fibre(Student, part, c))]
  <2>1. \A st \in Student : part[st] \in Report!Cohorts
    BY <1>3
  <2>2. Sum(F, Report!Cohorts) = Cardinality(Student)
    BY <1>1, <1>4, <2>1, FibresAddUp
  <2>3. \A c \in Report!Cohorts : F[c] \in Int /\ f[c] = F[c]
    <3> TAKE c \in Report!Cohorts
    <3>1. PICK st \in Student : c = CohortOf(LabelOf(st))
      BY <1>2, <1>3
    <3>2. Fibre(Student, part, c) = MembersOf(LabelOf(st))
      <4>1. \A u \in Student : part[u].label = LabelOf(u) /\ part[u] = CohortOf(LabelOf(u))
        BY <1>2 DEF CohortOf
      <4>2. c.label = LabelOf(st)
        BY <3>1 DEF CohortOf
      <4>3. \A u \in Student : part[u] = c <=> LabelOf(u) = LabelOf(st)
        BY <3>1, <4>1, <4>2
      <4> QED
        BY <4>3 DEF Fibre, MembersOf
    <3>3. f[c] = Cardinality(MembersOf(LabelOf(st)))
      BY <3>1 DEF CohortOf
    <3>4. Cardinality(Fibre(Student, part, c)) \in Nat
      BY <1>1, FibreFinite
    <3> HIDE DEF f
    <3> QED
      BY <3>2, <3>3, <3>4
  <2>4. DOMAIN f = Report!Cohorts
    OBVIOUS
  <2> HIDE DEF f, F
  <2>5. Sum(f, Report!Cohorts) = Sum(F, Report!Cohorts)
    BY <1>4, <2>3, SumOfValues
  <2>6. Report!SumFunction(f) = Cardinality(Student)
    BY <2>2, <2>4, <2>5, ReportOperators
  <2> QED
    BY <2>6 DEF f
<1>6. PICK rate : rate = [st \in Student |-> Report!Percentage(Report!Rows, st)]
  OBVIOUS
<1>7. \A st \in Student : rate[st] \in Int
  <2> TAKE st \in Student
  <2>1. /\ IsFiniteSet(Report!Rows)
        /\ Report!Line(Report!Rows, st).total = Cardinality(Report!Rows)
        /\ Report!Line(Report!Rows, st).total \in Nat
        /\ Report!Line(Report!Rows, st).counted \in Nat
    BY LineCounts
  <2>2. Report!Line(Report!Rows, st).total # 0
    BY <2>1, FS_EmptySet
  <2>3. PICK n, d : /\ n = Report!Line(Report!Rows, st).counted
                    /\ d = Report!Line(Report!Rows, st).total
    OBVIOUS
  <2>4. n \in Nat /\ d \in Nat \ {0}
    BY <2>1, <2>2, <2>3
  <2>5. Report!Tenth(n, d) \in Int
    BY <2>4, TenthOf
  <2>6. Report!Percentage(Report!Rows, st) = Report!Tenth(n, d)
    BY <2>3 DEF Report!Percentage
  <2> QED
    BY <1>6, <2>5, <2>6
<1>8. PICK all : all = {rate[st] : st \in Student}
  OBVIOUS
<1>9. all = {Report!Percentage(Report!Rows, st) : st \in Student}
  BY <1>6, <1>8
<1>10. ASSUME NEW c \in Report!Cohorts
       PROVE  c.average \in Report!Min(all)..Report!Max(all)
  <2>1. PICK st \in Student : c = CohortOf(LabelOf(st))
    BY <1>2, <1>3
  <2>2. PICK M : M = MembersOf(LabelOf(st))
    OBVIOUS
  <2>3. M \subseteq Student /\ st \in M
    BY <2>2 DEF MembersOf
  <2>4. IsFiniteSet(M) /\ Cardinality(M) \in Nat /\ Cardinality(M) # 0
    BY <1>1, <2>3, FS_Subset, FS_CardinalityType, FS_EmptySet
  <2>5. IsFiniteSet(all) /\ all \subseteq Int /\ all # {}
    BY <1>1, <1>7, <1>8, FiniteImage
  <2>6. PICK lo, hi : lo = Report!Min(all) /\ hi = Report!Max(all)
    OBVIOUS
  <2>7. /\ lo \in all /\ \A y \in all : lo <= y
        /\ hi \in all /\ \A y \in all : hi >= y
    <3>1. /\ \E x \in all : \A y \in all : x <= y
          /\ \E x \in all : \A y \in all : x >= y
      BY <2>5, Extremes
    <3>2. /\ lo = CHOOSE x \in all : \A y \in all : x <= y
          /\ hi = CHOOSE x \in all : \A y \in all : x >= y
      BY <2>6, ReportOperators
    <3> QED
      BY <3>1, <3>2, Zenon
  <2>8. PICK f : f = [u \in M |-> Report!Percentage(Report!Rows, u)]
    OBVIOUS
  <2>9. \A u \in M : f[u] \in Int /\ lo <= f[u] /\ f[u] <= hi
    <3> TAKE u \in M
    <3>1. f[u] = rate[u] /\ rate[u] \in all /\ rate[u] \in Int
      BY <1>6, <1>7, <1>8, <2>3, <2>8
    <3> QED
      BY <2>5, <2>7, <3>1
  <2>10. PICK n, m : n = Sum(f, M) /\ m = Cardinality(M)
    OBVIOUS
  <2>11. n \in Int /\ m \in Nat \ {0} /\ lo \in Int /\ hi \in Int
    BY <2>4, <2>5, <2>7, <2>9, <2>10, SumFacts
  <2>12. lo * m <= n /\ n <= hi * m
    BY <2>4, <2>9, <2>10, <2>11, SumAtMost, SumAtLeast
  <2>13. (2 * n + m) \div (2 * m) \in lo..hi
    BY <2>11, <2>12, AverageBetween
  <2>14. Report!SumFunction(f) = n
    BY <2>8, <2>10, ReportOperators
  <2>15. c.average = (2 * n + m) \div (2 * m)
    <3>1. c.average = (2 * Report!SumFunction(f) + Cardinality(M)) \div (2 * Cardinality(M))
      BY <2>1, <2>2, <2>8 DEF CohortOf
    <3> QED
      BY <2>10, <2>14, <3>1
  <2> QED
    BY <2>6, <2>13, <2>15
<1>11. Report!Cardinality(Student) = Cardinality(Student)
  BY ReportOperators
<1> QED
  BY <1>5, <1>9, <1>10, <1>11

LEMMA ReportTyped ==
  ASSUME Report!TypeOK, Report!Next
  PROVE  Report!TypeOK'
<1>1. PICK e \in HeldId :
        \/ Report!Hold(e) \/ Report!Cancel(e)
        \/ \E subject \in Subject, day \in Day : Report!Schedule(e, subject, day)
        \/ \E st \in Student, status \in {"Present", "Late"} : Report!Record(e, st, status)
  BY DEF Report!Next
<1>2. PICK row \in Report!Row : held' = [held EXCEPT ![e] = row]
  <2>1. CASE Report!Hold(e) \/ Report!Cancel(e)
    <3>1. held[e] \in Report!Row
      BY <2>1 DEF Report!TypeOK, Report!Rows, Report!Hold, Report!Cancel
    <3>2. PICK took \in {"place", "cancelled"} : held' = [held EXCEPT ![e].took = took]
      BY <2>1 DEF Report!Hold, Report!Cancel
    <3>3. [held[e] EXCEPT !.took = took] \in Report!Row
      BY <3>1 DEF Report!Row
    <3> QED
      BY <3>2, <3>3
  <2>2. ASSUME NEW subject \in Subject, NEW day \in Day, Report!Schedule(e, subject, day)
        PROVE  \E row \in Report!Row : held' = [held EXCEPT ![e] = row]
    BY <2>2 DEF Report!Schedule, Report!Row
  <2>3. ASSUME NEW st \in Student, NEW status \in {"Present", "Late"}, Report!Record(e, st, status)
        PROVE  \E row \in Report!Row : held' = [held EXCEPT ![e] = row]
    <3>1. held[e] \in Report!Row
      BY <2>3 DEF Report!TypeOK, Report!Rows, Report!Record
    <3>2. [held[e] EXCEPT !.status[st] = status] \in Report!Row
      BY <3>1 DEF Report!Row
    <3>3. held' = [held EXCEPT ![e].status[st] = status]
      BY <2>3 DEF Report!Record
    <3> QED
      BY <3>2, <3>3
  <2> QED
    BY <1>1, <2>1, <2>2, <2>3
<1>3. late' = late
  BY <1>1 DEF Report!Schedule, Report!Hold, Report!Cancel, Report!Record
<1> QED
  BY <1>2, <1>3 DEF Report!TypeOK

\* The figures of the reports page agree with each other and with the rows they are
\* computed from (AttendanceReport), for any students, sessions, subjects and days.
THEOREM FiguresAlwaysAgree == MCSpec => []FiguresAgree
<1>1. MCInit => Report!TypeOK
  BY DEF MCInit, Report!Init, Report!TypeOK
<1>2. ASSUME Report!TypeOK, [MCNext]_<<story, browser, schedule, report, trend, face>>
      PROVE  Report!TypeOK'
  <2>1. CASE Report!Next
    BY <1>2, <2>1, ReportTyped
  <2>2. CASE UNCHANGED report
    BY <1>2, <2>2 DEF report, Report!TypeOK
  <2> QED
    BY <1>2, <2>1, <2>2 DEF MCNext
<1>3. Report!TypeOK => FiguresAgree
  BY TrendMatches, SubjectsMatch, CohortsMatch, PerfectMatch DEF FiguresAgree
<1> QED
  BY <1>1, <1>2, <1>3, PTL DEF MCSpec

-----------------------------------------------------------------------------
(* AttendanceTrend. *)

LEMMA CountUp ==
  ASSUME NEW m \in Nat, NEW C, 0 \in C, \A n \in 0..(m - 1) : n \in C => n + 1 \in C
  PROVE  0..m \subseteq C
<1> DEFINE T == (0..m) \ C
<1>1. SUFFICES ASSUME T # {} PROVE FALSE
  OBVIOUS
<1>2. T \subseteq Nat
  OBVIOUS
<1>3. PICK n \in T : \A k \in T : ~(k < n)
  <2>1. IsWellFoundedOn(OpToRel(<, Nat), Nat)
    BY NatLessThanWellFounded
  <2>2. PICK n \in T : \A k \in T : <<k, n>> \notin OpToRel(<, Nat)
    <3> HIDE DEF T
    <3> QED
      BY <1>1, <1>2, <2>1, WFMin
  <2> QED
    BY <1>2, <2>2 DEF OpToRel
<1>4. n # 0 /\ n - 1 \in 0..(m - 1)
  <2>1. n \in Nat /\ n \in 0..m /\ n # 0
    BY <1>2
  <2> QED
    BY <2>1
<1>5. n - 1 \notin T
  <2>1. n - 1 < n
    BY <1>4
  <2> QED
    BY <1>3, <2>1
<1>6. n - 1 \in C /\ (n - 1) + 1 = n
  BY <1>4, <1>5
<1> QED
  BY <1>4, <1>6

LEMMA Rounding ==
  ASSUME NEW x \in Int, NEW d \in Nat \ {0}, NEW t \in Int, NEW q, q = (2 * x + d) \div (2 * d)
  PROVE  q \in Int /\ (q < t <=> 2 * x + d < 2 * (d * t))
<1> DEFINE a == 2 * x + d
           b == 2 * d
<1>1. a \in Int /\ b \in Nat \ {0}
  <2>1. x \in Int /\ d \in Int /\ d > 0
    OBVIOUS
  <2> QED
    BY <2>1
<1>2. q \in Int /\ b * q <= a /\ a < b * q + b
  <2>1. q = a \div b
    OBVIOUS
  <2> HIDE DEF a, b
  <2> QED
    BY <1>1, <2>1, Quotient
<1>3. q \in Int /\ 2 * (d * q) <= a /\ a < 2 * (d * q) + 2 * d
  BY <1>2
<1>4. ASSUME q + 1 <= t PROVE a < 2 * (d * t)
  <2>1. (q + 1) * d <= t * d
    BY <1>3, <1>4
  <2>2. (q + 1) * d = d * q + d /\ t * d = d * t /\ d * q \in Int /\ d * t \in Int
    BY <1>3
  <2> QED
    BY <1>3, <2>1, <2>2
<1>5. ASSUME t <= q PROVE 2 * (d * t) <= a
  <2>1. t * d <= q * d
    BY <1>3, <1>5
  <2>2. q * d = d * q /\ t * d = d * t /\ d * q \in Int /\ d * t \in Int
    BY <1>3
  <2> QED
    BY <1>3, <2>1, <2>2
<1>6. q < t \/ t <= q
  BY <1>3
<1>7. q < t => q + 1 <= t
  BY <1>3
<1>8. d * t \in Int /\ a \in Int
  BY <1>1
<1> QED
  BY <1>3, <1>4, <1>5, <1>6, <1>7, <1>8

LEMMA Tenths ==
  ASSUME NEW n \in Int, NEW d \in Nat \ {0}, NEW t \in Int
  PROVE  Trend!Tenth(n, d) \in Int /\ (Trend!Tenth(n, d) < t <=> 2000 * n + d < 2 * (d * t))
<1>1. PICK x : x = 1000 * n
  OBVIOUS
<1>2. x \in Int /\ 2 * x + d = 2000 * n + d
  BY <1>1
<1>3. PICK q, a : q = Trend!Tenth(n, d) /\ a = 2 * x + d
  OBVIOUS
<1>4. q = a \div (2 * d)
  <2>1. a = 2000 * n + d
    BY <1>2, <1>3
  <2> QED
    BY <1>3, <2>1 DEF Trend!Tenth
<1>5. q = (2 * x + d) \div (2 * d)
  BY <1>3, <1>4, Zenon
<1>6. q \in Int /\ (q < t <=> 2 * x + d < 2 * (d * t))
  BY <1>2, <1>5, Rounding
<1> QED
  BY <1>2, <1>3, <1>6

LEMMA TrendSum == \A f : Trend!SumFunction(f) = Sum(f, DOMAIN f)
BY Zenon DEF Trend!SumFunction, Trend!SumFunctionOnSet, Trend!FoldFunctionOnSet, Trend!MapThenFoldSet,
   Sum, SumFunctionOnSet, FoldFunctionOnSet, MapThenFoldSet

LEMMA Interval == \A n \in Nat : IsFiniteSet(1..n) /\ Cardinality(1..n) = n
<1> TAKE n \in Nat
<1> QED
  BY FS_Interval

LEMMA WithoutLast == \A p \in Nat : (1..(p + 1)) \ {p + 1} = 1..p
OBVIOUS

\* The sum of a sequence is that of a first part and the rest.
Joins(a, m, b, k, c) ==
  /\ \A i \in 1..m : c[i] = a[i] /\ a[i] \in Int
  /\ \A i \in 1..k : c[m + i] = b[i] /\ b[i] \in Int

LEMMA TwoParts ==
  ASSUME NEW m \in Nat, NEW k \in Nat, NEW a, NEW b, NEW c, Joins(a, m, b, k, c)
  PROVE  Sum(c, 1..(m + k)) = Sum(a, 1..m) + Sum(b, 1..k)
<1> DEFINE C == {n \in 0..k : Sum(c, 1..(m + n)) = Sum(a, 1..m) + Sum(b, 1..n)}
<1>0. /\ \A i \in 1..m : c[i] = a[i] /\ a[i] \in Int
      /\ \A i \in 1..k : c[m + i] = b[i] /\ b[i] \in Int
  BY DEF Joins
<1>1. 0 \in C
  <2>1. \A i \in 1..m : c[i] = a[i] /\ a[i] \in Int
    BY <1>0
  <2>2. Sum(c, 1..m) = Sum(a, 1..m) /\ Sum(a, 1..m) \in Int
    BY <2>1, Interval, SumFacts
  <2>3. Sum(b, {}) = 0 /\ 1..0 = {} /\ m + 0 = m
    BY SumEmpty
  <2>4. Sum(c, 1..(m + 0)) = Sum(a, 1..m) + Sum(b, 1..0)
    BY <2>2, <2>3
  <2> QED
    BY <2>4
<1>2. ASSUME NEW n \in 0..(k - 1), n \in C PROVE n + 1 \in C
  <2>1. PICK S, T : S = 1..(m + n + 1) /\ T = 1..(n + 1)
    OBVIOUS
  <2>2. /\ IsFiniteSet(S) /\ \A i \in S : c[i] \in Int
        /\ IsFiniteSet(T) /\ \A i \in T : b[i] \in Int
    <3>1. m + n + 1 \in Nat /\ n + 1 \in Nat
      OBVIOUS
    <3>2. \A i \in S : c[i] \in Int
      <4> TAKE i \in S
      <4>1. CASE i \in 1..m
        BY <1>0, <4>1
      <4>2. CASE i \notin 1..m
        <5>1. i - m \in 1..k /\ m + (i - m) = i
          BY <2>1, <4>2
        <5> QED
          BY <1>0, <5>1
      <4> QED
        BY <4>1, <4>2
    <3>3. \A i \in T : i \in 1..k
      BY <2>1
    <3> QED
      BY <1>0, <2>1, <3>1, <3>2, <3>3, Interval
  <2>3. Sum(c, S) = c[m + n + 1] + Sum(c, S \ {m + n + 1})
    <3>1. m + n + 1 \in S
      BY <2>1
    <3> QED
      BY <2>2, <3>1, SumFacts
  <2>4. Sum(b, T) = b[n + 1] + Sum(b, T \ {n + 1})
    <3>1. n + 1 \in T
      BY <2>1
    <3> QED
      BY <2>2, <3>1, SumFacts
  <2>5. S \ {m + n + 1} = 1..(m + n) /\ T \ {n + 1} = 1..n
    <3>1. PICK p : p = m + n
      OBVIOUS
    <3>2. p \in Nat /\ n \in Nat
      BY <3>1
    <3>3. S = 1..(p + 1) /\ m + n + 1 = p + 1
      BY <2>1, <3>1
    <3>4. (1..(p + 1)) \ {p + 1} = 1..p /\ (1..(n + 1)) \ {n + 1} = 1..n
      BY <3>2, WithoutLast
    <3> QED
      BY <2>1, <3>1, <3>3, <3>4, Zenon
  <2>6. c[m + n + 1] = b[n + 1] /\ b[n + 1] \in Int
    <3>1. n + 1 \in 1..k /\ m + (n + 1) = m + n + 1
      OBVIOUS
    <3> QED
      BY <1>0, <3>1
  <2>7. Sum(a, 1..m) \in Int /\ Sum(b, 1..n) \in Int
    <3>1. \A i \in 1..n : i \in 1..k
      OBVIOUS
    <3>2. n \in Nat
      OBVIOUS
    <3> QED
      BY <1>0, <3>1, <3>2, Interval, SumFacts
  <2>8. Sum(c, S) = Sum(a, 1..m) + Sum(b, T)
    <3>1. Sum(c, 1..(m + n)) = Sum(a, 1..m) + Sum(b, 1..n)
      BY <1>2
    <3>2. PICK x, y, z : x = Sum(a, 1..m) /\ y = Sum(b, 1..n) /\ z = b[n + 1]
      OBVIOUS
    <3>3. Sum(c, S) = z + (x + y) /\ Sum(b, T) = z + y
      BY <2>3, <2>4, <2>5, <2>6, <3>1, <3>2, Zenon
    <3>4. x \in Int /\ y \in Int /\ z \in Int
      BY <2>6, <2>7, <3>2
    <3>5. z + (x + y) = x + (z + y)
      BY <3>4
    <3> QED
      BY <3>2, <3>3, <3>5
  <2>9. m + (n + 1) = m + n + 1 /\ n + 1 \in 0..k
    OBVIOUS
  <2> QED
    BY <2>1, <2>8, <2>9
<1>3. 0..k \subseteq C
  <2> HIDE DEF C
  <2> QED
    BY <1>1, <1>2, CountUp
<1>4. k \in C
  BY <1>3
<1> QED
  BY <1>4

LEMMA PresentOf ==
  ASSUME NEW s \in Seq({0, 1})
  PROVE  /\ Trend!Present(s) = Sum(s, 1..Len(s))
         /\ Trend!Present(s) \in 0..Len(s)
<1>1. DOMAIN s = 1..Len(s) /\ Len(s) \in Nat
  OBVIOUS
<1>2. Trend!Present(s) = Sum(s, 1..Len(s))
  BY <1>1, TrendSum DEF Trend!Present
<1>3. \A i \in 1..Len(s) : s[i] \in Int /\ 0 <= s[i] /\ s[i] <= 1
  OBVIOUS
<1>4. IsFiniteSet(1..Len(s)) /\ Cardinality(1..Len(s)) = Len(s)
  BY <1>1, Interval
<1>5. Sum(s, 1..Len(s)) \in Int
  BY <1>3, <1>4, SumFacts
<1>6. Sum(s, 1..Len(s)) <= 1 * Len(s) /\ 0 * Len(s) <= Sum(s, 1..Len(s))
  <2> PICK S : S = 1..Len(s)
    OBVIOUS
  <2> PICK zero \in Int, one \in Int : zero = 0 /\ one = 1
    OBVIOUS
  <2>1. /\ IsFiniteSet(S) /\ Cardinality(S) = Len(s)
        /\ \A i \in S : s[i] \in Int /\ zero <= s[i] /\ s[i] <= one
    BY <1>3, <1>4
  <2>2. Sum(s, S) <= one * Cardinality(S)
    BY <2>1, SumAtMost
  <2>3. zero * Cardinality(S) <= Sum(s, S)
    BY <2>1, SumAtLeast
  <2> QED
    BY <2>1, <2>2, <2>3
<1> QED
  BY <1>1, <1>2, <1>5, <1>6

\* The recent window and what is before it make up the history.
LEMMA Windows ==
  ASSUME NEW s \in Seq({0, 1}), Len(s) > 0
  PROVE  LET r == Trend!Recent(s)
             e == Trend!Earlier(s)
         IN  /\ r \in Seq({0, 1}) /\ e \in Seq({0, 1})
             /\ Len(r) \in Nat \ {0} /\ Len(e) \in Nat /\ Len(e) + Len(r) = Len(s)
             /\ Trend!Present(s) = Trend!Present(e) + Trend!Present(r)
<1>1. PICK l, w : l = Len(s) /\ w = Trend!WindowOf(s)
  OBVIOUS
<1>2. l \in Nat \ {0}
  BY <1>1
<1>3. w \in 1..l
  <2>1. l \div 2 \in Nat /\ l \div 2 <= l
    BY <1>2
  <2>2. RecentWindow \in Nat \ {0}
    BY TrendAssumption
  <2> QED
    BY <1>1, <1>2, <2>1, <2>2 DEF Trend!WindowOf, Trend!Least
<1>4. PICK r, e : r = Trend!Recent(s) /\ e = Trend!Earlier(s)
  OBVIOUS
<1>5. r = SubSeq(s, l - w + 1, l) /\ e = SubSeq(s, 1, l - w)
  BY <1>1, <1>4 DEF Trend!Recent, Trend!Earlier
<1>6. l - w \in Nat /\ l - w + 1 \in Nat /\ l - (l - w + 1) + 1 = w /\ w \in Nat \ {0}
  BY <1>2, <1>3
<1>7. PICK k : k = l - w
  OBVIOUS
<1>8. k \in Nat /\ k + w = l
  BY <1>6, <1>7, <1>2
<1>9. e \in Seq({0, 1}) /\ Len(e) = k /\ \A i \in 1..k : s[i] = e[i]
  <2>1. e = SubSeq(s, 1, k) /\ k <= Len(s)
    <3>1. k <= l
      BY <1>6, <1>8
    <3> QED
      BY <1>1, <1>5, <1>7, <3>1
  <2>2. Len(e) = k
    BY <1>8, <2>1
  <2>3. \A i \in 1..k : e[i] = s[i] /\ i \in 1..Len(s)
    BY <1>8, <2>1
  <2>4. e \in Seq({0, 1})
    <3>1. \A i \in 1..k : s[i] \in {0, 1}
      BY <2>3
    <3>2. e = [i \in 1..k |-> s[i]]
      BY <1>8, <2>1
    <3> QED
      BY <1>8, <3>1, <3>2
  <2> QED
    BY <2>2, <2>3, <2>4
<1>10. r \in Seq({0, 1}) /\ Len(r) = w /\ \A i \in 1..w : s[k + i] = r[i]
  <2>1. r = SubSeq(s, k + 1, k + w)
    BY <1>5, <1>7, <1>8
  <2>2. k + w = Len(s)
    BY <1>1, <1>8
  <2>3. \A i \in 1..w : k + i \in 1..Len(s) /\ (k + 1) + i - 1 = k + i
    BY <1>6, <1>8, <2>2
  <2>4. r = [i \in 1..w |-> s[k + i]]
    <3>1. (k + w) - (k + 1) + 1 = w /\ k + 1 \in Nat /\ k + w \in Nat
      <4>1. k \in Nat /\ w \in Nat
        BY <1>6, <1>8
      <4> QED
        BY <4>1
    <3>2. r = [i \in 1..w |-> s[(k + 1) + i - 1]]
      BY <2>1, <3>1, SMTT(20)
    <3> QED
      BY <2>3, <3>2
  <2>5. \A i \in 1..w : s[k + i] \in {0, 1}
    BY <2>3
  <2> QED
    BY <1>6, <2>4, <2>5
<1>11. Sum(s, 1..(k + w)) = Sum(e, 1..k) + Sum(r, 1..w)
  <2>1. /\ \A i \in 1..k : s[i] = e[i] /\ e[i] \in Int
        /\ \A i \in 1..w : s[k + i] = r[i] /\ r[i] \in Int
    BY <1>9, <1>10
  <2>2. k \in Nat /\ w \in Nat
    BY <1>6, <1>8
  <2>3. Joins(e, k, r, w, s)
    BY <2>1 DEF Joins
  <2> QED
    BY <2>2, <2>3, TwoParts
<1>12. /\ Trend!Present(s) = Sum(s, 1..Len(s)) /\ Trend!Present(e) = Sum(e, 1..Len(e))
       /\ Trend!Present(r) = Sum(r, 1..Len(r))
  BY <1>9, <1>10, PresentOf
<1>13. Trend!Present(s) = Trend!Present(e) + Trend!Present(r)
  BY <1>1, <1>8, <1>9, <1>10, <1>11, <1>12
<1> QED
  BY <1>1, <1>4, <1>6, <1>8, <1>9, <1>10, <1>13

\* What is below a threshold in both parts is below it in the whole.
LEMMA BothBelow ==
  ASSUME NEW p \in Int, NEW c \in Nat \ {0}, NEW q \in Int, NEW d \in Nat \ {0}, NEW t \in Int,
         Trend!Tenth(p, c) < t, Trend!Tenth(q, d) < t
  PROVE  Trend!Tenth(p + q, c + d) < t
<1>1. 2000 * p + c < 2 * (c * t) /\ 2000 * q + d < 2 * (d * t)
  BY Tenths
<1>2. c * t \in Int /\ d * t \in Int /\ (c + d) * t = c * t + d * t
  OBVIOUS
<1>3. p + q \in Int /\ c + d \in Nat \ {0}
  OBVIOUS
<1>4. 2000 * (p + q) + (c + d) < 2 * ((c + d) * t)
  BY <1>1, <1>2
<1> QED
  BY <1>3, <1>4, Tenths

ReachedWithin(p, r, l, a, t) == r < t /\ 1000 * p - t * l <= (t - r) * a
Forecast(p, r, l, a) == (2 * (1000 * p + r * a) + (l + a)) \div (2 * (l + a))

\* What the projection adds to a history at or above the threshold is below it.
LEMMA ProjectsDown ==
  ASSUME NEW p \in Int, NEW l \in Nat \ {0}, NEW r \in Int, NEW a \in Nat, NEW t \in Int,
         Trend!Tenth(p, l) >= t,
         Forecast(p, r, l, a) < t
  PROVE  ReachedWithin(p, r, l, a, t)
<1>1. PICK x, d : x = 1000 * p + r * a /\ d = l + a
  OBVIOUS
<1>2. r * a \in Int /\ d * t = l * t + a * t /\ l * t \in Int /\ a * t \in Int /\ x \in Int /\ d \in Nat \ {0}
  BY <1>1
<1>3. 2 * x + d < 2 * (d * t)
  <2>1. PICK q : q = (2 * x + d) \div (2 * d)
    OBVIOUS
  <2>2. q < t
    BY <1>1, <2>1 DEF Forecast
  <2> QED
    BY <1>2, <2>1, <2>2, Rounding
<1>4. 2 * (l * t) <= 2000 * p + l
  <2>1. PICK q : q = Trend!Tenth(p, l)
    OBVIOUS
  <2>2. q \in Int /\ (q < t <=> 2000 * p + l < 2 * (l * t)) /\ q >= t
    BY <2>1, Tenths
  <2> QED
    BY <1>2, <2>2
<1>5. 2000 * p + 2 * (r * a) + l + a < 2 * (l * t) + 2 * (a * t)
  BY <1>1, <1>2, <1>3
<1>6. r < t
  <2>1. SUFFICES ASSUME t <= r PROVE FALSE
    OBVIOUS
  <2>2. t * a <= r * a
    BY <2>1, Monotone
  <2>3. t * a = a * t
    OBVIOUS
  <2> QED
    BY <1>2, <1>4, <1>5, <2>2, <2>3
<1>7. 1000 * p - t * l <= (t - r) * a
  <2>1. (t - r) * a = a * t - r * a /\ t * l = l * t
    OBVIOUS
  <2> QED
    BY <1>2, <1>5, <2>1
<1> QED
  BY <1>6, <1>7 DEF ReachedWithin

\* The history as numbers: p of c before the recent window, q of d in it.
Halves(s, p, q, l, c, d) ==
  /\ l = Len(s) /\ l = c + d
  /\ Trend!Present(s) = p + q
  /\ Trend!Current(s) = Trend!Tenth(p + q, l)
  /\ Trend!RecentRate(s) = Trend!Tenth(q, d)
  /\ Trend!RecentRate(s) \in Int
  /\ c = 0 => p = 0 /\ Trend!Trend(s) = 0
  /\ c # 0 => Trend!Trend(s) = Trend!RecentRate(s) - Trend!Tenth(p, c)

LEMMA Figures ==
  ASSUME NEW s \in Seq({0, 1}), Len(s) > 0
  PROVE  \E p \in Int, q \in Int, l \in Nat \ {0}, c \in Nat, d \in Nat \ {0} :
           Halves(s, p, q, l, c, d)
<1>1. PICK r, e : r = Trend!Recent(s) /\ e = Trend!Earlier(s)
  OBVIOUS
<1>2. /\ r \in Seq({0, 1}) /\ e \in Seq({0, 1})
      /\ Len(r) \in Nat \ {0} /\ Len(e) \in Nat /\ Len(e) + Len(r) = Len(s)
      /\ Trend!Present(s) = Trend!Present(e) + Trend!Present(r)
  BY <1>1, Windows
<1>3. PICK p, q, l, c, d : /\ p = Trend!Present(e) /\ q = Trend!Present(r)
                           /\ l = Len(s) /\ c = Len(e) /\ d = Len(r)
  OBVIOUS
<1>4. p \in 0..c /\ q \in 0..d
  BY <1>2, <1>3, PresentOf
<1>5. c \in Nat /\ d \in Nat \ {0} /\ l = c + d /\ p \in Int /\ q \in Int /\ l \in Nat \ {0}
  BY <1>2, <1>3, <1>4
<1>6. Trend!Current(s) = Trend!Tenth(p + q, l) /\ Trend!RecentRate(s) = Trend!Tenth(q, d)
  BY <1>1, <1>2, <1>3 DEF Trend!Current, Trend!RecentRate
<1>7. Trend!RecentRate(s) \in Int
  BY <1>5, <1>6, Tenths
<1>8. c = 0 <=> e = <<>>
  BY <1>2, <1>3
<1>9. c = 0 => p = 0 /\ Trend!Trend(s) = 0
  <2> SUFFICES ASSUME c = 0 PROVE p = 0 /\ Trend!Trend(s) = 0
    OBVIOUS
  <2>1. Trend!Trend(s) = Trend!RecentRate(s) - Trend!RecentRate(s)
    BY <1>1, <1>8 DEF Trend!Trend
  <2> QED
    BY <1>4, <1>7, <2>1
<1>10. c # 0 => Trend!Trend(s) = Trend!RecentRate(s) - Trend!Tenth(p, c)
  BY <1>1, <1>3, <1>8 DEF Trend!Trend
<1> QED
  BY <1>2, <1>3, <1>5, <1>6, <1>7, <1>9, <1>10 DEF Halves

\* At or above the threshold and projected below it, as High asks for: the recent rate
\* is below the threshold, and the crossing comes within the lookahead.
LEMMA Projecting ==
  ASSUME NEW s \in Seq({0, 1}), Len(s) > 0,
         Trend!Current(s) >= Threshold, Trend!Projected(s) < Threshold
  PROVE  /\ Trend!RecentRate(s) < Threshold
         /\ 1000 * Trend!Present(s) - Threshold * Len(s)
              <= (Threshold - Trend!RecentRate(s)) * Lookahead
<1>1. PICK p \in Int, l \in Nat \ {0}, r \in Int :
        /\ l = Len(s) /\ p = Trend!Present(s) /\ r = Trend!RecentRate(s)
        /\ Trend!Current(s) = Trend!Tenth(p, l)
  <2>1. PICK p \in Int, q \in Int, l \in Nat \ {0}, c \in Nat, d \in Nat \ {0} :
          Halves(s, p, q, l, c, d)
    BY Figures
  <2>2. p + q \in Int
    OBVIOUS
  <2> QED
    BY <2>1, <2>2 DEF Halves
<1>2. PICK a, t : a = Lookahead /\ t = Threshold
  OBVIOUS
<1>3. a \in Nat /\ t \in Int
  BY <1>2, TrendAssumption
<1>4. Forecast(p, r, l, a) < t
  BY <1>1, <1>2 DEF Trend!Projected, Forecast
<1>5. Trend!Tenth(p, l) >= t
  BY <1>1, <1>2
<1>6. ReachedWithin(p, r, l, a, t)
  BY <1>3, <1>4, <1>5, ProjectsDown
<1> QED
  BY <1>1, <1>2, <1>6 DEF ReachedWithin

LEMMA HighDeclines ==
  ASSUME Trend!TypeOK
  PROVE  Trend!HighMeansDecline
<1> SUFFICES ASSUME Trend!Risk(outcomes) = "High" PROVE Trend!Trend(outcomes) < 0
  BY DEF Trend!HighMeansDecline
<1>1. PICK s : s = outcomes
  OBVIOUS
<1>2. s \in Seq({0, 1}) /\ Len(s) >= MinSessions /\ MinSessions \in Nat \ {0}
  BY <1>1, TrendAssumption DEF Trend!TypeOK, Trend!Risk
<1>3. Len(s) > 0
  BY <1>2
<1>4. PICK p \in Int, q \in Int, l \in Nat \ {0}, c \in Nat, d \in Nat \ {0} :
        Halves(s, p, q, l, c, d)
  BY <1>2, <1>3, Figures
<1>0. /\ l = Len(s) /\ l = c + d
      /\ Trend!Current(s) = Trend!Tenth(p + q, l)
      /\ Trend!RecentRate(s) = Trend!Tenth(q, d)
      /\ c = 0 => p = 0
      /\ c # 0 => Trend!Trend(s) = Trend!RecentRate(s) - Trend!Tenth(p, c)
  BY <1>4 DEF Halves
<1>5. PICK t : t = Threshold
  OBVIOUS
<1>6. t \in Int
  BY <1>5, TrendAssumption
<1>7. Trend!Current(s) >= t /\ Trend!Projected(s) < t
  <2>1. Trend!Current(s) \in Int
    <3>1. p + q \in Int
      OBVIOUS
    <3> QED
      BY <1>0, <1>6, <3>1, Tenths
  <2> QED
    BY <1>1, <1>2, <1>5, <1>6, <2>1 DEF Trend!Risk
<1>8. Trend!Tenth(q, d) < t
  BY <1>2, <1>3, <1>0, <1>5, <1>7, Projecting
<1>9. CASE c = 0
  <2>1. p + q = q /\ l = d
    BY <1>0, <1>9
  <2> QED
    BY <1>0, <1>6, <1>7, <1>8, <2>1, Tenths
<1>10. CASE c # 0
  <2>1. PICK x, y, z : x = Trend!Tenth(p, c) /\ y = Trend!Tenth(q, d) /\ z = Trend!Tenth(p + q, l)
    OBVIOUS
  <2>2. x \in Int /\ y \in Int
    BY <1>6, <1>10, <2>1, Tenths
  <2>3. z >= t
    BY <1>0, <1>7, <2>1
  <2>4. z \in Int
    <3>1. p + q \in Int
      OBVIOUS
    <3> QED
      BY <1>6, <2>1, <3>1, Tenths
  <2>5. ~(x < t)
    <3>1. SUFFICES ASSUME x < t PROVE FALSE
      OBVIOUS
    <3>2. z < t
      BY <1>0, <1>6, <1>8, <1>10, <2>1, <3>1, BothBelow
    <3> QED
      BY <1>6, <2>3, <2>4, <3>2
  <2>6. y < x
    BY <1>6, <1>8, <2>1, <2>2, <2>5
  <2> QED
    BY <1>1, <1>0, <1>10, <2>1, <2>2, <2>6
<1> QED
  BY <1>9, <1>10

\* n is the least whole number of bs that makes a.
LeastCover(n, a, b) ==
  /\ n \in Int /\ a <= b * n /\ b * (n - 1) < a
  /\ \A k \in Int : a <= b * k => n <= k

LEMMA CeilingOf ==
  ASSUME NEW a \in Int, NEW b \in Nat \ {0}
  PROVE  LeastCover(Trend!Ceiling(a, b), a, b)
<1> SUFFICES ASSUME NEW n, n = Trend!Ceiling(a, b) PROVE LeastCover(n, a, b)
  OBVIOUS
<1> DEFINE x == a + b - 1
<1>1. x \in Int /\ b \in Nat \ {0}
  OBVIOUS
<1>2. n \in Int /\ b * n <= x /\ x < b * n + b
  <2>1. n = x \div b
    BY DEF Trend!Ceiling
  <2> HIDE DEF x
  <2> QED
    BY <1>1, <2>1, Quotient
<1>3. b * n \in Int /\ b * (n - 1) = b * n - b
  BY <1>2
<1>4. a <= b * n /\ b * (n - 1) < a
  BY <1>2, <1>3
<1>5. ASSUME NEW k \in Int, a <= b * k PROVE n <= k
  <2>1. SUFFICES ASSUME k + 1 <= n PROVE FALSE
    BY <1>2
  <2>2. (k + 1) * b <= n * b
    BY <1>2, <2>1, Monotone
  <2>3. (k + 1) * b = b * k + b /\ n * b = b * n /\ b * k \in Int
    BY <1>2
  <2> QED
    BY <1>2, <1>3, <1>5, <2>2, <2>3
<1> QED
  BY <1>2, <1>4, <1>5 DEF LeastCover

FirstCrossing(p, l, r, t, u) ==
  /\ 1000 * p + r * u <= t * (l + u)
  /\ u > 0 => 1000 * p + r * (u - 1) > t * (l + u - 1)

LEMMA CrossesFirst ==
  ASSUME Trend!TypeOK
  PROVE  Trend!UntilIsFirstCrossing
<1> DEFINE After(n) == 1000 * Trend!Present(outcomes) + Trend!RecentRate(outcomes) * n
           until == Trend!Until(outcomes)
<1> SUFFICES ASSUME Len(outcomes) >= MinSessions
             PROVE  /\ until # Trend!None =>
                         /\ After(until) <= Threshold * (Len(outcomes) + until)
                         /\ until > 0 =>
                              After(until - 1) > Threshold * (Len(outcomes) + until - 1)
                    /\ Trend!Risk(outcomes) = "High" => until \in 0..Lookahead
  BY DEF Trend!UntilIsFirstCrossing
<1>1. outcomes \in Seq({0, 1}) /\ Len(outcomes) > 0
  BY TrendAssumption DEF Trend!TypeOK
<1>2. PICK p, l, r, t, u :
        /\ p = Trend!Present(outcomes) /\ l = Len(outcomes) /\ r = Trend!RecentRate(outcomes)
        /\ t = Threshold /\ u = Trend!Until(outcomes)
  OBVIOUS
<1>3. p \in Int /\ l \in Int /\ r \in Int /\ t \in Int
  <2>1. p \in 0..l
    BY <1>1, <1>2, PresentOf
  <2>2. r \in Int
    BY <1>1, <1>2, Figures DEF Halves
  <2> QED
    BY <1>1, <1>2, <2>1, <2>2, TrendAssumption
<1>4. CASE ~(Trend!Current(outcomes) >= t /\ r < t)
  <2>1. u = Trend!None
    BY <1>2, <1>4 DEF Trend!Until
  <2>2. Trend!Risk(outcomes) # "High"
    <3> SUFFICES ASSUME Trend!Risk(outcomes) = "High" PROVE FALSE
      OBVIOUS
    <3>1. Trend!Current(outcomes) \in Int
      <4>1. PICK a \in Int, b \in Int, h \in Nat \ {0}, c \in Nat, d \in Nat \ {0} :
              Halves(outcomes, a, b, h, c, d)
        BY <1>1, Figures
      <4>2. a + b \in Int /\ Trend!Current(outcomes) = Trend!Tenth(a + b, h)
        BY <4>1 DEF Halves
      <4> QED
        BY <1>3, <4>2, Tenths
    <3>2. Trend!Current(outcomes) >= Threshold /\ Trend!Projected(outcomes) < Threshold
      BY <1>2, <1>3, <3>1 DEF Trend!Risk
    <3> QED
      BY <1>1, <1>2, <1>4, <3>2, Projecting
  <2> QED
    BY <1>2, <2>1, <2>2
<1>5. CASE Trend!Current(outcomes) >= t /\ r < t
  <2>1. PICK a, b, n : a = 1000 * p - t * l /\ b = t - r /\ n = Trend!Ceiling(a, b)
    OBVIOUS
  <2>2. a \in Int /\ b \in Nat \ {0}
    BY <1>3, <1>5, <2>1
  <2>3. /\ n \in Int /\ a <= b * n /\ b * (n - 1) < a
        /\ \A k \in Int : a <= b * k => n <= k
    <3>1. LeastCover(n, a, b)
      BY <2>1, <2>2, CeilingOf
    <3> QED
      BY <3>1 DEF LeastCover
  <2>4. u = IF n < 0 THEN 0 ELSE n
    BY <1>2, <1>5, <2>1 DEF Trend!Until
  <2>5. u \in Nat /\ a <= b * u /\ (u > 0 => b * (u - 1) < a)
    <3>1. CASE n < 0
      <4>1. b * n <= 0 * b
        <5>1. n * b <= 0 * b
          BY <2>2, <2>3, <3>1, Monotone
        <5> QED
          BY <2>2, <2>3, <5>1
      <4>2. u = 0 /\ b * u = 0 /\ b * n \in Int
        BY <2>2, <2>3, <2>4, <3>1
      <4> QED
        BY <2>2, <2>3, <4>1, <4>2
    <3>2. CASE ~(n < 0)
      BY <2>3, <2>4, <3>2
    <3> QED
      BY <3>1, <3>2
  <2>6. 1000 * p + r * u <= t * (l + u)
    <3>1. b * u = t * u - r * u /\ t * (l + u) = t * l + t * u
      BY <1>3, <2>1, <2>5
    <3>2. t * u \in Int /\ r * u \in Int /\ t * l \in Int
      BY <1>3, <2>5
    <3> QED
      BY <1>3, <2>1, <2>5, <3>1, <3>2
  <2>7. u > 0 => 1000 * p + r * (u - 1) > t * (l + u - 1)
    <3> SUFFICES ASSUME u > 0 PROVE 1000 * p + r * (u - 1) > t * (l + u - 1)
      OBVIOUS
    <3>1. PICK v : v = u - 1
      OBVIOUS
    <3>2. v \in Int /\ b * v < a /\ l + u - 1 = l + v
      BY <1>3, <2>5, <3>1
    <3>3. b * v = t * v - r * v /\ t * (l + v) = t * l + t * v
      BY <1>3, <2>1, <3>2
    <3>4. t * v \in Int /\ r * v \in Int /\ t * l \in Int
      BY <1>3, <3>2
    <3>5. 1000 * p + r * v > t * (l + v)
      BY <1>3, <2>1, <3>2, <3>3, <3>4
    <3> QED
      BY <3>1, <3>2, <3>5
  <2>8. Trend!Risk(outcomes) = "High" => u \in 0..Lookahead
    <3> SUFFICES ASSUME Trend!Risk(outcomes) = "High" PROVE u \in 0..Lookahead
      OBVIOUS
    <3>1. Trend!Projected(outcomes) < Threshold
      BY <1>2, <1>5 DEF Trend!Risk
    <3>2. a <= b * Lookahead
      <4>1. Trend!Current(outcomes) >= Threshold
        BY <1>2, <1>5
      <4>2. 1000 * p - t * l <= (t - r) * Lookahead
        BY <1>1, <1>2, <3>1, <4>1, Projecting
      <4> QED
        BY <2>1, <4>2
    <3>3. Lookahead \in Nat
      BY TrendAssumption
    <3>4. n <= Lookahead
      BY <2>3, <3>2, <3>3
    <3> QED
      BY <2>3, <2>4, <3>3, <3>4
  <2>9. FirstCrossing(p, l, r, t, u)
    BY <2>6, <2>7 DEF FirstCrossing
  <2>10. FirstCrossing(Trend!Present(outcomes), Len(outcomes), Trend!RecentRate(outcomes),
                       Threshold, until)
    BY <1>2, <2>9, Zenon
  <2>11. Trend!Risk(outcomes) = "High" => until \in 0..Lookahead
    BY <1>2, <2>8
  <2> QED
    BY <2>10, <2>11, Zenon DEF FirstCrossing
<1> QED
  BY <1>4, <1>5

\* One step of _streaks.
Step(run, o) ==
  LET current == IF o = 0 THEN run.trailing + 1 ELSE 0
  IN  [trailing |-> current, longest |-> IF current > run.longest THEN current ELSE run.longest]

NoRun == [trailing |-> 0, longest |-> 0]
Last(S) == CHOOSE x \in S : \A y \in S : x >= y

\* it folds a history over its positions, the last first.
Running(it, s) ==
  it = [S \in SUBSET (DOMAIN s) |->
          IF S = {} THEN NoRun ELSE Step(it[S \ {Last(S)}], s[Last(S)])]

LEMMA StreaksIs == \A s : Trend!Streaks(s) = (CHOOSE it : Running(it, s))[DOMAIN s]
BY DEF Trend!Streaks, Trend!FoldLeft, Trend!MapThenFoldSet, Trend!Max, Running, Step, NoRun, Last

Run == [trailing : Nat, longest : Nat]

LEMMA StepTyped == \A run \in Run : \A o : Step(run, o) \in Run
BY DEF Run, Step

LEMMA LastOf ==
  ASSUME NEW S, IsFiniteSet(S), S \subseteq Int, S # {}
  PROVE  Last(S) \in S /\ \A y \in S : Last(S) >= y
<1>1. \E x \in S : \A y \in S : x >= y
  BY Extremes
<1> QED
  BY <1>1, Zenon DEF Last

LEMMA RunningExists ==
  ASSUME NEW s \in Seq({0, 1})
  PROVE  \E it : Running(it, s)
<1> DEFINE D == DOMAIN s
           h == [p \in Run \X D |-> Step(p[1], s[p[2]])]
           c == [S \in SUBSET D |-> Last(S)]
<1>1. IsFiniteSet(D) /\ D \subseteq Int
  BY Interval
<1>2. Picks(D, c)
  <2> SUFFICES ASSUME NEW S \in SUBSET D, S # {} PROVE c[S] \in S
    BY DEF Picks
  <2>1. IsFiniteSet(S) /\ S \subseteq Int
    BY <1>1, FS_Subset
  <2> HIDE DEF D
  <2> QED
    BY <2>1, LastOf
<1>3. \A run \in Run, x \in D : h[<<run, x>>] = Step(run, s[x])
  OBVIOUS
<1>4. NoRun \in Run
  BY DEF NoRun, Run
<1> HIDE DEF D, h
<1>5. PICK it : Folds(it, D, NoRun, h, c)
  <2> HIDE DEF c
  <2> QED
    BY <1>1, <1>2, FoldsExist
<1>6. it \in [SUBSET D -> Run]
  <2>1. \A run \in Run, x \in D : h[<<run, x>>] \in Run
    BY <1>3, StepTyped
  <2> HIDE DEF c
  <2> QED
    BY <1>1, <1>2, <1>4, <1>5, <2>1, FoldsTyped
<1>7. ASSUME NEW S \in SUBSET D
      PROVE  it[S] = IF S = {} THEN NoRun ELSE Step(it[S \ {Last(S)}], s[Last(S)])
  <2>1. CASE S = {}
    BY <1>5, <2>1 DEF Folds
  <2>2. CASE S # {}
    <3>1. c[S] = Last(S) /\ Last(S) \in S
      BY <1>2, <2>2 DEF Picks
    <3>2. it[S] = h[<<it[S \ {Last(S)}], Last(S)>>]
      BY <1>5, <2>2, <3>1 DEF Folds
    <3>3. it[S \ {Last(S)}] \in Run /\ Last(S) \in D
      BY <1>6, <3>1
    <3>4. it[S] = Step(it[S \ {Last(S)}], s[Last(S)])
      BY <1>3, <3>2, <3>3
    <3> QED
      BY <2>2, <3>4
  <2> QED
    BY <2>1, <2>2
<1>8. it = [S \in SUBSET D |-> it[S]]
  BY <1>6
<1>9. Running(it, s)
  BY <1>7, <1>8 DEF Running, D
<1> QED
  BY <1>9

\* Of the n first outcomes of s: the absences at their end, and the longest run.
RunsAt(k, s, n) ==
  /\ k.trailing \in 0..n /\ k.longest \in 0..n /\ k \in Run
  /\ \A i \in (n - k.trailing + 1)..n : s[i] = 0
  /\ k.trailing = n \/ s[n - k.trailing] # 0
  /\ k.trailing <= k.longest
  /\ \E b \in k.longest..n : \A i \in (b - k.longest + 1)..b : s[i] = 0
  /\ \A a \in 1..(n + 1), b \in 0..n :
       a <= b + 1 /\ (\A i \in a..b : s[i] = 0) => b - a + 1 <= k.longest

LEMMA RunsStart == \A s : RunsAt(NoRun, s, 0)
<1> TAKE s
<1>1. NoRun.trailing = 0 /\ NoRun.longest = 0 /\ NoRun \in Run
  BY DEF NoRun, Run
<1>2. \E b \in 0..0 : \A i \in (b - 0 + 1)..b : s[i] = 0
  <2>1. \A i \in (0 - 0 + 1)..0 : FALSE
    OBVIOUS
  <2> QED
    BY <2>1
<1> QED
  BY <1>1, <1>2 DEF RunsAt

LEMMA RunsStep ==
  ASSUME NEW s, NEW n \in Nat, NEW k, RunsAt(k, s, n), NEW j, j = Step(k, s[n + 1])
  PROVE  RunsAt(j, s, n + 1)
<1>1. PICK t, l : t = k.trailing /\ l = k.longest
  OBVIOUS
<1>2. /\ t \in 0..n /\ l \in 0..n /\ t <= l
      /\ \A i \in (n - t + 1)..n : s[i] = 0
      /\ t = n \/ s[n - t] # 0
      /\ \A a \in 1..(n + 1), b \in 0..n :
           a <= b + 1 /\ (\A i \in a..b : s[i] = 0) => b - a + 1 <= l
  BY <1>1 DEF RunsAt
<1>3. PICK e \in l..n : \A i \in (e - l + 1)..e : s[i] = 0
  BY <1>1 DEF RunsAt
<1>4. j \in Run
  BY StepTyped DEF RunsAt
<1>5. CASE s[n + 1] = 0
  <2>1. j.trailing = t + 1 /\ j.longest = IF t + 1 > l THEN t + 1 ELSE l
    BY <1>1, <1>5 DEF Step
  <2>2. PICK m : m = j.longest
    OBVIOUS
  <2>3. m \in 0..(n + 1) /\ t + 1 <= m /\ l <= m /\ (m = t + 1 \/ m = l)
    BY <1>2, <2>1, <2>2
  <2>4. \A i \in (n + 1 - (t + 1) + 1)..(n + 1) : s[i] = 0
    <3>1. \A i \in (n + 1 - (t + 1) + 1)..(n + 1) : i = n + 1 \/ i \in (n - t + 1)..n
      BY <1>2
    <3> QED
      BY <1>2, <1>5, <3>1
  <2>5. t + 1 = n + 1 \/ s[n + 1 - (t + 1)] # 0
    <3>1. n + 1 - (t + 1) = n - t
      BY <1>2
    <3> QED
      BY <1>2, <3>1
  <2>6. \E b \in m..(n + 1) : \A i \in (b - m + 1)..b : s[i] = 0
    <3>1. CASE m = t + 1
      <4>1. n + 1 \in m..(n + 1)
        BY <2>3
      <4> QED
        BY <2>4, <3>1, <4>1
    <3>2. CASE m = l
      <4>1. e \in m..(n + 1)
        BY <1>3, <2>3, <3>2
      <4> QED
        BY <1>3, <3>2, <4>1
    <3> QED
      BY <2>3, <3>1, <3>2
  <2>7. ASSUME NEW a \in 1..(n + 1 + 1), NEW b \in 0..(n + 1),
               a <= b + 1, \A i \in a..b : s[i] = 0
        PROVE  b - a + 1 <= m
    <3>1. CASE b \in 0..n
      <4>1. a \in 1..(n + 1)
        BY <2>7, <3>1
      <4>2. b - a + 1 <= l
        BY <1>2, <2>7, <3>1, <4>1
      <4> QED
        BY <1>2, <2>3, <4>2
    <3>2. CASE b = n + 1
      <4>1. a >= n - t + 1
        <5>1. SUFFICES ASSUME a <= n - t PROVE FALSE
          BY <1>2
        <5>2. n - t \in a..b /\ t # n
          BY <1>2, <3>2, <5>1
        <5> QED
          BY <1>2, <2>7, <5>2
      <4> QED
        BY <1>2, <2>3, <3>2, <4>1
    <3> QED
      BY <3>1, <3>2
  <2>8. t + 1 \in 0..(n + 1)
    BY <1>2
  <2> QED
    BY <1>4, <2>1, <2>2, <2>3, <2>4, <2>5, <2>6, <2>7, <2>8 DEF RunsAt
<1>6. CASE s[n + 1] # 0
  <2>1. j.trailing = 0 /\ j.longest = l
    BY <1>1, <1>2, <1>6 DEF Step
  <2>2. \A i \in (n + 1 - j.trailing + 1)..(n + 1) : s[i] = 0
    <3>1. \A i \in (n + 1 - j.trailing + 1)..(n + 1) : FALSE
      BY <2>1
    <3> QED
      BY <3>1
  <2>3. s[n + 1 - j.trailing] # 0
    <3>1. n + 1 - j.trailing = n + 1
      BY <2>1
    <3> QED
      BY <1>6, <3>1
  <2>4. \E b \in j.longest..(n + 1) : \A i \in (b - j.longest + 1)..b : s[i] = 0
    <3>1. e \in l..(n + 1)
      BY <1>2, <1>3
    <3> QED
      BY <1>3, <2>1, <3>1
  <2>5. ASSUME NEW a \in 1..(n + 1 + 1), NEW b \in 0..(n + 1),
               a <= b + 1, \A i \in a..b : s[i] = 0
        PROVE  b - a + 1 <= j.longest
    <3>1. CASE b \in 0..n
      <4>1. a \in 1..(n + 1)
        BY <2>5, <3>1
      <4> QED
        BY <1>2, <2>1, <2>5, <3>1, <4>1
    <3>2. CASE b = n + 1
      <4>1. a = n + 2
        <5>1. SUFFICES ASSUME a <= n + 1 PROVE FALSE
          OBVIOUS
        <5>2. n + 1 \in a..b
          BY <3>2, <5>1
        <5> QED
          BY <1>6, <2>5, <5>2
      <4> QED
        BY <1>2, <2>1, <3>2, <4>1
    <3> QED
      BY <3>1, <3>2
  <2>6. /\ j.trailing \in 0..(n + 1) /\ j.longest \in 0..(n + 1)
        /\ j.trailing <= j.longest
    BY <1>2, <2>1
  <2> QED
    BY <1>4, <2>2, <2>3, <2>4, <2>5, <2>6 DEF RunsAt
<1> QED
  BY <1>5, <1>6

LEMMA StreaksOf ==
  ASSUME NEW s \in Seq({0, 1})
  PROVE  RunsAt(Trend!Streaks(s), s, Len(s))
<1>1. PICK it : it = (CHOOSE f : Running(f, s))
  OBVIOUS
<1>2. Running(it, s)
  BY <1>1, RunningExists
<1>3. PICK l : l = Len(s) /\ l \in Nat /\ DOMAIN s = 1..l
  OBVIOUS
<1> DEFINE C == {n \in 0..l : RunsAt(it[1..n], s, n)}
<1>4. 0 \in C
  <2>1. it[{}] = NoRun /\ 1..0 = {}
    BY <1>2 DEF Running
  <2>2. RunsAt(it[1..0], s, 0) /\ 0 \in 0..l
    BY <1>3, <2>1, RunsStart
  <2> QED
    BY <2>2
<1>5. ASSUME NEW n \in 0..(l - 1), n \in C PROVE n + 1 \in C
  <2>1. PICK S : S = 1..(n + 1)
    OBVIOUS
  <2>2. S \in SUBSET (DOMAIN s) /\ S # {} /\ n \in Nat
    <3>1. n \in Nat /\ n + 1 \in 1..(n + 1) /\ n + 1 <= l
      BY <1>3
    <3>2. S \subseteq 1..l
      BY <1>3, <2>1, <3>1
    <3> QED
      BY <1>3, <2>1, <3>1, <3>2
  <2>3. Last(S) = n + 1
    <3>1. IsFiniteSet(S) /\ S \subseteq Int
      BY <2>1, <2>2, Interval
    <3>2. PICK m : m = Last(S)
      OBVIOUS
    <3>3. m \in S /\ \A y \in S : m >= y
      BY <2>2, <3>1, <3>2, LastOf
    <3>4. n + 1 \in S /\ \A y \in S : y \in Int /\ y <= n + 1
      BY <2>1, <2>2
    <3>5. m = n + 1
      BY <3>3, <3>4
    <3> QED
      BY <3>2, <3>5
  <2>4. S \ {Last(S)} = 1..n
    BY <2>1, <2>2, <2>3, WithoutLast
  <2>5. it[S] = Step(it[1..n], s[n + 1])
    BY <1>2, <2>2, <2>3, <2>4 DEF Running
  <2>6. RunsAt(it[S], s, n + 1)
    <3>1. RunsAt(it[1..n], s, n)
      BY <1>5
    <3> QED
      BY <2>2, <2>5, <3>1, RunsStep
  <2>7. n + 1 \in 0..l
    BY <1>3
  <2> QED
    BY <2>1, <2>6, <2>7
<1>6. 0..l \subseteq C
  <2> HIDE DEF C
  <2> QED
    BY <1>3, <1>4, <1>5, CountUp
<1>7. RunsAt(it[1..l], s, l)
  BY <1>3, <1>6
<1> QED
  BY <1>1, <1>3, <1>7, StreaksIs

LEMMA StreaksRun ==
  ASSUME Trend!TypeOK
  PROVE  Trend!StreaksAreRuns
<1>1. PICK s, n, k : s = outcomes /\ n = Len(outcomes) /\ k = Trend!Streaks(outcomes)
  OBVIOUS
<1>2. s \in Seq({0, 1}) /\ n \in Nat
  BY <1>1 DEF Trend!TypeOK
<1>3. RunsAt(k, s, n)
  BY <1>1, <1>2, StreaksOf
<1>4. PICK t, l : t = k.trailing /\ l = k.longest
  OBVIOUS
<1>5. /\ t \in 0..n /\ l \in 0..n
      /\ \A i \in (n - t + 1)..n : s[i] = 0
      /\ t = n \/ s[n - t] # 0
      /\ \A a \in 1..(n + 1), b \in 0..n :
           a <= b + 1 /\ (\A i \in a..b : s[i] = 0) => b - a + 1 <= l
  BY <1>3, <1>4 DEF RunsAt
<1>6. PICK e \in l..n : \A i \in (e - l + 1)..e : s[i] = 0
  BY <1>3, <1>4 DEF RunsAt
<1>7. ASSUME NEW a \in 1..(n + 1), NEW b \in 0..n, a <= b + 1, \A i \in a..b : s[i] = 0
      PROVE  /\ [from |-> a, to |-> b] \in Trend!Absences
             /\ Trend!Size([from |-> a, to |-> b]) = b - a + 1
  BY <1>1, <1>7 DEF Trend!Absences, Trend!Size
<1>8. \E r \in Trend!Absences : Trend!Size(r) = l
  <2>1. e - l + 1 \in 1..(n + 1) /\ e \in 0..n /\ e - l + 1 <= e + 1 /\ e - (e - l + 1) + 1 = l
    BY <1>2, <1>5
  <2>2. PICK a : a = e - l + 1
    OBVIOUS
  <2>3. /\ [from |-> a, to |-> e] \in Trend!Absences
        /\ Trend!Size([from |-> a, to |-> e]) = e - a + 1
    BY <1>6, <1>7, <2>1, <2>2
  <2> QED
    BY <2>1, <2>2, <2>3
<1>9. \E r \in Trend!Absences : r.to = n /\ Trend!Size(r) = t
  <2>1. n - t + 1 \in 1..(n + 1) /\ n \in 0..n /\ n - t + 1 <= n + 1 /\ n - (n - t + 1) + 1 = t
    BY <1>2, <1>5
  <2>2. PICK a : a = n - t + 1
    OBVIOUS
  <2>3. \A i \in a..n : s[i] = 0
    BY <1>5, <2>2
  <2>4. /\ [from |-> a, to |-> n] \in Trend!Absences
        /\ Trend!Size([from |-> a, to |-> n]) = n - a + 1
    BY <1>7, <2>1, <2>2, <2>3
  <2>5. [from |-> a, to |-> n].to = n
    OBVIOUS
  <2> QED
    BY <2>1, <2>2, <2>4, <2>5
<1>10. ASSUME NEW r \in Trend!Absences
       PROVE  Trend!Size(r) <= l /\ (r.to = n => Trend!Size(r) <= t)
  <2>1. PICK a \in 1..(n + 1), b \in 0..n :
          r.from = a /\ r.to = b /\ a <= b + 1 /\ \A i \in a..b : s[i] = 0
    BY <1>1 DEF Trend!Absences
  <2>2. Trend!Size(r) = b - a + 1 /\ r.to = b
    BY <2>1 DEF Trend!Size
  <2>3. b - a + 1 <= l
    BY <1>5, <2>1
  <2>4. ASSUME b = n PROVE b - a + 1 <= t
    <3>1. SUFFICES ASSUME a <= n - t PROVE FALSE
      BY <1>2, <1>5, <2>4
    <3>2. n - t \in a..b /\ t # n
      BY <1>2, <1>5, <2>4, <3>1
    <3> QED
      BY <1>5, <2>1, <3>2
  <2> QED
    BY <2>2, <2>3, <2>4
<1> QED
  BY <1>1, <1>4, <1>8, <1>9, <1>10 DEF Trend!StreaksAreRuns

LEMMA PartOfPart ==
  ASSUME NEW s \in Seq({0, 1}), NEW n \in 0..Len(s), NEW a \in Nat \ {0}, NEW b \in 0..n
  PROVE  SubSeq(SubSeq(s, 1, n), a, b) = SubSeq(s, a, b)
<1>1. PICK t : t = SubSeq(s, 1, n)
  OBVIOUS
<1>2. \A i \in 1..n : t[i] = s[i]
  BY <1>1
<1>3. SubSeq(t, a, b) = [i \in 1..(b - a + 1) |-> t[a + i - 1]]
  OBVIOUS
<1>4. SubSeq(s, a, b) = [i \in 1..(b - a + 1) |-> s[a + i - 1]]
  OBVIOUS
<1>5. \A i \in 1..(b - a + 1) : a + i - 1 \in 1..n
  OBVIOUS
<1> QED
  BY <1>1, <1>2, <1>3, <1>4, <1>5

\* The example made after m sessions.
ExampleOf(past, future) ==
  [of |-> Trend!Features(past),
   label |-> 1000 * Trend!Present(future) < Threshold * Len(future)]
Example(s, m) == ExampleOf(SubSeq(s, 1, m), SubSeq(s, m + 1, m + Lookahead))

ExamplesOf(s) == [i \in 1..(Len(s) - Lookahead - MinSessions + 1) |-> Example(s, MinSessions + i - 1)]

LEMMA ExamplesAre == \A s : Trend!Examples(s) = ExamplesOf(s)
BY DEF Trend!Examples, ExamplesOf, Example, ExampleOf

LEMMA ExamplesKeep ==
  ASSUME Trend!TypeOK
  PROVE  Trend!ExamplesLocal
<1>1. PICK s : s = outcomes
  OBVIOUS
<1>2. s \in Seq({0, 1})
  BY <1>1 DEF Trend!TypeOK
<1> SUFFICES ASSUME NEW n \in 0..Len(s)
             PROVE  Trend!IsPrefix(Trend!Examples(SubSeq(s, 1, n)), Trend!Examples(s))
  BY <1>1 DEF Trend!ExamplesLocal
<1>3. PICK u : u = SubSeq(s, 1, n)
  OBVIOUS
<1>4. Len(u) = n /\ n \in Nat /\ Len(s) \in Nat /\ n <= Len(s)
  BY <1>2, <1>3
<1>5. PICK f, g : f = ExamplesOf(u) /\ g = ExamplesOf(s)
  OBVIOUS
<1>6. PICK k, j : k = n - Lookahead - MinSessions + 1 /\ j = Len(s) - Lookahead - MinSessions + 1
  OBVIOUS
<1>7. MinSessions \in Nat \ {0} /\ Lookahead \in Nat
  BY TrendAssumption
<1>8. k \in Int /\ j \in Int /\ k <= j
  BY <1>4, <1>6, <1>7
<1>9. f = [i \in 1..k |-> Example(u, MinSessions + i - 1)] /\ g = [i \in 1..j |-> Example(s, MinSessions + i - 1)]
  BY <1>4, <1>5, <1>6 DEF ExamplesOf
<1>10. ASSUME NEW i \in 1..k PROVE f[i] = g[i]
  <2>1. PICK m : m = MinSessions + i - 1
    OBVIOUS
  <2>2. m \in Nat /\ m + Lookahead \in 0..n /\ m \in 0..n /\ m + 1 \in Nat \ {0}
    BY <1>4, <1>6, <1>7, <2>1
  <2>3. /\ SubSeq(u, 1, m) = SubSeq(s, 1, m)
        /\ SubSeq(u, m + 1, m + Lookahead) = SubSeq(s, m + 1, m + Lookahead)
    BY <1>2, <1>3, <2>2, PartOfPart
  <2>4. Example(u, m) = Example(s, m)
    BY <2>3, Zenon DEF Example
  <2>5. f[i] = Example(u, m) /\ g[i] = Example(s, m)
    BY <1>8, <1>9, <2>1
  <2> QED
    BY <2>4, <2>5
<1>11. CASE k <= 0
  <2>1. f = <<>>
    <3>1. 1..k = {}
      BY <1>8, <1>11
    <3> QED
      BY <1>9, <3>1
  <2>2. Len(f) = 0 /\ SubSeq(f, 1, 0) = <<>> /\ SubSeq(g, 1, 0) = <<>>
    BY <2>1
  <2>3. Len(g) >= 0
    <3>1. CASE j <= 0
      <4>1. 1..j = {}
        BY <1>8, <3>1
      <4>2. g = <<>>
        BY <1>9, <4>1
      <4> QED
        BY <4>2
    <3>2. CASE j > 0
      <4>1. j \in Nat
        BY <1>8, <3>2
      <4>2. Len(g) = j
        BY <1>9, <4>1
      <4> QED
        BY <4>1, <4>2
    <3> QED
      BY <1>8, <3>1, <3>2
  <2>4. Trend!IsPrefix(f, g)
    BY <2>2, <2>3 DEF Trend!IsPrefix
  <2> QED
    BY <1>3, <1>5, <2>4, ExamplesAre
<1>12. CASE k > 0
  <2>1. k \in Nat /\ j \in Nat
    BY <1>8, <1>12
  <2>2. Len(f) = k /\ Len(g) = j
    BY <1>9, <2>1
  <2>3. SubSeq(f, 1, k) = [i \in 1..k |-> f[i]] /\ SubSeq(g, 1, k) = [i \in 1..k |-> g[i]]
    BY <2>1
  <2>4. SubSeq(f, 1, k) = SubSeq(g, 1, k)
    BY <1>10, <2>3
  <2>5. Trend!IsPrefix(f, g)
    BY <1>8, <2>2, <2>4 DEF Trend!IsPrefix
  <2> QED
    BY <1>3, <1>5, <2>5, ExamplesAre
<1> QED
  BY <1>8, <1>11, <1>12

LEMMA LabelsUnseen ==
  ASSUME Trend!TypeOK
  PROVE  Trend!LabelUnseen
<1>1. PICK s : s = outcomes
  OBVIOUS
<1>2. s \in Seq({0, 1}) /\ Len(s) \in Nat /\ DOMAIN s = 1..Len(s)
  BY <1>1 DEF Trend!TypeOK
<1>3. MinSessions \in Nat \ {0} /\ Lookahead \in Nat
  BY TrendAssumption
<1> DEFINE Other(i) == [j \in DOMAIN s |-> IF j < MinSessions + i THEN s[j] ELSE 1 - s[j]]
           Top == Len(s) - Lookahead - MinSessions + 1
<1> SUFFICES ASSUME NEW i \in DOMAIN ExamplesOf(s)
             PROVE  ExamplesOf(Other(i))[i].of = ExamplesOf(s)[i].of
  BY <1>1, ExamplesAre, Zenon DEF Trend!LabelUnseen
<1>4. PICK u, m : u = Other(i) /\ m = MinSessions + i - 1
  OBVIOUS
<1>5. i \in 1..Top /\ Top \in Int /\ i \in Nat
  BY <1>2, <1>3 DEF ExamplesOf
<1>6. Len(u) = Len(s) /\ DOMAIN u = 1..Len(s)
  BY <1>2, <1>4
<1>7. m \in 0..Len(s)
  BY <1>2, <1>3, <1>4, <1>5
<1>8. SubSeq(u, 1, m) = SubSeq(s, 1, m)
  <2>1. \A j \in 1..m : j \in DOMAIN s /\ j < MinSessions + i
    BY <1>2, <1>3, <1>4, <1>5, <1>7
  <2>2. \A j \in 1..m : u[j] = s[j]
    BY <1>4, <2>1
  <2>3. m \in Nat
    BY <1>7
  <2>4. SubSeq(u, 1, m) = [j \in 1..m |-> u[j]] /\ SubSeq(s, 1, m) = [j \in 1..m |-> s[j]]
    BY <2>3
  <2> QED
    BY <2>2, <2>4
<1>9. ExamplesOf(u)[i] = Example(u, m) /\ ExamplesOf(s)[i] = Example(s, m)
  BY <1>4, <1>5, <1>6 DEF ExamplesOf
<1>10. Example(u, m).of = Trend!Features(SubSeq(u, 1, m)) /\ Example(s, m).of = Trend!Features(SubSeq(s, 1, m))
  BY DEF Example, ExampleOf
<1> QED
  BY <1>4, <1>8, <1>9, <1>10, Zenon

LEMMA Joined ==
  ASSUME NEW a \in Seq({0, 1}), NEW b \in Seq({0, 1})
  PROVE  a \o b \in Seq({0, 1}) /\ Len(a \o b) = Len(a) + Len(b)
OBVIOUS

\* Taking an entry out of a history, and putting one in.
LEMMA TakenOut ==
  ASSUME NEW s \in Seq({0, 1}), NEW i \in DOMAIN s
  PROVE  Trend!RemoveAt(s, i) \in Seq({0, 1}) /\ Len(Trend!RemoveAt(s, i)) = Len(s) - 1
<1>1. i \in 1..Len(s) /\ Len(s) \in Nat
  OBVIOUS
<1>2. SubSeq(s, 1, i - 1) \in Seq({0, 1}) /\ Len(SubSeq(s, 1, i - 1)) = i - 1
  BY <1>1
<1>3. SubSeq(s, i + 1, Len(s)) \in Seq({0, 1}) /\ Len(SubSeq(s, i + 1, Len(s))) = Len(s) - i
  BY <1>1
<1>4. PICK a, b : a = SubSeq(s, 1, i - 1) /\ b = SubSeq(s, i + 1, Len(s))
  OBVIOUS
<1>5. a \in Seq({0, 1}) /\ b \in Seq({0, 1}) /\ Len(a) = i - 1 /\ Len(b) = Len(s) - i
  BY <1>2, <1>3, <1>4, Zenon
<1>6. a \o b \in Seq({0, 1}) /\ Len(a \o b) = Len(a) + Len(b)
  BY <1>5, Joined, Zenon
<1>7. Len(a \o b) = Len(s) - 1
  BY <1>1, <1>5, <1>6
<1> QED
  BY <1>4, <1>6, <1>7, Zenon DEF Trend!RemoveAt

LEMMA PutIn ==
  ASSUME NEW s \in Seq({0, 1}), NEW i \in 1..(Len(s) + 1), NEW o \in {0, 1}
  PROVE  Trend!InsertAt(s, i, o) \in Seq({0, 1}) /\ Len(Trend!InsertAt(s, i, o)) = Len(s) + 1
<1>1. Len(s) \in Nat
  OBVIOUS
<1>2. SubSeq(s, 1, i - 1) \in Seq({0, 1}) /\ Len(SubSeq(s, 1, i - 1)) = i - 1
  BY <1>1
<1>3. SubSeq(s, i, Len(s)) \in Seq({0, 1}) /\ Len(SubSeq(s, i, Len(s))) = Len(s) - i + 1
  BY <1>1
<1>4. <<o>> \in Seq({0, 1}) /\ Len(<<o>>) = 1
  OBVIOUS
<1>5. PICK a, b, c : a = SubSeq(s, 1, i - 1) /\ b = <<o>> /\ c = SubSeq(s, i, Len(s))
  OBVIOUS
<1>6. /\ a \in Seq({0, 1}) /\ b \in Seq({0, 1}) /\ c \in Seq({0, 1})
      /\ Len(a) = i - 1 /\ Len(b) = 1 /\ Len(c) = Len(s) - i + 1
  BY <1>2, <1>3, <1>4, <1>5, Zenon
<1>7. PICK d : d = a \o b
  OBVIOUS
<1>8. d \in Seq({0, 1}) /\ Len(d) = Len(a) + Len(b)
  BY <1>6, <1>7, Joined, Zenon
<1>9. d \o c \in Seq({0, 1}) /\ Len(d \o c) = Len(d) + Len(c)
  BY <1>6, <1>8, Joined, Zenon
<1>10. Len(d \o c) = Len(s) + 1
  BY <1>1, <1>6, <1>8, <1>9
<1> QED
  BY <1>5, <1>7, <1>9, <1>10, Zenon DEF Trend!InsertAt

\* The risk, the forecast and the training data mean what they say (AttendanceTrend), for
\* any history, whatever is planned, marked, moved or deleted in it, and any settings.
THEOREM TrendAlwaysMeansIt == MCSpec => []TrendMeansIt
<1>1. MCInit => Trend!TypeOK
  <2>1. <<>> \in Seq({0, 1}) /\ Len(<<>>) = 0
    OBVIOUS
  <2> QED
    BY <2>1, TrendAssumption DEF MCInit, Trend!Init, Trend!TypeOK
<1>2. ASSUME Trend!TypeOK, [MCNext]_<<story, browser, schedule, report, trend, face>>
      PROVE  Trend!TypeOK'
  <2>1. outcomes \in Seq({0, 1}) /\ Len(outcomes) \in Nat /\ Len(outcomes) <= MaxHistory /\ MaxHistory \in Nat
    BY <1>2, TrendAssumption DEF Trend!TypeOK
  <2>2. CASE Trend!Schedule
    <3>1. PICK i \in 1..(Len(outcomes) + 1), o \in {0, 1} : outcomes' = Trend!InsertAt(outcomes, i, o)
      BY <2>2 DEF Trend!Schedule
    <3>2. Len(outcomes) < MaxHistory
      BY <2>2 DEF Trend!Schedule
    <3>3. outcomes' \in Seq({0, 1}) /\ Len(outcomes') = Len(outcomes) + 1
      BY <2>1, <3>1, PutIn
    <3> QED
      BY <2>1, <3>2, <3>3 DEF Trend!TypeOK
  <2>3. CASE Trend!Record
    BY <2>1, <2>3 DEF Trend!Record, Trend!TypeOK
  <2>4. CASE Trend!Delete
    <3>1. PICK i \in DOMAIN outcomes : outcomes' = Trend!RemoveAt(outcomes, i)
      BY <2>4 DEF Trend!Delete
    <3>2. outcomes' \in Seq({0, 1}) /\ Len(outcomes') = Len(outcomes) - 1
      BY <2>1, <3>1, TakenOut
    <3> QED
      BY <2>1, <3>2 DEF Trend!TypeOK
  <2>5. CASE Trend!Reschedule
    <3>1. PICK i \in DOMAIN outcomes, j \in DOMAIN outcomes :
            outcomes' = Trend!InsertAt(Trend!RemoveAt(outcomes, i), j, outcomes[i])
      BY <2>5 DEF Trend!Reschedule
    <3>2. PICK t : t = Trend!RemoveAt(outcomes, i)
      OBVIOUS
    <3>3. t \in Seq({0, 1}) /\ Len(t) = Len(outcomes) - 1
      BY <2>1, <3>1, <3>2, TakenOut
    <3>4. j \in 1..(Len(t) + 1) /\ outcomes[i] \in {0, 1}
      BY <2>1, <3>1, <3>3
    <3>5. outcomes' \in Seq({0, 1}) /\ Len(outcomes') = Len(outcomes)
      BY <2>1, <3>1, <3>2, <3>3, <3>4, PutIn
    <3> QED
      BY <2>1, <3>5 DEF Trend!TypeOK
  <2>6. CASE UNCHANGED trend
    BY <1>2, <2>6 DEF trend, Trend!TypeOK
  <2> QED
    BY <1>2, <2>2, <2>3, <2>4, <2>5, <2>6 DEF MCNext, Trend!Next
<1>3. Trend!TypeOK => TrendMeansIt
  BY HighDeclines, CrossesFirst, StreaksRun, ExamplesKeep, LabelsUnseen DEF TrendMeansIt
<1> QED
  BY <1>1, <1>2, <1>3, PTL DEF MCSpec

-----------------------------------------------------------------------------
(* FaceDecisions.  A score is a fraction. *)

Fraction == [sum : Int, of : Nat \ {0}]
AtMost(a, b) == a.sum * b.of <= b.sum * a.of

LEMMA Cancel ==
  ASSUME NEW x \in Int, NEW y \in Int, NEW d \in Nat \ {0}, x * d <= y * d
  PROVE  x <= y
<1>1. CASE y < x
  <2>1. y + 1 <= x
    BY <1>1
  <2>2. (y + 1) * d <= x * d
    BY <2>1, Monotone
  <2>3. (y + 1) * d = y * d + d /\ y * d \in Int /\ x * d \in Int
    OBVIOUS
  <2> QED
    BY <2>2, <2>3
<1> QED
  BY <1>1

LEMMA Compared ==
  ASSUME NEW a \in Fraction, NEW b \in Fraction
  PROVE  /\ Face!Higher(a, b) <=> ~AtMost(a, b)
         /\ ~AtMost(a, b) => AtMost(b, a)
<1>1. PICK p, q, r, s : p = a.sum /\ q = a.of /\ r = b.sum /\ s = b.of
  OBVIOUS
<1>2. p \in Int /\ q \in Nat /\ r \in Int /\ s \in Nat
  BY <1>1 DEF Fraction
<1>3. p * s \in Int /\ r * q \in Int
  BY <1>2
<1>4. (p * s > r * q <=> ~(p * s <= r * q)) /\ (~(p * s <= r * q) => r * q <= p * s)
  BY <1>3
<1> QED
  BY <1>1, <1>4, Zenon DEF AtMost, Face!Higher

LEMMA Transitive ==
  ASSUME NEW a \in Fraction, NEW b \in Fraction, NEW c \in Fraction,
         AtMost(a, b), AtMost(b, c)
  PROVE  AtMost(a, c)
<1>1. PICK p, q, r, s, t, u :
        p = a.sum /\ q = a.of /\ r = b.sum /\ s = b.of /\ t = c.sum /\ u = c.of
  OBVIOUS
<1>2. p \in Int /\ q \in Nat \ {0} /\ r \in Int /\ s \in Nat \ {0} /\ t \in Int /\ u \in Nat \ {0}
  BY <1>1 DEF Fraction
<1>3. p * s <= r * q /\ r * u <= t * s
  BY <1>1, Zenon DEF AtMost
<1>4. PICK ps, rq, ru, ts, pu, tq :
        ps = p * s /\ rq = r * q /\ ru = r * u /\ ts = t * s /\ pu = p * u /\ tq = t * q
  OBVIOUS
<1>5. ps \in Int /\ rq \in Int /\ ru \in Int /\ ts \in Int /\ pu \in Int /\ tq \in Int
  BY <1>2, <1>4
<1>6. ps <= rq /\ ru <= ts
  BY <1>3, <1>4
<1>7. ps * u <= rq * u /\ ru * q <= ts * q
  BY <1>2, <1>5, <1>6, Monotone
<1>8. ps * u = pu * s /\ rq * u = ru * q /\ ts * q = tq * s
  <2>1. (p * s) * u = (p * u) * s /\ (r * q) * u = (r * u) * q /\ (t * s) * q = (t * q) * s
    BY <1>2
  <2> QED
    BY <1>4, <2>1, Zenon
<1>9. ps * u \in Int /\ ru * q \in Int /\ ts * q \in Int
  BY <1>2, <1>5
<1>10. pu * s <= tq * s
  <2>1. PICK x, y, z : x = ps * u /\ y = ru * q /\ z = ts * q
    OBVIOUS
  <2>2. x \in Int /\ y \in Int /\ z \in Int /\ x <= y /\ y <= z
    BY <1>7, <1>8, <1>9, <2>1
  <2>3. x <= z
    BY <2>2
  <2> QED
    BY <1>8, <2>1, <2>3, Zenon
<1>11. pu <= tq
  BY <1>2, <1>5, <1>10, Cancel
<1> QED
  BY <1>1, <1>4, <1>11, Zenon DEF AtMost

\* v values the photos of I: i is the first of the highest.
Highest(v, I, i) ==
  /\ i \in I
  /\ \A j \in I : ~Face!Higher(v[j], v[i])
  /\ \A j \in I : j < i => Face!Higher(v[i], v[j])

LEMMA HighestExists ==
  ASSUME NEW I, IsFiniteSet(I), I \subseteq Int, I # {}, NEW v, \A i \in I : v[i] \in Fraction
  PROVE  \E i \in I : Highest(v, I, i)
<1> DEFINE C == {s \in SUBSET I : s # {} => \E i \in s : Highest(v, s, i)}
<1>1. ASSUME NEW s \in SUBSET I, \A t \in SUBSET s : t # s => t \in C
      PROVE  s \in C
  <2>1. SUFFICES ASSUME s # {} PROVE \E i \in s : Highest(v, s, i)
    OBVIOUS
  <2>2. PICK m \in s : \A j \in s : m >= j
    BY <2>1, FS_Subset, Extremes
  <2>3. PICK t : t = s \ {m}
    OBVIOUS
  <2>4. s = t \cup {m} /\ m \notin t /\ t \in SUBSET s /\ t # s /\ t \in C
    BY <1>1, <2>2, <2>3
  <2>5. v[m] \in Fraction /\ m \in Int /\ AtMost(v[m], v[m])
    <3>1. v[m] \in Fraction /\ m \in Int
      OBVIOUS
    <3> QED
      BY <3>1, Compared
  <2>6. CASE t = {}
    <3>1. s = {m} /\ ~Face!Higher(v[m], v[m]) /\ ~(m < m)
      BY <2>4, <2>5, <2>6, Compared
    <3>2. Highest(v, s, m)
      BY <3>1 DEF Highest
    <3> QED
      BY <3>2
  <2>7. ASSUME NEW i \in t, Highest(v, t, i) PROVE \E k \in s : Highest(v, s, k)
    <3>0. i \in s /\ i \in Int /\ v[i] \in Fraction /\ ~(m < i) /\ i # m
      BY <2>2, <2>4, <2>5, <2>7
    <3>1. CASE Face!Higher(v[m], v[i])
      <4>1. ASSUME NEW j \in t PROVE Face!Higher(v[m], v[j]) /\ ~Face!Higher(v[j], v[m])
        <5>1. v[j] \in Fraction /\ ~Face!Higher(v[j], v[i])
          BY <2>4, <2>7 DEF Highest
        <5>2. AtMost(v[j], v[i]) /\ ~AtMost(v[m], v[i])
          BY <2>5, <3>0, <3>1, <5>1, Compared
        <5>3. ~AtMost(v[m], v[j])
          BY <2>5, <3>0, <5>1, <5>2, Transitive
        <5> QED
          BY <2>5, <5>1, <5>3, Compared
      <4>2. ~Face!Higher(v[m], v[m]) /\ ~(m < m)
        BY <2>5, Compared
      <4>3. Highest(v, s, m)
        BY <2>4, <4>1, <4>2 DEF Highest
      <4> QED
        BY <4>3
    <3>2. CASE ~Face!Higher(v[m], v[i])
      <4>1. Highest(v, s, i)
        BY <2>4, <2>7, <3>0, <3>2 DEF Highest
      <4> QED
        BY <3>0, <4>1
    <3> QED
      BY <3>1, <3>2
  <2> QED
    BY <2>4, <2>6, <2>7
<1>2. SUBSET I \subseteq C
  <2> HIDE DEF C
  <2> QED
    BY <1>1, SubsetInduction
<1> QED
  BY <1>2

LEMMA FaceSum == \A f, S : Face!SumFunctionOnSet(f, S) = Sum(f, S)
BY DEF Sum, SumFunctionOnSet, FoldFunctionOnSet, MapThenFoldSet,
       Face!SumFunctionOnSet, Face!FoldFunctionOnSet, Face!MapThenFoldSet

\* n of the elements of U, none left out greater (by f) than one taken.
OfSize(U, n) == {T \in SUBSET U : Cardinality(T) = n}
NoneGreater(U, T, f) == \A i \in T, j \in U \ T : f[i] >= f[j]

LEMMA GreatestExist ==
  ASSUME NEW U, IsFiniteSet(U), NEW f, \A x \in U : f[x] \in Int
  PROVE  \A n \in 0..Cardinality(U) : \E T \in OfSize(U, n) : NoneGreater(U, T, f)
<1> DEFINE C == {n \in 0..Cardinality(U) : \E T \in OfSize(U, n) : NoneGreater(U, T, f)}
<1>1. PICK m : m = Cardinality(U) /\ m \in Nat
  BY FS_CardinalityType
<1>2. 0 \in C
  <2>1. {} \in OfSize(U, 0) /\ NoneGreater(U, {}, f)
    BY FS_EmptySet DEF OfSize, NoneGreater
  <2> QED
    BY <1>1, <2>1
<1>3. ASSUME NEW n \in 0..(m - 1), n \in C PROVE n + 1 \in C
  <2>1. PICK T \in OfSize(U, n) : NoneGreater(U, T, f)
    BY <1>3
  <2>2. T \in SUBSET U /\ IsFiniteSet(T) /\ Cardinality(T) = n /\ IsFiniteSet(U \ T)
    BY <2>1, FS_Subset DEF OfSize
  <2>3. U \ T # {}
    BY <1>1, <1>3, <2>2
  <2>4. PICK y \in U \ T : \A z \in U \ T : f[y] >= f[z]
    <3>1. PICK X : X = {f[x] : x \in U \ T}
      OBVIOUS
    <3>2. IsFiniteSet(X) /\ X \subseteq Int /\ X # {}
      BY <2>2, <2>3, <3>1, FiniteImage
    <3>3. PICK x \in X : \A z \in X : x >= z
      BY <3>2, Extremes
    <3> QED
      BY <3>1, <3>3
  <2>5. PICK V : V = T \cup {y}
    OBVIOUS
  <2>6. V \in SUBSET U /\ Cardinality(V) = n + 1
    <3>1. y \notin T
      OBVIOUS
    <3>2. Cardinality(V) = Cardinality(T) + 1
      BY <2>2, <2>5, <3>1, OneMore
    <3> QED
      BY <2>2, <2>5, <3>2
  <2>7. NoneGreater(U, V, f)
    BY <2>1, <2>2, <2>4, <2>5 DEF NoneGreater
  <2>8. n + 1 \in 0..m
    BY <1>1
  <2> QED
    BY <1>1, <2>6, <2>7, <2>8 DEF OfSize
<1>4. 0..m \subseteq C
  <2> HIDE DEF C
  <2> QED
    BY <1>1, <1>2, <1>3, CountUp
<1> QED
  BY <1>1, <1>4

LEMMA SumParts ==
  ASSUME NEW A, IsFiniteSet(A), NEW B, IsFiniteSet(B), A \cap B = {}, NEW f,
         \A x \in A \cup B : f[x] \in Int
  PROVE  Sum(f, A \cup B) = Sum(f, A) + Sum(f, B)
<1> DEFINE C == {s \in SUBSET B : Sum(f, A \cup s) = Sum(f, A) + Sum(f, s)}
<1>1. ASSUME NEW s \in SUBSET B, \A t \in SUBSET s : t # s => t \in C
      PROVE  s \in C
  <2>1. Sum(f, A) \in Int
    BY SumFacts
  <2>2. CASE s = {}
    <3>1. A \cup s = A
      BY <2>2
    <3> QED
      BY <2>1, <2>2, <3>1, SumEmpty
  <2>3. ASSUME NEW x \in s PROVE s \in C
    <3>1. PICK t : t = s \ {x}
      OBVIOUS
    <3>2. t \in SUBSET s /\ t # s /\ t \in C /\ (A \cup s) \ {x} = A \cup t /\ x \in A \cup s
      BY <1>1, <2>3, <3>1
    <3>3. IsFiniteSet(s) /\ IsFiniteSet(t) /\ IsFiniteSet(A \cup s)
      BY <3>2, FS_Subset, FS_Union
    <3>4. (\A z \in A \cup s : f[z] \in Int) /\ (\A z \in s : f[z] \in Int) /\ f[x] \in Int
          /\ \A z \in t : f[z] \in Int
      BY <3>2
    <3>5. Sum(f, A \cup s) = f[x] + Sum(f, (A \cup s) \ {x}) /\ Sum(f, s) = f[x] + Sum(f, s \ {x})
      BY <3>2, <3>3, <3>4, SumFacts
    <3>6. Sum(f, A \cup s) = f[x] + Sum(f, A \cup t) /\ Sum(f, s) = f[x] + Sum(f, t)
      BY <3>1, <3>2, <3>5, Zenon
    <3>7. Sum(f, t) \in Int
      BY <3>3, <3>4, SumFacts
    <3> QED
      BY <2>1, <3>2, <3>4, <3>6, <3>7
  <2> QED
    BY <2>2, <2>3
<1>2. SUBSET B \subseteq C
  <2> HIDE DEF C
  <2> QED
    BY <1>1, SubsetInduction
<1> QED
  BY <1>2

\* As many others do not sum to more.
LEMMA GreatestSum ==
  ASSUME NEW U, IsFiniteSet(U), NEW f, \A x \in U : f[x] \in Int, NEW n,
         NEW T \in OfSize(U, n), NoneGreater(U, T, f), NEW V \in OfSize(U, n)
  PROVE  Sum(f, V) <= Sum(f, T)
<1>1. PICK A, B, D : A = T \cap V /\ B = T \ V /\ D = V \ T
  OBVIOUS
<1>2. /\ T \in SUBSET U /\ V \in SUBSET U /\ Cardinality(T) = n /\ Cardinality(V) = n
  BY DEF OfSize
<1>3. /\ T = A \cup B /\ A \cap B = {} /\ V = A \cup D /\ A \cap D = {}
      /\ A \in SUBSET U /\ B \in SUBSET U /\ D \in SUBSET U
  BY <1>1, <1>2
<1>4. IsFiniteSet(A) /\ IsFiniteSet(B) /\ IsFiniteSet(D)
  BY <1>3, FS_Subset
<1>5. PICK c : c = Cardinality(B) /\ c = Cardinality(D) /\ c \in Nat
  <2>1. Cardinality(T) = Cardinality(A) + Cardinality(B)
    BY <1>2, <1>3, FS_Subset, Disjoint
  <2>2. Cardinality(V) = Cardinality(A) + Cardinality(D)
    BY <1>2, <1>3, FS_Subset, Disjoint
  <2>3. Cardinality(A) \in Nat /\ Cardinality(B) \in Nat /\ Cardinality(D) \in Nat
    BY <1>4, FS_CardinalityType
  <2> QED
    BY <1>2, <2>1, <2>2, <2>3
<1>6. /\ \A x \in A : f[x] \in Int
      /\ \A x \in B : f[x] \in Int
      /\ \A x \in D : f[x] \in Int
  BY <1>3
<1>7. Sum(f, T) = Sum(f, A) + Sum(f, B) /\ Sum(f, V) = Sum(f, A) + Sum(f, D)
  <2>1. (\A x \in A \cup B : f[x] \in Int) /\ (\A x \in A \cup D : f[x] \in Int)
    BY <1>6
  <2> QED
    BY <1>3, <1>4, <2>1, SumParts
<1>8. Sum(f, A) \in Int /\ Sum(f, B) \in Int /\ Sum(f, D) \in Int
  BY <1>4, <1>6, SumFacts
<1>9. CASE D = {}
  <2>1. c = 0 /\ B = {}
    BY <1>4, <1>5, <1>9, FS_EmptySet
  <2> QED
    BY <1>7, <1>8, <1>9, <2>1
<1>10. CASE D # {}
  <2>1. PICK y : y \in {f[x] : x \in D} /\ \A z \in {f[x] : x \in D} : y >= z
    <3>1. PICK X : X = {f[x] : x \in D}
      OBVIOUS
    <3>2. IsFiniteSet(X) /\ X \subseteq Int /\ X # {}
      BY <1>4, <1>6, <1>10, <3>1, FiniteImage
    <3> QED
      BY <3>1, <3>2, Extremes
  <2>2. y \in Int /\ (\A x \in D : f[x] <= y) /\ \A x \in B : y <= f[x]
    BY <1>1, <1>2, <1>6, <2>1 DEF NoneGreater
  <2>3. Sum(f, D) <= y * Cardinality(D) /\ y * Cardinality(B) <= Sum(f, B)
    BY <1>4, <1>6, <2>2, SumAtMost, SumAtLeast
  <2>4. y * c \in Int
    BY <1>5, <2>2
  <2> QED
    BY <1>5, <1>7, <1>8, <2>3, <2>4
<1> QED
  BY <1>9, <1>10

LEMMA FaceOperators == \A S : Face!Cardinality(S) = Cardinality(S)
BY DEF Face!Cardinality, Face!IsFiniteSet, Cardinality, IsFiniteSet

Photos == DOMAIN gallery

LEMMA PhotoFacts ==
  ASSUME Face!TypeOK
  PROVE  /\ IsFiniteSet(Photos) /\ Photos \subseteq Int /\ (gallery # <<>> => Photos # {})
         /\ \A i \in Photos : /\ Face!Sim[i] = gallery[i].similarity /\ Face!Sim[i] \in Int
                              /\ gallery[i].student \in Student
<1>1. gallery \in Seq(Face!Photo)
  BY DEF Face!TypeOK
<1>2. PICK n \in Nat : Photos = 1..n /\ n = Len(gallery)
  BY <1>1 DEF Photos
<1>3. IsFiniteSet(Photos) /\ Photos \subseteq Int
  BY <1>2, Interval
<1>4. gallery # <<>> => Photos # {}
  <2>1. CASE n = 0
    <3>1. Len(gallery) = 0
      BY <1>2, <2>1
    <3> QED
      BY <1>1, <3>1
  <2> QED
    BY <1>2, <2>1
<1>5. \A i \in Photos : gallery[i] \in Face!Photo
  BY <1>1 DEF Photos
<1> QED
  BY <1>3, <1>4, <1>5, FaceAssumption DEF Photos, Face!Photo, Face!Sim

\* How many photos a score averages over.
Fewer(m, k) == IF m < k THEN m ELSE k

LEMMA ClosestAre ==
  ASSUME Face!TypeOK, NEW own \in SUBSET Photos, NEW k \in Nat
  PROVE  /\ Face!Closest(own, k) \in OfSize(own, Fewer(Cardinality(own), k))
         /\ NoneGreater(own, Face!Closest(own, k), Face!Sim)
<1>1. PICK m, n : m = Cardinality(own) /\ n = Fewer(m, k)
  OBVIOUS
<1>2. IsFiniteSet(own) /\ m \in Nat /\ n \in 0..m
  <2>1. IsFiniteSet(own) /\ m \in Nat
    BY <1>1, PhotoFacts, FS_Subset, FS_CardinalityType
  <2> QED
    BY <1>1, <2>1 DEF Fewer
<1>3. \A x \in own : Face!Sim[x] \in Int
  BY PhotoFacts
<1>4. PICK f : f = Face!Sim
  OBVIOUS
<1>5. \E T \in OfSize(own, n) : NoneGreater(own, T, f)
  BY <1>1, <1>2, <1>3, <1>4, GreatestExist
<1>6. Face!UpTo(own, k) = OfSize(own, n)
  BY <1>1, FaceOperators DEF Face!UpTo, Face!kSubset, OfSize, Fewer
<1>7. Face!Closest(own, k) = CHOOSE T \in OfSize(own, n) : NoneGreater(own, T, f)
  BY <1>4, <1>6 DEF Face!Closest, NoneGreater
<1>8. /\ (CHOOSE T \in OfSize(own, n) : NoneGreater(own, T, f)) \in OfSize(own, n)
      /\ NoneGreater(own, (CHOOSE T \in OfSize(own, n) : NoneGreater(own, T, f)), f)
  BY <1>5
<1> QED
  BY <1>1, <1>4, <1>7, <1>8, Zenon

Own(I, i) == Face!Owned(I, gallery[i].student)

LEMMA ScoreIs ==
  ASSUME Face!TypeOK, NEW I \in SUBSET Photos, NEW i \in I, NEW k \in Nat \ {0},
         NEW v, v = Face!Score(I, gallery[i].student, k)
  PROVE  \E T \in OfSize(Own(I, i), Fewer(Cardinality(Own(I, i)), k)) :
           /\ T # {} /\ v.sum = Sum(Face!Sim, T) /\ v.of = Cardinality(T)
           /\ NoneGreater(Own(I, i), T, Face!Sim) /\ IsFiniteSet(T)
           /\ v \in Fraction
<1>1. PICK own : own = Own(I, i)
  OBVIOUS
<1>2. own \in SUBSET Photos /\ i \in own
  BY <1>1 DEF Own, Face!Owned
<1>3. PICK T : T = Face!Closest(own, k)
  OBVIOUS
<1>4. T \in OfSize(own, Fewer(Cardinality(own), k)) /\ NoneGreater(own, T, Face!Sim)
  BY <1>2, <1>3, ClosestAre
<1>5. IsFiniteSet(own) /\ IsFiniteSet(T) /\ (\A x \in T : Face!Sim[x] \in Int)
  BY <1>2, <1>4, PhotoFacts, FS_Subset DEF OfSize
<1>6. Cardinality(own) \in Nat \ {0}
  BY <1>2, <1>5, FS_CardinalityType, FS_EmptySet
<1>7. Cardinality(T) \in Nat \ {0}
  BY <1>4, <1>6 DEF OfSize, Fewer
<1>8. T # {}
  BY <1>7, FS_EmptySet
<1>9. v = [sum |-> Sum(Face!Sim, T), of |-> Cardinality(T)]
  <2>1. v = Face!Average(T)
    BY <1>1, <1>3, Zenon DEF Face!Score, Own
  <2> QED
    BY <2>1, FaceSum, FaceOperators, Zenon DEF Face!Average
<1>10. Sum(Face!Sim, T) \in Int
  BY <1>5, SumFacts
<1>11. v \in Fraction /\ v.sum = Sum(Face!Sim, T) /\ v.of = Cardinality(T)
  BY <1>7, <1>9, <1>10 DEF Fraction
<1> QED
  BY <1>1, <1>4, <1>5, <1>8, <1>11

LEMMA ValueTyped ==
  ASSUME Face!TypeOK, NEW I \in SUBSET Photos, NEW k \in Nat
  PROVE  \A i \in I : Face!Value(I, k, i) \in Fraction
<1> TAKE i \in I
<1>1. CASE k <= 1
  BY <1>1, PhotoFacts DEF Face!Value, Fraction
<1>2. CASE ~(k <= 1)
  <2>1. k \in Nat \ {0}
    BY <1>2
  <2>2. PICK v : v = Face!Score(I, gallery[i].student, k)
    OBVIOUS
  <2>3. v \in Fraction
    BY <2>1, <2>2, ScoreIs
  <2> QED
    BY <1>2, <2>2, <2>3 DEF Face!Value
<1> QED
  BY <1>1, <1>2

LEMMA BestIs ==
  ASSUME Face!TypeOK, NEW I \in SUBSET Photos, I # {}, NEW k \in Nat
  PROVE  /\ Face!Best(I, k) \in I
         /\ Face!Found(I, k) = Face!Value(I, k, Face!Best(I, k))
         /\ \A j \in I : AtMost(Face!Value(I, k, j), Face!Value(I, k, Face!Best(I, k)))
<1>1. PICK v : v = [i \in I |-> Face!Value(I, k, i)]
  OBVIOUS
<1>2. \A i \in I : v[i] = Face!Value(I, k, i) /\ v[i] \in Fraction
  BY <1>1, ValueTyped
<1>3. IsFiniteSet(I) /\ I \subseteq Int
  BY PhotoFacts, FS_Subset
<1>4. \E i \in I : Highest(v, I, i)
  BY <1>2, <1>3, HighestExists
<1>5. PICK b : b = Face!Best(I, k)
  OBVIOUS
<1>6. b \in I /\ Highest(v, I, b)
  <2>1. \E i \in I : /\ \A j \in I : ~Face!Higher(Face!Value(I, k, j), Face!Value(I, k, i))
                     /\ \A j \in I : j < i =>
                          Face!Higher(Face!Value(I, k, i), Face!Value(I, k, j))
    BY <1>2, <1>4, Zenon DEF Highest
  <2>2. /\ b \in I
        /\ \A j \in I : ~Face!Higher(Face!Value(I, k, j), Face!Value(I, k, b))
        /\ \A j \in I : j < b => Face!Higher(Face!Value(I, k, b), Face!Value(I, k, j))
    BY <1>5, <2>1, Zenon DEF Face!Best
  <2> QED
    BY <1>2, <2>2, Zenon DEF Highest
<1>7. \A j \in I : AtMost(v[j], v[b])
  BY <1>2, <1>6, Compared DEF Highest
<1>8. Face!Found(I, k) = Face!Value(I, k, b)
  BY <1>5 DEF Face!Found
<1> QED
  BY <1>2, <1>5, <1>6, <1>7, <1>8, Zenon

\* Scanned photo by photo, a value is a similarity.
LEMMA ScanIs ==
  ASSUME Face!TypeOK, NEW I \in SUBSET Photos, NEW k \in Nat, k <= 1, NEW i \in I, NEW j \in I
  PROVE  /\ Face!Value(I, k, i).sum = Face!Sim[i] /\ Face!Value(I, k, i).of = 1
         /\ Face!Value(I, k, i) = [sum |-> Face!Sim[i], of |-> 1]
         /\ AtMost(Face!Value(I, k, i), Face!Value(I, k, j)) <=> Face!Sim[i] <= Face!Sim[j]
<1>1. Face!Sim[i] \in Int /\ Face!Sim[j] \in Int
  BY PhotoFacts
<1>2. /\ Face!Value(I, k, i) = [sum |-> Face!Sim[i], of |-> 1]
      /\ Face!Value(I, k, j) = [sum |-> Face!Sim[j], of |-> 1]
  BY DEF Face!Value
<1> QED
  BY <1>1, <1>2 DEF AtMost

LEMMA OwnAgrees == ASSUME Face!TypeOK PROVE Face!OwnScoreAgrees
<1> SUFFICES ASSUME gallery # <<>>, NEW k \in 0..TopK
             PROVE  Face!OwnScore(Face!Match(k), k) = Face!Found(Photos, k)
  BY DEF Face!OwnScoreAgrees, Photos
<1>1. Photos # {} /\ k \in Nat
  BY PhotoFacts
<1>2. PICK b : b = Face!Best(Photos, k)
  OBVIOUS
<1>3. /\ b \in Photos
      /\ Face!Found(Photos, k) = Face!Value(Photos, k, b)
      /\ \A j \in Photos : AtMost(Face!Value(Photos, k, j), Face!Value(Photos, k, b))
  BY <1>1, <1>2, BestIs
<1>4. PICK J : J = Own(Photos, b)
  OBVIOUS
<1>5. J \in SUBSET Photos /\ b \in J /\ \A i \in J : gallery[i].student = gallery[b].student
  BY <1>3, <1>4 DEF Own, Face!Owned
<1>6. Face!OwnScore(Face!Match(k), k) = Face!Found(J, k)
  BY <1>2, <1>4 DEF Face!OwnScore, Face!Match, Own, Photos
<1>7. PICK c : c = Face!Best(J, k)
  OBVIOUS
<1>8. /\ c \in J
      /\ Face!Found(J, k) = Face!Value(J, k, c)
      /\ \A j \in J : AtMost(Face!Value(J, k, j), Face!Value(J, k, c))
  BY <1>1, <1>5, <1>7, BestIs
<1>9. Face!Value(J, k, c) = Face!Value(Photos, k, b)
  <2>1. CASE k <= 1
    <3>1. Face!Sim[b] <= Face!Sim[c]
      BY <1>1, <1>5, <1>8, <2>1, ScanIs
    <3>2. Face!Sim[c] <= Face!Sim[b]
      BY <1>1, <1>3, <1>5, <1>8, <2>1, ScanIs
    <3>3. Face!Sim[b] = Face!Sim[c]
      BY <1>5, <1>8, <3>1, <3>2, PhotoFacts
    <3>4. Face!Value(J, k, c) = [sum |-> Face!Sim[c], of |-> 1]
      BY <1>1, <1>5, <1>8, <2>1, ScanIs
    <3>5. Face!Value(Photos, k, b) = [sum |-> Face!Sim[b], of |-> 1]
      BY <1>1, <1>3, <2>1, ScanIs
    <3> QED
      BY <3>3, <3>4, <3>5
  <2>2. CASE ~(k <= 1)
    <3>1. PICK s : s = gallery[b].student
      OBVIOUS
    <3>2. gallery[c].student = s /\ J = Face!Owned(Photos, s)
      BY <1>4, <1>5, <1>8, <3>1 DEF Own
    <3>3. Face!Owned(J, s) = J
      BY <1>5, <3>1 DEF Face!Owned
    <3>4. Face!Score(J, s, k) = Face!Score(Photos, s, k)
      BY <3>2, <3>3 DEF Face!Score
    <3> QED
      BY <2>2, <3>1, <3>2, <3>4 DEF Face!Value
  <2> QED
    BY <2>1, <2>2
<1> QED
  BY <1>3, <1>6, <1>8, <1>9

LEMMA Dominant == ASSUME Face!TypeOK PROVE Face!DominantWins
<1> SUFFICES ASSUME NEW k \in 0..TopK, NEW p \in Photos, NEW s, s = gallery[p].student,
                    \A i \in Face!Owned(Photos, s) : \A j \in Photos \ Face!Owned(Photos, s) :
                      Face!Sim[i] > Face!Sim[j],
                    Face!Match(k) # s
             PROVE  FALSE
  BY DEF Face!DominantWins, Photos
<1>1. Photos # {} /\ k \in Nat /\ Photos \in SUBSET Photos
  OBVIOUS
<1>2. PICK b : b = Face!Best(Photos, k)
  OBVIOUS
<1>3. b \in Photos /\ AtMost(Face!Value(Photos, k, p), Face!Value(Photos, k, b))
  BY <1>1, <1>2, BestIs
<1>4. gallery[b].student # s
  BY <1>2 DEF Face!Match, Photos
<1>5. \A i \in Own(Photos, p), j \in Own(Photos, b) : Face!Sim[j] < Face!Sim[i]
  <2> TAKE i \in Own(Photos, p), j \in Own(Photos, b)
  <2>1. i \in Face!Owned(Photos, s) /\ j \in Photos \ Face!Owned(Photos, s)
    BY <1>4 DEF Own, Face!Owned
  <2>2. Face!Sim[i] > Face!Sim[j] /\ i \in Photos /\ j \in Photos
    BY <2>1 DEF Face!Owned
  <2> QED
    BY <2>2, PhotoFacts
<1>6. p \in Own(Photos, p) /\ b \in Own(Photos, b)
  BY <1>3 DEF Own, Face!Owned
<1>7. CASE k <= 1
  <2>1. Face!Sim[p] <= Face!Sim[b] /\ Face!Sim[b] < Face!Sim[p]
    BY <1>1, <1>3, <1>5, <1>6, <1>7, ScanIs
  <2> QED
    BY <1>3, <2>1, PhotoFacts
<1>8. CASE ~(k <= 1)
  <2>1. k \in Nat \ {0}
    BY <1>1, <1>8
  <2>2. PICK v, w : v = Face!Value(Photos, k, p) /\ w = Face!Value(Photos, k, b)
    OBVIOUS
  <2>3. /\ v = Face!Score(Photos, gallery[p].student, k)
        /\ w = Face!Score(Photos, gallery[b].student, k)
    BY <1>8, <2>2 DEF Face!Value
  <2>4. PICK T \in SUBSET Own(Photos, p) :
          /\ T # {} /\ v.sum = Sum(Face!Sim, T) /\ v.of = Cardinality(T)
          /\ IsFiniteSet(T) /\ v \in Fraction
    BY <1>1, <2>1, <2>3, ScoreIs DEF OfSize
  <2>5. PICK U \in SUBSET Own(Photos, b) :
          /\ U # {} /\ w.sum = Sum(Face!Sim, U) /\ w.of = Cardinality(U)
          /\ IsFiniteSet(U) /\ w \in Fraction
    BY <1>1, <1>3, <2>1, <2>3, ScoreIs DEF OfSize
  <2>6. \A x \in T \cup U : Face!Sim[x] \in Int
    BY <2>4, <2>5, PhotoFacts DEF Own, Face!Owned
  <2>7. PICK m \in Int : (\A x \in U : Face!Sim[x] <= m) /\ (\A x \in T : m + 1 <= Face!Sim[x])
    <3>1. PICK X : X = {Face!Sim[x] : x \in U}
      OBVIOUS
    <3>2. IsFiniteSet(X) /\ X \subseteq Int /\ X # {}
      BY <2>5, <2>6, <3>1, FiniteImage
    <3>3. PICK m \in X : \A y \in X : m >= y
      BY <3>2, Extremes
    <3>4. m \in Int /\ \A x \in U : Face!Sim[x] <= m
      BY <2>6, <3>1, <3>3
    <3>5. ASSUME NEW x \in T PROVE m + 1 <= Face!Sim[x]
      <4>1. PICK u \in U : m = Face!Sim[u]
        BY <3>1, <3>3
      <4>2. m < Face!Sim[x]
        BY <1>5, <2>4, <2>5, <3>5, <4>1
      <4> QED
        BY <2>6, <3>4, <4>2
    <3> QED
      BY <3>4, <3>5
  <2>8. PICK e, f, x, y : e = Cardinality(T) /\ f = Cardinality(U)
                          /\ x = Sum(Face!Sim, T) /\ y = Sum(Face!Sim, U)
    OBVIOUS
  <2>9. e \in Nat \ {0} /\ f \in Nat \ {0} /\ x \in Int /\ y \in Int
    BY <2>4, <2>5, <2>8 DEF Fraction
  <2>10. (m + 1) * e <= x /\ y <= m * f
    BY <2>4, <2>5, <2>6, <2>7, <2>8, SumAtLeast, SumAtMost
  <2>11. x * f <= y * e
    BY <1>3, <2>2, <2>4, <2>5, <2>8, Zenon DEF AtMost
  <2>12. PICK r : r = (m + 1) * e /\ r \in Int
    BY <2>9
  <2>13. PICK q : q = m * f /\ q \in Int
    BY <2>9
  <2>14. r * f <= x * f /\ y * e <= q * e
    BY <2>9, <2>10, <2>12, <2>13, Monotone
  <2>15. PICK z : z = m * (e * f) /\ z \in Int /\ r * f = z + e * f /\ q * e = z
    <3>1. m * (e * f) \in Int /\ ((m + 1) * e) * f = m * (e * f) + e * f
          /\ (m * f) * e = m * (e * f)
      BY <2>9
    <3> QED
      BY <2>12, <2>13, <3>1
  <2>16. e * f \in Nat \ {0} /\ x * f \in Int /\ y * e \in Int
    <3>1. e * f > 0
      BY <2>9
    <3> QED
      BY <2>9, <3>1
  <2> QED
    BY <2>11, <2>14, <2>15, <2>16
<1> QED
  BY <1>7, <1>8

\* One photo more, farther than the others, does not raise the average.
LEMMA OnePhotoMore ==
  ASSUME NEW U, IsFiniteSet(U), NEW f, \A x \in U : f[x] \in Int, NEW n \in Nat \ {0},
         NEW T \in OfSize(U, n), NoneGreater(U, T, f), NEW W \in OfSize(U, n + 1)
  PROVE  Sum(f, W) * n <= Sum(f, T) * (n + 1)
<1>1. W \in SUBSET U /\ IsFiniteSet(W) /\ Cardinality(W) = n + 1 /\ \A x \in W : f[x] \in Int
  BY FS_Subset DEF OfSize
<1>2. W # {}
  BY <1>1, FS_EmptySet
<1>3. PICK y \in W : \A x \in W : f[y] <= f[x]
  <2>1. PICK X : X = {f[x] : x \in W}
    OBVIOUS
  <2>2. IsFiniteSet(X) /\ X \subseteq Int /\ X # {}
    BY <1>1, <1>2, <2>1, FiniteImage
  <2>3. PICK x \in X : \A z \in X : x <= z
    BY <2>2, Extremes
  <2> QED
    BY <2>1, <2>3
<1>4. PICK V : V = W \ {y}
  OBVIOUS
<1>5. V \in SUBSET W /\ V \in SUBSET U /\ y \notin V /\ W = V \cup {y} /\ IsFiniteSet(V)
  BY <1>1, <1>4, FS_Subset
<1>6. Cardinality(V) = n
  <2>1. Cardinality(V) \in Nat /\ Cardinality(W) = Cardinality(V) + 1
    BY <1>5, OneMore
  <2> QED
    BY <1>1, <2>1
<1>7. Sum(f, V) <= Sum(f, T)
  <2>1. V \in OfSize(U, n)
    BY <1>5, <1>6 DEF OfSize
  <2> QED
    BY <2>1, GreatestSum
<1>8. PICK a, s, t, w : a = f[y] /\ s = Sum(f, V) /\ t = Sum(f, T) /\ w = Sum(f, W)
  OBVIOUS
<1>9. w = a + s
  BY <1>1, <1>4, <1>8, SumFacts
<1>10. a \in Int /\ s \in Int /\ t \in Int /\ s <= t
  <2>1. IsFiniteSet(T) /\ \A x \in T : f[x] \in Int
    BY FS_Subset DEF OfSize
  <2>2. t \in Int /\ s \in Int
    BY <1>1, <1>5, <1>8, <2>1, SumFacts
  <2> QED
    BY <1>1, <1>7, <1>8, <2>2
<1>11. a * n <= s
  <2>1. a \in Int /\ \A x \in V : f[x] \in Int /\ a <= f[x]
    BY <1>1, <1>3, <1>5, <1>8
  <2>2. a * Cardinality(V) <= Sum(f, V)
    BY <1>5, <2>1, SumAtLeast
  <2> QED
    BY <1>6, <1>8, <2>2, Zenon
<1>12. s * n <= t * n
  BY <1>10, Monotone
<1>13. w * n = a * n + s * n /\ t * (n + 1) = t * n + t
  BY <1>9, <1>10
<1>14. a * n \in Int /\ s * n \in Int /\ t * n \in Int
  BY <1>10
<1>15. w * n <= t * (n + 1)
  BY <1>10, <1>11, <1>12, <1>13, <1>14
<1> QED
  BY <1>8, <1>15, Zenon

LEMMA Stricter == ASSUME Face!TypeOK PROVE Face!MoreIsStricter
<1> SUFFICES ASSUME NEW k \in 1..TopK
             PROVE  ~Face!Higher(Face!Found(Photos, k), Face!Found(Photos, k - 1))
  BY DEF Face!MoreIsStricter, Photos
<1>1. PICK n \in Nat : n = k - 1 /\ k = n + 1 /\ k \in Nat \ {0}
  OBVIOUS
<1>2. CASE Photos = {}
  <2>1. PICK v : v = Face!Nothing
    OBVIOUS
  <2>2. v \in Fraction /\ Face!Found(Photos, k) = v /\ Face!Found(Photos, k - 1) = v
    BY <1>2, <2>1 DEF Face!Nothing, Face!Found, Fraction
  <2> QED
    BY <2>2, Compared
<1>3. CASE Photos # {}
  <2>0. Photos \in SUBSET Photos
    OBVIOUS
  <2>1. PICK b, c : b = Face!Best(Photos, k) /\ c = Face!Best(Photos, n)
    OBVIOUS
  <2>2. b \in Photos /\ Face!Found(Photos, k) = Face!Value(Photos, k, b)
    BY <1>1, <1>3, <2>0, <2>1, BestIs
  <2>3. /\ c \in Photos /\ Face!Found(Photos, n) = Face!Value(Photos, n, c)
        /\ \A j \in Photos : AtMost(Face!Value(Photos, n, j), Face!Value(Photos, n, c))
    BY <1>3, <2>0, <2>1, BestIs
  <2>4. \E j \in Photos : AtMost(Face!Value(Photos, k, b), Face!Value(Photos, n, j))
    <3>1. CASE k <= 1
      <4>1. Face!Value(Photos, k, b) = Face!Value(Photos, n, b)
        BY <1>1, <3>1 DEF Face!Value
      <4>2. Face!Value(Photos, n, b) \in Fraction
        BY <2>0, <2>2, ValueTyped
      <4>3. AtMost(Face!Value(Photos, n, b), Face!Value(Photos, n, b))
        BY <4>2, Compared
      <4> QED
        BY <2>2, <4>1, <4>3
    <3>2. ASSUME k > 1 PROVE \E j \in Photos : AtMost(Face!Value(Photos, k, b), Face!Value(Photos, n, j))
      <4>1. PICK v : v = Face!Value(Photos, k, b) /\ v = Face!Score(Photos, gallery[b].student, k)
        BY <1>1, <3>2 DEF Face!Value
      <4>2. PICK own : own = Own(Photos, b)
        OBVIOUS
      <4>3. IsFiniteSet(own) /\ own \in SUBSET Photos /\ \A x \in own : Face!Sim[x] \in Int
        BY <4>2, PhotoFacts, FS_Subset DEF Own, Face!Owned
      <4>4. PICK W \in OfSize(own, Fewer(Cardinality(own), k)) :
              /\ W # {} /\ v.sum = Sum(Face!Sim, W) /\ v.of = Cardinality(W)
              /\ IsFiniteSet(W) /\ v \in Fraction
        BY <1>1, <2>0, <2>2, <4>1, <4>2, ScoreIs
      <4>5. W \in SUBSET Photos /\ \A x \in W : Face!Sim[x] \in Int
        BY <4>3, <4>4 DEF OfSize
      <4>6. CASE n = 1
        <5>1. PICK j \in W : \A x \in W : Face!Sim[x] <= Face!Sim[j]
          <6>1. PICK X : X = {Face!Sim[x] : x \in W}
            OBVIOUS
          <6>2. IsFiniteSet(X) /\ X \subseteq Int /\ X # {}
            BY <4>4, <4>5, <6>1, FiniteImage
          <6>3. PICK x \in X : \A z \in X : x >= z
            BY <6>2, Extremes
          <6> QED
            BY <4>5, <6>1, <6>3
        <5>2. PICK a : a = Face!Sim[j] /\ a \in Int
          BY <4>5
        <5>3. Sum(Face!Sim, W) <= a * Cardinality(W)
          BY <4>4, <4>5, <5>1, <5>2, SumAtMost
        <5>4. PICK w : w = Face!Value(Photos, n, j) /\ w.sum = a /\ w.of = 1
          BY <1>1, <2>0, <4>5, <4>6, <5>1, <5>2, ScanIs
        <5>5. v.sum * 1 = v.sum
          BY <4>4 DEF Fraction
        <5>6. AtMost(v, w)
          BY <4>4, <5>3, <5>4, <5>5, Zenon DEF AtMost
        <5> QED
          BY <4>1, <4>5, <5>4, <5>6
      <4>7. CASE n # 1
        <5>1. n \in Nat \ {0} /\ ~(n <= 1)
          BY <1>1, <3>2, <4>7
        <5>2. PICK w : w = Face!Value(Photos, n, b) /\ w = Face!Score(Photos, gallery[b].student, n)
          BY <5>1 DEF Face!Value
        <5>3. PICK T \in OfSize(own, Fewer(Cardinality(own), n)) :
                /\ T # {} /\ w.sum = Sum(Face!Sim, T) /\ w.of = Cardinality(T)
                /\ NoneGreater(own, T, Face!Sim) /\ w \in Fraction
          BY <2>0, <2>2, <4>2, <5>1, <5>2, ScoreIs
        <5>4. PICK m \in Nat : m = Cardinality(own)
          BY <4>3, FS_CardinalityType
        <5>5. PICK f : f = Face!Sim
          OBVIOUS
        <5>6. CASE m <= n
          <6>1. T \in OfSize(own, m) /\ W \in OfSize(own, m)
            BY <1>1, <4>4, <5>3, <5>4, <5>6 DEF Fewer
          <6>2. Sum(f, W) <= Sum(f, T)
            BY <4>3, <5>3, <5>5, <6>1, GreatestSum
          <6>3. v.of = m /\ w.of = m
            BY <4>4, <5>3, <6>1 DEF OfSize
          <6>4. PICK x, y : x = v.sum /\ y = w.sum
            OBVIOUS
          <6>5. x \in Int /\ y \in Int /\ x <= y
            BY <4>4, <5>3, <5>5, <6>2, <6>4 DEF Fraction
          <6>6. x * m <= y * m
            BY <6>5, Monotone
          <6>7. AtMost(v, w)
            BY <6>3, <6>4, <6>6, Zenon DEF AtMost
          <6> QED
            BY <2>2, <4>1, <5>2, <6>7
        <5>7. CASE n < m
          <6>1. T \in OfSize(own, n) /\ W \in OfSize(own, n + 1)
            BY <1>1, <4>4, <5>3, <5>4, <5>7 DEF Fewer
          <6>2. Sum(f, W) * n <= Sum(f, T) * (n + 1)
            BY <4>3, <5>1, <5>3, <5>5, <6>1, OnePhotoMore
          <6>3. v.of = n + 1 /\ w.of = n
            BY <4>4, <5>3, <6>1 DEF OfSize
          <6>4. AtMost(v, w)
            BY <4>4, <5>3, <5>5, <6>2, <6>3, Zenon DEF AtMost
          <6> QED
            BY <2>2, <4>1, <5>2, <6>4
        <5> QED
          BY <5>4, <5>6, <5>7
      <4> QED
        BY <4>6, <4>7
    <3> QED
      BY <1>1, <3>1, <3>2
  <2>5. PICK j \in Photos : AtMost(Face!Value(Photos, k, b), Face!Value(Photos, n, j))
    BY <2>4
  <2>6. PICK u, v, w : u = Face!Value(Photos, k, b) /\ v = Face!Value(Photos, n, j)
                       /\ w = Face!Value(Photos, n, c)
    OBVIOUS
  <2>7. u \in Fraction /\ v \in Fraction /\ w \in Fraction
    BY <1>1, <2>0, <2>2, <2>3, <2>6, ValueTyped
  <2>8. AtMost(u, v) /\ AtMost(v, w)
    BY <2>3, <2>5, <2>6
  <2>9. ~Face!Higher(u, w)
    BY <2>7, <2>8, Transitive, Compared
  <2> QED
    BY <1>1, <2>2, <2>3, <2>6, <2>9
<1> QED
  BY <1>2, <1>3

Extent(X) == /\ IsFiniteSet(X) /\ X \subseteq Int /\ X # {}
             /\ Face!Max(X) \in X /\ Face!Min(X) \in X
             /\ \A x \in X : Face!Min(X) <= x /\ x <= Face!Max(X)

LEMMA ExtentOf ==
  ASSUME NEW S, IsFiniteSet(S), S # {}, NEW f, \A i \in S : f[i] \in Int
  PROVE  Extent({f[i] : i \in S})
<1>1. PICK X : X = {f[i] : i \in S}
  OBVIOUS
<1>2. IsFiniteSet(X) /\ X \subseteq Int /\ X # {}
  BY <1>1, FiniteImage
<1>3. /\ \E x \in X : \A y \in X : x <= y
      /\ \E x \in X : \A y \in X : x >= y
  BY <1>2, Extremes
<1>4. Face!Max(X) \in X /\ \A y \in X : Face!Max(X) >= y
  BY <1>3, Zenon DEF Face!Max
<1>5. Face!Min(X) \in X /\ \A y \in X : Face!Min(X) <= y
  BY <1>3, Zenon DEF Face!Min
<1>6. Extent(X)
  BY <1>2, <1>4, <1>5 DEF Extent
<1> QED
  BY <1>1, <1>6

LEMMA Halved ==
  ASSUME NEW x \in Int, NEW a \in Int, NEW d \in Nat
  PROVE  /\ d * x \in Int /\ d * a \in Int
         /\ x + x <= a => 2 * (d * x) <= d * a
         /\ a <= x + x => d * a <= 2 * (d * x)
<1>1. (x + x) * d = 2 * (d * x) /\ a * d = d * a /\ d * x \in Int /\ d * a \in Int
  <2>1. (x + x) * d = x * d + x * d /\ x * d = d * x /\ d * x \in Int
    OBVIOUS
  <2>2. a * d = d * a /\ d * a \in Int
    OBVIOUS
  <2> QED
    BY <2>1, <2>2
<1>2. x + x <= a => (x + x) * d <= a * d
  BY Monotone
<1>3. a <= x + x => a * d <= (x + x) * d
  BY Monotone
<1> QED
  BY <1>1, <1>2, <1>3

LEMMA Turning == ASSUME Face!TypeOK PROVE Face!TurnIsSpan
<1>1. PICK xs, ws, far :
        /\ xs = {burst[i].x : i \in DOMAIN burst} /\ ws = {burst[i].w : i \in DOMAIN burst}
        /\ far = 4 * (Face!Max(xs) - Face!Min(xs))
  OBVIOUS
<1> SUFFICES ASSUME Len(burst) >= 2, MinShift > 0
             PROVE  /\ Face!Turned(burst) => far >= MinShift * Face!Min(ws)
                    /\ far >= MinShift * Face!Max(ws) => Face!Turned(burst)
  BY <1>1, Zenon DEF Face!TurnIsSpan
<1>2. burst \in Seq(Box)
  BY DEF Face!TypeOK
<1>3. PICK D : D = DOMAIN burst /\ IsFiniteSet(D) /\ D # {}
  <2>1. PICK n \in Nat : n = Len(burst) /\ DOMAIN burst = 1..n
    BY <1>2
  <2> QED
    BY <2>1, Interval
<1>4. \A i \in D : burst[i].x \in Int /\ burst[i].w \in Nat
  <2>1. \A i \in D : burst[i] \in Box
    BY <1>2, <1>3
  <2> QED
    BY <2>1, FaceAssumption
<1>5. Extent(xs) /\ Extent(ws)
  <2>1. PICK f, g : f = [i \in D |-> burst[i].x] /\ g = [i \in D |-> burst[i].w]
    OBVIOUS
  <2>2. \A i \in D : f[i] \in Int /\ g[i] \in Int
    BY <1>4, <2>1
  <2>3. Extent({f[i] : i \in D}) /\ Extent({g[i] : i \in D})
    BY <1>3, <2>2, ExtentOf
  <2>4. xs = {f[i] : i \in D} /\ ws = {g[i] : i \in D}
    BY <1>1, <1>3, <2>1
  <2> QED
    BY <2>3, <2>4
<1>6. PICK low, high, thin, wide :
        low = Face!Min(xs) /\ high = Face!Max(xs) /\ thin = Face!Min(ws) /\ wide = Face!Max(ws)
  OBVIOUS
<1>7. /\ low \in Int /\ high \in Int /\ thin \in Int /\ wide \in Int /\ MinShift \in Nat
      /\ \A i \in D : /\ low <= burst[i].x /\ burst[i].x <= high
                      /\ thin <= burst[i].w /\ burst[i].w <= wide
  <2>1. \A i \in D : burst[i].x \in xs /\ burst[i].w \in ws
    BY <1>1, <1>3
  <2> QED
    BY <1>5, <1>6, <2>1, FaceAssumption DEF Extent
<1>8. far = 4 * (high - low) /\ far \in Int
  BY <1>1, <1>6, <1>7
<1>9. ASSUME Face!Turned(burst) PROVE far >= MinShift * thin
  <2>1. PICK i \in D, j \in D :
          4 * 2 * Face!Distance(burst[i].x, burst[j].x) >= MinShift * (burst[i].w + burst[j].w)
    BY <1>3, <1>9 DEF Face!Turned
  <2>2. PICK d \in Int : d = Face!Distance(burst[i].x, burst[j].x) /\ d <= high - low
    <3>1. PICK p, q : p = burst[i].x /\ q = burst[j].x
      OBVIOUS
    <3>2. p \in low..high /\ q \in low..high
      BY <1>4, <1>7, <3>1
    <3>3. PICK d : d = IF p < q THEN q - p ELSE p - q
      OBVIOUS
    <3>4. d \in Int /\ d <= high - low
      BY <1>7, <3>2, <3>3
    <3>5. d = Face!Distance(burst[i].x, burst[j].x)
      BY <3>1, <3>3 DEF Face!Distance
    <3> QED
      BY <3>4, <3>5
  <2>3. PICK a \in Int : a = burst[i].w + burst[j].w /\ thin + thin <= a
    <3>1. PICK p, q : p = burst[i].w /\ q = burst[j].w
      OBVIOUS
    <3>2. p \in Nat /\ q \in Nat /\ thin <= p /\ thin <= q
      BY <1>4, <1>7, <3>1
    <3>3. p + q \in Int /\ thin + thin <= p + q
      BY <1>7, <3>2
    <3> QED
      BY <3>1, <3>3
  <2>4. 2 * (MinShift * thin) <= MinShift * a /\ MinShift * thin \in Int /\ MinShift * a \in Int
    BY <1>7, <2>3, Halved
  <2>5. PICK p, q : p = MinShift * thin /\ q = MinShift * a
    OBVIOUS
  <2>6. 4 * 2 * d >= q
    BY <2>1, <2>2, <2>3, <2>5
  <2>7. p \in Int /\ q \in Int /\ 2 * p <= q
    BY <2>4, <2>5
  <2>8. far >= p
    BY <1>7, <1>8, <2>2, <2>6, <2>7
  <2> QED
    BY <2>5, <2>8
<1>10. ASSUME far >= MinShift * wide PROVE Face!Turned(burst)
  <2>1. PICK i \in D, j \in D : burst[i].x = low /\ burst[j].x = high
    BY <1>1, <1>3, <1>5, <1>6 DEF Extent
  <2>2. Face!Distance(burst[i].x, burst[j].x) = high - low
    BY <1>7, <2>1 DEF Face!Distance
  <2>3. PICK a \in Int : a = burst[i].w + burst[j].w /\ a <= wide + wide
    <3>1. PICK p, q : p = burst[i].w /\ q = burst[j].w
      OBVIOUS
    <3>2. p \in Nat /\ q \in Nat /\ p <= wide /\ q <= wide
      BY <1>4, <1>7, <3>1
    <3>3. p + q \in Int /\ p + q <= wide + wide
      BY <1>7, <3>2
    <3> QED
      BY <3>1, <3>3
  <2>4. MinShift * a <= 2 * (MinShift * wide) /\ MinShift * wide \in Int /\ MinShift * a \in Int
    BY <1>7, <2>3, Halved
  <2>5. PICK p, q : p = MinShift * wide /\ q = MinShift * a /\ p \in Int /\ q \in Int
    BY <2>4
  <2>6. 4 * 2 * (high - low) >= MinShift * a
    <3>1. far >= p /\ q <= 2 * p
      BY <1>10, <2>4, <2>5
    <3>2. 4 * 2 * (high - low) >= q
      BY <1>7, <1>8, <2>5, <3>1
    <3> QED
      BY <2>5, <3>2
  <2>7. 4 * 2 * Face!Distance(burst[i].x, burst[j].x) >= MinShift * (burst[i].w + burst[j].w)
    BY <2>2, <2>3, <2>6
  <2> QED
    BY <1>3, <2>7 DEF Face!Turned
<1> QED
  BY <1>6, <1>9, <1>10, Zenon

\* Who is matched, and what is taken for a turn of the head (FaceDecisions), for any
\* similarities, any boxes and every MATCH_TOP_K up to any bound.
THEOREM FacesAlwaysDecided == MCSpec => []FacesDecided
<1>1. MCInit => Face!TypeOK
  BY FaceAssumption DEF MCInit, Face!Init, Face!TypeOK
<1>2. ASSUME Face!TypeOK, [MCNext]_<<story, browser, schedule, report, trend, face>>
      PROVE  Face!TypeOK'
  <2>1. ASSUME NEW photo \in Face!Photo, Face!Store(photo) PROVE Face!TypeOK'
    BY <1>2, <2>1, FaceAssumption DEF Face!Store, Face!TypeOK
  <2>2. ASSUME NEW box \in Box, Face!Capture(box) PROVE Face!TypeOK'
    BY <1>2, <2>2, FaceAssumption DEF Face!Capture, Face!TypeOK
  <2>3. CASE UNCHANGED face
    BY <1>2, <2>3 DEF face, Face!TypeOK
  <2> QED
    BY <1>2, <2>1, <2>2, <2>3 DEF MCNext, Face!Next
<1>3. Face!TypeOK => FacesDecided
  BY OwnAgrees, Dominant, Stricter, Turning DEF FacesDecided
<1> QED
  BY <1>1, <1>2, <1>3, PTL DEF MCSpec
=============================================================================
