------------------------------ MODULE BrowserSession ------------------------------
(********************************************************************************)
(* What a browser's signed cookie holds: the login, the answer of the last      *)
(* captcha and the last liveness challenge.  The server keeps nothing: a        *)
(* handler works on the copy its request carried, and its response replaces     *)
(* the whole cookie.  The session of somebody who is logged in is permanent,    *)
(* so every response to a request of theirs does so (Flask refreshes such a     *)
(* cookie each time); otherwise one does that changed or touched the session.   *)
(*                                                                              *)
(* Tabs have requests under way at once; responses come in any order, or never. *)
(********************************************************************************)
EXTENDS Integers

CONSTANTS
  Tab,       \* the tabs of one browser, each with one request at a time
  MaxToken   \* bound: challenges and captchas ever issued

Token == 1..MaxToken
None == 0

Cookie == [user : BOOLEAN, challenge : Token \cup {None}, captcha : Token \cup {None}]
Empty == [user |-> FALSE, challenge |-> None, captcha |-> None]
Silent == [Empty EXCEPT !.captcha = -1]   \* a response without Set-Cookie

Idle == [does |-> "nothing"]
Reply == [does : {"login", "logout", "other"}, alone : BOOLEAN,
          cookie : Cookie \cup {Silent}, shows : Token \cup {None}, takes : Token \cup {None}]

VARIABLES
  cookie,    \* the browser's cookie
  tab,       \* the response each tab waits for; alone: no other one was awaited meanwhile
  shown,     \* the token each tab shows: a captcha image, or a challenge's prompt
  issued,    \* history: tokens issued so far
  accepted,  \* history: how often each token was accepted, up to 2
  met,       \* history: tokens whose acceptance met another request, or was not answered
  left       \* history: the browser logged out, alone or amid other requests, and has
             \* not logged in since

vars == <<cookie, tab, shown, issued, accepted, met, left>>

TypeOK ==
  /\ cookie \in Cookie /\ tab \in [Tab -> Reply \cup {Idle}]
  /\ shown \in [Tab -> Token \cup {None}] /\ issued \in 0..MaxToken
  /\ accepted \in [Token -> 0..2] /\ met \subseteq Token
  /\ left \in {"no", "alone", "amid"}

Init ==
  /\ cookie = Empty /\ tab = [t \in Tab |-> Idle] /\ shown = [t \in Tab |-> None]
  /\ issued = 0 /\ accepted = [n \in Token |-> 0] /\ met = {} /\ left = "no"

Awaiting == {t \in Tab : tab[t] # Idle}

\* Tab t sends a request.  Its handler makes c of its copy of the cookie, sends token
\* `shows` and accepts token `takes`.
Send(t, does, c, shows, takes) ==
  /\ t \notin Awaiting
  /\ \E sets \in IF c.user \/ c # cookie THEN {c} ELSE {c, Silent} :
       tab' = [u \in Tab |->
         IF u = t THEN [does |-> does, alone |-> Awaiting = {}, cookie |-> sets,
                        shows |-> shows, takes |-> takes]
         ELSE IF u \in Awaiting THEN [tab[u] EXCEPT !.alone = FALSE]
         ELSE Idle]
  /\ accepted' = [n \in Token |-> IF n = takes /\ accepted[n] < 2 THEN accepted[n] + 1
                                  ELSE accepted[n]]
  /\ met' = (met \cup {tab[u].takes : u \in Awaiting}
                 \cup IF Awaiting = {} THEN {} ELSE {takes}) \ {None}
  /\ UNCHANGED <<cookie, shown, left>>

-----------------------------------------------------------------------------

\* captcha_image
CaptchaImage(t) ==
  /\ issued < MaxToken /\ issued' = issued + 1
  /\ Send(t, "other", [cookie EXCEPT !.captcha = issued + 1], issued + 1, None)

\* _check_captcha accepts the captcha tab t shows.
CaptchaHolds(t) == cookie.captcha # None /\ shown[t] = cookie.captcha

\* student_login, login: _check_captcha takes the answer out, right or wrong.
Login(t) ==
  /\ ~cookie.user /\ UNCHANGED issued
  /\ \/ /\ CaptchaHolds(t)
        /\ Send(t, "login", [Empty EXCEPT !.user = TRUE], None, shown[t])
     \/ \* a wrong password
        /\ CaptchaHolds(t)
        /\ Send(t, "other", [cookie EXCEPT !.captcha = None], None, shown[t])
     \/ /\ ~CaptchaHolds(t)
        /\ Send(t, "other", [cookie EXCEPT !.captcha = None], None, None)

\* student_liveness_challenge, _issue_liveness_challenge
Challenge(t) ==
  /\ cookie.user /\ issued < MaxToken /\ issued' = issued + 1
  /\ Send(t, "other", [cookie EXCEPT !.challenge = issued + 1], issued + 1, None)

\* What _consume_liveness_challenge accepts of tab t, None if nothing.
Taken(t) == IF shown[t] = cookie.challenge THEN shown[t] ELSE None

\* Slip: the challenge is read but stays in the session.
MarkReads(t) ==
  /\ cookie.user /\ UNCHANGED issued
  /\ Send(t, "other", cookie, None, Taken(t))

\* student_mark_attendance: _consume_liveness_challenge takes the challenge out
\* whether it matches or not.
Mark(t) ==
  /\ cookie.user /\ UNCHANGED issued
  /\ Send(t, "other", [cookie EXCEPT !.challenge = None], None, Taken(t))

\* logout
Logout(t) ==
  /\ UNCHANGED issued
  /\ Send(t, "logout", Empty, None, None)

\* Any other page or poll.
Page(t) ==
  /\ UNCHANGED issued
  /\ Send(t, "other", cookie, None, None)

\* The browser takes the response of tab t.
Arrive(t) ==
  /\ t \in Awaiting
  /\ cookie' = IF tab[t].cookie = Silent THEN cookie ELSE tab[t].cookie
  /\ shown' = [shown EXCEPT ![t] = IF tab[t].shows = None THEN @ ELSE tab[t].shows]
  /\ tab' = [tab EXCEPT ![t] = Idle]
  /\ left' = CASE tab[t].does = "logout" -> IF tab[t].alone THEN "alone" ELSE "amid"
               [] tab[t].does = "login" -> "no"
               [] OTHER -> left
  /\ UNCHANGED <<issued, accepted, met>>

\* The response is lost: a closed tab, a timeout, a restart.
Lose(t) ==
  /\ t \in Awaiting
  /\ tab' = [tab EXCEPT ![t] = Idle]
  /\ met' = (met \cup {tab[t].takes}) \ {None}
  /\ UNCHANGED <<cookie, shown, issued, accepted, left>>

Next ==
  \E t \in Tab :
    \/ CaptchaImage(t) \/ Login(t) \/ Challenge(t) \/ Mark(t)
    \/ Logout(t) \/ Page(t) \/ Arrive(t) \/ Lose(t)

Spec == Init /\ [][Next]_vars

-----------------------------------------------------------------------------

(* "A token can never be checked against more than once" (_consume_liveness_challenge) *)
(* and a captcha answer "can't be reused" (_check_captcha), unless its first use met   *)
(* another request of the browser or its response never came.                          *)
SingleUse == \A n \in Token : accepted[n] > 1 => n \in met

(* Who logged out stays logged out, unless another request was under way: its         *)
(* response, with the copy of the cookie it was sent with, logs the browser in again. *)
LogoutSticks == left = "alone" => ~cookie.user
=============================================================================
