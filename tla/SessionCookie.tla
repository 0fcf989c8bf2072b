---------------------------- MODULE SessionCookie ----------------------------
(***************************************************************************)
(* One browser, its two cookies and the requests it has in flight.         *)
(*                                                                         *)
(* The session of step-ui is the content of a cookie.  A handler works on  *)
(* the copy its request brought along, and its answer replaces whatever    *)
(* the browser holds by then: with two requests in flight the answer that  *)
(* arrives last wins, whichever was computed last.  Beside the session     *)
(* there is a second, readable cookie that must hold the same CSRF token.  *)
(* This module follows both through every kind of route: the pages, the    *)
(* JSON operations, the one operation that must not keep a session alive,  *)
(* and the three ways in and out.                                          *)
(*                                                                         *)
(* What other requests do to the row of the user meanwhile is UserSession; *)
(* here the row is its epoch.  A request is two steps: the handler answers *)
(* what the jar holds when it is sent, and the answer is delivered at any  *)
(* later moment, or lost.  (A request that waits on its way to the server  *)
(* brings the same cookies as one that was answered at once; it is judged  *)
(* by a later clock, and its answer is as late.)                           *)
(*                                                                         *)
(* A definition that stands right before another one with its parameters   *)
(* and is not used is a plausible bug of the code.                         *)
(***************************************************************************)
EXTENDS Integers

CONSTANTS
  Requests,         \* requests the browser may have in flight at a time
  SessionTimeout,   \* the idle window
  SessionMaxLifetime, \* the absolute cap
  MaxTime,          \* bound on the clock
  MaxEpoch,         \* bound on session_epoch
  MaxTokens         \* bound on the CSRF tokens that are about at a time

ASSUME CookieAssumption ==
  /\ SessionTimeout \in Nat /\ SessionMaxLifetime \in Nat
  /\ MaxTime \in Nat /\ MaxEpoch \in Nat /\ MaxTokens \in Nat

VARIABLES
  clock,
  epoch,      \* session_epoch of the user's row
  jar,        \* the two cookies in the browser
  request,    \* what is in flight
  told,       \* the deadline X-Session-Expires-At announced last; 0 once the
              \* browser is on another page, by a login or by an end
  lastLogin,  \* history: when the server completed a login last
  lastUse,    \* history: when it last let a request in that counts as activity
  owed,       \* history: nothing but age may end the session in the jar
  left,       \* history: nothing but a login may bring a session into the jar
  raced       \* history: what late answers made of the pair and of the last use

history == <<lastLogin, lastUse, owed, left, raced>>
vars == <<clock, epoch, jar, request, told, history>>

-----------------------------------------------------------------------------
(* Types *)

\* The values of the session: user_id (one user, or none), session_epoch,
\* session_created_at, last_activity and csrf_token (0: none).
Content == [user : BOOLEAN, epoch : Nat, created : Nat, last : Nat, token : Nat]
Blank == [user |-> FALSE, epoch |-> 0, created |-> 0, last |-> 0, token |-> 0]

Jar == [session : Content, csrf : Nat]

\* What an answer does: it saves the session (`saves'), sets the readable
\* cookie (`pairs'), announces a deadline (`told', 0: none); `did' tells the
\* three that matter to the history: logged in, logged out, password changed.
Answers == [saves : BOOLEAN, session : Content, pairs : BOOLEAN, csrf : Nat,
            told : Nat, did : {"in", "out", "change", "other"}]

\* `missed' is what the browser was told since this request was sent: a "turn",
\* an answer after which another session is in the jar or none, or a "change",
\* the new epoch after a change of the password.
Tidings == {"turn", "change"}
InFlight == [free : {FALSE}, missed : SUBSET Tidings, answer : Answers]
Free == [free |-> TRUE]

TypeOK ==
  /\ clock \in Nat /\ epoch \in Nat /\ told \in Nat
  /\ jar \in Jar
  /\ request \in [Requests -> InFlight \cup {Free}]
  /\ lastLogin \in Nat /\ lastUse \in Nat
  /\ owed \in BOOLEAN /\ left \in BOOLEAN
  /\ raced \subseteq {"pair", "use"}

-----------------------------------------------------------------------------
(* Validation *)

Aged(c) == clock - c.created > SessionMaxLifetime \/ clock - c.last > SessionTimeout

\* ValidateSession; that the row is there and active is in UserSession.
Accepts(c) == c.user /\ ~Aged(c) /\ c.epoch = epoch

SlideRenewing(c) == [c EXCEPT !.last = clock, !.created = clock]
Slide(c) == [c EXCEPT !.last = clock]

\* setSessionExpires.
ExpiresAtBefore(c) == c.last - SessionTimeout - 1
ExpiresAtFromNow(c) == clock + SessionTimeout
ExpiresAt(c) == c.last + SessionTimeout

Nothing == [saves |-> FALSE, session |-> Blank, pairs |-> FALSE, csrf |-> 0,
            told |-> 0, did |-> "other"]
Saves(c) == [Nothing EXCEPT !.saves = TRUE, !.session = c]

Answer(w, a) ==
  /\ request[w] = Free
  /\ request' = [request EXCEPT ![w] = [free |-> FALSE, missed |-> {}, answer |-> a]]

Pending == {w \in Requests : ~request[w].free}

\* A form carries the token of the page it is on, which is that of the session
\* or a stale one (see FormRefused); for the JSON operations the browser code
\* copies the readable cookie into a header.
HasToken == jar.session.token # 0

-----------------------------------------------------------------------------
(* The handlers *)

\* Tokens somebody holds; GenerateToken returns another one.  A token nobody
\* holds any more can be named again.
TokensAbout == {jar.session.token, jar.csrf}
  \cup UNION {{request[v].answer.session.token, request[v].answer.csrf} : v \in Pending}
IsFresh(t) == /\ t \in (1..MaxTokens) \ TokensAbout
              /\ \A s \in 1..(t - 1) : s \in TokensAbout

\* A token for a session that has none: csrf() and getSession.
WithToken(c, t) == [c EXCEPT !.token = t]
IsTokenFor(c, t) == IF c.token = 0 THEN IsFresh(t) ELSE t = c.token

\* LoginGet is public: base() saves whatever session there is, not validated,
\* with a token for its form.  It does not set the readable cookie.
LoginGet(w) ==
  /\ \E t \in 1..MaxTokens : /\ IsTokenFor(jar.session, t)
                             /\ Answer(w, Saves(WithToken(jar.session, t)))
  /\ UNCHANGED <<clock, epoch, jar, told, history>>

LoginAnswerUnpaired(c) == [Saves(c) EXCEPT !.did = "in"]
LoginAnswer(c) == [Saves(c) EXCEPT !.did = "in", !.pairs = TRUE, !.csrf = c.token]

\* LoginPost with a good password: completeLogin wipes the session and mints
\* one token for both cookies.
CompleteLogin(w) ==
  /\ HasToken
  /\ \E t \in 1..MaxTokens :
       /\ IsFresh(t)
       /\ Answer(w, LoginAnswer([user |-> TRUE, epoch |-> epoch, created |-> clock,
                                 last |-> clock, token |-> t]))
  /\ lastLogin' = clock /\ lastUse' = clock
  /\ UNCHANGED <<clock, epoch, jar, told, owed, left, raced>>

\* requireCSRF of the two public forms, which may be on an old page: a flash is
\* saved with the session as it came.
FormRefused(w) ==
  /\ Answer(w, Saves(jar.session))
  /\ UNCHANGED <<clock, epoch, jar, told, history>>

\* RequireLogin and sessionMiddleware refuse: a session with a user in it is
\* wiped.  (An anonymous one is left alone, and an answer without cookies changes
\* nothing when it comes.)
Refuse(w) ==
  /\ jar.session.user /\ ~Accepts(jar.session)
  /\ Answer(w, Saves(Blank))
  /\ owed' = (owed /\ ~Aged(jar.session))
  /\ UNCHANGED <<clock, epoch, jar, told, lastLogin, lastUse, left, raced>>

\* RequireLogin lets a page in and slides the window; so does a form of the
\* profile with a stale token or a wrong password, or whose bump fails.
AdmitPage(w) ==
  /\ Accepts(jar.session)
  /\ Answer(w, Saves(Slide(jar.session)))
  /\ lastUse' = clock
  /\ UNCHANGED <<clock, epoch, jar, told, lastLogin, owed, left, raced>>

\* sessionMiddleware lets an operation in, slides the window and announces the
\* deadline.  Its role and, for an unsafe method, its CSRF header are checked
\* after that and change nothing in the cookies.
AdmitOperation(w) ==
  /\ Accepts(jar.session)
  /\ Answer(w, [Saves(Slide(jar.session)) EXCEPT !.told = ExpiresAt(Slide(jar.session))])
  /\ lastUse' = clock
  /\ UNCHANGED <<clock, epoch, jar, told, lastLogin, owed, left, raced>>

PollAnswerSlides(c) == [saves |-> TRUE, session |-> [c EXCEPT !.last = clock],
  pairs |-> TRUE, csrf |-> c.token,
  told |-> IF Accepts(c) THEN ExpiresAt(c) ELSE 0, did |-> "other"]
PollAnswer(c) == [saves |-> TRUE, session |-> c, pairs |-> TRUE, csrf |-> c.token,
  told |-> IF Accepts(c) THEN ExpiresAt(c) ELSE 0, did |-> "other"]

\* getSession: validated without sliding and never refused; the session is
\* saved as it came, also one that was not accepted, and both cookies are set.
GetSession(w) ==
  /\ \E t \in 1..MaxTokens : /\ IsTokenFor(jar.session, t)
                             /\ Answer(w, PollAnswer(WithToken(jar.session, t)))
  /\ UNCHANGED <<clock, epoch, jar, told, history>>

ExpireCSRFOnly(c) == [Saves(c) EXCEPT !.did = "out", !.pairs = TRUE]
ExpireBoth(c) == [Saves(Blank) EXCEPT !.did = "out", !.pairs = TRUE]

\* deleteSession: public, and the CSRF header is asked for only when the
\* session holds a token (without the right one the answer has no cookies).  It ends
\* no session, it drops the cookies.
DeleteSession(w) ==
  /\ HasToken => jar.csrf = jar.session.token
  /\ Answer(w, ExpireBoth(jar.session))
  /\ UNCHANGED <<clock, epoch, jar, told, history>>

\* Logout: the epoch moves when the session names a user, accepted or not; the
\* readable cookie stays.
Logout(w) ==
  /\ HasToken
  /\ IF jar.session.user
     THEN epoch < MaxEpoch /\ epoch' = epoch + 1 /\ owed' = FALSE
     ELSE UNCHANGED <<epoch, owed>>
  /\ Answer(w, [Saves(Blank) EXCEPT !.did = "out"])
  /\ UNCHANGED <<clock, jar, told, lastLogin, lastUse, left, raced>>

Unstamped(c) == c
Restamped(c) == [c EXCEPT !.epoch = epoch + 1]

\* ProfilePost, change_password: the window slides, the epoch moves and the
\* acting session gets the new one, unless the row cannot be read again: then it
\* keeps the old epoch and is out with the others.
ProfilePost(w) ==
  /\ Accepts(jar.session) /\ HasToken
  /\ epoch < MaxEpoch /\ epoch' = epoch + 1
  /\ \/ /\ Answer(w, [Saves(Restamped(Slide(jar.session))) EXCEPT !.did = "change"])
        /\ UNCHANGED owed
     \/ Answer(w, Saves(Slide(jar.session))) /\ owed' = FALSE
  /\ lastUse' = clock
  /\ UNCHANGED <<clock, jar, told, lastLogin, left, raced>>

-----------------------------------------------------------------------------
(* The browser *)

\* What an answer tells the requests still in flight, all sent before it came.
Turns(a, missed) == a.saves /\ (a.did = "in" \/ ~a.session.user \/ "turn" \in missed)
Tells(a, missed) == (IF Turns(a, missed) THEN {"turn"} ELSE {})
                      \cup (IF a.did = "change" THEN {"change"} ELSE {})

\* After a turn it does not matter any more what else a request has missed.
Missing(m, tells) == IF "turn" \in m \cup tells THEN {"turn"} ELSE m \cup tells

\* What it spoils: the pair, if there is one and the answer is of another session
\* than the jar, and the last use, if it brings back one before that.
Spoils(a, missed) ==
  (IF a.saves /\ "turn" \in missed /\ jar.csrf # 0 THEN {"pair"} ELSE {})
    \cup (IF a.saves /\ jar.session.user /\ a.session.last < jar.session.last THEN {"use"} ELSE {})

\* What it puts right, with whatever it spoils: an answer that sets both cookies
\* the pair, one that announces a deadline the deadline, and a login and the end
\* of a session both.
Settles(a) ==
  (IF a.saves /\ (a.did = "in" \/ a.pairs \/ ~a.session.user) THEN {"pair"} ELSE {})
    \cup (IF a.saves /\ (a.did = "in" \/ a.told # 0 \/ ~a.session.user) THEN {"use"} ELSE {})

\* The Set-Cookie headers of an answer take effect when it arrives.
Deliver(w) ==
  /\ w \in Pending
  /\ LET a == request[w].answer
         missed == request[w].missed
     IN /\ jar' = [session |-> IF a.saves THEN a.session ELSE jar.session,
                   csrf |-> IF a.pairs THEN a.csrf ELSE jar.csrf]
        /\ told' = IF a.told # 0 \/ (a.saves /\ (a.did = "in" \/ ~a.session.user))
                   THEN a.told ELSE told
        /\ request' = [v \in Requests |->
             IF v = w THEN Free
             ELSE IF v \in Pending THEN [request[v] EXCEPT !.missed = Missing(@, Tells(a, missed))]
             ELSE request[v]]
        /\ raced' = (raced \cup Spoils(a, missed)) \ Settles(a)
        /\ owed' = IF a.did = "in" THEN a.session.epoch = epoch
                   ELSE owed /\ a.did # "out" /\ (a.saves => missed = {})
        /\ left' = \/ a.did = "out"
                   \/ left /\ a.did # "in" /\ (a.saves => "turn" \notin missed)
  /\ UNCHANGED <<clock, epoch, lastLogin, lastUse>>

\* An answer nobody waits for any more, or a connection that breaks.
Lose(w) ==
  /\ w \in Pending
  /\ request' = [request EXCEPT ![w] = Free]
  /\ owed' = (owed /\ request[w].answer.did # "change")
  /\ UNCHANGED <<clock, epoch, jar, told, lastLogin, lastUse, left, raced>>

\* Something else moves the epoch: an administrator, a reset, another browser.
RevokedElsewhere ==
  /\ epoch < MaxEpoch /\ epoch' = epoch + 1
  /\ owed' = FALSE
  /\ UNCHANGED <<clock, jar, request, told, lastLogin, lastUse, left, raced>>

\* The readable cookie lives for a fixed time and only CompleteLogin and
\* GetSession set it again, while every request sets that of the session.
CSRFCookieEnds ==
  /\ jar' = [jar EXCEPT !.csrf = 0] /\ raced' = raced \ {"pair"}
  /\ UNCHANGED <<clock, epoch, request, told, lastLogin, lastUse, owed, left>>

Tick ==
  /\ clock < MaxTime /\ clock' = clock + 1
  /\ UNCHANGED <<epoch, jar, request, told, history>>

-----------------------------------------------------------------------------
(* The specification *)

Init ==
  /\ clock = 0 /\ epoch = 0 /\ told = 0
  /\ jar = [session |-> Blank, csrf |-> 0]
  /\ request = [w \in Requests |-> Free]
  /\ lastLogin = 0 /\ lastUse = 0
  /\ owed = FALSE /\ left = FALSE /\ raced = {}

Handle(w) ==
  \/ LoginGet(w) \/ CompleteLogin(w) \/ FormRefused(w)
  \/ Refuse(w) \/ AdmitPage(w) \/ AdmitOperation(w) \/ GetSession(w)
  \/ DeleteSession(w) \/ Logout(w) \/ ProfilePost(w)

Next ==
  \/ \E w \in Requests : Handle(w) \/ Deliver(w) \/ Lose(w)
  \/ RevokedElsewhere \/ CSRFCookieEnds \/ Tick

Spec == Init /\ [][Next]_vars

-----------------------------------------------------------------------------
(* Properties *)

\* Every copy of a session there is: in the jar and in the answers under way.
Held == {jar.session} \cup {request[w].answer.session : w \in Pending}

\* No copy of a session is accepted when its login is longer ago than the cap,
\* or when nothing but GET /api/v1/session, the login page and refused requests
\* happened for longer than the idle window, in whatever order the answers
\* arrived (ValidateSession and the one route that does not slide).
LifetimeBounded ==
  \A c \in Held : Accepts(c) =>
    clock - lastLogin <= SessionMaxLifetime /\ clock - lastUse <= SessionTimeout

\* The two halves of the CSRF pair do not disagree, so that no mutation of a
\* session that is in is refused for its token, in whatever order the answers of
\* one session arrive.  Only an answer that was sent for before a login or an end
\* of the session and comes after it splits them, and the next
\* GET /api/v1/session mends them (completeLogin, getSession, deleteSession set
\* both cookies, others one).
PairAgrees ==
  jar.session.user /\ jar.csrf # 0 /\ "pair" \notin raced => jar.csrf = jar.session.token

Changing == \E w \in Pending : request[w].answer.did = "change"

\* Nobody is logged out of the page they stand on but by age, a revocation from
\* elsewhere, their own logout or a database that fails under a change of the
\* password: in particular not by changing it, once the answer has come, and not
\* by a reload, in whatever order the answers arrive that belong to one session
\* and one epoch.  An answer that was sent for before the change (or a login, or
\* an end) and comes after it does bring the old session back: the code has
\* nothing against that, and the history owes nothing after it.
KeptInside == owed /\ ~Changing => Accepts(jar.session) \/ Aged(jar.session)

\* The deadline the client was told last is not later than the one the server
\* will apply to the cookie the client holds: it warns in time, but for the cap,
\* and unless an answer has since brought back a session that was used earlier.
DeadlineKept ==
  jar.session.user /\ "use" \notin raced => told <= jar.session.last + SessionTimeout

\* After a logout the browser holds no session again without a login, in whatever
\* order the answers arrive that were sent for after it, a refusal or a form on an
\* old page among them.  An answer that was sent for before the logout and comes
\* after it may bring the old session back (its epoch is old by then, if it was
\* Logout and not DELETE /api/v1/session).
SignedOutStaysOut == left => ~jar.session.user
=============================================================================
