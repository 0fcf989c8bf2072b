----------------------------- MODULE OIDCLogin -----------------------------
(***************************************************************************)
(* The round trip through the identity provider, as a browser makes it.    *)
(*                                                                         *)
(* OIDCLogin puts a fresh state, nonce and PKCE verifier into a cookie and *)
(* redirects to the provider; OIDCCallback needs all three back.  They are *)
(* minted together and are one number here, that of the round trip.  The   *)
(* session is SameSite=Strict and the round-trip cookie Lax: a navigation  *)
(* that a page of the provider starts, and every redirect that follows in  *)
(* it, brings the second and not the first.  A provider that answers with  *)
(* a redirect of its own leaves the navigation one of this site.           *)
(*                                                                         *)
(* There is one jar for all tabs.  A request brings what the jar holds     *)
(* when it is sent; what its answer sets takes effect when it arrives.     *)
(* What becomes of a session that is in is SessionCookie and UserSession.  *)
(*                                                                         *)
(* A definition that stands right before another one with its parameters   *)
(* and is not used is a plausible bug of the code.                         *)
(***************************************************************************)
EXTENDS Integers

CONSTANTS
  Tabs,
  MaxRounds   \* bound on the round trips

VARIABLES
  session,    \* the session cookie: whether there is one, and a user in it
  trip,       \* the round-trip cookie: the number in it, 0: none
  rounds,     \* round trips begun
  spent,      \* those whose code the provider has exchanged
  tab         \* where each tab is

vars == <<session, trip, rounds, spent, tab>>

-----------------------------------------------------------------------------
(* Types *)

Sessions == {"none", "anonymous", "in"}
Rounds == 1..MaxRounds
Keep == -1

Idle == [at |-> "idle"]

\* A tab on its way: `round' it began, `cross' whether its navigation comes from
\* the provider, `overtaken' that something else has set or ended a cookie
\* since; the answer that is under way sets `session' and `trip' (or keeps
\* them) and leads to `next'; `refused' is the state mismatch, `done' that
\* completeLogin has run.
Journeys == [at : {"provider", "sent", "login", "home"}, round : Rounds,
             cross : BOOLEAN, overtaken : BOOLEAN,
             session : Sessions \cup {"keep"}, trip : {Keep} \cup 0..MaxRounds,
             next : {"provider", "callback", "login", "home", "idle"},
             refused : BOOLEAN, done : BOOLEAN]

\* Where a tab ends up after its round trip.
Landed == [at : {"landed"}, overtaken : BOOLEAN, done : BOOLEAN]

TypeOK ==
  /\ session \in Sessions /\ trip \in 0..MaxRounds
  /\ rounds \in 0..MaxRounds /\ spent \subseteq Rounds
  /\ tab \in [Tabs -> Journeys \cup Landed \cup {Idle}]

-----------------------------------------------------------------------------
(* Cookies *)

\* What a request of a tab brings along.
SessionSent(t) == IF tab[t].cross THEN "none" ELSE session

RoundTripCookieStrict(t) == IF tab[t].cross THEN 0 ELSE trip
RoundTripCookie(t) == trip

\* sess() makes up a session that does not come along; flash and base save it.
Saved(s) == IF s = "in" THEN "in" ELSE "anonymous"

Answer(t, s, n, next) ==
  tab' = [tab EXCEPT ![t] = [@ EXCEPT !.at = "sent", !.session = s, !.trip = n, !.next = next]]

-----------------------------------------------------------------------------
(* The handlers *)

\* OIDCLogin, for a link or a bookmark of this site.
BeginLogin(t) ==
  /\ tab[t].at \in {"idle", "landed"} /\ rounds < MaxRounds
  /\ rounds' = rounds + 1
  /\ tab' = [tab EXCEPT ![t] = [at |-> "sent", round |-> rounds + 1, cross |-> FALSE,
               overtaken |-> FALSE, session |-> "keep", trip |-> rounds + 1,
               next |-> "provider", refused |-> FALSE, done |-> FALSE]]
  /\ UNCHANGED <<session, trip, spent>>

\* The provider sends the browser back with the state of this tab and a code, or
\* with an error, which Exchange fails on like on a code that was used.
Authenticate(t) ==
  /\ tab[t].at = "provider"
  /\ \E cross \in BOOLEAN :
       tab' = [tab EXCEPT ![t].at = "sent", ![t].cross = cross, ![t].session = "keep",
                          ![t].trip = Keep, ![t].next = "callback"]
  /\ UNCHANGED <<session, trip, rounds, spent>>

AtCallback(t) == tab[t].at = "sent" /\ tab[t].next = "callback"

\* OIDCCallback with a state that is not that of the cookie.
StateMismatch(t) ==
  /\ AtCallback(t)
  /\ RoundTripCookie(t) = 0 \/ RoundTripCookie(t) # tab[t].round
  /\ tab' = [tab EXCEPT ![t] = [@ EXCEPT !.session = Saved(SessionSent(t)),
                                         !.next = "login", !.refused = TRUE]]
  /\ UNCHANGED <<session, trip, rounds, spent>>

Matches(t) == RoundTripCookie(t) = tab[t].round

\* clearOIDCSession, before anything else is tried.
Cleared == 0

\* The provider, a claim, the groups, a local account of that name or an
\* inactive one get in the way.  The code may have been exchanged by then.
CallbackFails(t) ==
  /\ AtCallback(t) /\ Matches(t)
  /\ spent' \in {spent, spent \cup {tab[t].round}}
  /\ Answer(t, Saved(SessionSent(t)), Cleared, "login")
  /\ UNCHANGED <<session, trip, rounds>>

\* A code is exchanged once; completeLogin then replaces whatever session there
\* is.
CallbackSucceeds(t) ==
  /\ AtCallback(t) /\ Matches(t) /\ tab[t].round \notin spent
  /\ spent' = spent \cup {tab[t].round}
  /\ tab' = [tab EXCEPT ![t] = [@ EXCEPT !.session = "in", !.trip = Cleared,
                                         !.next = "home", !.done = TRUE]]
  /\ UNCHANGED <<session, trip, rounds>>

\* GET / behind RequireLogin: a page for a user, and for anybody else the way to
\* the login page, without a save.
Home(t) ==
  /\ tab[t].at = "home"
  /\ IF SessionSent(t) = "in" THEN Answer(t, "in", Keep, "idle")
     ELSE Answer(t, "keep", Keep, "login")
  /\ UNCHANGED <<session, trip, rounds, spent>>

\* LoginGet: base() saves the session it has, with a token for the form.
LoginGet(t) ==
  /\ tab[t].at = "login"
  /\ Answer(t, Saved(SessionSent(t)), Keep, "idle")
  /\ UNCHANGED <<session, trip, rounds, spent>>

-----------------------------------------------------------------------------
(* The browser *)

\* The answer arrives; it overtakes the journeys of other tabs if it sets a
\* cookie to something else.
Deliver(t) ==
  LET j == tab[t] IN
  /\ j.at = "sent" /\ j.next # "callback"
  /\ session' = IF j.session = "keep" THEN session ELSE j.session
  /\ trip' = IF j.trip = Keep THEN trip ELSE j.trip
  /\ tab' = [u \in Tabs |->
       IF u = t THEN IF j.next = "idle"
                     THEN [at |-> "landed", overtaken |-> j.overtaken, done |-> j.done]
                     ELSE [j EXCEPT !.at = j.next]
       ELSE IF tab[u] # Idle /\ (session' # session \/ trip' # trip)
            THEN [tab[u] EXCEPT !.overtaken = TRUE] ELSE tab[u]]
  /\ UNCHANGED <<rounds, spent>>

\* The answer of the callback is lost, and the tab reloaded: the same navigation
\* again, with the cookie that the answer would have ended.
Reload(t) ==
  /\ tab[t].at = "sent" /\ tab[t].trip = Cleared
  /\ tab' = [tab EXCEPT ![t] = [@ EXCEPT !.session = "keep", !.trip = Keep,
                                         !.next = "callback", !.done = FALSE]]
  /\ UNCHANGED <<session, trip, rounds, spent>>

\* The user gives up and closes the tab.
Close(t) ==
  /\ tab[t] # Idle
  /\ tab' = [tab EXCEPT ![t] = Idle]
  /\ UNCHANGED <<session, trip, rounds, spent>>

Overtaking == [t \in Tabs |-> IF tab[t] = Idle THEN Idle ELSE [tab[t] EXCEPT !.overtaken = TRUE]]

\* The session changes by other means: a login with a password, a logout, age.
SessionMoves ==
  /\ session' \in Sessions /\ session' # session
  /\ tab' = Overtaking
  /\ UNCHANGED <<trip, rounds, spent>>

\* The round-trip cookie lives for five minutes.
RoundTripEnds ==
  /\ trip # 0 /\ trip' = 0
  /\ tab' = Overtaking
  /\ UNCHANGED <<session, rounds, spent>>

-----------------------------------------------------------------------------
(* The specification *)

Init ==
  /\ session = "none" /\ trip = 0 /\ rounds = 0 /\ spent = {}
  /\ tab = [t \in Tabs |-> Idle]

Callback(t) == StateMismatch(t) \/ CallbackFails(t) \/ CallbackSucceeds(t)

Next ==
  \/ \E t \in Tabs :
       \/ BeginLogin(t) \/ Authenticate(t) \/ Callback(t) \/ Home(t) \/ LoginGet(t)
       \/ Deliver(t) \/ Reload(t) \/ Close(t)
  \/ SessionMoves \/ RoundTripEnds

Spec == Init /\ [][Next]_vars

-----------------------------------------------------------------------------
(* Properties *)

\* A callback is refused for its state only when another answer, or five
\* minutes, came between it and the login it belongs to, and not because the
\* browser kept the cookie back on the way from the provider (oidcSession).
RefusedOnlyWhenOvertaken ==
  \A t \in Tabs : tab[t].at = "sent" /\ tab[t].refused => tab[t].overtaken

\* The inductive invariant: as long as nothing overtakes a tab, the round-trip
\* cookie is its own from the redirect to the provider to the answer of the
\* callback.
Returning(j) == j.at = "provider" \/ (j.at = "sent" /\ (j.next = "callback" \/ j.trip = Cleared))

TripInv ==
  \A t \in Tabs :
    LET j == tab[t] IN
    j \in Journeys /\ ~j.overtaken =>
      /\ ~j.refused
      /\ Returning(j) => trip = j.round
      /\ j.at = "sent" /\ j.next = "provider" => j.trip = j.round

\* A browser whose callback has completed a login is logged in when it has
\* landed and nothing else has touched its cookies, as the documentation of the
\* callback says.
CallbackLogsIn ==
  \A t \in Tabs : tab[t].at = "landed" /\ tab[t].done /\ ~tab[t].overtaken => session = "in"
=============================================================================
