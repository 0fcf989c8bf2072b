----------------------------- MODULE TempCreds -----------------------------
(***************************************************************************)
(* The credential of a new temporary user, on its way to the one page that *)
(* shows it.                                                               *)
(*                                                                         *)
(* AdminUsersTempPost inserts the account, puts its password into a store  *)
(* in memory under an unguessable token and redirects to a page with that  *)
(* token; the page takes it out.  Pages are reloaded and opened twice,     *)
(* redirects are lost, the process restarts.                               *)
(*                                                                         *)
(* put and take hold the mutex of the store from their first look at the   *)
(* clock to their end, so each is one step.  An account is named by the    *)
(* token its credential gets; what becomes of it later is in UserSession.  *)
(*                                                                         *)
(* A definition that stands right before another one with its parameters   *)
(* and is not used is a plausible bug of the code.                         *)
(***************************************************************************)
EXTENDS Integers

CONSTANTS
  Tokens,       \* what security.GenerateToken can return: each only once
  Posts,        \* requests that create an account, at a time
  tempCredTTL,
  MaxClock      \* bound on the clock

\* The time to live is a positive number.
TTLOK == tempCredTTL \in Nat \ {0} /\ MaxClock \in Nat

VARIABLES
  now,
  posting,      \* what each AdminUsersTempPost has inserted and not put yet
  creds,        \* the store: when each entry expires, -1: there is none
  filed,        \* history: when each credential was put, -1: not yet
  shown,        \* history: how often each was shown: 0, 1, 2 (more)
  shownLate     \* history: tokens that were shown after their time

vars == <<now, posting, creds, filed, shown, shownLate>>

Gone == -1
NoToken == "none"

Stored == {t \in Tokens : creds[t] # Gone}

TypeOK ==
  /\ now \in 0..MaxClock
  /\ posting \in [Posts -> Tokens \cup {NoToken}]
  /\ creds \in [Tokens -> Int] /\ filed \in [Tokens -> Int]
  /\ shown \in [Tokens -> 0..2] /\ shownLate \subseteq Tokens

-----------------------------------------------------------------------------
(* The store *)

Expired == {t \in Stored : now > creds[t]}

\* evictExpired.
Evicted == [t \in Tokens |-> IF t \in Expired THEN Gone ELSE creds[t]]

\* The insert of CreateTempUser, which is committed before put is called.
CreateTempUser(p, t) ==
  /\ posting[p] = NoToken
  /\ filed[t] = Gone /\ \A q \in Posts : posting[q] # t
  /\ posting' = [posting EXCEPT ![p] = t]
  /\ UNCHANGED <<now, creds, filed, shown, shownLate>>

Put(p) ==
  LET t == posting[p] IN
  /\ t # NoToken
  /\ creds' = [Evicted EXCEPT ![t] = now + tempCredTTL]
  /\ filed' = [filed EXCEPT ![t] = now]
  /\ posting' = [posting EXCEPT ![p] = NoToken]
  /\ UNCHANGED <<now, shown, shownLate>>

TakenKept(store, t) == store
Taken(store, t) == [store EXCEPT ![t] = Gone]

\* take, for the page the redirect leads to: with a token that was filed once,
\* and any number of times.
Take(t) ==
  /\ filed[t] # Gone
  /\ creds' = Taken(Evicted, t)
  /\ IF Evicted[t] # Gone /\ now <= creds[t]
     THEN /\ shown' = [shown EXCEPT ![t] = IF @ = 0 THEN 1 ELSE 2]
          /\ shownLate' = IF now > filed[t] + tempCredTTL THEN shownLate \cup {t}
                          ELSE shownLate
     ELSE UNCHANGED <<shown, shownLate>>
  /\ UNCHANGED <<now, posting, filed>>

-----------------------------------------------------------------------------
(* The environment *)

Tick ==
  /\ now < MaxClock /\ now' = now + 1
  /\ UNCHANGED <<posting, creds, filed, shown, shownLate>>

\* The store is lost, and so is what had not been put.
Restart ==
  /\ creds' = [t \in Tokens |-> Gone]
  /\ posting' = [p \in Posts |-> NoToken]
  /\ UNCHANGED <<now, filed, shown, shownLate>>

-----------------------------------------------------------------------------
(* The specification *)

Init ==
  /\ now = 0
  /\ posting = [p \in Posts |-> NoToken]
  /\ creds = [t \in Tokens |-> Gone] /\ filed = [t \in Tokens |-> Gone]
  /\ shown = [t \in Tokens |-> 0] /\ shownLate = {}

Next ==
  \/ \E p \in Posts, t \in Tokens : CreateTempUser(p, t)
  \/ \E p \in Posts : Put(p)
  \/ \E t \in Tokens : Take(t)
  \/ Tick \/ Restart

Spec == Init /\ [][Next]_vars

-----------------------------------------------------------------------------
(* Properties *)

\* A credential is shown to one reader, once, and not after two minutes
\* (tempCredStore.take).
ShownOnce == \A t \in Tokens : shown[t] <= 1 /\ t \notin shownLate

\* The inductive invariant: a token is with one request, or was filed, and only
\* a credential that was not shown is in the store, with its own time.
OnePost(p) ==
  posting[p] # NoToken =>
    /\ filed[posting[p]] = Gone
    /\ \A q \in Posts : posting[q] = posting[p] => q = p

Unseen(t) ==
  /\ filed[t] = Gone => creds[t] = Gone /\ shown[t] = 0
  /\ creds[t] # Gone => creds[t] = filed[t] + tempCredTTL /\ shown[t] = 0

CredInv ==
  /\ ShownOnce
  /\ \A p \in Posts : OnePost(p)
  /\ \A t \in Tokens : Unseen(t)
=============================================================================
