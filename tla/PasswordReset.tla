---------------------------- MODULE PasswordReset ----------------------------
(***************************************************************************)
(* The links that reset a forgotten password.                              *)
(*                                                                         *)
(* A link is a token: a row of password_reset_tokens that must be unused   *)
(* and not expired when the form is posted.  Asking for a link invalidates *)
(* the older ones and then inserts a row; using one writes the password    *)
(* first and marks the token last, five statements later.  One action is   *)
(* one statement, with the code up to the next.  What a reset does to the  *)
(* sessions of the user is in UserSession; the limit on asking for links   *)
(* is in LoginLimiter.                                                     *)
(*                                                                         *)
(* A definition that stands right before another one with its parameters   *)
(* and is not used is a plausible bug of the code, as in UserSession.      *)
(***************************************************************************)
EXTENDS Integers, FiniteSets

CONSTANTS
  Users,      \* accounts with an e-mail address
  Workers,    \* requests under way at a time
  DBMayFail,  \* whether a statement whose error is ignored may fail
  MaxTokens   \* bound on the links asked for

ASSUME PasswordResetAssumption == MaxTokens \in Nat /\ DBMayFail \in BOOLEAN

VARIABLES
  accounts,   \* of each user whether the row is there and active
  tokens,     \* password_reset_tokens
  mailed,     \* tokens whose link has reached its user
  request,    \* what each worker is doing
  created,    \* tokens inserted so far
  spent,      \* history: tokens that a password was set with
  again,      \* history: those of them that set one more than once
  retired,    \* history: tokens there were when their user's were invalidated
  excused     \* history: what went on that a promise is not made for

vars == <<accounts, tokens, mailed, request, created, spent, again, retired, excused>>

-----------------------------------------------------------------------------
(* Types *)

TokenIds == 1..created
Token == [id : TokenIds, uid : Users, used : BOOLEAN, expired : BOOLEAN]

Idle == [pc |-> "idle"]
Asking == [pc : {"invalidate", "create"}, uid : Users]
Mailing == [pc : {"mail"}, uid : Users, token : TokenIds]
Resetting == [pc : {"load", "write", "mark", "clear"}, uid : Users, token : TokenIds]
Request == {Idle} \cup Asking \cup Mailing \cup Resetting

Excuses == {"two requests", "two resets", "cutoff", "database"}

TypeOK ==
  /\ accounts \in [Users -> {"active", "inactive", "deleted"}]
  /\ tokens \subseteq Token
  /\ \A s, t \in tokens : s.id = t.id => s = t
  /\ request \in [Workers -> Request]
  /\ created \in 0..MaxTokens
  /\ mailed \cup spent \cup retired \subseteq TokenIds /\ again \subseteq spent
  /\ excused \subseteq Excuses

-----------------------------------------------------------------------------
(* Helpers *)

Goto(w, pc) == request' = [request EXCEPT ![w].pc = pc]
Finish(w) == request' = [request EXCEPT ![w] = Idle]

\* A request begins, and overlaps with one of the same kind for the same user.
Begin(w, r, pcs, overlap) ==
  /\ request[w] = Idle
  /\ request' = [request EXCEPT ![w] = r]
  /\ excused' = IF \E v \in Workers : request[v].pc \in pcs /\ request[v].uid = r.uid
                THEN excused \cup {overlap} ELSE excused

ValidIgnoringUse(t) == ~t.expired
Valid(t) == ~t.used /\ ~t.expired

\* UPDATE ... SET used_at = NOW() WHERE ... AND used_at IS NULL.
Used(ids) == {IF t.id \in ids THEN [t EXCEPT !.used = TRUE] ELSE t : t \in tokens}

TokensOf(u) == {t.id : t \in {s \in tokens : s.uid = u}}

\* InvalidatePasswordResetTokens; its error is ignored.
InvalidateNone(u) == UNCHANGED <<tokens, retired, excused>>
InvalidatePasswordResetTokens(u) ==
  \/ /\ tokens' = Used(TokensOf(u))
     /\ retired' = retired \cup TokensOf(u)
     /\ UNCHANGED excused
  \/ /\ DBMayFail /\ excused' = excused \cup {"database"}
     /\ UNCHANGED <<tokens, retired>>

-----------------------------------------------------------------------------
(* Asking for a link: ForgotPasswordPost *)

\* The user is known, is active and has an address, and mail is configured.
ForgotPasswordPost(w, u) ==
  /\ accounts[u] = "active"
  /\ Begin(w, [pc |-> "invalidate", uid |-> u], {"invalidate", "create"}, "two requests")
  /\ UNCHANGED <<accounts, tokens, mailed, created, spent, again, retired>>

InvalidateOlder(w) ==
  /\ request[w].pc = "invalidate"
  /\ InvalidatePasswordResetTokens(request[w].uid)
  /\ Goto(w, "create")
  /\ UNCHANGED <<accounts, mailed, created, spent, again>>

CreateWithOldId(w) ==
  /\ request[w].pc = "create"
  /\ tokens' = tokens \cup
       {[id |-> 1, uid |-> request[w].uid, used |-> FALSE, expired |-> FALSE]}
  /\ created' = 1
  /\ request' = [request EXCEPT ![w] = [pc |-> "mail", uid |-> request[w].uid, token |-> 1]]
  /\ UNCHANGED <<accounts, mailed, spent, again, retired, excused>>
\* The INSERT fails for a user who is gone by now.
CreatePasswordResetToken(w) ==
  /\ request[w].pc = "create" /\ created < MaxTokens
  /\ LET u == request[w].uid
         t == created + 1
     IN IF accounts[u] # "deleted"
        THEN /\ tokens' = tokens \cup {[id |-> t, uid |-> u, used |-> FALSE, expired |-> FALSE]}
             /\ created' = t
             /\ request' = [request EXCEPT ![w] = [pc |-> "mail", uid |-> u, token |-> t]]
        ELSE Finish(w) /\ UNCHANGED <<tokens, created>>
  /\ UNCHANGED <<accounts, mailed, spent, again, retired, excused>>

\* sendPasswordResetMail, within ten seconds, when PUBLIC_BASE_URL allows a link.
SendMail(w) ==
  /\ request[w].pc = "mail"
  /\ mailed' = mailed \cup {request[w].token} \/ UNCHANGED mailed
  /\ Finish(w)
  /\ UNCHANGED <<accounts, tokens, created, spent, again, retired, excused>>

-----------------------------------------------------------------------------
(* Using a link: ResetPasswordPost *)

\* GetValidPasswordResetToken; the new password is acceptable.
ResetPasswordPost(w, t) ==
  /\ t \in tokens /\ t.id \in mailed /\ Valid(t)
  /\ Begin(w, [pc |-> "load", uid |-> t.uid, token |-> t.id],
           {"load", "write", "mark", "clear"}, "two resets")
  /\ UNCHANGED <<accounts, tokens, mailed, created, spent, again, retired>>

GetUserByID(w) ==
  /\ request[w].pc = "load"
  /\ IF accounts[request[w].uid] = "active" THEN Goto(w, "write") ELSE Finish(w)
  /\ UNCHANGED <<accounts, tokens, mailed, created, spent, again, retired, excused>>

\* UpdateUserPassword and BumpSessionEpoch, which do not look at the token and
\* change no row of a user who is gone.
UpdateUserPassword(w) ==
  /\ request[w].pc = "write"
  /\ IF accounts[request[w].uid] = "deleted"
     THEN UNCHANGED <<spent, again>>
     ELSE /\ spent' = spent \cup {request[w].token}
          /\ again' = again \cup ({request[w].token} \cap spent)
  /\ Goto(w, "mark")
  /\ UNCHANGED <<accounts, tokens, mailed, created, retired, excused>>

\* MarkPasswordResetTokenUsed; its error is ignored.
MarkPasswordResetTokenUsed(w) ==
  /\ request[w].pc = "mark"
  /\ \/ tokens' = Used({request[w].token}) /\ UNCHANGED excused
     \/ DBMayFail /\ excused' = excused \cup {"database"} /\ UNCHANGED tokens
  /\ Goto(w, "clear")
  /\ UNCHANGED <<accounts, mailed, created, spent, again, retired>>

InvalidateOthers(w) ==
  /\ request[w].pc = "clear"
  /\ InvalidatePasswordResetTokens(request[w].uid)
  /\ Finish(w)
  /\ UNCHANGED <<accounts, mailed, created, spent, again>>

-----------------------------------------------------------------------------
(* Administration, time and failure *)

UpdateUserActive(u) ==
  /\ accounts[u] # "deleted"
  /\ accounts' = [accounts EXCEPT ![u] = IF @ = "active" THEN "inactive" ELSE "active"]
  /\ UNCHANGED <<tokens, mailed, request, created, spent, again, retired, excused>>

\* DeleteUser; the tokens go with the row, ON DELETE CASCADE.
DeleteUser(u) ==
  /\ accounts[u] # "deleted"
  /\ accounts' = [accounts EXCEPT ![u] = "deleted"]
  /\ tokens' = {t \in tokens : t.uid # u}
  /\ UNCHANGED <<mailed, request, created, spent, again, retired, excused>>

\* expires_at, thirty minutes after the request, passes.
Expire(t) ==
  /\ t \in tokens /\ ~t.expired
  /\ tokens' = (tokens \ {t}) \cup {[t EXCEPT !.expired = TRUE]}
  /\ UNCHANGED <<accounts, mailed, request, created, spent, again, retired, excused>>

\* A request is cut off between two statements: an error that is reported, or
\* the end of the process.
CutOff(w) ==
  /\ request[w] # Idle
  /\ Finish(w)
  /\ excused' = excused \cup {"cutoff"}
  /\ UNCHANGED <<accounts, tokens, mailed, created, spent, again, retired>>

-----------------------------------------------------------------------------
(* The specification *)

Init ==
  /\ accounts = [u \in Users |-> "active"]
  /\ tokens = {} /\ mailed = {} /\ created = 0
  /\ request = [w \in Workers |-> Idle]
  /\ spent = {} /\ again = {} /\ retired = {} /\ excused = {}

Ask(w) ==
  \/ \E u \in Users : ForgotPasswordPost(w, u)
  \/ InvalidateOlder(w) \/ CreatePasswordResetToken(w) \/ SendMail(w)

Reset(w) ==
  \/ \E t \in tokens : ResetPasswordPost(w, t)
  \/ GetUserByID(w) \/ UpdateUserPassword(w) \/ MarkPasswordResetTokenUsed(w)
  \/ InvalidateOthers(w)

Next ==
  \/ \E w \in Workers : Ask(w) \/ Reset(w) \/ CutOff(w)
  \/ \E u \in Users : UpdateUserActive(u) \/ DeleteUser(u)
  \/ \E t \in tokens : Expire(t)

Spec == Init /\ [][Next]_vars

-----------------------------------------------------------------------------
(* Properties *)

\* A link sets a password once, unless it is used by two requests at a time, or
\* the request that used it is cut off or the database fails before the token
\* is marked.
OneResetPerLink == excused \cap {"two resets", "cutoff", "database"} = {} => again = {}

\* Nothing has gone on that OneValidLink is not promised for.
Quiet == excused \cap {"two requests", "database"} = {}

ValidTokens(u) == {t \in tokens : t.uid = u /\ Valid(t)}

\* A user has one link that works, unless two were asked for at a time or the
\* database fails, also when resets and cut off requests come in between.
OneValidLink ==
  Quiet => \A u \in Users : Cardinality(ValidTokens(u)) <= 1

\* A link that a finished reset or a later request has invalidated starts no
\* reset again, whatever overlapped.
RetiredLinksStayRetired ==
  [][\A w \in Workers, t \in tokens : ResetPasswordPost(w, t) => t.id \notin retired]_vars

\* What makes OneValidLink and RetiredLinksStayRetired inductive.  A token that was
\* there at an invalidation is used.  While it is quiet, of the requests for a link
\* of a user one is between its statements at a time; when it is about to insert,
\* every token of the user is used; one token at most is not used, expired or not.
RetiredAreUsed == \A t \in tokens : t.id \in retired => t.used

Asks(w, u) == request[w].pc \in {"invalidate", "create"} /\ request[w].uid = u

OneAsks == \A v, w \in Workers, u \in Users : Asks(v, u) /\ Asks(w, u) => v = w

UsedBeforeInsert ==
  \A w \in Workers, t \in tokens :
    request[w].pc = "create" /\ t.uid = request[w].uid => t.used

OneUnused == \A s, t \in tokens : s.uid = t.uid /\ ~s.used /\ ~t.used => s = t

LinkInv == RetiredAreUsed /\ (Quiet => OneAsks /\ UsedBeforeInsert /\ OneUnused)

\* What makes OneResetPerLink inductive.  A reset is of the user whose token it has
\* in hand.  While nothing that is excused has gone on, one reset of a user is under
\* way at a time, what has set a password is used, or about to be marked, and nobody
\* who is still to set one has such a token in hand.
Resets(w) == request[w].pc \in {"load", "write", "mark", "clear"}

OwnToken ==
  \A w \in Workers : Resets(w) =>
    /\ \A t \in tokens : t.id = request[w].token => t.uid = request[w].uid
    /\ \A v \in Workers :
         Resets(v) /\ request[v].token = request[w].token => request[v].uid = request[w].uid

NothingExcused == excused \cap {"two resets", "cutoff", "database"} = {}

OneResets ==
  \A v, w \in Workers :
    Resets(v) /\ Resets(w) /\ request[v].uid = request[w].uid => v = w

SpentIsMarked ==
  \A t \in tokens : t.id \in spent =>
    t.used \/ \E w \in Workers : request[w].pc = "mark" /\ request[w].token = t.id

UnspentInHand ==
  \A w \in Workers : request[w].pc \in {"load", "write"} => request[w].token \notin spent

SpendInv ==
  OwnToken /\ (NothingExcused => again = {} /\ OneResets /\ SpentIsMarked /\ UnspentInHand)

\* "enforcing the single-use invariant", db/password_reset.go.
LinkSingleUse == again = {}
=============================================================================
