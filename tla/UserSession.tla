---------------------------- MODULE UserSession ----------------------------
(***************************************************************************)
(* Who is logged in to step-ui, and what ends it.                          *)
(*                                                                         *)
(* A session is a signed cookie and nothing else: the server keeps no list *)
(* of sessions.  The only thing that can end one early is the row of its   *)
(* user, which every request reads again: the row must be there, be active *)
(* and hold the session_epoch the cookie was minted with.  Everything that *)
(* "ends the sessions of a user" is therefore an increment of that epoch,  *)
(* and what this module is about is the requests that are under way while  *)
(* it happens: a login that has read the row, a second factor, a user      *)
(* changing the password, two administrators working at once.              *)
(*                                                                         *)
(* A request is a record in `request'; one action is one statement on the  *)
(* users table, with the code that follows it up to the next statement.    *)
(* A password is a version number: a larger one was chosen later.          *)
(*                                                                         *)
(* A definition that stands right before another one with its parameters   *)
(* and is not used (BumpedAsFlag before Bumped) is a plausible bug of the  *)
(* code: with it in place of the next one, a property named in             *)
(* PROJECT.json does not hold.                                             *)
(***************************************************************************)
EXTENDS Integers, FiniteSets

CONSTANTS
  Users,           \* rows of the users table, by id; an id is never reused
  Workers,         \* requests the server may have under way at a time
  Sids,            \* names of logins: every cookie descends from one login
  Existing,        \* the users there are in the initial state
  Admins,          \* those of them whose role is admin
  TwoFactorUsers,  \* users with totp_enabled
  OIDCUsers,       \* users with auth_source = 'oidc': no local password
  TempUsers,       \* users created by AdminUsersTempPost, with an expires_at
  LegacyUsers,     \* users whose hash still needs a rehash
  Ops,             \* the kinds of request an instance explores
  BumpMayFail,     \* whether the UPDATE of a separate epoch bump may fail
  MaxEpoch,        \* bound on session_epoch
  MaxPassword      \* bound on the passwords chosen for one user

OpKinds == {"login", "oidc", "logout", "profile", "token", "reset",
            "role", "toggle", "delete", "create"}

ASSUME SessionAssumption ==
  /\ Admins \subseteq Existing /\ Existing \subseteq Users
  /\ Existing \cap TempUsers = {}
  /\ TwoFactorUsers \subseteq Users /\ OIDCUsers \subseteq Users
  /\ TempUsers \subseteq Users /\ LegacyUsers \subseteq Users
  /\ Ops \subseteq OpKinds
  /\ BumpMayFail \in BOOLEAN
  /\ MaxEpoch \in Nat /\ MaxPassword \in Nat

VARIABLES
  users,     \* the users table
  issued,    \* every session cookie ever minted: any of them may come back
  pending,   \* logins that passed the password and wait for a second factor
  request,   \* what each worker is doing
  written,   \* history: the newest password chosen for each user
  revoked,   \* history: logins a finished "end the sessions" covered, by user
  spared     \* history: those of them that had the epoch read again since,
             \* or whose bump failed

vars == <<users, issued, pending, request, written, revoked, spared>>

-----------------------------------------------------------------------------
(* Types *)

\* Of the three roles only admin is told apart from the others here.
Roles == {"viewer", "admin"}

Row == [status : {"none", "live", "deleted"}, active : BOOLEAN, role : Roles,
        epoch : Nat, pw : Nat, legacy : BOOLEAN, lapsed : BOOLEAN]

Cookie == [sid : Sids, uid : Users, epoch : Nat]

\* The part of a row a request keeps between its statements.
Seen == [epoch : Nat, pw : Nat, active : BOOLEAN]
NothingSeen == [epoch |-> 0, pw |-> 0, active |-> FALSE]

PCs == {"rehash", "pend", "mint", "reload", "verify", "write", "bump",
        "stamp", "flip", "act"}

\* `uid' is the row the request is about, `by' the user whose session sent it
\* (the same one for a login), `sid' the login it sends or is making.
Busy == [pc : PCs, op : OpKinds, sid : Sids, uid : Users, by : Users, seen : Seen]
Anonymous == [pc : {"write", "bump"}, op : {"token"}, uid : Users]
Oidc == [pc : {"reload"}, op : {"oidc"}, uid : Users]
Idle == [pc |-> "idle"]
Request == Busy \cup Anonymous \cup Oidc \cup {Idle}

TypeOK ==
  /\ users \in [Users -> Row]
  /\ issued \subseteq Cookie
  /\ pending \subseteq [sid : Sids, uid : Users]
  /\ request \in [Workers -> Request]
  /\ written \in [Users -> Nat]
  /\ revoked \in [Users -> SUBSET Sids]
  /\ spared \in [Users -> SUBSET Sids]

-----------------------------------------------------------------------------
(* What the middleware and the table promise *)

Live(u) == users[u].status = "live"

\* ValidateSession: the row is there, is active and has the cookie's epoch.
Accepts(c) == Live(c.uid) /\ users[c.uid].active /\ c.epoch = users[c.uid].epoch

\* RequireRole("admin"), on the row ValidateSession has loaded.
IsActiveAdmin(u) == Live(u) /\ users[u].active /\ users[u].role = "admin"

\* The only user an administrator may not delete, demote or deactivate.
OneselfToo(op, by, uid) == TRUE
NotOneself(op, by, uid) == op = "reset" \/ uid # by

\* A row as CreateUser, CreateTempUser and UpsertOIDCUser insert it.
NewRow(role) == [status |-> "live", active |-> TRUE, role |-> role, epoch |-> 0,
                 pw |-> 0, legacy |-> FALSE, lapsed |-> FALSE]

CopyOf(u) == [epoch |-> users[u].epoch, pw |-> users[u].pw, active |-> users[u].active]

\* Logins that hold a row of u: cookies, pending logins, logins under way.
LoginsOf(u) ==
  {c.sid : c \in {d \in issued : d.uid = u}}
    \cup {p.sid : p \in {q \in pending : q.uid = u}}
    \cup {request[w].sid : w \in {v \in Workers :
            request[v].pc \in {"rehash", "pend", "mint"} /\ request[v].uid = u}}

Taken == UNION {LoginsOf(u) \cup revoked[u] : u \in Users}

Done(w) == request' = [request EXCEPT ![w] = Idle]
Goto(w, pc) == request' = [request EXCEPT ![w].pc = pc]

\* The bounds: an epoch may still grow, a new password may still be chosen.
EpochLeft(u) == users[u].epoch < MaxEpoch
PasswordLeft(u) == written[u] < MaxPassword

-----------------------------------------------------------------------------
(* Ending the sessions of a user *)

\* SET session_epoch = session_epoch + 1, which touches nothing in a row that
\* is gone, and its record in the history.
BumpedAsFlag(row) == [row EXCEPT !.epoch = 1 - @]
Bumped(row) == [row EXCEPT !.epoch = @ + 1]

Revoke(u, keep) ==
  /\ revoked' = [revoked EXCEPT ![u] = @ \cup (LoginsOf(u) \ keep)]
  /\ spared' = [spared EXCEPT ![u] = @ \ (LoginsOf(u) \ keep)]

\* BumpSessionEpoch.
BumpSessionEpoch(u, keep) ==
  /\ users' = IF Live(u) THEN [users EXCEPT ![u] = Bumped(@)] ELSE users
  /\ Revoke(u, keep)

\* An error of BumpSessionEpoch is logged and the caller carries on.
BumpFails(u, keep) ==
  /\ BumpMayFail
  /\ revoked' = [revoked EXCEPT ![u] = @ \cup (LoginsOf(u) \ keep)]
  /\ spared' = [spared EXCEPT ![u] = @ \cup (LoginsOf(u) \ keep)]
  /\ UNCHANGED users

-----------------------------------------------------------------------------
(* Logging in *)

AfterPassword(u) == IF u \in TwoFactorUsers THEN "pend" ELSE "mint"

\* LoginPost, up to its read of the row: the password was right and the user
\* active.  (A wrong one is counted by the rate limiter and changes nothing
\* here.)
LoginPost(w, u, s) ==
  /\ "login" \in Ops /\ request[w] = Idle /\ s \notin Taken
  /\ u \notin OIDCUsers /\ Live(u) /\ users[u].active
  /\ request' = [request EXCEPT ![w] =
       [pc |-> IF users[u].legacy THEN "rehash" ELSE AfterPassword(u),
        op |-> "login", sid |-> s, uid |-> u, by |-> u, seen |-> CopyOf(u)]]
  /\ UNCHANGED <<users, issued, pending, written, revoked, spared>>

\* NeedsPasswordRehash: the password just typed is hashed again and stored.
RehashPassword(w) ==
  /\ request[w].pc = "rehash"
  /\ LET u == request[w].uid IN
       /\ users' = IF Live(u)
                   THEN [users EXCEPT ![u].pw = request[w].seen.pw, ![u].legacy = FALSE]
                   ELSE users
       /\ Goto(w, AfterPassword(u))
  /\ UNCHANGED <<issued, pending, written, revoked, spared>>

\* TOTPEnabled: the cookie only names the user, for five minutes.
SavePending(w) ==
  /\ request[w].pc = "pend"
  /\ pending' = pending \cup {[sid |-> request[w].sid, uid |-> request[w].uid]}
  /\ Done(w)
  /\ UNCHANGED <<users, issued, written, revoked, spared>>

PendingEnds(p) ==
  /\ p \in pending
  /\ pending' = pending \ {p}
  /\ UNCHANGED <<users, issued, request, written, revoked, spared>>

\* loginPost2FA, the code being right: the row is read again.
LoginPost2FA(w, p) ==
  /\ request[w] = Idle /\ p \in pending
  /\ Live(p.uid) /\ users[p.uid].active /\ p.uid \in TwoFactorUsers
  /\ request' = [request EXCEPT ![w] =
       [pc |-> "mint", op |-> "login", sid |-> p.sid, uid |-> p.uid, by |-> p.uid,
        seen |-> CopyOf(p.uid)]]
  /\ spared' = [spared EXCEPT ![p.uid] = @ \cup ({p.sid} \cap revoked[p.uid])]
  /\ UNCHANGED <<users, issued, pending, written, revoked>>

\* UpsertOIDCUser: a user seen for the first time gets a row; the role of a
\* known one follows the identity provider and the epoch stays.
UpsertOIDCUser(w, u, role) ==
  /\ "oidc" \in Ops /\ request[w] = Idle
  /\ u \in OIDCUsers /\ users[u].status # "deleted"
  /\ users' = IF Live(u) THEN [users EXCEPT ![u].role = role]
                         ELSE [users EXCEPT ![u] = NewRow(role)]
  /\ request' = [request EXCEPT ![w] = [pc |-> "reload", op |-> "oidc", uid |-> u]]
  /\ UNCHANGED <<issued, pending, written, revoked, spared>>

\* The second statement of the upsert reads the row the session is made from.
OIDCCallback(w, s) ==
  /\ request[w].pc = "reload" /\ s \notin Taken
  /\ LET u == request[w].uid IN
       IF Live(u) /\ users[u].active
       THEN request' = [request EXCEPT ![w] =
              [pc |-> "mint", op |-> "oidc", sid |-> s, uid |-> u, by |-> u,
               seen |-> CopyOf(u)]]
       ELSE Done(w)
  /\ UNCHANGED <<users, issued, pending, written, revoked, spared>>

CompleteLoginFreshEpoch(w) ==
  /\ request[w].pc = "mint"
  /\ LET u == request[w].uid IN
       issued' = issued \cup {[sid |-> request[w].sid, uid |-> u, epoch |-> users[u].epoch]}
  /\ Done(w)
  /\ UNCHANGED <<users, pending, written, revoked, spared>>

\* completeLogin: the epoch of the row that was read goes into the cookie.
CompleteLogin(w) ==
  /\ request[w].pc = "mint"
  /\ issued' = issued \cup
       {[sid |-> request[w].sid, uid |-> request[w].uid, epoch |-> request[w].seen.epoch]}
  /\ Done(w)
  /\ UNCHANGED <<users, pending, written, revoked, spared>>

-----------------------------------------------------------------------------
(* Logging out, changing and resetting a password *)

\* Logout is not behind RequireLogin: a cookie that is no longer accepted
\* still names its user, and its bump is as good as any other.
Logout(c) ==
  /\ "logout" \in Ops /\ c \in issued /\ EpochLeft(c.uid)
  /\ BumpSessionEpoch(c.uid, {}) \/ BumpFails(c.uid, {})
  /\ UNCHANGED <<issued, pending, request, written>>

\* ProfilePost reaches its handler through RequireLogin.
ProfilePost(w, c) ==
  /\ "profile" \in Ops /\ request[w] = Idle
  /\ c \in issued /\ Accepts(c) /\ EpochLeft(c.uid) /\ PasswordLeft(c.uid)
  /\ request' = [request EXCEPT ![w] =
       [pc |-> "verify", op |-> "profile", sid |-> c.sid, uid |-> c.uid, by |-> c.uid,
        seen |-> NothingSeen]]
  /\ UNCHANGED <<users, issued, pending, written, revoked, spared>>

\* The handler reads the row again to verify the current password; it stops
\* when that is wrong or the new one is not acceptable.
VerifyCurrent(w) ==
  /\ request[w].pc = "verify"
  /\ (Live(request[w].uid) /\ Goto(w, "write")) \/ Done(w)
  /\ UNCHANGED <<users, issued, pending, written, revoked, spared>>

\* ResetPasswordPost with a token that is valid, for a user who is active.
ResetPasswordPost(w, u) ==
  /\ "token" \in Ops /\ request[w] = Idle
  /\ Live(u) /\ users[u].active /\ EpochLeft(u) /\ PasswordLeft(u)
  /\ request' = [request EXCEPT ![w] = [pc |-> "write", op |-> "token", uid |-> u]]
  /\ UNCHANGED <<users, issued, pending, written, revoked, spared>>

\* UpdateUserPassword, the same statement in the three places that call it.
UpdateUserPassword(w) ==
  /\ request[w].pc = "write"
  /\ LET u == request[w].uid IN
       /\ PasswordLeft(u)
       /\ users' = IF Live(u)
                   THEN [users EXCEPT ![u].pw = written[u] + 1, ![u].legacy = FALSE]
                   ELSE users
       /\ written' = [written EXCEPT ![u] = @ + 1]
  /\ Goto(w, "bump")
  /\ UNCHANGED <<issued, pending, revoked, spared>>

\* The bump that follows it.  Only a user's own change keeps a session, the
\* one that asked for it, and only when the bump worked.
BumpAfterPassword(w) ==
  /\ request[w].pc = "bump"
  /\ LET u == request[w].uid
         own == request[w].op = "profile"
     IN /\ EpochLeft(u)
        /\ \/ /\ BumpSessionEpoch(u, IF own THEN {request[w].sid} ELSE {})
              /\ IF own THEN Goto(w, "stamp") ELSE Done(w)
           \/ /\ BumpFails(u, IF own THEN {request[w].sid} ELSE {})
              /\ Done(w)
  /\ UNCHANGED <<issued, pending, written>>

\* The acting session gets whatever epoch the row has by now; if the row is gone
\* or cannot be read again, the session keeps the epoch it came with.
RestampSession(w) ==
  /\ request[w].pc = "stamp"
  /\ LET u == request[w].uid
         s == request[w].sid
     IN \/ /\ Live(u)
           /\ issued' = issued \cup {[sid |-> s, uid |-> u, epoch |-> users[u].epoch]}
           /\ spared' = [spared EXCEPT ![u] = @ \cup ({s} \cap revoked[u])]
        \/ UNCHANGED <<issued, spared>>
  /\ Done(w)
  /\ UNCHANGED <<users, pending, written, revoked>>

-----------------------------------------------------------------------------
(* The administration of users *)

FirstStep(op) == CASE op = "reset" -> "write" [] op = "toggle" -> "flip" [] OTHER -> "act"

\* UsersPost behind RequireLogin and RequireRole("admin"), up to the first
\* statement of the branch its form asks for.  toggle_active and reset_password
\* act on what they read or write first, the others in one statement.
UsersPost(w, c, op, u) ==
  /\ op \in Ops \cap {"reset", "toggle", "role", "delete", "create"}
  /\ request[w] = Idle
  /\ c \in issued /\ Accepts(c) /\ IsActiveAdmin(c.uid)
  /\ NotOneself(op, c.uid, u)
  /\ (op = "create") = (users[u].status = "none" /\ u \notin OIDCUsers)
  /\ op = "toggle" => Live(u)
  /\ op # "create" => EpochLeft(u) /\ PasswordLeft(u)
  /\ request' = [request EXCEPT ![w] =
       [pc |-> FirstStep(op), op |-> op, sid |-> c.sid, uid |-> u, by |-> c.uid,
        seen |-> IF op = "toggle" THEN CopyOf(u) ELSE NothingSeen]]
  /\ UNCHANGED <<users, issued, pending, written, revoked, spared>>

\* CreateUser or CreateTempUser.  The username is unique: a second INSERT fails.
CreateUser(w) ==
  /\ request[w].pc = "act" /\ request[w].op = "create"
  /\ LET u == request[w].uid IN
       \E role \in Roles :
         users' = IF users[u].status = "none"
                  THEN [users EXCEPT ![u] = NewRow(role)]
                  ELSE users
  /\ Done(w)
  /\ UNCHANGED <<issued, pending, written, revoked, spared>>

UpdateUserRoleOnly(w) ==
  /\ request[w].pc = "act" /\ request[w].op = "role"
  /\ \E role \in Roles : users' = [users EXCEPT ![request[w].uid].role = role]
  /\ Revoke(request[w].uid, {})
  /\ Done(w)
  /\ UNCHANGED <<issued, pending, written>>

\* UpdateUserRole: role and epoch in one statement.
UpdateUserRole(w) ==
  /\ request[w].pc = "act" /\ request[w].op = "role"
  /\ LET u == request[w].uid IN
       /\ EpochLeft(u)
       /\ \E role \in Roles :
            users' = IF Live(u)
                     THEN [users EXCEPT ![u] = [Bumped(@) EXCEPT !.role = role]]
                     ELSE users
       /\ Revoke(u, {})
  /\ Done(w)
  /\ UNCHANGED <<issued, pending, written>>

\* UpdateUserActive: only a deactivation moves the epoch.
Deactivated(row) == [Bumped(row) EXCEPT !.active = FALSE]

\* toggle_active writes the opposite of what it read, and its bound is that of
\* a deactivation, so that an expiry is always still possible.
UpdateUserActive(w) ==
  /\ request[w].pc = "flip"
  /\ LET u == request[w].uid IN
       /\ EpochLeft(u)
       /\ IF request[w].seen.active
          THEN /\ users' = IF Live(u) THEN [users EXCEPT ![u] = Deactivated(@)] ELSE users
               /\ Revoke(u, {})
          ELSE /\ users' = IF Live(u) THEN [users EXCEPT ![u].active = TRUE] ELSE users
               /\ UNCHANGED <<revoked, spared>>
  /\ Done(w)
  /\ UNCHANGED <<issued, pending, written>>

\* DeleteUser: the id is gone for good.
DeleteUser(w) ==
  /\ request[w].pc = "act" /\ request[w].op = "delete"
  /\ LET u == request[w].uid IN
       /\ users' = IF Live(u) THEN [users EXCEPT ![u].status = "deleted"] ELSE users
       /\ Revoke(u, {})
  /\ Done(w)
  /\ UNCHANGED <<issued, pending, written>>

-----------------------------------------------------------------------------
(* Time and failure *)

\* expires_at of a temporary user passes.
Lapse(u) ==
  /\ u \in TempUsers /\ Live(u) /\ ~users[u].lapsed
  /\ users' = [users EXCEPT ![u].lapsed = TRUE]
  /\ UNCHANGED <<issued, pending, request, written, revoked, spared>>

OverdueOnce ==
  {u \in TempUsers : /\ Live(u) /\ users[u].active /\ users[u].lapsed
                     /\ users[u].epoch = 0}
Overdue == {u \in TempUsers : Live(u) /\ users[u].active /\ users[u].lapsed}

\* ExpireOverdueTempUsers, every 60 seconds, one statement for all rows.
ExpireOverdueTempUsers ==
  /\ Overdue # {}
  /\ users' = [u \in Users |-> IF u \in Overdue THEN Deactivated(users[u]) ELSE users[u]]
  /\ revoked' = [u \in Users |->
       IF u \in Overdue THEN revoked[u] \cup LoginsOf(u) ELSE revoked[u]]
  /\ spared' = [u \in Users |->
       IF u \in Overdue THEN spared[u] \ LoginsOf(u) ELSE spared[u]]
  /\ UNCHANGED <<issued, pending, request, written>>

\* The process restarts: the requests under way are lost between two
\* statements, tables and cookies are not.
Restart ==
  /\ \E w \in Workers : request[w] # Idle
  /\ request' = [w \in Workers |-> Idle]
  /\ UNCHANGED <<users, issued, pending, written, revoked, spared>>

-----------------------------------------------------------------------------
(* The specification *)

Init ==
  /\ users = [u \in Users |->
       [status |-> IF u \in Existing THEN "live" ELSE "none",
        active |-> u \in Existing,
        role |-> IF u \in Admins THEN "admin" ELSE "viewer",
        epoch |-> 0, pw |-> 0, legacy |-> u \in LegacyUsers, lapsed |-> FALSE]]
  /\ issued = {} /\ pending = {}
  /\ request = [w \in Workers |-> Idle]
  /\ written = [u \in Users |-> 0]
  /\ revoked = [u \in Users |-> {}]
  /\ spared = [u \in Users |-> {}]

Arrive(w) ==
  \/ \E u \in Users, s \in Sids : LoginPost(w, u, s)
  \/ \E p \in pending : LoginPost2FA(w, p)
  \/ \E u \in Users, role \in Roles : UpsertOIDCUser(w, u, role)
  \/ \E c \in issued : ProfilePost(w, c)
  \/ \E u \in Users : ResetPasswordPost(w, u)
  \/ \E c \in issued, op \in Ops, u \in Users : UsersPost(w, c, op, u)

Statement(w) ==
  \/ RehashPassword(w) \/ SavePending(w) \/ CompleteLogin(w)
  \/ \E s \in Sids : OIDCCallback(w, s)
  \/ VerifyCurrent(w) \/ UpdateUserPassword(w) \/ BumpAfterPassword(w)
  \/ RestampSession(w)
  \/ CreateUser(w) \/ UpdateUserRole(w) \/ UpdateUserActive(w) \/ DeleteUser(w)

Next ==
  \/ \E w \in Workers : Arrive(w) \/ Statement(w)
  \/ \E c \in issued : Logout(c)
  \/ \E p \in pending : PendingEnds(p)
  \/ \E u \in Users : Lapse(u)
  \/ ExpireOverdueTempUsers
  \/ Restart

Spec == Init /\ [][Next]_vars

\* The ticker of main() never stops: a panic in it is recovered by safeGo and
\* ends the goroutine, but the statement it runs cannot panic.
FairSpec == Spec /\ WF_vars(ExpireOverdueTempUsers)

-----------------------------------------------------------------------------
(* Properties *)

\* A session that a logout, a password reset, a role change, a deactivation, a
\* deletion or an expiry has ended is not accepted again, wherever its login
\* was at that moment, unless its epoch was read again since (a second factor
\* or a re-stamp) or the bump itself failed.
RevokedStaysOut ==
  \A c \in issued : Accepts(c) /\ c.sid \in revoked[c.uid] => c.sid \in spared[c.uid]

\* A cookie that is refused is refused for ever: reactivating the user does not
\* bring it back, nor does any later value of the epoch.
DeadStaysDead ==
  [][\A c \in issued : ~Accepts(c) /\ Accepts(c)' => c.sid \in spared'[c.uid]]_vars

ActiveAdmins == {u \in Users : IsActiveAdmin(u)}

\* The last active administrator can be lost to a request only if that request
\* was let in for somebody who has stopped being one meanwhile: two
\* administrators acting on each other.  (A role can also follow the identity
\* provider, and a temporary administrator expires.)
LastAdminFallsToStaleActor ==
  [][ActiveAdmins # {} /\ ActiveAdmins' = {} =>
       \/ \E w \in Workers : /\ request[w].pc \in {"act", "flip"} /\ request'[w] = Idle
                             /\ request[w].by \notin ActiveAdmins
       \/ \E u \in ActiveAdmins : u \in OIDCUsers \cup TempUsers]_vars

\* A temporary user whose time is over is shut out, however often an
\* administrator switches the account on again.
LapsedIsShutOut ==
  \A u \in TempUsers :
    (Live(u) /\ users[u].lapsed /\ users[u].active) ~> ~(Live(u) /\ users[u].active)

\* The cookies whose epoch is that of the row: what a list of sessions would
\* hold.  A row that is switched off refuses them without striking them out.
InForce == {c \in issued : Live(c.uid) /\ c.epoch = users[c.uid].epoch}

Registry == INSTANCE SessionRegistry WITH
  in <- InForce, out <- issued \ InForce

\* The epoch does what a list of sessions would: whatever ends sessions ends all
\* the cookies of the user in one step, no cookie that was ended is accepted
\* again, and nothing else ends one (ValidateSession, BumpSessionEpoch).
ActsAsRegistry == Registry!Spec

\* What makes RevokedStaysOut inductive.  An epoch that a cookie or a login
\* under way took from the row is never ahead of it, and when it is still that
\* of the row the login was neither revoked nor of an inactive user, or it was
\* spared.
Fresh(u, s, e) ==
  /\ users[u].status # "none" /\ e <= users[u].epoch
  /\ Live(u) /\ e = users[u].epoch /\ (s \in revoked[u] \/ ~users[u].active)
       => s \in spared[u]

CookiesFresh == \A c \in issued : Fresh(c.uid, c.sid, c.epoch)

LoginsFresh ==
  \A w \in Workers : request[w].pc \in {"rehash", "pend", "mint"} =>
    Fresh(request[w].uid, request[w].sid, request[w].seen.epoch)

\* A change of one's own password is sent by a session with a cookie, and once
\* the user is inactive that session is among the revoked ones.
OwnChange(w) == request[w].pc \in {"verify", "write", "bump", "stamp"}
                  /\ request[w].op = "profile"

OwnChangesRevoked ==
  \A w \in Workers :
    /\ request[w].pc \in {"verify", "stamp"} => request[w].op = "profile"
    /\ OwnChange(w) =>
         /\ \E c \in issued : c.sid = request[w].sid /\ c.uid = request[w].uid
         /\ Live(request[w].uid) /\ ~users[request[w].uid].active
              => request[w].sid \in revoked[request[w].uid]

\* The inductive invariant of the session epoch.
SessionInv == CookiesFresh /\ LoginsFresh /\ OwnChangesRevoked

\* What LastAdminFallsToStaleActor rests on: no administrator's request comes to
\* the statement that may take the own row out of the administrators.
ActsOnOthers ==
  \A w \in Workers : request[w].pc \in {"act", "flip"} => request[w].by # request[w].uid

\* No session outlives what was meant to end it ("every session predating it
\* dies", password_reset.go; "Revokes the user's other sessions", users.go).
NoSessionOutlivesRevocation ==
  \A c \in issued : Accepts(c) => c.sid \notin revoked[c.uid]
=============================================================================
