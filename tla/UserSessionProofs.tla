------------------------- MODULE UserSessionProofs -------------------------
(* Theorems about UserSession, for any number of users, requests and logins, *)
(* and about the casts of MCSessions, which do nothing else.                 *)
EXTENDS MCSessions, TLAPS

-----------------------------------------------------------------------------
(* Types *)

\* The request at a statement has the fields that statement uses.
LEMMA BusyRequest ==
  ASSUME TypeOK, NEW w \in Workers
  PROVE  /\ request[w].pc \in PCs \cup {"idle"}
         /\ request[w].pc \in PCs => request[w].uid \in Users /\ request[w].op \in OpKinds
         /\ request[w].pc \in {"rehash", "pend", "mint", "verify", "stamp", "flip", "act"}
              => request[w] \in Busy
         /\ request[w].pc \in PCs /\ request[w].op \notin {"token", "oidc"}
              => request[w] \in Busy
  BY DEF TypeOK, Request, Busy, Anonymous, Oidc, Idle, PCs, OpKinds

LEMMA CopyType ==
  ASSUME TypeOK, NEW u \in Users
  PROVE  CopyOf(u) \in Seen
  BY DEF TypeOK, CopyOf, Seen, Row

LEMMA LoginsOfType ==
  ASSUME TypeOK, NEW u \in Users
  PROVE  LoginsOf(u) \subseteq Sids
  BY BusyRequest DEF TypeOK, LoginsOf, Cookie, Busy

\* What the epoch bumps make of a row.
LEMMA BumpedRow ==
  ASSUME NEW row \in Row
  PROVE  /\ Bumped(row) \in Row
         /\ Bumped(row).epoch = row.epoch + 1
         /\ Bumped(row).status = row.status
         /\ Deactivated(row) \in Row
         /\ Deactivated(row).epoch = row.epoch + 1
         /\ Deactivated(row).status = row.status
         /\ \A role \in Roles : /\ [Bumped(row) EXCEPT !.role = role] \in Row
                                /\ [Bumped(row) EXCEPT !.role = role].epoch = row.epoch + 1
                                /\ [Bumped(row) EXCEPT !.role = role].status = row.status
<1>1. Bumped(row) \in Row /\ Bumped(row).epoch = row.epoch + 1 /\ Bumped(row).status = row.status
  BY DEF Bumped, Row
<1> QED
  BY <1>1 DEF Deactivated, Row

LEMMA BumpType ==
  ASSUME TypeOK, NEW u \in Users, NEW keep, BumpSessionEpoch(u, keep) \/ BumpFails(u, keep)
  PROVE  /\ users' \in [Users -> Row]
         /\ revoked' \in [Users -> SUBSET Sids]
         /\ spared' \in [Users -> SUBSET Sids]
<1>1. Bumped(users[u]) \in Row
  BY BumpedRow DEF TypeOK
<1> QED
  BY <1>1, LoginsOfType DEF TypeOK, BumpSessionEpoch, BumpFails, Revoke

LEMMA TypeInit == Init => TypeOK
  BY SessionAssumption DEF SessionAssumption, Init, TypeOK, Row, Roles, Request, Idle

LEMMA TypeStep == TypeOK /\ [Next]_vars => TypeOK'
<1> SUFFICES ASSUME TypeOK, [Next]_vars PROVE TypeOK'
  OBVIOUS
<1> USE DEF TypeOK
<1>1. ASSUME NEW w \in Workers, NEW u \in Users, NEW s \in Sids, LoginPost(w, u, s)
      PROVE  TypeOK'
  BY <1>1, CopyType DEF LoginPost, AfterPassword, Request, Busy, PCs, OpKinds
<1>2. ASSUME NEW w \in Workers, RehashPassword(w) PROVE TypeOK'
  <2>1. request[w] \in Busy
    BY <1>2, BusyRequest DEF RehashPassword, PCs
  <2>2. request' \in [Workers -> Request]
    BY <1>2, <2>1 DEF RehashPassword, Goto, AfterPassword, Request, Busy, PCs
  <2>3. users' \in [Users -> Row]
    BY <1>2, <2>1 DEF RehashPassword, Row, Busy, Seen
  <2> QED
    BY <1>2, <2>2, <2>3 DEF RehashPassword
<1>3. ASSUME NEW w \in Workers, SavePending(w) PROVE TypeOK'
  BY <1>3, BusyRequest DEF SavePending, Done, Request, Busy, PCs
<1>4. ASSUME NEW p \in pending, PendingEnds(p) PROVE TypeOK'
  BY <1>4 DEF PendingEnds
<1>5. ASSUME NEW w \in Workers, NEW p \in pending, LoginPost2FA(w, p) PROVE TypeOK'
  BY <1>5, CopyType DEF LoginPost2FA, Request, Busy, PCs, OpKinds
<1>6. ASSUME NEW w \in Workers, NEW u \in Users, NEW role \in Roles, UpsertOIDCUser(w, u, role)
      PROVE  TypeOK'
  <2>1. NewRow(role) \in Row
    BY DEF NewRow, Row
  <2>2. users' \in [Users -> Row]
    BY <1>6, <2>1 DEF UpsertOIDCUser, Row
  <2> QED
    BY <1>6, <2>2 DEF UpsertOIDCUser, Request, Oidc
<1>7. ASSUME NEW w \in Workers, NEW s \in Sids, OIDCCallback(w, s) PROVE TypeOK'
  <2>1. request[w].uid \in Users
    BY <1>7, BusyRequest DEF OIDCCallback, PCs
  <2> QED
    BY <1>7, <2>1, CopyType DEF OIDCCallback, Done, Request, Busy, PCs, OpKinds
<1>8. ASSUME NEW w \in Workers, CompleteLogin(w) PROVE TypeOK'
  BY <1>8, BusyRequest DEF CompleteLogin, Done, Request, Busy, Seen, Cookie, PCs
<1>9. ASSUME NEW c \in issued, Logout(c) PROVE TypeOK'
  <2>1. c.uid \in Users
    BY DEF Cookie
  <2> QED
    BY <1>9, <2>1, BumpType DEF Logout
<1>10. ASSUME NEW w \in Workers, NEW c \in issued, ProfilePost(w, c) PROVE TypeOK'
  BY <1>10 DEF ProfilePost, Cookie, Request, Busy, Seen, NothingSeen, PCs, OpKinds
<1>11. ASSUME NEW w \in Workers, VerifyCurrent(w) PROVE TypeOK'
  BY <1>11, BusyRequest DEF VerifyCurrent, Goto, Done, Request, Busy, PCs
<1>12. ASSUME NEW w \in Workers, NEW u \in Users, ResetPasswordPost(w, u) PROVE TypeOK'
  BY <1>12 DEF ResetPasswordPost, Request, Anonymous
<1>13. ASSUME NEW w \in Workers, UpdateUserPassword(w) PROVE TypeOK'
  <2>1. request[w].uid \in Users
    BY <1>13, BusyRequest DEF UpdateUserPassword, PCs
  <2>2. users' \in [Users -> Row]
    BY <1>13, <2>1 DEF UpdateUserPassword, Row
  <2>3. request' \in [Workers -> Request]
    BY <1>13 DEF UpdateUserPassword, Goto, Request, Busy, Anonymous, Oidc, Idle, PCs
  <2> QED
    BY <1>13, <2>1, <2>2, <2>3 DEF UpdateUserPassword
<1>14. ASSUME NEW w \in Workers, BumpAfterPassword(w) PROVE TypeOK'
  <2>1. request[w].uid \in Users
    BY <1>14, BusyRequest DEF BumpAfterPassword, PCs
  <2>2. request[w].op = "profile" => request[w] \in Busy
    BY <1>14, BusyRequest DEF BumpAfterPassword, PCs
  <2>3. request' \in [Workers -> Request]
    BY <1>14, <2>2 DEF BumpAfterPassword, Goto, Done, Request, Busy, PCs
  <2> QED
    BY <1>14, <2>1, <2>3, BumpType DEF BumpAfterPassword
<1>15. ASSUME NEW w \in Workers, RestampSession(w) PROVE TypeOK'
  BY <1>15, BusyRequest DEF RestampSession, Done, Request, Busy, Cookie, Row, PCs
<1>16. ASSUME NEW w \in Workers, NEW c \in issued, NEW op \in Ops, NEW u \in Users,
              UsersPost(w, c, op, u)
       PROVE  TypeOK'
  <2>1. op \in OpKinds /\ FirstStep(op) \in PCs
    BY <1>16 DEF UsersPost, FirstStep, PCs, OpKinds
  <2>2. NothingSeen \in Seen /\ CopyOf(u) \in Seen
    BY CopyType DEF NothingSeen, Seen
  <2> QED
    BY <1>16, <2>1, <2>2 DEF UsersPost, Request, Busy, Cookie
<1>17. ASSUME NEW w \in Workers, CreateUser(w) PROVE TypeOK'
  <2>1. \A role \in Roles : NewRow(role) \in Row
    BY DEF NewRow, Row, Roles
  <2> QED
    BY <1>17, <2>1 DEF CreateUser, Done, Request
<1>18. ASSUME NEW w \in Workers, UpdateUserRole(w) PROVE TypeOK'
  <2>1. request[w].uid \in Users
    BY <1>18, BusyRequest DEF UpdateUserRole, PCs
  <2>2. users' \in [Users -> Row]
    BY <1>18, <2>1, BumpedRow DEF UpdateUserRole
  <2> QED
    BY <1>18, <2>1, <2>2, LoginsOfType DEF UpdateUserRole, Revoke, Done, Request
<1>19. ASSUME NEW w \in Workers, UpdateUserActive(w) PROVE TypeOK'
  <2>1. request[w].uid \in Users
    BY <1>19, BusyRequest DEF UpdateUserActive, PCs
  <2>2. users' \in [Users -> Row]
    <3>1. Deactivated(users[request[w].uid]) \in Row
      BY <2>1, BumpedRow
    <3>2. [users[request[w].uid] EXCEPT !.active = TRUE] \in Row
      <4>1. users[request[w].uid] \in Row
        BY <2>1
      <4> QED
        BY <4>1, Zenon DEF Row
    <3> QED
      BY <1>19, <2>1, <3>1, <3>2 DEF UpdateUserActive
  <2> QED
    BY <1>19, <2>1, <2>2, LoginsOfType DEF UpdateUserActive, Revoke, Done, Request
<1>20. ASSUME NEW w \in Workers, DeleteUser(w) PROVE TypeOK'
  <2>1. request[w].uid \in Users
    BY <1>20, BusyRequest DEF DeleteUser, PCs
  <2>2. users' \in [Users -> Row]
    BY <1>20, <2>1 DEF DeleteUser, Row
  <2> QED
    BY <1>20, <2>1, <2>2, LoginsOfType DEF DeleteUser, Revoke, Done, Request
<1>21. ASSUME NEW u \in Users, Lapse(u) PROVE TypeOK'
  BY <1>21 DEF Lapse, Row
<1>22. ASSUME ExpireOverdueTempUsers PROVE TypeOK'
  <2>1. \A u \in Users : Deactivated(users[u]) \in Row
    BY BumpedRow
  <2> QED
    BY <1>22, <2>1, LoginsOfType DEF ExpireOverdueTempUsers
<1>23. ASSUME Restart PROVE TypeOK'
  BY <1>23 DEF Restart, Request
<1>24. CASE UNCHANGED vars
  BY <1>24 DEF vars
<1> QED
  BY <1>1, <1>2, <1>3, <1>4, <1>5, <1>6, <1>7, <1>8, <1>9, <1>10, <1>11, <1>12, <1>13,
     <1>14, <1>15, <1>16, <1>17, <1>18, <1>19, <1>20, <1>21, <1>22, <1>23, <1>24
  DEF Next, Arrive, Statement

\* Every state of the model has the shape the code gives it, whatever the
\* number of users, requests and cookies and whatever the bounds.
THEOREM TypeCorrect == Spec => []TypeOK
  BY TypeInit, TypeStep, PTL DEF Spec

-----------------------------------------------------------------------------
(* What one step may do to a row and to the history of its revocations *)

\* A row never goes back: it is gone, or its epoch has moved, or it has not
\* become inactive and nobody's login was revoked without being spared.
RowStep(u) ==
  users[u].status # "none" =>
    /\ users'[u].status # "none" /\ (users'[u].status = "live" => Live(u))
    /\ users'[u].epoch >= users[u].epoch
    /\ revoked[u] \subseteq revoked'[u]
    /\ users[u].active /\ ~users'[u].active => LoginsOf(u) \subseteq revoked'[u]
    /\ \/ users'[u].status = "deleted"
       \/ users'[u].epoch > users[u].epoch
       \/ /\ users[u].active => users'[u].active
          /\ spared[u] \subseteq spared'[u]
          /\ revoked'[u] \subseteq revoked[u] \cup spared'[u]

LEMMA RowsStay ==
  ASSUME TypeOK, UNCHANGED users, UNCHANGED revoked,
         \A u \in Users : spared[u] \subseteq spared'[u], NEW u \in Users
  PROVE  RowStep(u)
  BY DEF TypeOK, RowStep, Live, Row

\* A bump of user v, as BumpSessionEpoch and the two UPDATEs that contain one do it.
LEMMA RowsBump ==
  ASSUME TypeOK, NEW v \in Users, NEW keep,
         \/ keep = {}
         \/ Live(v) => users'[v].active = users[v].active,
         \A u \in Users \ {v} : users'[u] = users[u],
         IF Live(v) THEN users'[v].status = "live" /\ users'[v].epoch = users[v].epoch + 1
                    ELSE users'[v] = users[v],
         Revoke(v, keep), NEW u \in Users
  PROVE  RowStep(u)
<1> USE DEF TypeOK, Row
<1>1. CASE u # v
  BY <1>1 DEF RowStep, Live, Revoke
<1>2. CASE u = v
  BY <1>2 DEF RowStep, Live, Revoke
<1> QED
  BY <1>1, <1>2

LEMMA RowsBumpSession ==
  ASSUME TypeOK, NEW v \in Users, NEW keep, BumpSessionEpoch(v, keep) \/ BumpFails(v, keep),
         NEW u \in Users
  PROVE  RowStep(u)
<1>1. CASE BumpSessionEpoch(v, keep)
  <2>1. /\ Bumped(users[v]).epoch = users[v].epoch + 1
        /\ Bumped(users[v]).status = users[v].status
        /\ Bumped(users[v]).active = users[v].active
    BY DEF TypeOK, Row, Bumped
  <2> QED
    BY <1>1, <2>1, RowsBump DEF BumpSessionEpoch, TypeOK, Live
<1>2. CASE BumpFails(v, keep)
  BY <1>2 DEF BumpFails, RowStep, TypeOK, Row, Live
<1> QED
  BY <1>1, <1>2

LEMMA RowsStep ==
  ASSUME TypeOK, [Next]_vars, NEW u \in Users
  PROVE  RowStep(u)
<1> USE DEF TypeOK
<1>1. ASSUME NEW w \in Workers, RehashPassword(w) PROVE RowStep(u)
  BY <1>1, BusyRequest DEF RehashPassword, RowStep, Live, Row, PCs
<1>2. ASSUME NEW w \in Workers, NEW p \in pending, LoginPost2FA(w, p) PROVE RowStep(u)
  BY <1>2, RowsStay DEF LoginPost2FA
<1>3. ASSUME NEW w \in Workers, NEW v \in Users, NEW role \in Roles, UpsertOIDCUser(w, v, role)
      PROVE  RowStep(u)
  BY <1>3 DEF UpsertOIDCUser, RowStep, Live, Row
<1>4. ASSUME NEW c \in issued, Logout(c) PROVE RowStep(u)
  <2>1. c.uid \in Users
    BY DEF Cookie
  <2> QED
    BY <1>4, <2>1, RowsBumpSession DEF Logout
<1>5. ASSUME NEW w \in Workers, UpdateUserPassword(w) PROVE RowStep(u)
  BY <1>5, BusyRequest DEF UpdateUserPassword, RowStep, Live, Row, PCs
<1>6. ASSUME NEW w \in Workers, BumpAfterPassword(w) PROVE RowStep(u)
  <2>1. request[w].uid \in Users
    BY <1>6, BusyRequest DEF BumpAfterPassword, PCs
  <2> QED
    BY <1>6, <2>1, RowsBumpSession DEF BumpAfterPassword
<1>7. ASSUME NEW w \in Workers, RestampSession(w) PROVE RowStep(u)
  <2>1. request[w].uid \in Users
    BY <1>7, BusyRequest DEF RestampSession, PCs
  <2> QED
    BY <1>7, <2>1, RowsStay DEF RestampSession
<1>8. ASSUME NEW w \in Workers, CreateUser(w) PROVE RowStep(u)
  BY <1>8, BusyRequest DEF CreateUser, RowStep, Live, Row, PCs
<1>9. ASSUME NEW w \in Workers, UpdateUserRole(w) PROVE RowStep(u)
  <2>1. request[w].uid \in Users
    BY <1>9, BusyRequest DEF UpdateUserRole, PCs
  <2>2. \A role \in Roles :
          /\ [Bumped(users[request[w].uid]) EXCEPT !.role = role].epoch
               = users[request[w].uid].epoch + 1
          /\ [Bumped(users[request[w].uid]) EXCEPT !.role = role].status
               = users[request[w].uid].status
    BY <2>1, BumpedRow
  <2> QED
    BY <1>9, <2>1, <2>2, RowsBump DEF UpdateUserRole, Live
<1>10. ASSUME NEW w \in Workers, UpdateUserActive(w) PROVE RowStep(u)
  <2>1. request[w].uid \in Users
    BY <1>10, BusyRequest DEF UpdateUserActive, PCs
  <2>2. /\ Deactivated(users[request[w].uid]).epoch = users[request[w].uid].epoch + 1
        /\ Deactivated(users[request[w].uid]).status = users[request[w].uid].status
    BY <2>1, BumpedRow
  <2>3. CASE request[w].seen.active
    BY <1>10, <2>1, <2>2, <2>3, RowsBump DEF UpdateUserActive, Live
  <2>4. CASE ~request[w].seen.active
    BY <1>10, <2>1, <2>4 DEF UpdateUserActive, RowStep, Live, Row
  <2> QED
    BY <2>3, <2>4
<1>11. ASSUME NEW w \in Workers, DeleteUser(w) PROVE RowStep(u)
  BY <1>11, BusyRequest DEF DeleteUser, Revoke, RowStep, Live, Row, PCs
<1>12. ASSUME NEW v \in Users, Lapse(v) PROVE RowStep(u)
  BY <1>12 DEF Lapse, RowStep, Live, Row
<1>13. ASSUME ExpireOverdueTempUsers PROVE RowStep(u)
  <2>1. /\ Deactivated(users[u]).epoch = users[u].epoch + 1
        /\ Deactivated(users[u]).status = users[u].status
    BY BumpedRow
  <2>2. CASE u \in Overdue
    BY <1>13, <2>1, <2>2 DEF ExpireOverdueTempUsers, Overdue, RowStep, Live, Row
  <2>3. CASE u \notin Overdue
    BY <1>13, <2>3 DEF ExpireOverdueTempUsers, RowStep, Live, Row
  <2> QED
    BY <2>2, <2>3
<1>14. CASE UNCHANGED <<users, revoked, spared>>
  BY <1>14, RowsStay
<1> QED
  BY <1>1, <1>2, <1>3, <1>4, <1>5, <1>6, <1>7, <1>8, <1>9, <1>10, <1>11, <1>12, <1>13, <1>14
  DEF Next, Arrive, Statement, vars, LoginPost, SavePending, PendingEnds, OIDCCallback,
      CompleteLogin, ProfilePost, VerifyCurrent, ResetPasswordPost, UsersPost, Restart

\* An epoch that was fresh stays fresh.
LEMMA FreshStays ==
  ASSUME TypeOK, TypeOK', NEW u \in Users, NEW s \in Sids, NEW e \in Nat,
         RowStep(u), Fresh(u, s, e)
  PROVE  Fresh(u, s, e)'
<1>1. /\ users[u].epoch \in Nat /\ users'[u].epoch \in Nat
      /\ users'[u].status # "deleted" \/ ~Live(u)'
  BY DEF TypeOK, Row, Live
<1>2. users'[u].status # "none" /\ e <= users'[u].epoch
  BY <1>1 DEF RowStep, Fresh
<1>3. ASSUME Live(u)', e = users'[u].epoch, s \in revoked'[u] \/ ~users'[u].active
      PROVE  s \in spared'[u]
  <2>1. Live(u) /\ e = users[u].epoch
    BY <1>1, <1>3 DEF RowStep, Fresh, Live
  <2>2. /\ users[u].active => users'[u].active
        /\ spared[u] \subseteq spared'[u]
        /\ revoked'[u] \subseteq revoked[u] \cup spared'[u]
    BY <1>1, <1>3, <2>1 DEF RowStep, Fresh
  <2>3. s \in revoked[u] \/ ~users[u].active => s \in spared[u]
    BY <2>1 DEF Fresh
  <2> QED
    BY <1>3, <2>2, <2>3, Zenon
<1> QED
  BY <1>2, <1>3 DEF Fresh

-----------------------------------------------------------------------------
(* The session epoch *)

LEMMA SessionInit == Init => SessionInv
  BY DEF Init, SessionInv, CookiesFresh, LoginsFresh, OwnChangesRevoked, OwnChange, Idle

\* Only two actions mint a cookie: a login and the re-stamp of one's own change.
LEMMA CookiesStep ==
  ASSUME TypeOK, TypeOK', SessionInv, [Next]_vars
  PROVE  CookiesFresh'
<1>1. ASSUME NEW c \in issued PROVE Fresh(c.uid, c.sid, c.epoch)'
  <2>1. c.uid \in Users /\ c.sid \in Sids /\ c.epoch \in Nat
    BY DEF TypeOK, Cookie
  <2>2. Fresh(c.uid, c.sid, c.epoch)
    BY DEF SessionInv, CookiesFresh
  <2> QED
    BY <2>1, <2>2, RowsStep, FreshStays
<1>2. ASSUME NEW w \in Workers, CompleteLogin(w) PROVE CookiesFresh'
  <2>1. request[w] \in Busy
    BY <1>2, BusyRequest DEF CompleteLogin, PCs
  <2>2. PICK c \in Cookie : /\ c.sid = request[w].sid /\ c.uid = request[w].uid
                             /\ c.epoch = request[w].seen.epoch
                             /\ issued' = issued \cup {c}
    BY <1>2, <2>1 DEF CompleteLogin, Busy, Seen, Cookie
  <2>3. Fresh(c.uid, c.sid, c.epoch)
    BY <1>2, <2>2 DEF SessionInv, LoginsFresh, CompleteLogin
  <2>4. Fresh(c.uid, c.sid, c.epoch)'
    BY <1>2, <2>3 DEF CompleteLogin, Fresh, Live
  <2> QED
    BY <1>1, <2>2, <2>4 DEF CookiesFresh
<1>3. ASSUME NEW w \in Workers, RestampSession(w) PROVE CookiesFresh'
  <2>1. request[w] \in Busy
    BY <1>3, BusyRequest DEF RestampSession, PCs
  <2> DEFINE Stamped == [sid |-> request[w].sid, uid |-> request[w].uid,
                         epoch |-> users[request[w].uid].epoch]
  <2>2. CASE issued' = issued /\ spared' = spared
    BY <1>1, <1>3, <2>2 DEF RestampSession, CookiesFresh
  <2>3. CASE /\ Live(request[w].uid) /\ issued' = issued \cup {Stamped}
             /\ spared' = [spared EXCEPT ![request[w].uid]
                             = @ \cup ({request[w].sid} \cap revoked[request[w].uid])]
    <3>1. PICK u \in Users, s \in Sids : u = request[w].uid /\ s = request[w].sid
      BY <2>1 DEF Busy
    <3>2. PICK c \in Cookie : /\ c.sid = s /\ c.uid = u /\ c.epoch = users[u].epoch
                               /\ issued' = issued \cup {c}
      BY <1>3, <2>3, <3>1 DEF RestampSession, TypeOK, Row, Cookie
    <3>3. /\ spared'[u] = spared[u] \cup ({s} \cap revoked[u])
          /\ users' = users /\ revoked' = revoked
      BY <1>3, <2>3, <3>1 DEF RestampSession, TypeOK
    <3>4. ~users[u].active => s \in revoked[u]
      BY <1>3, <2>3, <3>1 DEF RestampSession, SessionInv, OwnChangesRevoked, OwnChange
    <3>5. Fresh(c.uid, c.sid, c.epoch)'
      BY <2>3, <3>1, <3>2, <3>3, <3>4 DEF Fresh, Live, TypeOK, Row
    <3> QED
      BY <1>1, <3>2, <3>5 DEF CookiesFresh
  <2> QED
    BY <1>3, <2>2, <2>3 DEF RestampSession
<1>4. CASE issued' = issued
  BY <1>1, <1>4 DEF CookiesFresh
<1>5. ASSUME NEW w \in Workers, Arrive(w) PROVE CookiesFresh'
  BY <1>4, <1>5 DEF Arrive, LoginPost, LoginPost2FA, UpsertOIDCUser, ProfilePost,
     ResetPasswordPost, UsersPost
<1>6. ASSUME NEW w \in Workers, Statement(w) PROVE CookiesFresh'
  BY <1>2, <1>3, <1>4, <1>6 DEF Statement, RehashPassword, SavePending, OIDCCallback,
     VerifyCurrent, UpdateUserPassword, BumpAfterPassword, CreateUser, UpdateUserRole,
     UpdateUserActive, DeleteUser
<1> QED
  BY <1>4, <1>5, <1>6 DEF Next, vars, Logout, PendingEnds, Lapse, ExpireOverdueTempUsers, Restart

\* A login under way copied the epoch from a row it found live and active, under
\* a name nobody had used, or after a second factor that spared it.
LEMMA LoginsStep ==
  ASSUME TypeOK, TypeOK', SessionInv, [Next]_vars
  PROVE  LoginsFresh'
<1> DEFINE Reading(w) == request[w].pc \in {"rehash", "pend", "mint"}
           Kept(w) == Fresh(request[w].uid, request[w].sid, request[w].seen.epoch)
<1>1. ASSUME NEW w \in Workers, Reading(w),
             request'[w].uid = request[w].uid, request'[w].sid = request[w].sid,
             request'[w].seen = request[w].seen
      PROVE  Kept(w)'
  <2>1. PICK u \in Users, s \in Sids, e \in Nat :
          u = request[w].uid /\ s = request[w].sid /\ e = request[w].seen.epoch
    BY <1>1, BusyRequest DEF PCs, Busy, Seen
  <2>2. Fresh(u, s, e)
    BY <1>1, <2>1 DEF SessionInv, LoginsFresh
  <2>3. Fresh(u, s, e)'
    BY <2>2, RowsStep, FreshStays
  <2> QED
    BY <1>1, <2>1, <2>3
<1>2. ASSUME NEW w \in Workers, request'[w] = request[w], Reading(w)' PROVE Kept(w)'
  BY <1>1, <1>2
<1>3. ASSUME NEW w \in Workers, NEW u \in Users, NEW s \in Sids, LoginPost(w, u, s)
      PROVE  LoginsFresh'
  <2>1. s \notin revoked[u]
    BY <1>3 DEF LoginPost, Taken
  <2>2. Kept(w)'
    BY <1>3, <2>1 DEF LoginPost, CopyOf, Fresh, Live, TypeOK, Row
  <2> QED
    BY <1>2, <1>3, <2>2 DEF LoginPost, LoginsFresh, TypeOK
<1>4. ASSUME NEW w \in Workers, NEW p \in pending, LoginPost2FA(w, p) PROVE LoginsFresh'
  <2>1. p.uid \in Users
    BY DEF TypeOK
  <2>2. Kept(w)'
    BY <1>4, <2>1 DEF LoginPost2FA, CopyOf, Fresh, Live, TypeOK, Row
  <2> QED
    BY <1>2, <1>4, <2>2 DEF LoginPost2FA, LoginsFresh, TypeOK
<1>5. ASSUME NEW w \in Workers, NEW s \in Sids, OIDCCallback(w, s) PROVE LoginsFresh'
  <2>1. request[w].uid \in Users
    BY <1>5, BusyRequest DEF OIDCCallback, PCs
  <2>2. s \notin revoked[request[w].uid]
    BY <1>5, <2>1 DEF OIDCCallback, Taken
  <2>3. Reading(w)' => Kept(w)'
    BY <1>5, <2>1, <2>2 DEF OIDCCallback, CopyOf, Fresh, Live, Done, Idle, TypeOK, Row
  <2> QED
    BY <1>2, <1>5, <2>3 DEF OIDCCallback, Done, LoginsFresh, TypeOK
<1>6. ASSUME NEW w \in Workers, RehashPassword(w) PROVE LoginsFresh'
  <2>1. Kept(w)'
    BY <1>1, <1>6, BusyRequest DEF RehashPassword, Goto, TypeOK, Busy, PCs
  <2> QED
    BY <1>2, <1>6, <2>1 DEF RehashPassword, Goto, LoginsFresh, TypeOK
<1>7. ASSUME NEW w \in Workers,
             \/ request' = [request EXCEPT ![w] = Idle]
             \/ /\ request' = [request EXCEPT ![w] = request'[w]]
                /\ request'[w].pc \notin {"rehash", "pend", "mint"}
      PROVE  LoginsFresh'
  BY <1>2, <1>7 DEF LoginsFresh, Idle, TypeOK
<1>8. CASE request' = request
  BY <1>2, <1>8 DEF LoginsFresh
<1>9. CASE Restart
  BY <1>9 DEF Restart, LoginsFresh, Idle
<1>10. ASSUME NEW w \in Workers,
              \/ SavePending(w) \/ CompleteLogin(w) \/ RestampSession(w) \/ CreateUser(w)
              \/ UpdateUserRole(w) \/ UpdateUserActive(w) \/ DeleteUser(w)
       PROVE  LoginsFresh'
  BY <1>7, <1>10 DEF SavePending, CompleteLogin, RestampSession, CreateUser, UpdateUserRole,
     UpdateUserActive, DeleteUser, Done
<1>11. ASSUME NEW w \in Workers,
              \/ VerifyCurrent(w) \/ UpdateUserPassword(w) \/ BumpAfterPassword(w)
       PROVE  LoginsFresh'
  <2>1. \/ request' = [request EXCEPT ![w] = Idle]
        \/ request' = [request EXCEPT ![w].pc = "write"]
        \/ request' = [request EXCEPT ![w].pc = "bump"]
        \/ request' = [request EXCEPT ![w].pc = "stamp"]
    BY <1>11 DEF VerifyCurrent, UpdateUserPassword, BumpAfterPassword, Goto, Done
  <2>2. request[w] \in Busy \cup Anonymous
    BY <1>11 DEF VerifyCurrent, UpdateUserPassword, BumpAfterPassword, TypeOK, Request,
       Oidc, Idle
  <2> QED
    BY <1>7, <2>1, <2>2 DEF TypeOK, Busy, Anonymous
<1>12. ASSUME NEW w \in Workers,
              \/ \E u \in Users, role \in Roles : UpsertOIDCUser(w, u, role)
              \/ \E c \in issued : ProfilePost(w, c)
              \/ \E u \in Users : ResetPasswordPost(w, u)
              \/ \E c \in issued, op \in Ops, u \in Users : UsersPost(w, c, op, u)
       PROVE  LoginsFresh'
  BY <1>7, <1>12 DEF UpsertOIDCUser, ProfilePost, ResetPasswordPost, UsersPost, FirstStep, TypeOK
<1> QED
  BY <1>3, <1>4, <1>5, <1>6, <1>8, <1>9, <1>10, <1>11, <1>12
  DEF Next, Arrive, Statement, vars, Logout, PendingEnds, Lapse, ExpireOverdueTempUsers

\* A change of one's own password starts in an accepted session; whoever
\* deactivates the user meanwhile revokes that session with the others.
LEMMA OwnChangesStep ==
  ASSUME TypeOK, TypeOK', SessionInv, [Next]_vars
  PROVE  OwnChangesRevoked'
<1> DEFINE Ordered(w) == request[w].pc \in {"verify", "stamp"} => request[w].op = "profile"
           Sent(w) == \E c \in issued : c.sid = request[w].sid /\ c.uid = request[w].uid
           Known(w) == Live(request[w].uid) /\ ~users[request[w].uid].active
                         => request[w].sid \in revoked[request[w].uid]
           Good(w) == Ordered(w) /\ (OwnChange(w) => Sent(w) /\ Known(w))
<1>1. issued \subseteq issued'
  <2>1. ASSUME NEW w \in Workers, Arrive(w) PROVE issued \subseteq issued'
    BY <2>1 DEF Arrive, LoginPost, LoginPost2FA, UpsertOIDCUser, ProfilePost,
       ResetPasswordPost, UsersPost
  <2>2. ASSUME NEW w \in Workers, Statement(w) PROVE issued \subseteq issued'
    BY <2>2 DEF Statement, RehashPassword, SavePending, OIDCCallback, CompleteLogin,
       VerifyCurrent, UpdateUserPassword, BumpAfterPassword, RestampSession, CreateUser,
       UpdateUserRole, UpdateUserActive, DeleteUser
  <2> QED
    BY <2>1, <2>2 DEF Next, vars, Logout, PendingEnds, Lapse, ExpireOverdueTempUsers, Restart
<1>2. ASSUME NEW w \in Workers, OwnChange(w), request[w] \in Busy,
             request'[w].uid = request[w].uid, request'[w].sid = request[w].sid
      PROVE  Sent(w)' /\ Known(w)'
  <2>1. PICK u \in Users, s \in Sids : u = request[w].uid /\ s = request[w].sid
    BY <1>2 DEF Busy
  <2>2. PICK c \in issued : c.sid = s /\ c.uid = u
    BY <1>2, <2>1 DEF SessionInv, OwnChangesRevoked
  <2>3. Live(u) /\ ~users[u].active => s \in revoked[u]
    BY <1>2, <2>1 DEF SessionInv, OwnChangesRevoked
  <2>4. s \in LoginsOf(u) /\ users[u].status # "none"
    BY <2>2 DEF LoginsOf, SessionInv, CookiesFresh, Fresh
  <2>5. ASSUME Live(u)', ~users'[u].active PROVE s \in revoked'[u]
    <3>1. Live(u) /\ revoked[u] \subseteq revoked'[u]
      BY <2>4, <2>5, RowsStep DEF RowStep, Live
    <3>2. CASE users[u].active
      BY <2>4, <2>5, <3>2, RowsStep DEF RowStep
    <3>3. CASE ~users[u].active
      BY <2>3, <3>1, <3>3
    <3> QED
      BY <3>2, <3>3
  <2> QED
    BY <1>1, <1>2, <2>1, <2>2, <2>5
<1>3. ASSUME NEW w \in Workers, request'[w] = request[w] PROVE Good(w)'
  <2>1. Ordered(w)' /\ (OwnChange(w)' => OwnChange(w))
    BY <1>3 DEF OwnChange, SessionInv, OwnChangesRevoked
  <2>2. OwnChange(w) => request[w] \in Busy
    BY BusyRequest DEF OwnChange, PCs
  <2> QED
    BY <1>2, <1>3, <2>1, <2>2
<1>4. ASSUME NEW w \in Workers, NEW r, request' = [request EXCEPT ![w] = r],
             r.pc \notin {"verify", "stamp"}, r.pc \in {"write", "bump"} => r.op # "profile"
      PROVE  OwnChangesRevoked'
  <2>1. Good(w)'
    BY <1>4 DEF OwnChange, TypeOK
  <2> QED
    BY <1>3, <1>4, <2>1 DEF OwnChangesRevoked, TypeOK
<1>5. ASSUME NEW w \in Workers, NEW pc \in {"write", "bump", "stamp"},
             request' = [request EXCEPT ![w].pc = pc],
             request[w].pc \in {"verify", "write", "bump"},
             pc = "stamp" => request[w].op = "profile"
      PROVE  OwnChangesRevoked'
  <2>1. request[w].op = "profile" => request[w] \in Busy
    BY <1>5, BusyRequest DEF PCs
  <2>2. CASE request[w].op = "profile"
    <3>1. OwnChange(w) /\ request[w] \in Busy
      BY <1>5, <2>1, <2>2 DEF OwnChange
    <3>2. request'[w].uid = request[w].uid /\ request'[w].sid = request[w].sid
          /\ request'[w].op = "profile"
      BY <1>5, <2>2, <3>1 DEF TypeOK, Busy
    <3>3. Good(w)'
      BY <1>2, <3>1, <3>2
    <3> QED
      BY <1>3, <1>5, <3>3 DEF OwnChangesRevoked, TypeOK
  <2>3. CASE request[w].op # "profile"
    <3>1. request'[w].op # "profile" /\ request'[w].pc = pc
      BY <1>5, <2>1, <2>3, BusyRequest DEF TypeOK, Request, Busy, Anonymous, Oidc, Idle
    <3>2. Good(w)'
      BY <1>5, <2>3, <3>1 DEF OwnChange
    <3> QED
      BY <1>3, <1>5, <3>2 DEF OwnChangesRevoked, TypeOK
  <2> QED
    BY <2>2, <2>3
<1>6. CASE request' = request
  BY <1>3, <1>6 DEF OwnChangesRevoked
<1>7. CASE Restart
  BY <1>7 DEF Restart, OwnChangesRevoked, OwnChange, Idle
<1>8. ASSUME NEW w \in Workers, NEW c \in issued, ProfilePost(w, c) PROVE OwnChangesRevoked'
  <2>1. Good(w)'
    BY <1>8 DEF ProfilePost, Accepts, OwnChange, TypeOK
  <2> QED
    BY <1>3, <1>8, <2>1 DEF ProfilePost, OwnChangesRevoked, TypeOK
<1>9. ASSUME NEW w \in Workers, request' = [request EXCEPT ![w] = Idle]
      PROVE  OwnChangesRevoked'
  BY <1>4, <1>9 DEF Idle
<1>10. ASSUME NEW w \in Workers, Arrive(w) PROVE OwnChangesRevoked'
  BY <1>4, <1>8, <1>10 DEF Arrive, LoginPost, LoginPost2FA, UpsertOIDCUser, ResetPasswordPost,
     UsersPost, FirstStep, AfterPassword
<1>11. ASSUME NEW w \in Workers, RehashPassword(w) PROVE OwnChangesRevoked'
  <2>1. PICK r \in Busy : request' = [request EXCEPT ![w] = r] /\ r.pc \in {"pend", "mint"}
    <3>1. request[w] \in Busy
      BY <1>11, BusyRequest DEF RehashPassword, PCs
    <3>2. /\ [request[w] EXCEPT !.pc = AfterPassword(request[w].uid)] \in Busy
          /\ [request[w] EXCEPT !.pc = AfterPassword(request[w].uid)].pc \in {"pend", "mint"}
      BY <3>1 DEF Busy, PCs, AfterPassword
    <3>3. request' = [request EXCEPT ![w] = [request[w] EXCEPT !.pc = AfterPassword(request[w].uid)]]
      BY <1>11 DEF RehashPassword, Goto, TypeOK
    <3> QED
      BY <3>2, <3>3
  <2> QED
    BY <1>4, <2>1
<1>12. ASSUME NEW w \in Workers, NEW s \in Sids, OIDCCallback(w, s) PROVE OwnChangesRevoked'
  BY <1>4, <1>9, <1>12 DEF OIDCCallback, Done
<1>13. ASSUME NEW w \in Workers,
              VerifyCurrent(w) \/ UpdateUserPassword(w) \/ BumpAfterPassword(w)
       PROVE  OwnChangesRevoked'
  BY <1>5, <1>9, <1>13 DEF VerifyCurrent, UpdateUserPassword, BumpAfterPassword, Goto, Done
<1>14. ASSUME NEW w \in Workers, Statement(w) PROVE OwnChangesRevoked'
  BY <1>9, <1>11, <1>12, <1>13, <1>14 DEF Statement, SavePending, CompleteLogin,
     RestampSession, CreateUser, UpdateUserRole, UpdateUserActive, DeleteUser, Done
<1> QED
  BY <1>6, <1>7, <1>10, <1>14
  DEF Next, vars, Logout, PendingEnds, Lapse, ExpireOverdueTempUsers

\* The inductive invariant: what every cookie and every login under way knows
\* of its row, at every moment of every interleaving.
THEOREM SessionInvariant == Spec => [](TypeOK /\ SessionInv)
<1>1. Init => TypeOK /\ SessionInv
  BY TypeInit, SessionInit
<1>2. TypeOK /\ SessionInv /\ [Next]_vars => (TypeOK /\ SessionInv)'
  BY TypeStep, CookiesStep, LoginsStep, OwnChangesStep DEF SessionInv
<1> QED
  BY <1>1, <1>2, PTL DEF Spec

\* A session that was ended is not accepted again, unless its epoch was read
\* again or the bump failed: ValidateSession's comparison is enough, although
\* no list of sessions is kept and logins are under way while sessions end.
THEOREM RevokedSessionsStayOut == Spec => []RevokedStaysOut
<1>1. TypeOK /\ SessionInv => RevokedStaysOut
  BY DEF SessionInv, CookiesFresh, Fresh, RevokedStaysOut, Accepts
<1> QED
  BY <1>1, SessionInvariant, PTL

\* A cookie that ValidateSession refuses is refused for ever.
THEOREM DeadSessionsStayDead == Spec => DeadStaysDead
<1>1. ASSUME TypeOK, TypeOK', SessionInv, [Next]_vars, NEW c \in issued,
             ~Accepts(c), Accepts(c)'
      PROVE  c.sid \in spared'[c.uid]
  <2>1. c.uid \in Users /\ c.sid \in Sids /\ c.epoch \in Nat
    BY <1>1 DEF TypeOK, Cookie
  <2>2. Fresh(c.uid, c.sid, c.epoch) /\ RowStep(c.uid)
    BY <1>1, <2>1, RowsStep DEF SessionInv, CookiesFresh
  <2>3. /\ users[c.uid].epoch \in Nat /\ users'[c.uid].epoch \in Nat
        /\ users'[c.uid].status = "live" /\ users'[c.uid].epoch = c.epoch
    BY <1>1, <2>1 DEF TypeOK, Row, Accepts, Live
  <2>4. Live(c.uid) /\ users[c.uid].epoch = c.epoch /\ spared[c.uid] \subseteq spared'[c.uid]
    BY <2>2, <2>3 DEF Fresh, RowStep, Live
  <2> QED
    BY <1>1, <2>2, <2>4 DEF Accepts, Fresh
<1>2. TypeOK /\ TypeOK' /\ SessionInv /\ [Next]_vars
        => [\A c \in issued : ~Accepts(c) /\ Accepts(c)' => c.sid \in spared'[c.uid]]_vars
  BY <1>1
<1> QED
  BY <1>2, SessionInvariant, PTL DEF Spec, DeadStaysDead

-----------------------------------------------------------------------------
(* The epoch and the list of sessions it stands in for *)

\* Between two mints every row keeps its sessions or ends them all.
LEMMA RegistryEnds ==
  ASSUME TypeOK, TypeOK', CookiesFresh, issued' = issued, \A u \in Users : RowStep(u)
  PROVE  Registry!EndAll({c.uid : c \in InForce \ InForce'})
<1>1. ASSUME NEW c \in issued
      PROVE  /\ c.uid \in Users /\ c.epoch \in Nat
             /\ users[c.uid].epoch \in Nat /\ users'[c.uid].epoch \in Nat
             /\ c.epoch <= users[c.uid].epoch /\ users'[c.uid].epoch >= users[c.uid].epoch
             /\ Live(c.uid)' => Live(c.uid)
  BY <1>1 DEF TypeOK, Row, Cookie, CookiesFresh, Fresh, RowStep, Live
<1>2. InForce' = {c \in issued : Live(c.uid)' /\ c.epoch = users'[c.uid].epoch}
  BY DEF InForce, Live
<1>3. InForce' \subseteq InForce
  BY <1>1, <1>2 DEF InForce, Live
<1>4. ASSUME NEW c \in InForce, NEW d \in InForce, d \notin InForce', c.uid = d.uid
      PROVE  c \notin InForce'
  BY <1>2, <1>4 DEF InForce, Live
<1>5. Registry!Of({c.uid : c \in InForce \ InForce'}) = InForce \ InForce'
  BY <1>3, <1>4 DEF Registry!Of
<1> QED
  BY <1>3, <1>5 DEF Registry!EndAll, InForce, Live

\* A mint adds one cookie, and touches nobody else's.
LEMMA RegistryIssues ==
  ASSUME UNCHANGED users, NEW c, issued' = issued \cup {c}
  PROVE  [Registry!Next]_<<InForce, issued \ InForce>>
<1>1. CASE c \in issued
  BY <1>1 DEF InForce, Live
<1>2. CASE c \notin issued
  <2>1. CASE Live(c.uid) /\ c.epoch = users[c.uid].epoch
    <3>1. InForce' = InForce \cup {c} /\ (issued \ InForce)' = issued \ InForce
      BY <1>2, <2>1 DEF InForce, Live
    <3>2. c \notin InForce \cup (issued \ InForce)
      BY <1>2 DEF InForce, Live
    <3> QED
      BY <3>1, <3>2 DEF Registry!Next, Registry!Issue
  <2>2. CASE ~(Live(c.uid) /\ c.epoch = users[c.uid].epoch)
    <3>1. InForce' = InForce /\ (issued \ InForce)' = (issued \ InForce) \cup {c}
      BY <1>2, <2>2 DEF InForce, Live
    <3>2. c \notin InForce \cup (issued \ InForce)
      BY <1>2 DEF InForce, Live
    <3> QED
      BY <3>1, <3>2 DEF Registry!Next, Registry!Issue
  <2> QED
    BY <2>1, <2>2
<1> QED
  BY <1>1, <1>2

LEMMA RegistryStep ==
  ASSUME TypeOK, TypeOK', SessionInv, [Next]_vars
  PROVE  [Registry!Next]_<<InForce, issued \ InForce>>
<1>1. CASE issued' = issued
  BY <1>1, RowsStep, RegistryEnds DEF SessionInv, Registry!Next
<1>2. ASSUME NEW w \in Workers, CompleteLogin(w)
      PROVE  [Registry!Next]_<<InForce, issued \ InForce>>
  BY <1>2, RegistryIssues DEF CompleteLogin
<1>3. ASSUME NEW w \in Workers, RestampSession(w)
      PROVE  [Registry!Next]_<<InForce, issued \ InForce>>
  <2> DEFINE Stamped == [sid |-> request[w].sid, uid |-> request[w].uid,
                         epoch |-> users[request[w].uid].epoch]
  <2>1. CASE issued' = issued
    BY <1>1, <2>1
  <2>2. CASE issued' = issued \cup {Stamped}
    BY <1>3, <2>2, RegistryIssues DEF RestampSession
  <2> QED
    BY <1>3, <2>1, <2>2 DEF RestampSession
<1>4. ASSUME NEW w \in Workers, Arrive(w) PROVE issued' = issued
  BY <1>4 DEF Arrive, LoginPost, LoginPost2FA, UpsertOIDCUser, ProfilePost,
     ResetPasswordPost, UsersPost
<1>5. ASSUME NEW w \in Workers, Statement(w)
      PROVE  issued' = issued \/ CompleteLogin(w) \/ RestampSession(w)
  BY <1>5 DEF Statement, RehashPassword, SavePending, OIDCCallback,
     VerifyCurrent, UpdateUserPassword, BumpAfterPassword, CreateUser, UpdateUserRole,
     UpdateUserActive, DeleteUser
<1> QED
  BY <1>1, <1>2, <1>3, <1>4, <1>5
  DEF Next, vars, Logout, PendingEnds, Lapse, ExpireOverdueTempUsers, Restart

\* Comparing two numbers does what a list of sessions would: every step of the
\* handlers is a step of SessionRegistry or leaves the list alone.
THEOREM ImplementsRegistry == Spec => ActsAsRegistry
<1>1. Init => Registry!Init
  BY DEF Init, Registry!Init, InForce, Live
<1>2. TypeOK /\ TypeOK' /\ SessionInv /\ [Next]_vars
        => [Registry!Next]_<<InForce, issued \ InForce>>
  BY RegistryStep
<1> QED
  BY <1>1, <1>2, SessionInvariant, PTL DEF Spec, ActsAsRegistry, Registry!Spec

-----------------------------------------------------------------------------
(* The last administrator *)

\* Only UsersPost leads to those statements, and NotOneself stands before them.
LEMMA OthersStep == TypeOK /\ ActsOnOthers /\ [Next]_vars => ActsOnOthers'
<1> SUFFICES ASSUME TypeOK, ActsOnOthers, [Next]_vars
             PROVE  ActsOnOthers'
  OBVIOUS
<1>1. ASSUME NEW w \in Workers, NEW r, request' = [request EXCEPT ![w] = r],
             r.pc \in {"act", "flip"} => r.by # r.uid
      PROVE  ActsOnOthers'
  BY <1>1 DEF TypeOK, ActsOnOthers
<1>2. ASSUME NEW w \in Workers, Done(w) PROVE ActsOnOthers'
  BY <1>2 DEF Done, Idle, TypeOK, ActsOnOthers
<1>3. ASSUME NEW w \in Workers, NEW pc \in {"pend", "mint", "write", "bump", "stamp"}, Goto(w, pc),
             request[w] # Idle
      PROVE  ActsOnOthers'
  <2>1. [request[w] EXCEPT !.pc = pc].pc = pc
    BY <1>3 DEF TypeOK, Request, Busy, Anonymous, Oidc
  <2>2. request' = [request EXCEPT ![w] = [request[w] EXCEPT !.pc = pc]]
    BY <1>3 DEF Goto, TypeOK
  <2> QED
    BY <1>1, <2>1, <2>2
<1>4. ASSUME NEW w \in Workers, Arrive(w) PROVE ActsOnOthers'
  <2>1. ASSUME NEW u \in Users, NEW s \in Sids, LoginPost(w, u, s) PROVE ActsOnOthers'
    <3> DEFINE r == [pc |-> IF users[u].legacy THEN "rehash" ELSE AfterPassword(u),
                     op |-> "login", sid |-> s, uid |-> u, by |-> u, seen |-> CopyOf(u)]
    <3>1. r.pc \notin {"act", "flip"}
      BY DEF AfterPassword
    <3>2. request' = [request EXCEPT ![w] = r]
      BY <2>1 DEF LoginPost
    <3> HIDE DEF r
    <3> QED
      BY <1>1, <3>1, <3>2
  <2>2. ASSUME NEW p \in pending, LoginPost2FA(w, p) PROVE ActsOnOthers'
    BY <1>1, <2>2 DEF LoginPost2FA
  <2>3. ASSUME NEW u \in Users, NEW role \in Roles, UpsertOIDCUser(w, u, role) PROVE ActsOnOthers'
    BY <1>1, <2>3 DEF UpsertOIDCUser
  <2>4. ASSUME NEW c \in issued, ProfilePost(w, c) PROVE ActsOnOthers'
    BY <1>1, <2>4 DEF ProfilePost
  <2>5. ASSUME NEW u \in Users, ResetPasswordPost(w, u) PROVE ActsOnOthers'
    BY <1>1, <2>5 DEF ResetPasswordPost
  <2>6. ASSUME NEW c \in issued, NEW op \in Ops, NEW u \in Users, UsersPost(w, c, op, u)
        PROVE  ActsOnOthers'
    <3> DEFINE r == [pc |-> FirstStep(op), op |-> op, sid |-> c.sid, uid |-> u, by |-> c.uid,
                     seen |-> IF op = "toggle" THEN CopyOf(u) ELSE NothingSeen]
    <3>1. r.pc \in {"act", "flip"} => r.by # r.uid
      BY <2>6 DEF UsersPost, NotOneself, FirstStep
    <3>2. request' = [request EXCEPT ![w] = r]
      BY <2>6 DEF UsersPost
    <3> HIDE DEF r
    <3> QED
      BY <1>1, <3>1, <3>2
  <2> QED
    BY <1>4, <2>1, <2>2, <2>3, <2>4, <2>5, <2>6 DEF Arrive
<1>5. ASSUME NEW w \in Workers, Statement(w) PROVE ActsOnOthers'
  <2>1. ASSUME RehashPassword(w) PROVE ActsOnOthers'
    BY <1>3, <2>1 DEF RehashPassword, AfterPassword, Idle
  <2>2. ASSUME NEW s \in Sids, OIDCCallback(w, s) PROVE ActsOnOthers'
    <3> DEFINE u == request[w].uid
               r == [pc |-> "mint", op |-> "oidc", sid |-> s, uid |-> u, by |-> u, seen |-> CopyOf(u)]
    <3>1. request' = [request EXCEPT ![w] = r] \/ Done(w)
      BY <2>2 DEF OIDCCallback
    <3>2. r.pc = "mint"
      OBVIOUS
    <3> HIDE DEF r
    <3> QED
      BY <1>1, <1>2, <3>1, <3>2
  <2>3. ASSUME VerifyCurrent(w) PROVE ActsOnOthers'
    BY <1>2, <1>3, <2>3 DEF VerifyCurrent, Idle
  <2>4. ASSUME UpdateUserPassword(w) PROVE ActsOnOthers'
    BY <1>3, <2>4 DEF UpdateUserPassword, Idle
  <2>5. ASSUME BumpAfterPassword(w) PROVE ActsOnOthers'
    BY <1>2, <1>3, <2>5 DEF BumpAfterPassword, Idle
  <2> QED
    BY <1>2, <1>5, <2>1, <2>2, <2>3, <2>4, <2>5 DEF Statement, SavePending, CompleteLogin,
       RestampSession, CreateUser, UpdateUserRole, UpdateUserActive, DeleteUser
<1>6. ASSUME Restart PROVE ActsOnOthers'
  BY <1>6 DEF Restart, ActsOnOthers, Idle
<1>7. ASSUME UNCHANGED request PROVE ActsOnOthers'
  BY <1>7 DEF ActsOnOthers
<1> QED
  BY <1>4, <1>5, <1>6, <1>7
  DEF Next, vars, Logout, PendingEnds, Lapse, ExpireOverdueTempUsers

\* What a row says of its user's administration is the same.
SameStanding(u) ==
  users'[u].status = users[u].status /\ users'[u].active = users[u].active
    /\ users'[u].role = users[u].role

LEMMA StandingKept ==
  ASSUME TypeOK, NEW v \in Users, NEW row, users' = [users EXCEPT ![v] = row]
  PROVE  /\ \A u \in Users \ {v} : SameStanding(u)
         /\ row.status = users[v].status /\ row.active = users[v].active
              /\ row.role = users[v].role => \A u \in Users : SameStanding(u)
  BY DEF TypeOK, SameStanding

LEMMA BumpKeepsStanding ==
  ASSUME TypeOK, NEW u \in Users, NEW keep,
         BumpSessionEpoch(u, keep) \/ BumpFails(u, keep)
  PROVE  \A v \in Users : SameStanding(v)
<1>1. CASE users' = users
  BY <1>1 DEF SameStanding
<1>2. CASE users' = [users EXCEPT ![u] = Bumped(@)]
  <2>1. users[u] \in Row
    BY DEF TypeOK
  <2>2. /\ Bumped(users[u]).status = users[u].status /\ Bumped(users[u]).active = users[u].active
        /\ Bumped(users[u]).role = users[u].role
    BY <2>1 DEF Bumped, Row
  <2>3. users' = [users EXCEPT ![u] = Bumped(users[u])]
    BY <1>2
  <2> QED
    BY <2>2, <2>3, StandingKept
<1> QED
  BY <1>1, <1>2 DEF BumpSessionEpoch, BumpFails

\* Every step keeps all standings but those of overdue temporary users, of one
\* user of the provider, of a row that was not there, or of the row that an
\* administrator's request is about.
LEMMA StandingStep ==
  ASSUME TypeOK, [Next]_vars
  PROVE  \/ \A u \in Users : IsActiveAdmin(u) => SameStanding(u) \/ u \in OIDCUsers \cup TempUsers
         \/ \E w \in Workers :
              /\ request[w].pc \in {"act", "flip"} /\ request'[w] = Idle
              /\ \A u \in Users \ {request[w].uid} : SameStanding(u)
<1> DEFINE Kept == \A u \in Users : IsActiveAdmin(u) => SameStanding(u) \/ u \in OIDCUsers \cup TempUsers
           Acted(w) == /\ request[w].pc \in {"act", "flip"} /\ request'[w] = Idle
                       /\ \A u \in Users \ {request[w].uid} : SameStanding(u)
<1>1. ASSUME UNCHANGED users PROVE Kept
  BY <1>1 DEF SameStanding
<1>2. ASSUME NEW w \in Workers, Arrive(w) PROVE Kept
  <2>1. ASSUME NEW u \in Users, NEW role \in Roles, UpsertOIDCUser(w, u, role) PROVE Kept
    <3>1. u \in OIDCUsers /\ \E row : users' = [users EXCEPT ![u] = row]
      BY <2>1 DEF UpsertOIDCUser
    <3> QED
      BY <3>1, StandingKept
  <2> QED
    BY <1>1, <1>2, <2>1 DEF Arrive, LoginPost, LoginPost2FA, ProfilePost, ResetPasswordPost, UsersPost
<1>3. ASSUME NEW w \in Workers, Statement(w) PROVE Kept \/ Acted(w)
  <2> DEFINE v == request[w].uid
  <2>1. request[w].pc \in PCs => v \in Users
    BY BusyRequest
  <2>2. v \in Users => users[v] \in Row
    BY DEF TypeOK
  <2>3. ASSUME RehashPassword(w) \/ UpdateUserPassword(w) PROVE Kept
    <3>1. v \in Users
      BY <2>1, <2>3 DEF RehashPassword, UpdateUserPassword, PCs
    <3>2. \E pw : users' = users \/ users' = [users EXCEPT ![v].pw = pw, ![v].legacy = FALSE]
      BY <2>3 DEF RehashPassword, UpdateUserPassword
    <3>3. PICK pw : users' = users
                    \/ users' = [users EXCEPT ![v] = [users[v] EXCEPT !.pw = pw, !.legacy = FALSE]]
      BY <2>2, <3>1, <3>2 DEF TypeOK
    <3>4. LET r == [users[v] EXCEPT !.pw = pw, !.legacy = FALSE]
          IN r.status = users[v].status /\ r.active = users[v].active /\ r.role = users[v].role
      BY <2>2, <3>1 DEF Row
    <3> QED
      BY <1>1, <3>1, <3>3, <3>4, StandingKept
  <2>4. ASSUME BumpAfterPassword(w) PROVE Kept
    <3>1. v \in Users
      BY <2>1, <2>4 DEF BumpAfterPassword, PCs
    <3>2. \E keep : BumpSessionEpoch(v, keep) \/ BumpFails(v, keep)
      BY <2>4 DEF BumpAfterPassword
    <3> QED
      BY <3>1, <3>2, BumpKeepsStanding
  <2>5. ASSUME CreateUser(w) PROVE Kept
    <3>1. v \in Users
      BY <2>1, <2>5 DEF CreateUser, PCs
    <3>2. users' = users \/ (users[v].status = "none" /\ \E row : users' = [users EXCEPT ![v] = row])
      BY <2>5 DEF CreateUser
    <3> QED
      BY <1>1, <3>1, <3>2, StandingKept DEF IsActiveAdmin, Live
  <2>6. ASSUME UpdateUserRole(w) \/ UpdateUserActive(w) \/ DeleteUser(w) PROVE Acted(w)
    <3>1. v \in Users /\ request[w].pc \in {"act", "flip"} /\ Done(w)
      BY <2>1, <2>6 DEF UpdateUserRole, UpdateUserActive, DeleteUser, PCs
    <3>2. request'[w] = Idle
      BY <3>1 DEF Done, TypeOK
    <3>3. users' = users \/ \E row : users' = [users EXCEPT ![v] = row]
      <4>1. CASE UpdateUserRole(w)
        BY <4>1 DEF UpdateUserRole
      <4>2. CASE UpdateUserActive(w)
        BY <4>2, <2>2, <3>1 DEF UpdateUserActive, TypeOK
      <4>3. CASE DeleteUser(w)
        BY <4>3, <2>2, <3>1 DEF DeleteUser, TypeOK
      <4> QED
        BY <2>6, <4>1, <4>2, <4>3
    <3>4. \A u \in Users \ {v} : SameStanding(u)
      BY <3>1, <3>3, StandingKept DEF SameStanding
    <3> QED
      BY <3>1, <3>2, <3>4
  <2> QED
    BY <1>1, <1>3, <2>3, <2>4, <2>5, <2>6
    DEF Statement, SavePending, CompleteLogin, OIDCCallback, VerifyCurrent, RestampSession
<1>4. ASSUME NEW c \in issued, Logout(c) PROVE Kept
  <2>1. c.uid \in Users
    BY DEF TypeOK, Cookie
  <2> QED
    BY <1>4, <2>1, BumpKeepsStanding DEF Logout
<1>5. ASSUME NEW u \in Users, Lapse(u) PROVE Kept
  <2>1. u \in TempUsers /\ users' = [users EXCEPT ![u] = [users[u] EXCEPT !.lapsed = TRUE]]
    BY <1>5 DEF Lapse, TypeOK
  <2> QED
    BY <2>1, StandingKept
<1>6. ASSUME ExpireOverdueTempUsers PROVE Kept
  BY <1>6 DEF ExpireOverdueTempUsers, Overdue, SameStanding
<1> QED
  BY <1>1, <1>2, <1>3, <1>4, <1>5, <1>6 DEF Next, vars, PendingEnds, Restart

\* An administrator who takes the last one away is another one, hence none.
LEMMA LastAdminStep ==
  ASSUME TypeOK, ActsOnOthers, [Next]_vars, ActiveAdmins # {}, ActiveAdmins' = {}
  PROVE  \/ \E w \in Workers : /\ request[w].pc \in {"act", "flip"} /\ request'[w] = Idle
                                /\ request[w].by \notin ActiveAdmins
         \/ \E u \in ActiveAdmins : u \in OIDCUsers \cup TempUsers
<1>1. \A u \in Users : IsActiveAdmin(u) => ~SameStanding(u)
  BY DEF ActiveAdmins, IsActiveAdmin, SameStanding, Live
<1>2. CASE \A u \in Users : IsActiveAdmin(u) => SameStanding(u) \/ u \in OIDCUsers \cup TempUsers
  BY <1>1, <1>2 DEF ActiveAdmins
<1>3. ASSUME NEW w \in Workers, request[w].pc \in {"act", "flip"}, request'[w] = Idle,
             \A u \in Users \ {request[w].uid} : SameStanding(u)
      PROVE  request[w].by \notin ActiveAdmins
  <2>1. request[w].by # request[w].uid
    BY <1>3 DEF ActsOnOthers
  <2> QED
    BY <1>1, <1>3, <2>1 DEF ActiveAdmins
<1> QED
  BY <1>1, <1>2, <1>3, StandingStep

\* The last active administrator falls to no request but that of somebody who
\* has stopped being one since RequireRole let it in, to the provider, or to
\* the time of a temporary user.
THEOREM LastAdminStays == Spec => LastAdminFallsToStaleActor
<1>1. TypeOK /\ ActsOnOthers /\ [Next]_vars =>
        [ActiveAdmins # {} /\ ActiveAdmins' = {} =>
           \/ \E w \in Workers : /\ request[w].pc \in {"act", "flip"} /\ request'[w] = Idle
                                 /\ request[w].by \notin ActiveAdmins
           \/ \E u \in ActiveAdmins : u \in OIDCUsers \cup TempUsers]_vars
  BY LastAdminStep
<1>2. Init => ActsOnOthers
  BY DEF Init, ActsOnOthers, Idle
<1> QED
  BY <1>1, <1>2, OthersStep, TypeCorrect, PTL DEF Spec, LastAdminFallsToStaleActor

-----------------------------------------------------------------------------
(* The casts *)

\* A cast leaves out actions and users, and adds none.
LEMMA CastActs == [CastNext]_<<vars, cast>> => [Next]_vars
<1>1. /\ Existing \subseteq Users /\ OIDCUsers \subseteq Users /\ TempUsers \subseteq Users
      /\ Member \in Users /\ Host \in Users
  BY SessionAssumption, CastAssumption DEF SessionAssumption, CastAssumption
<1>2. ASSUME NEW w \in Workers, NEW c \in issued, NEW u \in Users, NEW op, UsersPost(w, c, op, u)
      PROVE  Arrive(w)
  <2>1. op \in Ops
    BY <1>2 DEF UsersPost
  <2> QED
    BY <1>2, <2>1 DEF Arrive
<1>3. PlaySelf => Next
  BY <1>1 DEF PlaySelf, Next, Arrive
<1>4. PlayAdmins => Next
  <2>1. ASSUME NEW w \in Workers, NEW u \in Existing, NEW s \in Sids, LoginPost(w, u, s)
        PROVE  Next
    BY <1>1, <2>1 DEF Next, Arrive
  <2> QED
    BY <1>1, <1>2, <2>1 DEF PlayAdmins, Next
<1>5. PlayGuests => Next
  <2>1. ASSUME NEW w \in Workers, NEW u \in TempUsers \cup {Host}, NEW s \in Sids,
               LoginPost(w, u, s)
        PROVE  Next
    BY <1>1, <2>1 DEF Next, Arrive
  <2>2. ASSUME NEW w \in Workers, NEW u \in OIDCUsers, NEW role \in Roles,
               UpsertOIDCUser(w, u, role)
        PROVE  Next
    BY <1>1, <2>2 DEF Next, Arrive
  <2> QED
    BY <1>1, <1>2, <2>1, <2>2 DEF PlayGuests, Next
<1> QED
  BY <1>3, <1>4, <1>5 DEF CastNext, vars

\* Its first state differs in who has a row, which no invariant speaks of.
LEMMA CastStarts == CastInit => TypeOK /\ SessionInv /\ ActsOnOthers
<1> SUFFICES ASSUME CastInit PROVE TypeOK /\ SessionInv /\ ActsOnOthers
  OBVIOUS
<1>1. TypeOK
  BY DEF CastInit, TypeOK, Row, Roles, Request, Idle
<1>2. SessionInv
  BY DEF CastInit, SessionInv, CookiesFresh, LoginsFresh, OwnChangesRevoked, OwnChange, Idle
<1>3. ActsOnOthers
  BY DEF CastInit, ActsOnOthers, Idle
<1> QED
  BY <1>1, <1>2, <1>3

LEMMA CastInvariant == CastSpec => [](TypeOK /\ SessionInv /\ ActsOnOthers)
<1>1. TypeOK /\ SessionInv /\ ActsOnOthers /\ [CastNext]_<<vars, cast>>
        => (TypeOK /\ SessionInv /\ ActsOnOthers)'
  BY CastActs, TypeStep, CookiesStep, LoginsStep, OwnChangesStep, OthersStep DEF SessionInv
<1> QED
  BY <1>1, CastStarts, PTL DEF CastSpec

\* What the run checks of its casts, in the run's own words: an ended session
\* stays out, the epoch does what a list of sessions would, and the last
\* administrator falls to nobody but another who has stopped being one.
THEOREM CastsKeepTheirWord ==
  CastSpec => []RevokedStaysOut /\ ActsAsRegistry /\ LastAdminFallsToStaleActor
<1>1. TypeOK /\ SessionInv => RevokedStaysOut
  BY DEF SessionInv, CookiesFresh, Fresh, RevokedStaysOut, Accepts
<1>2. TypeOK /\ TypeOK' /\ SessionInv /\ [Next]_vars
        => [Registry!Next]_<<InForce, issued \ InForce>>
  BY RegistryStep
<1>3. TypeOK /\ ActsOnOthers /\ [Next]_vars =>
        [ActiveAdmins # {} /\ ActiveAdmins' = {} =>
           \/ \E w \in Workers : /\ request[w].pc \in {"act", "flip"} /\ request'[w] = Idle
                                 /\ request[w].by \notin ActiveAdmins
           \/ \E u \in ActiveAdmins : u \in OIDCUsers \cup TempUsers]_vars
  BY LastAdminStep
<1>4. CastInit => Registry!Init
  BY DEF CastInit, Registry!Init, InForce, Live
<1> QED
  BY <1>1, <1>2, <1>3, <1>4, CastActs, CastInvariant, PTL
  DEF CastSpec, ActsAsRegistry, Registry!Spec, LastAdminFallsToStaleActor
=============================================================================
