----------------------------- MODULE MCSessions -----------------------------
(* Three instances of UserSession in one run.  `cast' is chosen at the start *)
(* and says who acts: a member with a second factor, who logs in and out and *)
(* changes the password; two administrators who act on each other; or an     *)
(* administrator with a temporary user and one of the identity provider.     *)
EXTENDS UserSession, TLC

CONSTANTS Member, Host   \* the member; the administrator of the third cast

ASSUME CastAssumption == {Member, Host} \subseteq Existing

VARIABLE cast

Guests == TempUsers \cup OIDCUsers
Cast == CASE cast = "self" -> {Member}
          [] cast = "admins" -> Existing \ {Member}
          [] cast = "guests" -> {Host}

\* The others of the initial state have no row here, so they can do nothing.
CastInit ==
  /\ cast \in {"self", "admins", "guests"}
  /\ users = [u \in Users |->
       [status |-> IF u \in Cast THEN "live" ELSE "none",
        active |-> u \in Cast,
        role |-> IF u \in Admins THEN "admin" ELSE "viewer",
        epoch |-> 0, pw |-> 0, legacy |-> cast = "guests" /\ u = Host, lapsed |-> FALSE]]
  /\ issued = {} /\ pending = {}
  /\ request = [w \in Workers |-> Idle]
  /\ written = [u \in Users |-> 0]
  /\ revoked = [u \in Users |-> {}] /\ spared = [u \in Users |-> {}]

PlaySelf ==
  \/ \E w \in Workers :
       \/ \E s \in Sids : LoginPost(w, Member, s)
       \/ \E p \in pending : LoginPost2FA(w, p)
       \/ \E c \in issued : ProfilePost(w, c)
       \/ ResetPasswordPost(w, Member)
       \/ Statement(w)
  \/ \E c \in issued : Logout(c)
  \/ \E p \in pending : PendingEnds(p)
  \/ Restart

\* No bump fails in this one, and a password is reset once.
PlayAdmins ==
  /\ \/ \E w \in Workers :
          \/ \E u \in Existing, s \in Sids : LoginPost(w, u, s)
          \/ \E c \in issued, u \in Existing,
                op \in {"role", "toggle", "delete", "reset"} : UsersPost(w, c, op, u)
          \/ Statement(w)
     \/ Restart
  /\ \A u \in Users : spared'[u] = {} /\ written'[u] <= 1

PlayGuests ==
  \/ \E w \in Workers :
       \/ \E u \in TempUsers \cup {Host}, s \in Sids : LoginPost(w, u, s)
       \/ \E u \in OIDCUsers, role \in Roles : UpsertOIDCUser(w, u, role)
       \/ \E c \in issued, u \in Users, op \in {"toggle", "create"} :
            u \in Guests \cup {Host} /\ UsersPost(w, c, op, u)
       \/ Statement(w)
  \/ \E u \in TempUsers : Lapse(u)
  \/ ExpireOverdueTempUsers
  \/ Restart

CastNext ==
  /\ UNCHANGED cast
  /\ \/ cast = "self" /\ PlaySelf
     \/ cast = "admins" /\ PlayAdmins
     \/ cast = "guests" /\ PlayGuests

CastSpec == CastInit /\ [][CastNext]_<<vars, cast>>

FairCastSpec == CastSpec /\ WF_vars(ExpireOverdueTempUsers)
=============================================================================
