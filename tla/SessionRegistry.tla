-------------------------- MODULE SessionRegistry --------------------------
(***************************************************************************)
(* What the session epoch stands in for: the list of sessions step-ui does *)
(* not keep.                                                               *)
(*                                                                         *)
(* A server with such a list adds a session to it when it issues a cookie  *)
(* and strikes out, in one step, all sessions of a user when these have to *)
(* end.  A cookie that is struck out is never listed again, and one may be *)
(* struck out at birth: its login was overtaken.  UserSession keeps no     *)
(* list, compares two numbers instead, and is shown to do nothing that     *)
(* this module does not.                                                   *)
(***************************************************************************)

VARIABLES
  in,    \* the sessions on the list: cookies, each with its user c.uid
  out    \* the sessions that have ended

Init == in = {} /\ out = {}

\* A login, or a session that gets a new cookie.
Issue(c) ==
  /\ c \notin in \cup out
  /\ \/ in' = in \cup {c} /\ UNCHANGED out
     \/ out' = out \cup {c} /\ UNCHANGED in

Of(U) == {c \in in : c.uid \in U}

\* All sessions of the users U end: none of them is kept, none comes back.
EndAll(U) ==
  /\ in' = in \ Of(U)
  /\ out' = out \cup Of(U)

Next ==
  \/ \E c \in (in' \cup out') \ (in \cup out) : Issue(c)
  \/ EndAll({c.uid : c \in in \ in'})

Spec == Init /\ [][Next]_<<in, out>>
=============================================================================
