-------------------------- MODULE MCSessionCookie --------------------------
(* Small instances of SessionCookie: the requests of a browser are alike.    *)
EXTENDS SessionCookie, TLC

Symmetry == Permutations(Requests)
=============================================================================
