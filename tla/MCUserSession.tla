--------------------------- MODULE MCUserSession ---------------------------
(* Small instances of UserSession.  Logins and workers are interchangeable;  *)
(* users are not: their roles differ.                                        *)
EXTENDS UserSession, TLC

Symmetry == Permutations(Sids) \cup Permutations(Workers)
=============================================================================
