-------------------------- MODULE MCPasswordReset --------------------------
(* Small instances of PasswordReset; users and requests are interchangeable. *)
EXTENDS PasswordReset, TLC

Symmetry == Permutations(Users) \cup Permutations(Workers)
=============================================================================
