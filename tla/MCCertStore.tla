----------------------------- MODULE MCCertStore -----------------------------
(* Small instances of CertStore; requests are interchangeable.               *)
EXTENDS CertStore, TLC

Symmetry == Permutations(Workers)
=============================================================================
