------------------------- MODULE MCFactorAndUICert -------------------------
(* The certificate of the UI, and beside it the second factor of a user,     *)
(* which shares no state with it: `part' is chosen at the start and says     *)
(* which of them moves.  Handshakes are interchangeable, requests as well.   *)
EXTENDS UICert, FiniteSets, TLC

CONSTANTS Workers, Skew, BatchSize, DBMayFail, MaxStep, MaxSecret, MaxBatch

VARIABLES
  part,
  step, row, codes, secrets, batches, request, accepted, again, excused

\* The second factor, with the theorems about it.
F == INSTANCE TwoFactorProofs WITH now <- step

ASSUME FactorAssumption == F!BoundsOK

factorVars == <<step, row, codes, secrets, batches, request, accepted, again, excused>>

MCInit == part \in {"UI", "factor"} /\ Init /\ F!Init

MCNext ==
  /\ UNCHANGED part
  /\ \/ part = "UI" /\ Next /\ UNCHANGED factorVars
     \/ part = "factor" /\ F!Next /\ UNCHANGED vars

MCSpec == MCInit /\ [][MCNext]_<<part, vars, factorVars>>

Symmetry == Permutations(Handshakes) \cup Permutations(Workers)

\* In the first enrolment requests overlap, and at most two of the things go on
\* that promises are not made for, one if it is the database; in a later
\* enrolment requests take turns, and one of the things goes on.  Three codes
\* are accepted.
FewTroubles ==
  /\ Cardinality(accepted) <= 3
  /\ Cardinality(excused) <= IF secrets > 1 \/ "database" \in excused THEN 1 ELSE 2
  /\ secrets > 1 => Cardinality({w \in Workers : request[w] # F!Idle}) <= 1

\* The properties of the instance, by the names they have there.
OneAcceptancePerStep == F!OneAcceptancePerStep
RecoveryCodesUsedOnce == F!RecoveryCodesUsedOnce
CodesOfThisEnrolment == F!CodesOfThisEnrolment
NeverLockedOut == F!NeverLockedOut
=============================================================================
