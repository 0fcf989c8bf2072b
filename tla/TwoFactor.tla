----------------------------- MODULE TwoFactor -----------------------------
(***************************************************************************)
(* The second factor of one user: TOTP enrolment, the replay check on TOTP *)
(* codes, the recovery codes.                                              *)
(*                                                                         *)
(* Time is the number of the 30-second TOTP step.  A secret is the number  *)
(* of the enrolment that generated it (0: none), the code of a secret at a *)
(* step is the pair of both, and a recovery code is the n-th of the batch  *)
(* one confirmation generated.  Whether a code was accepted before is one  *)
(* column, totp_last_step, read by one statement and written by another; a *)
(* recovery code is looked up by one statement and marked by another.      *)
(* One action is one statement, with the code up to the next.              *)
(*                                                                         *)
(* A definition that stands right before another one with its parameters   *)
(* and is not used is a plausible bug of the code, as in UserSession.      *)
(***************************************************************************)
EXTENDS Integers, FiniteSets

CONSTANTS
  Workers,       \* requests under way at a time
  Skew,          \* steps before and after its own in which a code is valid
  BatchSize,     \* recovery codes per confirmation (8 in the code)
  DBMayFail,     \* whether a statement whose error is ignored may fail
  MaxStep,       \* bound on time
  MaxSecret,     \* bound on enrolments
  MaxBatch       \* bound on confirmations

\* The bounds are numbers.
BoundsOK == MaxStep \in Nat \ {0} /\ MaxSecret \in Nat /\ MaxBatch \in Nat /\ BatchSize \in Nat

VARIABLES
  now,        \* time.Now() in 30-second steps
  row,        \* the user's TOTP columns
  codes,      \* user_recovery_codes of the user
  secrets,    \* secrets generated so far
  batches,    \* batches of recovery codes generated so far
  request,    \* what each worker is doing
  accepted,   \* history: what was accepted, a TOTP code with the step the
              \* server accepted it in, or a recovery code
  again,      \* history: what of it was accepted more than once
  excused     \* history: what went on that a promise is not made for

vars == <<now, row, codes, secrets, batches, request, accepted, again, excused>>
table == <<row, codes>>
history == <<accepted, again, excused>>

-----------------------------------------------------------------------------
(* Types *)

Secrets == 1..MaxSecret
Steps == 1..MaxStep
TOTPCode == [secret : Secrets, step : Steps]
Acceptance == [code : TOTPCode, in : Steps]
RecoveryCode == [batch : 1..MaxBatch, n : 1..BatchSize]
Batch(b) == [batch : {b}, n : 1..BatchSize]

Columns == [enabled : BOOLEAN, secret : 0..MaxSecret, pending : 0..MaxSecret,
            lastStep : 0..MaxStep]

\* `secret' is what the request read from the row, `step' its currentStep,
\* `doomed' the recovery codes its transaction has deleted.
Idle == [pc |-> "idle"]
Starting == [pc : {"start"}, secret : Secrets]
Confirming == [pc : {"enable", "delete", "insert"}, secret : Secrets,
               batch : 1..MaxBatch, doomed : SUBSET RecoveryCode]
Checking == [pc : {"validate", "read", "compare", "set", "disable", "clean"},
             op : {"login", "disable"}, secret : Secrets, code : TOTPCode, step : 0..MaxStep]
Redeeming == [pc : {"lookup", "mark"}, recovery : RecoveryCode]

TypeOK ==
  /\ now \in Steps
  /\ row \in Columns
  /\ \A c \in codes : c.code \in RecoveryCode /\ c.used \in BOOLEAN
  /\ secrets \in 0..MaxSecret /\ batches \in 0..MaxBatch
  /\ request \in [Workers -> {Idle} \cup Starting \cup Confirming \cup Checking \cup Redeeming]
  /\ accepted \subseteq Acceptance \cup RecoveryCode /\ again \subseteq accepted
  /\ excused \subseteq {"totp", "enrolment", "recovery", "cutoff", "database"}

-----------------------------------------------------------------------------
(* Helpers *)

Goto(w, pc) == request' = [request EXCEPT ![w].pc = pc]
Finish(w) == request' = [request EXCEPT ![w] = Idle]

\* What a request reads and then writes back on the strength of it.
Touches(r) ==
  CASE r.pc = "idle" -> {}
    [] r.pc \in {"start", "enable", "delete", "insert"} -> {"enrolment"}
    [] r.pc \in {"lookup", "mark"} -> {"recovery"}
    [] OTHER -> IF r.op = "login" THEN {"totp"} ELSE {"totp", "enrolment"}

\* A request begins; the history notes what it overlaps in with another one.
Begin(w, r) ==
  /\ request[w] = Idle
  /\ request' = [request EXCEPT ![w] = r]
  /\ excused' = excused \cup UNION {Touches(r) \cap Touches(request[v]) : v \in Workers}

\* totp.Validate of the library: the clock of the phone may be off by one step.
Valid(code, secret) ==
  code.secret = secret /\ code.step \in (now - Skew)..(now + Skew)

\* The history of one more acceptance.
Accept(a) ==
  /\ accepted' = accepted \cup {a}
  /\ again' = again \cup ({a} \cap accepted)

Unused == {c.code : c \in {d \in codes : ~d.used}}
Fresh(b) == {[code |-> c, used |-> FALSE] : c \in Batch(b)}

-----------------------------------------------------------------------------
(* Enrolment: Profile2FAStart and Profile2FAConfirm *)

\* Profile2FAStart reads the row, and refuses when 2FA is already enabled.
Profile2FAStart(w) ==
  /\ ~row.enabled /\ secrets < MaxSecret
  /\ secrets' = secrets + 1
  /\ Begin(w, [pc |-> "start", secret |-> secrets + 1])
  /\ UNCHANGED <<now, table, batches, accepted, again>>

UpdateUserTOTPPending(w) ==
  /\ request[w].pc = "start"
  /\ row' = [row EXCEPT !.pending = request[w].secret]
  /\ Finish(w)
  /\ UNCHANGED <<now, codes, secrets, batches, accepted, again, excused>>

\* Profile2FAConfirm reads a pending secret and is given a valid code for it,
\* which is not checked for replay; it generates the recovery codes.
Profile2FAConfirm(w) ==
  /\ ~row.enabled /\ row.pending # 0 /\ batches < MaxBatch
  /\ batches' = batches + 1
  /\ Begin(w, [pc |-> "enable", secret |-> row.pending, batch |-> batches + 1, doomed |-> {}])
  /\ UNCHANGED <<now, table, secrets, accepted, again>>

EnableUserTOTP(w) ==
  /\ request[w].pc = "enable"
  /\ row' = [row EXCEPT !.enabled = TRUE, !.secret = request[w].secret, !.pending = 0]
  /\ Goto(w, "delete")
  /\ UNCHANGED <<now, codes, secrets, batches, accepted, again, excused>>

\* ReplaceRecoveryCodes is one transaction at the default isolation: its DELETE
\* sees the codes committed by then, its INSERTs are seen at the commit.
ReplaceDeletes(w) ==
  /\ request[w].pc = "delete"
  /\ request' = [request EXCEPT ![w].pc = "insert", ![w].doomed = {c.code : c \in codes}]
  /\ UNCHANGED <<now, table, secrets, batches, history>>

ReplaceInsertsOneShort(w) ==
  /\ request[w].pc = "insert"
  /\ codes' = {c \in codes : c.code \notin request[w].doomed}
                \cup {f \in Fresh(request[w].batch) : f.code.n < BatchSize}
  /\ Finish(w)
  /\ UNCHANGED <<now, row, secrets, batches, history>>
ReplaceCommits(w) ==
  /\ request[w].pc = "insert"
  /\ codes' = {c \in codes : c.code \notin request[w].doomed} \cup Fresh(request[w].batch)
  /\ Finish(w)
  /\ UNCHANGED <<now, row, secrets, batches, history>>

-----------------------------------------------------------------------------
(* Checking a TOTP code: loginPost2FA, Profile2FADisable *)

\* The handler reads the row; the code it is given may be of any time.
PresentCode(w, op, code) ==
  /\ row.enabled
  /\ Begin(w, [pc |-> "validate", op |-> op, secret |-> row.secret, code |-> code, step |-> 0])
  /\ UNCHANGED <<now, table, secrets, batches, accepted, again>>

\* validateTOTPWithReplayCtx: the code, then the server's own step, then the
\* last accepted one.
ValidateCode(w) ==
  /\ request[w].pc = "validate"
  /\ IF Valid(request[w].code, request[w].secret) THEN Goto(w, "read") ELSE Finish(w)
  /\ UNCHANGED <<now, table, secrets, batches, history>>

ReadClockRoundedUp(w) ==
  /\ request[w].pc = "read"
  /\ request' = [request EXCEPT ![w].pc = "compare", ![w].step = now + 1]
  /\ UNCHANGED <<now, table, secrets, batches, history>>
ReadClock(w) ==
  /\ request[w].pc = "read"
  /\ request' = [request EXCEPT ![w].pc = "compare", ![w].step = now]
  /\ UNCHANGED <<now, table, secrets, batches, history>>

\* The code is accepted: a login is complete, a disable goes on to its UPDATE.
Proceed(w) ==
  /\ IF request[w].op = "login" THEN Finish(w) ELSE Goto(w, "disable")
  /\ Accept([code |-> request[w].code, in |-> request[w].step])

IsReplayOnlyOlder(step, lastStep) == step < lastStep
IsReplay(step, lastStep) == step <= lastStep

GetTOTPLastStep(w) ==
  /\ request[w].pc = "compare"
  /\ IF IsReplay(request[w].step, row.lastStep) THEN Finish(w) ELSE Goto(w, "set")
  /\ UNCHANGED <<now, table, secrets, batches, history>>

\* A read that fails lets the code pass.
GetTOTPLastStepFails(w) ==
  /\ DBMayFail /\ request[w].pc = "compare"
  /\ Proceed(w)
  /\ excused' = excused \cup {"database"}
  /\ UNCHANGED <<now, table, secrets, batches>>

\* SetTOTPLastStep writes whatever step the request has, also an older one; a
\* write that fails lets the code pass as well.
SetTOTPLastStep(w) ==
  /\ request[w].pc = "set"
  /\ \/ row' = [row EXCEPT !.lastStep = request[w].step] /\ UNCHANGED excused
     \/ DBMayFail /\ excused' = excused \cup {"database"} /\ UNCHANGED row
  /\ Proceed(w)
  /\ UNCHANGED <<now, codes, secrets, batches>>

\* DisableUserTOTP: the columns, then the recovery codes, in two statements.
Cleared == [enabled |-> FALSE, secret |-> 0, pending |-> 0, lastStep |-> 0]

DisableColumns(w) ==
  /\ request[w].pc = "disable"
  /\ row' = Cleared
  /\ Goto(w, "clean")
  /\ UNCHANGED <<now, codes, secrets, batches, accepted, again, excused>>

DisableCodes(w) ==
  /\ request[w].pc = "clean"
  /\ codes' = {}
  /\ Finish(w)
  /\ UNCHANGED <<now, row, secrets, batches, history>>

-----------------------------------------------------------------------------
(* Recovery codes: verifyRecoveryCode *)

PresentRecoveryCode(w, code) ==
  /\ row.enabled
  /\ Begin(w, [pc |-> "lookup", recovery |-> code])
  /\ UNCHANGED <<now, table, secrets, batches, accepted, again>>

GetUnusedRecoveryCodes(w) ==
  /\ request[w].pc = "lookup"
  /\ IF request[w].recovery \in Unused THEN Goto(w, "mark") ELSE Finish(w)
  /\ UNCHANGED <<now, table, secrets, batches, history>>

\* UseRecoveryCode, AND used_at IS NULL; neither its error nor the number of
\* rows it changed is looked at.
MarkedNone(code) == codes
Marked(code) == {IF c.code = code THEN [c EXCEPT !.used = TRUE] ELSE c : c \in codes}

UseRecoveryCode(w) ==
  /\ request[w].pc = "mark"
  /\ \/ codes' = Marked(request[w].recovery) /\ UNCHANGED excused
     \/ DBMayFail /\ excused' = excused \cup {"database"} /\ UNCHANGED codes
  /\ Accept(request[w].recovery)
  /\ Finish(w)
  /\ UNCHANGED <<now, row, secrets, batches>>

-----------------------------------------------------------------------------
(* Time and failure *)

Tick ==
  /\ now < MaxStep /\ now' = now + 1
  /\ UNCHANGED <<table, secrets, batches, request, history>>

\* A request is cut off between two statements: an error the handler reports, or
\* the end of the process.
CutOff(w) ==
  /\ request[w] # Idle
  /\ Finish(w)
  /\ excused' = excused \cup {"cutoff"}
  /\ UNCHANGED <<now, table, secrets, batches, accepted, again>>

-----------------------------------------------------------------------------
(* The specification *)

Init ==
  /\ now = 1
  /\ row = Cleared /\ codes = {}
  /\ secrets = 0 /\ batches = 0
  /\ request = [w \in Workers |-> Idle]
  /\ accepted = {} /\ again = {} /\ excused = {}

Enrol(w) ==
  \/ Profile2FAStart(w) \/ UpdateUserTOTPPending(w) \/ Profile2FAConfirm(w)
  \/ EnableUserTOTP(w) \/ ReplaceDeletes(w) \/ ReplaceCommits(w)

CheckTOTP(w) ==
  \/ \E op \in {"login", "disable"}, code \in [secret : 1..secrets, step : Steps] :
       PresentCode(w, op, code)
  \/ ValidateCode(w) \/ ReadClock(w) \/ GetTOTPLastStep(w) \/ GetTOTPLastStepFails(w)
  \/ SetTOTPLastStep(w) \/ DisableColumns(w) \/ DisableCodes(w)

CheckRecovery(w) ==
  \/ \E code \in [batch : 1..batches, n : 1..BatchSize] : PresentRecoveryCode(w, code)
  \/ GetUnusedRecoveryCodes(w) \/ UseRecoveryCode(w)

Next ==
  \/ \E w \in Workers : Enrol(w) \/ CheckTOTP(w) \/ CheckRecovery(w) \/ CutOff(w)
  \/ Tick

Spec == Init /\ [][Next]_vars

-----------------------------------------------------------------------------
(* Properties *)

Acceptances == accepted \cap Acceptance

\* As long as no two TOTP checks of the user overlap, no two changes of the
\* enrolment (the later of which may bring back a secret that was disabled) and
\* the database works, one code per secret is accepted in one 30-second step of
\* the server, and that once: whatever requests are cut off, recovery codes
\* redeemed, and 2FA disabled and set up again meanwhile.
OneAcceptancePerStep ==
  excused \cap {"totp", "enrolment", "database"} = {} =>
    /\ again \cap Acceptance = {}
    /\ \A a, b \in Acceptances : a.in = b.in /\ a.code.secret = b.code.secret => a = b

\* As long as no two recovery codes are redeemed at a time and the database
\* works, a recovery code is accepted once, also when its batch is replaced or
\* deleted meanwhile.
RecoveryCodesUsedOnce ==
  excused \cap {"recovery", "database"} = {} => again \cap RecoveryCode = {}

\* Nothing of an enrolment that is over opens the account: when no enrolment or
\* disabling is under way, none overlapped and none was cut off, the recovery
\* codes on file are all those of the last confirmation, or none.
CodesOfThisEnrolment ==
  /\ excused \cap {"enrolment", "cutoff"} = {}
  /\ \A w \in Workers : "enrolment" \notin Touches(request[w])
  => {c.code : c \in codes} = IF row.enabled THEN Batch(batches) ELSE {}

\* A step that has not begun is never taken for one that was used, however
\* requests overlap and statements fail: a user is not locked out of the future.
NeverLockedOut ==
  /\ row.lastStep <= now
  /\ \A w \in Workers : request[w].pc \in {"compare", "set"} => request[w].step <= now

\* What the code and its documents say, without a condition.

\* "preventing the same physical code from being used a second time within its
\* validity window", totp.go.
CodeAcceptedOnce == \A a, b \in Acceptances : a.code = b.code => a = b
=============================================================================
