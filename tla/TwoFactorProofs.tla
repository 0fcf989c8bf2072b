-------------------------- MODULE TwoFactorProofs --------------------------
(* Theorems about TwoFactor, for any number of requests at a time, any skew, *)
(* any number of recovery codes, and with a database that fails or not.      *)
EXTENDS TwoFactor, TLAPS

-----------------------------------------------------------------------------
(* The inductive invariant *)

Request == {Idle} \cup Starting \cup Confirming \cup Checking \cup Redeeming

Enrols(r) == r.pc \in {"start", "enable"}
Confirms(r) == r.pc \in {"enable", "delete", "insert"}
Checks(r) == r.pc \in {"validate", "read", "compare", "set", "disable", "clean"}
Redeems(r) == r.pc \in {"lookup", "mark"}
ChangesEnrolment(r) == r.pc = "start" \/ Confirms(r) \/ (Checks(r) /\ r.op = "disable")

TypeInv ==
  /\ TypeOK
  /\ codes \subseteq [code : RecoveryCode, used : BOOLEAN]
  /\ row.enabled => row.secret # 0
  /\ \A w \in Workers :
       /\ request[w].pc \in {"compare", "set"} => request[w].step \in 1..now
       /\ request[w].pc \in {"validate", "read", "compare", "set"} => request[w].code.secret <= secrets
       /\ request[w].pc \in {"read", "compare", "set"} => request[w].code.secret = request[w].secret

\* Two requests that work on the same thing at a time are noted.
AloneInv ==
  \A v, w \in Workers : v # w =>
    /\ Checks(request[v]) /\ Checks(request[w]) => "totp" \in excused
    /\ Redeems(request[v]) /\ Redeems(request[w]) => "recovery" \in excused
    /\ ChangesEnrolment(request[v]) /\ ChangesEnrolment(request[w]) => "enrolment" \in excused

\* A batch that no confirmation is going to insert any more.
Done(b) == b <= batches /\ \A w \in Workers : Confirms(request[w]) => request[w].batch # b

BatchInv ==
  /\ \A w \in Workers : Confirms(request[w]) => request[w].batch <= batches
  /\ \A v, w \in Workers : v # w /\ Confirms(request[v]) /\ Confirms(request[w])
       => request[v].batch # request[w].batch
  /\ \A c \in codes : Done(c.code.batch)
  /\ \A a \in accepted \cap RecoveryCode : Done(a.batch)
  /\ \A w \in Workers : request[w].pc = "mark" => Done(request[w].recovery.batch)

\* While redemptions take turns: a code that was accepted is marked or gone.
RecoveryInv ==
  excused \cap {"recovery", "database"} = {} =>
    /\ again \cap RecoveryCode = {}
    /\ \A c \in codes : c.code \in accepted => c.used
    /\ \A w \in Workers : request[w].pc = "mark" => request[w].recovery \notin accepted

\* While checks and changes of the enrolment take turns: the check is of the
\* secret of the row, what was accepted of that secret is not after the last
\* step, and what was accepted of another one is over.
TOTPInv ==
  excused \cap {"totp", "enrolment", "database"} = {} =>
    /\ again \cap Acceptance = {}
    /\ \A a, b \in Acceptances : a.in = b.in /\ a.code.secret = b.code.secret => a = b
    /\ \A a \in Acceptances :
         /\ a.code.secret <= secrets /\ a.code.secret # row.pending
         /\ a.code.secret = row.secret => a.in <= row.lastStep
         /\ \A w \in Workers : Enrols(request[w]) => a.code.secret # request[w].secret
    /\ row.enabled => row.pending = 0
    /\ \A w \in Workers :
         /\ Enrols(request[w]) => ~row.enabled
         /\ request[w].pc \in {"validate", "read", "compare", "set"}
              => row.enabled /\ row.secret = request[w].secret
         /\ request[w].pc = "set" => request[w].step > row.lastStep

\* While changes of the enrolment take turns and none is cut off: where one that
\* is under way has come to.
Settled == {c.code : c \in codes} = IF row.enabled THEN Batch(batches) ELSE {}
EnrolmentInv ==
  excused \cap {"enrolment", "cutoff"} = {} =>
    /\ (\A w \in Workers : ~Confirms(request[w]) /\ request[w].pc # "clean") => Settled
    /\ \A w \in Workers :
         /\ Enrols(request[w]) => ~row.enabled
         /\ request[w].pc \in {"delete", "insert"} => row.enabled
         /\ request[w].pc = "clean" => ~row.enabled /\ request[w].op = "disable"
         /\ request[w].pc = "disable" => request[w].op = "disable"
         /\ Confirms(request[w]) => codes = {} /\ request[w].batch = batches

FactorInv ==
  TypeInv /\ AloneInv /\ NeverLockedOut /\ BatchInv /\ RecoveryInv /\ TOTPInv /\ EnrolmentInv

-----------------------------------------------------------------------------
(* Requests *)

\* What kind of request is at which point.
LEMMA Kinds ==
  ASSUME TypeOK, NEW w \in Workers
  PROVE  /\ request[w] \in Request
         /\ request[w].pc = "start" => request[w] \in Starting
         /\ Confirms(request[w]) => request[w] \in Confirming
         /\ Checks(request[w]) => request[w] \in Checking
         /\ Redeems(request[w]) => request[w] \in Redeeming
<1>1. request[w] \in Request
  BY DEF TypeOK, Request
<1>2. ASSUME NEW r \in Request
      PROVE  /\ r.pc = "start" => r \in Starting
             /\ Confirms(r) => r \in Confirming
             /\ Checks(r) => r \in Checking
             /\ Redeems(r) => r \in Redeeming
  <2>1. Idle.pc = "idle"
    BY DEF Idle
  <2>2. r \in Starting => r.pc = "start"
    BY DEF Starting
  <2>3. r \in Confirming => r.pc \in {"enable", "delete", "insert"}
    BY DEF Confirming
  <2>4. r \in Checking => r.pc \in {"validate", "read", "compare", "set", "disable", "clean"}
    BY DEF Checking
  <2>5. r \in Redeeming => r.pc \in {"lookup", "mark"}
    BY DEF Redeeming
  <2> QED
    BY <2>1, <2>2, <2>3, <2>4, <2>5 DEF Request, Confirms, Checks, Redeems
<1> QED
  BY <1>1, <1>2

LEMMA OneRequest ==
  ASSUME TypeOK, NEW w \in Workers, NEW r \in Request, request' = [request EXCEPT ![w] = r]
  PROVE  /\ request' \in [Workers -> Request] /\ request'[w] = r
         /\ \A v \in Workers \ {w} : request'[v] = request[v]
  BY DEF TypeOK, Request

LEMMA Finished ==
  ASSUME TypeOK, NEW w \in Workers, Finish(w)
  PROVE  /\ request' \in [Workers -> Request] /\ request'[w].pc = "idle"
         /\ \A v \in Workers \ {w} : request'[v] = request[v]
<1>1. Idle \in Request /\ Idle.pc = "idle"
  BY DEF Request, Idle
<1>2. request' = [request EXCEPT ![w] = Idle]
  BY DEF Finish
<1> QED
  BY <1>1, <1>2, OneRequest

\* The points a check and a confirmation go on to.
LEMMA CheckGoesOn ==
  ASSUME TypeOK, NEW w \in Workers, Checks(request[w]),
         NEW pc \in {"read", "compare", "set", "disable", "clean"}, Goto(w, pc)
  PROVE  /\ request' \in [Workers -> Request] /\ request'[w].pc = pc
         /\ request'[w].op = request[w].op /\ request'[w].secret = request[w].secret
         /\ request'[w].code = request[w].code /\ request'[w].step = request[w].step
         /\ \A v \in Workers \ {w} : request'[v] = request[v]
<1> DEFINE r == [request[w] EXCEPT !.pc = pc]
<1>1. request[w] \in Checking
  BY Kinds
<1>2. /\ r \in Checking /\ r.pc = pc /\ r.op = request[w].op /\ r.secret = request[w].secret
      /\ r.code = request[w].code /\ r.step = request[w].step
  BY <1>1 DEF Checking
<1>3. request' = [request EXCEPT ![w] = r]
  BY DEF Goto
<1> HIDE DEF r
<1>4. r \in Request
  BY <1>2 DEF Request
<1> QED
  BY <1>2, <1>3, <1>4, OneRequest

-----------------------------------------------------------------------------
(* What keeps each part of the invariant *)

LEMMA AloneKept ==
  ASSUME AloneInv, excused \subseteq excused',
         \A v \in Workers :
           /\ Checks(request'[v]) => Checks(request[v])
           /\ Redeems(request'[v]) => Redeems(request[v])
           /\ ChangesEnrolment(request'[v]) => ChangesEnrolment(request[v])
  PROVE  AloneInv'
<1>1. \A v, w \in Workers : v # w =>
    /\ Checks(request'[v]) /\ Checks(request'[w]) => "totp" \in excused'
    /\ Redeems(request'[v]) /\ Redeems(request'[w]) => "recovery" \in excused'
    /\ ChangesEnrolment(request'[v]) /\ ChangesEnrolment(request'[w]) => "enrolment" \in excused'
  BY DEF AloneInv
<1> QED
  BY <1>1 DEF AloneInv, Checks, Redeems, ChangesEnrolment, Confirms

\* A batch that is done stays so as long as nobody confirms with it.
LEMMA BatchKept ==
  ASSUME BatchInv, batches' = batches, accepted' \cap RecoveryCode = accepted \cap RecoveryCode,
         \A c \in codes' : \E d \in codes : d.code = c.code,
         \A v \in Workers :
           /\ Confirms(request'[v]) => Confirms(request[v]) /\ request'[v].batch = request[v].batch
           /\ request'[v].pc = "mark" =>
                /\ \/ request[v].pc = "mark"
                   \/ \E c \in codes : c.code = request[v].recovery
                /\ request'[v].recovery = request[v].recovery
  PROVE  BatchInv'
<1> DEFINE D(b) == b <= batches /\ \A w \in Workers : Confirms(request'[w]) => request'[w].batch # b
<1>1. ASSUME NEW b, Done(b) PROVE D(b)
  BY <1>1 DEF Done
<1>2. /\ \A c \in codes' : D(c.code.batch)
      /\ \A a \in accepted' \cap RecoveryCode : D(a.batch)
      /\ \A w \in Workers : request'[w].pc = "mark" => D(request'[w].recovery.batch)
  <2>1. \A c \in codes : D(c.code.batch)
    BY <1>1 DEF BatchInv
  <2>2. \A a \in accepted \cap RecoveryCode : D(a.batch)
    BY <1>1 DEF BatchInv
  <2>3. \A w \in Workers : request[w].pc = "mark" => D(request[w].recovery.batch)
    BY <1>1 DEF BatchInv
  <2> HIDE DEF D
  <2> QED
    BY <2>1, <2>2, <2>3
<1>3. /\ \A w \in Workers : Confirms(request'[w]) => request'[w].batch <= batches
      /\ \A v, w \in Workers : v # w /\ Confirms(request'[v]) /\ Confirms(request'[w])
           => request'[v].batch # request'[w].batch
  BY DEF BatchInv
<1> QED
  BY <1>2, <1>3 DEF BatchInv, Done, Confirms

LEMMA RecoveryKept ==
  ASSUME TypeInv, RecoveryInv, excused \subseteq excused',
         again' \cap RecoveryCode = again \cap RecoveryCode,
         accepted' \cap RecoveryCode = accepted \cap RecoveryCode,
         codes' \subseteq codes,
         \A v \in Workers : request'[v].pc = "mark" =>
           request[v].pc = "mark" /\ request'[v].recovery = request[v].recovery
  PROVE  RecoveryInv'
<1> SUFFICES ASSUME excused' \cap {"recovery", "database"} = {}
             PROVE  /\ again' \cap RecoveryCode = {}
                    /\ \A c \in codes' : c.code \in accepted' => c.used
                    /\ \A w \in Workers : request'[w].pc = "mark" => request'[w].recovery \notin accepted'
  BY DEF RecoveryInv
<1>1. /\ again \cap RecoveryCode = {}
      /\ \A c \in codes : c.code \in accepted => c.used
      /\ \A w \in Workers : request[w].pc = "mark" => request[w].recovery \notin accepted
  BY DEF RecoveryInv
<1>2. \A c \in codes' : c \in codes /\ c.code \in RecoveryCode
  BY DEF TypeInv, TypeOK
<1>3. ASSUME NEW w \in Workers, request[w].pc = "mark" PROVE request[w].recovery \in RecoveryCode
  BY <1>3, Kinds DEF TypeInv, Redeems, Redeeming
<1> QED
  BY <1>1, <1>2, <1>3

LEMMA TOTPKept ==
  ASSUME TOTPInv, excused \subseteq excused', UNCHANGED <<row, secrets>>,
         again' \cap Acceptance = again \cap Acceptance, Acceptances' = Acceptances,
         \A v \in Workers :
           /\ Enrols(request'[v]) => Enrols(request[v]) /\ request'[v].secret = request[v].secret
           /\ request'[v].pc \in {"validate", "read", "compare", "set"} =>
                /\ request[v].pc \in {"validate", "read", "compare", "set"}
                /\ request'[v].secret = request[v].secret
           /\ request'[v].pc = "set" =>
                \/ request'[v].step > row.lastStep
                \/ request[v].pc = "set" /\ request'[v].step = request[v].step
  PROVE  TOTPInv'
<1> SUFFICES ASSUME excused' \cap {"totp", "enrolment", "database"} = {}
             PROVE  /\ again' \cap Acceptance = {}
                    /\ \A a, b \in Acceptances : a.in = b.in /\ a.code.secret = b.code.secret => a = b
                    /\ \A a \in Acceptances :
                         /\ a.code.secret <= secrets /\ a.code.secret # row.pending
                         /\ a.code.secret = row.secret => a.in <= row.lastStep
                         /\ \A w \in Workers : Enrols(request'[w]) => a.code.secret # request'[w].secret
                    /\ row.enabled => row.pending = 0
                    /\ \A w \in Workers :
                         /\ Enrols(request'[w]) => ~row.enabled
                         /\ request'[w].pc \in {"validate", "read", "compare", "set"}
                              => row.enabled /\ row.secret = request'[w].secret
                         /\ request'[w].pc = "set" => request'[w].step > row.lastStep
  BY DEF TOTPInv, Enrols
<1>1. excused \cap {"totp", "enrolment", "database"} = {}
  OBVIOUS
<1> QED
  BY <1>1 DEF TOTPInv

LEMMA EnrolmentKept ==
  ASSUME EnrolmentInv, excused \subseteq excused', UNCHANGED <<row, batches>>,
         {c.code : c \in codes'} = {c.code : c \in codes}, codes = {} => codes' = {},
         \A v \in Workers :
           /\ Confirms(request[v]) => Confirms(request'[v])
           /\ request[v].pc = "clean" => request'[v].pc = "clean"
           /\ Enrols(request'[v]) => Enrols(request[v])
           /\ request'[v].pc \in {"delete", "insert"} => request[v].pc \in {"delete", "insert"}
           /\ request'[v].pc = "clean" => request[v].pc = "clean" /\ request'[v].op = request[v].op
           /\ request'[v].pc = "disable" =>
                request'[v].op = "disable" \/ (request[v].pc = "disable" /\ request'[v].op = request[v].op)
           /\ Confirms(request'[v]) => Confirms(request[v]) /\ request'[v].batch = request[v].batch
  PROVE  EnrolmentInv'
<1> SUFFICES ASSUME excused' \cap {"enrolment", "cutoff"} = {}
             PROVE  /\ (\A w \in Workers : ~Confirms(request'[w]) /\ request'[w].pc # "clean")
                         => {c.code : c \in codes'} = IF row.enabled THEN Batch(batches) ELSE {}
                    /\ \A w \in Workers :
                         /\ Enrols(request'[w]) => ~row.enabled
                         /\ request'[w].pc \in {"delete", "insert"} => row.enabled
                         /\ request'[w].pc = "clean" => ~row.enabled /\ request'[w].op = "disable"
                         /\ request'[w].pc = "disable" => request'[w].op = "disable"
                         /\ Confirms(request'[w]) => codes' = {} /\ request'[w].batch = batches
  BY DEF EnrolmentInv, Settled, Enrols, Confirms, Batch
<1>1. excused \cap {"enrolment", "cutoff"} = {}
  OBVIOUS
<1> QED
  BY <1>1 DEF EnrolmentInv, Settled

\* A step of a request that changes nothing else but time or the history of
\* what promises are not made for: it goes on, or ends.
LEMMA FrameStep ==
  ASSUME BoundsOK, FactorInv, request' \in [Workers -> Request],
         UNCHANGED <<row, codes, secrets, batches, accepted, again>>,
         now' \in 1..MaxStep, now <= now',
         excused \subseteq excused', excused' \subseteq excused \cup {"cutoff"},
         "cutoff" \in excused' \/ \A v \in Workers :
           /\ Confirms(request[v]) => Confirms(request'[v])
           /\ request[v].pc = "clean" => request'[v].pc = "clean",
         \A v \in Workers :
           \/ request'[v] = request[v] \/ request'[v].pc = "idle"
           \/ /\ request[v].pc = "delete" /\ request'[v].pc = "insert"
              /\ request'[v].batch = request[v].batch
           \/ /\ Checks(request[v]) /\ request'[v].pc \in {"read", "compare", "set"}
              /\ request[v].pc \in {"validate", "read", "compare"}
              /\ request'[v].op = request[v].op /\ request'[v].secret = request[v].secret
              /\ request'[v].code = request[v].code
              /\ request'[v].code.secret = request'[v].secret
              /\ request'[v].pc \in {"compare", "set"} => request'[v].step \in 1..now
              /\ request'[v].pc = "set" => request'[v].step > row.lastStep
           \/ /\ request[v].pc = "lookup" /\ request'[v].pc = "mark"
              /\ request'[v].recovery = request[v].recovery
              /\ \E c \in codes : c.code = request[v].recovery /\ ~c.used
  PROVE  FactorInv'
<1>0. TypeInv /\ TypeOK /\ now \in Nat
  BY DEF FactorInv, TypeInv, TypeOK, Steps, BoundsOK
<1>1. \A v \in Workers :
        /\ Checks(request'[v]) => Checks(request[v]) /\ request'[v].op = request[v].op
        /\ Redeems(request'[v]) => Redeems(request[v]) /\ request'[v].recovery = request[v].recovery
        /\ ChangesEnrolment(request'[v]) => ChangesEnrolment(request[v])
        /\ Confirms(request'[v]) => Confirms(request[v]) /\ request'[v].batch = request[v].batch
        /\ Enrols(request'[v]) => Enrols(request[v]) /\ request'[v].secret = request[v].secret
  BY DEF Checks, Redeems, ChangesEnrolment, Confirms, Enrols
<1>2. TypeInv'
  <2>1. TypeOK'
    BY <1>0 DEF TypeOK, Request, Steps
  <2>2. ASSUME NEW v \in Workers
        PROVE  /\ request'[v].pc \in {"compare", "set"} => request'[v].step \in 1..now'
               /\ request'[v].pc \in {"validate", "read", "compare", "set"} => request'[v].code.secret <= secrets
               /\ request'[v].pc \in {"read", "compare", "set"} => request'[v].code.secret = request'[v].secret
    <3>1. /\ request[v].pc \in {"compare", "set"} => request[v].step \in 1..now
          /\ request[v].pc \in {"validate", "read", "compare", "set"} => request[v].code.secret <= secrets
          /\ request[v].pc \in {"read", "compare", "set"} => request[v].code.secret = request[v].secret
      BY DEF FactorInv, TypeInv
    <3> QED
      BY <1>0, <3>1
  <2> QED
    BY <1>0, <2>1, <2>2 DEF TypeInv, RecoveryCode
<1>3. AloneInv'
  BY <1>1, AloneKept DEF FactorInv
<1>4. NeverLockedOut'
  <2>1. row.lastStep <= now /\ row.lastStep \in Nat
    BY <1>0 DEF FactorInv, NeverLockedOut, TypeOK, Columns, BoundsOK
  <2>2. \A w \in Workers : request'[w].pc \in {"compare", "set"} => request'[w].step <= now'
    BY <1>2 DEF TypeInv
  <2> QED
    BY <1>0, <2>1, <2>2 DEF NeverLockedOut
<1>5. BatchInv'
  <2>1. \A v \in Workers : request'[v].pc = "mark" =>
          /\ \/ request[v].pc = "mark"
             \/ \E c \in codes : c.code = request[v].recovery
          /\ request'[v].recovery = request[v].recovery
    BY <1>1 DEF Redeems
  <2> QED
    BY <1>1, <2>1, BatchKept DEF FactorInv
<1>6. RecoveryInv'
  <2> SUFFICES ASSUME excused' \cap {"recovery", "database"} = {}
               PROVE  /\ again \cap RecoveryCode = {}
                      /\ \A c \in codes : c.code \in accepted => c.used
                      /\ \A w \in Workers : request'[w].pc = "mark" => request'[w].recovery \notin accepted
    BY DEF RecoveryInv
  <2>1. /\ again \cap RecoveryCode = {}
        /\ \A c \in codes : c.code \in accepted => c.used
        /\ \A w \in Workers : request[w].pc = "mark" => request[w].recovery \notin accepted
    BY DEF FactorInv, RecoveryInv
  <2> QED
    BY <2>1
<1>7. TOTPInv'
  <2>1. \A v \in Workers :
          /\ request'[v].pc \in {"validate", "read", "compare", "set"} =>
               /\ request[v].pc \in {"validate", "read", "compare", "set"}
               /\ request'[v].secret = request[v].secret
          /\ request'[v].pc = "set" =>
               \/ request'[v].step > row.lastStep
               \/ request[v].pc = "set" /\ request'[v].step = request[v].step
    OBVIOUS
  <2>2. Acceptances' = Acceptances
    BY DEF Acceptances, Acceptance, TOTPCode
  <2> QED
    BY <1>1, <2>1, <2>2, TOTPKept DEF FactorInv
<1>8. EnrolmentInv'
  <2>1. CASE "cutoff" \in excused'
    BY <2>1 DEF EnrolmentInv
  <2>2. CASE "cutoff" \notin excused'
    <3>1. \A v \in Workers :
           /\ Confirms(request[v]) => Confirms(request'[v])
           /\ request[v].pc = "clean" => request'[v].pc = "clean"
           /\ request'[v].pc \in {"delete", "insert"} => request[v].pc \in {"delete", "insert"}
           /\ request'[v].pc = "clean" => request[v].pc = "clean" /\ request'[v].op = request[v].op
           /\ request'[v].pc = "disable" =>
                request'[v].op = "disable" \/ (request[v].pc = "disable" /\ request'[v].op = request[v].op)
      BY <2>2
    <3> QED
      BY <1>1, <3>1, EnrolmentKept DEF FactorInv
  <2> QED
    BY <2>1, <2>2
<1> QED
  BY <1>2, <1>3, <1>4, <1>5, <1>6, <1>7, <1>8 DEF FactorInv

-----------------------------------------------------------------------------
(* The actions: requests begin *)

LEMMA TouchesIs ==
  ASSUME NEW r \in Request
  PROVE  /\ Checks(r) => "totp" \in Touches(r)
         /\ Redeems(r) => "recovery" \in Touches(r)
         /\ ChangesEnrolment(r) => "enrolment" \in Touches(r)
         /\ Touches(r) \subseteq {"totp", "enrolment", "recovery"}
<1>1. CASE r \in {Idle} \cup Starting
  BY <1>1 DEF Touches, Idle, Starting, Checks, Redeems, ChangesEnrolment, Confirms
<1>2. CASE r \in Confirming
  BY <1>2 DEF Touches, Confirming, Checks, Redeems, ChangesEnrolment, Confirms
<1>3. CASE r \in Checking
  <2>1. Touches(r) = IF r.op = "login" THEN {"totp"} ELSE {"totp", "enrolment"}
    BY <1>3 DEF Touches, Checking
  <2> QED
    BY <1>3, <2>1 DEF Checking, Checks, Redeems, ChangesEnrolment, Confirms
<1>4. CASE r \in Redeeming
  BY <1>4 DEF Touches, Redeeming, Checks, Redeems, ChangesEnrolment, Confirms
<1> QED
  BY <1>1, <1>2, <1>3, <1>4 DEF Request

LEMMA Begun ==
  ASSUME TypeOK, AloneInv, NEW w \in Workers, NEW r \in Request, Begin(w, r)
  PROVE  /\ request' \in [Workers -> Request] /\ request'[w] = r /\ request[w].pc = "idle"
         /\ \A v \in Workers \ {w} : request'[v] = request[v]
         /\ excused \subseteq excused'
         /\ excused' \subseteq {"totp", "enrolment", "recovery", "cutoff", "database"}
         /\ \A v \in Workers \ {w} :
              /\ Checks(r) /\ Checks(request[v]) => "totp" \in excused'
              /\ Redeems(r) /\ Redeems(request[v]) => "recovery" \in excused'
              /\ ChangesEnrolment(r) /\ ChangesEnrolment(request[v]) => "enrolment" \in excused'
         /\ AloneInv'
<1>1. /\ request' = [request EXCEPT ![w] = r] /\ request[w].pc = "idle"
      /\ excused' = excused \cup UNION {Touches(r) \cap Touches(request[v]) : v \in Workers}
  BY DEF Begin, Idle
<1>2. /\ request' \in [Workers -> Request] /\ request'[w] = r
      /\ \A v \in Workers \ {w} : request'[v] = request[v]
  BY <1>1, OneRequest
<1>3. \A v \in Workers : request[v] \in Request
  BY Kinds
<1>4. excused' \subseteq {"totp", "enrolment", "recovery", "cutoff", "database"}
  BY <1>1, TouchesIs DEF TypeOK
<1>5. \A v \in Workers :
        /\ Checks(r) /\ Checks(request[v]) => "totp" \in excused'
        /\ Redeems(r) /\ Redeems(request[v]) => "recovery" \in excused'
        /\ ChangesEnrolment(r) /\ ChangesEnrolment(request[v]) => "enrolment" \in excused'
  BY <1>1, <1>3, TouchesIs
<1>6. \A u, v \in Workers : u # v =>
        /\ Checks(request'[u]) /\ Checks(request'[v]) => "totp" \in excused'
        /\ Redeems(request'[u]) /\ Redeems(request'[v]) => "recovery" \in excused'
        /\ ChangesEnrolment(request'[u]) /\ ChangesEnrolment(request'[v]) => "enrolment" \in excused'
  <2>1. \A u, v \in Workers : u # v =>
        /\ Checks(request[u]) /\ Checks(request[v]) => "totp" \in excused'
        /\ Redeems(request[u]) /\ Redeems(request[v]) => "recovery" \in excused'
        /\ ChangesEnrolment(request[u]) /\ ChangesEnrolment(request[v]) => "enrolment" \in excused'
    BY <1>1 DEF AloneInv
  <2> QED
    BY <1>2, <1>5, <2>1
<1>7. AloneInv'
  BY <1>6 DEF AloneInv, Checks, Redeems, ChangesEnrolment, Confirms
<1> QED
  BY <1>1, <1>2, <1>4, <1>5, <1>7

\* What is left to show of a request that begins: its own part.
LEMMA BeginStep ==
  ASSUME BoundsOK, FactorInv, NEW w \in Workers, NEW r \in Request, Begin(w, r),
         UNCHANGED <<now, table, accepted, again>>,
         secrets' \in 0..MaxSecret, secrets <= secrets',
         batches' \in 0..MaxBatch, batches <= batches',
         r.pc \in {"start", "enable", "validate", "lookup"},
         r.pc = "start" => ~row.enabled /\ r.secret > secrets,
         r.pc = "enable" => ~row.enabled /\ r.secret = row.pending /\ r.batch = batches + 1,
         r.pc = "validate" =>
           row.enabled /\ r.secret = row.secret /\ r.code.secret <= secrets,
         IF r.pc = "enable" THEN batches' = batches + 1 ELSE batches' = batches
  PROVE  FactorInv'
<1>0. TypeInv /\ TypeOK /\ AloneInv /\ UNCHANGED <<row, codes>>
  BY DEF FactorInv, TypeInv, table
<1>1. /\ request' \in [Workers -> Request] /\ request'[w] = r /\ request[w].pc = "idle"
      /\ \A v \in Workers \ {w} : request'[v] = request[v]
      /\ excused \subseteq excused'
      /\ excused' \subseteq {"totp", "enrolment", "recovery", "cutoff", "database"}
      /\ \A v \in Workers \ {w} :
           /\ Checks(r) /\ Checks(request[v]) => "totp" \in excused'
           /\ Redeems(r) /\ Redeems(request[v]) => "recovery" \in excused'
           /\ ChangesEnrolment(r) /\ ChangesEnrolment(request[v]) => "enrolment" \in excused'
      /\ AloneInv'
  BY <1>0, Begun
<1>2. now \in Nat /\ secrets \in Nat /\ secrets' \in Nat /\ batches \in Nat /\ batches' \in Nat
  BY <1>0 DEF TypeOK, Steps, BoundsOK
<1>3. TypeInv'
  <2>1. TypeOK'
    BY <1>0, <1>1 DEF TypeOK, Request
  <2>2. ASSUME NEW v \in Workers
        PROVE  /\ request'[v].pc \in {"compare", "set"} => request'[v].step \in 1..now
               /\ request'[v].pc \in {"validate", "read", "compare", "set"} => request'[v].code.secret <= secrets'
               /\ request'[v].pc \in {"read", "compare", "set"} => request'[v].code.secret = request'[v].secret
    <3>1. CASE v = w
      <4>1. r.pc = "validate" => r.code.secret \in Nat
        <5>1. r.pc = "validate" => r \in Checking
          BY DEF Request, Idle, Starting, Confirming, Redeeming
        <5>2. \A c \in TOTPCode : c.secret \in Nat
          BY DEF TOTPCode, Secrets, BoundsOK
        <5> QED
          BY <5>1, <5>2 DEF Checking
      <4> QED
        BY <1>1, <1>2, <3>1, <4>1
    <3>2. CASE v # w
      <4>1. request[v].pc \in {"validate", "read", "compare", "set"} => request[v].code.secret \in Nat
        <5>1. request[v].pc \in {"validate", "read", "compare", "set"} => request[v] \in Checking
          BY <1>0, Kinds DEF Checks
        <5>2. \A c \in TOTPCode : c.secret \in Nat
          BY DEF TOTPCode, Secrets, BoundsOK
        <5> QED
          BY <5>1, <5>2 DEF Checking
      <4> QED
        BY <1>0, <1>1, <1>2, <3>2, <4>1 DEF TypeInv
    <3> QED
      BY <3>1, <3>2
  <2> QED
    BY <1>0, <2>1, <2>2 DEF TypeInv, RecoveryCode
<1>4. NeverLockedOut'
  BY <1>0, <1>1 DEF FactorInv, NeverLockedOut
<1>5. BatchInv'
  <2> DEFINE D(b) == b <= batches' /\ \A v \in Workers : Confirms(request'[v]) => request'[v].batch # b
  <2>1. ASSUME NEW b \in Nat, Done(b) PROVE D(b)
    BY <1>1, <1>2, <2>1 DEF Done, Confirms
  <2>2. \A c \in RecoveryCode : c.batch \in Nat
    BY DEF RecoveryCode, BoundsOK
  <2>3. \A c \in codes : D(c.code.batch)
    <3>1. \A c \in codes : c.code.batch \in Nat /\ Done(c.code.batch)
      BY <1>0, <2>2 DEF TypeOK, FactorInv, BatchInv
    <3> QED
      BY <2>1, <3>1
  <2>4. \A a \in accepted \cap RecoveryCode : D(a.batch)
    BY <2>1, <2>2 DEF FactorInv, BatchInv
  <2>5. \A v \in Workers : request[v].pc = "mark" => D(request[v].recovery.batch)
    <3>1. \A v \in Workers : request[v].pc = "mark" =>
            request[v].recovery \in RecoveryCode /\ Done(request[v].recovery.batch)
      BY <1>0, Kinds DEF Redeems, Redeeming, FactorInv, BatchInv
    <3> QED
      BY <2>1, <2>2, <3>1
  <2> HIDE DEF D
  <2>6. \A v \in Workers : request'[v].pc = "mark" => D(request'[v].recovery.batch)
    BY <1>1, <2>5
  <2>7. \A v \in Workers : Confirms(request[v]) => request[v].batch \in Nat /\ request[v].batch <= batches
    BY <1>0, Kinds DEF Confirming, FactorInv, BatchInv, BoundsOK
  <2>8. /\ \A v \in Workers : Confirms(request'[v]) => request'[v].batch <= batches'
        /\ \A u, v \in Workers : u # v /\ Confirms(request'[u]) /\ Confirms(request'[v])
             => request'[u].batch # request'[v].batch
    <3>1. Confirms(r) => r.batch = batches + 1 /\ batches' = batches + 1
      BY DEF Confirms
    <3>2. \A u, v \in Workers : u # v /\ Confirms(request[u]) /\ Confirms(request[v])
             => request[u].batch # request[v].batch
      BY DEF FactorInv, BatchInv
    <3> QED
      BY <1>1, <1>2, <2>7, <3>1, <3>2
  <2> QED
    BY <1>0, <2>3, <2>4, <2>6, <2>8 DEF BatchInv, Done, Confirms, D, RecoveryCode
<1>6. RecoveryInv'
  BY <1>0, <1>1, RecoveryKept DEF FactorInv, RecoveryCode
<1>7. TOTPInv'
  <2> SUFFICES ASSUME excused' \cap {"totp", "enrolment", "database"} = {}
               PROVE  /\ again \cap Acceptance = {}
                      /\ \A a, b \in Acceptances : a.in = b.in /\ a.code.secret = b.code.secret => a = b
                      /\ \A a \in Acceptances :
                           /\ a.code.secret <= secrets' /\ a.code.secret # row.pending
                           /\ a.code.secret = row.secret => a.in <= row.lastStep
                           /\ \A v \in Workers : Enrols(request'[v]) => a.code.secret # request'[v].secret
                      /\ row.enabled => row.pending = 0
                      /\ \A v \in Workers :
                           /\ Enrols(request'[v]) => ~row.enabled
                           /\ request'[v].pc \in {"validate", "read", "compare", "set"}
                                => row.enabled /\ row.secret = request'[v].secret
                           /\ request'[v].pc = "set" => request'[v].step > row.lastStep
    BY <1>0 DEF TOTPInv, Enrols, Acceptances, Acceptance, TOTPCode
  <2>1. excused \cap {"totp", "enrolment", "database"} = {}
    BY <1>1
  <2>2. \A a \in Acceptances : a.code.secret \in Nat
    BY DEF Acceptances, Acceptance, TOTPCode, Secrets, BoundsOK
  <2>3. /\ Enrols(r) => ~row.enabled /\ (r.secret = row.pending \/ r.secret > secrets)
        /\ r.pc \in {"validate", "read", "compare", "set"} => row.enabled /\ row.secret = r.secret
        /\ r.pc # "set"
    BY DEF Enrols
  <2>4. \A a \in Acceptances : Enrols(r) => a.code.secret # r.secret
    <3>1. r.secret > secrets => \A a \in Acceptances : a.code.secret # r.secret
      BY <1>2, <2>1, <2>2 DEF FactorInv, TOTPInv
    <3> QED
      BY <2>1, <2>3, <3>1 DEF FactorInv, TOTPInv
  <2>5. \A a \in Acceptances : a.code.secret <= secrets'
    BY <1>2, <2>1, <2>2 DEF FactorInv, TOTPInv
  <2> QED
    BY <1>1, <2>1, <2>3, <2>4, <2>5 DEF FactorInv, TOTPInv
<1>8. EnrolmentInv'
  <2> SUFFICES ASSUME excused' \cap {"enrolment", "cutoff"} = {}
               PROVE  /\ (\A v \in Workers : ~Confirms(request'[v]) /\ request'[v].pc # "clean")
                           => {c.code : c \in codes} = IF row.enabled THEN Batch(batches') ELSE {}
                      /\ \A v \in Workers :
                           /\ Enrols(request'[v]) => ~row.enabled
                           /\ request'[v].pc \in {"delete", "insert"} => row.enabled
                           /\ request'[v].pc = "clean" => ~row.enabled /\ request'[v].op = "disable"
                           /\ request'[v].pc = "disable" => request'[v].op = "disable"
                           /\ Confirms(request'[v]) => codes = {} /\ request'[v].batch = batches'
    BY <1>0 DEF EnrolmentInv, Settled, Enrols, Confirms, Batch
  <2>1. excused \cap {"enrolment", "cutoff"} = {}
    BY <1>1
  <2>2. /\ (\A v \in Workers : ~Confirms(request[v]) /\ request[v].pc # "clean") => Settled
        /\ \A v \in Workers :
             /\ Enrols(request[v]) => ~row.enabled
             /\ request[v].pc \in {"delete", "insert"} => row.enabled
             /\ request[v].pc = "clean" => ~row.enabled /\ request[v].op = "disable"
             /\ request[v].pc = "disable" => request[v].op = "disable"
             /\ Confirms(request[v]) => codes = {} /\ request[v].batch = batches
    BY <2>1 DEF FactorInv, EnrolmentInv
  <2>3. CASE r.pc = "enable"
    <3>1. ChangesEnrolment(r) /\ Confirms(r) /\ \A v \in Workers \ {w} : ~ChangesEnrolment(request[v])
      BY <1>1, <2>3 DEF ChangesEnrolment, Confirms
    <3>2. \A v \in Workers : ~Confirms(request[v]) /\ request[v].pc # "clean"
      BY <1>1, <2>2, <3>1 DEF ChangesEnrolment, Confirms, Checks
    <3>3. {c.code : c \in codes} = {} /\ ~row.enabled
      BY <2>2, <2>3, <3>2 DEF Settled
    <3>4. codes = {}
      BY <3>3
    <3>5. \A v \in Workers \ {w} : ~Confirms(request'[v])
      BY <1>1, <3>2
    <3> QED
      BY <1>1, <2>2, <2>3, <3>1, <3>3, <3>4, <3>5
  <2>4. CASE r.pc # "enable"
    <3>1. batches' = batches /\ ~Confirms(r) /\ r.pc # "clean" /\ r.pc # "disable"
          /\ r.pc \notin {"delete", "insert"} /\ (Enrols(r) => ~row.enabled)
      BY <2>4 DEF Confirms, Enrols
    <3>2. ~Confirms(request[w]) /\ request[w].pc # "clean"
      BY <1>1 DEF Confirms
    <3>3. (\A v \in Workers : ~Confirms(request'[v]) /\ request'[v].pc # "clean") => Settled
      BY <1>1, <2>2, <3>2
    <3> QED
      BY <1>1, <2>2, <3>1, <3>3 DEF Settled
  <2> QED
    BY <2>3, <2>4
<1> QED
  BY <1>1, <1>3, <1>4, <1>5, <1>6, <1>7, <1>8 DEF FactorInv

LEMMA RequestsBegin ==
  ASSUME BoundsOK, FactorInv, NEW w \in Workers,
         \/ Profile2FAStart(w) \/ Profile2FAConfirm(w)
         \/ \E op \in {"login", "disable"}, code \in [secret : 1..secrets, step : Steps] :
              PresentCode(w, op, code)
         \/ \E code \in [batch : 1..batches, n : 1..BatchSize] : PresentRecoveryCode(w, code)
  PROVE  FactorInv'
<1>0. /\ row \in Columns /\ secrets \in 0..MaxSecret /\ batches \in 0..MaxBatch
      /\ secrets \in Nat /\ batches \in Nat
      /\ row.secret \in 0..MaxSecret /\ row.pending \in 0..MaxSecret /\ row.enabled \in BOOLEAN
  BY DEF FactorInv, TypeInv, TypeOK, Columns, BoundsOK
<1>1. CASE Profile2FAStart(w)
  <2> DEFINE r == [pc |-> "start", secret |-> secrets + 1]
  <2>1. /\ ~row.enabled /\ secrets < MaxSecret /\ secrets' = secrets + 1 /\ Begin(w, r)
        /\ UNCHANGED <<now, table, batches, accepted, again>>
    BY <1>1 DEF Profile2FAStart
  <2>2. secrets + 1 \in Secrets /\ secrets' \in 0..MaxSecret
    BY <1>0, <2>1 DEF Secrets, BoundsOK
  <2>3. r \in Request /\ r.pc = "start" /\ r.secret > secrets
    BY <1>0, <2>2 DEF Request, Starting
  <2> HIDE DEF r
  <2> QED
    BY <1>0, <2>1, <2>2, <2>3, BeginStep
<1>2. CASE Profile2FAConfirm(w)
  <2> DEFINE r == [pc |-> "enable", secret |-> row.pending, batch |-> batches + 1, doomed |-> {}]
  <2>1. /\ ~row.enabled /\ row.pending # 0 /\ batches < MaxBatch /\ batches' = batches + 1
        /\ Begin(w, r) /\ UNCHANGED <<now, table, secrets, accepted, again>>
    BY <1>2 DEF Profile2FAConfirm
  <2>2. /\ row.pending \in Secrets /\ batches + 1 \in 1..MaxBatch /\ batches' \in 0..MaxBatch
    BY <1>0, <2>1 DEF Secrets, BoundsOK
  <2>3. r \in Request /\ r.pc = "enable" /\ r.secret = row.pending /\ r.batch = batches + 1
    BY <2>2 DEF Request, Confirming
  <2> HIDE DEF r
  <2> QED
    BY <1>0, <2>1, <2>2, <2>3, BeginStep
<1>3. CASE \E op \in {"login", "disable"}, code \in [secret : 1..secrets, step : Steps] :
             PresentCode(w, op, code)
  <2>1. PICK op \in {"login", "disable"}, code \in [secret : 1..secrets, step : Steps] :
          PresentCode(w, op, code)
    BY <1>3
  <2> DEFINE r == [pc |-> "validate", op |-> op, secret |-> row.secret, code |-> code, step |-> 0]
  <2>2. row.enabled /\ Begin(w, r) /\ UNCHANGED <<now, table, secrets, batches, accepted, again>>
    BY <2>1 DEF PresentCode
  <2>3. code \in TOTPCode /\ code.secret <= secrets
    BY <1>0 DEF TOTPCode, Secrets, BoundsOK
  <2>4. CASE row.secret # 0
    <3>1. row.secret \in Secrets /\ 0 \in 0..MaxStep
      BY <1>0, <2>4 DEF Secrets, BoundsOK
    <3>2. r \in Request /\ r.pc = "validate" /\ r.secret = row.secret /\ r.code = code
      BY <2>3, <3>1 DEF Request, Checking
    <3> HIDE DEF r
    <3> QED
      BY <1>0, <2>2, <2>3, <3>2, BeginStep
  <2>5. row.secret # 0
    BY <2>2 DEF FactorInv, TypeInv
  <2> QED
    BY <2>4, <2>5
<1>4. CASE \E code \in [batch : 1..batches, n : 1..BatchSize] : PresentRecoveryCode(w, code)
  <2>1. PICK code \in [batch : 1..batches, n : 1..BatchSize] : PresentRecoveryCode(w, code)
    BY <1>4
  <2> DEFINE r == [pc |-> "lookup", recovery |-> code]
  <2>2. Begin(w, r) /\ UNCHANGED <<now, table, secrets, batches, accepted, again>>
    BY <2>1 DEF PresentRecoveryCode
  <2>3. code \in RecoveryCode
    BY <1>0 DEF RecoveryCode, BoundsOK
  <2>4. r \in Request /\ r.pc = "lookup"
    BY <2>3 DEF Request, Redeeming
  <2> HIDE DEF r
  <2> QED
    BY <1>0, <2>2, <2>4, BeginStep
<1> QED
  BY <1>1, <1>2, <1>3, <1>4

-----------------------------------------------------------------------------
(* The actions: a request goes on or ends, and nothing else *)

LEMMA RequestsGoOn ==
  ASSUME BoundsOK, FactorInv, NEW w \in Workers,
         \/ ReplaceDeletes(w) \/ ValidateCode(w) \/ ReadClock(w) \/ GetTOTPLastStep(w)
         \/ GetUnusedRecoveryCodes(w) \/ CutOff(w)
  PROVE  FactorInv'
<1>0. /\ TypeInv /\ TypeOK /\ now \in 1..MaxStep /\ now \in Nat /\ row.lastStep \in Nat
      /\ excused \subseteq {"totp", "enrolment", "recovery", "cutoff", "database"}
  BY DEF FactorInv, TypeInv, TypeOK, Steps, Columns, BoundsOK
<1>1. CASE ReplaceDeletes(w)
  <2> DEFINE r == [request[w] EXCEPT !.pc = "insert", !.doomed = {c.code : c \in codes}]
  <2>1. request[w].pc = "delete" /\ UNCHANGED <<now, table, secrets, batches, history>>
    BY <1>1 DEF ReplaceDeletes
  <2>2. request[w] \in Confirming
    BY <1>0, <2>1, Kinds DEF Confirms
  <2>3. {c.code : c \in codes} \subseteq RecoveryCode
    BY <1>0 DEF TypeOK
  <2>4. r \in Confirming /\ r.pc = "insert" /\ r.batch = request[w].batch
    BY <2>2, <2>3 DEF Confirming
  <2>5. request' = [request EXCEPT ![w] = r] /\ r \in Request
    BY <1>1, <2>4 DEF ReplaceDeletes, Request
  <2> HIDE DEF r
  <2>6. /\ request' \in [Workers -> Request] /\ request'[w] = r
        /\ \A v \in Workers \ {w} : request'[v] = request[v]
    BY <1>0, <2>5, OneRequest
  <2>7. UNCHANGED <<now, row, codes, secrets, batches, accepted, again, excused>>
    BY <2>1 DEF table, history
  <2>8. \A v \in Workers :
           /\ Confirms(request[v]) => Confirms(request'[v])
           /\ request[v].pc = "clean" => request'[v].pc = "clean"
    BY <2>1, <2>4, <2>6 DEF Confirms
  <2>9. \A v \in Workers : request'[v] = request[v] \/
           (request[v].pc = "delete" /\ request'[v].pc = "insert" /\ request'[v].batch = request[v].batch)
    BY <2>1, <2>4, <2>6
  <2> QED
    BY <1>0, <2>6, <2>7, <2>8, <2>9, FrameStep
\* A request that ends, except a confirmation or the end of 2FA.
<1>2. ASSUME Finish(w), ~Confirms(request[w]), request[w].pc # "clean",
             UNCHANGED <<now, row, codes, secrets, batches, accepted, again, excused>>
      PROVE  FactorInv'
  <2>1. /\ request' \in [Workers -> Request] /\ request'[w].pc = "idle"
        /\ \A v \in Workers \ {w} : request'[v] = request[v]
    BY <1>0, <1>2, Finished
  <2>2. \A v \in Workers :
           /\ Confirms(request[v]) => Confirms(request'[v])
           /\ request[v].pc = "clean" => request'[v].pc = "clean"
    BY <1>2, <2>1
  <2>3. \A v \in Workers : request'[v] = request[v] \/ request'[v].pc = "idle"
    BY <2>1
  <2> QED
    BY <1>0, <1>2, <2>1, <2>2, <2>3, FrameStep
\* A check that goes on.
<1>3. ASSUME request[w].pc \in {"validate", "read", "compare"},
             request' \in [Workers -> Request],
             \A v \in Workers \ {w} : request'[v] = request[v],
             request'[w].pc \in {"read", "compare", "set"},
             request'[w].op = request[w].op, request'[w].secret = request[w].secret,
             request'[w].code = request[w].code, request'[w].code.secret = request'[w].secret,
             request'[w].pc \in {"compare", "set"} => request'[w].step \in 1..now,
             request'[w].pc = "set" => request'[w].step > row.lastStep,
             UNCHANGED <<now, table, secrets, batches, history>>
      PROVE  FactorInv'
  <2>1. UNCHANGED <<now, row, codes, secrets, batches, accepted, again, excused>>
    BY <1>3 DEF table, history
  <2>2. Checks(request[w]) /\ ~Confirms(request[w]) /\ request[w].pc # "clean"
    BY <1>3 DEF Checks, Confirms
  <2>3. \A v \in Workers :
           /\ Confirms(request[v]) => Confirms(request'[v])
           /\ request[v].pc = "clean" => request'[v].pc = "clean"
    BY <1>3, <2>2
  <2> QED
    BY <1>0, <1>3, <2>1, <2>2, <2>3, FrameStep
<1>4. CASE ValidateCode(w)
  <2>1. request[w].pc = "validate" /\ UNCHANGED <<now, table, secrets, batches, history>>
    BY <1>4 DEF ValidateCode
  <2>2. CASE Valid(request[w].code, request[w].secret)
    <3>1. Goto(w, "read") /\ request[w].code.secret = request[w].secret
      BY <1>4, <2>2 DEF ValidateCode, Valid
    <3>2. Checks(request[w])
      BY <2>1 DEF Checks
    <3>3. /\ request' \in [Workers -> Request] /\ request'[w].pc = "read"
          /\ request'[w].op = request[w].op /\ request'[w].secret = request[w].secret
          /\ request'[w].code = request[w].code
          /\ \A v \in Workers \ {w} : request'[v] = request[v]
      BY <1>0, <3>1, <3>2, CheckGoesOn
    <3> QED
      BY <1>3, <2>1, <3>1, <3>3
  <2>3. CASE ~Valid(request[w].code, request[w].secret)
    <3>1. Finish(w)
      BY <1>4, <2>3 DEF ValidateCode
    <3> QED
      BY <1>2, <2>1, <3>1 DEF Confirms, table, history
  <2> QED
    BY <2>2, <2>3
<1>5. CASE ReadClock(w)
  <2> DEFINE r == [request[w] EXCEPT !.pc = "compare", !.step = now]
  <2>1. request[w].pc = "read" /\ UNCHANGED <<now, table, secrets, batches, history>>
    BY <1>5 DEF ReadClock
  <2>2. request[w] \in Checking /\ request[w].code.secret = request[w].secret
    BY <1>0, <2>1, Kinds DEF Checks, TypeInv
  <2>3. now \in 0..MaxStep
    BY <1>0, BoundsOK DEF BoundsOK
  <2>4. /\ r \in Checking /\ r.pc = "compare" /\ r.step = now /\ r.op = request[w].op
        /\ r.secret = request[w].secret /\ r.code = request[w].code
    BY <2>2, <2>3 DEF Checking
  <2>5. request' = [request EXCEPT ![w] = r] /\ r \in Request
    BY <1>5, <2>4 DEF ReadClock, Request
  <2> HIDE DEF r
  <2>6. /\ request' \in [Workers -> Request] /\ request'[w] = r
        /\ \A v \in Workers \ {w} : request'[v] = request[v]
    BY <1>0, <2>5, OneRequest
  <2>7. now \in 1..now
    BY <1>0
  <2> QED
    BY <1>3, <2>1, <2>2, <2>4, <2>6, <2>7
<1>6. CASE GetTOTPLastStep(w)
  <2>1. request[w].pc = "compare" /\ UNCHANGED <<now, table, secrets, batches, history>>
    BY <1>6 DEF GetTOTPLastStep
  <2>2. /\ Checks(request[w]) /\ request[w].step \in 1..now
        /\ request[w].code.secret = request[w].secret
    BY <1>0, <2>1 DEF Checks, TypeInv
  <2>3. CASE IsReplay(request[w].step, row.lastStep)
    <3>1. Finish(w)
      BY <1>6, <2>3 DEF GetTOTPLastStep
    <3> QED
      BY <1>2, <2>1, <3>1 DEF Confirms, table, history
  <2>4. CASE ~IsReplay(request[w].step, row.lastStep)
    <3>1. Goto(w, "set") /\ request[w].step > row.lastStep
      BY <1>0, <1>6, <2>2, <2>4 DEF GetTOTPLastStep, IsReplay
    <3>2. /\ request' \in [Workers -> Request] /\ request'[w].pc = "set"
          /\ request'[w].op = request[w].op /\ request'[w].secret = request[w].secret
          /\ request'[w].code = request[w].code /\ request'[w].step = request[w].step
          /\ \A v \in Workers \ {w} : request'[v] = request[v]
      BY <1>0, <2>2, <3>1, CheckGoesOn
    <3> QED
      BY <1>3, <2>1, <2>2, <3>1, <3>2
  <2> QED
    BY <2>3, <2>4
<1>7. CASE GetUnusedRecoveryCodes(w)
  <2>1. request[w].pc = "lookup" /\ UNCHANGED <<now, table, secrets, batches, history>>
    BY <1>7 DEF GetUnusedRecoveryCodes
  <2>2. CASE request[w].recovery \in Unused
    <3> DEFINE r == [request[w] EXCEPT !.pc = "mark"]
    <3>1. request[w] \in Redeeming
      BY <1>0, <2>1, Kinds DEF Redeems
    <3>2. r \in Redeeming /\ r.pc = "mark" /\ r.recovery = request[w].recovery
      BY <3>1 DEF Redeeming
    <3>3. request' = [request EXCEPT ![w] = r] /\ r \in Request
      BY <1>7, <2>2, <3>2 DEF GetUnusedRecoveryCodes, Goto, Request
    <3> HIDE DEF r
    <3>4. /\ request' \in [Workers -> Request] /\ request'[w] = r
          /\ \A v \in Workers \ {w} : request'[v] = request[v]
      BY <1>0, <3>3, OneRequest
    <3>5. \E c \in codes : c.code = request[w].recovery /\ ~c.used
      BY <2>2 DEF Unused
    <3>6. UNCHANGED <<now, row, codes, secrets, batches, accepted, again, excused>>
      BY <2>1 DEF table, history
    <3>7. \A v \in Workers :
             /\ Confirms(request[v]) => Confirms(request'[v])
             /\ request[v].pc = "clean" => request'[v].pc = "clean"
      BY <2>1, <3>4 DEF Confirms
    <3>8. \A v \in Workers : request'[v] = request[v] \/
             /\ request[v].pc = "lookup" /\ request'[v].pc = "mark"
             /\ request'[v].recovery = request[v].recovery
             /\ \E c \in codes : c.code = request[v].recovery /\ ~c.used
      BY <2>1, <3>2, <3>4, <3>5
    <3> QED
      BY <1>0, <3>4, <3>6, <3>7, <3>8, FrameStep
  <2>3. CASE request[w].recovery \notin Unused
    <3>1. Finish(w)
      BY <1>7, <2>3 DEF GetUnusedRecoveryCodes
    <3> QED
      BY <1>2, <2>1, <3>1 DEF Confirms, table, history
  <2> QED
    BY <2>2, <2>3
<1>8. CASE CutOff(w)
  <2>1. /\ Finish(w) /\ excused' = excused \cup {"cutoff"}
        /\ UNCHANGED <<now, row, codes, secrets, batches, accepted, again>>
    BY <1>8 DEF CutOff, table
  <2>2. /\ request' \in [Workers -> Request] /\ request'[w].pc = "idle"
        /\ \A v \in Workers \ {w} : request'[v] = request[v]
    BY <1>0, <2>1, Finished
  <2>3. \A v \in Workers : request'[v] = request[v] \/ request'[v].pc = "idle"
    BY <2>2
  <2> QED
    BY <1>0, <2>1, <2>2, <2>3, FrameStep
<1> QED
  BY <1>1, <1>4, <1>5, <1>6, <1>7, <1>8

LEMMA TimeStep ==
  ASSUME BoundsOK, FactorInv, Tick \/ UNCHANGED vars
  PROVE  FactorInv'
<1>1. /\ UNCHANGED <<row, codes, secrets, batches, request, accepted, again, excused>>
      /\ now \in Nat /\ now' \in 1..MaxStep /\ now <= now' /\ request \in [Workers -> Request]
  BY DEF FactorInv, TypeInv, TypeOK, Steps, BoundsOK, Tick, vars, table, history, Request
<1>2. \A v \in Workers : /\ Confirms(request[v]) => Confirms(request'[v])
                         /\ request[v].pc = "clean" => request'[v].pc = "clean"
                         /\ request'[v] = request[v]
  BY <1>1
<1> QED
  BY <1>1, <1>2, FrameStep

-----------------------------------------------------------------------------
(* The actions: statements that write *)

LEMMA Apart == Acceptance \cap RecoveryCode = {}
<1> SUFFICES ASSUME NEW a \in Acceptance, a \in RecoveryCode PROVE FALSE
  OBVIOUS
<1>1. DOMAIN a = {"code", "in"}
  BY DEF Acceptance
<1>2. DOMAIN a = {"batch", "n"}
  BY DEF RecoveryCode
<1> QED
  BY <1>1, <1>2

LEMMA SecretsAreNumbers ==
  ASSUME BoundsOK, TypeOK
  PROVE  /\ \A a \in Acceptances : a.code.secret \in Nat /\ a.code.secret # 0 /\ a.in \in Nat
         /\ \A c \in RecoveryCode : c.batch \in Nat
         /\ row.lastStep \in Nat /\ now \in Nat /\ now # 0
         /\ \A w \in Workers :
              /\ Checks(request[w]) => request[w].step \in Nat /\ request[w].code \in TOTPCode
              /\ Redeems(request[w]) => request[w].recovery \in RecoveryCode
              /\ Confirms(request[w]) => request[w].batch \in 1..MaxBatch
              /\ Enrols(request[w]) => request[w].secret \in Secrets
<1>1. \A a \in Acceptances : a.code.secret \in Nat /\ a.code.secret # 0 /\ a.in \in Nat
  BY DEF Acceptances, Acceptance, TOTPCode, Secrets, Steps, BoundsOK
<1>2. \A c \in RecoveryCode : c.batch \in Nat
  BY DEF RecoveryCode, BoundsOK
<1>3. row.lastStep \in Nat /\ now \in Nat /\ now # 0
  BY DEF TypeOK, Columns, Steps, BoundsOK
<1>4. ASSUME NEW w \in Workers
      PROVE  /\ Checks(request[w]) => request[w].step \in Nat /\ request[w].code \in TOTPCode
             /\ Redeems(request[w]) => request[w].recovery \in RecoveryCode
             /\ Confirms(request[w]) => request[w].batch \in 1..MaxBatch
             /\ Enrols(request[w]) => request[w].secret \in Secrets
  <2>1. Checks(request[w]) => request[w].step \in Nat /\ request[w].code \in TOTPCode
    BY Kinds DEF Checking, BoundsOK
  <2>2. Redeems(request[w]) => request[w].recovery \in RecoveryCode
    BY Kinds DEF Redeeming
  <2>3. Confirms(request[w]) => request[w].batch \in 1..MaxBatch /\ request[w].secret \in Secrets
    BY Kinds DEF Confirming
  <2>4. Enrols(request[w]) => request[w].secret \in Secrets
    BY <2>3, Kinds DEF Enrols, Confirms, Starting
  <2> QED
    BY <2>1, <2>2, <2>3, <2>4
<1> QED
  BY <1>1, <1>2, <1>3, <1>4

\* The part of TypeInv about requests, when one of them ends or goes on to a
\* point that it does not speak of.
LEMMA TypeKept ==
  ASSUME BoundsOK, TypeInv, NEW w \in Workers, request' \in [Workers -> Request],
         request'[w].pc \notin {"validate", "read", "compare", "set"},
         \A v \in Workers \ {w} : request'[v] = request[v],
         UNCHANGED <<now, secrets, batches>>,
         row' \in Columns, row'.enabled => row'.secret # 0,
         codes' \subseteq [code : RecoveryCode, used : BOOLEAN],
         accepted' \subseteq Acceptance \cup RecoveryCode, again' \subseteq accepted',
         excused' \subseteq {"totp", "enrolment", "recovery", "cutoff", "database"}
  PROVE  TypeInv'
<1>1. TypeOK'
  BY DEF TypeInv, TypeOK, Request
<1>2. ASSUME NEW v \in Workers
      PROVE  /\ request'[v].pc \in {"compare", "set"} => request'[v].step \in 1..now
             /\ request'[v].pc \in {"validate", "read", "compare", "set"} => request'[v].code.secret <= secrets
             /\ request'[v].pc \in {"read", "compare", "set"} => request'[v].code.secret = request'[v].secret
  BY DEF TypeInv
<1> QED
  BY <1>1, <1>2 DEF TypeInv, RecoveryCode

LEMMA PendingStep ==
  ASSUME BoundsOK, FactorInv, NEW w \in Workers, UpdateUserTOTPPending(w)
  PROVE  FactorInv'
<1>0. /\ TypeInv /\ TypeOK /\ request[w].pc = "start" /\ Enrols(request[w]) /\ Finish(w)
      /\ row' = [row EXCEPT !.pending = request[w].secret] /\ row \in Columns
      /\ UNCHANGED <<now, codes, secrets, batches, accepted, again, excused>>
  BY DEF FactorInv, TypeInv, TypeOK, UpdateUserTOTPPending, Enrols
<1>1. /\ request' \in [Workers -> Request] /\ request'[w].pc = "idle"
      /\ \A v \in Workers \ {w} : request'[v] = request[v]
  BY <1>0, Finished
<1>2. /\ row' \in Columns /\ row'.enabled = row.enabled /\ row'.secret = row.secret
      /\ row'.lastStep = row.lastStep /\ row'.pending = request[w].secret
  <2>1. request[w].secret \in Secrets
    BY <1>0, SecretsAreNumbers
  <2>2. request[w].secret \in 0..MaxSecret
    BY <2>1 DEF Secrets, BoundsOK
  <2> QED
    BY <1>0, <2>2 DEF Columns
<1>3. TypeInv'
  BY <1>0, <1>1, <1>2, TypeKept DEF TypeInv, TypeOK
<1>4. /\ ~Confirms(request[w]) /\ request[w].pc # "clean"
      /\ \A v \in Workers : request'[v] = request[v] \/ request'[v].pc = "idle"
  BY <1>0, <1>1 DEF Confirms
<1>5. AloneInv'
  <2>1. \A v \in Workers :
           /\ Checks(request'[v]) => Checks(request[v])
           /\ Redeems(request'[v]) => Redeems(request[v])
           /\ ChangesEnrolment(request'[v]) => ChangesEnrolment(request[v])
    BY <1>4 DEF Checks, Redeems, ChangesEnrolment, Confirms
  <2> QED
    BY <1>0, <2>1, AloneKept DEF FactorInv
<1>6. NeverLockedOut'
  BY <1>0, <1>1, <1>2 DEF FactorInv, NeverLockedOut
<1>7. BatchInv'
  <2>1. \A v \in Workers :
           /\ Confirms(request'[v]) => Confirms(request[v]) /\ request'[v].batch = request[v].batch
           /\ request'[v].pc = "mark" => request[v].pc = "mark" /\ request'[v].recovery = request[v].recovery
    BY <1>4 DEF Confirms
  <2>2. accepted' \cap RecoveryCode = accepted \cap RecoveryCode
    BY <1>0
  <2> QED
    BY <1>0, <2>1, <2>2, BatchKept DEF FactorInv
<1>8. RecoveryInv'
  BY <1>0, <1>1, RecoveryKept DEF FactorInv
<1>9. TOTPInv'
  <2> SUFFICES ASSUME excused \cap {"totp", "enrolment", "database"} = {}
               PROVE  /\ again \cap Acceptance = {}
                      /\ \A a, b \in Acceptances : a.in = b.in /\ a.code.secret = b.code.secret => a = b
                      /\ \A a \in Acceptances :
                           /\ a.code.secret <= secrets /\ a.code.secret # row'.pending
                           /\ a.code.secret = row'.secret => a.in <= row'.lastStep
                           /\ \A v \in Workers : Enrols(request'[v]) => a.code.secret # request'[v].secret
                      /\ row'.enabled => row'.pending = 0
                      /\ \A v \in Workers :
                           /\ Enrols(request'[v]) => ~row'.enabled
                           /\ request'[v].pc \in {"validate", "read", "compare", "set"}
                                => row'.enabled /\ row'.secret = request'[v].secret
                           /\ request'[v].pc = "set" => request'[v].step > row'.lastStep
    BY <1>0 DEF TOTPInv, Enrols, Acceptances, Acceptance, TOTPCode
  <2>1. ~row.enabled /\ \A a \in Acceptances : a.code.secret # request[w].secret
    BY <1>0 DEF FactorInv, TOTPInv
  <2>2. \A v \in Workers : request'[v] = request[v] \/ ~Enrols(request'[v])
    BY <1>4 DEF Enrols
  <2> QED
    BY <1>2, <1>4, <2>1, <2>2 DEF FactorInv, TOTPInv
<1>10. EnrolmentInv'
  <2> SUFFICES ASSUME excused \cap {"enrolment", "cutoff"} = {}
               PROVE  /\ (\A v \in Workers : ~Confirms(request'[v]) /\ request'[v].pc # "clean")
                           => {c.code : c \in codes} = IF row'.enabled THEN Batch(batches) ELSE {}
                      /\ \A v \in Workers :
                           /\ Enrols(request'[v]) => ~row'.enabled
                           /\ request'[v].pc \in {"delete", "insert"} => row'.enabled
                           /\ request'[v].pc = "clean" => ~row'.enabled /\ request'[v].op = "disable"
                           /\ request'[v].pc = "disable" => request'[v].op = "disable"
                           /\ Confirms(request'[v]) => codes = {} /\ request'[v].batch = batches
    BY <1>0 DEF EnrolmentInv, Settled, Enrols, Confirms, Batch
  <2>1. \A v \in Workers : Confirms(request[v]) => request'[v] = request[v]
    BY <1>1, <1>4
  <2>2. \A v \in Workers : request[v].pc = "clean" => request'[v] = request[v]
    BY <1>1, <1>4
  <2>3. \A v \in Workers : request'[v] = request[v] \/ (~Enrols(request'[v]) /\ ~Confirms(request'[v]))
    BY <1>4 DEF Enrols, Confirms
  <2> QED
    BY <1>2, <1>4, <2>1, <2>2, <2>3 DEF FactorInv, EnrolmentInv, Settled
<1> QED
  BY <1>3, <1>5, <1>6, <1>7, <1>8, <1>9, <1>10 DEF FactorInv

LEMMA EnableStep ==
  ASSUME BoundsOK, FactorInv, NEW w \in Workers, EnableUserTOTP(w)
  PROVE  FactorInv'
<1> DEFINE r == [request[w] EXCEPT !.pc = "delete"]
<1>0. /\ TypeInv /\ TypeOK /\ request[w].pc = "enable" /\ Enrols(request[w]) /\ Confirms(request[w])
      /\ row' = [row EXCEPT !.enabled = TRUE, !.secret = request[w].secret, !.pending = 0]
      /\ row \in Columns
      /\ UNCHANGED <<now, codes, secrets, batches, accepted, again, excused>>
  BY DEF FactorInv, TypeInv, TypeOK, EnableUserTOTP, Enrols, Confirms
<1>1. /\ request' \in [Workers -> Request] /\ request'[w].pc = "delete"
      /\ request'[w].batch = request[w].batch
      /\ \A v \in Workers \ {w} : request'[v] = request[v]
  <2>1. request[w] \in Confirming
    BY <1>0, Kinds
  <2>2. r \in Confirming /\ r.pc = "delete" /\ r.batch = request[w].batch
    BY <2>1 DEF Confirming
  <2>3. request' = [request EXCEPT ![w] = r] /\ r \in Request
    BY <2>2 DEF EnableUserTOTP, Goto, Request
  <2> HIDE DEF r
  <2> QED
    BY <1>0, <2>2, <2>3, OneRequest
<1>2. /\ row' \in Columns /\ row'.enabled /\ row'.secret = request[w].secret
      /\ row'.lastStep = row.lastStep /\ row'.pending = 0 /\ row'.secret # 0
  <2>1. request[w].secret \in Secrets
    BY <1>0, SecretsAreNumbers
  <2>2. request[w].secret \in 0..MaxSecret /\ request[w].secret # 0 /\ 0 \in 0..MaxSecret
    BY <2>1 DEF Secrets, BoundsOK
  <2> QED
    BY <1>0, <2>2 DEF Columns
<1>3. TypeInv'
  BY <1>0, <1>1, <1>2, TypeKept DEF TypeInv, TypeOK
<1>4. \A v \in Workers :
        /\ Checks(request'[v]) => Checks(request[v])
        /\ Redeems(request'[v]) => Redeems(request[v])
        /\ ChangesEnrolment(request'[v]) => ChangesEnrolment(request[v])
        /\ Confirms(request'[v]) => Confirms(request[v]) /\ request'[v].batch = request[v].batch
        /\ request'[v].pc = "mark" => request[v].pc = "mark" /\ request'[v].recovery = request[v].recovery
  BY <1>0, <1>1 DEF Checks, Redeems, ChangesEnrolment, Confirms
<1>5. AloneInv'
  BY <1>0, <1>4, AloneKept DEF FactorInv
<1>6. NeverLockedOut'
  BY <1>0, <1>1, <1>2 DEF FactorInv, NeverLockedOut
<1>7. BatchInv'
  <2>1. accepted' \cap RecoveryCode = accepted \cap RecoveryCode
    BY <1>0
  <2> QED
    BY <1>0, <1>4, <2>1, BatchKept DEF FactorInv
<1>8. RecoveryInv'
  BY <1>0, <1>4, RecoveryKept DEF FactorInv
\* While changes of the enrolment take turns, no other one is under way.
<1>9. "enrolment" \notin excused => \A v \in Workers \ {w} : ~ChangesEnrolment(request[v])
  BY <1>0 DEF FactorInv, AloneInv, ChangesEnrolment
<1>10. TOTPInv'
  <2> SUFFICES ASSUME excused \cap {"totp", "enrolment", "database"} = {}
               PROVE  /\ again \cap Acceptance = {}
                      /\ \A a, b \in Acceptances : a.in = b.in /\ a.code.secret = b.code.secret => a = b
                      /\ \A a \in Acceptances :
                           /\ a.code.secret <= secrets /\ a.code.secret # 0
                           /\ a.code.secret = row'.secret => a.in <= row'.lastStep
                      /\ \A v \in Workers :
                           /\ ~Enrols(request'[v])
                           /\ request'[v].pc \notin {"validate", "read", "compare", "set"}
    BY <1>0, <1>2 DEF TOTPInv, Enrols, Acceptances, Acceptance, TOTPCode
  <2>1. ~row.enabled /\ \A a \in Acceptances : a.code.secret # request[w].secret
    BY <1>0 DEF FactorInv, TOTPInv
  <2>2. \A v \in Workers \ {w} : ~Enrols(request[v])
    BY <1>9 DEF Enrols, ChangesEnrolment, Confirms
  <2>3. \A v \in Workers : request[v].pc \notin {"validate", "read", "compare", "set"}
    BY <2>1 DEF FactorInv, TOTPInv
  <2>4. \A v \in Workers :
          ~Enrols(request'[v]) /\ request'[v].pc \notin {"validate", "read", "compare", "set"}
    BY <1>1, <2>2, <2>3 DEF Enrols
  <2>5. \A a \in Acceptances : a.code.secret # 0
    BY <1>0, SecretsAreNumbers
  <2> QED
    BY <1>2, <2>1, <2>4, <2>5 DEF FactorInv, TOTPInv
<1>11. EnrolmentInv'
  <2> SUFFICES ASSUME excused \cap {"enrolment", "cutoff"} = {}
               PROVE  /\ \E v \in Workers : Confirms(request'[v])
                      /\ \A v \in Workers :
                           /\ ~Enrols(request'[v]) /\ request'[v].pc # "clean"
                           /\ request'[v].pc = "disable" => request'[v].op = "disable"
                           /\ Confirms(request'[v]) => codes = {} /\ request'[v].batch = batches
    BY <1>0, <1>2 DEF EnrolmentInv, Settled, Enrols, Confirms, Batch
  <2>1. codes = {} /\ request[w].batch = batches
    BY <1>0 DEF FactorInv, EnrolmentInv
  <2>2. ASSUME NEW v \in Workers \ {w}
        PROVE  ~Enrols(request[v]) /\ request[v].pc # "clean" /\ ~Confirms(request[v])
               /\ (request[v].pc = "disable" => request[v].op = "disable")
    <3>1. ~ChangesEnrolment(request[v])
      BY <1>9
    <3>2. /\ request[v].pc = "clean" => request[v].op = "disable"
          /\ request[v].pc = "disable" => request[v].op = "disable"
      BY DEF FactorInv, EnrolmentInv
    <3> QED
      BY <3>1, <3>2 DEF ChangesEnrolment, Enrols, Confirms, Checks
  <2> QED
    BY <1>1, <2>1, <2>2 DEF Enrols, Confirms
<1> QED
  BY <1>3, <1>5, <1>6, <1>7, <1>8, <1>10, <1>11 DEF FactorInv

\* A code is accepted: the row has its step, or the database failed.
LEMMA AcceptStep ==
  ASSUME BoundsOK, FactorInv, NEW w \in Workers, request[w].pc \in {"compare", "set"}, Proceed(w),
         UNCHANGED <<now, codes, secrets, batches>>,
         \/ row' = row /\ excused' = excused \cup {"database"}
         \/ /\ row' = [row EXCEPT !.lastStep = request[w].step]
            /\ request[w].pc = "set" /\ excused' = excused
  PROVE  FactorInv'
<1> DEFINE new == [code |-> request[w].code, in |-> request[w].step]
<1>0. /\ TypeInv /\ TypeOK /\ row \in Columns /\ Checks(request[w]) /\ request[w].op \in {"login", "disable"}
      /\ request[w].step \in 1..now /\ now \in 1..MaxStep /\ request[w].code \in TOTPCode
      /\ request[w].code.secret <= secrets /\ request[w].code.secret = request[w].secret
  <2>1. TypeInv /\ TypeOK /\ row \in Columns /\ Checks(request[w]) /\ now \in 1..MaxStep
    BY DEF FactorInv, TypeInv, TypeOK, Checks, Steps
  <2>2. request[w].op \in {"login", "disable"} /\ request[w].code \in TOTPCode
    BY <2>1, Kinds DEF Checking
  <2> QED
    BY <2>1, <2>2 DEF TypeInv
<1>1. /\ request' \in [Workers -> Request] /\ request'[w].pc \in {"idle", "disable"}
      /\ request'[w].pc = "disable" => request'[w].op = request[w].op /\ request[w].op = "disable"
      /\ \A v \in Workers \ {w} : request'[v] = request[v]
  <2>1. CASE request[w].op = "login"
    <3>1. Finish(w)
      BY <2>1 DEF Proceed
    <3> QED
      BY <1>0, <3>1, Finished
  <2>2. CASE request[w].op = "disable"
    <3>1. Goto(w, "disable")
      BY <2>2 DEF Proceed
    <3> QED
      BY <1>0, <2>2, <3>1, CheckGoesOn
  <2> QED
    BY <1>0, <2>1, <2>2
<1>2. accepted' = accepted \cup {new} /\ again' = again \cup ({new} \cap accepted)
  BY DEF Proceed, Accept
<1>3. /\ row' \in Columns /\ row'.enabled = row.enabled /\ row'.secret = row.secret
      /\ row'.pending = row.pending /\ row'.lastStep \in {row.lastStep, request[w].step}
  <2>1. request[w].step \in 0..MaxStep
    BY <1>0 DEF BoundsOK
  <2> QED
    BY <1>0, <2>1 DEF Columns
<1>4. new \in Acceptance
  BY <1>0 DEF Acceptance, Steps, BoundsOK
<1>5. /\ accepted' \cap RecoveryCode = accepted \cap RecoveryCode
      /\ again' \cap RecoveryCode = again \cap RecoveryCode
      /\ Acceptances' = Acceptances \cup {new}
      /\ again' \cap Acceptance = (again \cap Acceptance) \cup ({new} \cap Acceptances)
  <2>1. Acceptances' = accepted' \cap Acceptance
    BY DEF Acceptances, Acceptance, TOTPCode
  <2> QED
    BY <1>2, <1>4, <2>1, Apart DEF Acceptances
<1> HIDE DEF new
<1>6. excused \subseteq excused' /\ excused' \subseteq excused \cup {"database"}
  OBVIOUS
<1>7. TypeInv'
  <2>1. /\ accepted' \subseteq Acceptance \cup RecoveryCode /\ again' \subseteq accepted'
        /\ excused' \subseteq {"totp", "enrolment", "recovery", "cutoff", "database"}
    BY <1>0, <1>2, <1>4, <1>6 DEF TypeOK
  <2>2. codes' \subseteq [code : RecoveryCode, used : BOOLEAN] /\ (row'.enabled => row'.secret # 0)
    BY <1>0, <1>3 DEF TypeInv
  <2>3. request'[w].pc \notin {"validate", "read", "compare", "set"}
    BY <1>1
  <2> QED
    BY <1>0, <1>1, <1>3, <2>1, <2>2, <2>3, TypeKept
<1>8. \A v \in Workers :
        /\ Checks(request'[v]) => Checks(request[v])
        /\ Redeems(request'[v]) => Redeems(request[v])
        /\ ChangesEnrolment(request'[v]) => ChangesEnrolment(request[v])
        /\ Confirms(request'[v]) => Confirms(request[v]) /\ request'[v] = request[v]
        /\ request'[v].pc \in {"mark", "start", "enable", "delete", "insert", "clean", "validate", "read",
                               "compare", "set"} => request'[v] = request[v]
        /\ v # w => request'[v] = request[v]
  BY <1>0, <1>1 DEF Checks, Redeems, ChangesEnrolment, Confirms
<1>9. AloneInv'
  BY <1>6, <1>8, AloneKept DEF FactorInv
<1>10. NeverLockedOut'
  <2>1. row.lastStep <= now /\ request[w].step <= now
    BY <1>0 DEF FactorInv, NeverLockedOut
  <2>2. row'.lastStep <= now
    BY <1>3, <2>1
  <2>3. \A v \in Workers : request'[v].pc \in {"compare", "set"} => request'[v].step <= now
    BY <1>8 DEF FactorInv, NeverLockedOut
  <2> QED
    BY <2>2, <2>3 DEF NeverLockedOut
<1>11. BatchInv'
  BY <1>5, <1>8, BatchKept DEF FactorInv
<1>12. RecoveryInv'
  BY <1>0, <1>5, <1>6, <1>8, RecoveryKept DEF FactorInv
<1>13. TOTPInv'
  <2> SUFFICES ASSUME excused' \cap {"totp", "enrolment", "database"} = {}
               PROVE  /\ again' \cap Acceptance = {}
                      /\ \A a, b \in Acceptances' : a.in = b.in /\ a.code.secret = b.code.secret => a = b
                      /\ \A a \in Acceptances' :
                           /\ a.code.secret <= secrets /\ a.code.secret # row'.pending
                           /\ a.code.secret = row'.secret => a.in <= row'.lastStep
                           /\ \A v \in Workers : Enrols(request'[v]) => a.code.secret # request'[v].secret
                      /\ row'.enabled => row'.pending = 0
                      /\ \A v \in Workers :
                           /\ Enrols(request'[v]) => ~row'.enabled
                           /\ request'[v].pc \in {"validate", "read", "compare", "set"}
                                => row'.enabled /\ row'.secret = request'[v].secret
                           /\ request'[v].pc = "set" => request'[v].step > row'.lastStep
    BY DEF TOTPInv, Enrols
  <2>1. /\ excused \cap {"totp", "enrolment", "database"} = {} /\ request[w].pc = "set"
        /\ row' = [row EXCEPT !.lastStep = request[w].step]
    OBVIOUS
  <2>2. row'.lastStep = request[w].step
    BY <1>0, <2>1 DEF Columns
  <2>3. /\ row.enabled /\ row.secret = request[w].secret /\ row.pending = 0
        /\ request[w].step > row.lastStep /\ again \cap Acceptance = {}
    BY <2>1 DEF FactorInv, TOTPInv
  <2>4. \A a \in Acceptances : a.code.secret = row.secret => a.in <= row.lastStep
    BY <2>1 DEF FactorInv, TOTPInv
  <2>5. new.code.secret = row.secret /\ new.in = request[w].step
    BY <1>0, <2>3 DEF new
  <2>6. /\ request[w].step \in Nat /\ row.lastStep \in Nat /\ row.secret # 0
        /\ \A a \in Acceptances : a.in \in Nat
    BY <1>0, <2>3, SecretsAreNumbers DEF TypeInv
  <2>7. \A a \in Acceptances : ~(a.in = new.in /\ a.code.secret = new.code.secret)
    BY <2>3, <2>4, <2>5, <2>6
  <2>8. again' \cap Acceptance = {}
    BY <1>5, <2>3, <2>7
  <2>9. \A a, b \in Acceptances' : a.in = b.in /\ a.code.secret = b.code.secret => a = b
    <3>1. \A a, b \in Acceptances : a.in = b.in /\ a.code.secret = b.code.secret => a = b
      BY <2>1 DEF FactorInv, TOTPInv
    <3> QED
      BY <1>5, <2>7, <3>1
  <2>10. \A v \in Workers : ~Enrols(request'[v])
    <3>1. \A v \in Workers : ~Enrols(request[v])
      BY <2>1, <2>3 DEF FactorInv, TOTPInv
    <3> QED
      BY <1>8, <3>1 DEF Enrols
  <2>11. ASSUME NEW a \in Acceptances'
         PROVE  /\ a.code.secret <= secrets /\ a.code.secret # row'.pending
                /\ a.code.secret = row'.secret => a.in <= row'.lastStep
    <3>1. CASE a \in Acceptances
      <4>1. a.code.secret <= secrets /\ a.code.secret # row.pending
        BY <2>1, <3>1 DEF FactorInv, TOTPInv
      <4> QED
        BY <1>3, <2>2, <2>3, <2>4, <2>6, <3>1, <4>1
    <3>2. CASE a = new
      <4>1. a.code.secret <= secrets
        BY <1>0, <3>2 DEF new
      <4> QED
        BY <1>3, <2>2, <2>3, <2>5, <2>6, <3>2, <4>1
    <3> QED
      BY <1>5, <3>1, <3>2
  <2>12. ASSUME NEW v \in Workers
         PROVE  /\ request'[v].pc \in {"validate", "read", "compare", "set"}
                     => row'.enabled /\ row'.secret = request'[v].secret
                /\ request'[v].pc # "set"
    <3>1. request[v].pc \in {"validate", "read", "compare", "set"}
            => row.enabled /\ row.secret = request[v].secret
      BY <2>1 DEF FactorInv, TOTPInv
    <3>2. v # w => ~Checks(request[v])
      BY <1>0, <2>1 DEF FactorInv, AloneInv
    <3> QED
      BY <1>1, <1>3, <1>8, <3>1, <3>2 DEF Checks
  <2> QED
    BY <1>3, <2>3, <2>8, <2>9, <2>10, <2>11, <2>12
<1>14. EnrolmentInv'
  <2> SUFFICES ASSUME excused \cap {"enrolment", "cutoff"} = {}
               PROVE  /\ (\A v \in Workers : ~Confirms(request'[v]) /\ request'[v].pc # "clean")
                           => {c.code : c \in codes} = IF row'.enabled THEN Batch(batches) ELSE {}
                      /\ \A v \in Workers :
                           /\ Enrols(request'[v]) => ~row'.enabled
                           /\ request'[v].pc \in {"delete", "insert"} => row'.enabled
                           /\ request'[v].pc = "clean" => ~row'.enabled /\ request'[v].op = "disable"
                           /\ request'[v].pc = "disable" => request'[v].op = "disable"
                           /\ Confirms(request'[v]) => codes = {} /\ request'[v].batch = batches
    BY <1>6 DEF EnrolmentInv, Settled, Enrols, Confirms, Batch
  <2>1. \A v \in Workers : /\ Confirms(request[v]) => request'[v] = request[v]
                           /\ request[v].pc = "clean" => request'[v] = request[v]
    BY <1>0, <1>8 DEF Confirms
  <2>2. (\A v \in Workers : ~Confirms(request'[v]) /\ request'[v].pc # "clean")
                           => {c.code : c \in codes} = IF row'.enabled THEN Batch(batches) ELSE {}
    BY <1>3, <2>1 DEF FactorInv, EnrolmentInv, Settled
  <2>3. ASSUME NEW v \in Workers
        PROVE  /\ Enrols(request'[v]) => ~row'.enabled
               /\ request'[v].pc \in {"delete", "insert"} => row'.enabled
               /\ request'[v].pc = "clean" => ~row'.enabled /\ request'[v].op = "disable"
               /\ request'[v].pc = "disable" => request'[v].op = "disable"
               /\ Confirms(request'[v]) => codes = {} /\ request'[v].batch = batches
    BY <1>1, <1>3, <1>8 DEF FactorInv, EnrolmentInv, Enrols
  <2> QED
    BY <2>2, <2>3
<1> QED
  BY <1>7, <1>9, <1>10, <1>11, <1>12, <1>13, <1>14 DEF FactorInv

LEMMA AcceptsStep ==
  ASSUME BoundsOK, FactorInv, NEW w \in Workers, SetTOTPLastStep(w) \/ GetTOTPLastStepFails(w)
  PROVE  FactorInv'
<1>1. CASE SetTOTPLastStep(w)
  BY <1>1, AcceptStep DEF SetTOTPLastStep
<1>2. CASE GetTOTPLastStepFails(w)
  BY <1>2, AcceptStep DEF GetTOTPLastStepFails, table
<1> QED
  BY <1>1, <1>2

LEMMA DisableColumnsStep ==
  ASSUME BoundsOK, FactorInv, NEW w \in Workers, DisableColumns(w)
  PROVE  FactorInv'
<1>0. /\ TypeInv /\ TypeOK /\ Checks(request[w]) /\ request[w].pc = "disable" /\ Goto(w, "clean")
      /\ row' = Cleared /\ now \in 1..MaxStep
      /\ UNCHANGED <<now, codes, secrets, batches, accepted, again, excused>>
  BY DEF FactorInv, TypeInv, TypeOK, DisableColumns, Checks, Steps
<1>1. /\ request' \in [Workers -> Request] /\ request'[w].pc = "clean" /\ request'[w].op = request[w].op
      /\ \A v \in Workers \ {w} : request'[v] = request[v]
  BY <1>0, CheckGoesOn
<1>2. /\ row' \in Columns /\ ~row'.enabled /\ row'.secret = 0 /\ row'.pending = 0 /\ row'.lastStep = 0
  BY <1>0 DEF Cleared, Columns, BoundsOK
<1>3. TypeInv'
  BY <1>0, <1>1, <1>2, TypeKept DEF TypeInv, TypeOK
<1>4. \A v \in Workers :
        /\ Checks(request'[v]) => Checks(request[v])
        /\ Redeems(request'[v]) => Redeems(request[v])
        /\ ChangesEnrolment(request'[v]) => ChangesEnrolment(request[v])
        /\ Confirms(request'[v]) => Confirms(request[v]) /\ request'[v].batch = request[v].batch
        /\ request'[v].pc = "mark" => request[v].pc = "mark" /\ request'[v].recovery = request[v].recovery
        /\ Enrols(request'[v]) => Enrols(request[v]) /\ request'[v].secret = request[v].secret
  BY <1>0, <1>1 DEF Checks, Redeems, ChangesEnrolment, Confirms, Enrols
<1>5. AloneInv'
  BY <1>0, <1>4, AloneKept DEF FactorInv
<1>6. NeverLockedOut'
  <2>1. row'.lastStep <= now
    BY <1>0, <1>2
  <2>2. \A v \in Workers : request'[v].pc \in {"compare", "set"} => request'[v].step <= now
    BY <1>1 DEF FactorInv, NeverLockedOut
  <2> QED
    BY <1>0, <2>1, <2>2 DEF NeverLockedOut
<1>7. BatchInv'
  <2>1. accepted' \cap RecoveryCode = accepted \cap RecoveryCode
    BY <1>0
  <2> QED
    BY <1>0, <1>4, <2>1, BatchKept DEF FactorInv
<1>8. RecoveryInv'
  BY <1>0, <1>4, RecoveryKept DEF FactorInv
<1>9. TOTPInv'
  <2> SUFFICES ASSUME excused \cap {"totp", "enrolment", "database"} = {}
               PROVE  /\ again \cap Acceptance = {}
                      /\ \A a, b \in Acceptances : a.in = b.in /\ a.code.secret = b.code.secret => a = b
                      /\ \A a \in Acceptances :
                           /\ a.code.secret <= secrets /\ a.code.secret # 0
                           /\ \A v \in Workers : Enrols(request'[v]) => a.code.secret # request'[v].secret
                      /\ \A v \in Workers : request'[v].pc \notin {"validate", "read", "compare", "set"}
    BY <1>0, <1>2 DEF TOTPInv, Enrols, Acceptances, Acceptance, TOTPCode
  <2>1. \A a \in Acceptances : a.code.secret # 0
    BY <1>0, SecretsAreNumbers
  <2>2. \A v \in Workers \ {w} : ~Checks(request[v])
    BY <1>0 DEF FactorInv, AloneInv
  <2>3. \A v \in Workers : request'[v].pc \notin {"validate", "read", "compare", "set"}
    BY <1>1, <2>2 DEF Checks
  <2> QED
    BY <1>4, <2>1, <2>3 DEF FactorInv, TOTPInv
<1>10. EnrolmentInv'
  <2> SUFFICES ASSUME excused \cap {"enrolment", "cutoff"} = {}
               PROVE  \A v \in Workers :
                        /\ ~Enrols(request'[v]) /\ ~Confirms(request'[v])
                        /\ request'[v].pc \in {"clean", "disable"} => request'[v].op = "disable"
    <3>1. request'[w].pc = "clean"
      BY <1>1
    <3> QED
      BY <1>0, <1>2, <3>1 DEF EnrolmentInv, Settled, Enrols, Confirms, Batch
  <2>1. request[w].op = "disable" /\ ChangesEnrolment(request[w])
    BY <1>0 DEF FactorInv, EnrolmentInv, ChangesEnrolment
  <2>2. \A v \in Workers \ {w} : ~ChangesEnrolment(request[v])
    BY <2>1 DEF FactorInv, AloneInv
  <2>3. \A v \in Workers : request[v].pc \in {"clean", "disable"} => request[v].op = "disable"
    BY DEF FactorInv, EnrolmentInv
  <2> QED
    BY <1>1, <2>1, <2>2, <2>3 DEF ChangesEnrolment, Enrols, Confirms
<1> QED
  BY <1>3, <1>5, <1>6, <1>7, <1>8, <1>9, <1>10 DEF FactorInv

\* The two statements that change nothing but the recovery codes, and end the
\* request: what is left to show of each is what the codes are then.
LEMMA CodesStep ==
  ASSUME BoundsOK, FactorInv, NEW w \in Workers, request[w] # Idle, Finish(w),
         UNCHANGED <<now, row, secrets, batches, accepted, again, excused>>,
         codes' \subseteq [code : RecoveryCode, used : BOOLEAN],
         BatchInv', RecoveryInv', EnrolmentInv'
  PROVE  FactorInv'
<1>1. /\ request' \in [Workers -> Request] /\ request'[w].pc = "idle"
      /\ \A v \in Workers \ {w} : request'[v] = request[v]
  BY Finished DEF FactorInv, TypeInv
<1>2. TypeInv'
  BY <1>1, TypeKept DEF FactorInv, TypeInv, TypeOK
<1>3. AloneInv'
  <2>1. \A v \in Workers :
           /\ Checks(request'[v]) => Checks(request[v])
           /\ Redeems(request'[v]) => Redeems(request[v])
           /\ ChangesEnrolment(request'[v]) => ChangesEnrolment(request[v])
    BY <1>1 DEF Checks, Redeems, ChangesEnrolment, Confirms
  <2> QED
    BY <2>1, AloneKept DEF FactorInv
<1>4. NeverLockedOut'
  BY <1>1 DEF FactorInv, NeverLockedOut
<1>5. TOTPInv'
  <2>1. Acceptances' = Acceptances
    BY DEF Acceptances, Acceptance, TOTPCode
  <2>2. \A v \in Workers :
           /\ Enrols(request'[v]) => Enrols(request[v]) /\ request'[v].secret = request[v].secret
           /\ request'[v].pc \in {"validate", "read", "compare", "set"} => request'[v] = request[v]
    BY <1>1 DEF Enrols
  <2> QED
    BY <2>1, <2>2, TOTPKept DEF FactorInv
<1> QED
  BY <1>2, <1>3, <1>4, <1>5 DEF FactorInv

LEMMA DisableCodesStep ==
  ASSUME BoundsOK, FactorInv, NEW w \in Workers, DisableCodes(w)
  PROVE  FactorInv'
<1>0. /\ TypeOK /\ request[w].pc = "clean" /\ Finish(w) /\ codes' = {}
      /\ UNCHANGED <<now, row, secrets, batches, accepted, again, excused>>
  BY DEF FactorInv, TypeInv, DisableCodes, history
<1>1. /\ request[w] # Idle /\ request'[w].pc = "idle"
      /\ \A v \in Workers \ {w} : request'[v] = request[v]
  BY <1>0, Finished DEF Idle
<1>2. BatchInv'
  <2>1. \A v \in Workers :
           /\ Confirms(request'[v]) => Confirms(request[v]) /\ request'[v].batch = request[v].batch
           /\ request'[v].pc = "mark" => request[v].pc = "mark" /\ request'[v].recovery = request[v].recovery
    BY <1>1 DEF Confirms
  <2>2. accepted' \cap RecoveryCode = accepted \cap RecoveryCode
    BY <1>0
  <2> QED
    BY <1>0, <2>1, <2>2, BatchKept DEF FactorInv
<1>3. RecoveryInv'
  BY <1>0, <1>1, RecoveryKept DEF FactorInv
<1>4. EnrolmentInv'
  <2> SUFFICES ASSUME excused \cap {"enrolment", "cutoff"} = {}
               PROVE  /\ ~row.enabled
                      /\ \A v \in Workers :
                           /\ ~Enrols(request'[v]) /\ ~Confirms(request'[v])
                           /\ request'[v].pc \notin {"clean"}
                           /\ request'[v].pc = "disable" => request'[v].op = "disable"
    BY <1>0 DEF EnrolmentInv, Settled, Enrols, Confirms, Batch
  <2>1. request[w].op = "disable" /\ ChangesEnrolment(request[w]) /\ ~row.enabled
    BY <1>0 DEF FactorInv, EnrolmentInv, ChangesEnrolment, Checks
  <2>2. \A v \in Workers \ {w} : ~ChangesEnrolment(request[v])
    BY <2>1 DEF FactorInv, AloneInv
  <2>3. \A v \in Workers : request[v].pc \in {"clean", "disable"} => request[v].op = "disable"
    BY DEF FactorInv, EnrolmentInv
  <2> QED
    BY <1>1, <2>1, <2>2, <2>3 DEF ChangesEnrolment, Enrols, Confirms, Checks
<1> QED
  BY <1>0, <1>1, <1>2, <1>3, <1>4, CodesStep

LEMMA FreshCodes ==
  ASSUME NEW b
  PROVE  /\ \A c \in Fresh(b) : c.code \in Batch(b) /\ c.used = FALSE
         /\ \A c \in Fresh(b) : c = [code |-> c.code, used |-> FALSE]
         /\ {c.code : c \in Fresh(b)} = Batch(b)
<1> DEFINE F(y) == [code |-> y, used |-> FALSE]
<1>1. \A y : F(y).code = y /\ F(y).used = FALSE
  OBVIOUS
<1>2. Fresh(b) = {F(y) : y \in Batch(b)}
  BY DEF Fresh
<1>3. \A c \in Fresh(b) : c = F(c.code)
  BY <1>1, <1>2
<1> HIDE DEF F
<1>4. {c.code : c \in Fresh(b)} = Batch(b)
  BY <1>1, <1>2
<1>5. \A c \in Fresh(b) : c.code \in Batch(b) /\ c.used = FALSE
  BY <1>1, <1>2
<1> QED
  BY <1>3, <1>4, <1>5 DEF F

LEMMA ReplaceCommitsStep ==
  ASSUME BoundsOK, FactorInv, NEW w \in Workers, ReplaceCommits(w)
  PROVE  FactorInv'
<1> DEFINE b == request[w].batch
           kept == {c \in codes : c.code \notin request[w].doomed}
<1>0. /\ TypeOK /\ request[w].pc = "insert" /\ Finish(w) /\ codes' = kept \cup Fresh(b)
      /\ Confirms(request[w])
      /\ UNCHANGED <<now, row, secrets, batches, accepted, again, excused>>
  BY DEF FactorInv, TypeInv, ReplaceCommits, history, Confirms
<1>1. /\ request[w] # Idle /\ request'[w].pc = "idle"
      /\ \A v \in Workers \ {w} : request'[v] = request[v]
  BY <1>0, Finished DEF Idle
<1>2. /\ b \in 1..MaxBatch /\ b <= batches
      /\ \A v \in Workers \ {w} : Confirms(request[v]) => request[v].batch # b
  <2>1. b \in 1..MaxBatch
    BY <1>0, SecretsAreNumbers
  <2>2. b <= batches /\ \A v \in Workers \ {w} : Confirms(request[v]) => request[v].batch # b
    BY <1>0 DEF FactorInv, BatchInv
  <2> QED
    BY <2>1, <2>2
<1>3. \A c \in Fresh(b) : c \in [code : RecoveryCode, used : BOOLEAN] /\ c.code.batch = b
  <2>1. \A c \in Batch(b) : c \in RecoveryCode /\ c.batch = b
    BY <1>2 DEF Batch, RecoveryCode
  <2> HIDE DEF b
  <2>2. \A y \in RecoveryCode : [code |-> y, used |-> FALSE] \in [code : RecoveryCode, used : BOOLEAN]
    OBVIOUS
  <2> QED
    BY <2>1, <2>2, FreshCodes
<1>4. codes' \subseteq [code : RecoveryCode, used : BOOLEAN]
  BY <1>0, <1>3 DEF FactorInv, TypeInv
<1> HIDE DEF b
<1>5. BatchInv'
  <2> DEFINE D(x) == x <= batches /\ \A v \in Workers : Confirms(request'[v]) => request'[v].batch # x
  <2>1. \A v \in Workers : Confirms(request'[v]) => v # w /\ request'[v] = request[v] /\ Confirms(request[v])
    BY <1>1 DEF Confirms
  <2>2. ASSUME NEW x, Done(x) PROVE D(x)
    BY <2>1, <2>2 DEF Done
  <2>3. D(b)
    BY <1>2, <2>1
  <2>4. ASSUME NEW c \in codes' PROVE D(c.code.batch)
    <3>1. CASE c \in codes
      <4>1. Done(c.code.batch)
        BY <3>1 DEF FactorInv, BatchInv
      <4> QED
        BY <2>2, <4>1
    <3>2. CASE c \in Fresh(b)
      <4>1. c.code.batch = b
        BY <1>3, <3>2
      <4> HIDE DEF D
      <4> QED
        BY <2>3, <4>1
    <3> QED
      BY <1>0, <3>1, <3>2 DEF b
  <2>5. ASSUME NEW a \in accepted \cap RecoveryCode PROVE D(a.batch)
    <3>1. Done(a.batch)
      BY DEF FactorInv, BatchInv
    <3> QED
      BY <2>2, <3>1
  <2>6. ASSUME NEW v \in Workers, request'[v].pc = "mark" PROVE D(request'[v].recovery.batch)
    <3>1. request'[v] = request[v]
      BY <1>1, <2>6
    <3>2. Done(request[v].recovery.batch)
      BY <2>6, <3>1 DEF FactorInv, BatchInv
    <3>3. D(request[v].recovery.batch)
      BY <2>2, <3>2
    <3> HIDE DEF D
    <3> QED
      BY <3>1, <3>3
  <2>7. \A v \in Workers : Confirms(request'[v]) => request'[v].batch <= batches
    BY <2>1 DEF FactorInv, BatchInv
  <2>8. \A u, v \in Workers : u # v /\ Confirms(request'[u]) /\ Confirms(request'[v])
          => request'[u].batch # request'[v].batch
    BY <2>1 DEF FactorInv, BatchInv
  <2>9. accepted' \cap RecoveryCode' = accepted \cap RecoveryCode /\ batches' = batches
    BY <1>0 DEF RecoveryCode
  <2> QED
    BY <2>4, <2>5, <2>6, <2>7, <2>8, <2>9 DEF BatchInv, Done, Confirms
<1>6. RecoveryInv'
  <2> SUFFICES ASSUME excused \cap {"recovery", "database"} = {}
               PROVE  /\ again \cap RecoveryCode = {}
                      /\ \A c \in codes' : c.code \in accepted => c.used
                      /\ \A v \in Workers : request'[v].pc = "mark" => request'[v].recovery \notin accepted
    BY <1>0 DEF RecoveryInv, RecoveryCode
  <2>1. ASSUME NEW c \in codes', c.code \in accepted PROVE c.used
    <3>1. CASE c \in codes
      BY <2>1, <3>1 DEF FactorInv, RecoveryInv
    <3>2. CASE c \in Fresh(b)
      <4>1. c.code \in RecoveryCode /\ c.code.batch = b
        BY <1>3, <1>4, <3>2
      <4>2. Done(b)
        BY <2>1, <4>1 DEF FactorInv, BatchInv
      <4> QED
        BY <1>0, <4>2 DEF Done, b
    <3> QED
      BY <1>0, <3>1, <3>2 DEF b
  <2>2. \A v \in Workers : request'[v].pc = "mark" => request'[v] = request[v]
    BY <1>1
  <2> QED
    BY <2>1, <2>2 DEF FactorInv, RecoveryInv
<1>7. EnrolmentInv'
  <2> SUFFICES ASSUME excused \cap {"enrolment", "cutoff"} = {}
               PROVE  /\ row.enabled /\ {c.code : c \in codes'} = Batch(batches)
                      /\ \A v \in Workers :
                           /\ ~Enrols(request'[v]) /\ ~Confirms(request'[v])
                           /\ request'[v].pc \notin {"clean"}
                           /\ request'[v].pc = "disable" => request'[v].op = "disable"
    BY <1>0 DEF EnrolmentInv, Settled, Enrols, Confirms, Batch
  <2>1. ChangesEnrolment(request[w]) /\ row.enabled /\ codes = {} /\ b = batches
    BY <1>0 DEF FactorInv, EnrolmentInv, ChangesEnrolment, b
  <2>2. \A v \in Workers \ {w} : ~ChangesEnrolment(request[v])
    BY <2>1 DEF FactorInv, AloneInv
  <2>3. \A v \in Workers : request[v].pc \in {"clean", "disable"} => request[v].op = "disable"
    BY DEF FactorInv, EnrolmentInv
  <2>4. {c.code : c \in codes'} = Batch(batches)
    <3>1. codes' = Fresh(batches)
      BY <1>0, <2>1 DEF b
    <3> QED
      BY <3>1, FreshCodes
  <2> QED
    BY <1>1, <2>1, <2>2, <2>3, <2>4 DEF ChangesEnrolment, Enrols, Confirms, Checks
<1> QED
  BY <1>0, <1>1, <1>4, <1>5, <1>6, <1>7, CodesStep

LEMMA UseRecoveryStep ==
  ASSUME BoundsOK, FactorInv, NEW w \in Workers, UseRecoveryCode(w)
  PROVE  FactorInv'
<1> DEFINE x == request[w].recovery
<1>0. /\ TypeInv /\ TypeOK /\ request[w].pc = "mark" /\ Redeems(request[w]) /\ Finish(w)
      /\ x \in RecoveryCode
      /\ accepted' = accepted \cup {x} /\ again' = again \cup ({x} \cap accepted)
      /\ UNCHANGED <<now, row, secrets, batches>>
      /\ \/ codes' = Marked(x) /\ excused' = excused
         \/ codes' = codes /\ excused' = excused \cup {"database"}
  <2>1. TypeOK /\ Redeems(request[w])
    BY DEF FactorInv, TypeInv, UseRecoveryCode, Redeems
  <2>2. x \in RecoveryCode
    BY <2>1, Kinds DEF Redeeming
  <2> QED
    BY <2>1, <2>2 DEF FactorInv, UseRecoveryCode, Accept
<1>1. /\ request' \in [Workers -> Request] /\ request'[w].pc = "idle"
      /\ \A v \in Workers \ {w} : request'[v] = request[v]
  BY <1>0, Finished
<1> HIDE DEF x
<1>2. /\ codes' \subseteq [code : RecoveryCode, used : BOOLEAN]
      /\ \A c \in codes' : \E d \in codes : d.code = c.code /\ (d.used => c.used)
      /\ \A d \in codes : \E c \in codes' : d.code = c.code
      /\ "database" \in excused' \/ \A c \in codes' : c.code = x => c.used
  <2>1. CASE codes' = codes /\ "database" \in excused'
    BY <2>1 DEF FactorInv, TypeInv
  <2>2. CASE codes' = Marked(x)
    <3>1. \A d \in codes : /\ [d EXCEPT !.used = TRUE] \in [code : RecoveryCode, used : BOOLEAN]
                           /\ [d EXCEPT !.used = TRUE].code = d.code /\ [d EXCEPT !.used = TRUE].used
                           /\ d \in [code : RecoveryCode, used : BOOLEAN]
      BY DEF FactorInv, TypeInv
    <3> QED
      BY <2>2, <3>1 DEF Marked
  <2> QED
    BY <1>0, <2>1, <2>2
<1>3. /\ RecoveryCode' = RecoveryCode /\ Acceptances' = Acceptances
      /\ again' \cap Acceptance = again \cap Acceptance
      /\ excused \subseteq excused' /\ excused' \subseteq excused \cup {"database"}
  <2>1. Acceptances' = accepted' \cap Acceptance
    BY DEF Acceptances, Acceptance, TOTPCode
  <2>2. x \notin Acceptance
    BY <1>0, Apart
  <2> QED
    BY <1>0, <2>1, <2>2 DEF Acceptances, RecoveryCode
<1>4. TypeInv'
  <2>1. /\ accepted' \subseteq Acceptance \cup RecoveryCode /\ again' \subseteq accepted'
        /\ excused' \subseteq {"totp", "enrolment", "recovery", "cutoff", "database"}
    BY <1>0, <1>3 DEF TypeOK
  <2>2. row' \in Columns /\ (row'.enabled => row'.secret # 0)
    BY <1>0 DEF TypeInv, TypeOK
  <2>3. request'[w].pc \notin {"validate", "read", "compare", "set"}
    BY <1>1
  <2> QED
    BY <1>0, <1>1, <1>2, <2>1, <2>2, <2>3, TypeKept
<1>5. \A v \in Workers :
        /\ Checks(request'[v]) => Checks(request[v])
        /\ Redeems(request'[v]) => Redeems(request[v])
        /\ ChangesEnrolment(request'[v]) => ChangesEnrolment(request[v])
        /\ v # w => request'[v] = request[v]
        /\ request'[v].pc # "idle" => v # w
  BY <1>1 DEF Checks, Redeems, ChangesEnrolment, Confirms
<1>6. AloneInv'
  BY <1>3, <1>5, AloneKept DEF FactorInv
<1>7. NeverLockedOut'
  BY <1>0, <1>1 DEF FactorInv, NeverLockedOut
<1>8. BatchInv'
  <2>1. \A v \in Workers : /\ Confirms(request'[v]) => Confirms(request[v]) /\ request'[v].batch = request[v].batch
                           /\ request'[v].pc = "mark" => request'[v] = request[v]
    BY <1>1 DEF Confirms
  <2>2. /\ \A v \in Workers : Confirms(request'[v]) => request'[v].batch <= batches
        /\ \A u, v \in Workers : u # v /\ Confirms(request'[u]) /\ Confirms(request'[v])
             => request'[u].batch # request'[v].batch
    BY <2>1 DEF FactorInv, BatchInv
  <2> DEFINE D(b) == b <= batches /\ \A v \in Workers : Confirms(request'[v]) => request'[v].batch # b
  <2>3. ASSUME NEW b, Done(b) PROVE D(b)
    BY <2>1, <2>3 DEF Done
  <2>4. Done(x.batch)
    BY <1>0 DEF FactorInv, BatchInv, x
  <2>5. ASSUME NEW c \in codes' PROVE D(c.code.batch)
    <3>1. PICK d \in codes : d.code = c.code
      BY <1>2
    <3>2. Done(d.code.batch)
      BY DEF FactorInv, BatchInv
    <3>3. D(d.code.batch)
      BY <2>3, <3>2
    <3> HIDE DEF D
    <3> QED
      BY <3>1, <3>3
  <2>6. ASSUME NEW a \in accepted' \cap RecoveryCode PROVE D(a.batch)
    <3>1. Done(a.batch)
      <4>1. CASE a = x
        BY <2>4, <4>1
      <4>2. CASE a \in accepted
        BY <4>2 DEF FactorInv, BatchInv
      <4> QED
        BY <1>0, <4>1, <4>2
    <3> QED
      BY <2>3, <3>1
  <2>7. ASSUME NEW v \in Workers, request'[v].pc = "mark" PROVE D(request'[v].recovery.batch)
    <3>1. request'[v] = request[v]
      BY <2>1, <2>7
    <3>2. Done(request[v].recovery.batch)
      BY <2>7, <3>1 DEF FactorInv, BatchInv
    <3>3. D(request[v].recovery.batch)
      BY <2>3, <3>2
    <3> HIDE DEF D
    <3> QED
      BY <3>1, <3>3
  <2> QED
    BY <1>0, <1>3, <2>2, <2>5, <2>6, <2>7 DEF BatchInv, Done, Confirms
<1>9. RecoveryInv'
  <2> SUFFICES ASSUME excused' \cap {"recovery", "database"} = {}
               PROVE  /\ again' \cap RecoveryCode = {}
                      /\ \A c \in codes' : c.code \in accepted' => c.used
                      /\ \A v \in Workers : request'[v].pc = "mark" => request'[v].recovery \notin accepted'
    BY <1>3 DEF RecoveryInv
  <2>1. excused \cap {"recovery", "database"} = {}
    BY <1>3
  <2>2. x \notin accepted /\ again \cap RecoveryCode = {}
    BY <1>0, <2>1 DEF FactorInv, RecoveryInv, x
  <2>3. ASSUME NEW c \in codes', c.code \in accepted' PROVE c.used
    <3>1. PICK d \in codes : d.code = c.code /\ (d.used => c.used)
      BY <1>2
    <3>2. c.code \in accepted => d.used
      BY <2>1, <3>1 DEF FactorInv, RecoveryInv
    <3> QED
      BY <1>0, <1>2, <2>3, <3>1, <3>2
  <2>4. \A v \in Workers : request'[v].pc # "mark"
    <3>1. \A v \in Workers \ {w} : ~Redeems(request[v])
      BY <1>0, <2>1 DEF FactorInv, AloneInv
    <3> QED
      BY <1>1, <3>1 DEF Redeems
  <2> QED
    BY <1>0, <2>2, <2>3, <2>4
<1>10. TOTPInv'
  <2>1. \A v \in Workers :
           /\ Enrols(request'[v]) => Enrols(request[v]) /\ request'[v].secret = request[v].secret
           /\ request'[v].pc \in {"validate", "read", "compare", "set"} => request'[v] = request[v]
    BY <1>1 DEF Enrols
  <2> QED
    BY <1>0, <1>3, <2>1, TOTPKept DEF FactorInv
<1>11. EnrolmentInv'
  <2>1. \A v \in Workers :
           /\ Confirms(request[v]) => Confirms(request'[v])
           /\ request[v].pc = "clean" => request'[v].pc = "clean"
           /\ Enrols(request'[v]) => Enrols(request[v])
           /\ Confirms(request'[v]) => Confirms(request[v]) /\ request'[v].batch = request[v].batch
           /\ request'[v].pc # "idle" => request'[v] = request[v]
    BY <1>0, <1>1 DEF Confirms, Enrols
  <2>2. {c.code : c \in codes'} = {c.code : c \in codes}
    BY <1>2
  <2>3. codes = {} => codes' = {}
    BY <1>2
  <2> QED
    BY <1>0, <1>3, <2>1, <2>2, <2>3, EnrolmentKept DEF FactorInv
<1> QED
  BY <1>4, <1>6, <1>7, <1>8, <1>9, <1>10, <1>11 DEF FactorInv

-----------------------------------------------------------------------------
(* The specification *)

LEMMA FactorStart ==
  ASSUME BoundsOK, Init
  PROVE  FactorInv
<1>1. \A w \in Workers : request[w] = Idle /\ request[w].pc = "idle"
  BY DEF Init, Idle
<1>2. TypeOK
  BY DEF Init, TypeOK, BoundsOK, Steps, Cleared, Columns
<1>3. TypeInv
  BY <1>1, <1>2 DEF Init, TypeInv, Cleared
<1>4. AloneInv
  BY <1>1 DEF AloneInv, Checks, Redeems, ChangesEnrolment, Confirms
<1>5. NeverLockedOut
  BY <1>1 DEF NeverLockedOut, Init, Cleared
<1>6. BatchInv
  BY <1>1 DEF BatchInv, Init, Confirms
<1>7. RecoveryInv
  BY <1>1 DEF RecoveryInv, Init
<1>8. TOTPInv
  BY <1>1 DEF TOTPInv, Init, Acceptances, Enrols, Cleared
<1>9. EnrolmentInv
  BY <1>1 DEF EnrolmentInv, Settled, Init, Enrols, Confirms, Cleared
<1> QED
  BY <1>3, <1>4, <1>5, <1>6, <1>7, <1>8, <1>9 DEF FactorInv

LEMMA FactorStep ==
  ASSUME BoundsOK, FactorInv, [Next]_vars
  PROVE  FactorInv'
<1>1. ASSUME NEW w \in Workers, Enrol(w) PROVE FactorInv'
  BY <1>1, RequestsBegin, RequestsGoOn, PendingStep, EnableStep, ReplaceCommitsStep DEF Enrol
<1>2. ASSUME NEW w \in Workers, CheckTOTP(w) PROVE FactorInv'
  BY <1>2, RequestsBegin, RequestsGoOn, AcceptsStep, DisableColumnsStep, DisableCodesStep DEF CheckTOTP
<1>3. ASSUME NEW w \in Workers, CheckRecovery(w) PROVE FactorInv'
  BY <1>3, RequestsBegin, RequestsGoOn, UseRecoveryStep DEF CheckRecovery
<1>4. ASSUME NEW w \in Workers, CutOff(w) PROVE FactorInv'
  BY <1>4, RequestsGoOn
<1>5. CASE Tick \/ UNCHANGED vars
  BY <1>5, TimeStep
<1> QED
  BY <1>1, <1>2, <1>3, <1>4, <1>5 DEF Next

LEMMA FactorInvariant ==
  ASSUME BoundsOK
  PROVE  Spec => []FactorInv
<1>1. Init => FactorInv
  BY FactorStart
<1>2. FactorInv /\ [Next]_vars => FactorInv'
  BY FactorStep
<1> QED
  BY <1>1, <1>2, PTL DEF Spec

\* The columns, the codes and what every request holds keep their types.
THEOREM TypeCorrect == ASSUME BoundsOK PROVE Spec => []TypeOK
<1>1. FactorInv => TypeOK
  BY DEF FactorInv, TypeInv
<1> QED
  BY <1>1, FactorInvariant, PTL

\* However requests overlap, are cut off and statements fail, no step that has
\* not begun is ever stored as used or on its way to be: SetTOTPLastStep cannot
\* lock a user out of the codes to come.
THEOREM NotLockedOut == ASSUME BoundsOK PROVE Spec => []NeverLockedOut
<1>1. FactorInv => NeverLockedOut
  BY DEF FactorInv
<1> QED
  BY <1>1, FactorInvariant, PTL

\* The one column totp_last_step suffices for one acceptance per secret and
\* step, for any skew, as long as checks, and changes of the enrolment, take
\* turns and the database works.
THEOREM OneCodePerStep == ASSUME BoundsOK PROVE Spec => []OneAcceptancePerStep
<1>1. FactorInv => OneAcceptancePerStep
  BY DEF FactorInv, TOTPInv, OneAcceptancePerStep
<1> QED
  BY <1>1, FactorInvariant, PTL

\* A recovery code that was accepted stays marked, or is deleted and never
\* comes back: UseRecoveryCode and ReplaceRecoveryCodes, for batches of any size.
THEOREM RecoveryOnce == ASSUME BoundsOK PROVE Spec => []RecoveryCodesUsedOnce
<1>1. FactorInv => RecoveryCodesUsedOnce
  BY DEF FactorInv, RecoveryInv, RecoveryCodesUsedOnce
<1> QED
  BY <1>1, FactorInvariant, PTL

\* The recovery codes on file are all those of the enrolment in force, and none
\* outlives it, unless changes of the enrolment overlap or one is cut off.
THEOREM CodesAreCurrent == ASSUME BoundsOK PROVE Spec => []CodesOfThisEnrolment
<1>1. FactorInv => CodesOfThisEnrolment
  <2> SUFFICES ASSUME FactorInv, excused \cap {"enrolment", "cutoff"} = {},
                      \A w \in Workers : "enrolment" \notin Touches(request[w])
               PROVE  Settled
    BY DEF CodesOfThisEnrolment, Settled
  <2>1. ASSUME NEW w \in Workers PROVE ~Confirms(request[w]) /\ request[w].pc # "clean"
    <3>1. ~ChangesEnrolment(request[w])
      BY Kinds, TouchesIs DEF FactorInv, TypeInv
    <3>2. request[w].pc = "clean" => request[w].op = "disable"
      BY DEF FactorInv, EnrolmentInv
    <3> QED
      BY <3>1, <3>2 DEF ChangesEnrolment, Checks
  <2> QED
    BY <2>1 DEF FactorInv, EnrolmentInv
<1> QED
  BY <1>1, FactorInvariant, PTL
=============================================================================
