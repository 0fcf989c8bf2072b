------------------------ MODULE SessionCookieProofs ------------------------
(* Theorems about SessionCookie, for any number of requests in flight, any   *)
(* idle window and cap, and any length of time.                              *)
EXTENDS SessionCookie, TLAPS

-----------------------------------------------------------------------------
(* The inductive invariant *)

Sent(w) == request[w].answer
Missed(w) == request[w].missed

\* Another session is not in the jar since, and no password was changed since.
OnTime(w) == w \in Pending /\ "turn" \notin Missed(w)
Fresh(w) == w \in Pending /\ Missed(w) = {}

\* No copy of a session is younger than the last login, used later than the last
\* use, or ahead of the epoch; a user comes with a token.
HeldInv ==
  /\ lastLogin <= clock /\ lastUse <= clock
  /\ \A c \in Held : /\ c.created <= lastLogin /\ c.last <= lastUse /\ c.epoch <= epoch
                     /\ c.user => c.token # 0

\* What an answer does, it does completely.
Whole(a) ==
  /\ a.pairs => a.saves /\ a.csrf = a.session.token
  /\ a.told # 0 => a.saves /\ a.session.user /\ a.told = a.session.last + SessionTimeout
  /\ a.did = "in" => a.saves /\ a.pairs /\ a.session.user /\ a.told = 0
  /\ a.did = "out" => a.saves /\ ~a.session.user
  /\ a.did = "change" => a.saves /\ a.session.user

AnswersInv == \A w \in Pending : Whole(Sent(w))

\* What an answer that is on time brings, but for a login, is the session in the
\* jar again.
FromJar(a) ==
  a.saves /\ a.session.user /\ a.did # "in" =>
    jar.session.user /\ a.session.token = jar.session.token
JarInv == \A w \in Pending : OnTime(w) => FromJar(Sent(w))

\* Until the answer to a change of the password is there, everything else that is
\* on time is of an epoch before it: there is no second change.
Before(e) ==
  /\ jar.session.epoch < e
  /\ \A v \in Pending : OnTime(v) /\ Sent(v).saves /\ Sent(v).did = "other" =>
       Sent(v).session.epoch < e
ChangeInv == \A w \in Pending : Fresh(w) /\ Sent(w).did = "change" => Before(epoch)

\* A session that is in, or out of age.
GoodAt(c, e, t) ==
  c.user /\ (c.epoch = e \/ t - c.created > SessionMaxLifetime \/ t - c.last > SessionTimeout)
Good(c) == GoodAt(c, epoch, clock)

\* While a session is owed, the jar and the answers that may get there have one,
\* or a change of the password is still to be answered.
OwesAt(a, e, t, changing) ==
  a.saves =>
    /\ a.did = "change" => a.session.epoch = e
    /\ a.did = "other" => GoodAt(a.session, e, t) \/ changing
Owes(a) == OwesAt(a, epoch, clock, Changing)

OwedInv ==
  owed =>
    /\ Good(jar.session) \/ Changing
    /\ \A w \in Pending : Fresh(w) => Owes(Sent(w))

\* Without a session no deadline is told.
ToldInv == ~jar.session.user => told = 0

CookieInv ==
  /\ HeldInv /\ AnswersInv /\ JarInv /\ ChangeInv /\ OwedInv /\ ToldInv
  /\ PairAgrees /\ DeadlineKept /\ SignedOutStaysOut

-----------------------------------------------------------------------------
(* Types, and what an answer in flight is *)

LEMMA CopyTypes ==
  ASSUME TypeOK, NEW c \in Content, NEW t \in Nat
  PROVE  /\ Blank \in Content
         /\ Slide(c) \in Content /\ Restamped(c) \in Content /\ WithToken(c, t) \in Content
         /\ Restamped(Slide(c)) \in Content
<1>1. clock \in Nat /\ epoch + 1 \in Nat
  BY DEF TypeOK
<1>2. Blank \in Content
  BY DEF Content, Blank
<1>3. /\ Slide(c) \in Content /\ Restamped(c) \in Content /\ WithToken(c, t) \in Content
  BY <1>1 DEF Content, Slide, Restamped, WithToken
<1>4. Restamped(Slide(c)) \in Content
  <2> DEFINE d == Slide(c)
  <2>1. d \in Content
    BY <1>3
  <2> HIDE DEF d
  <2>2. Restamped(d) \in Content
    BY <1>1, <2>1 DEF Content, Restamped
  <2> QED
    BY <2>2 DEF d
<1> QED
  BY <1>2, <1>3, <1>4

LEMMA InFlightType ==
  ASSUME TypeOK, NEW w \in Pending
  PROVE  /\ w \in Requests /\ request[w] \in InFlight
         /\ Sent(w) \in Answers /\ Sent(w).session \in Content
         /\ Sent(w).csrf \in Nat /\ Sent(w).told \in Nat
<1>1. w \in Requests /\ request[w] \in InFlight \cup {Free} /\ ~request[w].free
  BY DEF TypeOK, Pending
<1>2. request[w] # Free
  BY <1>1 DEF Free
<1>3. request[w] \in InFlight
  BY <1>1, <1>2
<1>4. request[w].answer \in Answers
  BY <1>3 DEF InFlight
<1> QED
  BY <1>1, <1>3, <1>4 DEF Sent, Answers

LEMMA HeldType ==
  ASSUME TypeOK
  PROVE  Held \subseteq Content /\ jar.session \in Content /\ jar.csrf \in Nat
  BY InFlightType DEF TypeOK, Held, Jar, Sent

\* An answer begins its way, arrives, or is lost.
LEMMA Answered ==
  ASSUME TypeOK, NEW w \in Requests, NEW a \in Answers, Answer(w, a)
  PROVE  /\ request' \in [Requests -> InFlight \cup {Free}]
         /\ w \notin Pending /\ Pending' = Pending \cup {w}
         /\ request'[w].answer = a /\ request'[w].missed = {}
         /\ \A v \in Pending : request'[v] = request[v]
<1> DEFINE r == [free |-> FALSE, missed |-> {}, answer |-> a]
<1>1. r \in InFlight /\ r.free = FALSE /\ r.missed = {} /\ r.answer = a
  BY DEF InFlight
<1>2. request[w] = Free /\ Free.free = TRUE
  BY DEF Answer, Free
<1>3. request' = [request EXCEPT ![w] = r] /\ request \in [Requests -> InFlight \cup {Free}]
  BY DEF Answer, TypeOK
<1> HIDE DEF r
<1>4. request'[w] = r /\ \A v \in Requests \ {w} : request'[v] = request[v]
  BY <1>3
<1>5. w \notin Pending
  BY <1>2 DEF Pending
<1>6. Pending' = Pending \cup {w}
  BY <1>1, <1>4 DEF Pending
<1> QED
  BY <1>1, <1>3, <1>4, <1>5, <1>6 DEF Pending

LEMMA Delivered ==
  ASSUME TypeOK, NEW w \in Requests, Deliver(w)
  PROVE  /\ request' \in [Requests -> InFlight \cup {Free}]
         /\ w \in Pending /\ Pending' = Pending \ {w}
         /\ \A v \in Pending' :
              /\ request'[v].answer = request[v].answer
              /\ request'[v].missed = Missing(request[v].missed, Tells(Sent(w), Missed(w)))
<1> DEFINE news == Tells(Sent(w), Missed(w))
           After(v) == IF v = w THEN Free
                       ELSE IF v \in Pending
                            THEN [request[v] EXCEPT !.missed = Missing(@, news)] ELSE request[v]
<1>1. request' = [v \in Requests |-> After(v)] /\ w \in Pending
  BY DEF Deliver, Sent, Missed
<1>2. news \in SUBSET Tidings
  BY DEF Tells, Tidings
<1> HIDE DEF news
<1>0. \A m \in SUBSET Tidings : Missing(m, news) \in SUBSET Tidings
  BY <1>2 DEF Missing, Tidings
<1>3. ASSUME NEW v \in Requests
      PROVE  /\ After(v) \in InFlight \cup {Free}
             /\ ~After(v).free <=> v \in Pending \ {w}
             /\ v \in Pending \ {w} =>
                  /\ After(v).answer = request[v].answer
                  /\ After(v).missed = Missing(request[v].missed, news)
  <2>1. CASE v = w
    BY <2>1 DEF Free
  <2>2. CASE v # w /\ v \in Pending
    <3>1. request[v] \in InFlight
      BY <2>2, InFlightType
    <3>2. After(v) = [request[v] EXCEPT !.missed = Missing(@, news)]
      BY <2>2
    <3> QED
      BY <1>0, <2>2, <3>1, <3>2 DEF InFlight
  <2>3. CASE v # w /\ v \notin Pending
    BY <2>3 DEF TypeOK, Pending
  <2> QED
    BY <2>1, <2>2, <2>3
<1>4. \A v \in Requests : request'[v] = After(v)
  BY <1>1
<1> HIDE DEF After
<1>5. Pending' = Pending \ {w}
  BY <1>3, <1>4 DEF Pending
<1>6. Pending \subseteq Requests
  BY DEF Pending
<1> QED
  BY <1>1, <1>3, <1>4, <1>5, <1>6 DEF news

LEMMA Lost ==
  ASSUME TypeOK, NEW w \in Requests, Lose(w)
  PROVE  /\ request' \in [Requests -> InFlight \cup {Free}]
         /\ w \in Pending /\ Pending' = Pending \ {w}
         /\ \A v \in Pending' : request'[v] = request[v]
  BY DEF TypeOK, Lose, InFlight, Free, Pending

-----------------------------------------------------------------------------
(* The handlers: what all their answers have in common *)

Made(w, a) ==
  /\ a \in Answers /\ Answer(w, a)
  /\ UNCHANGED <<clock, jar, told, left, raced>>
  /\ lastLogin' \in {lastLogin, clock} /\ lastUse' \in {lastUse, clock}
  /\ epoch' \in {epoch, epoch + 1}
  /\ owed' \in BOOLEAN /\ (owed' => owed)
  /\ a.session.created <= lastLogin' /\ a.session.last <= lastUse' /\ a.session.epoch <= epoch'
  /\ a.session.user => a.session.token # 0
  /\ Whole(a) /\ FromJar(a)
  /\ a.did = "change" =>
       /\ epoch' = epoch + 1 /\ a.session.epoch = epoch'
       /\ ~\E v \in Pending : Fresh(v) /\ Sent(v).did = "change"
  /\ a.saves /\ a.did = "other" => a.session.epoch <= jar.session.epoch
  /\ owed' =>
       /\ a.did # "change" => epoch' = epoch
       /\ a.saves /\ a.did = "other" => Good(a.session) \/ Changing

\* What is known of the session in the jar.
LEMMA InJar ==
  ASSUME TypeOK, CookieInv
  PROVE  /\ jar.session \in Content
         /\ lastLogin \in Nat /\ lastUse \in Nat /\ clock \in Nat /\ epoch \in Nat
         /\ lastLogin <= clock /\ lastUse <= clock
         /\ jar.session.created \in Nat /\ jar.session.last \in Nat /\ jar.session.epoch \in Nat
         /\ jar.session.created <= lastLogin /\ jar.session.last <= lastUse
         /\ jar.session.epoch <= epoch
         /\ jar.session.user => jar.session.token # 0
         /\ owed \in BOOLEAN /\ (owed => Good(jar.session) \/ Changing)
<1>1. jar.session \in Content /\ jar.session \in Held
  BY HeldType DEF Held
<1>2. jar.session.created \in Nat /\ jar.session.last \in Nat /\ jar.session.epoch \in Nat
  BY <1>1 DEF Content
<1> QED
  BY <1>1, <1>2 DEF TypeOK, CookieInv, HeldInv, OwedInv

\* The answers that save a session made from the one in the jar and change
\* nothing in the history of logins.
LEMMA MadeFromJar ==
  ASSUME TypeOK, CookieInv, NEW w \in Requests, NEW c \in Content, NEW a \in Answers,
         Answer(w, a), UNCHANGED <<clock, jar, told, lastLogin, left, raced>>,
         lastUse' \in {lastUse, clock}, epoch' \in {epoch, epoch + 1},
         owed' \in BOOLEAN, owed' => owed /\ epoch' = epoch,
         c.user = jar.session.user, c.epoch = jar.session.epoch,
         c.created = jar.session.created,
         c.user => c.token # 0, jar.session.token # 0 => c.token = jar.session.token,
         c.last \in {jar.session.last, lastUse'},
         a.saves, a.session = c, a.did = "other",
         a.pairs => a.csrf = c.token,
         a.told # 0 => c.user /\ a.told = c.last + SessionTimeout,
         c.last = jar.session.last \/ Accepts(jar.session)
  PROVE  Made(w, a)
<1>1. c.created <= lastLogin' /\ c.last <= lastUse' /\ c.epoch <= epoch'
  BY InJar
<1>2. Whole(a) /\ FromJar(a)
  BY InJar DEF Whole, FromJar
<1>3. owed => Good(c) \/ Changing
  BY InJar DEF Good, GoodAt, Aged, Accepts
<1> QED
  BY <1>1, <1>2, <1>3, InJar DEF Made

LEMMA Answering ==
  ASSUME NEW c \in Content, NEW n \in Nat, NEW t \in Nat
  PROVE  /\ Nothing \in Answers
         /\ Saves(c) \in Answers
         /\ [Saves(c) EXCEPT !.told = n] \in Answers
         /\ LoginAnswer(c) \in Answers
         /\ ExpireBoth(c) \in Answers
         /\ [Saves(c) EXCEPT !.did = "out"] \in Answers
         /\ [Saves(c) EXCEPT !.did = "change"] \in Answers
<1>1. Blank \in Content
  BY DEF Blank, Content
<1>2. Nothing \in Answers
  BY <1>1 DEF Nothing, Answers
<1>3. ASSUME NEW d \in Content PROVE Saves(d) \in Answers
  BY <1>2, <1>3 DEF Saves, Answers
<1>4. c.token \in Nat
  BY DEF Content
<1>5. ASSUME NEW a \in Answers, NEW d \in {"in", "out", "change"}
      PROVE  /\ [a EXCEPT !.did = d] \in Answers /\ [a EXCEPT !.told = n] \in Answers
             /\ [a EXCEPT !.pairs = TRUE] \in Answers /\ [a EXCEPT !.csrf = c.token] \in Answers
  BY <1>4, <1>5 DEF Answers
<1>6. ExpireBoth(c) \in Answers
  <2> DEFINE a == Saves(Blank)
             b == [a EXCEPT !.did = "out"]
  <2>1. a \in Answers /\ b \in Answers
    BY <1>1, <1>3, <1>5
  <2>2. ExpireBoth(c) = [b EXCEPT !.pairs = TRUE]
    BY DEF ExpireBoth
  <2> HIDE DEF b
  <2> QED
    BY <1>5, <2>1, <2>2
<1>7. LoginAnswer(c) \in Answers
  <2> DEFINE a == Saves(c)
             b == [a EXCEPT !.did = "in"]
             e == [b EXCEPT !.pairs = TRUE]
  <2>1. a \in Answers
    BY <1>3
  <2>2. b \in Answers
    BY <1>5, <2>1
  <2>3. LoginAnswer(c) = [e EXCEPT !.csrf = c.token]
    BY DEF LoginAnswer
  <2> HIDE DEF b
  <2>4. e \in Answers
    BY <1>5, <2>2
  <2> HIDE DEF e
  <2> QED
    BY <1>5, <2>3, <2>4
<1> QED
  BY <1>2, <1>3, <1>5, <1>6, <1>7

\* What Saves, Slide and their like change in a record.
LEMMA Fields ==
  ASSUME NEW c \in Content, NEW n \in Nat, NEW t \in Nat
  PROVE  /\ Saves(c).saves /\ Saves(c).session = c /\ Saves(c).did = "other"
         /\ ~Saves(c).pairs /\ Saves(c).told = 0
         /\ LET a == [Saves(c) EXCEPT !.told = n]
            IN a.saves /\ a.session = c /\ a.did = "other" /\ ~a.pairs /\ a.told = n
         /\ LET a == [Saves(c) EXCEPT !.did = "out"]
            IN a.saves /\ a.session = c /\ a.did = "out" /\ ~a.pairs /\ a.told = 0
         /\ LET a == [Saves(c) EXCEPT !.did = "change"]
            IN a.saves /\ a.session = c /\ a.did = "change" /\ ~a.pairs /\ a.told = 0
         /\ LET d == Slide(c)
            IN /\ d.user = c.user /\ d.epoch = c.epoch /\ d.created = c.created
               /\ d.token = c.token /\ d.last = clock
         /\ LET d == WithToken(c, t)
            IN /\ d.user = c.user /\ d.epoch = c.epoch /\ d.created = c.created
               /\ d.token = t /\ d.last = c.last
         /\ LET d == Restamped(c)
            IN /\ d.user = c.user /\ d.epoch = epoch + 1 /\ d.created = c.created
               /\ d.token = c.token /\ d.last = c.last
  BY DEF Saves, Nothing, Slide, WithToken, Restamped, Content

LEMMA HandledPage ==
  ASSUME TypeOK, CookieInv, NEW w \in Requests,
         LoginGet(w) \/ FormRefused(w) \/ AdmitPage(w) \/ AdmitOperation(w) \/ GetSession(w)
  PROVE  \E a \in Answers : Made(w, a)
<1> DEFINE j == jar.session
<1>0. /\ j \in Content /\ j.last \in Nat /\ j.token \in Nat /\ MaxTokens \in Nat
      /\ SessionTimeout \in Nat /\ clock \in Nat
  BY InJar, CookieAssumption DEF Content
<1>1. CASE LoginGet(w)
  <2>1. PICK t \in 1..MaxTokens : IsTokenFor(j, t) /\ Answer(w, Saves(WithToken(j, t)))
    BY <1>1 DEF LoginGet
  <2> DEFINE c == WithToken(j, t)
  <2>2. t \in Nat /\ t # 0 /\ (j.token # 0 => t = j.token)
    BY <1>0, <2>1 DEF IsTokenFor
  <2>3. c \in Content /\ Saves(c) \in Answers
    BY <1>0, <2>2, CopyTypes, Answering
  <2>4. /\ c.user = j.user /\ c.epoch = j.epoch /\ c.created = j.created
        /\ c.token = t /\ c.last = j.last
    BY <1>0, <2>2, Fields
  <2> HIDE DEF c
  <2>5. /\ Saves(c).saves /\ Saves(c).session = c /\ Saves(c).did = "other"
        /\ ~Saves(c).pairs /\ Saves(c).told = 0
    BY <2>3, Fields
  <2>6. Answer(w, Saves(c))
    BY <2>1 DEF c
  <2>7. /\ UNCHANGED <<clock, jar, told, lastLogin, left, raced>>
        /\ epoch' = epoch /\ owed' = owed /\ lastUse' \in {lastUse, clock}
    BY <1>1 DEF LoginGet, history
  <2>8. Made(w, Saves(c))
    BY <2>2, <2>3, <2>4, <2>5, <2>6, <2>7, InJar, MadeFromJar
  <2> QED
    BY <2>3, <2>8
<1>2. CASE FormRefused(w)
  <2>1. Answer(w, Saves(j)) /\ Saves(j) \in Answers
    BY <1>0, <1>2, Answering DEF FormRefused
  <2>2. /\ Saves(j).saves /\ Saves(j).session = j /\ Saves(j).did = "other"
        /\ ~Saves(j).pairs /\ Saves(j).told = 0
    BY <1>0, Fields
  <2>3. /\ UNCHANGED <<clock, jar, told, lastLogin, left, raced>>
        /\ epoch' = epoch /\ owed' = owed /\ lastUse' \in {lastUse, clock}
    BY <1>2 DEF FormRefused, history
  <2>4. Made(w, Saves(j))
    BY <1>0, <2>1, <2>2, <2>3, InJar, MadeFromJar
  <2> QED
    BY <2>1, <2>4
<1>3. CASE AdmitPage(w)
  <2> DEFINE c == Slide(j)
  <2>1. c \in Content /\ Saves(c) \in Answers
    BY <1>0, CopyTypes, Answering
  <2>2. /\ c.user = j.user /\ c.epoch = j.epoch /\ c.created = j.created
        /\ c.token = j.token /\ c.last = clock
    BY <1>0, Fields
  <2>3. Answer(w, Saves(c)) /\ Accepts(j)
    BY <1>3 DEF AdmitPage
  <2> HIDE DEF c
  <2>4. /\ Saves(c).saves /\ Saves(c).session = c /\ Saves(c).did = "other"
        /\ ~Saves(c).pairs /\ Saves(c).told = 0
    BY <2>1, Fields
  <2>5. /\ UNCHANGED <<clock, jar, told, lastLogin, left, raced>>
        /\ epoch' = epoch /\ owed' = owed /\ lastUse' = clock
    BY <1>3 DEF AdmitPage
  <2>6. Made(w, Saves(c))
    BY <2>1, <2>2, <2>3, <2>4, <2>5, InJar, MadeFromJar
  <2> QED
    BY <2>1, <2>6
<1>4. CASE AdmitOperation(w)
  <2> DEFINE c == Slide(j)
             n == ExpiresAt(c)
             a == [Saves(c) EXCEPT !.told = n]
  <2>1. /\ c.user = j.user /\ c.epoch = j.epoch /\ c.created = j.created
        /\ c.token = j.token /\ c.last = clock
    BY <1>0, Fields
  <2>2. c \in Content /\ n \in Nat /\ n = c.last + SessionTimeout
    BY <1>0, <2>1, CopyTypes DEF ExpiresAt
  <2>3. Answer(w, a) /\ Accepts(j)
    BY <1>4 DEF AdmitOperation
  <2> HIDE DEF c, n
  <2>4. a \in Answers
    BY <2>2, Answering
  <2>5. a.saves /\ a.session = c /\ a.did = "other" /\ ~a.pairs /\ a.told = n
    BY <2>2, Fields
  <2> HIDE DEF a
  <2>6. /\ UNCHANGED <<clock, jar, told, lastLogin, left, raced>>
        /\ epoch' = epoch /\ owed' = owed /\ lastUse' = clock
    BY <1>4 DEF AdmitOperation
  <2>7. c.user
    BY <2>1, <2>3 DEF Accepts
  <2>8. Made(w, a)
    BY <2>1, <2>2, <2>3, <2>4, <2>5, <2>6, <2>7, InJar, MadeFromJar
  <2> QED
    BY <2>4, <2>8
<1>5. CASE GetSession(w)
  <2>1. PICK t \in 1..MaxTokens : IsTokenFor(j, t) /\ Answer(w, PollAnswer(WithToken(j, t)))
    BY <1>5 DEF GetSession
  <2> DEFINE c == WithToken(j, t)
             a == PollAnswer(c)
  <2>2. t \in Nat /\ t # 0 /\ (j.token # 0 => t = j.token)
    BY <1>0, <2>1 DEF IsTokenFor
  <2>3. c \in Content
    BY <1>0, <2>2, CopyTypes
  <2>4. /\ c.user = j.user /\ c.epoch = j.epoch /\ c.created = j.created
        /\ c.token = t /\ c.last = j.last
    BY <1>0, <2>2, Fields
  <2>5. Answer(w, a)
    BY <2>1
  <2> HIDE DEF c
  <2>6. /\ a.saves /\ a.session = c /\ a.did = "other" /\ a.csrf = c.token
        /\ a.told # 0 => c.user /\ a.told = c.last + SessionTimeout
    BY DEF PollAnswer, ExpiresAt, Accepts
  <2>7. a \in Answers
    BY <1>0, <2>2, <2>3, <2>4 DEF PollAnswer, ExpiresAt, Answers
  <2> HIDE DEF a
  <2>8. /\ UNCHANGED <<clock, jar, told, lastLogin, left, raced>>
        /\ epoch' = epoch /\ owed' = owed /\ lastUse' \in {lastUse, clock}
    BY <1>5 DEF GetSession, history
  <2>9. Made(w, a)
    BY <2>2, <2>3, <2>4, <2>5, <2>6, <2>7, <2>8, InJar, MadeFromJar
  <2> QED
    BY <2>7, <2>9
<1> QED
  BY <1>1, <1>2, <1>3, <1>4, <1>5

LEMMA HandledLogin ==
  ASSUME TypeOK, CookieInv, NEW w \in Requests, CompleteLogin(w)
  PROVE  \E a \in Answers : Made(w, a)
<1>1. PICK t \in 1..MaxTokens :
        Answer(w, LoginAnswer([user |-> TRUE, epoch |-> epoch, created |-> clock,
                               last |-> clock, token |-> t]))
  BY DEF CompleteLogin
<1> DEFINE c == [user |-> TRUE, epoch |-> epoch, created |-> clock, last |-> clock, token |-> t]
           a == LoginAnswer(c)
<1>2. t \in Nat /\ t # 0
  BY CookieAssumption
<1>3. c \in Content /\ c.user /\ c.created = clock /\ c.last = clock /\ c.token = t
      /\ c.epoch = epoch
  BY <1>2, InJar DEF Content
<1> HIDE DEF c
<1>4. a \in Answers
  BY <1>3, Answering
<1>5. /\ a.did = "in" /\ a.saves /\ a.pairs /\ a.session = c /\ a.csrf = c.token /\ a.told = 0
  BY DEF LoginAnswer, Saves, Nothing
<1>6. Answer(w, a)
  BY <1>1 DEF c
<1> HIDE DEF a
<1>7. UNCHANGED <<clock, epoch, jar, told, owed, left, raced>> /\ lastLogin' = clock /\ lastUse' = clock
  BY DEF CompleteLogin
<1>8. Whole(a) /\ FromJar(a)
  BY <1>3, <1>5 DEF Whole, FromJar
<1>9. Made(w, a)
  BY <1>2, <1>3, <1>4, <1>5, <1>6, <1>7, <1>8, InJar DEF Made, TypeOK
<1> QED
  BY <1>4, <1>9

LEMMA HandledEnd ==
  ASSUME TypeOK, CookieInv, NEW w \in Requests,
         Refuse(w) \/ DeleteSession(w) \/ Logout(w)
  PROVE  \E a \in Answers : Made(w, a)
<1> DEFINE j == jar.session
           out == [Saves(Blank) EXCEPT !.did = "out"]
<1>1. /\ Blank \in Content /\ ~Blank.user /\ Blank.created = 0 /\ Blank.last = 0
      /\ Blank.epoch = 0
  BY DEF Blank, Content
<1>2. /\ Saves(Blank) \in Answers /\ Saves(Blank).session = Blank
      /\ ~Saves(Blank).pairs /\ Saves(Blank).told = 0 /\ Saves(Blank).did = "other"
  <2>1. Saves(Blank) \in Answers
    BY <1>1, Answering
  <2> QED
    BY <2>1 DEF Saves, Nothing
<1>3. /\ out \in Answers /\ out.saves /\ out.session = Blank
      /\ ~out.pairs /\ out.told = 0 /\ out.did = "out"
  <2>1. out \in Answers
    BY <1>1, Answering
  <2> QED
    BY <2>1 DEF Saves, Nothing
<1>4. /\ ExpireBoth(j) \in Answers /\ ExpireBoth(j).saves /\ ExpireBoth(j).session = Blank
      /\ ExpireBoth(j).told = 0 /\ ExpireBoth(j).did = "out"
      /\ ExpireBoth(j).csrf = Blank.token
  BY <1>1, InJar, Answering DEF ExpireBoth, Saves, Nothing, Blank
\* An answer without a user is well made as long as the user is not owed one.
<1>5. ASSUME NEW a \in Answers, a.session = Blank, Answer(w, a),
             UNCHANGED <<clock, jar, told, left, raced, lastLogin, lastUse>>,
             epoch' \in {epoch, epoch + 1}, owed' \in BOOLEAN, owed' => owed,
             a.pairs => a.saves /\ a.csrf = Blank.token, a.told = 0,
             a.did = "other" \/ (a.did = "out" /\ a.saves),
             owed' => epoch' = epoch /\ (a.saves /\ a.did = "other" => Changing)
      PROVE  Made(w, a)
  <2>1. Whole(a) /\ FromJar(a)
    BY <1>1, <1>5 DEF Whole, FromJar
  <2> QED
    BY <1>1, <1>5, <2>1, InJar DEF Made
<1>6. CASE Refuse(w)
  <2>1. /\ Answer(w, Saves(Blank)) /\ j.user /\ owed' = (owed /\ ~Aged(j)) /\ ~Accepts(j)
        /\ UNCHANGED <<clock, epoch, jar, told, lastLogin, lastUse, left, raced>>
    BY <1>6 DEF Refuse
  <2>2. owed' => Changing
    BY <2>1, InJar DEF Good, GoodAt, Aged, Accepts
  <2> QED
    BY <1>2, <1>5, <2>1, <2>2 DEF TypeOK
<1>7. CASE DeleteSession(w)
  <2>1. Answer(w, ExpireBoth(j))
        /\ UNCHANGED <<clock, epoch, jar, told, lastLogin, lastUse, owed, left, raced>>
    BY <1>7 DEF DeleteSession, history
  <2> QED
    BY <1>4, <1>5, <2>1 DEF TypeOK
<1>8. CASE Logout(w)
  <2>1. Answer(w, out) /\ UNCHANGED <<clock, jar, told, lastLogin, lastUse, left, raced>>
    BY <1>8 DEF Logout
  <2>2. CASE j.user
    <3>1. epoch' = epoch + 1 /\ owed' = FALSE
      BY <1>8, <2>2 DEF Logout
    <3> QED
      BY <1>3, <1>5, <2>1, <3>1
  <2>3. CASE ~j.user
    <3>1. UNCHANGED <<epoch, owed>>
      BY <1>8, <2>3 DEF Logout
    <3> QED
      BY <1>3, <1>5, <2>1, <3>1 DEF TypeOK
  <2> QED
    BY <2>2, <2>3
<1> QED
  BY <1>6, <1>7, <1>8

LEMMA HandledChange ==
  ASSUME TypeOK, CookieInv, NEW w \in Requests, ProfilePost(w)
  PROVE  \E a \in Answers : Made(w, a)
<1> DEFINE j == jar.session
           k == Slide(j)
           c == Restamped(k)
           a == [Saves(c) EXCEPT !.did = "change"]
<1>1. /\ \/ Answer(w, a) /\ owed' = owed
         \/ Answer(w, Saves(k)) /\ owed' = FALSE
      /\ Accepts(j) /\ epoch' = epoch + 1 /\ lastUse' = clock
      /\ UNCHANGED <<clock, jar, told, lastLogin, left, raced>>
  BY DEF ProfilePost
<1>2. k \in Content /\ c \in Content
  BY InJar, CopyTypes
<1>3. /\ k.user = j.user /\ k.epoch = j.epoch /\ k.created = j.created
      /\ k.token = j.token /\ k.last = clock
  BY InJar, Fields
<1> HIDE DEF k
<1>4. /\ c.user = j.user /\ c.epoch = epoch + 1 /\ c.created = j.created
      /\ c.token = j.token /\ c.last = clock
  BY <1>2, <1>3, InJar, Fields
<1> HIDE DEF c
<1>5. j.user /\ j.epoch = epoch /\ j.token # 0
  BY <1>1, InJar DEF Accepts
<1>6. CASE Answer(w, a) /\ owed' = owed
  <2>1. a \in Answers /\ a.saves /\ a.session = c /\ a.did = "change" /\ ~a.pairs /\ a.told = 0
    BY <1>2, Answering, Fields
  <2> HIDE DEF a
  <2>2. ~\E v \in Pending : Fresh(v) /\ Sent(v).did = "change"
    BY <1>5, InJar DEF CookieInv, ChangeInv, Before
  <2>3. Whole(a) /\ FromJar(a)
    BY <1>4, <1>5, <2>1 DEF Whole, FromJar
  <2>4. Made(w, a)
    BY <1>1, <1>4, <1>5, <1>6, <2>1, <2>2, <2>3, InJar DEF Made
  <2> QED
    BY <2>1, <2>4
\* The row was not read again: the session is the one that came, and out.
<1>7. CASE Answer(w, Saves(k)) /\ owed' = FALSE
  <2> HIDE DEF a
  <2>1. Saves(k) \in Answers
    BY <1>2, Answering
  <2>2. /\ Saves(k).saves /\ Saves(k).session = k
        /\ Saves(k).did = "other" /\ ~Saves(k).pairs /\ Saves(k).told = 0
    BY <1>2, Fields
  <2>3. Made(w, Saves(k))
    BY <1>1, <1>2, <1>3, <1>5, <1>7, <2>1, <2>2, InJar, MadeFromJar
  <2> QED
    BY <2>1, <2>3
<1> QED
  BY <1>1, <1>6, <1>7

LEMMA Handled ==
  ASSUME TypeOK, CookieInv, NEW w \in Requests, Handle(w)
  PROVE  \E a \in Answers : Made(w, a)
  BY HandledPage, HandledLogin, HandledEnd, HandledChange DEF Handle

-----------------------------------------------------------------------------
(* Every step keeps the types and the invariant *)

LEMMA MadeStep ==
  ASSUME TypeOK, CookieInv, NEW w \in Requests, NEW a \in Answers, Made(w, a)
  PROVE  TypeOK' /\ CookieInv'
<1>0. Answer(w, a) /\ UNCHANGED <<clock, jar, told, left, raced>>
  BY DEF Made
<1>1. /\ request' \in [Requests -> InFlight \cup {Free}]
      /\ w \notin Pending /\ Pending' = Pending \cup {w}
      /\ request'[w].answer = a /\ request'[w].missed = {}
      /\ \A v \in Pending : request'[v] = request[v]
  BY <1>0, Answered
<1>2. /\ lastLogin' \in Nat /\ lastUse' \in Nat /\ epoch' \in Nat
      /\ lastLogin <= lastLogin' /\ lastLogin' <= clock
      /\ lastUse <= lastUse' /\ lastUse' <= clock
      /\ epoch <= epoch' /\ owed' \in BOOLEAN
  BY InJar DEF Made
<1>3. TypeOK'
  BY <1>0, <1>1, <1>2 DEF TypeOK
<1>4. HeldInv'
  <2>1. Held' \subseteq Held \cup {a.session}
    BY <1>0, <1>1 DEF Held
  <2>2. ASSUME NEW c \in Held
        PROVE  /\ c.created <= lastLogin' /\ c.last <= lastUse' /\ c.epoch <= epoch'
               /\ c.user => c.token # 0
    <3>1. c \in Content
      BY HeldType
    <3>2. c.created \in Nat /\ c.last \in Nat /\ c.epoch \in Nat
      BY <3>1 DEF Content
    <3> QED
      BY <1>2, <3>2, InJar DEF CookieInv, HeldInv
  <2>3. /\ a.session.created <= lastLogin' /\ a.session.last <= lastUse' /\ a.session.epoch <= epoch'
        /\ a.session.user => a.session.token # 0
    BY DEF Made
  <2> QED
    BY <1>0, <1>2, <2>1, <2>2, <2>3 DEF HeldInv
<1>5. AnswersInv'
  <2>1. \A v \in Pending : request'[v].answer = request[v].answer /\ Whole(request[v].answer)
    BY <1>1 DEF CookieInv, AnswersInv, Sent
  <2>2. Whole(a)
    BY DEF Made
  <2>3. \A v \in Pending' : Whole(request'[v].answer)
    BY <1>1, <2>1, <2>2
  <2> QED
    BY <2>3 DEF AnswersInv, Sent, Whole
<1>6. JarInv'
  <2>1. \A v \in Pending : "turn" \notin request[v].missed => FromJar(request[v].answer)
    BY DEF CookieInv, JarInv, OnTime, Sent, Missed
  <2>2. FromJar(a)
    BY DEF Made
  <2>3. \A v \in Pending' : "turn" \notin request'[v].missed => FromJar(request'[v].answer)
    BY <1>1, <2>1, <2>2
  <2> QED
    BY <1>0, <2>3 DEF JarInv, OnTime, Sent, Missed, FromJar
<1>7. ChangeInv'
  <2> SUFFICES ASSUME NEW v \in Pending', request'[v].missed = {}, request'[v].answer.did = "change"
               PROVE  /\ jar.session.epoch < epoch'
                      /\ \A u \in Pending' :
                           "turn" \notin request'[u].missed /\ request'[u].answer.saves
                             /\ request'[u].answer.did = "other" => request'[u].answer.session.epoch < epoch'
    BY <1>0 DEF ChangeInv, Before, Fresh, OnTime, Sent, Missed
  <2>1. CASE v = w
    <3>1. epoch' = epoch + 1 /\ a.did = "change"
      BY <1>1, <2>1 DEF Made
    <3>2. \A u \in Pending : request[u].answer.session.epoch \in Nat /\ request[u].answer.session.epoch <= epoch
      BY InFlightType DEF CookieInv, HeldInv, Held, Sent, Content
    <3>3. \A u \in Pending : request'[u].answer.session.epoch < epoch'
      BY <1>1, <3>1, <3>2, InJar
    <3> QED
      BY <1>1, <3>1, <3>3, InJar
  <2>2. CASE v # w
    <3>1. v \in Pending /\ request[v].missed = {} /\ request[v].answer.did = "change"
      BY <1>1, <2>2
    <3>2. /\ jar.session.epoch < epoch
          /\ \A u \in Pending : "turn" \notin request[u].missed /\ request[u].answer.saves
               /\ request[u].answer.did = "other" => request[u].answer.session.epoch < epoch
      BY <3>1 DEF CookieInv, ChangeInv, Before, Fresh, OnTime, Sent, Missed
    <3>3. a.saves /\ a.did = "other" => a.session.epoch <= jar.session.epoch
      BY DEF Made
    <3>4. a.session.epoch \in Nat /\ \A u \in Pending : request[u].answer.session.epoch \in Nat
      BY InFlightType DEF Answers, Content, Sent
    <3>5. ASSUME NEW u \in Pending', "turn" \notin request'[u].missed, request'[u].answer.saves,
                 request'[u].answer.did = "other"
          PROVE  request'[u].answer.session.epoch < epoch'
      <4>1. CASE u = w
        BY <1>1, <1>2, <3>2, <3>3, <3>4, <3>5, <4>1, InJar
      <4>2. CASE u # w
        BY <1>1, <1>2, <3>2, <3>4, <3>5, <4>2, InJar
      <4> QED
        BY <4>1, <4>2
    <3> QED
      BY <1>2, <3>2, <3>5, InJar
  <2> QED
    BY <2>1, <2>2
<1>8. OwedInv'
  <2> SUFFICES ASSUME owed'
               PROVE  /\ GoodAt(jar.session, epoch', clock) \/ Changing'
                      /\ \A v \in Pending' : request'[v].missed = {} => OwesAt(request'[v].answer, epoch', clock, Changing')
    BY <1>0 DEF OwedInv, Fresh, Sent, Missed, Owes, Good
  <2>1. /\ Good(jar.session) \/ Changing
        /\ \A v \in Pending : request[v].missed = {} => OwesAt(request[v].answer, epoch, clock, Changing)
    BY DEF Made, CookieInv, OwedInv, Fresh, Sent, Missed, Owes
  <2>2. Changing => Changing'
    BY <1>1 DEF Changing
  <2>3. CASE a.did = "change"
    <3>1. Changing'
      BY <1>1, <2>3 DEF Changing
    <3>2. a.session.epoch = epoch' /\ \A v \in Pending : request[v].missed = {} => request[v].answer.did # "change"
      BY <2>3 DEF Made, Fresh, Sent, Missed
    <3> QED
      BY <1>1, <3>1, <3>2 DEF OwesAt
  <2>4. CASE a.did # "change"
    <3>1. epoch' = epoch /\ OwesAt(a, epoch, clock, Changing)
      BY <2>4 DEF Made, OwesAt, Good
    <3>2. \A v \in Pending' : request'[v].missed = {} => OwesAt(request'[v].answer, epoch, clock, Changing)
      BY <1>1, <2>1, <3>1
    <3>3. \A v \in Pending' : OwesAt(request'[v].answer, epoch, clock, Changing)
            => OwesAt(request'[v].answer, epoch, clock, Changing')
      BY <2>2 DEF OwesAt
    <3> QED
      BY <2>1, <2>2, <3>1, <3>2, <3>3 DEF Good
  <2> QED
    BY <2>3, <2>4
<1>9. ToldInv' /\ PairAgrees' /\ DeadlineKept' /\ SignedOutStaysOut'
  BY <1>0 DEF CookieInv, ToldInv, PairAgrees, DeadlineKept, SignedOutStaysOut
<1> QED
  BY <1>3, <1>4, <1>5, <1>6, <1>7, <1>8, <1>9 DEF CookieInv

LEMMA DeliverStep ==
  ASSUME TypeOK, CookieInv, NEW w \in Requests, Deliver(w)
  PROVE  TypeOK' /\ CookieInv'
<1> DEFINE a == request[w].answer
           missed == request[w].missed
           turns == a.saves /\ (a.did = "in" \/ ~a.session.user \/ "turn" \in missed)
           news == Tells(a, missed)
<1>1. /\ request' \in [Requests -> InFlight \cup {Free}]
      /\ w \in Pending /\ Pending' = Pending \ {w}
      /\ \A v \in Pending' :
           /\ request'[v].answer = request[v].answer
           /\ "turn" \in request'[v].missed <=> "turn" \in request[v].missed \cup news
           /\ request'[v].missed = {} <=> request[v].missed = {} /\ news = {}
  BY Delivered DEF Sent, Missed, Missing
<1>2. /\ jar' = [session |-> IF a.saves THEN a.session ELSE jar.session,
                 csrf |-> IF a.pairs THEN a.csrf ELSE jar.csrf]
      /\ told' = IF a.told # 0 \/ (a.saves /\ (a.did = "in" \/ ~a.session.user)) THEN a.told ELSE told
      /\ raced' = (raced \cup Spoils(a, missed)) \ Settles(a)
      /\ owed' = IF a.did = "in" THEN a.session.epoch = epoch
                 ELSE owed /\ a.did # "out" /\ (a.saves => missed = {})
      /\ left' = \/ a.did = "out"
                 \/ left /\ a.did # "in" /\ (a.saves => "turn" \notin missed)
      /\ UNCHANGED <<clock, epoch, lastLogin, lastUse>>
  BY DEF Deliver
<1>3. /\ a \in Answers /\ a.session \in Content /\ a.csrf \in Nat /\ a.told \in Nat
      /\ a.saves \in BOOLEAN /\ a.pairs \in BOOLEAN
      /\ a.did \in {"in", "out", "change", "other"}
  BY <1>1, InFlightType DEF Sent, Answers
<1>4. /\ Whole(a) /\ ("turn" \notin missed => FromJar(a))
      /\ a.session \in Held /\ jar.session \in Held
  BY <1>1 DEF CookieInv, AnswersInv, JarInv, OnTime, Sent, Missed, Held
<1>5. /\ turns => "turn" \in news
      /\ a.did = "change" => "change" \in news
      /\ "pair" \notin raced' /\ a.saves /\ a.did # "in" /\ ~a.pairs /\ a.session.user =>
           "pair" \notin raced /\ ("turn" \notin missed \/ jar.csrf = 0)
      /\ "use" \notin raced' /\ a.saves /\ a.did # "in" /\ a.told = 0 /\ a.session.user =>
           "use" \notin raced /\ (jar.session.user => ~(a.session.last < jar.session.last))
      /\ ~a.saves => raced \subseteq raced'
      /\ raced' \subseteq {"pair", "use"}
  BY <1>2 DEF Tells, Turns, Spoils, Settles, TypeOK
<1> HIDE DEF a, missed, news
<1>6. TypeOK'
  <2>1. jar' \in Jar
    BY <1>2, <1>3, HeldType DEF Jar
  <2>2. told' \in Nat /\ owed' \in BOOLEAN /\ left' \in BOOLEAN
    BY <1>2, <1>3 DEF TypeOK
  <2> QED
    BY <1>1, <1>2, <1>5, <2>1, <2>2 DEF TypeOK
<1>7. /\ a.saves => jar'.session = a.session
      /\ ~a.saves => jar'.session = jar.session
      /\ a.pairs => jar'.csrf = a.csrf
      /\ ~a.pairs => jar'.csrf = jar.csrf
  BY <1>2
<1>8. HeldInv'
  <2>1. Held' \subseteq Held
    BY <1>1, <1>4, <1>7 DEF Held
  <2> QED
    BY <1>2, <2>1 DEF CookieInv, HeldInv
<1>9. AnswersInv'
  <2>1. \A v \in Pending' : Whole(request'[v].answer)
    BY <1>1 DEF CookieInv, AnswersInv, Sent
  <2> QED
    BY <2>1 DEF AnswersInv, Sent, Whole
\* An answer after which others are still on time is on time and of the session
\* in the jar, or changes nothing.
<1>10. JarInv'
  <2> SUFFICES ASSUME NEW v \in Pending', "turn" \notin request'[v].missed,
                      request'[v].answer.saves, request'[v].answer.session.user,
                      request'[v].answer.did # "in"
               PROVE  jar'.session.user /\ request'[v].answer.session.token = jar'.session.token
    BY DEF JarInv, OnTime, Sent, Missed, FromJar
  <2>1. v \in Pending /\ "turn" \notin request[v].missed /\ ~turns
    BY <1>1, <1>5
  <2>2. jar.session.user /\ request[v].answer.session.token = jar.session.token
    BY <1>1, <2>1 DEF CookieInv, JarInv, OnTime, Sent, Missed, FromJar
  <2>3. CASE a.saves
    <3>1. a.session.user /\ jar'.session = a.session /\ a.session.token = jar.session.token
      BY <1>4, <1>7, <2>1, <2>3 DEF FromJar
    <3> QED
      BY <1>1, <2>2, <3>1
  <2>4. CASE ~a.saves
    BY <1>1, <1>7, <2>2, <2>4
  <2> QED
    BY <1>3, <2>3, <2>4
<1>11. ChangeInv'
  <2> SUFFICES ASSUME NEW v \in Pending', request'[v].missed = {}, request'[v].answer.did = "change"
               PROVE  /\ jar'.session.epoch < epoch
                      /\ \A u \in Pending' :
                           "turn" \notin request'[u].missed /\ request'[u].answer.saves
                             /\ request'[u].answer.did = "other" => request'[u].answer.session.epoch < epoch
    BY <1>2 DEF ChangeInv, Before, Fresh, OnTime, Sent, Missed
  <2>1. /\ v \in Pending /\ request[v].missed = {} /\ request[v].answer.did = "change"
        /\ ~turns /\ a.did # "change"
    BY <1>1, <1>5
  <2>2. /\ jar.session.epoch < epoch
        /\ \A u \in Pending : "turn" \notin request[u].missed /\ request[u].answer.saves
             /\ request[u].answer.did = "other" => request[u].answer.session.epoch < epoch
    BY <2>1 DEF CookieInv, ChangeInv, Before, Fresh, OnTime, Sent, Missed
  <2>3. a.saves => a.did = "other" /\ "turn" \notin missed
    BY <1>3, <1>4, <2>1 DEF Whole
  <2>4. a.saves => a.session.epoch < epoch
    BY <1>1, <2>2, <2>3 DEF a, missed
  <2> QED
    BY <1>1, <1>3, <1>7, <2>2, <2>4
<1>12. OwedInv'
  <2> SUFFICES ASSUME owed'
               PROVE  /\ GoodAt(jar'.session, epoch, clock) \/ Changing'
                      /\ \A v \in Pending' : request'[v].missed = {} => OwesAt(request'[v].answer, epoch, clock, Changing')
    BY <1>2 DEF OwedInv, Fresh, Sent, Missed, Owes, Good
  <2>1. CASE a.did = "in"
    <3>1. a.saves /\ a.session.user /\ a.session.epoch = epoch
      BY <1>2, <1>4, <2>1 DEF Whole
    <3>2. \A v \in Pending' : request'[v].missed # {}
      BY <1>1, <1>5, <2>1, <3>1
    <3> QED
      BY <1>7, <3>1, <3>2 DEF GoodAt
  <2>2. CASE a.did # "in"
    <3>1. owed /\ a.did # "out" /\ (a.saves => missed = {})
      BY <1>2, <2>2
    <3>2. /\ GoodAt(jar.session, epoch, clock) \/ Changing
          /\ \A v \in Pending : request[v].missed = {} => OwesAt(request[v].answer, epoch, clock, Changing)
      BY <3>1 DEF CookieInv, OwedInv, Fresh, Sent, Missed, Owes, Good
    <3>3. CASE a.did = "change"
      <4>1. a.saves /\ a.session.user /\ a.session.epoch = epoch
        BY <1>1, <1>4, <3>1, <3>2, <3>3 DEF Whole, OwesAt, a, missed
      <4>2. \A v \in Pending' : request'[v].missed # {}
        BY <1>1, <1>5, <3>3
      <4> QED
        BY <1>7, <4>1, <4>2 DEF GoodAt
    <3>4. CASE a.did = "other"
      <4>1. Changing => Changing'
        BY <1>1, <3>4 DEF Changing, a
      <4>2. GoodAt(jar'.session, epoch, clock) \/ Changing
        <5>1. a.saves => OwesAt(a, epoch, clock, Changing)
          BY <1>1, <3>1, <3>2 DEF a, missed
        <5> QED
          BY <1>3, <1>7, <3>2, <3>4, <5>1 DEF OwesAt
      <4>3. \A v \in Pending' : request'[v].missed = {} => OwesAt(request'[v].answer, epoch, clock, Changing)
        BY <1>1, <3>2
      <4>4. \A v \in Pending' : OwesAt(request'[v].answer, epoch, clock, Changing)
              => OwesAt(request'[v].answer, epoch, clock, Changing')
        BY <4>1 DEF OwesAt
      <4> QED
        BY <4>1, <4>2, <4>3, <4>4
    <3> QED
      BY <1>3, <2>2, <3>1, <3>3, <3>4
  <2> QED
    BY <2>1, <2>2
<1>13. ToldInv'
  <2>1. CASE a.saves
    <3>1. ~a.session.user => a.told = 0
      BY <1>4 DEF Whole
    <3> QED
      BY <1>2, <1>7, <2>1, <3>1 DEF ToldInv
  <2>2. CASE ~a.saves
    BY <1>2, <1>4, <1>7, <2>2 DEF CookieInv, ToldInv, Whole
  <2> QED
    BY <1>3, <2>1, <2>2
<1>14. PairAgrees'
  <2> SUFFICES ASSUME jar'.session.user, jar'.csrf # 0, "pair" \notin raced'
               PROVE  jar'.csrf = jar'.session.token
    BY DEF PairAgrees
  <2>1. CASE ~a.saves
    <3>1. ~a.pairs
      BY <1>4, <2>1 DEF Whole
    <3> QED
      BY <1>5, <1>7, <2>1, <3>1 DEF CookieInv, PairAgrees
  <2>2. CASE a.saves /\ a.pairs
    BY <1>4, <1>7, <2>2 DEF Whole
  <2>3. CASE a.saves /\ ~a.pairs
    <3>1. a.did # "in" /\ a.session.user
      BY <1>4, <1>7, <2>3 DEF Whole
    <3>2. "pair" \notin raced /\ FromJar(a)
      BY <1>4, <1>5, <1>7, <2>3, <3>1
    <3> QED
      BY <1>7, <2>3, <3>1, <3>2 DEF CookieInv, PairAgrees, FromJar
  <2> QED
    BY <1>3, <2>1, <2>2, <2>3
<1>15. DeadlineKept'
  <2> SUFFICES ASSUME jar'.session.user, "use" \notin raced'
               PROVE  told' <= jar'.session.last + SessionTimeout
    BY DEF DeadlineKept
  <2>1. jar.session.last \in Nat /\ a.session.last \in Nat /\ told \in Nat /\ SessionTimeout \in Nat
    BY <1>3, InJar, CookieAssumption DEF Content, TypeOK
  <2>2. CASE ~a.saves
    <3>1. a.told = 0
      BY <1>4, <2>2 DEF Whole
    <3> QED
      BY <1>2, <1>5, <1>7, <2>2, <3>1 DEF CookieInv, DeadlineKept
  <2>3. CASE a.saves /\ a.told # 0
    BY <1>2, <1>4, <1>7, <2>1, <2>3 DEF Whole
  <2>4. CASE a.saves /\ a.told = 0 /\ a.did = "in"
    BY <1>2, <1>7, <2>1, <2>4
  <2>5. CASE a.saves /\ a.told = 0 /\ a.did # "in"
    <3>1. a.session.user /\ told' = told
      BY <1>2, <1>7, <2>5
    <3>2. "use" \notin raced /\ (jar.session.user => jar.session.last <= a.session.last)
      BY <1>5, <2>1, <2>5, <3>1
    <3>3. jar.session.user => told <= jar.session.last + SessionTimeout
      BY <3>2 DEF CookieInv, DeadlineKept
    <3>4. ~jar.session.user => told = 0
      BY DEF CookieInv, ToldInv
    <3>5. jar.session.user \in BOOLEAN
      BY InJar DEF Content
    <3> QED
      BY <1>7, <2>1, <2>5, <3>1, <3>2, <3>3, <3>4, <3>5
  <2> QED
    BY <1>3, <2>2, <2>3, <2>4, <2>5
<1>16. SignedOutStaysOut'
  <2> SUFFICES ASSUME left' PROVE ~jar'.session.user
    BY DEF SignedOutStaysOut
  <2>1. CASE a.did = "out"
    BY <1>4, <1>7, <2>1 DEF Whole
  <2>2. CASE a.did # "out"
    <3>1. left /\ a.did # "in" /\ (a.saves => "turn" \notin missed)
      BY <1>2, <2>2
    <3> QED
      BY <1>3, <1>4, <1>7, <3>1 DEF CookieInv, SignedOutStaysOut, FromJar
  <2> QED
    BY <2>1, <2>2
<1> QED
  BY <1>6, <1>8, <1>9, <1>10, <1>11, <1>12, <1>13, <1>14, <1>15, <1>16 DEF CookieInv

LEMMA LoseStep ==
  ASSUME TypeOK, CookieInv, NEW w \in Requests, Lose(w)
  PROVE  TypeOK' /\ CookieInv'
<1>1. /\ request' \in [Requests -> InFlight \cup {Free}]
      /\ w \in Pending /\ Pending' = Pending \ {w}
      /\ \A v \in Pending' : request'[v] = request[v]
  BY Lost
<1>2. /\ owed' = (owed /\ request[w].answer.did # "change")
      /\ UNCHANGED <<clock, epoch, jar, told, lastLogin, lastUse, left, raced>>
  BY DEF Lose
<1>3. TypeOK'
  BY <1>1, <1>2 DEF TypeOK
<1>4. HeldInv'
  <2>1. Held' \subseteq Held
    BY <1>1, <1>2 DEF Held
  <2> QED
    BY <1>2, <2>1 DEF CookieInv, HeldInv
<1>5. AnswersInv'
  <2>1. \A v \in Pending' : Whole(request'[v].answer)
    BY <1>1 DEF CookieInv, AnswersInv, Sent
  <2> QED
    BY <2>1 DEF AnswersInv, Sent, Whole
<1>6. JarInv'
  BY <1>1, <1>2 DEF CookieInv, JarInv, OnTime, Sent, Missed, FromJar
<1>7. ChangeInv'
  BY <1>1, <1>2 DEF CookieInv, ChangeInv, Before, Fresh, OnTime, Sent, Missed
<1>8. OwedInv'
  <2> SUFFICES ASSUME owed'
               PROVE  /\ GoodAt(jar.session, epoch, clock) \/ Changing'
                      /\ \A v \in Pending' : request'[v].missed = {} => OwesAt(request'[v].answer, epoch, clock, Changing')
    BY <1>2 DEF OwedInv, Fresh, Sent, Missed, Owes, Good
  <2>1. /\ GoodAt(jar.session, epoch, clock) \/ Changing
        /\ \A v \in Pending : request[v].missed = {} => OwesAt(request[v].answer, epoch, clock, Changing)
    BY <1>2 DEF CookieInv, OwedInv, Fresh, Sent, Missed, Owes, Good
  <2>2. Changing => Changing'
    BY <1>1, <1>2 DEF Changing
  <2>3. \A v \in Pending' : request'[v].missed = {} => OwesAt(request'[v].answer, epoch, clock, Changing)
    BY <1>1, <2>1
  <2>4. \A v \in Pending' : OwesAt(request'[v].answer, epoch, clock, Changing)
          => OwesAt(request'[v].answer, epoch, clock, Changing')
    BY <2>2 DEF OwesAt
  <2> QED
    BY <2>1, <2>2, <2>3, <2>4
<1>9. ToldInv' /\ PairAgrees' /\ DeadlineKept' /\ SignedOutStaysOut'
  BY <1>2 DEF CookieInv, ToldInv, PairAgrees, DeadlineKept, SignedOutStaysOut
<1> QED
  BY <1>3, <1>4, <1>5, <1>6, <1>7, <1>8, <1>9 DEF CookieInv

\* The steps that touch no request: the epoch moves elsewhere, the readable
\* cookie ends, time passes, or nothing happens.
LEMMA ElseStep ==
  ASSUME TypeOK, CookieInv, RevokedElsewhere \/ CSRFCookieEnds \/ Tick \/ UNCHANGED vars
  PROVE  TypeOK' /\ CookieInv'
<1>1. /\ UNCHANGED <<request, told, lastLogin, lastUse, left>>
      /\ jar'.session = jar.session /\ jar'.csrf \in {jar.csrf, 0} /\ jar' \in Jar
      /\ raced' = raced \/ (raced' = raced \ {"pair"} /\ jar'.csrf = 0)
      /\ clock' \in {clock, clock + 1} /\ epoch' \in {epoch, epoch + 1}
      /\ owed' \in BOOLEAN /\ (owed' => owed /\ epoch' = epoch)
  <2>1. CASE RevokedElsewhere
    BY <2>1 DEF TypeOK, RevokedElsewhere
  <2>2. CASE CSRFCookieEnds
    <3>1. jar' = [jar EXCEPT !.csrf = 0] /\ jar \in Jar
      BY <2>2 DEF TypeOK, CSRFCookieEnds
    <3>2. jar'.session = jar.session /\ jar'.csrf = 0 /\ jar' \in Jar
      BY <3>1 DEF Jar
    <3> QED
      BY <2>2, <3>2 DEF TypeOK, CSRFCookieEnds, history
  <2>3. CASE Tick
    BY <2>3 DEF TypeOK, Tick, history
  <2>4. CASE UNCHANGED vars
    BY <2>4 DEF TypeOK, vars, history
  <2> QED
    BY <2>1, <2>2, <2>3, <2>4
<1>2. Pending' = Pending /\ Held' = Held /\ Changing' = Changing
  BY <1>1 DEF Pending, Held, Changing
<1>3. TypeOK'
  <2>1. raced' \subseteq {"pair", "use"}
    BY <1>1 DEF TypeOK
  <2> QED
    BY <1>1, <2>1 DEF TypeOK
<1>4. HeldInv'
  <2>1. \A c \in Held : c.epoch \in Nat
    BY HeldType DEF Content
  <2> QED
    BY <1>1, <1>2, <2>1, InJar DEF CookieInv, HeldInv
<1>5. AnswersInv'
  <2>1. \A v \in Pending' : Whole(request'[v].answer)
    BY <1>1, <1>2 DEF CookieInv, AnswersInv, Sent
  <2> QED
    BY <2>1 DEF AnswersInv, Sent, Whole
<1>6. JarInv'
  BY <1>1, <1>2 DEF CookieInv, JarInv, OnTime, Sent, Missed, FromJar
<1>7. ChangeInv'
  <2>1. \A v \in Pending : request[v].answer.session.epoch \in Nat
    BY InFlightType DEF Content, Sent
  <2>2. ASSUME NEW v \in Pending, request[v].missed = {}, request[v].answer.did = "change"
        PROVE  /\ jar.session.epoch < epoch'
               /\ \A u \in Pending : "turn" \notin request[u].missed /\ request[u].answer.saves
                    /\ request[u].answer.did = "other" => request[u].answer.session.epoch < epoch'
    BY <1>1, <2>1, <2>2, InJar DEF CookieInv, ChangeInv, Before, Fresh, OnTime, Sent, Missed
  <2> QED
    BY <1>1, <1>2, <2>2 DEF ChangeInv, Before, Fresh, OnTime, Sent, Missed
<1>8. OwedInv'
  <2> SUFFICES ASSUME owed'
               PROVE  /\ GoodAt(jar.session, epoch, clock') \/ Changing
                      /\ \A v \in Pending : request[v].missed = {} => OwesAt(request[v].answer, epoch, clock', Changing)
    BY <1>1, <1>2 DEF OwedInv, Fresh, Sent, Missed, Owes, Good
  <2>1. /\ GoodAt(jar.session, epoch, clock) \/ Changing
        /\ \A v \in Pending : request[v].missed = {} => OwesAt(request[v].answer, epoch, clock, Changing)
    BY <1>1 DEF CookieInv, OwedInv, Fresh, Sent, Missed, Owes, Good
  \* What is out of age stays out of age.
  <2>2. ASSUME NEW c \in Content, GoodAt(c, epoch, clock)
        PROVE  GoodAt(c, epoch, clock')
    BY <1>1, <2>2, InJar, CookieAssumption DEF Content, GoodAt
  <2>3. ASSUME NEW v \in Pending, OwesAt(request[v].answer, epoch, clock, Changing)
        PROVE  OwesAt(request[v].answer, epoch, clock', Changing)
    <3>1. request[v].answer.session \in Content
      BY InFlightType DEF Sent
    <3> QED
      BY <2>2, <2>3, <3>1 DEF OwesAt
  <2> QED
    BY <2>1, <2>2, <2>3, InJar
<1>9. ToldInv' /\ PairAgrees' /\ DeadlineKept' /\ SignedOutStaysOut'
  BY <1>1 DEF CookieInv, ToldInv, PairAgrees, DeadlineKept, SignedOutStaysOut
<1> QED
  BY <1>3, <1>4, <1>5, <1>6, <1>7, <1>8, <1>9 DEF CookieInv

-----------------------------------------------------------------------------
(* The theorems *)

LEMMA CookieStart == Init => TypeOK /\ CookieInv
<1> SUFFICES ASSUME Init PROVE TypeOK /\ CookieInv
  OBVIOUS
<1>1. /\ Blank \in Content /\ Blank.user = FALSE /\ Blank.created = 0 /\ Blank.last = 0
      /\ Blank.epoch = 0
  BY DEF Blank, Content
<1>2. TypeOK
  BY <1>1 DEF Init, TypeOK, Jar, Free
<1>3. Pending = {} /\ Held = {Blank}
  BY DEF Init, Free, Pending, Held
<1>4. HeldInv
  BY <1>1, <1>3 DEF Init, HeldInv
<1>5. AnswersInv /\ JarInv /\ ChangeInv /\ OwedInv
  BY <1>3 DEF Init, AnswersInv, JarInv, ChangeInv, OwedInv
<1>6. ToldInv /\ PairAgrees /\ DeadlineKept /\ SignedOutStaysOut
  BY <1>1 DEF Init, ToldInv, PairAgrees, DeadlineKept, SignedOutStaysOut
<1> QED
  BY <1>2, <1>4, <1>5, <1>6 DEF CookieInv

LEMMA CookieStep == TypeOK /\ CookieInv /\ [Next]_vars => TypeOK' /\ CookieInv'
<1> SUFFICES ASSUME TypeOK, CookieInv, [Next]_vars PROVE TypeOK' /\ CookieInv'
  OBVIOUS
<1>1. CASE \E w \in Requests : Handle(w) \/ Deliver(w) \/ Lose(w)
  BY <1>1, Handled, MadeStep, DeliverStep, LoseStep
<1>2. CASE RevokedElsewhere \/ CSRFCookieEnds \/ Tick \/ UNCHANGED vars
  BY <1>2, ElseStep
<1> QED
  BY <1>1, <1>2 DEF Next

LEMMA CookieInvariant == Spec => [](TypeOK /\ CookieInv)
  BY CookieStart, CookieStep, PTL DEF Spec

\* The cookies, the answers under way and the history have their types.
THEOREM TypeCorrect == Spec => []TypeOK
  BY CookieInvariant, PTL

\* For any number of requests in flight, delivered in any order or lost, no
\* copy of a session is accepted beyond the cap or the idle window
\* (ValidateSession, with the one route that does not slide the window).
THEOREM SessionsEnd == Spec => []LifetimeBounded
<1>1. TypeOK /\ CookieInv => LifetimeBounded
  <2> SUFFICES ASSUME TypeOK, CookieInv, NEW c \in Held, Accepts(c)
               PROVE  clock - lastLogin <= SessionMaxLifetime /\ clock - lastUse <= SessionTimeout
    BY DEF LifetimeBounded
  <2>1. c.created \in Nat /\ c.last \in Nat /\ c.created <= lastLogin /\ c.last <= lastUse
    BY HeldType DEF Content, CookieInv, HeldInv
  <2>2. clock - c.created <= SessionMaxLifetime /\ clock - c.last <= SessionTimeout
    BY <2>1, InJar, CookieAssumption DEF Accepts, Aged
  <2> QED
    BY <2>1, <2>2, InJar, CookieAssumption
<1> QED
  BY <1>1, CookieInvariant, PTL

\* The session and the readable cookie hold the same token, whatever is lost or
\* delivered in whatever order, but after an answer that was sent for before a
\* login or an end of the session and came after it; and again when both cookies
\* have been set (completeLogin, getSession and deleteSession set both, all other
\* handlers save one).
THEOREM TokensMatch == Spec => []PairAgrees
  BY CookieInvariant, PTL DEF CookieInv

\* Nobody falls out of the page they stand on but by age, by a revocation from
\* elsewhere, by their own logout or by a failed re-read under their change of the
\* password: not by the change itself, and not by any order in which the answers
\* of one session and one epoch arrive.  What an answer does that was sent for
\* before the change, or before a login or an end, and arrives after it is no part
\* of this: it can throw the user out (the session re-stamped in ProfilePost).
THEOREM NobodyFallsOut == Spec => []KeptInside
<1>1. TypeOK /\ CookieInv => KeptInside
  BY DEF CookieInv, OwedInv, KeptInside, Good, GoodAt, Accepts, Aged
<1> QED
  BY <1>1, CookieInvariant, PTL

\* The last deadline told is within the idle window of the cookie the client
\* holds, but after an answer that brought back a session used earlier, and again
\* with the next deadline (setSessionExpires).
THEOREM WarnedInTime == Spec => []DeadlineKept
  BY CookieInvariant, PTL DEF CookieInv

\* After a logout no session is back in the browser without a login, but by an
\* answer that was sent for before it (Logout, deleteSession).
THEOREM LoggedOut == Spec => []SignedOutStaysOut
  BY CookieInvariant, PTL DEF CookieInv
=============================================================================
