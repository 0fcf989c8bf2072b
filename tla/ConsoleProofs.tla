---------------------------- MODULE ConsoleProofs ----------------------------
(* Theorems about the components of MCConsole: the notifications, for any    *)
(* number of certificates, goroutines, administrators and restarts, and      *)
(* beside them the others.                                                   *)
EXTENDS MCConsole, Sequences, FiniteSetTheorems, WellFoundedInduction, TLAPS

-----------------------------------------------------------------------------
(* The inductive invariant *)

AtPost(s, k) == s.at = "post" /\ s.key = k
AtLog(s, k) == s.at = "log" /\ s.key = k
Has(s, k) == AtPost(s, k) \/ AtLog(s, k)

\* What the received count of a key that is not in doubt rests on: one caller at
\* most is past its look-up, the log has no entry then, and once the receiver
\* has the event there is one, or the caller that is to write it.
OnceFor(k) ==
  /\ received[k] <= 1
  /\ \A p \in Senders : Has(sender[p], k) =>
       log[k] = "none" /\ \A q \in Senders \ {p} : ~Has(sender[q], k)
  /\ \A p \in Senders : AtPost(sender[p], k) => received[k] = 0
  /\ received[k] > 0 /\ log[k] = "none" => \E p \in Senders : AtLog(sender[p], k)

OnceInv == \A k \in Keys \ doubted : OnceFor(k)

KeyInv == \A p \in Senders : sender[p].at = "lookup" => sender[p].key # NoKey

\* A test has no key, has an outcome at the end only, and begins with a webhook.
Honest(t, webhook) ==
  t # Idle =>
    /\ t.kind = "test" /\ t.key = NoKey
    /\ t.at = "told" \/ t.said = ""
    /\ t.at = "settings" /\ ~t.switched => webhook
    /\ t.said = "sent" => t.ok \/ t.switched
TestInv == Honest(sender[Tester], settings.webhook)

\* A save that has read what is stored, and is not told anything else.
FormInv ==
  \A a \in Admins : admin[a] # Idle /\ ~admin[a].typed /\ ~admin[a].stale
    => admin[a].form.password = settings.password

NotificationInv == TypeOK /\ OnceInv /\ KeyInv /\ TestInv /\ FormInv /\ PasswordKept

-----------------------------------------------------------------------------
(* What a step of one caller does *)

LEMMA SenderType ==
  ASSUME TypeOK, NEW p \in Senders
  PROVE  /\ sender[p] = Idle \/ sender[p] \in Sending
         /\ sender[p] = Idle <=> sender[p].at = "idle"
         /\ sender[p] \in Sending => sender[p] # Idle
<1>1. sender[p] \in Sending \cup {Idle}
  BY DEF TypeOK
<1>2. Idle.at = "idle"
  BY DEF Idle
<1>3. \A s \in Sending : s.at # "idle"
  BY DEF Sending
<1> QED
  BY <1>1, <1>2, <1>3

LEMMA OneSender ==
  ASSUME TypeOK, NEW p \in Senders, NEW r \in Sending \cup {Idle},
         sender' = [sender EXCEPT ![p] = r]
  PROVE  /\ sender' \in [Senders -> Sending \cup {Idle}] /\ sender'[p] = r
         /\ \A q \in Senders \ {p} : sender'[q] = sender[q]
  BY DEF TypeOK

\* A caller that begins, and one that goes on.
LEMMA Beginning ==
  ASSUME TypeOK, NEW p \in Senders, NEW k \in Keys \cup {NoKey},
         NEW kind \in Kinds \cup {"test"}, Begin(p, k, kind)
  PROVE  LET r == sender'[p] IN
         /\ r \in Sending /\ sender' = [sender EXCEPT ![p] = r]
         /\ r.at = "settings" /\ r.key = k /\ r.kind = kind /\ r.said = "" /\ ~r.switched
<1> DEFINE r == [at |-> "settings", key |-> k, kind |-> kind, ok |-> FALSE, said |-> "", switched |-> FALSE]
<1>1. r \in Sending /\ r.at = "settings" /\ r.key = k /\ r.kind = kind /\ r.said = "" /\ ~r.switched
  BY DEF Sending
<1>2. sender' = [sender EXCEPT ![p] = r]
  BY DEF Begin
<1> HIDE DEF r
<1>3. sender'[p] = r
  BY <1>1, <1>2, OneSender
<1> QED
  BY <1>1, <1>2, <1>3

LEMMA Stepping ==
  ASSUME TypeOK, NEW p \in Senders, sender[p] \in Sending,
         NEW a \in {"lookup", "post", "log", "told"}, Step(p, a)
  PROVE  LET r == sender'[p] IN
         /\ r \in Sending /\ sender' = [sender EXCEPT ![p] = r]
         /\ r.at = a /\ r.key = sender[p].key /\ r.kind = sender[p].kind /\ r.ok = sender[p].ok
         /\ r.said = sender[p].said /\ r.switched = sender[p].switched
<1> DEFINE r == [sender[p] EXCEPT !.at = a]
<1>1. /\ r \in Sending /\ r.at = a /\ r.key = sender[p].key /\ r.kind = sender[p].kind
      /\ r.ok = sender[p].ok /\ r.said = sender[p].said /\ r.switched = sender[p].switched
  BY DEF Sending
<1>2. sender' = [sender EXCEPT ![p] = r]
  BY DEF Step
<1> HIDE DEF r
<1>3. sender'[p] = r
  BY <1>1, <1>2, OneSender
<1> QED
  BY <1>1, <1>2, <1>3

LEMMA Returning ==
  ASSUME TypeOK, NEW p \in Senders, sender[p] \in Sending, NEW nil \in BOOLEAN, Returns(p, nil)
  PROVE  LET r == sender'[p] IN
         /\ r \in Sending \cup {Idle} /\ sender' = [sender EXCEPT ![p] = r]
         /\ r.at \in {"told", "idle"}
         /\ p = Tester =>
              /\ r.at = "told" /\ r.key = sender[p].key /\ r.kind = sender[p].kind
              /\ r.ok = sender[p].ok /\ r.switched = sender[p].switched
              /\ r.said = IF nil THEN "sent" ELSE "failed"
         /\ todo' \subseteq Certs
<1>1. todo' \subseteq Certs
  BY DEF Returns, DaysWork, TypeOK
<1>2. CASE p = Tester
  <2> DEFINE r == [sender[p] EXCEPT !.at = "told", !.said = IF nil THEN "sent" ELSE "failed"]
  <2>1. /\ r \in Sending /\ r.at = "told" /\ r.key = sender[p].key /\ r.kind = sender[p].kind
        /\ r.ok = sender[p].ok /\ r.switched = sender[p].switched
        /\ r.said = IF nil THEN "sent" ELSE "failed"
    BY DEF Sending
  <2>2. sender' = [sender EXCEPT ![p] = r]
    BY <1>2 DEF Returns
  <2> HIDE DEF r
  <2>3. sender'[p] = r
    BY <2>1, <2>2, OneSender
  <2> QED
    BY <1>1, <2>1, <2>2, <2>3
<1>3. CASE p # Tester
  <2>1. sender' = [sender EXCEPT ![p] = Idle] /\ Idle.at = "idle"
    BY <1>3 DEF Returns, Idle
  <2>2. sender'[p] = Idle
    BY <2>1, OneSender
  <2> QED
    BY <1>1, <1>3, <2>1, <2>2
<1> QED
  BY <1>2, <1>3

\* A step of one caller that is neither before nor after at a post or a log
\* entry of a key, beside which nothing of OnceInv changes.
LEMMA Quiet ==
  ASSUME TypeOK, OnceInv, UNCHANGED <<log, received, doubted>>,
         \A p \in Senders : sender'[p] = sender[p] \/
           \A k \in Keys : ~Has(sender[p], k) /\ ~Has(sender'[p], k)
  PROVE  OnceInv'
<1> SUFFICES ASSUME NEW k \in Keys \ doubted
             PROVE  /\ received[k] <= 1
                    /\ \A p \in Senders : Has(sender'[p], k) =>
                         log[k] = "none" /\ \A q \in Senders \ {p} : ~Has(sender'[q], k)
                    /\ \A p \in Senders : AtPost(sender'[p], k) => received[k] = 0
                    /\ received[k] > 0 /\ log[k] = "none" => \E p \in Senders : AtLog(sender'[p], k)
  BY DEF OnceInv, OnceFor, Has, AtPost, AtLog
<1>1. OnceFor(k)
  BY DEF OnceInv
<1>2. \A p \in Senders : /\ Has(sender'[p], k) <=> Has(sender[p], k)
                         /\ AtPost(sender'[p], k) <=> AtPost(sender[p], k)
                         /\ AtLog(sender'[p], k) <=> AtLog(sender[p], k)
  BY DEF Has
<1> QED
  BY <1>1, <1>2 DEF OnceFor

-----------------------------------------------------------------------------
(* The steps *)

\* A caller begins: a goroutine, the worker with one of its certificates, a test.
LEMMA BeginStep ==
  ASSUME NamesApart, NotificationInv, NEW p \in Senders, NEW k \in Keys \cup {NoKey},
         NEW kind \in Kinds \cup {"test"}, sender[p] = Idle, Begin(p, k, kind),
         p = Tester => kind = "test" /\ k = NoKey /\ settings.webhook,
         UNCHANGED <<settings, log, due, down, todo, admin, crashes, history>>
  PROVE  NotificationInv'
<1> DEFINE r == sender'[p]
<1>0. TypeOK /\ Tester \in Senders
  BY DEF NotificationInv, Senders
<1>1. /\ r \in Sending /\ sender' = [sender EXCEPT ![p] = r]
      /\ r.at = "settings" /\ r.key = k /\ r.kind = kind /\ r.said = "" /\ ~r.switched
  BY <1>0, Beginning
<1>2. /\ sender' \in [Senders -> Sending \cup {Idle}]
      /\ \A q \in Senders \ {p} : sender'[q] = sender[q]
  BY <1>0, <1>1, OneSender
<1> HIDE DEF r
<1>3. TypeOK'
  BY <1>0, <1>2 DEF TypeOK, history
<1>4. OnceInv'
  <2>1. Idle.at = "idle"
    BY DEF Idle
  <2>2. \A h \in Keys : ~Has(sender[p], h) /\ ~Has(r, h)
    BY <1>1, <2>1 DEF Has, AtPost, AtLog
  <2> QED
    BY <1>0, <1>2, <2>2, Quiet DEF NotificationInv, history, r
<1>5. KeyInv'
  BY <1>1, <1>2 DEF NotificationInv, KeyInv, r
<1>6. TestInv'
  <2>1. CASE p = Tester
    BY <1>1, <2>1 DEF TestInv, Honest, r
  <2>2. CASE p # Tester
    <3>1. sender'[Tester] = sender[Tester] /\ settings' = settings
      BY <1>0, <1>2, <2>2
    <3> QED
      BY <3>1 DEF NotificationInv, TestInv, Honest
  <2> QED
    BY <2>1, <2>2
<1>7. FormInv' /\ PasswordKept'
  BY DEF NotificationInv, FormInv, PasswordKept, history
<1> QED
  BY <1>3, <1>4, <1>5, <1>6, <1>7 DEF NotificationInv

LEMMA SettingsStep ==
  ASSUME NamesApart, NotificationInv, NEW p \in Senders, sender[p] # Idle,
         GetNotificationSettings(p)
  PROVE  NotificationInv'
<1> DEFINE r == sender'[p]
<1>0. /\ TypeOK /\ Tester \in Senders /\ sender[p] \in Sending /\ sender[p].at = "settings"
      /\ UNCHANGED <<settings, log, due, down, admin, crashes, history>>
  BY SenderType DEF NotificationInv, Senders, GetNotificationSettings, At
<1>1. PICK a \in {"lookup", "post"}, nil \in BOOLEAN :
        \/ Step(p, a) /\ todo' = todo /\ (sender[p].key = NoKey <=> a = "post")
        \/ Returns(p, nil) /\ (nil => ~(settings.webhook /\ Allowed(sender[p].kind)))
  BY DEF GetNotificationSettings
\* Either way the caller is nowhere near a post of a key.
<1>2. /\ r \in Sending \cup {Idle} /\ sender' = [sender EXCEPT ![p] = r]
      /\ todo' \subseteq Certs
      /\ r.at \in {"lookup", "post", "told", "idle"}
      /\ r.at = "lookup" => r.key # NoKey
      /\ r.at = "post" => r.key = NoKey
  <2>1. CASE Step(p, a) /\ todo' = todo /\ (sender[p].key = NoKey <=> a = "post")
    <3>1. /\ r \in Sending /\ sender' = [sender EXCEPT ![p] = r] /\ r.at = a
          /\ r.key = sender[p].key
      BY <1>0, <2>1, Stepping
    <3> HIDE DEF r
    <3> QED
      BY <1>0, <2>1, <3>1 DEF TypeOK
  <2>2. CASE Returns(p, nil)
    BY <1>0, <2>2, Returning
  <2> QED
    BY <1>1, <2>1, <2>2
<1>3. /\ sender' \in [Senders -> Sending \cup {Idle}]
      /\ \A q \in Senders \ {p} : sender'[q] = sender[q]
  BY <1>0, <1>2, OneSender
<1>4. TypeOK'
  BY <1>0, <1>2, <1>3 DEF TypeOK, history
<1>5. OnceInv'
  <2>1. \A h \in Keys : ~Has(sender[p], h) /\ ~Has(r, h)
    BY <1>0, <1>2 DEF Has, AtPost, AtLog, NamesApart
  <2> QED
    BY <1>0, <1>3, <2>1, Quiet DEF NotificationInv, history
<1>6. KeyInv'
  BY <1>2, <1>3 DEF NotificationInv, KeyInv
<1>7. TestInv'
  <2>1. CASE p = Tester
    <3>1. Honest(sender[p], settings.webhook) /\ settings' = settings
      BY <1>0, <2>1 DEF NotificationInv, TestInv
    <3>2. CASE Step(p, a)
      <4>1. /\ r.at = a /\ r.key = sender[p].key /\ r.kind = sender[p].kind
            /\ r.said = sender[p].said
        BY <1>0, <3>2, Stepping
      <4>2. sender[p].kind = "test" /\ sender[p].key = NoKey /\ sender[p].said = ""
        BY <1>0, <3>1 DEF Honest
      <4> QED
        BY <2>1, <4>1, <4>2 DEF TestInv, Honest
    <3>3. CASE Returns(p, nil) /\ (nil => ~(settings.webhook /\ Allowed(sender[p].kind)))
      <4>1. /\ r.at = "told" /\ r.key = sender[p].key /\ r.kind = sender[p].kind
            /\ r.switched = sender[p].switched /\ r.said = IF nil THEN "sent" ELSE "failed"
        BY <1>0, <2>1, <3>3, Returning
      <4>2. sender[p].kind = "test" /\ sender[p].key = NoKey /\ (~sender[p].switched => settings.webhook)
        BY <1>0, <3>1 DEF Honest
      <4>3. nil => sender[p].switched
        BY <3>3, <4>2 DEF Allowed
      <4> QED
        BY <2>1, <4>1, <4>2, <4>3 DEF TestInv, Honest
    <3> QED
      BY <1>1, <3>2, <3>3
  <2>2. CASE p # Tester
    <3>1. sender'[Tester] = sender[Tester] /\ settings' = settings
      BY <1>0, <1>3, <2>2
    <3> QED
      BY <3>1 DEF NotificationInv, TestInv, Honest
  <2> QED
    BY <2>1, <2>2
<1>8. FormInv' /\ PasswordKept'
  BY <1>0 DEF NotificationInv, FormInv, PasswordKept, history
<1> QED
  BY <1>4, <1>5, <1>6, <1>7, <1>8 DEF NotificationInv

LEMMA LookupStep ==
  ASSUME NamesApart, NotificationInv, NEW p \in Senders, sender[p] # Idle,
         NotificationEventExists(p)
  PROVE  NotificationInv'
<1> DEFINE r == sender'[p]
           k == sender[p].key
<1>0. /\ TypeOK /\ Tester \in Senders /\ sender[p] \in Sending /\ sender[p].at = "lookup"
      /\ k \in Keys
      /\ UNCHANGED <<settings, log, due, down, admin, crashes, received, typed, clobbered>>
  BY SenderType DEF NotificationInv, KeyInv, Senders, NotificationEventExists, At, Sending
<1>1. \/ /\ r \in Sending \cup {Idle} /\ r.at \in {"told", "idle"} /\ UNCHANGED doubted
         /\ todo' \subseteq Certs
      \/ /\ r \in Sending /\ r.at = "post" /\ r.key = k /\ UNCHANGED todo
         /\ doubted' = doubted \/ doubted' = doubted \cup {k}
         /\ k \notin doubted' => log[k] = "none" /\ ~Posting(p, k)
  <2>1. CASE Returns(p, TRUE) /\ UNCHANGED doubted
    BY <1>0, <2>1, Returning
  <2>2. CASE /\ Step(p, "post") /\ UNCHANGED todo
             /\ \/ ~IsLogged(k) /\ doubted' = Doubting(Posting(p, k), k)
                \/ doubted' = Doubting(log[k] # "none" \/ Posting(p, k), k)
    <3>1. r \in Sending /\ r.at = "post" /\ r.key = k
      BY <1>0, <2>2, Stepping
    <3>2. /\ doubted' = doubted \/ doubted' = doubted \cup {k}
          /\ k \notin doubted' => log[k] = "none" /\ ~Posting(p, k)
      BY <2>2 DEF Doubting, IsLogged
    <3> QED
      BY <2>2, <3>1, <3>2
  <2> QED
    BY <2>1, <2>2 DEF NotificationEventExists
<1>2. sender' = [sender EXCEPT ![p] = r]
  BY <1>0, Stepping, Returning DEF NotificationEventExists
<1>3. /\ sender' \in [Senders -> Sending \cup {Idle}]
      /\ \A q \in Senders \ {p} : sender'[q] = sender[q]
      /\ r \in Sending \cup {Idle}
  BY <1>0, <1>1, <1>2, OneSender
<1>4. TypeOK'
  <2>1. doubted' \subseteq Keys /\ todo' \subseteq Certs
    BY <1>0, <1>1 DEF TypeOK
  <2> QED
    BY <1>0, <1>3, <2>1 DEF TypeOK
<1>5. OnceInv'
  <2>1. CASE r.at \in {"told", "idle"} /\ UNCHANGED doubted
    <3>1. \A h \in Keys : ~Has(sender[p], h) /\ ~Has(r, h)
      BY <1>0, <2>1 DEF Has, AtPost, AtLog
    <3> QED
      BY <1>0, <1>3, <2>1, <3>1, Quiet DEF NotificationInv
  <2>2. CASE /\ r.at = "post" /\ r.key = k
             /\ doubted' = doubted \/ doubted' = doubted \cup {k}
             /\ k \notin doubted' => log[k] = "none" /\ ~Posting(p, k)
    <3> SUFFICES ASSUME NEW h \in Keys \ doubted'
                 PROVE  /\ received[h] <= 1
                        /\ \A q \in Senders : Has(sender'[q], h) =>
                             log[h] = "none" /\ \A o \in Senders \ {q} : ~Has(sender'[o], h)
                        /\ \A q \in Senders : AtPost(sender'[q], h) => received[h] = 0
                        /\ received[h] > 0 /\ log[h] = "none" => \E q \in Senders : AtLog(sender'[q], h)
      BY <1>0 DEF OnceInv, OnceFor, Has, AtPost, AtLog
    <3>1. OnceFor(h)
      BY <2>2 DEF NotificationInv, OnceInv
    <3>2. ~Has(sender[p], h)
      BY <1>0 DEF Has, AtPost, AtLog
    <3>3. CASE h # k
      <4>1. ~Has(r, h)
        BY <2>2, <3>3 DEF Has, AtPost, AtLog
      <4>2. \A q \in Senders : /\ Has(sender'[q], h) <=> Has(sender[q], h)
                               /\ AtPost(sender'[q], h) <=> AtPost(sender[q], h)
                               /\ AtLog(sender'[q], h) <=> AtLog(sender[q], h)
        BY <1>3, <3>2, <4>1 DEF Has
      <4> QED
        BY <3>1, <4>2 DEF OnceFor
    <3>4. CASE h = k
      <4>1. log[h] = "none" /\ \A q \in Senders \ {p} : ~Has(sender[q], h)
        <5>1. log[h] = "none" /\ ~Posting(p, h)
          BY <2>2, <3>4
        <5>2. ASSUME NEW q \in Senders \ {p}, Has(sender[q], h) PROVE FALSE
          <6>1. sender[q] # Idle
            BY <1>0, <5>2, SenderType DEF Has, AtPost, AtLog
          <6> QED
            BY <5>1, <5>2, <6>1 DEF Has, AtPost, AtLog, Posting
        <5> QED
          BY <5>1, <5>2
      <4>2. \A q \in Senders : ~AtLog(sender[q], h)
        BY <3>2, <4>1 DEF Has
      <4>3. received[h] \in Nat
        BY <1>0 DEF TypeOK
      <4>4. received[h] = 0
        BY <3>1, <4>1, <4>2, <4>3 DEF OnceFor
      <4>5. \A q \in Senders \ {p} : ~Has(sender'[q], h)
        BY <1>3, <4>1
      <4> QED
        BY <4>1, <4>4, <4>5
    <3> QED
      BY <3>3, <3>4
  <2> QED
    BY <1>1, <2>1, <2>2
<1>6. KeyInv'
  BY <1>1, <1>3 DEF NotificationInv, KeyInv
<1>7. TestInv'
  <2>1. p # Tester
    <3>1. p = Tester => k = NoKey
      BY DEF NotificationInv, TestInv, Honest
    <3> QED
      BY <1>0, <3>1 DEF NamesApart
  <2>2. sender'[Tester] = sender[Tester] /\ settings' = settings
    BY <1>0, <1>3, <2>1
  <2> QED
    BY <2>2 DEF NotificationInv, TestInv, Honest
<1>8. FormInv' /\ PasswordKept'
  BY <1>0 DEF NotificationInv, FormInv, PasswordKept
<1> QED
  BY <1>4, <1>5, <1>6, <1>7, <1>8 DEF NotificationInv

LEMMA PostStep ==
  ASSUME NamesApart, NotificationInv, NEW p \in Senders, sender[p] # Idle, Post(p)
  PROVE  NotificationInv'
<1> DEFINE r == sender'[p]
           k == sender[p].key
<1>0. /\ TypeOK /\ Tester \in Senders /\ sender[p] \in Sending /\ sender[p].at = "post"
      /\ k \in Keys \cup {NoKey}
      /\ UNCHANGED <<settings, log, due, down, todo, admin, crashes, doubted, typed, clobbered>>
  BY SenderType DEF NotificationInv, Senders, Post, At, Sending
<1>1. PICK got \in BOOLEAN, ok \in BOOLEAN :
        /\ sender' = [sender EXCEPT ![p].at = "log", ![p].ok = ok]
        /\ received' = IF got /\ k # NoKey /\ received[k] < 2
                       THEN [received EXCEPT ![k] = @ + 1] ELSE received
  BY DEF Post
<1>2. /\ r \in Sending /\ sender' = [sender EXCEPT ![p] = r]
      /\ r.at = "log" /\ r.key = k /\ r.kind = sender[p].kind
      /\ r.said = sender[p].said /\ r.switched = sender[p].switched
  <2> DEFINE s == [sender[p] EXCEPT !.at = "log", !.ok = ok]
  <2>1. /\ s \in Sending /\ s.at = "log" /\ s.key = k /\ s.kind = sender[p].kind
        /\ s.said = sender[p].said /\ s.switched = sender[p].switched
    BY <1>0 DEF Sending
  <2>2. sender' = [sender EXCEPT ![p] = s]
    BY <1>1
  <2> HIDE DEF s
  <2>3. sender'[p] = s
    BY <1>0, <2>1, <2>2, OneSender
  <2> QED
    BY <2>1, <2>2, <2>3
<1>3. /\ sender' \in [Senders -> Sending \cup {Idle}]
      /\ \A q \in Senders \ {p} : sender'[q] = sender[q]
  BY <1>0, <1>2, OneSender
<1>4. /\ received' \in [Keys -> 0..2]
      /\ \A h \in Keys \ {k} : received'[h] = received[h]
      /\ k \in Keys => received'[k] \in {received[k], received[k] + 1}
  <2>1. received \in [Keys -> 0..2]
    BY <1>0 DEF TypeOK
  <2>2. CASE got /\ k # NoKey /\ received[k] < 2
    <3>1. k \in Keys /\ received[k] + 1 \in 0..2
      BY <1>0, <2>1, <2>2
    <3> QED
      BY <1>1, <2>1, <2>2, <3>1
  <2>3. CASE ~(got /\ k # NoKey /\ received[k] < 2)
    BY <1>1, <2>1, <2>3
  <2> QED
    BY <2>2, <2>3
<1> HIDE DEF r
<1>5. TypeOK'
  BY <1>0, <1>3, <1>4 DEF TypeOK
<1>6. OnceInv'
  <2> SUFFICES ASSUME NEW h \in Keys \ doubted
               PROVE  /\ received'[h] <= 1
                      /\ \A q \in Senders : Has(sender'[q], h) =>
                           log[h] = "none" /\ \A o \in Senders \ {q} : ~Has(sender'[o], h)
                      /\ \A q \in Senders : AtPost(sender'[q], h) => received'[h] = 0
                      /\ received'[h] > 0 /\ log[h] = "none" => \E q \in Senders : AtLog(sender'[q], h)
    BY <1>0 DEF OnceInv, OnceFor, Has, AtPost, AtLog
  <2>1. OnceFor(h) /\ received[h] \in Nat
    BY <1>0 DEF NotificationInv, OnceInv, TypeOK
  <2>2. CASE h # k
    <3>1. ~Has(r, h) /\ ~Has(sender[p], h)
      BY <1>0, <1>2, <2>2 DEF Has, AtPost, AtLog
    <3>2. \A q \in Senders : /\ Has(sender'[q], h) <=> Has(sender[q], h)
                             /\ AtPost(sender'[q], h) <=> AtPost(sender[q], h)
                             /\ AtLog(sender'[q], h) <=> AtLog(sender[q], h)
      BY <1>3, <3>1 DEF Has, r
    <3>3. received'[h] = received[h]
      BY <1>4, <2>2
    <3> QED
      BY <2>1, <3>2, <3>3 DEF OnceFor
  <2>3. CASE h = k
    <3>1. AtPost(sender[p], h) /\ Has(sender[p], h)
      BY <1>0, <2>3 DEF Has, AtPost
    <3>2. received[h] = 0 /\ log[h] = "none" /\ \A q \in Senders \ {p} : ~Has(sender[q], h)
      BY <2>1, <3>1 DEF OnceFor
    <3>3. AtLog(r, h) /\ ~AtPost(r, h)
      BY <1>2, <2>3 DEF AtPost, AtLog
    <3>4. \A q \in Senders \ {p} : ~Has(sender'[q], h) /\ ~AtPost(sender'[q], h)
      BY <1>3, <3>2 DEF Has
    <3>5. received'[h] \in {0, 1}
      BY <1>4, <2>3, <3>2
    <3> QED
      BY <3>2, <3>3, <3>4, <3>5 DEF r
  <2> QED
    BY <2>2, <2>3
<1>7. KeyInv'
  BY <1>2, <1>3 DEF NotificationInv, KeyInv, r
<1>8. TestInv'
  <2>1. CASE p = Tester
    <3>1. Honest(sender[p], settings.webhook)
      BY <2>1 DEF NotificationInv, TestInv
    <3>2. sender[p].kind = "test" /\ k = NoKey /\ sender[p].said = ""
      BY <1>0, <3>1 DEF Honest
    <3> QED
      BY <1>2, <2>1, <3>2 DEF TestInv, Honest, r
  <2>2. CASE p # Tester
    <3>1. sender'[Tester] = sender[Tester] /\ settings' = settings
      BY <1>0, <1>3, <2>2
    <3> QED
      BY <3>1 DEF NotificationInv, TestInv, Honest
  <2> QED
    BY <2>1, <2>2
<1>9. FormInv' /\ PasswordKept'
  BY <1>0 DEF NotificationInv, FormInv, PasswordKept
<1> QED
  BY <1>5, <1>6, <1>7, <1>8, <1>9 DEF NotificationInv

LEMMA LogStep ==
  ASSUME NamesApart, NotificationInv, NEW p \in Senders, sender[p] # Idle, AddNotificationLog(p)
  PROVE  NotificationInv'
<1> DEFINE r == sender'[p]
           k == sender[p].key
<1>0. /\ TypeOK /\ Tester \in Senders /\ sender[p] \in Sending /\ sender[p].at = "log"
      /\ k \in Keys \cup {NoKey} /\ sender[p].ok \in BOOLEAN
      /\ Returns(p, sender[p].ok)
      /\ UNCHANGED <<settings, due, down, admin, crashes, received, typed, clobbered>>
  BY SenderType DEF NotificationInv, Senders, AddNotificationLog, Outcome, At, Sending
<1>1. /\ r \in Sending \cup {Idle} /\ sender' = [sender EXCEPT ![p] = r]
      /\ r.at \in {"told", "idle"} /\ todo' \subseteq Certs
  BY <1>0, Returning
<1>2. /\ sender' \in [Senders -> Sending \cup {Idle}]
      /\ \A q \in Senders \ {p} : sender'[q] = sender[q]
  BY <1>0, <1>1, OneSender
\* An entry is made, under the first of its key, or the key is in doubt.
<1>3. /\ log' \in [Keys -> {"none", "sent", "failed"}] /\ doubted' \subseteq Keys
      /\ doubted \subseteq doubted'
      /\ \A h \in Keys \ {k} : log'[h] = log[h]
      /\ k \in Keys \ doubted' => log'[k] # "none"
  <2>1. log \in [Keys -> {"none", "sent", "failed"}] /\ doubted \subseteq Keys
    BY <1>0 DEF TypeOK
  <2>2. CASE /\ doubted' = doubted
             /\ log' = IF k = NoKey THEN log ELSE LogOnce(k, IF sender[p].ok THEN "sent" ELSE "failed")
    BY <1>0, <2>1, <2>2 DEF LogOnce, NamesApart
  <2>3. CASE log' = log /\ doubted' = IF k = NoKey THEN doubted ELSE doubted \cup {k}
    BY <1>0, <2>1, <2>3 DEF NamesApart
  <2> QED
    BY <2>2, <2>3 DEF AddNotificationLog
<1> HIDE DEF r
<1>4. TypeOK'
  BY <1>0, <1>1, <1>2, <1>3 DEF TypeOK
<1>5. OnceInv'
  <2> SUFFICES ASSUME NEW h \in Keys \ doubted'
               PROVE  /\ received[h] <= 1
                      /\ \A q \in Senders : Has(sender'[q], h) =>
                           log'[h] = "none" /\ \A o \in Senders \ {q} : ~Has(sender'[o], h)
                      /\ \A q \in Senders : AtPost(sender'[q], h) => received[h] = 0
                      /\ received[h] > 0 /\ log'[h] = "none" => \E q \in Senders : AtLog(sender'[q], h)
    BY <1>0 DEF OnceInv, OnceFor, Has, AtPost, AtLog
  <2>1. OnceFor(h)
    BY <1>3 DEF NotificationInv, OnceInv
  <2>2. ~Has(r, h)
    BY <1>1 DEF Has, AtPost, AtLog
  <2>3. CASE h # k
    <3>1. ~Has(sender[p], h)
      BY <1>0, <2>3 DEF Has, AtPost, AtLog
    <3>2. \A q \in Senders : /\ Has(sender'[q], h) <=> Has(sender[q], h)
                             /\ AtPost(sender'[q], h) <=> AtPost(sender[q], h)
                             /\ AtLog(sender'[q], h) <=> AtLog(sender[q], h)
      BY <1>2, <2>2, <3>1 DEF Has, r
    <3>3. log'[h] = log[h]
      BY <1>3, <2>3
    <3> QED
      BY <2>1, <3>2, <3>3 DEF OnceFor
  <2>4. CASE h = k
    <3>1. Has(sender[p], h)
      BY <1>0, <2>4 DEF Has, AtLog
    <3>2. received[h] <= 1 /\ \A q \in Senders \ {p} : ~Has(sender[q], h)
      BY <2>1, <3>1 DEF OnceFor
    <3>3. \A q \in Senders : ~Has(sender'[q], h) /\ ~AtPost(sender'[q], h)
      BY <1>2, <2>2, <3>2 DEF Has, r
    <3>4. log'[h] # "none"
      BY <1>3, <2>4
    <3> QED
      BY <3>2, <3>3, <3>4
  <2> QED
    BY <2>3, <2>4
<1>6. KeyInv'
  BY <1>1, <1>2 DEF NotificationInv, KeyInv, r
<1>7. TestInv'
  <2>1. CASE p = Tester
    <3>1. Honest(sender[p], settings.webhook)
      BY <2>1 DEF NotificationInv, TestInv
    <3>2. sender[p].kind = "test" /\ k = NoKey
      BY <3>1 DEF Honest
    <3>3. /\ r.at = "told" /\ r.key = k /\ r.kind = sender[p].kind /\ r.ok = sender[p].ok
          /\ r.said = IF sender[p].ok THEN "sent" ELSE "failed"
      BY <1>0, <2>1, Returning DEF r
    <3> QED
      BY <2>1, <3>2, <3>3 DEF TestInv, Honest, r
  <2>2. CASE p # Tester
    <3>1. sender'[Tester] = sender[Tester] /\ settings' = settings
      BY <1>0, <1>2, <2>2
    <3> QED
      BY <3>1 DEF NotificationInv, TestInv, Honest
  <2> QED
    BY <2>1, <2>2
<1>8. FormInv' /\ PasswordKept'
  BY <1>0 DEF NotificationInv, FormInv, PasswordKept
<1> QED
  BY <1>4, <1>5, <1>6, <1>7, <1>8 DEF NotificationInv

LEMMA FormStep ==
  ASSUME NamesApart, NotificationInv, NEW a \in Admins, AdminNotificationsPost(a)
  PROVE  NotificationInv'
<1>0. /\ TypeOK /\ admin \in [Admins -> Saving \cup {Idle}] /\ settings \in Settings
      /\ UNCHANGED <<settings, log, due, down, sender, todo, crashes, history>>
  BY DEF NotificationInv, TypeOK, AdminNotificationsPost
<1>1. PICK webhook \in BOOLEAN, notify \in {Kinds, {}}, pwd \in Passwords \cup {NoPassword},
           read \in BOOLEAN :
        /\ read => ~down
        /\ LET current == IF read THEN settings ELSE Defaults
               form == [webhook |-> webhook, notify |-> notify,
                        password |-> Merged(current.password, pwd)]
           IN admin' = [admin EXCEPT ![a] = [at |-> "save", form |-> form,
                          typed |-> pwd # NoPassword, stale |-> ~read]]
  BY Zenon DEF AdminNotificationsPost
<1> DEFINE current == IF read THEN settings ELSE Defaults
           f == [webhook |-> webhook, notify |-> notify, password |-> Merged(current.password, pwd)]
           s == [at |-> "save", form |-> f, typed |-> pwd # NoPassword, stale |-> ~read]
<1>2. Merged(current.password, pwd) \in Passwords \cup {NoPassword}
  BY <1>0, <1>1 DEF Merged, Settings, Defaults
<1>3. f \in Settings /\ f.password = Merged(current.password, pwd)
  BY <1>2 DEF Settings
<1> HIDE DEF f
<1>4. s \in Saving /\ s.form = f /\ (s.typed <=> pwd # NoPassword) /\ (s.stale <=> ~read)
  BY <1>3 DEF Saving
<1>5. admin' = [admin EXCEPT ![a] = s]
  BY <1>1 DEF f
<1> HIDE DEF s
<1>6. /\ admin' \in [Admins -> Saving \cup {Idle}] /\ admin'[a] = s
      /\ \A b \in Admins \ {a} : admin'[b] = admin[b]
  BY <1>0, <1>4, <1>5
<1>7. TypeOK'
  BY <1>0, <1>6 DEF TypeOK, history
<1>8. FormInv'
  <2>1. ~s.typed /\ ~s.stale => s.form.password = settings.password
    BY <1>1, <1>3, <1>4 DEF Merged
  <2> QED
    BY <1>0, <1>6, <2>1 DEF NotificationInv, FormInv
<1>9. OnceInv'
  BY <1>0, Quiet DEF NotificationInv, history
<1>10. KeyInv' /\ PasswordKept'
  BY <1>0 DEF NotificationInv, KeyInv, PasswordKept, history
<1>11. TestInv'
  BY <1>0 DEF NotificationInv, TestInv, Honest
<1> QED
  BY <1>7, <1>8, <1>9, <1>10, <1>11 DEF NotificationInv

\* What a save does to the callers: at most it tells the test of the switch.
LEMMA Switching ==
  ASSUME NotificationInv, Tester \in Senders, NEW webhook \in BOOLEAN,
         sender' = IF sender[Tester] # Idle /\ webhook # settings.webhook
                   THEN [sender EXCEPT ![Tester].switched = TRUE] ELSE sender
  PROVE  /\ sender' \in [Senders -> Sending \cup {Idle}]
         /\ \A q \in Senders : sender'[q].at = sender[q].at /\ sender'[q].key = sender[q].key
         /\ Honest(sender'[Tester], webhook)
<1>0. TypeOK /\ Honest(sender[Tester], settings.webhook)
  BY DEF NotificationInv, TestInv
<1>1. CASE sender[Tester] # Idle /\ webhook # settings.webhook
  <2> DEFINE r == [sender[Tester] EXCEPT !.switched = TRUE]
  <2>1. sender[Tester] \in Sending
    BY <1>0, <1>1, SenderType
  <2>2. /\ r \in Sending /\ r.at = sender[Tester].at /\ r.key = sender[Tester].key
        /\ r.kind = sender[Tester].kind /\ r.said = sender[Tester].said
        /\ r.ok = sender[Tester].ok /\ r.switched
    BY <2>1 DEF Sending
  <2>3. sender' = [sender EXCEPT ![Tester] = r]
    BY <1>1
  <2> HIDE DEF r
  <2>4. /\ sender' \in [Senders -> Sending \cup {Idle}] /\ sender'[Tester] = r
        /\ \A q \in Senders \ {Tester} : sender'[q] = sender[q]
    BY <1>0, <2>2, <2>3, OneSender
  <2>5. Honest(r, webhook)
    BY <1>0, <1>1, <2>2 DEF Honest
  <2> QED
    BY <2>2, <2>4, <2>5
<1>2. CASE ~(sender[Tester] # Idle /\ webhook # settings.webhook)
  BY <1>0, <1>2 DEF Honest, TypeOK
<1> QED
  BY <1>1, <1>2

LEMMA SaveStep ==
  ASSUME NamesApart, NotificationInv, NEW a \in Admins, SaveNotificationSettings(a)
  PROVE  NotificationInv'
<1> DEFINE s == admin[a]
<1>0. /\ TypeOK /\ Tester \in Senders /\ s \in Saving /\ s.form \in Settings
      /\ s.typed \in BOOLEAN /\ s.stale \in BOOLEAN
      /\ s.form.webhook \in BOOLEAN /\ s.form.password \in Passwords \cup {NoPassword}
      /\ UNCHANGED <<log, due, down, todo, crashes, received, doubted>>
  BY DEF NotificationInv, TypeOK, Senders, SaveNotificationSettings, Saving, Settings
<1>1. ASSUME UNCHANGED <<log, received, doubted>>,
             \A q \in Senders : sender'[q].at = sender[q].at /\ sender'[q].key = sender[q].key
      PROVE  OnceInv' /\ KeyInv'
  <2>1. \A q \in Senders, k \in Keys : /\ Has(sender'[q], k) <=> Has(sender[q], k)
                                       /\ AtPost(sender'[q], k) <=> AtPost(sender[q], k)
                                       /\ AtLog(sender'[q], k) <=> AtLog(sender[q], k)
    BY <1>1 DEF Has, AtPost, AtLog
  <2>2. ASSUME NEW k \in Keys \ doubted
        PROVE  /\ received[k] <= 1
               /\ \A p \in Senders : Has(sender'[p], k) =>
                    log[k] = "none" /\ \A q \in Senders \ {p} : ~Has(sender'[q], k)
               /\ \A p \in Senders : AtPost(sender'[p], k) => received[k] = 0
               /\ received[k] > 0 /\ log[k] = "none" => \E p \in Senders : AtLog(sender'[p], k)
    <3>1. OnceFor(k)
      BY DEF NotificationInv, OnceInv
    <3> QED
      BY <2>1, <3>1 DEF OnceFor
  <2>3. OnceInv'
    BY <1>1, <2>2 DEF OnceInv, OnceFor, Has, AtPost, AtLog
  <2>4. KeyInv'
    BY <1>1 DEF NotificationInv, KeyInv
  <2> QED
    BY <2>3, <2>4
<1>2. CASE admin' = [admin EXCEPT ![a] = Idle] /\ UNCHANGED <<settings, typed, clobbered, sender>>
  <2>1. admin \in [Admins -> Saving \cup {Idle}]
    BY <1>0 DEF TypeOK
  <2>2. /\ admin' \in [Admins -> Saving \cup {Idle}]
        /\ \A b \in Admins : admin'[b] = admin[b] \/ admin'[b] = Idle
    BY <1>2, <2>1
  <2>3. TypeOK' /\ FormInv' /\ PasswordKept'
    BY <1>0, <1>2, <2>2 DEF NotificationInv, TypeOK, FormInv, PasswordKept
  <2>4. OnceInv' /\ KeyInv'
    BY <1>0, <1>1, <1>2
  <2>5. TestInv'
    BY <1>2 DEF NotificationInv, TestInv, Honest
  <2> QED
    BY <2>3, <2>4, <2>5 DEF NotificationInv
<1>3. CASE /\ settings' = s.form
           /\ admin' = [b \in Admins |->
                IF b = a THEN Idle
                ELSE IF admin[b] # Idle /\ s.form.password # settings.password
                     THEN [admin[b] EXCEPT !.stale = TRUE] ELSE admin[b]]
           /\ typed' = IF s.typed THEN s.form.password ELSE typed
           /\ clobbered' = (~s.typed /\ (clobbered \/ s.stale))
           /\ sender' = IF sender[Tester] # Idle /\ s.form.webhook # settings.webhook
                        THEN [sender EXCEPT ![Tester].switched = TRUE] ELSE sender
  <2> HIDE DEF s
  <2>1. /\ sender' \in [Senders -> Sending \cup {Idle}]
        /\ \A q \in Senders : sender'[q].at = sender[q].at /\ sender'[q].key = sender[q].key
        /\ Honest(sender'[Tester], s.form.webhook)
    BY <1>0, <1>3, Switching
  <2>2. ASSUME NEW b \in Admins
        PROVE  /\ admin'[b] \in Saving \cup {Idle}
               /\ admin'[b] # Idle /\ ~admin'[b].typed /\ ~admin'[b].stale
                    => admin'[b].form.password = s.form.password
    <3>1. admin[b] \in Saving \cup {Idle}
      BY <1>0 DEF TypeOK
    <3>2. CASE b = a
      BY <1>3, <3>2
    <3>3. CASE b # a /\ admin[b] # Idle /\ s.form.password # settings.password
      <4>1. admin'[b] = [admin[b] EXCEPT !.stale = TRUE] /\ admin[b] \in Saving
        BY <1>3, <3>1, <3>3
      <4> QED
        BY <4>1 DEF Saving
    <3>4. CASE b # a /\ ~(admin[b] # Idle /\ s.form.password # settings.password)
      <4>1. admin'[b] = admin[b]
        BY <1>3, <3>4
      <4> QED
        BY <3>1, <3>4, <4>1 DEF NotificationInv, FormInv
    <3> QED
      BY <3>2, <3>3, <3>4
  <2>3. admin' \in [Admins -> Saving \cup {Idle}]
    BY <1>3, <2>2
  <2>4. typed' \in Passwords \cup {NoPassword} /\ clobbered' \in BOOLEAN
    BY <1>0, <1>3 DEF TypeOK
  <2>5. TypeOK'
    BY <1>0, <1>3, <2>1, <2>3, <2>4 DEF TypeOK
  <2>6. FormInv'
    BY <1>3, <2>2 DEF FormInv
  <2>7. PasswordKept'
    <3>1. ~s.typed /\ ~s.stale => s.form.password = settings.password
      BY <1>0, SaveNotificationSettings(a) DEF SaveNotificationSettings, NotificationInv, FormInv, s
    <3> QED
      BY <1>0, <1>3, <3>1 DEF NotificationInv, PasswordKept
  <2>8. OnceInv' /\ KeyInv'
    BY <1>0, <1>1, <2>1
  <2>9. TestInv'
    BY <1>3, <2>1 DEF TestInv, Honest
  <2> QED
    BY <2>5, <2>6, <2>7, <2>8, <2>9 DEF NotificationInv
<1> QED
  BY <1>2, <1>3 DEF SaveNotificationSettings

LEMMA RestartStep ==
  ASSUME NamesApart, NotificationInv, Restart
  PROVE  NotificationInv'
<1>0. /\ TypeOK /\ Tester \in Senders /\ Idle.at = "idle"
      /\ sender' = [p \in Senders |-> Idle] /\ admin' = [a \in Admins |-> Idle] /\ todo' = {}
      /\ crashes' = crashes + 1 /\ crashes < MaxCrashes
      /\ UNCHANGED <<settings, log, due, down, received, typed, clobbered>>
  BY DEF NotificationInv, Senders, Restart, Idle
<1>1. /\ doubted' \subseteq Keys /\ doubted \subseteq doubted'
      /\ \A k \in Keys \ doubted', p \in Senders : ~Has(sender[p], k)
  <2>1. doubted' = doubted \cup {k \in Keys : \E p \in Senders :
          sender[p] # Idle /\ sender[p].at \in {"post", "log"} /\ sender[p].key = k}
    BY DEF Restart
  <2>2. \A p \in Senders : sender[p] = Idle => sender[p].at = "idle"
    BY <1>0
  <2> QED
    BY <1>0, <2>1, <2>2 DEF TypeOK, Has, AtPost, AtLog
<1>2. TypeOK'
  <2>1. crashes' \in 0..MaxCrashes
    BY <1>0 DEF TypeOK, NamesApart
  <2> QED
    BY <1>0, <1>1, <2>1 DEF TypeOK
<1>3. OnceInv'
  <2> SUFFICES ASSUME NEW h \in Keys \ doubted'
               PROVE  /\ received[h] <= 1
                      /\ \A q \in Senders : Has(sender'[q], h) =>
                           log[h] = "none" /\ \A o \in Senders \ {q} : ~Has(sender'[o], h)
                      /\ \A q \in Senders : AtPost(sender'[q], h) => received[h] = 0
                      /\ received[h] > 0 /\ log[h] = "none" => \E q \in Senders : AtLog(sender'[q], h)
    BY <1>0 DEF OnceInv, OnceFor, Has, AtPost, AtLog
  <2>1. OnceFor(h)
    BY <1>1 DEF NotificationInv, OnceInv
  <2>2. ~(received[h] > 0 /\ log[h] = "none")
    BY <1>1, <2>1 DEF OnceFor, Has
  <2>3. \A q \in Senders : ~Has(sender'[q], h) /\ ~AtPost(sender'[q], h)
    BY <1>0 DEF Has, AtPost, AtLog
  <2> QED
    BY <2>1, <2>2, <2>3 DEF OnceFor
<1>4. KeyInv' /\ FormInv' /\ PasswordKept'
  BY <1>0 DEF NotificationInv, KeyInv, FormInv, PasswordKept
<1>5. TestInv'
  BY <1>0 DEF TestInv, Honest
<1> QED
  BY <1>2, <1>3, <1>4, <1>5 DEF NotificationInv

\* The steps that touch neither a caller nor a save.
LEMMA IdleStep ==
  ASSUME NotificationInv, CheckExpiring \/ TimePasses \/ Database \/ UNCHANGED vars
  PROVE  NotificationInv'
<1>1. /\ UNCHANGED <<settings, log, sender, admin, crashes, history>>
      /\ due' \subseteq Certs /\ todo' \subseteq Certs /\ down' \in BOOLEAN
  <2>0. due \subseteq Certs /\ todo \subseteq Certs /\ down \in BOOLEAN
    BY DEF NotificationInv, TypeOK
  <2>1. CASE CheckExpiring
    BY <2>0, <2>1 DEF CheckExpiring
  <2>2. CASE TimePasses
    BY <2>0, <2>2 DEF TimePasses, ComesDue, GoesOff
  <2>3. CASE Database
    BY <2>0, <2>3 DEF Database
  <2>4. CASE UNCHANGED vars
    BY <2>0, <2>4 DEF vars
  <2> QED
    BY <2>1, <2>2, <2>3, <2>4
<1>2. TypeOK'
  BY <1>1 DEF NotificationInv, TypeOK, history
<1>3. OnceInv'
  BY <1>1, Quiet DEF NotificationInv, history
<1>4. KeyInv' /\ FormInv' /\ PasswordKept'
  BY <1>1 DEF NotificationInv, KeyInv, FormInv, PasswordKept, history
<1>5. TestInv'
  BY <1>1 DEF NotificationInv, TestInv, Honest
<1> QED
  BY <1>2, <1>3, <1>4, <1>5 DEF NotificationInv

LEMMA TestIsReadStep ==
  ASSUME NamesApart, NotificationInv, TestIsRead
  PROVE  NotificationInv'
<1>0. /\ TypeOK /\ Tester \in Senders /\ sender[Tester].at = "told" /\ Idle.at = "idle"
      /\ sender' = [sender EXCEPT ![Tester] = Idle]
      /\ UNCHANGED <<settings, log, due, down, todo, admin, crashes, history>>
  BY DEF NotificationInv, Senders, TestIsRead, At, Idle
<1>1. /\ sender' \in [Senders -> Sending \cup {Idle}] /\ sender'[Tester] = Idle
      /\ \A q \in Senders \ {Tester} : sender'[q] = sender[q]
  BY <1>0, OneSender
<1>2. TypeOK'
  BY <1>0, <1>1 DEF TypeOK, history
<1>3. OnceInv'
  <2>1. \A h \in Keys : ~Has(sender[Tester], h) /\ ~Has(sender'[Tester], h)
    BY <1>0, <1>1 DEF Has, AtPost, AtLog
  <2> QED
    BY <1>0, <1>1, <2>1, Quiet DEF NotificationInv, history
<1>4. KeyInv' /\ FormInv' /\ PasswordKept'
  BY <1>0, <1>1 DEF NotificationInv, KeyInv, FormInv, PasswordKept, history
<1>5. TestInv'
  BY <1>1 DEF TestInv, Honest
<1> QED
  BY <1>2, <1>3, <1>4, <1>5 DEF NotificationInv

LEMMA SendStep ==
  ASSUME NamesApart, NotificationInv, NEW p \in Senders, Send(p)
  PROVE  NotificationInv'
  BY SettingsStep, LookupStep, PostStep, LogStep DEF Send

LEMMA NotificationStart == NamesApart /\ Init => NotificationInv
<1> SUFFICES ASSUME NamesApart, Init PROVE NotificationInv
  OBVIOUS
<1>1. Defaults \in Settings /\ Defaults.password = NoPassword /\ Idle.at = "idle"
  BY DEF Defaults, Settings, Idle
<1>2. settings \in Settings /\ settings.password = NoPassword
  BY <1>1 DEF Init, Settings
<1>3. TypeOK
  <2>1. crashes \in 0..MaxCrashes /\ received \in [Keys -> 0..2]
    BY DEF Init, NamesApart
  <2>2. log \in [Keys -> {"none", "sent", "failed"}]
    BY DEF Init
  <2>3. sender \in [Senders -> Sending \cup {Idle}] /\ admin \in [Admins -> Saving \cup {Idle}]
    BY DEF Init
  <2> QED
    BY <1>2, <2>1, <2>2, <2>3 DEF Init, TypeOK
<1>4. OnceInv
  BY <1>1 DEF Init, OnceInv, OnceFor, Has, AtPost, AtLog
<1>5. KeyInv /\ FormInv /\ PasswordKept
  BY <1>1, <1>2 DEF Init, KeyInv, FormInv, PasswordKept
<1>6. TestInv
  BY DEF Init, TestInv, Honest, Senders
<1> QED
  BY <1>3, <1>4, <1>5, <1>6 DEF NotificationInv

LEMMA NotificationStep ==
  NamesApart /\ NotificationInv /\ [Next]_vars => NotificationInv'
<1> SUFFICES ASSUME NamesApart, NotificationInv, [Next]_vars PROVE NotificationInv'
  OBVIOUS
<1>0. Worker \in Senders /\ Tester \in Senders /\ Goroutines \subseteq Senders
  BY DEF Senders
<1>1. ASSUME NEW g \in Goroutines, NotifyAsync(g) PROVE NotificationInv'
  <2>1. PICK k \in Keys \cup {NoKey}, kind \in Kinds : Begin(g, k, kind)
    BY <1>1 DEF NotifyAsync, Keys, Kinds
  <2>2. /\ g # Tester /\ sender[g] = Idle
        /\ UNCHANGED <<settings, log, due, down, todo, admin, crashes, history>>
    BY <1>1 DEF NotifyAsync, NamesApart
  <2> QED
    BY <1>0, <2>1, <2>2, BeginStep
<1>2. ASSUME NEW c \in Certs, NotifyExpiring(c) PROVE NotificationInv'
  <2>1. /\ Begin(Worker, c, "expiring") /\ sender[Worker] = Idle
        /\ UNCHANGED <<settings, log, due, down, todo, admin, crashes, history>>
    BY <1>2 DEF NotifyExpiring
  <2>2. c \in Keys /\ "expiring" \in Kinds /\ Worker # Tester
    BY DEF Keys, Kinds, NamesApart
  <2> QED
    BY <1>0, <2>1, <2>2, BeginStep
<1>3. ASSUME AdminNotificationsTest PROVE NotificationInv'
  BY <1>0, <1>3, BeginStep DEF AdminNotificationsTest
<1>4. CASE AdminStep
  BY <1>4, FormStep, SaveStep DEF AdminStep
<1>5. CASE Restart
  BY <1>5, RestartStep
<1>6. CASE CheckExpiring \/ TimePasses \/ Database \/ UNCHANGED vars
  BY <1>6, IdleStep
<1>7. CASE TestIsRead
  BY <1>7, TestIsReadStep
<1> QED
  BY <1>0, <1>1, <1>2, <1>3, <1>4, <1>5, <1>6, <1>7, SendStep DEF Next, WorkerStep

-----------------------------------------------------------------------------
(* The theorems *)

LEMMA NotificationInvariant == Spec => []NotificationInv
<1>1. Init => NotificationInv
  BY NotificationStart, NotificationAssumption
<1>2. NotificationInv /\ [Next]_vars => NotificationInv'
  BY NotificationStep, NotificationAssumption
<1> QED
  BY <1>1, <1>2, PTL DEF Spec

\* The settings, the log, the callers and the forms have their types.
THEOREM TypeCorrect == Spec => []TypeOK
  BY NotificationInvariant, PTL DEF NotificationInv

\* However many goroutines, certificates and restarts there are, the receiver
\* gets an event a second time only if something put its once-ness in doubt:
\* another caller between its look-up and its entry in the log, a statement
\* that failed or a process that stopped there (sendNotification).
THEOREM SentOnce == Spec => []AtMostOnce
<1>1. NotificationInv => AtMostOnce
  BY DEF NotificationInv, OnceInv, OnceFor, AtMostOnce, TypeOK
<1> QED
  BY <1>1, NotificationInvariant, PTL

\* An administrator is told "sent" of a test only after a post that was answered
\* with success, unless the webhook was switched under way
\* (AdminNotificationsTest).
THEOREM TestIsHonest == Spec => []TestTellsTruth
<1>1. NotificationInv => TestTellsTruth
  BY DEF NotificationInv, TestInv, Honest, TestTellsTruth
<1> QED
  BY <1>1, NotificationInvariant, PTL

\* With any number of administrators saving at a time, the stored password is
\* the one typed last, or a blank form wrote back a default or a replaced one
\* (AdminNotificationsPost, parseSMTPFields).
THEOREM PasswordSurvives == Spec => []PasswordKept
  BY NotificationInvariant, PTL DEF NotificationInv
-----------------------------------------------------------------------------
(* The credentials of temporary users *)

LEMMA CredTypeInit == T!Init => T!TypeOK
  BY ConsoleAssumption DEF T!TTLOK, T!Init, T!TypeOK, T!Gone, T!NoToken

LEMMA CredTypeStep == T!TypeOK /\ [T!Next]_T!vars => T!TypeOK'
<1> SUFFICES ASSUME T!TypeOK, [T!Next]_T!vars PROVE T!TypeOK'
  OBVIOUS
<1> USE DEF T!TypeOK, T!Gone, T!NoToken
<1>1. T!Evicted \in [Tokens -> Int]
  BY DEF T!Evicted
<1>2. ASSUME NEW p \in Posts, NEW t \in Tokens, T!CreateTempUser(p, t) PROVE T!TypeOK'
  BY <1>2 DEF T!CreateTempUser
<1>3. ASSUME NEW p \in Posts, T!Put(p) PROVE T!TypeOK'
  <2>1. now + tempCredTTL \in Int
    BY ConsoleAssumption DEF T!TTLOK
  <2> QED
    BY <1>1, <1>3, <2>1 DEF T!Put
<1>4. ASSUME NEW t \in Tokens, T!Take(t) PROVE T!TypeOK'
  <2>1. creds' \in [Tokens -> Int]
    BY <1>1, <1>4 DEF T!Take, T!Taken
  <2>2. shown' \in [Tokens -> 0..2] /\ shownLate' \subseteq Tokens
    BY <1>4 DEF T!Take
  <2> QED
    BY <1>4, <2>1, <2>2 DEF T!Take
<1>5. ASSUME T!Tick \/ T!Restart PROVE T!TypeOK'
  BY <1>5, ConsoleAssumption DEF T!TTLOK, T!Tick, T!Restart
<1>6. CASE UNCHANGED T!vars
  BY <1>6 DEF T!vars
<1> QED
  BY <1>2, <1>3, <1>4, <1>5, <1>6 DEF T!Next

LEMMA CredInit == T!Init => T!CredInv
  BY DEF T!Init, T!CredInv, T!ShownOnce, T!OnePost, T!Unseen, T!Gone, T!NoToken

LEMMA CredStep == T!TypeOK /\ T!CredInv /\ [T!Next]_T!vars => T!CredInv'
<1> SUFFICES ASSUME T!TypeOK, T!CredInv, [T!Next]_T!vars PROVE T!CredInv'
  OBVIOUS
<1> USE DEF T!Gone
<1>1. \A t \in Tokens : T!Evicted[t] # -1 => T!Evicted[t] = creds[t] /\ creds[t] # -1
  BY DEF T!Evicted, T!TypeOK
<1>2. ASSUME NEW p \in Posts, NEW t \in Tokens, T!CreateTempUser(p, t) PROVE T!CredInv'
  BY <1>2 DEF T!CreateTempUser, T!CredInv, T!ShownOnce, T!OnePost, T!Unseen, T!TypeOK
<1>3. ASSUME NEW p \in Posts, T!Put(p) PROVE T!CredInv'
  <2> DEFINE u == posting[p]
  <2>1. /\ u # T!NoToken /\ u \in Tokens /\ filed[u] = -1 /\ shown[u] = 0
        /\ \A q \in Posts : posting[q] = u => q = p
    BY <1>3 DEF T!Put, T!CredInv, T!OnePost, T!Unseen, T!TypeOK
  <2>2. /\ creds' = [T!Evicted EXCEPT ![u] = now + tempCredTTL]
        /\ filed' = [filed EXCEPT ![u] = now] /\ now \in Nat
        /\ posting' = [posting EXCEPT ![p] = T!NoToken] /\ UNCHANGED <<shown, shownLate>>
    BY <1>3, ConsoleAssumption DEF T!Put, T!TypeOK, T!TTLOK
  <2>3. T!Evicted \in [Tokens -> Int] /\ tempCredTTL \in Nat
    BY ConsoleAssumption DEF T!Evicted, T!TypeOK, T!TTLOK
  <2> HIDE DEF u
  <2>4. T!ShownOnce'
    BY <2>2 DEF T!CredInv, T!ShownOnce
  <2>5. \A q \in Posts : T!OnePost(q)'
    BY <2>1, <2>2 DEF T!CredInv, T!OnePost, T!TypeOK
  <2>6. \A t \in Tokens : T!Unseen(t)'
    BY <1>1, <2>1, <2>2, <2>3 DEF T!CredInv, T!Unseen, T!TypeOK
  <2> QED
    BY <2>4, <2>5, <2>6 DEF T!CredInv
<1>4. ASSUME NEW t \in Tokens, T!Take(t) PROVE T!CredInv'
  <2>1. /\ \A u \in Tokens : creds'[u] = IF u = t THEN -1 ELSE T!Evicted[u]
        /\ UNCHANGED <<posting, filed>>
    BY <1>4 DEF T!Take, T!Taken, T!Evicted
  <2>2. /\ shownLate' = shownLate
        /\ \/ shown' = shown
           \/ shown[t] = 0 /\ shown' = [shown EXCEPT ![t] = 1]
    BY <1>1, <1>4 DEF T!Take, T!CredInv, T!Unseen, T!TypeOK
  <2>3. filed[t] # -1
    BY <1>4 DEF T!Take
  <2>4. T!ShownOnce'
    BY <2>2 DEF T!CredInv, T!ShownOnce, T!TypeOK
  <2>5. \A q \in Posts : T!OnePost(q)'
    BY <2>1 DEF T!CredInv, T!OnePost
  <2>6. \A u \in Tokens : T!Unseen(u)'
    BY <1>1, <2>1, <2>2, <2>3 DEF T!CredInv, T!Unseen, T!TypeOK
  <2> QED
    BY <2>4, <2>5, <2>6 DEF T!CredInv
<1>5. ASSUME T!Tick \/ T!Restart PROVE T!CredInv'
  BY <1>5 DEF T!Tick, T!Restart, T!CredInv, T!ShownOnce, T!OnePost, T!Unseen, T!NoToken
<1>6. CASE UNCHANGED T!vars
  BY <1>6 DEF T!vars, T!CredInv, T!ShownOnce, T!OnePost, T!Unseen
<1> QED
  BY <1>2, <1>3, <1>4, <1>5, <1>6 DEF T!Next

\* The inductive invariant of the store of credentials.
THEOREM CredInvariant == T!Spec => [](T!TypeOK /\ T!CredInv)
  BY CredTypeInit, CredTypeStep, CredInit, CredStep, PTL DEF T!Spec

-----------------------------------------------------------------------------
(* Logins by a provider *)

\* What O!TripInv says of one tab, with the round-trip cookie at n.
InTime(j, n) ==
  j \in O!Journeys /\ ~j.overtaken =>
    /\ ~j.refused
    /\ O!Returning(j) => n = j.round
    /\ j.at = "sent" /\ j.next = "provider" => j.trip = j.round

LEMMA TripParts == O!TripInv <=> \A t \in Tabs : InTime(tab[t], trip)
  BY DEF O!TripInv, InTime

\* A tab that is under way is a journey, with the fields of one.
LEMMA UnderWay ==
  ASSUME O!TypeOK, NEW t \in Tabs, tab[t].at \in {"provider", "sent", "login", "home"}
  PROVE  tab[t] \in O!Journeys
  BY DEF O!TypeOK, O!Landed, O!Idle

\* A tab goes on, and no cookie changes.
LEMMA TabGoes ==
  ASSUME O!TypeOK, O!TripInv, NEW t \in Tabs, NEW r \in O!Journeys,
         tab' = [tab EXCEPT ![t] = r], session' = session, trip' = trip,
         rounds' \in 0..MaxRounds, spent' \subseteq O!Rounds, InTime(r, trip)
  PROVE  O!TypeOK' /\ O!TripInv'
<1>1. O!TypeOK'
  BY DEF O!TypeOK
<1>2. \A u \in Tabs : InTime(tab'[u], trip')
  BY TripParts DEF O!TypeOK
<1> QED
  BY <1>1, <1>2 DEF O!TripInv, InTime

LEMMA Rests == O!Idle \notin O!Journeys /\ \A r \in O!Landed : r \notin O!Journeys
  BY DEF O!Idle, O!Landed, O!Journeys

\* The answers of the callback, of the login page and of the page behind it.
LEMMA AnswerGoes ==
  ASSUME O!TypeOK, O!TripInv, NEW t \in Tabs, tab[t].at \in {"sent", "login", "home"},
         NEW s \in O!Sessions \cup {"keep"}, NEW n \in {O!Keep, 0},
         NEW next \in {"login", "home", "idle"}, O!Answer(t, s, n, next),
         n = 0 => O!Returning(tab[t]),
         session' = session, trip' = trip,
         rounds' \in 0..MaxRounds, spent' \subseteq O!Rounds
  PROVE  O!TypeOK' /\ O!TripInv'
<1> DEFINE j == tab[t]
           r == [j EXCEPT !.at = "sent", !.session = s, !.trip = n, !.next = next]
<1>1. j \in O!Journeys
  BY UnderWay
<1>2. tab' = [tab EXCEPT ![t] = r]
  BY DEF O!Answer
<1>3. MaxRounds \in Nat
  BY ConsoleAssumption
<1>4. r \in O!Journeys
  <2>1. n \in {O!Keep} \cup 0..MaxRounds
    BY <1>3
  <2> HIDE DEF j
  <2> QED
    BY <1>1, <2>1 DEF O!Journeys
<1>5. /\ r.overtaken = j.overtaken /\ r.refused = j.refused /\ r.round = j.round
      /\ r.at = "sent" /\ r.next = next /\ r.trip = n
  BY <1>1 DEF O!Journeys
<1>6. InTime(j, trip)
  BY TripParts
<1> HIDE DEF r
<1>7. InTime(r, trip)
  BY <1>1, <1>5, <1>6 DEF InTime, O!Returning, O!Keep, O!Cleared
<1> HIDE DEF j
<1> QED
  BY <1>2, <1>4, <1>7, TabGoes

LEMMA CallbackStep ==
  ASSUME O!TypeOK, O!TripInv, NEW t \in Tabs, O!Callback(t)
  PROVE  O!TypeOK' /\ O!TripInv'
<1> DEFINE j == tab[t]
<1>1. j.at = "sent" /\ j.next = "callback"
  BY DEF O!Callback, O!StateMismatch, O!CallbackFails, O!CallbackSucceeds, O!AtCallback
<1>2. j \in O!Journeys /\ InTime(j, trip) /\ MaxRounds \in Nat
  BY <1>1, UnderWay, TripParts, ConsoleAssumption
<1>3. O!Returning(j)
  BY <1>1 DEF O!Returning
<1>4. /\ O!Saved(O!SessionSent(t)) \in O!Sessions
      /\ rounds \in 0..MaxRounds /\ spent \subseteq O!Rounds /\ j.round \in O!Rounds
  BY <1>2 DEF O!Saved, O!Sessions, O!TypeOK, O!Journeys
<1>5. ASSUME O!StateMismatch(t) PROVE O!TypeOK' /\ O!TripInv'
  <2> DEFINE s == O!Saved(O!SessionSent(t))
             r == [j EXCEPT !.session = s, !.next = "login", !.refused = TRUE]
  <2>1. r \in O!Journeys /\ r.overtaken = j.overtaken
    <3> HIDE DEF s
    <3>1. s \in O!Sessions
      BY <1>4 DEF s
    <3> QED
      BY <1>2, <3>1 DEF O!Journeys
  <2>2. j.overtaken
    BY <1>2, <1>3, <1>4, <1>5 DEF InTime, O!StateMismatch, O!RoundTripCookie, O!Rounds
  <2>3. tab' = [tab EXCEPT ![t] = r] /\ UNCHANGED <<session, trip, rounds, spent>>
    BY <1>5 DEF O!StateMismatch
  <2> HIDE DEF r, j
  <2>4. InTime(r, trip)
    BY <2>1, <2>2 DEF InTime
  <2> QED
    BY <1>4, <2>1, <2>3, <2>4, TabGoes
<1>6. ASSUME O!CallbackFails(t) PROVE O!TypeOK' /\ O!TripInv'
  <2>1. /\ O!Answer(t, O!Saved(O!SessionSent(t)), 0, "login")
        /\ UNCHANGED <<session, trip, rounds>> /\ spent' \subseteq O!Rounds
    BY <1>4, <1>6 DEF O!CallbackFails, O!Cleared
  <2> QED
    BY <1>1, <1>3, <1>4, <2>1, AnswerGoes
<1>7. ASSUME O!CallbackSucceeds(t) PROVE O!TypeOK' /\ O!TripInv'
  <2> DEFINE r == [j EXCEPT !.session = "in", !.trip = 0, !.next = "home", !.done = TRUE]
  <2>1. r \in O!Journeys
    <3>1. 0 \in {O!Keep} \cup 0..MaxRounds /\ "in" \in O!Sessions \cup {"keep"}
      BY <1>2 DEF O!Sessions
    <3> HIDE DEF j
    <3> QED
      BY <1>2, <3>1 DEF O!Journeys
  <2>2. /\ r.overtaken = j.overtaken /\ r.refused = j.refused /\ r.round = j.round
        /\ r.next = "home"
    BY <1>2 DEF O!Journeys
  <2>3. /\ tab' = [tab EXCEPT ![t] = r] /\ UNCHANGED <<session, trip, rounds>>
        /\ spent' = spent \cup {j.round}
    BY <1>7 DEF O!CallbackSucceeds, O!Cleared
  <2> HIDE DEF r
  <2>4. InTime(r, trip)
    BY <1>2, <1>3, <2>2 DEF InTime
  <2> HIDE DEF j
  <2> QED
    BY <1>4, <2>1, <2>3, <2>4, TabGoes
<1> QED
  BY <1>5, <1>6, <1>7 DEF O!Callback

LEMMA DeliverStep ==
  ASSUME O!TypeOK, O!TripInv, NEW t \in Tabs, O!Deliver(t)
  PROVE  O!TypeOK' /\ O!TripInv'
<1> DEFINE j == tab[t]
           on == [j EXCEPT !.at = j.next]
           end == [at |-> "landed", overtaken |-> j.overtaken, done |-> j.done]
<1>1. j.at = "sent" /\ j.next # "callback"
  BY DEF O!Deliver
<1>2. j \in O!Journeys /\ InTime(j, trip) /\ MaxRounds \in Nat
  BY <1>1, UnderWay, TripParts, ConsoleAssumption
<1>3. /\ tab' = [u \in Tabs |->
           IF u = t THEN IF j.next = "idle" THEN end ELSE on
           ELSE IF tab[u] # O!Idle /\ (session' # session \/ trip' # trip)
                THEN [tab[u] EXCEPT !.overtaken = TRUE] ELSE tab[u]]
      /\ trip' = IF j.trip = O!Keep THEN trip ELSE j.trip
      /\ session' = IF j.session = "keep" THEN session ELSE j.session
      /\ UNCHANGED <<rounds, spent>>
  BY DEF O!Deliver
<1>4. end \in O!Landed
  <2> HIDE DEF j
  <2> QED
    BY <1>2 DEF O!Journeys, O!Landed
<1>5. j.next # "idle" =>
        /\ on \in O!Journeys /\ on.at = j.next /\ on.at # "sent" /\ on.overtaken = j.overtaken
        /\ on.refused = j.refused /\ on.round = j.round
  <2> HIDE DEF j
  <2> QED
    BY <1>1, <1>2 DEF O!Journeys
<1>6. session' \in O!Sessions /\ trip' \in 0..MaxRounds
  <2> HIDE DEF j
  <2> QED
    BY <1>2, <1>3 DEF O!TypeOK, O!Journeys
<1>7. ASSUME NEW u \in Tabs, tab[u] # O!Idle
      PROVE  /\ [tab[u] EXCEPT !.overtaken = TRUE] \in O!Journeys \cup O!Landed
             /\ [tab[u] EXCEPT !.overtaken = TRUE].overtaken
  <2>1. tab[u] \in O!Journeys \cup O!Landed
    BY <1>7 DEF O!TypeOK
  <2>2. CASE tab[u] \in O!Journeys
    BY <2>2 DEF O!Journeys
  <2>3. CASE tab[u] \in O!Landed
    BY <2>3 DEF O!Landed
  <2> QED
    BY <2>1, <2>2, <2>3
<1>8. j.next # "idle" => InTime(on, trip')
  <2>1. j.next = "provider" /\ ~j.overtaken => trip' = j.round
    BY <1>1, <1>2, <1>3 DEF InTime, O!Journeys, O!Rounds, O!Keep
  <2> HIDE DEF j, on
  <2> QED
    BY <1>1, <1>2, <1>5, <2>1 DEF InTime, O!Returning
<1> HIDE DEF j, on, end
<1>9. O!TypeOK'
  BY <1>3, <1>4, <1>5, <1>6, <1>7 DEF O!TypeOK
<1>10. \A u \in Tabs : InTime(tab'[u], trip')
  <2> SUFFICES ASSUME NEW u \in Tabs PROVE InTime(tab'[u], trip')
    OBVIOUS
  <2>1. CASE u = t
    <3>1. CASE j.next = "idle"
      BY <1>3, <1>4, <2>1, <3>1, Rests DEF InTime
    <3>2. CASE j.next # "idle"
      BY <1>3, <1>8, <2>1, <3>2
    <3> QED
      BY <3>1, <3>2
  <2>2. CASE u # t /\ tab[u] # O!Idle /\ (session' # session \/ trip' # trip)
    BY <1>3, <1>7, <2>2 DEF InTime
  <2>3. CASE u # t /\ ~(tab[u] # O!Idle /\ (session' # session \/ trip' # trip))
    BY <1>3, <2>3, Rests, TripParts DEF InTime
  <2> QED
    BY <2>1, <2>2, <2>3
<1> QED
  BY <1>9, <1>10 DEF O!TripInv, InTime

\* What the tab does by itself.
LEMMA TabStep ==
  ASSUME O!TypeOK, O!TripInv, NEW t \in Tabs,
         O!BeginLogin(t) \/ O!Authenticate(t) \/ O!Home(t) \/ O!LoginGet(t) \/ O!Reload(t)
  PROVE  O!TypeOK' /\ O!TripInv'
<1> DEFINE j == tab[t]
<1>1. /\ MaxRounds \in Nat /\ rounds \in 0..MaxRounds /\ spent \subseteq O!Rounds
      /\ InTime(j, trip) /\ session \in O!Sessions
  BY ConsoleAssumption, TripParts DEF O!TypeOK
<1>2. ASSUME O!BeginLogin(t) PROVE O!TypeOK' /\ O!TripInv'
  <2> DEFINE r == [at |-> "sent", round |-> rounds + 1, cross |-> FALSE,
               overtaken |-> FALSE, session |-> "keep", trip |-> rounds + 1,
               next |-> "provider", refused |-> FALSE, done |-> FALSE]
  <2>1. /\ tab' = [tab EXCEPT ![t] = r] /\ rounds' = rounds + 1 /\ rounds < MaxRounds
        /\ UNCHANGED <<session, trip, spent>>
    BY <1>2 DEF O!BeginLogin
  <2>2. r \in O!Journeys
    BY <1>1, <2>1 DEF O!Journeys, O!Rounds
  <2>3. InTime(r, trip)
    BY <1>1 DEF InTime, O!Returning, O!Cleared
  <2>4. rounds' \in 0..MaxRounds /\ spent' \subseteq O!Rounds
    BY <1>1, <2>1
  <2> HIDE DEF r, j
  <2> QED
    BY <2>1, <2>2, <2>3, <2>4, TabGoes
<1>3. ASSUME O!Authenticate(t) PROVE O!TypeOK' /\ O!TripInv'
  <2>1. PICK cross \in BOOLEAN :
          tab' = [tab EXCEPT ![t].at = "sent", ![t].cross = cross, ![t].session = "keep",
                             ![t].trip = O!Keep, ![t].next = "callback"]
    BY <1>3 DEF O!Authenticate
  <2>2. j \in O!Journeys /\ j.at = "provider" /\ UNCHANGED <<session, trip, rounds, spent>>
    BY <1>3, UnderWay DEF O!Authenticate
  <2> DEFINE r == [j EXCEPT !.at = "sent", !.cross = cross, !.session = "keep",
                            !.trip = O!Keep, !.next = "callback"]
  <2>3. tab' = [tab EXCEPT ![t] = r]
    BY <2>1 DEF O!TypeOK
  <2>4. /\ r \in O!Journeys /\ r.overtaken = j.overtaken /\ r.refused = j.refused
        /\ r.round = j.round /\ r.next = "callback"
    <3> HIDE DEF j
    <3> QED
      BY <2>2 DEF O!Journeys
  <2> HIDE DEF r, j
  <2>5. InTime(r, trip)
    BY <1>1, <2>2, <2>4 DEF InTime, O!Returning
  <2> QED
    BY <1>1, <2>2, <2>3, <2>4, <2>5, TabGoes
<1>4. ASSUME O!Home(t) PROVE O!TypeOK' /\ O!TripInv'
  <2>1. PICK s \in O!Sessions \cup {"keep"}, next \in {"login", "home", "idle"} :
          O!Answer(t, s, O!Keep, next)
    BY <1>4 DEF O!Home, O!Sessions
  <2>2. j.at = "home" /\ UNCHANGED <<session, trip, rounds, spent>> /\ O!Keep # 0
    BY <1>4 DEF O!Home, O!Keep
  <2> QED
    BY <1>1, <2>1, <2>2, AnswerGoes
<1>5. ASSUME O!LoginGet(t) PROVE O!TypeOK' /\ O!TripInv'
  <2>1. /\ O!Answer(t, O!Saved(O!SessionSent(t)), O!Keep, "idle")
        /\ j.at = "login" /\ UNCHANGED <<session, trip, rounds, spent>> /\ O!Keep # 0
    BY <1>5 DEF O!LoginGet, O!Keep
  <2>2. O!Saved(O!SessionSent(t)) \in O!Sessions
    BY DEF O!Saved, O!Sessions
  <2> QED
    BY <1>1, <2>1, <2>2, AnswerGoes
<1>6. ASSUME O!Reload(t) PROVE O!TypeOK' /\ O!TripInv'
  <2> DEFINE r == [j EXCEPT !.session = "keep", !.trip = O!Keep, !.next = "callback",
                            !.done = FALSE]
  <2>1. /\ tab' = [tab EXCEPT ![t] = r] /\ j.at = "sent" /\ j.trip = O!Cleared
        /\ UNCHANGED <<session, trip, rounds, spent>>
    BY <1>6 DEF O!Reload
  <2>2. j \in O!Journeys
    BY <2>1, UnderWay
  <2>3. /\ r \in O!Journeys /\ r.overtaken = j.overtaken /\ r.refused = j.refused
        /\ r.round = j.round /\ r.next = "callback"
    <3> HIDE DEF j
    <3> QED
      BY <2>2 DEF O!Journeys
  <2> HIDE DEF r, j
  <2>4. InTime(r, trip)
    BY <1>1, <2>1, <2>2, <2>3 DEF InTime, O!Returning
  <2> QED
    BY <1>1, <2>1, <2>3, <2>4, TabGoes
<1> QED
  BY <1>2, <1>3, <1>4, <1>5, <1>6

\* What happens to all tabs at a time, and the end of one.
LEMMA BrowserStep ==
  ASSUME O!TypeOK, O!TripInv,
         O!SessionMoves \/ O!RoundTripEnds \/ (\E t \in Tabs : O!Close(t)) \/ UNCHANGED O!vars
  PROVE  O!TypeOK' /\ O!TripInv'
<1>1. ASSUME tab' = O!Overtaking, session' \in O!Sessions, trip' \in 0..MaxRounds,
             UNCHANGED <<rounds, spent>>
      PROVE  O!TypeOK' /\ O!TripInv'
  <2>1. ASSUME NEW u \in Tabs
        PROVE  tab'[u] = O!Idle \/ (tab'[u] \in O!Journeys \cup O!Landed /\ tab'[u].overtaken)
    <3>1. tab'[u] = IF tab[u] = O!Idle THEN O!Idle ELSE [tab[u] EXCEPT !.overtaken = TRUE]
      BY <1>1 DEF O!Overtaking
    <3>2. CASE tab[u] \in O!Journeys
      BY <3>1, <3>2 DEF O!Journeys
    <3>3. CASE tab[u] \in O!Landed
      BY <3>1, <3>3 DEF O!Landed
    <3> QED
      BY <3>1, <3>2, <3>3 DEF O!TypeOK
  <2>2. O!TypeOK'
    <3>1. tab' = [u \in Tabs |-> tab'[u]]
      BY <1>1 DEF O!Overtaking
    <3> QED
      BY <1>1, <2>1, <3>1 DEF O!TypeOK
  <2> QED
    BY <2>1, <2>2, Rests DEF O!TripInv
<1>2. ASSUME O!SessionMoves \/ O!RoundTripEnds PROVE O!TypeOK' /\ O!TripInv'
  BY <1>1, <1>2, ConsoleAssumption DEF O!SessionMoves, O!RoundTripEnds, O!TypeOK
<1>3. ASSUME NEW t \in Tabs, O!Close(t) PROVE O!TypeOK' /\ O!TripInv'
  BY <1>3, Rests DEF O!Close, O!TypeOK, O!TripInv
<1>4. CASE UNCHANGED O!vars
  BY <1>4 DEF O!vars, O!TypeOK, O!TripInv
<1> QED
  BY <1>2, <1>3, <1>4

\* The inductive invariant of the round trips.
THEOREM TripInvariant == O!Spec => [](O!TypeOK /\ O!TripInv)
<1>1. O!Init => O!TypeOK /\ O!TripInv
  BY Rests, ConsoleAssumption DEF O!Init, O!TypeOK, O!TripInv, O!Sessions
<1>2. O!TypeOK /\ O!TripInv /\ [O!Next]_O!vars => (O!TypeOK /\ O!TripInv)'
  BY CallbackStep, DeliverStep, TabStep, BrowserStep DEF O!Next
<1> QED
  BY <1>1, <1>2, PTL DEF O!Spec

-----------------------------------------------------------------------------
(* The limiters *)

\* The least element of a set of numbers, which stands in for induction.
LEMMA Least ==
  ASSUME NEW S \in SUBSET Nat, S # {}
  PROVE  \E n \in S : \A m \in S : n <= m
<1> DEFINE R == OpToRel(<, Nat)
<1>1. \E n \in S : \A m \in S : <<m, n>> \notin R
  BY NatLessThanWellFounded, WFMin
<1>2. \A m, n \in Nat : <<m, n>> \in R <=> m < n
  BY DEF OpToRel
<1> HIDE DEF R
<1>3. PICK n \in S : \A m \in S : <<m, n>> \notin R
  BY <1>1
<1>4. ASSUME NEW m \in S PROVE n <= m
  <2>1. m \in Nat /\ n \in Nat
    OBVIOUS
  <2>2. ~(m < n)
    BY <1>2, <1>3, <2>1
  <2> QED
    BY <2>1, <2>2
<1> QED
  BY <1>4

\* What the loop of clean has kept of the first i.
Kept(v, s, w, n) ==
  v = [i \in 0..n |-> IF i = 0 THEN <<>>
                      ELSE IF s[i] < w THEN Append(v[i - 1], s[i]) ELSE v[i - 1]]

LEMMA CleanLoop ==
  ASSUME NEW s \in Seq(Int), NEW w \in Int
  PROVE  \E v : Kept(v, s, w, Len(s)) /\ L!Clean(s, w) = v[Len(s)]
<1> DEFINE S == {n \in Nat : \A v : ~Kept(v, s, w, n)}
<1>1. S = {}
  <2> SUFFICES ASSUME S # {} PROVE FALSE
    OBVIOUS
  <2>1. PICK n \in S : \A m \in S : n <= m
    BY Least
  <2>2. n # 0
    <3> DEFINE v == [i \in 0..0 |-> <<>>]
    <3>1. Kept(v, s, w, 0)
      BY DEF Kept
    <3> QED
      BY <3>1
  <2>3. PICK v : Kept(v, s, w, n - 1)
    BY <2>1, <2>2
  <2> DEFINE step == IF s[n] < w THEN Append(v[n - 1], s[n]) ELSE v[n - 1]
             u == [i \in 0..n |-> IF i = n THEN step ELSE v[i]]
  <2>4. n \in Nat /\ \A i \in 0..(n - 1) : i # n /\ i \in 0..n /\ u[i] = v[i]
    BY <2>2
  <2>5. ASSUME NEW i \in 0..n
        PROVE  u[i] = IF i = 0 THEN <<>>
                      ELSE IF s[i] < w THEN Append(u[i - 1], s[i]) ELSE u[i - 1]
    <3>1. CASE i = n
      <4>1. u[i] = step /\ u[i - 1] = v[n - 1]
        BY <2>2, <2>4, <3>1
      <4> QED
        BY <2>2, <3>1, <4>1
    <3>2. CASE i # n
      <4>1. i \in 0..(n - 1) /\ u[i] = v[i] /\ (i # 0 => u[i - 1] = v[i - 1])
        BY <2>4, <3>2
      <4> QED
        BY <2>3, <4>1 DEF Kept
    <3> QED
      BY <3>1, <3>2
  <2>6. u = [i \in 0..n |-> u[i]]
    OBVIOUS
  <2> HIDE DEF u
  <2>7. Kept(u, s, w, n)
    BY <2>5, <2>6 DEF Kept
  <2> QED
    BY <2>1, <2>7
<1>2. PICK u : Kept(u, s, w, Len(s))
  <2>1. Len(s) \in Nat
    OBVIOUS
  <2> QED
    BY <1>1, <2>1
<1> DEFINE v == CHOOSE v : Kept(v, s, w, Len(s))
<1>3. Kept(v, s, w, Len(s))
  BY <1>2
<1>4. L!Clean(s, w) = v[Len(s)]
  BY DEF L!Clean, Kept
<1> QED
  BY <1>3, <1>4

\* What is kept is of the first n in their order, and as many as are in the window.
Young(s, w, n) == {k \in 1..n : s[k] < w}

KeptRight(c, s, w, n) ==
  /\ c \in Seq(Int) /\ Len(c) = Cardinality(Young(s, w, n))
  /\ \A j \in 1..Len(c) : c[j] < w /\ \E k \in 1..n : c[j] = s[k]
  /\ L!OldestFirst(s) => L!OldestFirst(c)

LEMMA YoungFinite ==
  ASSUME NEW s \in Seq(Int), NEW w \in Int, NEW n \in Nat
  PROVE  /\ IsFiniteSet(Young(s, w, n)) /\ Cardinality(Young(s, w, n)) \in Nat
         /\ Cardinality(Young(s, w, n)) <= n
         /\ Cardinality(Young(s, w, n)) = n => Young(s, w, n) = 1..n
<1>1. IsFiniteSet(1..n) /\ Cardinality(1..n) = n
  BY FS_Interval
<1>2. Young(s, w, n) \subseteq 1..n
  BY DEF Young
<1> QED
  BY <1>1, <1>2, FS_Subset, FS_CardinalityType

LEMMA LoopKeeps ==
  ASSUME NEW s \in Seq(Int), NEW w \in Int, NEW v, Kept(v, s, w, Len(s))
  PROVE  KeptRight(v[Len(s)], s, w, Len(s))
<1> DEFINE S == {n \in 0..Len(s) : ~KeptRight(v[n], s, w, n)}
<1>1. S = {}
  <2> SUFFICES ASSUME S # {} PROVE FALSE
    OBVIOUS
  <2>1. PICK n \in S : \A m \in S : n <= m
    <3>1. S \in SUBSET Nat
      OBVIOUS
    <3> QED
      BY <3>1, Least
  <2>2. n \in 0..Len(s) /\ ~KeptRight(v[n], s, w, n)
    OBVIOUS
  <2>3. n # 0
    <3>1. v[0] = <<>> /\ Young(s, w, 0) = {} /\ Cardinality({}) = 0
      BY FS_EmptySet DEF Kept, Young
    <3>2. /\ <<>> \in Seq(Int) /\ Len(<<>>) = 0
          /\ \A j \in 1..0 : FALSE
          /\ L!OldestFirst(<<>>)
      BY DEF L!OldestFirst
    <3>3. KeptRight(<<>>, s, w, 0)
      BY <3>1, <3>2 DEF KeptRight
    <3> QED
      BY <2>2, <3>1, <3>3
  <2> DEFINE c == v[n - 1]
  <2>4. KeptRight(c, s, w, n - 1)
    <3>1. n - 1 \in 0..Len(s) /\ n - 1 \notin S
      BY <2>1, <2>2, <2>3
    <3> QED
      BY <3>1
  <2>5. v[n] = IF s[n] < w THEN Append(c, s[n]) ELSE c
    BY <2>2, <2>3 DEF Kept
  <2>6. s[n] \in Int /\ n \in 1..Len(s)
    BY <2>2, <2>3
  <2> HIDE DEF S, c
  <2>7. CASE s[n] < w
    <3>1. Young(s, w, n) = Young(s, w, n - 1) \cup {n} /\ n \notin Young(s, w, n - 1)
      BY <2>6, <2>7 DEF Young
    <3>2. Cardinality(Young(s, w, n)) = Cardinality(Young(s, w, n - 1)) + 1
      <4>1. n - 1 \in Nat
        BY <2>6
      <4>2. IsFiniteSet(Young(s, w, n - 1))
        BY <4>1, YoungFinite
      <4> QED
        BY <3>1, <4>2, FS_AddElement
    <3> DEFINE d == Append(c, s[n])
    <3>3. c \in Seq(Int) /\ Len(c) \in Nat
      BY <2>4 DEF KeptRight
    <3>4. /\ d \in Seq(Int) /\ Len(d) = Len(c) + 1
          /\ \A j \in 1..Len(c) : d[j] = c[j]
          /\ d[Len(c) + 1] = s[n]
      BY <2>6, <3>3
    <3> HIDE DEF d
    <3>5. \A j \in 1..Len(d) : j \in 1..Len(c) \/ j = Len(c) + 1
      BY <3>3, <3>4
    <3>6. \A j \in 1..Len(d) : d[j] < w /\ \E k \in 1..n : d[j] = s[k]
      <4> SUFFICES ASSUME NEW j \in 1..Len(d)
                   PROVE  d[j] < w /\ \E k \in 1..n : d[j] = s[k]
        OBVIOUS
      <4>1. CASE j \in 1..Len(c)
        <5>1. PICK k \in 1..(n - 1) : c[j] = s[k]
          BY <2>4, <4>1 DEF KeptRight
        <5>2. c[j] < w
          BY <2>4, <4>1 DEF KeptRight
        <5> QED
          BY <2>6, <3>4, <4>1, <5>1, <5>2
      <4>2. CASE j = Len(c) + 1
        BY <2>6, <2>7, <3>4, <4>2
      <4> QED
        BY <3>5, <4>1, <4>2
    <3>7. L!OldestFirst(s) => L!OldestFirst(d)
      <4> SUFFICES ASSUME L!OldestFirst(s), NEW i \in 1..Len(d), NEW j \in 1..Len(d), i < j
                   PROVE  d[i] >= d[j]
        BY <3>4 DEF L!OldestFirst
      <4>1. i \in 1..Len(c)
        BY <3>3, <3>4
      <4>2. CASE j \in 1..Len(c)
        <5>1. L!OldestFirst(c)
          BY <2>4 DEF KeptRight
        <5>2. \A k, l \in 1..Len(c) : k < l => c[k] >= c[l]
          BY <3>3, <5>1 DEF L!OldestFirst
        <5> QED
          BY <3>4, <4>1, <4>2, <5>2
      <4>3. CASE j = Len(c) + 1
        <5>1. PICK k \in 1..(n - 1) : c[i] = s[k]
          BY <2>4, <4>1 DEF KeptRight
        <5>2. k \in 1..Len(s) /\ k < n
          BY <2>6
        <5>3. s[k] >= s[n]
          BY <2>6, <5>2 DEF L!OldestFirst
        <5> QED
          BY <3>4, <4>1, <4>3, <5>1, <5>3
      <4> QED
        BY <3>5, <4>2, <4>3
    <3>8. Len(d) = Cardinality(Young(s, w, n))
      BY <2>4, <3>2, <3>4 DEF KeptRight
    <3> QED
      BY <2>2, <2>5, <2>7, <3>4, <3>6, <3>7, <3>8 DEF KeptRight, d
  <2>8. CASE ~(s[n] < w)
    <3>1. Young(s, w, n) = Young(s, w, n - 1)
      BY <2>6, <2>8 DEF Young
    <3>2. \A j \in 1..Len(c) : \E k \in 1..n : c[j] = s[k]
      <4> SUFFICES ASSUME NEW j \in 1..Len(c) PROVE \E k \in 1..n : c[j] = s[k]
        OBVIOUS
      <4>1. PICK k \in 1..(n - 1) : c[j] = s[k]
        BY <2>4 DEF KeptRight
      <4>2. k \in 1..n
        BY <2>6
      <4> QED
        BY <4>1, <4>2
    <3> QED
      BY <2>2, <2>4, <2>5, <2>8, <3>1, <3>2 DEF KeptRight
  <2> QED
    BY <2>7, <2>8
<1>2. Len(s) \in 0..Len(s)
  OBVIOUS
<1> QED
  BY <1>1, <1>2

\* What clean keeps.
LEMMA CleanKeeps ==
  ASSUME NEW s \in Seq(Int), NEW w \in Int
  PROVE  KeptRight(L!Clean(s, w), s, w, Len(s))
  BY CleanLoop, LoopKeeps

\* The attempts of a limiter with a window of w.
Ages(s, w) == s \in Seq(0..w) /\ L!OldestFirst(s)

LEMMA CleanAges ==
  ASSUME NEW w \in Nat, NEW s, Ages(s, w)
  PROVE  /\ Ages(L!Clean(s, w), w) /\ Len(L!Clean(s, w)) <= Len(s)
         /\ \A j \in 1..Len(L!Clean(s, w)) : L!Clean(s, w)[j] < w
<1> DEFINE c == L!Clean(s, w)
<1>1. s \in Seq(Int) /\ s \in Seq(0..w) /\ L!OldestFirst(s) /\ Len(s) \in Nat
  BY DEF Ages
<1>2. KeptRight(c, s, w, Len(s))
  BY <1>1, CleanKeeps
<1> HIDE DEF c
<1>3. ASSUME NEW j \in 1..Len(c) PROVE c[j] \in 0..w
  <2>1. PICK k \in 1..Len(s) : c[j] = s[k]
    BY <1>2 DEF KeptRight
  <2> QED
    BY <1>1, <2>1
<1>4. c \in Seq(0..w)
  BY <1>2, <1>3 DEF KeptRight
<1>5. Len(c) <= Len(s)
  BY <1>1, <1>2, YoungFinite DEF KeptRight
<1> QED
  BY <1>1, <1>2, <1>4, <1>5 DEF KeptRight, Ages, c

\* One more attempt, now.
LEMMA RecordAges ==
  ASSUME NEW w \in Nat, NEW s, Ages(s, w)
  PROVE  Ages(Append(s, 0), w) /\ Len(Append(s, 0)) = Len(s) + 1
<1> DEFINE d == Append(s, 0)
<1>1. s \in Seq(0..w) /\ Len(s) \in Nat /\ \A i, j \in 1..Len(s) : i < j => s[i] >= s[j]
  BY DEF Ages, L!OldestFirst
<1>2. /\ d \in Seq(0..w) /\ Len(d) = Len(s) + 1 /\ d[Len(s) + 1] = 0
      /\ \A i \in 1..Len(s) : d[i] = s[i]
  BY <1>1
<1> HIDE DEF d
<1>3. ASSUME NEW i \in 1..Len(d), NEW j \in 1..Len(d), i < j PROVE d[i] >= d[j]
  <2>1. i \in 1..Len(s) /\ d[i] \in 0..w
    BY <1>1, <1>2, <1>3
  <2>2. CASE j = Len(s) + 1
    BY <1>2, <2>1, <2>2
  <2>3. CASE j # Len(s) + 1
    <3>1. j \in 1..Len(s)
      BY <1>1, <1>2, <2>3
    <3> QED
      BY <1>1, <1>2, <1>3, <2>1, <3>1
  <2> QED
    BY <2>2, <2>3
<1>4. L!OldestFirst(d)
  BY <1>2, <1>3 DEF L!OldestFirst
<1> QED
  BY <1>2, <1>4 DEF Ages, d

\* A unit of time keeps the order, and rejuvenates nothing.
LEMMA OlderAges ==
  ASSUME NEW w \in Nat, NEW s, Ages(s, w)
  PROVE  /\ Ages(L!Older(s, w), w) /\ Len(L!Older(s, w)) = Len(s)
         /\ Len(L!Clean(L!Older(s, w), w)) <= Len(L!Clean(s, w))
<1> DEFINE o == L!Older(s, w)
<1>1. s \in Seq(0..w) /\ s \in Seq(Int) /\ Len(s) \in Nat /\ DOMAIN s = 1..Len(s)
      /\ \A i, j \in 1..Len(s) : i < j => s[i] >= s[j]
  BY DEF Ages, L!OldestFirst
<1>2. o = [i \in 1..Len(s) |-> IF s[i] < w THEN s[i] + 1 ELSE w]
  BY <1>1 DEF L!Older
<1>3. \A i \in 1..Len(s) : s[i] \in 0..w /\ o[i] \in 0..w /\ o[i] = IF s[i] < w THEN s[i] + 1 ELSE w
  BY <1>1, <1>2
<1>4. o \in Seq(0..w) /\ Len(o) = Len(s)
  BY <1>1, <1>2, <1>3
<1> HIDE DEF o
<1>5. o \in Seq(Int)
  BY <1>4
<1>6. L!OldestFirst(o)
  <2>1. DOMAIN o = 1..Len(s)
    BY <1>4
  <2>2. ASSUME NEW i \in 1..Len(s), NEW j \in 1..Len(s), i < j PROVE o[i] >= o[j]
    <3>1. s[i] >= s[j]
      BY <1>1, <2>2
    <3> QED
      BY <1>3, <3>1
  <2> QED
    BY <2>1, <2>2 DEF L!OldestFirst
<1>7. Young(o, w, Len(o)) \subseteq Young(s, w, Len(s))
  BY <1>3, <1>4 DEF Young
<1>8. Cardinality(Young(o, w, Len(o))) <= Cardinality(Young(s, w, Len(s)))
  BY <1>1, <1>7, YoungFinite, FS_Subset
<1>9. Len(L!Clean(o, w)) <= Len(L!Clean(s, w))
  BY <1>1, <1>5, <1>8, CleanKeeps DEF KeptRight
<1> QED
  BY <1>4, <1>6, <1>9 DEF Ages, o

\* The types of the limiters, by their parts.
LimitTypes ==
  /\ Ages(attempts, LimitWindow) /\ Ages(resets, ResetLimitWindow)
  /\ verifying \subseteq Workers

LEMMA LimitParts == L!TypeOK <=> LimitTypes
  BY DEF L!TypeOK, LimitTypes, Ages

\* The instance counts with the operators of its own instance of FiniteSets.
LEMMA SameSize ==
  \A S : (L!IsFiniteSet(S) <=> IsFiniteSet(S)) /\ L!Cardinality(S) = Cardinality(S)
  BY DEF L!Cardinality, Cardinality, L!IsFiniteSet, IsFiniteSet

LEMMA Limits ==
  /\ LimitCount \in Nat /\ LimitCount >= 1 /\ LimitWindow \in Nat
  /\ ResetLimitCount \in Nat /\ ResetLimitCount >= 1 /\ ResetLimitWindow \in Nat
  /\ IsFiniteSet(Workers)
  BY ConsoleAssumption, SameSize DEF L!LimitsOK

LEMMA NoAges ==
  ASSUME NEW w \in Nat
  PROVE  Ages(<<>>, w) /\ Len(<<>>) = 0 /\ Len(L!Clean(<<>>, w)) = 0
<1>1. Ages(<<>>, w) /\ Len(<<>>) = 0
  BY DEF Ages, L!OldestFirst
<1>2. Len(L!Clean(<<>>, w)) <= 0 /\ L!Clean(<<>>, w) \in Seq(0..w)
  BY <1>1, CleanAges DEF Ages
<1> QED
  BY <1>1, <1>2

LEMMA LimitInit == L!Init => L!TypeOK /\ L!FailuresBounded /\ L!ResetsBounded
<1> SUFFICES ASSUME L!Init PROVE L!TypeOK /\ L!FailuresBounded /\ L!ResetsBounded
  OBVIOUS
<1>1. attempts = <<>> /\ resets = <<>> /\ verifying = {}
  BY DEF L!Init
<1>2. LimitTypes
  BY <1>1, Limits, NoAges DEF LimitTypes
<1>3. Len(L!Fresh) = 0
  BY <1>1, Limits, NoAges DEF L!Fresh
<1>4. Cardinality(verifying) = 0 /\ Cardinality(Workers) \in Nat
  BY <1>1, Limits, FS_EmptySet, FS_CardinalityType
<1>5. L!FailuresBounded
  BY <1>3, <1>4, Limits, SameSize DEF L!FailuresBounded
<1>6. L!ResetsBounded
  BY <1>1, Limits, NoAges DEF L!ResetsBounded
<1> QED
  BY <1>2, <1>5, <1>6, LimitParts

\* The attempts of an address and the logins that passed IsBlocked go on together.
LEMMA LoginBounded ==
  ASSUME L!TypeOK, L!FailuresBounded, Ages(attempts', LimitWindow), verifying' \subseteq Workers,
         \/ /\ Len(L!Clean(attempts', LimitWindow)) <= Len(L!Fresh)
            /\ verifying' \subseteq verifying
         \/ /\ Len(L!Clean(attempts', LimitWindow)) <= Len(L!Fresh) + 1
            /\ \E w \in verifying : verifying' = verifying \ {w}
         \/ Len(L!Clean(attempts', LimitWindow)) < LimitCount
  PROVE  L!FailuresBounded'
<1>1. /\ IsFiniteSet(verifying) /\ IsFiniteSet(verifying') /\ Cardinality(Workers) \in Nat
      /\ Cardinality(verifying) \in Nat /\ Cardinality(verifying') \in Nat
      /\ Cardinality(verifying') <= Cardinality(Workers)
  BY Limits, LimitParts, FS_Subset, FS_CardinalityType DEF LimitTypes
<1>2. L!Fresh' = L!Clean(attempts', LimitWindow)
  BY DEF L!Fresh
<1>3. Len(L!Fresh) \in Nat /\ Len(L!Fresh') \in Nat
  BY <1>2, Limits, LimitParts, CleanAges DEF L!Fresh, Ages, LimitTypes
<1>4. verifying' \subseteq verifying => Cardinality(verifying') <= Cardinality(verifying)
  BY <1>1, FS_Subset
<1>5. ASSUME NEW w \in verifying, verifying' = verifying \ {w}
      PROVE  Cardinality(verifying') = Cardinality(verifying) - 1
  BY <1>1, <1>5, FS_RemoveElement
<1> QED
  BY <1>1, <1>2, <1>3, <1>4, <1>5, Limits, SameSize DEF L!FailuresBounded

LEMMA LimitStep ==
  L!TypeOK /\ L!FailuresBounded /\ L!ResetsBounded /\ [L!Next]_L!vars
    => (L!TypeOK /\ L!FailuresBounded /\ L!ResetsBounded)'
<1> SUFFICES ASSUME L!TypeOK, L!FailuresBounded, L!ResetsBounded, [L!Next]_L!vars
             PROVE  (L!TypeOK /\ L!FailuresBounded /\ L!ResetsBounded)'
  OBVIOUS
<1>1. LimitTypes
  BY LimitParts
<1>2. /\ Ages(L!Fresh, LimitWindow) /\ Len(L!Fresh) \in Nat
      /\ Len(L!Clean(L!Fresh, LimitWindow)) <= Len(L!Fresh)
      /\ Len(L!Clean(L!Fresh, LimitWindow)) \in Nat
  BY <1>1, Limits, CleanAges DEF LimitTypes, L!Fresh, Ages
<1>3. ASSUME UNCHANGED resets, Ages(attempts', LimitWindow), verifying' \subseteq Workers,
             \/ /\ Len(L!Clean(attempts', LimitWindow)) <= Len(L!Fresh)
                /\ verifying' \subseteq verifying
             \/ /\ Len(L!Clean(attempts', LimitWindow)) <= Len(L!Fresh) + 1
                /\ \E w \in verifying : verifying' = verifying \ {w}
             \/ Len(L!Clean(attempts', LimitWindow)) < LimitCount
      PROVE  (L!TypeOK /\ L!FailuresBounded /\ L!ResetsBounded)'
  <2>1. LimitTypes'
    BY <1>1, <1>3 DEF LimitTypes
  <2>2. L!FailuresBounded'
    BY <1>3, LoginBounded
  <2> QED
    BY <1>3, <2>1, <2>2, LimitParts DEF L!ResetsBounded, LimitTypes, L!TypeOK, Ages
<1>4. ASSUME NEW w \in Workers, L!LoginPost(w)
      PROVE  (L!TypeOK /\ L!FailuresBounded /\ L!ResetsBounded)'
  <2>1. attempts' = L!Fresh /\ UNCHANGED resets
    BY <1>4 DEF L!LoginPost
  <2>2. CASE L!IsBlocked
    BY <1>1, <1>2, <1>3, <1>4, <2>1, <2>2 DEF L!LoginPost, LimitTypes
  <2>3. CASE ~L!IsBlocked
    <3>1. Len(L!Fresh) < LimitCount
      BY <1>2, <2>3, Limits DEF L!IsBlocked
    <3>2. Len(L!Clean(attempts', LimitWindow)) < LimitCount
      BY <1>2, <2>1, <3>1, Limits
    <3> QED
      BY <1>1, <1>2, <1>3, <1>4, <2>1, <2>3, <3>2 DEF L!LoginPost, LimitTypes
  <2> QED
    BY <2>2, <2>3
<1>5. ASSUME NEW w \in Workers, L!Register(w)
      PROVE  (L!TypeOK /\ L!FailuresBounded /\ L!ResetsBounded)'
  <2>1. /\ attempts' = Append(L!Fresh, 0) /\ UNCHANGED resets
        /\ w \in verifying /\ verifying' = verifying \ {w}
    BY <1>5 DEF L!Register
  <2>2. Ages(attempts', LimitWindow) /\ Len(attempts') = Len(L!Fresh) + 1
    BY <1>2, <2>1, Limits, RecordAges
  <2>3. Len(L!Clean(attempts', LimitWindow)) <= Len(L!Fresh) + 1
    BY <2>2, Limits, CleanAges
  <2> QED
    BY <1>1, <1>3, <2>1, <2>2, <2>3 DEF LimitTypes
<1>6. Ages(<<>>, LimitWindow) /\ Len(L!Clean(<<>>, LimitWindow)) < LimitCount
  BY Limits, NoAges
<1>7. ASSUME NEW w \in Workers, L!Clear(w) \/ L!Uncounted(w) \/ L!ClearedElsewhere
      PROVE  (L!TypeOK /\ L!FailuresBounded /\ L!ResetsBounded)'
  <2>1. /\ UNCHANGED resets /\ verifying' \subseteq verifying
        /\ attempts' = <<>> \/ attempts' = attempts
    BY <1>7 DEF L!Clear, L!Uncounted, L!ClearedElsewhere
  <2> QED
    BY <1>1, <1>2, <1>3, <1>6, <2>1 DEF LimitTypes, L!Fresh
<1>8. ASSUME L!ClearedElsewhere
      PROVE  (L!TypeOK /\ L!FailuresBounded /\ L!ResetsBounded)'
  BY <1>1, <1>3, <1>6, <1>8 DEF LimitTypes, L!ClearedElsewhere
<1>9. ASSUME L!PasswordResetAllowed
      PROVE  (L!TypeOK /\ L!FailuresBounded /\ L!ResetsBounded)'
  <2> DEFINE c == L!Clean(resets, ResetLimitWindow)
  <2>1. UNCHANGED <<attempts, verifying>> /\ resets' = IF L!HasRoom(c) THEN Append(c, 0) ELSE c
    BY <1>9 DEF L!PasswordResetAllowed
  <2>2. Ages(c, ResetLimitWindow) /\ Len(c) <= Len(resets) /\ Len(c) \in Nat /\ Len(resets) \in Nat
    BY <1>1, Limits, CleanAges DEF LimitTypes, Ages
  <2>3. Ages(Append(c, 0), ResetLimitWindow) /\ Len(Append(c, 0)) = Len(c) + 1
    BY <2>2, Limits, RecordAges
  <2>4. L!FailuresBounded'
    BY <2>1 DEF L!FailuresBounded, L!Fresh
  <2> HIDE DEF c
  <2>5. LimitTypes'
    BY <1>1, <2>1, <2>2, <2>3 DEF LimitTypes
  <2>6. L!ResetsBounded'
    BY <2>1, <2>2, <2>3, Limits DEF L!ResetsBounded, L!HasRoom
  <2> QED
    BY <2>4, <2>5, <2>6, LimitParts DEF LimitTypes, L!TypeOK, Ages
<1>10. ASSUME L!Tick
       PROVE  (L!TypeOK /\ L!FailuresBounded /\ L!ResetsBounded)'
  <2>1. /\ attempts' = L!Older(attempts, LimitWindow) /\ UNCHANGED verifying
        /\ resets' = L!Older(resets, ResetLimitWindow)
    BY <1>10 DEF L!Tick
  <2>2. /\ Ages(attempts', LimitWindow) /\ Len(L!Clean(attempts', LimitWindow)) <= Len(L!Fresh)
        /\ Ages(resets', ResetLimitWindow) /\ Len(resets') = Len(resets)
    BY <1>1, <2>1, Limits, OlderAges DEF LimitTypes, L!Fresh
  <2>3. LimitTypes'
    BY <1>1, <2>1, <2>2 DEF LimitTypes
  <2>4. L!FailuresBounded'
    BY <1>1, <2>1, <2>2, LoginBounded DEF LimitTypes
  <2> QED
    BY <2>2, <2>3, <2>4, LimitParts DEF L!ResetsBounded, LimitTypes, L!TypeOK, Ages
<1>11. ASSUME L!Restart
       PROVE  (L!TypeOK /\ L!FailuresBounded /\ L!ResetsBounded)'
  <2>1. attempts' = <<>> /\ resets' = <<>> /\ verifying' = {}
    BY <1>11 DEF L!Restart
  <2>2. LimitTypes'
    BY <2>1, Limits, NoAges DEF LimitTypes
  <2>3. L!FailuresBounded'
    BY <1>6, <2>1, LoginBounded
  <2> QED
    BY <2>1, <2>2, <2>3, LimitParts, Limits, NoAges DEF L!ResetsBounded, LimitTypes, L!TypeOK, Ages
<1>12. CASE UNCHANGED L!vars
  BY <1>12 DEF L!vars, L!TypeOK, L!FailuresBounded, L!Fresh, L!ResetsBounded
<1> QED
  BY <1>4, <1>5, <1>7, <1>8, <1>9, <1>10, <1>11, <1>12 DEF L!Next

\* The inductive invariant of the limiters.
THEOREM LimitInvariant == L!Spec => [](L!TypeOK /\ L!FailuresBounded /\ L!ResetsBounded)
  BY LimitInit, LimitStep, PTL DEF L!Spec

\* An address with exactly as many attempts as block it is blocked until the oldest
\* one ages out.
LEMMA RetryExact == L!TypeOK => L!RetryAfterExact
<1> SUFFICES ASSUME L!TypeOK, L!IsBlocked, Len(L!Fresh) = LimitCount
             PROVE  L!StillBlocked(L!RetryAfter - 1) /\ ~L!StillBlocked(L!RetryAfter)
  BY DEF L!RetryAfterExact
<1> DEFINE s == L!Fresh
<1>1. Ages(s, LimitWindow) /\ \A j \in 1..LimitCount : s[j] < LimitWindow
  BY Limits, LimitParts, CleanAges DEF LimitTypes, L!Fresh
<1>2. s \in Seq(Int) /\ DOMAIN s = 1..LimitCount /\ \A j \in 1..LimitCount : s[j] \in Int
  <2>1. s \in Seq(0..LimitWindow) /\ Len(s) = LimitCount
    BY <1>1 DEF Ages
  <2> HIDE DEF s
  <2>2. s \in Seq(Int) /\ DOMAIN s = 1..LimitCount
    BY <2>1, Limits
  <2> QED
    BY <2>2
<1>3. L!RetryAfter = LimitWindow - s[1] /\ 1 \in 1..LimitCount
  BY <1>2, Limits DEF L!RetryAfter
<1> HIDE DEF s
<1>4. \A j \in 1..LimitCount : s[j] <= s[1]
  BY <1>1, <1>2, <1>3 DEF Ages, L!OldestFirst
<1>5. ASSUME NEW after \in Int
      PROVE  L!StillBlocked(after) <=> Young(s, LimitWindow - after, LimitCount) = 1..LimitCount
  <2> DEFINE y == Young(s, LimitWindow - after, LimitCount)
  <2>1. LimitWindow - after \in Int /\ Len(s) = LimitCount
    BY Limits DEF s
  <2>2. Len(L!Clean(s, LimitWindow - after)) = Cardinality(y)
    BY <1>2, <2>1, CleanKeeps DEF KeptRight
  <2>3. /\ Cardinality(y) \in Nat /\ Cardinality(y) <= LimitCount
        /\ Cardinality(y) = LimitCount => y = 1..LimitCount
    BY <1>2, <2>1, Limits, YoungFinite
  <2>4. y = 1..LimitCount => Cardinality(y) = LimitCount
    BY Limits, FS_Interval
  <2> QED
    BY <2>2, <2>3, <2>4, Limits DEF L!StillBlocked, s
<1>6. L!StillBlocked(L!RetryAfter - 1)
  <2>1. Young(s, LimitWindow - (L!RetryAfter - 1), LimitCount) = 1..LimitCount
    BY <1>2, <1>3, <1>4, Limits DEF Young
  <2> QED
    BY <1>2, <1>3, <1>5, <2>1, Limits
<1>7. ~L!StillBlocked(L!RetryAfter)
  <2>1. 1 \notin Young(s, LimitWindow - L!RetryAfter, LimitCount)
    BY <1>2, <1>3, Limits DEF Young
  <2> QED
    BY <1>2, <1>3, <1>5, <2>1, Limits
<1> QED
  BY <1>6, <1>7

-----------------------------------------------------------------------------
(* The backup *)

LEMMA SameBackupSize ==
  \A S : (B!IsFiniteSet(S) <=> IsFiniteSet(S)) /\ B!Cardinality(S) = Cardinality(S)
  BY DEF B!Cardinality, Cardinality, B!IsFiniteSet, IsFiniteSet

LEMMA Directories ==
  /\ IsFiniteSet(Names) /\ MaxVersion \in Nat
  /\ Dirs \in Seq(B!DirSet) /\ DirOf \in [Names -> B!DirSet] /\ "dump" \notin B!DirSet
  /\ \A i, j \in DOMAIN Dirs : Dirs[i] = Dirs[j] => i = j
  BY ConsoleAssumption, SameBackupSize DEF B!BackupOK, B!DirSet

LEMMA EntriesFinite == IsFiniteSet(B!Entries)
<1>1. IsFiniteSet(Names \X {"crt"}) /\ IsFiniteSet(Names \X {"key"})
  <2>1. ASSUME NEW p PROVE IsFiniteSet(Names \X {p})
    <3> DEFINE f == [n \in Names |-> <<n, p>>]
    <3>1. f \in Surjection(Names, Names \X {p})
      BY DEF Surjection
    <3> QED
      BY <3>1, Directories, FS_Surjection
  <2> QED
    BY <2>1
<1>2. B!Entries = (Names \X {"crt"}) \cup (Names \X {"key"})
  BY DEF B!Entries, B!Pair
<1> QED
  BY <1>1, <1>2, FS_Union

\* What WalkDir goes through is a sequence of what it finds.
LEMMA WalkFinds ==
  ASSUME NEW S \in SUBSET B!Entries
  PROVE  B!Walk(S) \in Seq(S) /\ {B!Walk(S)[i] : i \in DOMAIN B!Walk(S)} = S
<1> DEFINE C == {e \in S : e[2] = "crt"}
           K == {e \in S : e[2] # "crt"}
<1>1. IsFiniteSet(C) /\ IsFiniteSet(K)
  BY EntriesFinite, FS_Subset
<1>2. PICK nc \in Nat : ExistsBijection(1..nc, C)
  BY <1>1, FS_NatBijection
<1>3. PICK nk \in Nat : ExistsBijection(1..nk, K)
  BY <1>1, FS_NatBijection
<1>4. PICK c \in Bijection(1..nc, C) : TRUE
  BY <1>2 DEF ExistsBijection
<1>5. PICK k \in Bijection(1..nk, K) : TRUE
  BY <1>3 DEF ExistsBijection
<1> DEFINE n == nc + nk
           s == [i \in 1..n |-> IF i <= nc THEN c[i] ELSE k[i - nc]]
<1>6. /\ \A i \in 1..nc : c[i] \in C /\ \A j \in 1..nc : c[i] = c[j] => i = j
      /\ \A e \in C : \E i \in 1..nc : c[i] = e
  BY <1>4 DEF Bijection, Injection, Surjection, IsInjective
<1>7. /\ \A i \in 1..nk : k[i] \in K /\ \A j \in 1..nk : k[i] = k[j] => i = j
      /\ \A e \in K : \E i \in 1..nk : k[i] = e
  BY <1>5 DEF Bijection, Injection, Surjection, IsInjective
<1>8. n \in Nat /\ C \cap K = {} /\ C \cup K = S
  OBVIOUS
<1> HIDE DEF C, K
<1>9. ASSUME NEW i \in 1..n
      PROVE  \/ i \in 1..nc /\ s[i] = c[i] /\ s[i] \in C
             \/ i - nc \in 1..nk /\ i > nc /\ s[i] = k[i - nc] /\ s[i] \in K
  BY <1>6, <1>7
<1>10. s \in [1..n -> S]
  BY <1>8, <1>9
<1>11. ASSUME NEW i \in 1..n, NEW j \in 1..n, s[i] = s[j] PROVE i = j
  BY <1>6, <1>7, <1>8, <1>9, <1>11
<1>12. ASSUME NEW e \in S PROVE \E i \in 1..n : s[i] = e
  <2>1. CASE e \in C
    <3>1. PICK i \in 1..nc : c[i] = e
      BY <1>6, <2>1
    <3>2. i \in 1..n /\ s[i] = e
      BY <3>1
    <3> QED
      BY <3>2
  <2>2. CASE e \in K
    <3>1. PICK i \in 1..nk : k[i] = e
      BY <1>7, <2>2
    <3>2. nc + i \in 1..n /\ s[nc + i] = e
      BY <3>1
    <3> QED
      BY <3>2
  <2> QED
    BY <1>8, <2>1, <2>2
<1>13. \A i \in 1..n : s[i] \in C => i <= nc
  BY <1>8, <1>9
<1> HIDE DEF n, s
<1>14. s \in Bijection(1..n, S)
  BY <1>10, <1>11, <1>12 DEF Bijection, Injection, Surjection, IsInjective
<1>15. B!Cardinality(S) = n
  BY <1>8, <1>14, FS_CountingElements, SameBackupSize DEF ExistsBijection
<1> DEFINE P(t) == /\ {t[i] : i \in DOMAIN t} = S
                   /\ \A i, j \in DOMAIN t :
                        t[i][1] = t[j][1] /\ t[i][2] = "crt" /\ t[j][2] = "key" => i < j
<1>16. P(s)
  <2>1. DOMAIN s = 1..n
    BY <1>10
  <2>2. {s[i] : i \in DOMAIN s} = S
    BY <1>10, <1>12, <2>1
  <2>3. ASSUME NEW i \in DOMAIN s, NEW j \in DOMAIN s, s[i][2] = "crt", s[j][2] = "key"
        PROVE  i < j
    <3>1. s[i] \in C /\ s[j] \notin C
      BY <1>10, <2>1, <2>3 DEF C
    <3> QED
      BY <1>8, <1>9, <1>13, <2>1, <3>1 DEF n, s
  <2> QED
    BY <2>2, <2>3
<1>17. \E t \in [1..n -> S] : P(t)
  BY <1>10, <1>16
<1>18. B!Walk(S) = CHOOSE t \in [1..n -> S] : P(t)
  BY <1>15 DEF B!Walk
<1>19. B!Walk(S) \in [1..n -> S] /\ P(B!Walk(S))
  BY <1>17, <1>18
<1> QED
  BY <1>8, <1>19

\* A file is changed on disk.
LEMMA FileWritten ==
  ASSUME B!TypeOK, NEW n \in Names, NEW p \in B!Pair, NEW x \in B!File,
         file' = [file EXCEPT ![n][p] = x]
  PROVE  /\ file' \in B!Files
         /\ \A m \in Names, q \in B!Pair :
              file'[m][q] = IF m = n /\ q = p THEN x ELSE file[m][q]
<1>1. file \in [Names -> [B!Pair -> B!File]]
  BY DEF B!TypeOK, B!Files
<1>2. file' = [file EXCEPT ![n] = [file[n] EXCEPT ![p] = x]]
  BY <1>1
<1> QED
  BY <1>1, <1>2 DEF B!Files

\* The bundle stands still, and no file gets older.
LEMMA VersionsGrow ==
  ASSUME B!TypeOK, B!BundleInv, bundle' = bundle, file' \in B!Files,
         \A n \in Names, p \in B!Pair : file'[n][p].v >= file[n][p].v
  PROVE  B!BundleInv'
<1> SUFFICES ASSUME bundle # B!None
             PROVE  (B!PartsInv(bundle) /\ B!FoundInv(bundle) /\ B!DumpInv(bundle))'
  BY DEF B!BundleInv
<1>1. bundle \in B!Bundle /\ B!PartsInv(bundle) /\ B!FoundInv(bundle) /\ B!DumpInv(bundle)
  BY DEF B!TypeOK, B!BundleInv
<1>2. \A n \in Names, p \in B!Pair :
        file'[n][p].v \in Nat /\ file[n][p].v \in Nat /\ bundle.dumped[n] \in Nat
  BY <1>1 DEF B!TypeOK, B!Files, B!File, B!Bundle
<1>3. \A e \in bundle.found : e[1] \in Names /\ e[2] \in B!Pair
  BY <1>1 DEF B!Bundle, B!Entries
<1>4. B!PartsInv(bundle)'
  BY <1>1 DEF B!PartsInv, B!Remaining, B!Walked
<1>5. B!FoundInv(bundle)'
  BY <1>1, <1>2, <1>3 DEF B!FoundInv, B!Walked, B!Copied
<1>6. B!DumpInv(bundle)'
  BY <1>1, <1>2 DEF B!DumpInv, B!Walked
<1> QED
  BY <1>4, <1>5, <1>6

LEMMA CertSaveStep ==
  ASSUME B!TypeOK, B!SaveInv, B!BundleInv, NEW n \in Names, B!Save(n)
  PROVE  (B!TypeOK /\ B!SaveInv /\ B!BundleInv)'
<1>1. /\ file \in B!Files /\ row \in [Names -> Nat] /\ save \in [Names -> B!Stages]
      /\ half \subseteq Names
      /\ \A m \in Names, p \in B!Pair :
           file[m][p] \in B!File /\ file[m][p].v \in Nat /\ row[m] \in Nat
  BY DEF B!TypeOK, B!Files, B!File
<1>2. "crt" \in B!Pair /\ "key" \in B!Pair /\ \A p \in B!Pair : p = "crt" \/ p = "key"
  BY DEF B!Pair
<1>3. bundle' = bundle /\ UNCHANGED left
  BY DEF B!Save, B!SaveBegins, B!SaveStep, B!SaveRow, B!SaveFails
<1>4. ASSUME file' \in B!Files, row' \in [Names -> Nat], save' \in [Names -> B!Stages],
             half' \subseteq Names, B!SaveInv',
             \A m \in Names, p \in B!Pair : file'[m][p].v >= file[m][p].v
      PROVE  (B!TypeOK /\ B!SaveInv /\ B!BundleInv)'
  BY <1>3, <1>4, VersionsGrow DEF B!TypeOK
<1>5. ASSUME NEW p \in B!Pair, NEW v \in Nat, B!Open(n, p, v)
      PROVE  /\ file' \in B!Files
             /\ \A m \in Names, q \in B!Pair :
                  /\ m # n \/ q # p => file'[m][q] = file[m][q]
                  /\ m = n /\ q = p => file'[m][q].v = v /\ file'[m][q].cut
  <2> DEFINE x == [v |-> v, cut |-> TRUE]
  <2>1. x \in B!File /\ file' = [file EXCEPT ![n][p] = x] /\ x.v = v /\ x.cut
    BY <1>5 DEF B!Open, B!File
  <2> HIDE DEF x
  <2>2. /\ file' \in B!Files
        /\ \A m \in Names, q \in B!Pair :
             file'[m][q] = IF m = n /\ q = p THEN x ELSE file[m][q]
    BY <2>1, FileWritten
  <2> QED
    BY <2>1, <2>2
<1>6. ASSUME NEW p \in B!Pair, B!Write(n, p)
      PROVE  /\ file' \in B!Files
             /\ \A m \in Names, q \in B!Pair :
                  /\ m # n \/ q # p => file'[m][q] = file[m][q]
                  /\ m = n /\ q = p => file'[m][q].v = file[n][p].v /\ ~file'[m][q].cut
  <2> DEFINE x == [file[n][p] EXCEPT !.cut = FALSE]
  <2>1. x \in B!File /\ x.v = file[n][p].v /\ ~x.cut
    BY <1>1 DEF B!File
  <2>2. file' = [file EXCEPT ![n][p] = x]
    BY <1>1, <1>6 DEF B!Write, B!Files
  <2> HIDE DEF x
  <2>3. /\ file' \in B!Files
        /\ \A m \in Names, q \in B!Pair :
             file'[m][q] = IF m = n /\ q = p THEN x ELSE file[m][q]
    BY <2>2, <2>1, FileWritten
  <2> QED
    BY <2>1, <2>3
<1>7. ASSUME B!SaveBegins(n) PROVE (B!TypeOK /\ B!SaveInv /\ B!BundleInv)'
  <2> DEFINE v == file[n]["crt"].v + 1
  <2>1. /\ v \in Nat /\ B!Open(n, "crt", v) /\ save[n] = "idle"
        /\ save' = [save EXCEPT ![n] = "crt"] /\ UNCHANGED <<row, half>>
    BY <1>1, <1>2, <1>7 DEF B!SaveBegins, B!NewVersion
  <2>2. v > file[n]["crt"].v /\ v > 0
    BY <1>1, <1>2
  <2> HIDE DEF v
  <2>3. /\ file' \in B!Files
        /\ \A m \in Names, q \in B!Pair :
             /\ m # n \/ q # "crt" => file'[m][q] = file[m][q]
             /\ m = n /\ q = "crt" => file'[m][q].v = v /\ file'[m][q].cut
    BY <1>2, <1>5, <2>1
  <2>4. B!SaveInv'
    BY <1>1, <1>2, <2>1, <2>2, <2>3 DEF B!SaveInv
  <2>5. save' \in [Names -> B!Stages]
    BY <1>1, <2>1 DEF B!Stages
  <2>6. ASSUME NEW m \in Names, NEW p \in B!Pair PROVE file'[m][p].v >= file[m][p].v
    <3>1. CASE m = n /\ p = "crt"
      <4>1. file'[n]["crt"].v = v /\ file[n]["crt"].v \in Nat
        BY <1>1, <1>2, <2>3
      <4> QED
        BY <2>1, <2>2, <3>1, <4>1
    <3>2. CASE m # n \/ p # "crt"
      BY <1>1, <2>3, <3>2
    <3> QED
      BY <3>1, <3>2
  <2> QED
    BY <1>1, <1>4, <2>1, <2>3, <2>4, <2>5, <2>6
<1>8. ASSUME B!SaveStep(n) PROVE (B!TypeOK /\ B!SaveInv /\ B!BundleInv)'
  <2>1. UNCHANGED <<row, half>>
    BY <1>8 DEF B!SaveStep
  <2>2. CASE save[n] = "crt"
    <3>1. B!Write(n, "crt") /\ save' = [save EXCEPT ![n] = "openkey"]
      BY <1>8, <2>2 DEF B!SaveStep
    <3>2. /\ file' \in B!Files
          /\ \A m \in Names, q \in B!Pair :
               /\ m # n \/ q # "crt" => file'[m][q] = file[m][q]
               /\ m = n /\ q = "crt" => file'[m][q].v = file[n]["crt"].v /\ ~file'[m][q].cut
      BY <1>2, <1>6, <3>1
    <3>3. B!SaveInv'
      BY <1>1, <1>2, <2>1, <2>2, <3>1, <3>2 DEF B!SaveInv
    <3>4. save' \in [Names -> B!Stages]
      BY <1>1, <3>1 DEF B!Stages
    <3>5. \A m \in Names, p \in B!Pair : file'[m][p].v >= file[m][p].v
      BY <1>1, <3>2
    <3> QED
      BY <1>1, <1>4, <2>1, <3>2, <3>3, <3>4, <3>5
  <2>3. CASE save[n] = "openkey"
    <3>1. B!Open(n, "key", file[n]["crt"].v) /\ save' = [save EXCEPT ![n] = "key"]
      BY <1>8, <2>3 DEF B!SaveStep
    <3>2. /\ file' \in B!Files
          /\ \A m \in Names, q \in B!Pair :
               /\ m # n \/ q # "key" => file'[m][q] = file[m][q]
               /\ m = n /\ q = "key" => file'[m][q].v = file[n]["crt"].v /\ file'[m][q].cut
      BY <1>1, <1>2, <1>5, <3>1
    <3>3. B!SaveInv'
      BY <1>1, <1>2, <2>1, <2>3, <3>1, <3>2 DEF B!SaveInv
    <3>4. save' \in [Names -> B!Stages]
      BY <1>1, <3>1 DEF B!Stages
    <3>5. \A m \in Names, p \in B!Pair : file'[m][p].v >= file[m][p].v
      BY <1>1, <1>2, <3>2 DEF B!SaveInv
    <3> QED
      BY <1>1, <1>4, <2>1, <3>2, <3>3, <3>4, <3>5
  <2>4. CASE save[n] = "key"
    <3>1. B!Write(n, "key") /\ save' = [save EXCEPT ![n] = "row"]
      BY <1>8, <2>4 DEF B!SaveStep
    <3>2. /\ file' \in B!Files
          /\ \A m \in Names, q \in B!Pair :
               /\ m # n \/ q # "key" => file'[m][q] = file[m][q]
               /\ m = n /\ q = "key" => file'[m][q].v = file[n]["key"].v /\ ~file'[m][q].cut
      BY <1>2, <1>6, <3>1
    <3>3. B!SaveInv'
      BY <1>1, <1>2, <2>1, <2>4, <3>1, <3>2 DEF B!SaveInv
    <3>4. save' \in [Names -> B!Stages]
      BY <1>1, <3>1 DEF B!Stages
    <3>5. \A m \in Names, p \in B!Pair : file'[m][p].v >= file[m][p].v
      BY <1>1, <3>2
    <3> QED
      BY <1>1, <1>4, <2>1, <3>2, <3>3, <3>4, <3>5
  <2> QED
    BY <1>8, <2>2, <2>3, <2>4 DEF B!SaveStep
<1>9. ASSUME B!SaveRow(n) PROVE (B!TypeOK /\ B!SaveInv /\ B!BundleInv)'
  <2>1. /\ file' = file /\ save[n] = "row" /\ save' = [save EXCEPT ![n] = "idle"]
        /\ half' = half \ {n} /\ row' \in {row, [row EXCEPT ![n] = file[n]["crt"].v]}
    BY <1>9 DEF B!SaveRow
  <2>2. row' \in [Names -> Nat] /\ save' \in [Names -> B!Stages]
    BY <1>1, <1>2, <2>1 DEF B!Stages
  <2>3. \A m \in Names : row'[m] = row[m] \/ (m = n /\ row'[m] = file[n]["crt"].v)
    BY <1>1, <2>1
  <2>4. B!SaveInv'
    BY <1>1, <1>2, <2>1, <2>3 DEF B!SaveInv
  <2> QED
    BY <1>1, <1>4, <2>1, <2>2, <2>4
<1>10. ASSUME B!SaveFails(n) PROVE (B!TypeOK /\ B!SaveInv /\ B!BundleInv)'
  <2>1. /\ UNCHANGED <<file, row>> /\ save[n] \in {"crt", "openkey", "key"}
        /\ save' = [save EXCEPT ![n] = "idle"] /\ half' = half \cup {n}
    BY <1>10 DEF B!SaveFails
  <2>2. save' \in [Names -> B!Stages]
    BY <1>1, <2>1 DEF B!Stages
  <2>3. B!SaveInv'
    BY <1>1, <1>2, <2>1 DEF B!SaveInv
  <2> QED
    BY <1>1, <1>4, <2>1, <2>2, <2>3
<1> QED
  BY <1>7, <1>8, <1>9, <1>10 DEF B!Save

-----------------------------------------------------------------------------
(* A step of buildBackupBundle *)

Within(s) == {s[i] : i \in DOMAIN s}
Distinct(s) == \A i, j \in DOMAIN s : s[i] = s[j] => i = j

LEMMA TailOf ==
  ASSUME NEW S, NEW s \in Seq(S), s # <<>>
  PROVE  /\ Head(s) \in S /\ Tail(s) \in Seq(S) /\ Len(Tail(s)) = Len(s) - 1
         /\ Within(s) = {Head(s)} \cup Within(Tail(s))
<1>1. /\ Head(s) \in S /\ Tail(s) \in Seq(S) /\ Len(Tail(s)) = Len(s) - 1
      /\ Len(s) \in Nat \ {0} /\ DOMAIN s = 1..Len(s) /\ Head(s) = s[1]
  OBVIOUS
<1>2. DOMAIN Tail(s) = 1..(Len(s) - 1)
  BY <1>1
<1>3. \A i \in 1..(Len(s) - 1) : Tail(s)[i] = s[i + 1]
  OBVIOUS
<1>4. {s[i] : i \in DOMAIN s} = {Head(s)} \cup {Tail(s)[i] : i \in DOMAIN Tail(s)}
  <2>1. ASSUME NEW i \in 1..Len(s) PROVE s[i] \in {Head(s)} \cup {Tail(s)[j] : j \in DOMAIN Tail(s)}
    <3>1. CASE i = 1
      BY <1>1, <3>1
    <3>2. CASE i # 1
      <4>1. i - 1 \in DOMAIN Tail(s) /\ Tail(s)[i - 1] = s[i]
        BY <1>1, <1>2, <1>3, <3>2
      <4> QED
        BY <4>1
    <3> QED
      BY <3>1, <3>2
  <2>2. \A j \in DOMAIN Tail(s) : j + 1 \in 1..Len(s) /\ Tail(s)[j] = s[j + 1]
    BY <1>1, <1>2, <1>3
  <2>3. 1 \in 1..Len(s)
    BY <1>1
  <2> QED
    BY <1>1, <2>1, <2>2, <2>3
<1> QED
  BY <1>1, <1>4 DEF Within

LEMMA TailDistinct ==
  ASSUME NEW S, NEW s \in Seq(S), s # <<>>, Distinct(s)
  PROVE  Distinct(Tail(s)) /\ Head(s) \notin Within(Tail(s))
<1>1. /\ Len(s) \in Nat \ {0} /\ DOMAIN s = 1..Len(s) /\ Head(s) = s[1]
      /\ DOMAIN Tail(s) = 1..(Len(s) - 1)
  OBVIOUS
<1>3. \A i \in 1..(Len(s) - 1) : Tail(s)[i] = s[i + 1]
  OBVIOUS
<1>4. \A j \in DOMAIN Tail(s) :
        j + 1 \in DOMAIN s /\ j \in Nat /\ j # 0 /\ Tail(s)[j] = s[j + 1]
  BY <1>1, <1>3
<1>5. ASSUME NEW i \in DOMAIN Tail(s), NEW j \in DOMAIN Tail(s), Tail(s)[i] = Tail(s)[j]
      PROVE  i = j
  <2>1. i + 1 = j + 1
    BY <1>4, <1>5 DEF Distinct
  <2> QED
    BY <1>4, <2>1
<1>6. ASSUME NEW j \in DOMAIN Tail(s), Tail(s)[j] = Head(s) PROVE FALSE
  <2>1. 1 \in DOMAIN s /\ s[1] = s[j + 1]
    BY <1>1, <1>4, <1>6
  <2>2. 1 = j + 1
    BY <1>4, <2>1 DEF Distinct
  <2> QED
    BY <1>4, <2>2
<1> QED
  BY <1>5, <1>6 DEF Distinct, Within

LEMMA NoneLeft ==
  ASSUME NEW S, NEW s \in Seq(S)
  PROVE  s = <<>> <=> Len(s) = 0
  OBVIOUS

\* The loop goes on, and nothing else changes.
LEMMA GoesOn ==
  ASSUME NEW b \in B!Bundle, b.parts # <<>>
  PROVE  LET c == B!Onward(b) IN
         /\ c \in B!Bundle /\ c.parts = Tail(b.parts) /\ c.todo = <<>>
         /\ c.at = IF Len(b.parts) = 1 THEN "manifest" ELSE "part"
         /\ c.found = b.found /\ c.dumped = b.dumped /\ c.archived = b.archived
         /\ c.listed = b.listed /\ c.warned = b.warned /\ c.faulty = b.faulty
         /\ c.swallowed = b.swallowed /\ c.disturbed = b.disturbed
<1>1. Tail(b.parts) \in Seq(B!Parts)
  BY TailOf DEF B!Bundle
<1>2. <<>> \in Seq(B!Entries)
  OBVIOUS
<1> QED
  BY <1>1, <1>2 DEF B!Onward, B!Bundle

\* Warning about a part changes nothing else.
LEMMA PartWarned ==
  ASSUME NEW b \in B!Bundle, NEW p \in B!Parts,
         NEW w, w = [b EXCEPT !.warned = @ \cup {p}]
  PROVE  /\ w \in B!Bundle /\ w.parts = b.parts /\ w.found = b.found /\ w.dumped = b.dumped
         /\ w.archived = b.archived /\ w.listed = b.listed /\ w.swallowed = b.swallowed
         /\ w.disturbed = b.disturbed /\ w.warned = b.warned \cup {p} /\ w.faulty = b.faulty
  BY DEF B!Bundle

\* Nor does listing it.
LEMMA PartIsListed ==
  ASSUME NEW b \in B!Bundle, NEW p \in B!Parts,
         NEW l, l = [b EXCEPT !.listed = @ \cup {p}]
  PROVE  /\ l \in B!Bundle /\ l.parts = b.parts /\ l.found = b.found /\ l.dumped = b.dumped
         /\ l.archived = b.archived /\ l.warned = b.warned /\ l.swallowed = b.swallowed
         /\ l.disturbed = b.disturbed /\ l.listed = b.listed \cup {p} /\ l.faulty = b.faulty
  BY DEF B!Bundle

\* A part is done: it is listed, or warned about.
LEMMA PartDone ==
  ASSUME NEW b \in B!Bundle, B!PartsInv(b), b.parts # <<>>,
         NEW c \in B!Bundle, c.parts = Tail(b.parts),
         c.at = IF Len(b.parts) = 1 THEN "manifest" ELSE "part",
         \/ c.listed = b.listed \cup {Head(b.parts)} /\ c.warned = b.warned
         \/ c.warned = b.warned \cup {Head(b.parts)} /\ c.listed = b.listed,
         c.faulty \subseteq b.faulty \cup (c.warned \ b.warned)
  PROVE  B!PartsInv(c) /\ B!Walked(c) = {}
<1>1. b.parts \in Seq(B!Parts)
  BY DEF B!Bundle
<1>2. Distinct(b.parts)
  BY DEF B!PartsInv, Distinct
<1> DEFINE p == Head(b.parts)
<1>3. /\ p \in B!Parts /\ B!Remaining(b) = {p} \cup B!Remaining(c) /\ p \notin B!Remaining(c)
      /\ Len(c.parts) = Len(b.parts) - 1 /\ c.parts \in Seq(B!Parts) /\ Distinct(c.parts)
  <2>1. B!Remaining(b) = Within(b.parts) /\ B!Remaining(c) = Within(c.parts)
    BY DEF B!Remaining, Within
  <2> QED
    BY <1>1, <1>2, <2>1, TailOf, TailDistinct
<1>4. c.parts = <<>> <=> c.at \in {"manifest", "serve"}
  <2>1. c.parts = <<>> <=> Len(c.parts) = 0
    <3>1. c.parts \in Seq(B!Parts)
      BY <1>3
    <3> QED
      BY <3>1, NoneLeft
  <2>2. Len(c.parts) = 0 <=> Len(b.parts) = 1
    BY <1>1, <1>3
  <2> QED
    BY <2>1, <2>2
<1>5. c.at # "copy" /\ c.at # "entry" /\ B!Walked(c) = {}
  BY DEF B!Walked
<1>6. /\ B!Remaining(b) \cup b.listed \cup b.warned = B!Parts
      /\ B!Remaining(b) \cap (b.listed \cup b.warned) = {} /\ b.listed \cap b.warned = {}
      /\ "dump" \in B!Remaining(b) => p = "dump"
  BY DEF B!PartsInv
<1>7. "dump" \notin B!Remaining(c)
  BY <1>3, <1>6
<1> HIDE DEF p
<1>8. /\ B!Remaining(c) \cup c.listed \cup c.warned = B!Parts
      /\ B!Remaining(c) \cap (c.listed \cup c.warned) = {} /\ c.listed \cap c.warned = {}
  BY <1>3, <1>6 DEF p
<1>9. c.faulty \subseteq c.warned
  BY DEF B!PartsInv
<1> QED
  BY <1>3, <1>4, <1>5, <1>7, <1>8, <1>9 DEF B!PartsInv, Distinct

\* The part that is being worked on.
LEMMA CurrentPart ==
  ASSUME NEW b \in B!Bundle, B!PartsInv(b), b.at \in {"part", "entry", "copy"}
  PROVE  /\ b.parts # <<>> /\ b.parts \in Seq(B!Parts) /\ Head(b.parts) \in B!Parts
         /\ Head(b.parts) \in B!Remaining(b)
         /\ Head(b.parts) \notin b.listed \cup b.warned
         /\ b.at = "part" => B!Walked(b) = {}
         /\ b.at # "part" => B!Walked(b) = {Head(b.parts)} /\ Head(b.parts) # "dump"
<1>1. b.parts # <<>> /\ b.parts \in Seq(B!Parts)
  BY DEF B!PartsInv, B!Bundle
<1>2. Head(b.parts) \in B!Parts /\ Head(b.parts) \in B!Remaining(b)
  BY <1>1, TailOf DEF B!Remaining, Within
<1>3. Head(b.parts) \notin b.listed \cup b.warned
  BY <1>2 DEF B!PartsInv
<1>4. B!Walked(b) \subseteq B!DirSet
  BY DEF B!PartsInv
<1> QED
  BY <1>1, <1>2, <1>3, <1>4, Directories DEF B!Walked

\* What an action of the request leaves alone: only the bundle moves.
LEMMA OnlyBundle ==
  ASSUME B!TypeOK, B!SaveInv, UNCHANGED <<file, row, save, half>>,
         bundle' \in B!Bundle \cup {B!None}, left' \in BOOLEAN,
         bundle' # B!None =>
           B!PartsInv(bundle') /\ B!FoundInv(bundle') /\ B!DumpInv(bundle')
  PROVE  (B!TypeOK /\ B!SaveInv /\ B!BundleInv)'
<1>1. B!SaveInv'
  BY DEF B!SaveInv
<1>2. bundle' # B!None =>
        B!PartsInv(bundle)' /\ B!FoundInv(bundle)' /\ B!DumpInv(bundle)'
  BY DEF B!PartsInv, B!FoundInv, B!DumpInv, B!Remaining, B!Walked, B!Copied
<1> QED
  BY <1>1, <1>2 DEF B!TypeOK, B!BundleInv

LEMMA UnderWayBundle ==
  ASSUME B!TypeOK, B!BundleInv, bundle # B!None
  PROVE  /\ bundle \in B!Bundle
         /\ B!PartsInv(bundle) /\ B!FoundInv(bundle) /\ B!DumpInv(bundle)
  BY DEF B!TypeOK, B!BundleInv

\* A part that fails is left out, or an error, with a warning.
LEMMA FailPart ==
  ASSUME B!TypeOK, B!SaveInv, B!BundleInv, bundle # B!None,
         bundle.at \in {"part", "entry", "copy"},
         bundle' \in {B!PartFails(bundle), B!PartUnread(bundle)},
         UNCHANGED <<file, row, save, left, half>>
  PROVE  (B!TypeOK /\ B!SaveInv /\ B!BundleInv)'
<1> DEFINE b == bundle
           p == Head(b.parts)
           u == [b EXCEPT !.faulty = @ \cup {p}]
           d(x) == [x EXCEPT !.warned = @ \cup {Head(x.parts)}]
<1>1. b \in B!Bundle /\ B!PartsInv(b) /\ B!FoundInv(b) /\ B!DumpInv(b)
  BY UnderWayBundle
<1>2. /\ b.parts # <<>> /\ p \in B!Parts /\ p \notin b.listed \cup b.warned
      /\ B!Walked(b) \subseteq {p}
  BY <1>1, CurrentPart
<1>3. bundle' = B!Onward(d(b)) \/ bundle' = B!Onward(d(u))
  BY DEF B!PartFails, B!PartUnread
<1>4. u \in B!Bundle
  BY <1>1, <1>2 DEF B!Bundle
<1>5. ASSUME NEW x \in {b, u}, bundle' = B!Onward(d(x))
      PROVE  (B!TypeOK /\ B!SaveInv /\ B!BundleInv)'
  <2> DEFINE dx == d(x)
             c == B!Onward(dx)
  <2>1. /\ x \in B!Bundle /\ x.parts = b.parts /\ x.found = b.found /\ x.dumped = b.dumped
        /\ x.archived = b.archived /\ x.listed = b.listed /\ x.swallowed = b.swallowed
        /\ x.disturbed = b.disturbed /\ x.warned = b.warned
        /\ x.faulty \subseteq b.faulty \cup {p}
    BY <1>1, <1>4 DEF B!Bundle
  <2> HIDE DEF u
  <2>2. /\ dx \in B!Bundle /\ dx.parts = b.parts /\ dx.found = b.found /\ dx.dumped = b.dumped
        /\ dx.archived = b.archived /\ dx.listed = b.listed /\ dx.swallowed = b.swallowed
        /\ dx.disturbed = b.disturbed /\ dx.warned = b.warned \cup {p}
        /\ dx.faulty \subseteq b.faulty \cup {p}
    <3>1. Head(x.parts) = p
      BY <2>1
    <3>2. dx = [x EXCEPT !.warned = @ \cup {p}]
      BY <3>1
    <3> HIDE DEF dx, p, b
    <3>3. /\ dx \in B!Bundle /\ dx.parts = x.parts /\ dx.found = x.found
          /\ dx.dumped = x.dumped /\ dx.archived = x.archived /\ dx.listed = x.listed
          /\ dx.swallowed = x.swallowed /\ dx.disturbed = x.disturbed
          /\ dx.warned = x.warned \cup {p} /\ dx.faulty = x.faulty
      BY <1>2, <2>1, <3>2, PartWarned
    <3> QED
      BY <2>1, <3>3
  <2> HIDE DEF dx
  <2>3. /\ c \in B!Bundle /\ c.parts = Tail(b.parts)
        /\ c.at = IF Len(b.parts) = 1 THEN "manifest" ELSE "part"
        /\ c.found = b.found /\ c.dumped = b.dumped
        /\ c.archived = b.archived /\ c.listed = b.listed /\ c.swallowed = b.swallowed
        /\ c.disturbed = b.disturbed /\ c.warned = b.warned \cup {p}
        /\ c.faulty \subseteq b.faulty \cup {p}
    BY <1>2, <2>2, GoesOn
  <2>4. bundle' = c
    BY <1>5 DEF dx
  <2> HIDE DEF c, b
  <2>5. c.faulty \subseteq b.faulty \cup (c.warned \ b.warned)
    BY <1>2, <2>3
  <2>6. B!PartsInv(c) /\ B!Walked(c) = {}
    BY <1>1, <1>2, <2>3, <2>5, PartDone
  <2>7. B!FoundInv(c)
    BY <1>1, <1>2, <2>3, <2>6 DEF B!FoundInv, B!Copied
  <2>8. B!DumpInv(c)
    BY <1>1, <1>2, <2>3, <2>6 DEF B!DumpInv
  <2>9. left' \in BOOLEAN
    BY DEF B!TypeOK
  <2> QED
    BY <2>3, <2>4, <2>6, <2>7, <2>8, <2>9, OnlyBundle
<1> QED
  BY <1>3, <1>5

LEMMA DumpStep ==
  ASSUME B!TypeOK, B!SaveInv, B!BundleInv, B!WritePGDump
  PROVE  (B!TypeOK /\ B!SaveInv /\ B!BundleInv)'
<1> DEFINE b == bundle
           e == [b EXCEPT !.dumped = row]
           d == [e EXCEPT !.listed = @ \cup {Head(e.parts)}]
           c == B!Onward(d)
<1>1. /\ b # B!None /\ b.at = "part" /\ Head(b.parts) = "dump"
      /\ b' \in {B!PartFails(b), B!PartUnread(b)} \/ b' = c
      /\ UNCHANGED <<file, row, save, left, half>>
  BY DEF B!WritePGDump, B!At, B!Part, B!PartListed
<1>2. CASE b' \in {B!PartFails(b), B!PartUnread(b)}
  BY <1>1, <1>2, FailPart
<1>3. CASE b' = c
  <2>1. b \in B!Bundle /\ B!PartsInv(b) /\ B!FoundInv(b) /\ B!DumpInv(b)
    BY <1>1, UnderWayBundle
  <2>2. /\ b.parts # <<>> /\ "dump" \in B!Parts /\ "dump" \in B!Remaining(b)
        /\ "dump" \notin b.listed \cup b.warned /\ B!Walked(b) = {}
    BY <1>1, <2>1, CurrentPart
  <2>3. row \in [Names -> Nat]
    BY DEF B!TypeOK
  <2>4. /\ d \in B!Bundle /\ d.parts = b.parts /\ d.found = b.found /\ d.dumped = row
        /\ d.archived = b.archived /\ d.warned = b.warned /\ d.swallowed = b.swallowed
        /\ d.disturbed = b.disturbed /\ d.listed = b.listed \cup {"dump"}
        /\ d.faulty = b.faulty
    <3>1. /\ e \in B!Bundle /\ e.parts = b.parts /\ e.found = b.found /\ e.dumped = row
          /\ e.archived = b.archived /\ e.warned = b.warned /\ e.swallowed = b.swallowed
          /\ e.disturbed = b.disturbed /\ e.listed = b.listed /\ e.faulty = b.faulty
      BY <2>1, <2>3 DEF B!Bundle
    <3> HIDE DEF e
    <3>2. Head(e.parts) = "dump"
      BY <1>1, <3>1
    <3>3. d = [e EXCEPT !.listed = @ \cup {"dump"}]
      BY <3>2
    <3> HIDE DEF d
    <3>4. /\ d \in B!Bundle /\ d.parts = e.parts /\ d.found = e.found
          /\ d.dumped = e.dumped /\ d.archived = e.archived /\ d.warned = e.warned
          /\ d.swallowed = e.swallowed /\ d.disturbed = e.disturbed
          /\ d.listed = e.listed \cup {"dump"} /\ d.faulty = e.faulty
      BY <2>2, <3>1, <3>3, PartIsListed
    <3> QED
      BY <3>1, <3>4
  <2> HIDE DEF d
  <2>5. /\ c \in B!Bundle /\ c.parts = Tail(b.parts)
        /\ c.at = IF Len(b.parts) = 1 THEN "manifest" ELSE "part"
        /\ c.found = b.found /\ c.dumped = row
        /\ c.archived = b.archived /\ c.warned = b.warned /\ c.swallowed = b.swallowed
        /\ c.disturbed = b.disturbed /\ c.listed = b.listed \cup {"dump"}
        /\ c.faulty = b.faulty
    BY <2>2, <2>4, GoesOn
  <2> HIDE DEF c
  <2>6. B!PartsInv(c) /\ B!Walked(c) = {}
    BY <1>1, <2>1, <2>2, <2>5, PartDone
  <2>7. b.listed = {} /\ b.warned = {}
    BY <2>1, <2>2 DEF B!PartsInv, B!Bundle
  <2>8. b.found = {}
    BY <2>1, <2>2, <2>7 DEF B!FoundInv
  <2>9. B!FoundInv(c)
    BY <2>5, <2>8 DEF B!FoundInv
  <2>10. \A n \in Names : DirOf[n] # "dump"
    BY Directories
  <2>11. B!DumpInv(c)
    BY <2>5, <2>6, <2>7, <2>10 DEF B!DumpInv, B!SaveInv
  <2>12. left' \in BOOLEAN
    BY <1>1 DEF B!TypeOK
  <2> QED
    BY <1>1, <1>3, <2>5, <2>6, <2>9, <2>11, <2>12, OnlyBundle
<1> QED
  BY <1>1, <1>2, <1>3

LEMMA WalkStep ==
  ASSUME B!TypeOK, B!SaveInv, B!BundleInv, B!OpenDir
  PROVE  (B!TypeOK /\ B!SaveInv /\ B!BundleInv)'
<1> DEFINE b == bundle
           p == Head(b.parts)
           there == {e \in B!Entries : DirOf[e[1]] = p /\ file[e[1]][e[2]] # B!Absent}
           c == [b EXCEPT !.at = "entry", !.todo = B!Walk(there), !.found = @ \cup there]
<1>1. /\ b # B!None /\ b.at = "part" /\ p # "dump"
      /\ b' = B!PartFails(b) \/ b' = c
      /\ UNCHANGED <<file, row, save, left, half>>
  BY DEF B!OpenDir, B!At, B!Part
<1>2. CASE b' = B!PartFails(b)
  BY <1>1, <1>2, FailPart
<1>3. CASE b' = c
  <2>1. b \in B!Bundle /\ B!PartsInv(b) /\ B!FoundInv(b) /\ B!DumpInv(b)
    BY <1>1, UnderWayBundle
  <2>2. /\ b.parts # <<>> /\ p \in B!Parts /\ p \in B!Remaining(b)
        /\ p \notin b.listed \cup b.warned /\ B!Walked(b) = {}
    BY <1>1, <2>1, CurrentPart
  <2>3. there \in SUBSET B!Entries
    OBVIOUS
  <2>4. /\ B!Walk(there) \in Seq(B!Entries)
        /\ {B!Walk(there)[i] : i \in DOMAIN B!Walk(there)} = there
    <3>1. /\ B!Walk(there) \in Seq(there)
          /\ {B!Walk(there)[i] : i \in DOMAIN B!Walk(there)} = there
      BY <2>3, WalkFinds
    <3> HIDE DEF there
    <3> QED
      BY <2>3, <3>1
  <2>5. /\ c \in B!Bundle /\ c.at = "entry" /\ c.todo = B!Walk(there)
        /\ c.found = b.found \cup there /\ c.parts = b.parts /\ c.dumped = b.dumped
        /\ c.archived = b.archived /\ c.listed = b.listed /\ c.warned = b.warned
        /\ c.swallowed = b.swallowed /\ c.disturbed = b.disturbed /\ c.faulty = b.faulty
    <3> HIDE DEF there
    <3> QED
      BY <2>1, <2>3, <2>4 DEF B!Bundle
  <2> HIDE DEF c
  <2>6. \A n \in Names, q \in B!Pair :
          file[n][q].v \in Nat /\ (file[n][q] # B!Absent <=> file[n][q].v > 0)
    <3>1. ASSUME NEW f \in B!File, f.v = 0 => ~f.cut
          PROVE  f.v \in Nat /\ (f # B!Absent <=> f.v > 0)
      <4>1. f = [v |-> f.v, cut |-> f.cut] /\ f.v \in Nat /\ f.cut \in BOOLEAN
        BY DEF B!File
      <4>2. B!Absent.v = 0
        BY DEF B!Absent
      <4>3. CASE f.v = 0
        <5>1. f.cut = FALSE
          BY <3>1, <4>1, <4>3
        <5> QED
          BY <4>1, <4>3, <5>1 DEF B!Absent
      <4> QED
        BY <4>1, <4>2, <4>3
    <3>2. \A n \in Names, q \in B!Pair :
            file[n][q] \in B!File /\ (file[n][q].v = 0 => ~file[n][q].cut)
      BY DEF B!TypeOK, B!SaveInv, B!Files
    <3> QED
      BY <3>1, <3>2
  <2>7. \A e \in B!Entries :
          e[1] \in Names /\ e[2] \in B!Pair
          /\ (e \in there <=> DirOf[e[1]] = p /\ file[e[1]][e[2]].v > 0)
    BY <2>6 DEF B!Entries
  <2>8. b.found \subseteq B!Entries /\ b.dumped \in [Names -> Nat]
    BY <2>1 DEF B!Bundle
  <2>9. \A n \in Names, q \in B!Pair :
          <<n, q>> \in there <=> DirOf[n] = p /\ file[n][q].v > 0
    BY <2>7 DEF B!Entries
  <2>10. B!Walked(c) = {p} /\ p \in B!DirSet
    BY <1>1, <2>2, <2>5 DEF B!Walked, B!Parts
  <2> HIDE DEF there, p
  <2>11. B!PartsInv(c)
    BY <2>1, <2>2, <2>5, <2>10 DEF B!PartsInv, B!Remaining
  <2>12. B!FoundInv(c)
    <3> SUFFICES ASSUME NEW e \in c.found
                 PROVE  /\ DirOf[e[1]] \in c.listed \cup c.warned \cup B!Walked(c)
                        /\ file[e[1]][e[2]].v > 0
                        /\ (\/ DirOf[e[1]] \in c.listed \ c.swallowed
                            \/ DirOf[e[1]] \in B!Walked(c)
                               /\ \A i \in DOMAIN c.todo : c.todo[i] # e) => B!Copied(c, e)
      BY DEF B!FoundInv
    <3>1. CASE e \in there
      BY <2>2, <2>3, <2>4, <2>5, <2>7, <2>10, <3>1
    <3>2. CASE e \in b.found
      BY <2>1, <2>2, <2>5, <2>10, <3>2 DEF B!FoundInv, B!Copied
    <3> QED
      BY <2>5, <3>1, <3>2
  <2>13. B!DumpInv(c)
    <3>1. ASSUME NEW n \in Names, NEW q \in B!Pair, b.dumped[n] > 0,
                 DirOf[n] \in c.listed \cup B!Walked(c)
          PROVE  <<n, q>> \in c.found
      <4>1. CASE DirOf[n] \in b.listed
        BY <2>1, <2>5, <3>1, <4>1 DEF B!DumpInv
      <4>2. CASE DirOf[n] = p
        <5>1. file[n][q].v >= b.dumped[n] /\ b.dumped[n] \in Nat /\ file[n][q].v \in Nat
          BY <2>1, <2>6, <2>8 DEF B!DumpInv
        <5> QED
          BY <2>5, <2>9, <3>1, <4>2, <5>1
      <4> QED
        BY <2>5, <2>10, <3>1, <4>1, <4>2
    <3>2. \A n \in Names : /\ "dump" \notin c.listed => c.dumped[n] = 0
                           /\ \A q \in B!Pair : file[n][q].v >= c.dumped[n]
      BY <2>1, <2>5 DEF B!DumpInv
    <3> QED
      BY <2>5, <3>1, <3>2 DEF B!DumpInv
  <2>14. left' \in BOOLEAN
    BY <1>1 DEF B!TypeOK
  <2> QED
    BY <1>1, <1>3, <2>5, <2>11, <2>12, <2>13, <2>14, OnlyBundle
<1> QED
  BY <1>1, <1>2, <1>3

\* Noting that a certificate is being saved changes nothing else.
LEMMA Noted ==
  ASSUME NEW b \in B!Bundle, NEW n \in Names
  PROVE  LET c == B!Noting(b, n) IN
         /\ c \in B!Bundle /\ c.at = b.at /\ c.parts = b.parts /\ c.todo = b.todo
         /\ c.found = b.found /\ c.dumped = b.dumped /\ c.archived = b.archived
         /\ c.listed = b.listed /\ c.warned = b.warned /\ c.swallowed = b.swallowed
         /\ c.faulty = b.faulty
         /\ b.disturbed \subseteq c.disturbed
         /\ B!Unsettled(n) => n \in c.disturbed
  BY DEF B!Noting, B!Bundle

LEMMA HeaderStep ==
  ASSUME B!TypeOK, B!SaveInv, B!BundleInv, B!WriteHeader
  PROVE  (B!TypeOK /\ B!SaveInv /\ B!BundleInv)'
<1> DEFINE b == bundle
           e == Head(b.todo)
           d == [b EXCEPT !.at = "copy", !.size = B!Size(file[e[1]][e[2]])]
           c == B!Noting(d, e[1])
<1>1. /\ b # B!None /\ b.at = "entry" /\ b.todo # <<>>
      /\ b' = B!PartFails(b) \/ b' = c
      /\ UNCHANGED <<file, row, save, left, half>>
  BY DEF B!WriteHeader, B!At
<1>2. CASE b' = B!PartFails(b)
  BY <1>1, <1>2, FailPart
<1>3. CASE b' = c
  <2>1. b \in B!Bundle /\ B!PartsInv(b) /\ B!FoundInv(b) /\ B!DumpInv(b)
    BY <1>1, UnderWayBundle
  <2>2. e[1] \in Names
    <3>1. b.todo \in Seq(B!Entries)
      BY <2>1 DEF B!Bundle
    <3>2. e \in B!Entries
      BY <1>1, <3>1, TailOf
    <3> QED
      BY <3>2 DEF B!Entries
  <2>3. B!Size(file[e[1]][e[2]]) \in {0, 1}
    BY DEF B!Size
  <2>4. /\ d \in B!Bundle /\ d.at = "copy" /\ d.parts = b.parts /\ d.todo = b.todo
        /\ d.found = b.found /\ d.dumped = b.dumped /\ d.archived = b.archived
        /\ d.listed = b.listed /\ d.warned = b.warned /\ d.swallowed = b.swallowed
        /\ d.faulty = b.faulty
        /\ d.disturbed = b.disturbed
    BY <2>1, <2>3 DEF B!Bundle
  <2> HIDE DEF d
  <2>5. /\ c \in B!Bundle /\ c.at = "copy" /\ c.parts = b.parts /\ c.todo = b.todo
        /\ c.found = b.found /\ c.dumped = b.dumped /\ c.archived = b.archived
        /\ c.listed = b.listed /\ c.warned = b.warned /\ c.swallowed = b.swallowed
        /\ c.faulty = b.faulty
        /\ b.disturbed \subseteq c.disturbed
    BY <2>2, <2>4, Noted
  <2> HIDE DEF c, e
  <2>6. B!Walked(c) = B!Walked(b)
    BY <1>1, <2>5 DEF B!Walked
  <2>7. B!PartsInv(c)
    BY <1>1, <2>1, <2>5, <2>6 DEF B!PartsInv, B!Remaining
  <2>8. B!FoundInv(c)
    BY <2>1, <2>5, <2>6 DEF B!FoundInv, B!Copied
  <2>9. B!DumpInv(c)
    BY <2>1, <2>5, <2>6 DEF B!DumpInv
  <2>10. left' \in BOOLEAN
    BY <1>1 DEF B!TypeOK
  <2> QED
    BY <1>1, <1>3, <2>5, <2>7, <2>8, <2>9, <2>10, OnlyBundle
<1> QED
  BY <1>1, <1>2, <1>3

LEMMA CopyStep ==
  ASSUME B!TypeOK, B!SaveInv, B!BundleInv, B!CopyEntry
  PROVE  (B!TypeOK /\ B!SaveInv /\ B!BundleInv)'
<1> DEFINE b == bundle
           e == Head(b.todo)
           f == file[e[1]][e[2]]
           d == [b EXCEPT !.at = "entry", !.todo = Tail(@), !.archived[e[1]][e[2]] = f,
                          !.short = B!Size(f) < b.size]
           c == B!Noting(d, e[1])
<1>1. /\ b # B!None /\ b.at = "copy"
      /\ b' = B!PartFails(b) \/ b' = c
      /\ UNCHANGED <<file, row, save, left, half>>
  BY DEF B!CopyEntry, B!At
<1>2. CASE b' = B!PartFails(b)
  BY <1>1, <1>2, FailPart
<1>3. CASE b' = c
  <2>1. b \in B!Bundle /\ B!PartsInv(b) /\ B!FoundInv(b) /\ B!DumpInv(b)
    BY <1>1, UnderWayBundle
  <2>2. b.todo \in Seq(B!Entries) /\ b.todo # <<>>
    BY <1>1, <2>1 DEF B!Bundle, B!PartsInv
  <2>3. /\ e \in B!Entries /\ Tail(b.todo) \in Seq(B!Entries)
        /\ Within(b.todo) = {e} \cup Within(Tail(b.todo))
    BY <2>2, TailOf
  <2>4. e[1] \in Names /\ e[2] \in B!Pair
    BY <2>3 DEF B!Entries
  <2>5. f \in B!File
    BY <2>4 DEF B!TypeOK, B!Files
  <2>6. b.archived \in [Names -> [B!Pair -> B!File]]
    BY <2>1 DEF B!Bundle, B!Files
  <2> DEFINE a == [b.archived EXCEPT ![e[1]][e[2]] = f]
  <2> HIDE DEF e, f
  <2>7. /\ a \in B!Files
        /\ \A n \in Names, q \in B!Pair :
             a[n][q] = IF n = e[1] /\ q = e[2] THEN f ELSE b.archived[n][q]
    <3>1. a = [b.archived EXCEPT ![e[1]] = [b.archived[e[1]] EXCEPT ![e[2]] = f]]
      BY <2>4, <2>6
    <3> QED
      BY <2>4, <2>5, <2>6, <3>1 DEF B!Files
  <2>8. d = [b EXCEPT !.at = "entry", !.todo = Tail(@), !.archived = a,
                      !.short = B!Size(f) < b.size]
    BY <2>1, <2>6 DEF B!Bundle
  <2> HIDE DEF a, d
  <2>9. (B!Size(f) < b.size) \in BOOLEAN
    OBVIOUS
  <2>10. /\ d \in B!Bundle /\ d.at = "entry" /\ d.parts = b.parts /\ d.todo = Tail(b.todo)
         /\ d.found = b.found /\ d.dumped = b.dumped /\ d.archived = a
         /\ d.listed = b.listed /\ d.warned = b.warned /\ d.swallowed = b.swallowed
         /\ d.faulty = b.faulty
         /\ d.disturbed = b.disturbed
    BY <2>1, <2>3, <2>7, <2>8, <2>9 DEF B!Bundle
  <2>11. /\ c \in B!Bundle /\ c.at = "entry" /\ c.parts = b.parts /\ c.todo = Tail(b.todo)
         /\ c.found = b.found /\ c.dumped = b.dumped /\ c.archived = a
         /\ c.listed = b.listed /\ c.warned = b.warned /\ c.swallowed = b.swallowed
         /\ c.faulty = b.faulty
         /\ b.disturbed \subseteq c.disturbed
         /\ B!Unsettled(e[1]) => e[1] \in c.disturbed
    BY <2>4, <2>10, Noted
  <2> HIDE DEF c
  <2>12. B!Walked(c) = B!Walked(b)
    BY <1>1, <2>11 DEF B!Walked
  <2>13. B!PartsInv(c)
    BY <1>1, <2>1, <2>11, <2>12 DEF B!PartsInv, B!Remaining
  <2>14. f.cut => B!Unsettled(e[1])
    BY <2>4 DEF B!SaveInv, B!Unsettled, B!Pair, f
  <2>15. \A x \in b.found : x[1] \in Names /\ x[2] \in B!Pair /\ x \in B!Entries /\ x = <<x[1], x[2]>>
    BY <2>1 DEF B!Bundle, B!Entries
  <2>16. B!FoundInv(c)
    <3> SUFFICES ASSUME NEW x \in b.found
                 PROVE  /\ DirOf[x[1]] \in b.listed \cup b.warned \cup B!Walked(b)
                        /\ file[x[1]][x[2]].v > 0
                        /\ (\/ DirOf[x[1]] \in b.listed \ b.swallowed
                            \/ DirOf[x[1]] \in B!Walked(b)
                               /\ \A i \in DOMAIN Tail(b.todo) : Tail(b.todo)[i] # x) =>
                              B!Copied(c, x)
      BY <2>11, <2>12 DEF B!FoundInv
    <3>1. CASE x = e
      <4>1. a[x[1]][x[2]] = f /\ f = file[x[1]][x[2]]
        BY <2>4, <2>7, <3>1 DEF f
      <4>2. /\ DirOf[x[1]] \in b.listed \cup b.warned \cup B!Walked(b)
            /\ file[x[1]][x[2]].v > 0
        BY <2>1 DEF B!FoundInv
      <4>3. f.v >= b.dumped[x[1]]
        BY <2>1, <2>15, <4>1 DEF B!DumpInv
      <4>4. B!Copied(c, x)
        BY <2>11, <2>14, <3>1, <4>1, <4>2, <4>3 DEF B!Copied
      <4> QED
        BY <4>2, <4>4
    <3>2. CASE x # e
      <4>1. x[1] # e[1] \/ x[2] # e[2]
        BY <2>3, <2>15, <3>2 DEF B!Entries
      <4>2. a[x[1]][x[2]] = b.archived[x[1]][x[2]]
        BY <2>7, <2>15, <4>1
      <4>3. (\A i \in DOMAIN Tail(b.todo) : Tail(b.todo)[i] # x) =>
               \A i \in DOMAIN b.todo : b.todo[i] # x
        BY <2>3, <3>2 DEF Within
      <4>4. B!Copied(b, x) => B!Copied(c, x)
        BY <2>11, <4>2 DEF B!Copied
      <4> QED
        BY <2>1, <4>3, <4>4 DEF B!FoundInv
    <3> QED
      BY <3>1, <3>2
  <2>17. B!DumpInv(c)
    BY <2>1, <2>11, <2>12 DEF B!DumpInv
  <2>18. left' \in BOOLEAN
    BY <1>1 DEF B!TypeOK
  <2> QED
    BY <1>1, <1>3, <2>11, <2>13, <2>16, <2>17, <2>18, OnlyBundle
<1> QED
  BY <1>1, <1>2, <1>3

LEMMA CloseStep ==
  ASSUME B!TypeOK, B!SaveInv, B!BundleInv, B!CloseDir
  PROVE  (B!TypeOK /\ B!SaveInv /\ B!BundleInv)'
<1> DEFINE b == bundle
           p == Head(b.parts)
           e(lost) == [b EXCEPT !.swallowed = IF lost THEN @ \cup {p} ELSE @]
           d(lost) == [e(lost) EXCEPT !.listed = @ \cup {Head(e(lost).parts)}]
           c(lost) == B!Onward(d(lost))
<1>1. /\ b # B!None /\ b.at = "entry" /\ b.todo = <<>>
      /\ b' = B!PartUnread(b) \/ \E lost \in BOOLEAN : b' = c(lost)
      /\ UNCHANGED <<file, row, save, left, half>>
  BY DEF B!CloseDir, B!At, B!Part, B!PartListed
<1>2. CASE b' = B!PartUnread(b)
  BY <1>1, <1>2, FailPart
<1>3. ASSUME NEW lost \in BOOLEAN, b' = c(lost)
      PROVE  (B!TypeOK /\ B!SaveInv /\ B!BundleInv)'
  <2>1. b \in B!Bundle /\ B!PartsInv(b) /\ B!FoundInv(b) /\ B!DumpInv(b)
    BY <1>1, UnderWayBundle
  <2>2. /\ b.parts # <<>> /\ p \in B!Parts /\ p \notin b.listed \cup b.warned
        /\ B!Walked(b) = {p} /\ p # "dump"
    BY <1>1, <2>1, CurrentPart
  <2> DEFINE el == e(lost)
             dl == [el EXCEPT !.listed = @ \cup {Head(el.parts)}]
             cl == B!Onward(dl)
  <2>3. /\ dl \in B!Bundle /\ dl.parts = b.parts /\ dl.found = b.found /\ dl.dumped = b.dumped
        /\ dl.archived = b.archived /\ dl.warned = b.warned /\ dl.listed = b.listed \cup {p}
        /\ dl.disturbed = b.disturbed /\ b.swallowed \subseteq dl.swallowed
        /\ dl.faulty = b.faulty
    <3>1. /\ el \in B!Bundle /\ el.parts = b.parts /\ el.found = b.found /\ el.dumped = b.dumped
          /\ el.archived = b.archived /\ el.warned = b.warned /\ el.listed = b.listed
          /\ el.disturbed = b.disturbed /\ b.swallowed \subseteq el.swallowed
          /\ el.faulty = b.faulty
      BY <2>1, <2>2 DEF B!Bundle
    <3> HIDE DEF el
    <3>2. Head(el.parts) = p
      BY <3>1
    <3>3. dl = [el EXCEPT !.listed = @ \cup {p}]
      BY <3>2
    <3> HIDE DEF dl, p
    <3>4. /\ dl \in B!Bundle /\ dl.parts = el.parts /\ dl.found = el.found
          /\ dl.dumped = el.dumped /\ dl.archived = el.archived /\ dl.warned = el.warned
          /\ dl.swallowed = el.swallowed /\ dl.disturbed = el.disturbed
          /\ dl.listed = el.listed \cup {p} /\ dl.faulty = el.faulty
      BY <2>2, <3>1, <3>3, PartIsListed
    <3> QED
      BY <3>1, <3>4
  <2> HIDE DEF dl
  <2>4. /\ cl \in B!Bundle /\ cl.parts = Tail(b.parts)
        /\ cl.at = IF Len(b.parts) = 1 THEN "manifest" ELSE "part"
        /\ cl.found = b.found /\ cl.dumped = b.dumped
        /\ cl.archived = b.archived /\ cl.warned = b.warned /\ cl.listed = b.listed \cup {p}
        /\ cl.disturbed = b.disturbed /\ b.swallowed \subseteq cl.swallowed
        /\ cl.faulty = b.faulty
    BY <2>2, <2>3, GoesOn
  <2>5. b' = cl
    BY <1>3 DEF dl, el
  <2> HIDE DEF cl
  <2>6. B!PartsInv(cl) /\ B!Walked(cl) = {}
    BY <2>1, <2>2, <2>4, PartDone
  <2>7. \A x \in b.found : \A i \in DOMAIN b.todo : b.todo[i] # x
    <3>1. DOMAIN <<>> = {}
      OBVIOUS
    <3>2. DOMAIN b.todo = {}
      BY <1>1, <3>1, Zenon
    <3> QED
      BY <3>2
  <2>8. B!FoundInv(cl)
    BY <2>1, <2>2, <2>4, <2>6, <2>7 DEF B!FoundInv, B!Copied
  <2>9. B!DumpInv(cl)
    BY <2>1, <2>2, <2>4, <2>6 DEF B!DumpInv
  <2>10. left' \in BOOLEAN
    BY <1>1 DEF B!TypeOK
  <2> QED
    BY <1>1, <2>4, <2>5, <2>6, <2>8, <2>9, <2>10, OnlyBundle
<1> QED
  BY <1>1, <1>2, <1>3

LEMMA RequestStep ==
  ASSUME B!TypeOK, B!SaveInv, B!BundleInv,
         B!AdminBackupDownload \/ B!WriteBundle \/ B!ServeFile
  PROVE  (B!TypeOK /\ B!SaveInv /\ B!BundleInv)'
<1>1. ASSUME B!AdminBackupDownload PROVE (B!TypeOK /\ B!SaveInv /\ B!BundleInv)'
  <2> DEFINE c == bundle'
             dirs == Dirs
  <2>1. /\ UNCHANGED <<file, row, save, left, half>> /\ left' \in BOOLEAN
        /\ c = [at |-> "part", parts |-> B!DumpFirst, todo |-> <<>>, found |-> {},
                size |-> 0, short |-> FALSE,
                dumped |-> [n \in Names |-> 0],
                archived |-> [n \in Names |-> [p \in B!Pair |-> B!Absent]],
                listed |-> {}, warned |-> {}, faulty |-> {}, swallowed |-> {},
                disturbed |-> {}]
    BY <1>1 DEF B!AdminBackupDownload, B!TypeOK
  <2>2. /\ dirs \in Seq(B!DirSet) /\ "dump" \notin B!DirSet
        /\ \A i, j \in DOMAIN dirs : dirs[i] = dirs[j] => i = j
        /\ B!DirSet = {dirs[i] : i \in DOMAIN dirs}
    BY Directories DEF B!DirSet
  <2> HIDE DEF dirs, c
  <2> DEFINE s == <<"dump">> \o dirs
  <2>3. /\ s \in Seq(B!Parts) /\ s # <<>> /\ Head(s) = "dump"
        /\ Distinct(s) /\ Within(s) = B!Parts
    <3>1. /\ Len(dirs) \in Nat /\ DOMAIN dirs = 1..Len(dirs)
          /\ dirs \in Seq(B!Parts) /\ <<"dump">> \in Seq(B!Parts)
          /\ \A i \in 1..Len(dirs) : dirs[i] \in B!DirSet
      BY <2>2 DEF B!Parts
    <3>2. /\ s \in Seq(B!Parts) /\ Len(s) = Len(dirs) + 1 /\ DOMAIN s = 1..(Len(dirs) + 1)
          /\ s[1] = "dump" /\ \A i \in 2..(Len(dirs) + 1) : s[i] = dirs[i - 1]
      BY <3>1
    <3>3. s # <<>> /\ Head(s) = "dump"
      BY <3>1, <3>2
    <3>4. \A i \in 2..(Len(dirs) + 1) : s[i] # "dump" /\ i - 1 \in DOMAIN dirs
      BY <2>2, <3>1, <3>2
    <3>5. Distinct(s)
      <4> SUFFICES ASSUME NEW i \in 1..(Len(dirs) + 1), NEW j \in 1..(Len(dirs) + 1), s[i] = s[j]
                   PROVE  i = j
        BY <3>2 DEF Distinct
      <4>1. CASE i = 1 \/ j = 1
        BY <3>1, <3>2, <3>4, <4>1
      <4>2. CASE i # 1 /\ j # 1
        <5>1. i \in 2..(Len(dirs) + 1) /\ j \in 2..(Len(dirs) + 1)
          BY <3>1, <4>2
        <5>2. dirs[i - 1] = dirs[j - 1] /\ i - 1 \in DOMAIN dirs /\ j - 1 \in DOMAIN dirs
          BY <3>2, <3>4, <5>1
        <5>3. i - 1 = j - 1
          BY <2>2, <5>2
        <5> QED
          BY <5>1, <5>3
      <4> QED
        BY <4>1, <4>2
    <3>6. Within(s) = B!Parts
      <4>1. ASSUME NEW x \in B!DirSet PROVE x \in Within(s)
        <5>1. PICK i \in 1..Len(dirs) : dirs[i] = x
          BY <2>2, <3>1
        <5>2. i + 1 \in DOMAIN s /\ s[i + 1] = x
          BY <3>1, <3>2, <5>1
        <5> QED
          BY <5>2 DEF Within
      <4>2. "dump" \in Within(s)
        BY <3>1, <3>2 DEF Within
      <4>3. \A i \in DOMAIN s : s[i] \in B!Parts
        BY <3>2
      <4> QED
        BY <4>1, <4>2, <4>3 DEF Within, B!Parts
    <3> HIDE DEF s
    <3> QED
      BY <3>2, <3>3, <3>5, <3>6
  <2>4. B!DumpFirst = s
    BY DEF B!DumpFirst, dirs
  <2> HIDE DEF s
  <2>5. /\ c.at = "part" /\ c.parts = s /\ c.todo = <<>> /\ c.found = {}
        /\ c.dumped = [n \in Names |-> 0] /\ c.listed = {} /\ c.warned = {}
        /\ c.faulty = {}
    BY <2>1, <2>4
  <2>6. [n \in Names |-> [p \in B!Pair |-> B!Absent]] \in B!Files
    BY DEF B!Files, B!File, B!Absent
  <2>7. c \in B!Bundle
    BY <2>1, <2>3, <2>4, <2>6 DEF B!Bundle
  <2>8. B!Walked(c) = {} /\ B!Remaining(c) = B!Parts
    BY <2>3, <2>5 DEF B!Walked, B!Remaining, Within
  <2>9. B!PartsInv(c)
    BY <2>3, <2>5, <2>8 DEF B!PartsInv, Distinct
  <2>10. B!FoundInv(c)
    BY <2>5 DEF B!FoundInv
  <2>11. B!DumpInv(c)
    <3>1. \A n \in Names, p \in B!Pair : file[n][p].v \in Nat
      BY DEF B!TypeOK, B!Files, B!File
    <3> QED
      BY <2>5, <3>1 DEF B!DumpInv
  <2> QED
    BY <2>1, <2>7, <2>9, <2>10, <2>11, OnlyBundle DEF c
<1>2. ASSUME B!ServeFile PROVE (B!TypeOK /\ B!SaveInv /\ B!BundleInv)'
  <2>1. bundle' = B!None /\ left' \in BOOLEAN /\ UNCHANGED <<file, row, save, half>>
    BY <1>2 DEF B!ServeFile, B!TypeOK
  <2> QED
    BY <2>1, OnlyBundle
<1>3. ASSUME B!WriteBundle PROVE (B!TypeOK /\ B!SaveInv /\ B!BundleInv)'
  <2>1. /\ bundle # B!None /\ bundle.at = "manifest" /\ UNCHANGED <<file, row, save, half>>
        /\ \/ bundle' = B!None /\ left' = TRUE
           \/ /\ \E lost \in SUBSET (B!Sound \cup {"manifest"}) :
                    bundle' = [bundle EXCEPT !.at = "serve", !.swallowed = @ \cup lost]
              /\ UNCHANGED left
    BY <1>3 DEF B!WriteBundle, B!At
  <2>2. left' \in BOOLEAN
    BY <2>1 DEF B!TypeOK
  <2>3. CASE bundle' = B!None
    BY <2>1, <2>2, <2>3, OnlyBundle
  <2>4. ASSUME NEW lost \in SUBSET (B!Sound \cup {"manifest"}),
               bundle' = [bundle EXCEPT !.at = "serve", !.swallowed = @ \cup lost]
        PROVE  (B!TypeOK /\ B!SaveInv /\ B!BundleInv)'
    <3> DEFINE b == bundle
               c == [b EXCEPT !.at = "serve", !.swallowed = @ \cup lost]
    <3>1. b \in B!Bundle /\ B!PartsInv(b) /\ B!FoundInv(b) /\ B!DumpInv(b)
      BY <2>1, UnderWayBundle
    <3>2. /\ c \in B!Bundle /\ c.at = "serve" /\ c.parts = b.parts /\ c.todo = b.todo
          /\ c.found = b.found /\ c.dumped = b.dumped /\ c.archived = b.archived
          /\ c.listed = b.listed /\ c.warned = b.warned /\ b.swallowed \subseteq c.swallowed
          /\ c.disturbed = b.disturbed /\ c.faulty = b.faulty
      <4> DEFINE w == b.swallowed \cup lost
      <4>1. w \in SUBSET (B!Parts \cup {"manifest"}) /\ b.swallowed \subseteq w
        BY <3>1 DEF B!Bundle, B!Sound
      <4>2. b \in B!Bundle /\ c = [b EXCEPT !.at = "serve", !.swallowed = w]
        BY <3>1
      <4> HIDE DEF w, c, b
      <4> QED
        BY <4>1, <4>2 DEF B!Bundle
    <3>3. bundle' = c
      BY <2>4
    <3> HIDE DEF c
    <3>4. B!Walked(c) = {} /\ B!Walked(b) = {}
      BY <2>1, <3>2 DEF B!Walked
    <3>5. B!PartsInv(c)
      <4>1. b.at = "manifest"
        BY <2>1
      <4> HIDE DEF b
      <4>2. B!Remaining(c) = B!Remaining(b)
        BY <3>2 DEF B!Remaining
      <4> QED
        BY <3>1, <3>2, <3>4, <4>1, <4>2 DEF B!PartsInv
    <3>6. B!FoundInv(c)
      BY <3>1, <3>2, <3>4 DEF B!FoundInv, B!Copied
    <3>7. B!DumpInv(c)
      BY <3>1, <3>2, <3>4 DEF B!DumpInv
    <3> QED
      BY <2>1, <2>2, <3>2, <3>3, <3>5, <3>6, <3>7, OnlyBundle
  <2> QED
    BY <2>1, <2>3, <2>4
<1> QED
  BY <1>1, <1>2, <1>3

LEMMA CrashStep ==
  ASSUME B!TypeOK, B!SaveInv, B!BundleInv, B!Crash
  PROVE  (B!TypeOK /\ B!SaveInv /\ B!BundleInv)'
<1>1. /\ UNCHANGED <<file, row>> /\ bundle' = B!None /\ left' = (left \/ bundle # B!None)
      /\ save' = [n \in Names |-> "idle"]
      /\ half' = half \cup {n \in Names : save[n] \in {"crt", "openkey", "key"}}
  BY DEF B!Crash
<1>2. B!TypeOK'
  <2>1. left' \in BOOLEAN
    BY <1>1 DEF B!TypeOK
  <2> QED
    BY <1>1, <2>1 DEF B!TypeOK, B!Stages
<1>3. B!SaveInv'
  BY <1>1 DEF B!SaveInv, B!TypeOK, B!Stages
<1>4. B!BundleInv'
  BY <1>1 DEF B!BundleInv
<1> QED
  BY <1>2, <1>3, <1>4

LEMMA BackupInit ==
  ASSUME B!Init
  PROVE  B!TypeOK /\ B!SaveInv /\ B!BundleInv
<1>1. /\ file \in B!Files /\ \A n \in Names, p \in B!Pair : file[n][p].v = 0 /\ ~file[n][p].cut
  BY DEF B!Init, B!Files, B!File, B!Absent
<1>2. "crt" \in B!Pair /\ "key" \in B!Pair
  BY DEF B!Pair
<1>3. B!TypeOK
  BY <1>1 DEF B!Init, B!TypeOK, B!Stages
<1>4. B!SaveInv
  BY <1>1, <1>2 DEF B!Init, B!SaveInv
<1> QED
  BY <1>3, <1>4 DEF B!Init, B!BundleInv

\* While certificates go on being saved, files grow and tell of at least what
\* their rows say, and the bundle that is being put together holds what
\* buildBackupBundle has found, dumped and warned about so far.
THEOREM BackupInvariant == B!Spec => [](B!TypeOK /\ B!SaveInv /\ B!BundleInv)
<1>1. ASSUME B!TypeOK, B!SaveInv, B!BundleInv, [B!Next]_B!vars
      PROVE  (B!TypeOK /\ B!SaveInv /\ B!BundleInv)'
  <2>1. ASSUME NEW n \in Names, B!Save(n) PROVE (B!TypeOK /\ B!SaveInv /\ B!BundleInv)'
    BY <1>1, <2>1, CertSaveStep
  <2>2. ASSUME B!AdminBackupDownload \/ B!WriteBundle \/ B!ServeFile
        PROVE  (B!TypeOK /\ B!SaveInv /\ B!BundleInv)'
    BY <1>1, <2>2, RequestStep
  <2>3. ASSUME B!WritePGDump PROVE (B!TypeOK /\ B!SaveInv /\ B!BundleInv)'
    BY <1>1, <2>3, DumpStep
  <2>4. ASSUME B!OpenDir PROVE (B!TypeOK /\ B!SaveInv /\ B!BundleInv)'
    BY <1>1, <2>4, WalkStep
  <2>5. ASSUME B!WriteHeader PROVE (B!TypeOK /\ B!SaveInv /\ B!BundleInv)'
    BY <1>1, <2>5, HeaderStep
  <2>6. ASSUME B!CopyEntry PROVE (B!TypeOK /\ B!SaveInv /\ B!BundleInv)'
    BY <1>1, <2>6, CopyStep
  <2>7. ASSUME B!CloseDir PROVE (B!TypeOK /\ B!SaveInv /\ B!BundleInv)'
    BY <1>1, <2>7, CloseStep
  <2>8. ASSUME B!Crash PROVE (B!TypeOK /\ B!SaveInv /\ B!BundleInv)'
    BY <1>1, <2>8, CrashStep
  <2>9. ASSUME UNCHANGED B!vars PROVE (B!TypeOK /\ B!SaveInv /\ B!BundleInv)'
    <3>1. UNCHANGED <<file, row, save, bundle, left, half>>
      BY <2>9 DEF B!vars
    <3>2. B!TypeOK' /\ B!SaveInv'
      BY <1>1, <3>1 DEF B!TypeOK, B!SaveInv
    <3>3. B!BundleInv'
      BY <1>1, <3>1 DEF B!BundleInv, B!PartsInv, B!FoundInv, B!DumpInv, B!Remaining,
                        B!Walked, B!Copied
    <3> QED
      BY <3>2, <3>3
  <2> QED
    BY <1>1, <2>1, <2>2, <2>3, <2>4, <2>5, <2>6, <2>7, <2>8, <2>9 DEF B!Next, B!Build
<1> QED
  BY <1>1, BackupInit, PTL DEF B!Spec

\* A bundle that is served has no part left to come and none under way.
LEMMA Served ==
  ASSUME B!TypeOK, B!BundleInv, B!At("serve")
  PROVE  /\ bundle \in B!Bundle
         /\ B!PartsInv(bundle) /\ B!FoundInv(bundle) /\ B!DumpInv(bundle)
         /\ B!Walked(bundle) = {} /\ B!Remaining(bundle) = {}
<1>1. /\ bundle \in B!Bundle /\ bundle.at = "serve"
      /\ B!PartsInv(bundle) /\ B!FoundInv(bundle) /\ B!DumpInv(bundle)
  BY UnderWayBundle DEF B!At
<1>2. bundle.parts = <<>>
  BY <1>1 DEF B!PartsInv
<1>3. DOMAIN <<>> = 1..0
  OBVIOUS
<1>4. B!Remaining(bundle) = {}
  BY <1>2, <1>3 DEF B!Remaining
<1> QED
  BY <1>1, <1>4 DEF B!Walked

LEMMA RowsFind ==
  ASSUME B!TypeOK, B!BundleInv
  PROVE  B!RowsHaveFiles
<1> SUFFICES ASSUME B!At("serve"), "dump" \in B!Sound,
                    NEW n \in Names, bundle.dumped[n] > 0, DirOf[n] \in B!Sound,
                    n \notin bundle.disturbed, NEW p \in B!Pair
             PROVE  /\ bundle.archived[n][p].v >= bundle.dumped[n]
                    /\ ~bundle.archived[n][p].cut
  BY DEF B!RowsHaveFiles
<1>1. B!FoundInv(bundle) /\ B!DumpInv(bundle)
  BY Served
<1>2. <<n, p>> \in bundle.found
  BY <1>1 DEF B!DumpInv, B!Sound
<1>3. B!Copied(bundle, <<n, p>>)
  BY <1>1, <1>2 DEF B!FoundInv, B!Sound
<1> QED
  BY <1>3 DEF B!Copied

LEMMA ToldOrThere ==
  ASSUME B!TypeOK, B!BundleInv
  PROVE  B!NothingMissingUntold
<1> SUFFICES ASSUME B!At("serve")
             PROVE  /\ B!Parts = bundle.listed \cup bundle.warned
                    /\ bundle.listed \cap bundle.warned = {}
                    /\ bundle.faulty \subseteq bundle.warned
                    /\ \A e \in bundle.found : DirOf[e[1]] \in B!Sound =>
                         /\ bundle.archived[e[1]][e[2]] # B!Absent
                         /\ bundle.archived[e[1]][e[2]].cut => e[1] \in bundle.disturbed
  BY DEF B!NothingMissingUntold
<1>1. /\ B!PartsInv(bundle) /\ B!FoundInv(bundle)
      /\ B!Walked(bundle) = {} /\ B!Remaining(bundle) = {}
  BY Served
<1>2. /\ B!Parts = bundle.listed \cup bundle.warned /\ bundle.listed \cap bundle.warned = {}
      /\ bundle.faulty \subseteq bundle.warned
  BY <1>1 DEF B!PartsInv
<1>3. ASSUME NEW e \in bundle.found, DirOf[e[1]] \in B!Sound
      PROVE  /\ bundle.archived[e[1]][e[2]] # B!Absent
             /\ bundle.archived[e[1]][e[2]].cut => e[1] \in bundle.disturbed
  <2>1. B!Copied(bundle, e)
    BY <1>1, <1>3 DEF B!FoundInv, B!Sound
  <2>2. ~(B!Absent.v > 0)
    BY DEF B!Absent
  <2> QED
    BY <2>1, <2>2 DEF B!Copied
<1> QED
  BY <1>2, <1>3

-----------------------------------------------------------------------------
(* Beside each other *)

LEMMA EachStep ==
  ASSUME [MCNext]_<<part, vars, limiterVars, backupVars, credVars, tripVars>>
  PROVE  [Next]_vars /\ [L!Next]_L!vars /\ [B!Next]_B!vars /\ [T!Next]_T!vars /\ [O!Next]_O!vars
<1>1. /\ limiterVars = L!vars /\ backupVars = B!vars /\ credVars = T!vars /\ tripVars = O!vars
      /\ limiterVars' = L!vars' /\ backupVars' = B!vars' /\ credVars' = T!vars'
      /\ tripVars' = O!vars'
  BY DEF limiterVars, backupVars, credVars, tripVars, L!vars, B!vars, T!vars, O!vars
<1>2. ASSUME Bursts PROVE Next
  BY <1>2 DEF Bursts, Next
<1>3. ASSUME Days PROVE Next
  BY <1>3 DEF Days, Next, SwitchesWebhook, AdminStep
<1>4. ASSUME Forms PROVE Next
  BY <1>4 DEF Forms, Next
<1> QED
  BY <1>1, <1>2, <1>3, <1>4 DEF MCNext

\* Whatever part moves, it moves as its own specification says, and the others
\* stand still.
THEOREM AllRun == MCSpec => Spec /\ L!Spec /\ B!Spec /\ T!Spec /\ O!Spec
<1>1. MCInit => Init /\ L!Init /\ B!Init /\ T!Init /\ O!Init
  BY DEF MCInit
<1>2. [MCNext]_<<part, vars, limiterVars, backupVars, credVars, tripVars>> =>
        [Next]_vars /\ [L!Next]_L!vars /\ [B!Next]_B!vars /\ [T!Next]_T!vars /\ [O!Next]_O!vars
  BY EachStep
<1> QED
  BY <1>1, <1>2, PTL DEF MCSpec, Spec, L!Spec, B!Spec, T!Spec, O!Spec

\* Every variable of every part keeps its type.
THEOREM TypesKept == MCSpec => []TypesOK
<1>1. TypeOK /\ L!TypeOK /\ B!TypeOK /\ T!TypeOK /\ O!TypeOK => TypesOK
  BY DEF TypesOK
<1> QED
  BY <1>1, AllRun, TypeCorrect, LimitInvariant, BackupInvariant, CredInvariant, TripInvariant, PTL

\* The failed logins of one window, with those whose password is being verified,
\* exceed the limit by no more than the logins that passed IsBlocked together.
THEOREM FailuresStayBounded == MCSpec => []FailuresBounded
<1>1. L!FailuresBounded => FailuresBounded
  BY DEF FailuresBounded
<1> QED
  BY <1>1, AllRun, LimitInvariant, PTL

\* The reset limiter never counts more requests than its limit in one window,
\* however many come at a time.
THEOREM ResetsStayBounded == MCSpec => []ResetsBounded
<1>1. L!ResetsBounded => ResetsBounded
  BY DEF ResetsBounded
<1> QED
  BY <1>1, AllRun, LimitInvariant, PTL

\* With no further attempt, an address that is blocked with no more failures than
\* the limit stays blocked for as long as RetryAfter announces, and no longer.
THEOREM RetryIsExact == MCSpec => []RetryAfterExact
<1>1. L!TypeOK => RetryAfterExact
  BY RetryExact DEF RetryAfterExact
<1> QED
  BY <1>1, AllRun, LimitInvariant, PTL

\* A row of the dump finds its certificate and its key, whole and no older than
\* the row tells, in a bundle that lists the dump and their directory with a
\* checksum, unless they were being saved, or half saved, while they were copied,
\* or an error of Close or Stat that the program ignores has spoilt one of the two
\* archives (buildBackupBundle takes the dump before the directories).
THEOREM RowsFindFiles == MCSpec => []RowsHaveFiles
<1>1. B!TypeOK /\ B!BundleInv => RowsHaveFiles
  BY RowsFind DEF RowsHaveFiles
<1> QED
  BY <1>1, AllRun, BackupInvariant, PTL

\* A manifest that came in whole has every part, with a checksum or with a warning
\* and never with both, and a warning for every part that addFile lists as an
\* error; and an archive with a checksum holds every file that was found there,
\* unless an error of Close or Stat, which the program ignores, has spoilt it
\* (what is lost that way is not told).
THEOREM MissingIsTold == MCSpec => []NothingMissingUntold
<1>1. B!TypeOK /\ B!BundleInv => NothingMissingUntold
  BY ToldOrThere DEF NothingMissingUntold
<1> QED
  BY <1>1, AllRun, BackupInvariant, PTL

\* The credential of a temporary user is shown once, and in time.
THEOREM CredentialOnce == MCSpec => []ShownOnce
<1>1. T!CredInv => ShownOnce
  BY DEF T!CredInv, ShownOnce
<1> QED
  BY <1>1, AllRun, CredInvariant, PTL

\* The provider's answer is refused only to a tab whose login another one, or
\* the end of its five minutes, has overtaken.
THEOREM RefusalsAreDue == MCSpec => []RefusedOnlyWhenOvertaken
<1>1. O!TypeOK /\ O!TripInv => RefusedOnlyWhenOvertaken
  <2> SUFFICES ASSUME O!TypeOK, O!TripInv, NEW t \in Tabs, tab[t].at = "sent", tab[t].refused
               PROVE  tab[t].overtaken
    BY DEF RefusedOnlyWhenOvertaken, O!RefusedOnlyWhenOvertaken
  <2>1. tab[t] \in O!Journeys
    BY UnderWay
  <2>2. tab[t].overtaken \in BOOLEAN
    BY <2>1 DEF O!Journeys
  <2> QED
    BY <2>1, <2>2 DEF O!TripInv
<1> QED
  BY <1>1, AllRun, TripInvariant, PTL
=============================================================================
