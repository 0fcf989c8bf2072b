--------------------------- MODULE Notifications ---------------------------
(***************************************************************************)
(* Webhook notifications and the settings they are sent by.                *)
(*                                                                         *)
(* sendNotification is four statements: it reads the settings, looks its   *)
(* event up in the log, posts, and logs the outcome under the key of the   *)
(* event.  Three kinds of callers run it at the same time: goroutines that *)
(* a burst of failed logins or a failed certificate starts, the daily      *)
(* worker that walks the certificates about to expire, and an              *)
(* administrator's test.  Nothing but the log keeps two of them from       *)
(* posting the same event, and a statement of theirs may fail.             *)
(*                                                                         *)
(* The settings are one row, which an administrator replaces as a whole:   *)
(* the form is merged with what the handler read a statement earlier.      *)
(*                                                                         *)
(* A definition that stands right before another one with its parameters   *)
(* and is not used is a plausible bug of the code.                         *)
(***************************************************************************)
EXTENDS Integers

CONSTANTS
  Certs,      \* active certificates; each is one event key, id and expiry date
  Burst,      \* the key of a login burst: one address in one minute
  Goroutines, \* what notifyAsync may have running at a time
  Worker,     \* the notification worker
  Tester,     \* an administrator's request for a test
  Admins,     \* requests that save the settings
  Passwords,  \* what an administrator may type as the SMTP password
  NoKey, NoPassword,
  MaxCrashes  \* bound on the restarts of the process

VARIABLES
  settings,   \* the row of notification_settings
  log,        \* notification_log by key: rows without a key do not matter
  due,        \* the certificates whose expiry is within expiry_days
  down,       \* the database does not answer
  sender,     \* where each caller of sendNotification stands
  todo,       \* the certificates the worker has still to walk today
  admin,      \* where each request that saves stands
  crashes,
  received,   \* history: how often the receiver got the event: 0, 1, 2 (more)
  doubted,    \* history: keys whose once-ness something has put in doubt
  typed,      \* history: the password that was typed last and saved
  clobbered   \* history: a save wrote back something it had not read as stored

history == <<received, doubted, typed, clobbered>>
vars == <<settings, log, due, down, sender, todo, admin, crashes, history>>

-----------------------------------------------------------------------------
(* Types *)

Senders == Goroutines \cup {Worker, Tester}
Keys == Certs \cup {Burst}

\* The constants that name different things are different.
NamesApart ==
  /\ NoKey \notin Keys /\ Tester # Worker /\ Tester \notin Goroutines
  /\ MaxCrashes \in Nat
ASSUME NotificationAssumption == NamesApart

Kinds == {"expiring", "failed", "auth"}
Settings == [webhook : BOOLEAN, notify : SUBSET Kinds,
             password : Passwords \cup {NoPassword}]

\* GetNotificationSettings answers the defaults when there is no row.
Defaults == [webhook |-> FALSE, notify |-> Kinds, password |-> NoPassword]

Idle == [at |-> "idle"]

\* `said' is what a test told the administrator, `switched' that the webhook was
\* switched on or off while the test was under way.
Sending == [at : {"settings", "lookup", "post", "log", "told"},
            key : Keys \cup {NoKey}, kind : Kinds \cup {"test"},
            ok : BOOLEAN, said : {"", "sent", "failed"}, switched : BOOLEAN]

Saving == [at : {"save"}, form : Settings, typed : BOOLEAN, stale : BOOLEAN]

TypeOK ==
  /\ settings \in Settings
  /\ log \in [Keys -> {"none", "sent", "failed"}]
  /\ due \subseteq Certs /\ todo \subseteq Certs /\ down \in BOOLEAN
  /\ sender \in [Senders -> Sending \cup {Idle}]
  /\ admin \in [Admins -> Saving \cup {Idle}]
  /\ crashes \in 0..MaxCrashes
  /\ received \in [Keys -> 0..2] /\ doubted \subseteq Keys
  /\ typed \in Passwords \cup {NoPassword} /\ clobbered \in BOOLEAN

-----------------------------------------------------------------------------
(* Statements and callers *)

\* The worker has a context without an end.  Everybody else's statements may
\* also fail because their seven seconds are over or their client went away.
MayFail(p) == down \/ p # Worker

Begin(p, key, kind) ==
  sender' = [sender EXCEPT ![p] = [at |-> "settings", key |-> key, kind |-> kind,
               ok |-> FALSE, said |-> "", switched |-> FALSE]]

At(p, a) == sender[p].at = a
Step(p, a) == sender' = [sender EXCEPT ![p].at = a]

DaysWorkEnds(p) == {}
DaysWork(p) == todo \ {sender[p].key}

\* sendNotification returns: an error, or nil with or without a post.
Returns(p, nil) ==
  /\ sender' = [sender EXCEPT ![p] =
       IF p = Tester
       THEN [@ EXCEPT !.at = "told", !.said = IF nil THEN "sent" ELSE "failed"]
       ELSE Idle]
  /\ todo' = IF p = Worker THEN DaysWork(p) ELSE todo

\* notifyAsync, after a burst of failed logins or a failed issue or renewal.
NotifyAsync(g) ==
  /\ sender[g] = Idle
  /\ \/ Begin(g, Burst, "auth")
     \/ Begin(g, NoKey, "failed")
  /\ UNCHANGED <<settings, log, due, down, todo, admin, crashes, history>>

\* checkExpiringCertificates, at the start and once a day: it gives up when it
\* cannot read the settings or the table, or expiry is not wanted.
CheckExpiring ==
  /\ sender[Worker] = Idle /\ todo = {}
  /\ ~down /\ "expiring" \in settings.notify
  /\ todo' = due
  /\ UNCHANGED <<settings, log, due, down, sender, admin, crashes, history>>

NotifyExpiring(c) ==
  /\ sender[Worker] = Idle /\ c \in todo
  /\ Begin(Worker, c, "expiring")
  /\ UNCHANGED <<settings, log, due, down, todo, admin, crashes, history>>

\* AdminNotificationsTest reads the settings itself before it sends.
AdminNotificationsTest ==
  /\ sender[Tester] = Idle
  /\ ~down /\ settings.webhook
  /\ Begin(Tester, NoKey, "test")
  /\ UNCHANGED <<settings, log, due, down, todo, admin, crashes, history>>

TestIsRead ==
  /\ At(Tester, "told")
  /\ sender' = [sender EXCEPT ![Tester] = Idle]
  /\ UNCHANGED <<settings, log, due, down, todo, admin, crashes, history>>

-----------------------------------------------------------------------------
(* sendNotification *)

\* notificationAllowed.
Allowed(kind) == kind = "test" \/ kind \in settings.notify

GetNotificationSettings(p) ==
  /\ At(p, "settings")
  /\ \/ /\ ~down /\ settings.webhook /\ Allowed(sender[p].kind)
        /\ Step(p, IF sender[p].key = NoKey THEN "post" ELSE "lookup")
        /\ UNCHANGED todo
     \/ ~down /\ ~(settings.webhook /\ Allowed(sender[p].kind)) /\ Returns(p, TRUE)
     \/ MayFail(p) /\ Returns(p, FALSE)
  /\ UNCHANGED <<settings, log, due, down, admin, crashes, history>>

\* Others that have found the event new and have not logged it.
Posting(p, key) == \E q \in Senders \ {p} : sender[q] # Idle /\ sender[q].key = key
                                              /\ sender[q].at \in {"post", "log"}

Doubting(cond, key) == IF cond THEN doubted \cup {key} ELSE doubted

IsLoggedAsSent(k) == log[k] = "sent"
IsLogged(k) == log[k] # "none"

\* NotificationEventExists takes an error for "no".
NotificationEventExists(p) ==
  LET k == sender[p].key IN
  /\ At(p, "lookup")
  /\ \/ ~down /\ IsLogged(k) /\ Returns(p, TRUE) /\ UNCHANGED doubted
     \/ /\ \/ ~down /\ ~IsLogged(k) /\ doubted' = Doubting(Posting(p, k), k)
           \/ MayFail(p) /\ doubted' = Doubting(log[k] # "none" \/ Posting(p, k), k)
        /\ Step(p, "post") /\ UNCHANGED todo
  /\ UNCHANGED <<settings, log, due, down, admin, crashes, received, typed, clobbered>>

\* The post: answered with 2xx, refused, not received, or received with the
\* answer lost to the five seconds of the client.
Post(p) ==
  /\ At(p, "post")
  /\ \E got \in BOOLEAN, ok \in BOOLEAN :
       /\ ok => got
       /\ sender' = [sender EXCEPT ![p].at = "log", ![p].ok = ok]
       /\ LET k == sender[p].key
          IN received' = IF got /\ k # NoKey /\ received[k] < 2
                         THEN [received EXCEPT ![k] = @ + 1] ELSE received
  /\ UNCHANGED <<settings, log, due, down, todo, admin, crashes, doubted, typed, clobbered>>

LogOverwrites(k, outcome) == [log EXCEPT ![k] = outcome]
LogOnce(k, outcome) == IF log[k] = "none" THEN [log EXCEPT ![k] = outcome] ELSE log

OutcomeSwallowed(p) == TRUE
Outcome(p) == sender[p].ok

\* AddNotificationLog, whose error is ignored.
AddNotificationLog(p) ==
  LET k == sender[p].key IN
  /\ At(p, "log")
  /\ Returns(p, Outcome(p))
  /\ \/ /\ ~down /\ UNCHANGED doubted
        /\ log' = IF k = NoKey THEN log
                  ELSE LogOnce(k, IF sender[p].ok THEN "sent" ELSE "failed")
     \/ /\ MayFail(p) /\ UNCHANGED log
        /\ doubted' = IF k = NoKey THEN doubted ELSE doubted \cup {k}
  /\ UNCHANGED <<settings, due, down, admin, crashes, received, typed, clobbered>>

-----------------------------------------------------------------------------
(* The settings *)

MergedBlank(current, pwd) == pwd
Merged(current, pwd) == IF pwd = NoPassword THEN current ELSE pwd

\* AdminNotificationsPost reads the row and merges the form with it; when it
\* cannot read it, with the defaults.
AdminNotificationsPost(a) ==
  /\ admin[a] = Idle
  /\ \E webhook \in BOOLEAN, notify \in {Kinds, {}}, pwd \in Passwords \cup {NoPassword},
        read \in BOOLEAN :
       /\ read => ~down
       /\ LET current == IF read THEN settings ELSE Defaults
              form == [webhook |-> webhook, notify |-> notify,
                       password |-> Merged(current.password, pwd)]
          IN admin' = [admin EXCEPT ![a] = [at |-> "save", form |-> form,
                         typed |-> pwd # NoPassword, stale |-> ~read]]
  /\ UNCHANGED <<settings, log, due, down, sender, todo, crashes, history>>

\* Whoever has read another password than is stored now is going to write it
\* back.
SaveNotificationSettings(a) ==
  LET s == admin[a] IN
  /\ s # Idle
  /\ \/ /\ ~down
        /\ settings' = s.form
        /\ admin' = [b \in Admins |->
             IF b = a THEN Idle
             ELSE IF admin[b] # Idle /\ s.form.password # settings.password
                  THEN [admin[b] EXCEPT !.stale = TRUE] ELSE admin[b]]
        /\ typed' = IF s.typed THEN s.form.password ELSE typed
        /\ clobbered' = (~s.typed /\ (clobbered \/ s.stale))
        /\ sender' = IF sender[Tester] # Idle /\ s.form.webhook # settings.webhook
                     THEN [sender EXCEPT ![Tester].switched = TRUE] ELSE sender
     \/ /\ admin' = [admin EXCEPT ![a] = Idle]
        /\ UNCHANGED <<settings, typed, clobbered, sender>>
  /\ UNCHANGED <<log, due, down, todo, crashes, received, doubted>>

-----------------------------------------------------------------------------
(* The environment *)

\* A certificate comes near its end; it is renewed, revoked or expires.
ComesDue == due' \in {due \cup {c} : c \in Certs} /\ due' # due
GoesOff == due' \in {due \ {c} : c \in Certs} /\ due' # due
TimePasses ==
  /\ ComesDue \/ GoesOff
  /\ UNCHANGED <<settings, log, down, sender, todo, admin, crashes, history>>

Database ==
  /\ down' = ~down
  /\ UNCHANGED <<settings, log, due, sender, todo, admin, crashes, history>>

\* The process stops in the middle of everything and starts again.
Restart ==
  /\ crashes < MaxCrashes /\ crashes' = crashes + 1
  /\ sender' = [p \in Senders |-> Idle] /\ admin' = [a \in Admins |-> Idle]
  /\ todo' = {}
  /\ doubted' = doubted \cup {k \in Keys : \E p \in Senders :
       sender[p] # Idle /\ sender[p].at \in {"post", "log"} /\ sender[p].key = k}
  /\ UNCHANGED <<settings, log, due, down, received, typed, clobbered>>

-----------------------------------------------------------------------------
(* The specification *)

\* The webhook may have been switched on before the process started.
Init ==
  /\ settings \in {Defaults, [Defaults EXCEPT !.webhook = TRUE]}
  /\ log = [k \in Keys |-> "none"]
  /\ due = {} /\ todo = {} /\ down = FALSE /\ crashes = 0
  /\ sender = [p \in Senders |-> Idle] /\ admin = [a \in Admins |-> Idle]
  /\ received = [k \in Keys |-> 0] /\ doubted = {}
  /\ typed = NoPassword /\ clobbered = FALSE

Send(p) ==
  /\ sender[p] # Idle
  /\ \/ GetNotificationSettings(p) \/ NotificationEventExists(p)
     \/ Post(p) \/ AddNotificationLog(p)

WorkerStep == CheckExpiring \/ (\E c \in Certs : NotifyExpiring(c)) \/ Send(Worker)
AdminStep == \E a \in Admins : AdminNotificationsPost(a) \/ SaveNotificationSettings(a)

Next ==
  \/ \E g \in Goroutines : NotifyAsync(g) \/ Send(g)
  \/ WorkerStep
  \/ AdminNotificationsTest \/ Send(Tester) \/ TestIsRead
  \/ AdminStep
  \/ TimePasses \/ Database \/ Restart

Spec == Init /\ [][Next]_vars

\* The goroutine of the worker runs, its ticker ticks, and every statement and
\* every post of its ends, with an answer or an error.
FairSpec == Spec /\ WF_vars(WorkerStep)

-----------------------------------------------------------------------------
(* Properties *)

\* The receiver gets an event of a key once, unless two callers had both found
\* it new, or its look-up or its log entry failed, or the process stopped
\* between the post and the log (sendNotification).
AtMostOnce == \A k \in Keys : received[k] > 1 => k \in doubted

\* "Webhook test sent" means a post that was answered with success, unless the
\* webhook was switched meanwhile: AdminNotificationsTest looks at the settings
\* and sendNotification at them again.
TestTellsTruth ==
  LET t == sender[Tester] IN
  t # Idle /\ t.said = "sent" => t.ok \/ t.switched

\* The stored SMTP password is the one an administrator typed last, unless a
\* form with a blank one wrote back the default of a read that failed or what
\* another save had replaced (parseSMTPFields).
PasswordKept == settings.password = typed \/ clobbered

\* Only a password somebody typed replaces the stored one, as the comment on
\* parseSMTPFields says.
BlankKeepsPassword ==
  [][settings'.password # settings.password
       => \E a \in Admins : admin[a] # Idle /\ admin[a].typed /\ admin'[a] = Idle]_vars

\* A certificate that is and stays about to expire is attempted to be announced
\* and logged, once the webhook is and stays on and the database answers.
Wanted(c) == ~down /\ settings.webhook /\ "expiring" \in settings.notify /\ c \in due
DueIsAttempted == \A c \in Certs : <>[]Wanted(c) => <>(log[c] # "none")
=============================================================================
