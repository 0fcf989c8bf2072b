------------------------------ MODULE MCConsole ------------------------------
(* Five small components that share no state, beside each other in one run:  *)
(* the rate limiters, the notifications, the backup, the credentials of      *)
(* temporary users, and logins by a provider.  `part' is chosen at the start *)
(* and says which of them moves, so that the states add up instead of        *)
(* multiplying.  The callers of sendNotification come in three parts, since  *)
(* two of them meet only in the row of a key and theirs are different:       *)
(* goroutines, the worker with an administrator who switches the webhook,    *)
(* and requests for a test or a save.                                        *)
EXTENDS Notifications, TLC

CONSTANTS
  Workers, LimitCount, LimitWindow, ResetLimitCount, ResetLimitWindow,
  Names, Dirs, DirOf, MaxVersion,
  Tokens, Posts, tempCredTTL, MaxClock,
  Tabs, MaxRounds

VARIABLES
  part,
  attempts, resets, verifying,
  file, row, save, bundle, left, half,
  now, posting, creds, filed, shown, shownLate,
  session, trip, rounds, spent, tab

L == INSTANCE LoginLimiter
B == INSTANCE Backup
T == INSTANCE TempCreds
O == INSTANCE OIDCLogin

ASSUME ConsoleAssumption == L!LimitsOK /\ B!BackupOK /\ T!TTLOK /\ MaxRounds \in Nat

\* One directory holds the certificates, another is empty.
CertsAndUploads == <<"certs", "uploads">>
AllInCerts == [n \in Names |-> "certs"]

MCInit ==
  /\ part \in {"limiters", "bursts", "days", "forms", "backup", "credentials", "provider"}
  /\ Init /\ L!Init /\ B!Init /\ T!Init /\ O!Init
  /\ part \in {"limiters", "backup", "credentials", "provider"} => settings = Defaults

Bursts ==
  \/ \E g \in Goroutines : NotifyAsync(g) \/ Send(g)
  \/ Database \/ Restart

\* An administrator switches the webhook and touches nothing else.
SwitchesWebhook(a) ==
  /\ AdminNotificationsPost(a)
  /\ admin'[a].form = [settings EXCEPT !.webhook = ~@] /\ ~admin'[a].stale

Days ==
  \/ WorkerStep \/ TimePasses \/ Database \/ Restart
  \/ \E a \in Admins \cap {CHOOSE b \in Admins : TRUE} :
       SwitchesWebhook(a) \/ SaveNotificationSettings(a)

Forms ==
  \/ AdminNotificationsTest \/ Send(Tester) \/ TestIsRead
  \/ AdminStep \/ Database \/ Restart

limiterVars == <<attempts, resets, verifying>>
backupVars == <<file, row, save, bundle, left, half>>
credVars == <<now, posting, creds, filed, shown, shownLate>>
tripVars == <<session, trip, rounds, spent, tab>>

MCNext ==
  /\ UNCHANGED part
  /\ \/ /\ part = "limiters" /\ L!Next
        /\ UNCHANGED <<vars, backupVars, credVars, tripVars>>
     \/ /\ \/ part = "bursts" /\ Bursts
           \/ part = "days" /\ Days
           \/ part = "forms" /\ Forms
        /\ UNCHANGED <<limiterVars, backupVars, credVars, tripVars>>
     \/ /\ part = "backup" /\ B!Next
        /\ UNCHANGED <<vars, limiterVars, credVars, tripVars>>
     \/ /\ part = "credentials" /\ T!Next
        /\ UNCHANGED <<vars, limiterVars, backupVars, tripVars>>
     \/ /\ part = "provider" /\ O!Next
        /\ UNCHANGED <<vars, limiterVars, backupVars, credVars>>

MCSpec ==
  /\ MCInit /\ [][MCNext]_<<part, vars, limiterVars, backupVars, credVars, tripVars>>
  /\ WF_limiterVars(part = "limiters" /\ L!Tick)
  /\ WF_vars(part = "days" /\ WorkerStep)

\* The properties of the instances, by the names they have there.
FailuresBounded == L!FailuresBounded
ResetsBounded == L!ResetsBounded
RetryAfterExact == L!RetryAfterExact
BlockLifts == L!BlockLifts
RowsHaveFiles == B!RowsHaveFiles
NothingMissingUntold == B!NothingMissingUntold
ShownOnce == T!ShownOnce
RefusedOnlyWhenOvertaken == O!RefusedOnlyWhenOvertaken
TypesOK == TypeOK /\ L!TypeOK /\ B!TypeOK /\ T!TypeOK /\ O!TypeOK
=============================================================================
