---------------------------- MODULE LetsEncrypt ----------------------------
(***************************************************************************)
(* The Let's Encrypt certificate of one domain: the row of le_certificates,*)
(* the pair of files, the ACME account, and the goroutines that issue and  *)
(* renew.                                                                  *)
(*                                                                         *)
(* A goroutine holds issueMu while it loads the account, obtains a         *)
(* certificate and writes both files; it updates the row by id after it    *)
(* has let the lock go, and by then the row may be another one or gone.    *)
(* Certificates, account keys and ids are numbers in the order they came   *)
(* to be (0: none, or a file that cannot be read), and those certificates  *)
(* are due that are not newer than `due'.  The domain is within the name   *)
(* policy: outside it nothing is issued or renewed at all.                 *)
(*                                                                         *)
(* A definition that stands right before another one with its parameters   *)
(* and is not used is a plausible bug of the code, as in UserSession.      *)
(***************************************************************************)
EXTENDS Integers, FiniteSets

CONSTANTS
  Tasks,        \* goroutines of LEIssuePost and LERenew at a time
  Renewer,      \* the goroutine of StartRenewer
  MayFail,      \* whether files and statements may fail
  MaxIds,       \* bound on the rows the domain ever has
  MaxKeys,      \* bound on account keys made
  MaxObtained,  \* bound on certificates obtained
  MaxCrashes    \* bound on restarts of the process

Nobody == "nobody"
Goroutines == Tasks \cup {Renewer}

ASSUME LetsEncryptAssumption ==
  /\ {MaxIds, MaxKeys, MaxObtained, MaxCrashes} \subseteq Nat
  /\ MayFail \in BOOLEAN /\ Renewer \notin Tasks /\ Nobody \notin Goroutines

VARIABLES
  row,       \* the row of the domain, id 0 when there is none
  ids,       \* ids given out so far
  files,     \* certificate.crt and private.key of the domain
  account,   \* the account key and the registration on file
  keys,      \* account keys made so far
  obtained,  \* certificates obtained so far
  due,       \* certificates up to this one expire within thirty days
  lock,      \* who holds issueMu
  task,      \* what each goroutine is doing
  crashes,   \* how often the process was restarted
  trouble    \* history: what went on that a promise is not made for

vars == <<row, ids, files, account, keys, obtained, due, lock, task, crashes, trouble>>
disk == <<files, account, keys, obtained>>

-----------------------------------------------------------------------------
(* Types *)

NoRow == [id |-> 0, status |-> "pending", cert |-> 0, auto |-> FALSE]
Rows == [id : 0..MaxIds, status : {"pending", "active", "error"},
         cert : 0..MaxObtained, auto : BOOLEAN]

Idle == [pc |-> "idle", id |-> 0, key |-> 0, cert |-> 0]
Locked == {"load", "create", "register", "obtain", "cert", "key"}
Task == [pc : Locked \cup {"idle", "mark", "wait", "paths", "error"},
         id : 0..MaxIds, key : 0..MaxKeys, cert : 0..MaxObtained]

TypeOK ==
  /\ row \in Rows /\ ids \in 0..MaxIds
  /\ files \in [cert : 0..MaxObtained, key : 0..MaxObtained]
  /\ account \in [key : 0..MaxKeys, reg : 0..MaxKeys] /\ keys \in 0..MaxKeys
  /\ obtained \in 0..MaxObtained /\ due \in 0..obtained
  /\ lock \in Goroutines \cup {Nobody} /\ task \in [Goroutines -> Task]
  /\ \A t \in Goroutines : task[t].pc \in Locked <=> lock = t
  /\ crashes \in 0..MaxCrashes
  /\ trouble \subseteq {"crash", "file", "database", "overlap"}

-----------------------------------------------------------------------------
(* Helpers *)

Goto(t, pc) == task' = [task EXCEPT ![t].pc = pc]
Finish(t) == task' = [task EXCEPT ![t] = Idle]

Begin(t, pc, id) ==
  /\ task[t] = Idle
  /\ task' = [task EXCEPT ![t] = [pc |-> pc, id |-> id, key |-> 0, cert |-> 0]]
  /\ trouble' = IF \E s \in Goroutines : task[s] # Idle THEN trouble \cup {"overlap"} ELSE trouble

Fails(kind) == MayFail /\ trouble' = trouble \cup {kind}

\* IssueCert returns: the lock is let go, the row is still to be updated.
Return(t, pc) == task' = [task EXCEPT ![t].pc = pc, ![t].key = 0] /\ lock' = Nobody

-----------------------------------------------------------------------------
(* The pages: LEIssuePost, LERenew, LEToggleAutoRenew, LEDelete *)

\* The domain is UNIQUE: with a row on file both the check and the INSERT refuse.
\* When the answer to the INSERT is lost the row is there and nobody works for it.
LEIssuePost(t, auto) ==
  /\ row.id = 0 /\ ids < MaxIds
  /\ ids' = ids + 1
  /\ row' = [id |-> ids + 1, status |-> "pending", cert |-> 0, auto |-> auto]
  /\ \/ Begin(t, "wait", ids + 1)
     \/ Fails("database") /\ UNCHANGED task
  /\ UNCHANGED <<disk, due, lock, crashes>>

LERenew(t) ==
  /\ row.id # 0
  /\ Begin(t, "mark", row.id)
  /\ UNCHANGED <<row, ids, disk, due, lock, crashes>>

\* The error of the UPDATE is ignored and the goroutine starts all the same.
MarkPending(t) ==
  /\ task[t].pc = "mark"
  /\ \/ /\ row' = IF row.id = task[t].id THEN [row EXCEPT !.status = "pending"] ELSE row
        /\ UNCHANGED trouble
     \/ Fails("database") /\ UNCHANGED row
  /\ Goto(t, "wait")
  /\ UNCHANGED <<ids, disk, due, lock, crashes>>

\* The opposite of a value read before, which may have changed since.
LEToggleAutoRenew(auto) ==
  /\ row.id # 0 /\ row' = [row EXCEPT !.auto = auto]
  /\ UNCHANGED <<ids, disk, due, lock, task, crashes, trouble>>

\* The row goes; the files stay, and so does a goroutine that works for it.
LEDelete ==
  /\ row.id # 0 /\ row' = NoRow
  /\ UNCHANGED <<ids, disk, due, lock, task, crashes, trouble>>

-----------------------------------------------------------------------------
(* The renewer *)

RenewalDueBeforeOnly == row.id # 0 /\ row.auto /\ row.status = "active" /\ row.cert < due
\* GetLECertsForRenewal.
RenewalDue == row.id # 0 /\ row.auto /\ row.status = "active" /\ row.cert <= due

\* Every 24 hours; what it has read is not read again while it waits.
RunRenewal ==
  /\ RenewalDue
  /\ Begin(Renewer, "wait", row.id)
  /\ UNCHANGED <<row, ids, disk, due, lock, crashes>>

-----------------------------------------------------------------------------
(* IssueCert, the same for all of them *)

LockHeldNever == FALSE
LockHeld == lock # Nobody

Lock(t) ==
  /\ task[t].pc = "wait" /\ ~LockHeld
  /\ lock' = t /\ Goto(t, "load")
  /\ UNCHANGED <<row, ids, disk, due, crashes, trouble>>

\* A registration on file is taken as it is; without one, or when it cannot be
\* read, the key in hand is registered.
Account(t, key) ==
  \/ /\ account.reg # 0
     /\ task' = [task EXCEPT ![t].pc = "obtain"]
  \/ /\ account.reg = 0 \/ MayFail
     /\ task' = [task EXCEPT ![t] = [@ EXCEPT !.pc = "register", !.key = key]]

\* loadOrCreateKey: whenever the file cannot be read or decoded, a new key is
\* made and written over it.
LoadAccountAnew(t) ==
  /\ task[t].pc = "load" /\ Goto(t, "create")
  /\ UNCHANGED <<row, ids, disk, due, lock, crashes, trouble>>
LoadAccount(t) ==
  /\ task[t].pc = "load"
  /\ \/ account.key # 0 /\ Account(t, account.key) /\ UNCHANGED trouble
     \/ account.key = 0 /\ Goto(t, "create") /\ UNCHANGED trouble
     \/ Fails("file") /\ Goto(t, "create")
  /\ UNCHANGED <<row, ids, disk, due, lock, crashes>>

CreateKey(t) ==
  /\ task[t].pc = "create" /\ keys < MaxKeys
  /\ keys' = keys + 1 /\ account' = [account EXCEPT !.key = keys + 1]
  /\ Account(t, keys + 1)
  /\ UNCHANGED <<row, ids, files, obtained, due, lock, crashes, trouble>>

\* saveRegistration may fail without consequence: the next call reads what is
\* there, or registers again if nothing can be read.
Register(t) ==
  /\ task[t].pc = "register"
  /\ \/ account' = [account EXCEPT !.reg = task[t].key]
     \/ MayFail /\ account' \in {account, [account EXCEPT !.reg = 0]}
  /\ task' = [task EXCEPT ![t].pc = "obtain", ![t].key = 0]
  /\ UNCHANGED <<row, ids, files, keys, obtained, due, lock, crashes, trouble>>

Obtain(t) ==
  /\ task[t].pc = "obtain" /\ obtained < MaxObtained
  /\ obtained' = obtained + 1
  /\ task' = [task EXCEPT ![t].cert = obtained + 1, ![t].pc = "cert"]
  /\ UNCHANGED <<row, ids, files, account, keys, due, lock, crashes, trouble>>

\* Whatever the CA or the settings are to blame for; or the key cannot be saved.
IssueFails(t) ==
  /\ task[t].pc \in {"load", "create", "register", "obtain"}
  /\ \/ UNCHANGED account
     \/ MayFail /\ task[t].pc = "create" /\ account' = [account EXCEPT !.key = 0]
  /\ Return(t, "error")
  /\ UNCHANGED <<row, ids, files, keys, obtained, due, crashes, trouble>>

WriteCert(t) ==
  /\ task[t].pc = "cert"
  /\ \/ /\ files' = [files EXCEPT !.cert = task[t].cert]
        /\ Goto(t, "key") /\ UNCHANGED <<lock, trouble>>
     \/ Fails("file") /\ files' = [files EXCEPT !.cert = 0] /\ Return(t, "error")
  /\ UNCHANGED <<row, ids, account, keys, obtained, due, crashes>>

WriteKey(t) ==
  /\ task[t].pc = "key"
  /\ \/ files' = [files EXCEPT !.key = task[t].cert] /\ Return(t, "paths") /\ UNCHANGED trouble
     \/ Fails("file") /\ files' = [files EXCEPT !.key = 0] /\ Return(t, "error")
  /\ UNCHANGED <<row, ids, account, keys, obtained, due, crashes>>

-----------------------------------------------------------------------------
(* What is recorded of it *)

\* UpdateLECertPaths and UpdateLECertStatus go by id and ignore their errors.
RecordedWithoutDates(t) ==
  [row EXCEPT !.status = IF task[t].pc = "paths" THEN "active" ELSE "error"]
RecordedWithoutError(t) ==
  IF task[t].pc = "paths" THEN [row EXCEPT !.status = "active", !.cert = task[t].cert] ELSE row
Recorded(t) ==
  IF task[t].pc = "paths" THEN [row EXCEPT !.status = "active", !.cert = task[t].cert]
                          ELSE [row EXCEPT !.status = "error"]

UpdateLECert(t) ==
  /\ task[t].pc \in {"paths", "error"}
  /\ \/ row' = (IF row.id = task[t].id THEN Recorded(t) ELSE row) /\ UNCHANGED trouble
     \/ Fails("database") /\ UNCHANGED row
  /\ Finish(t)
  /\ UNCHANGED <<ids, disk, due, lock, crashes>>

-----------------------------------------------------------------------------
(* Time and failure *)

\* Thirty days before the next oldest certificate ends.
Tick ==
  /\ due < obtained /\ due' = due + 1
  /\ UNCHANGED <<row, ids, disk, lock, task, crashes, trouble>>

\* The process ends, at worst in the middle of a file, and starts again.
Crash ==
  /\ crashes < MaxCrashes /\ crashes' = crashes + 1
  /\ trouble' = trouble \cup {"crash"}
  /\ task' = [t \in Goroutines |-> Idle] /\ lock' = Nobody
  /\ files' \in {files}
       \cup {[files EXCEPT !.cert = 0] : t \in {s \in Goroutines : task[s].pc = "cert"}}
       \cup {[files EXCEPT !.key = 0] : t \in {s \in Goroutines : task[s].pc = "key"}}
  /\ account' \in {account}
       \cup {[account EXCEPT !.key = 0] : t \in {s \in Goroutines : task[s].pc = "create"}}
       \cup {[account EXCEPT !.reg = 0] : t \in {s \in Goroutines : task[s].pc = "register"}}
  /\ UNCHANGED <<row, ids, keys, obtained, due>>

-----------------------------------------------------------------------------
(* The specification *)

Init ==
  /\ row = NoRow /\ ids = 0
  /\ files = [cert |-> 0, key |-> 0]
  /\ account = [key |-> 0, reg |-> 0] /\ keys = 0
  /\ obtained = 0 /\ due = 0
  /\ lock = Nobody /\ task = [t \in Goroutines |-> Idle]
  /\ crashes = 0 /\ trouble = {}

Page(t) == (\E auto \in BOOLEAN : LEIssuePost(t, auto)) \/ LERenew(t)

IssueCert(t) ==
  \/ LoadAccount(t) \/ CreateKey(t) \/ Register(t) \/ Obtain(t) \/ IssueFails(t)
  \/ WriteCert(t) \/ WriteKey(t)

Work(t) == MarkPending(t) \/ Lock(t) \/ IssueCert(t) \/ UpdateLECert(t)

Next ==
  \/ \E t \in Tasks : Page(t)
  \/ \E auto \in BOOLEAN : LEToggleAutoRenew(auto)
  \/ LEDelete
  \/ RunRenewal
  \/ \E t \in Goroutines : Work(t)
  \/ Tick \/ Crash

Spec == Init /\ [][Next]_vars

\* A goroutine goes on; sync.Mutex hands itself to whoever has waited longest
\* once somebody has waited for a millisecond; the loop of StartRenewer never
\* ends, and the one of its daily queries succeeds that a row waits for.  Nothing
\* is assumed of the users and of the CA.
FairSpec ==
  /\ Spec
  /\ \A t \in Goroutines : WF_vars(Work(t)) /\ SF_vars(Lock(t))
  /\ WF_vars(RunRenewal)

-----------------------------------------------------------------------------
(* Properties *)

\* Whatever goroutines issue at a time, with nobody at work the pair on file
\* is the certificate obtained last and its own key; but for a crash, or a failed
\* write, between the two files, after which they may be of two certificates until
\* the next one is written.
PairMatches ==
  lock = Nobody /\ trouble \cap {"crash", "file"} = {} =>
    files = [cert |-> obtained, key |-> obtained]

\* The registration on file is that of the account key on file, also when the
\* process ends at any point of making either.
AccountMatches == "file" \notin trouble /\ account.reg # 0 => account.reg = account.key

\* What makes the two inductive.  Who registers has the account key on file in
\* hand, who makes a key finds neither file; who has obtained a certificate and
\* not yet written both files has the newest one, and with anybody else at work, or
\* nobody, both files are that one's.
Writing == {"cert", "key"}

AccountInv ==
  "file" \notin trouble =>
    /\ account.reg # 0 => account.reg = account.key
    /\ \A t \in Goroutines :
         /\ task[t].pc = "register" => task[t].key = account.key
         /\ task[t].pc = "create" => account = [key |-> 0, reg |-> 0]

PairInv ==
  trouble \cap {"crash", "file"} = {} =>
    /\ \A t \in Goroutines :
         /\ task[t].pc \in Writing => task[t].cert = obtained
         /\ task[t].pc = "key" => files.cert = obtained
    /\ (\A t \in Goroutines : task[t].pc \notin Writing) =>
         files = [cert |-> obtained, key |-> obtained]

IssueInv == AccountInv /\ PairInv

\* At rest, an active row has the dates of the certificate on file, which is what
\* renewal goes by, unless two goroutines were at work at a time: they record in
\* another order than they issued.
RowTellsFiles ==
  /\ trouble = {} /\ \A t \in Goroutines : task[t] = Idle
  /\ row.id # 0
  => row.status # "pending" /\ (row.status = "active" => row.cert = files.cert)

\* What makes it inductive.  While nothing has gone on that it excepts, one goroutine
\* is at work at most, for the row there is; the certificate on file is the row's,
\* unless that goroutine has written it and is still to record it; and a row is
\* pending only as long as there is one.
OneAtWork == \A s, t \in Goroutines : task[s] # Idle /\ task[t] # Idle => s = t

WorksForRow == \A t \in Goroutines : task[t] # Idle /\ row.id # 0 => row.id = task[t].id

HasWritten(t) == task[t].pc \in {"key", "paths"}

WrittenIsOnFile == \A t \in Goroutines : HasWritten(t) => files.cert = task[t].cert

RowIsOnFile ==
  /\ \A t \in Goroutines : ~HasWritten(t)
  /\ row.id # 0 /\ row.status = "active"
  => row.cert = files.cert

PendingIsWorked ==
  row.id # 0 /\ row.status = "pending" => \E t \in Goroutines : task[t] # Idle

RestInv ==
  trouble = {} => OneAtWork /\ WorksForRow /\ WrittenIsOnFile /\ RowIsOnFile /\ PendingIsWorked

\* "pending" does not last, in whatever order goroutines overlap, unless the
\* process or the database failed.
Pending == row.id # 0 /\ row.status = "pending"

PendingSettles == []<>(~Pending \/ trouble \cap {"crash", "database"} # {})

\* No certificate stays due for ever: it is renewed or found to be impossible to renew,
\* unless its row is deleted or its auto-renewal switched off, or the database fails;
\* also when the process is restarted while the renewer is at it.  A restart that ends
\* a manual renewal is another matter.  It leaves the row "pending", which the renewer
\* passes over, and only another manual renewal brings the row back.
Stranded ==
  "crash" \in trouble /\ Pending /\ \A t \in Goroutines : task[t].id # row.id

NoLongerDue ==
  row.id = 0 \/ ~row.auto \/ row.cert > due \/ row.status = "error"

RenewalHappens == []<>(NoLongerDue \/ Stranded \/ "database" \in trouble)
=============================================================================
