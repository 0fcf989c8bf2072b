------------------------- MODULE LetsEncryptProofs -------------------------
(* Theorems about LetsEncrypt, for any number of goroutines, rows, keys,     *)
(* certificates and restarts.                                                *)
EXTENDS LetsEncrypt, TLAPS

-----------------------------------------------------------------------------
(* Types *)

LEMMA Bounds ==
  /\ MaxIds \in Nat /\ MaxKeys \in Nat /\ MaxObtained \in Nat /\ MaxCrashes \in Nat
  /\ Renewer \in Goroutines /\ Nobody \notin Goroutines
  BY LetsEncryptAssumption DEF LetsEncryptAssumption, Goroutines

\* The types of the variables one by one; `held' is the one about the lock.
RowType == row \in Rows /\ ids \in 0..MaxIds
DiskType ==
  /\ files \in [cert : 0..MaxObtained, key : 0..MaxObtained]
  /\ account \in [key : 0..MaxKeys, reg : 0..MaxKeys] /\ keys \in 0..MaxKeys
  /\ obtained \in 0..MaxObtained /\ due \in 0..obtained
TaskType == lock \in Goroutines \cup {Nobody} /\ task \in [Goroutines -> Task]
Held == \A t \in Goroutines : task[t].pc \in Locked <=> lock = t
OtherType ==
  crashes \in 0..MaxCrashes /\ trouble \subseteq {"crash", "file", "database", "overlap"}

\* A goroutine that goes on, with the lock as it is.
LEMMA GotoType ==
  ASSUME TaskType, Held, NEW t \in Goroutines, NEW pc, Goto(t, pc), UNCHANGED lock,
         \/ task[t].pc \in Locked /\ pc \in Locked
         \/ task[t].pc \notin Locked /\ pc \in {"wait", "mark", "paths", "error"}
  PROVE  TaskType' /\ Held'
<1>1. [task[t] EXCEPT !.pc = pc] \in Task /\ [task[t] EXCEPT !.pc = pc].pc = pc
  BY DEF TaskType, Task, Locked
<1>2. pc \in Locked <=> task[t].pc \in Locked
  BY DEF Locked
<1> QED
  BY <1>1, <1>2 DEF TaskType, Held, Goto

\* A goroutine that gets the lock.
LEMMA LockType ==
  ASSUME TaskType, Held, NEW t \in Goroutines, Lock(t)
  PROVE  TaskType' /\ Held'
<1>1. [task[t] EXCEPT !.pc = "load"] \in Task /\ [task[t] EXCEPT !.pc = "load"].pc = "load"
  BY DEF TaskType, Task, Locked
<1> QED
  BY <1>1, Bounds DEF TaskType, Held, Lock, LockHeld, Goto, Locked

\* A goroutine that lets it go.
LEMMA ReturnType ==
  ASSUME TaskType, Held, NEW t \in Goroutines, task[t].pc \in Locked,
         NEW pc \in {"paths", "error"}, Return(t, pc)
  PROVE  TaskType' /\ Held'
<1> DEFINE r == [task[t] EXCEPT !.pc = pc, !.key = 0]
<1>1. task' = [task EXCEPT ![t] = r] /\ lock' = Nobody
  BY DEF Return
<1>2. r \in Task /\ r.pc = pc /\ pc \notin Locked
  <2>1. task[t] \in Task /\ 0 \in 0..MaxKeys
    BY Bounds DEF TaskType
  <2>2. pc \in Locked \cup {"idle", "mark", "wait", "paths", "error"} /\ pc \notin Locked
    BY DEF Locked
  <2> QED
    BY <2>1, <2>2 DEF Task
<1>3. lock = t /\ \A s \in Goroutines : s # t => task[s].pc \notin Locked
  BY DEF Held
<1> HIDE DEF r
<1> QED
  BY <1>1, <1>2, <1>3, Bounds DEF TaskType, Held

\* A goroutine that begins or ends, outside the lock.
LEMMA IdleType == Idle \in Task /\ Idle.pc \notin Locked
  BY Bounds DEF Idle, Task, Locked

LEMMA FinishType ==
  ASSUME TaskType, Held, NEW t \in Goroutines, task[t].pc \notin Locked, Finish(t),
         UNCHANGED lock
  PROVE  TaskType' /\ Held'
  BY IdleType DEF TaskType, Held, Finish

LEMMA BeginType ==
  ASSUME TaskType, Held, OtherType, NEW t \in Goroutines, NEW pc \in {"wait", "mark"},
         NEW id \in 0..MaxIds, Begin(t, pc, id), UNCHANGED <<lock, crashes>>
  PROVE  TaskType' /\ Held' /\ OtherType'
<1> DEFINE r == [pc |-> pc, id |-> id, key |-> 0, cert |-> 0]
<1>1. r \in Task /\ r.pc \notin Locked
  <2>1. pc \in Locked \cup {"idle", "mark", "wait", "paths", "error"} /\ pc \notin Locked
    BY DEF Locked
  <2> QED
    BY <2>1, Bounds DEF Task
<1>2. task[t] = Idle /\ task' = [task EXCEPT ![t] = r]
  BY DEF Begin
<1>3. TaskType' /\ Held'
  BY <1>1, <1>2, IdleType DEF TaskType, Held
<1> QED
  BY <1>3 DEF OtherType, Begin

\* A goroutine that has found what it needs of the account.
LEMMA AccountType ==
  ASSUME TaskType, Held, NEW t \in Goroutines, task[t].pc \in Locked,
         NEW key \in 0..MaxKeys, Account(t, key), UNCHANGED lock
  PROVE  TaskType' /\ Held'
<1>1. [task[t] EXCEPT !.pc = "obtain"] \in Task /\ [task[t] EXCEPT !.pc = "obtain"].pc \in Locked
  BY DEF TaskType, Task, Locked
<1>2. /\ [task[t] EXCEPT !.pc = "register", !.key = key] \in Task
      /\ [task[t] EXCEPT !.pc = "register", !.key = key].pc \in Locked
  BY DEF TaskType, Task, Locked
<1> QED
  BY <1>1, <1>2 DEF TaskType, Held, Account

LEMMA TypeInit == Init => TypeOK
  BY Bounds DEF Init, TypeOK, NoRow, Rows, Idle, Task, Locked

LEMMA FailsType ==
  ASSUME OtherType, NEW kind \in {"file", "database"}, Fails(kind), UNCHANGED crashes
  PROVE  OtherType'
  BY DEF OtherType, Fails

LEMMA TypeStep == TypeOK /\ [Next]_vars => TypeOK'
<1> SUFFICES ASSUME RowType, DiskType, TaskType, Held, OtherType, [Next]_vars
             PROVE  RowType' /\ DiskType' /\ TaskType' /\ Held' /\ OtherType'
  BY DEF TypeOK, RowType, DiskType, TaskType, Held, OtherType
<1>1. ASSUME NEW t \in Tasks, NEW auto \in BOOLEAN, LEIssuePost(t, auto)
      PROVE  RowType' /\ DiskType' /\ TaskType' /\ Held' /\ OtherType'
  <2>1. ids + 1 \in 0..MaxIds /\ t \in Goroutines
    BY <1>1, Bounds DEF LEIssuePost, RowType, Goroutines
  <2>2. RowType'
    BY <1>1, <2>1, Bounds DEF LEIssuePost, RowType, Rows
  <2>3. DiskType' /\ UNCHANGED <<lock, crashes>>
    BY <1>1 DEF LEIssuePost, DiskType, disk
  <2>4. CASE Begin(t, "wait", ids + 1)
    BY <2>1, <2>2, <2>3, <2>4, BeginType
  <2>5. CASE Fails("database") /\ UNCHANGED task
    <3>1. TaskType' /\ Held'
      BY <2>3, <2>5 DEF TaskType, Held
    <3> QED
      BY <2>2, <2>3, <2>5, <3>1, FailsType
  <2> QED
    BY <1>1, <2>4, <2>5 DEF LEIssuePost
<1>2. ASSUME NEW t \in Tasks, LERenew(t)
      PROVE  RowType' /\ DiskType' /\ TaskType' /\ Held' /\ OtherType'
  <2>1. row.id \in 0..MaxIds /\ t \in Goroutines
    BY DEF RowType, Rows, Goroutines
  <2> QED
    BY <1>2, <2>1, BeginType DEF LERenew, RowType, DiskType, disk
<1>3. ASSUME NEW auto \in BOOLEAN, LEToggleAutoRenew(auto)
      PROVE  RowType' /\ DiskType' /\ TaskType' /\ Held' /\ OtherType'
  <2>1. [row EXCEPT !.auto = auto] \in Rows
    <3>1. row \in Rows
      BY DEF RowType
    <3> QED
      BY <3>1, Zenon DEF Rows
  <2> QED
    BY <1>3, <2>1 DEF LEToggleAutoRenew, RowType, DiskType, TaskType, Held, OtherType, disk
<1>4. ASSUME LEDelete
      PROVE  RowType' /\ DiskType' /\ TaskType' /\ Held' /\ OtherType'
  <2>1. NoRow \in Rows
    BY Bounds DEF NoRow, Rows
  <2> QED
    BY <1>4, <2>1 DEF LEDelete, RowType, DiskType, TaskType, Held, OtherType, disk
<1>5. ASSUME RunRenewal
      PROVE  RowType' /\ DiskType' /\ TaskType' /\ Held' /\ OtherType'
  <2>1. row.id \in 0..MaxIds
    BY DEF RowType, Rows
  <2> QED
    BY <1>5, <2>1, Bounds, BeginType DEF RunRenewal, RowType, DiskType, disk
<1>6. ASSUME NEW t \in Goroutines, MarkPending(t)
      PROVE  RowType' /\ DiskType' /\ TaskType' /\ Held' /\ OtherType'
  <2>1. TaskType' /\ Held'
    BY <1>6, GotoType DEF MarkPending, Locked
  <2>2. RowType'
    BY <1>6 DEF MarkPending, RowType, Rows
  <2>3. OtherType'
    BY <1>6, FailsType DEF MarkPending, OtherType
  <2> QED
    BY <1>6, <2>1, <2>2, <2>3 DEF MarkPending, DiskType, disk
<1>7. ASSUME NEW t \in Goroutines, Lock(t)
      PROVE  RowType' /\ DiskType' /\ TaskType' /\ Held' /\ OtherType'
  BY <1>7, LockType DEF Lock, RowType, DiskType, OtherType, disk
<1>8. ASSUME NEW t \in Goroutines, LoadAccount(t)
      PROVE  RowType' /\ DiskType' /\ TaskType' /\ Held' /\ OtherType'
  <2>1. account.key \in 0..MaxKeys /\ task[t].pc \in Locked
    BY <1>8 DEF LoadAccount, DiskType, Locked
  <2>2. TaskType' /\ Held'
    BY <1>8, <2>1, AccountType, GotoType DEF LoadAccount, Locked
  <2>3. OtherType'
    BY <1>8, FailsType DEF LoadAccount, OtherType
  <2> QED
    BY <1>8, <2>2, <2>3 DEF LoadAccount, RowType, DiskType, disk
<1>9. ASSUME NEW t \in Goroutines, CreateKey(t)
      PROVE  RowType' /\ DiskType' /\ TaskType' /\ Held' /\ OtherType'
  <2>1. keys + 1 \in 0..MaxKeys /\ task[t].pc \in Locked
    BY <1>9, Bounds DEF CreateKey, DiskType, Locked
  <2>2. TaskType' /\ Held'
    BY <1>9, <2>1, AccountType DEF CreateKey
  <2>3. DiskType'
    BY <1>9, <2>1 DEF CreateKey, DiskType
  <2> QED
    BY <1>9, <2>2, <2>3 DEF CreateKey, RowType, OtherType
<1>10. ASSUME NEW t \in Goroutines, Register(t)
       PROVE  RowType' /\ DiskType' /\ TaskType' /\ Held' /\ OtherType'
  <2>1. task[t] \in Task /\ task[t].pc = "register" /\ lock' = lock
        /\ task' = [task EXCEPT ![t].pc = "obtain", ![t].key = 0]
    BY <1>10 DEF Register, TaskType
  <2>2. [task[t] EXCEPT !.pc = "obtain", !.key = 0] \in Task
    <3>1. "obtain" \in Locked /\ 0 \in 0..MaxKeys
      BY Bounds DEF Locked
    <3> QED
      BY <2>1, <3>1 DEF Task
  <2>3. TaskType' /\ Held'
    BY <2>1, <2>2 DEF TaskType, Held, Locked
  <2>4. DiskType'
    BY <1>10, <2>1, Bounds DEF Register, DiskType, Task
  <2> QED
    BY <1>10, <2>3, <2>4 DEF Register, RowType, OtherType
<1>11. ASSUME NEW t \in Goroutines, Obtain(t)
       PROVE  RowType' /\ DiskType' /\ TaskType' /\ Held' /\ OtherType'
  <2>1. obtained + 1 \in 0..MaxObtained /\ due \in 0..(obtained + 1)
    BY <1>11, Bounds DEF Obtain, DiskType
  <2>2. task[t] \in Task /\ task[t].pc = "obtain" /\ lock' = lock
        /\ task' = [task EXCEPT ![t].cert = obtained + 1, ![t].pc = "cert"]
    BY <1>11 DEF Obtain, TaskType
  <2>3. [task[t] EXCEPT !.cert = obtained + 1, !.pc = "cert"] \in Task
    BY <2>1, <2>2 DEF Task, Locked
  <2>4. TaskType' /\ Held'
    BY <2>2, <2>3 DEF TaskType, Held, Locked
  <2>5. DiskType'
    BY <1>11, <2>1 DEF Obtain, DiskType
  <2> QED
    BY <1>11, <2>4, <2>5 DEF Obtain, RowType, OtherType
<1>12. ASSUME NEW t \in Goroutines, IssueFails(t)
       PROVE  RowType' /\ DiskType' /\ TaskType' /\ Held' /\ OtherType'
  <2>1. TaskType' /\ Held'
    BY <1>12, ReturnType DEF IssueFails, Locked
  <2>2. DiskType'
    BY <1>12, Bounds DEF IssueFails, DiskType
  <2> QED
    BY <1>12, <2>1, <2>2 DEF IssueFails, RowType, OtherType
<1>13. ASSUME NEW t \in Goroutines, WriteCert(t) \/ WriteKey(t)
       PROVE  RowType' /\ DiskType' /\ TaskType' /\ Held' /\ OtherType'
  <2>1. task[t].cert \in 0..MaxObtained
    BY DEF TaskType, Task
  <2>2. task[t].pc \in Locked
    BY <1>13 DEF WriteCert, WriteKey, Locked
  <2>3. TaskType' /\ Held'
    BY <1>13, <2>2, ReturnType, GotoType DEF WriteCert, WriteKey, Locked
  <2>4. DiskType'
    BY <1>13, <2>1, Bounds DEF WriteCert, WriteKey, DiskType
  <2>5. OtherType'
    BY <1>13, FailsType DEF WriteCert, WriteKey, OtherType
  <2> QED
    BY <1>13, <2>3, <2>4, <2>5 DEF WriteCert, WriteKey, RowType
<1>14. ASSUME NEW t \in Goroutines, UpdateLECert(t)
       PROVE  RowType' /\ DiskType' /\ TaskType' /\ Held' /\ OtherType'
  <2>1. task[t].cert \in 0..MaxObtained /\ task[t].pc \notin Locked
    BY <1>14 DEF UpdateLECert, TaskType, Task, Locked
  <2>2. TaskType' /\ Held'
    BY <1>14, <2>1, FinishType DEF UpdateLECert
  <2>3. Recorded(t) \in Rows
    BY <2>1 DEF Recorded, RowType, Rows
  <2>4. OtherType'
    BY <1>14, FailsType DEF UpdateLECert, OtherType
  <2> QED
    BY <1>14, <2>2, <2>3, <2>4 DEF UpdateLECert, RowType, DiskType, disk
<1>15. ASSUME Tick
       PROVE  RowType' /\ DiskType' /\ TaskType' /\ Held' /\ OtherType'
  BY <1>15, Bounds DEF Tick, RowType, DiskType, TaskType, Held, OtherType, disk
<1>16. ASSUME Crash
       PROVE  RowType' /\ DiskType' /\ TaskType' /\ Held' /\ OtherType'
  <2>1. TaskType' /\ Held'
    BY <1>16, IdleType, Bounds DEF Crash, TaskType, Held
  <2>2. files' \in [cert : 0..MaxObtained, key : 0..MaxObtained]
    BY <1>16, Bounds DEF Crash, DiskType
  <2>3. account' \in [key : 0..MaxKeys, reg : 0..MaxKeys]
    BY <1>16, Bounds DEF Crash, DiskType
  <2>4. OtherType'
    BY <1>16, Bounds DEF Crash, OtherType
  <2> QED
    BY <1>16, <2>1, <2>2, <2>3, <2>4 DEF Crash, RowType, DiskType
<1>17. CASE UNCHANGED vars
  BY <1>17 DEF vars, disk, RowType, DiskType, TaskType, Held, OtherType
<1> QED
  BY <1>1, <1>2, <1>3, <1>4, <1>5, <1>6, <1>7, <1>8, <1>9, <1>10, <1>11, <1>12, <1>13,
     <1>14, <1>15, <1>16, <1>17
  DEF Next, Page, Work, IssueCert

\* Every state has the shape the code gives it, and the mutex is held by exactly
\* the goroutine that is inside IssueCert, whatever the number of goroutines.
THEOREM TypeCorrect == Spec => []TypeOK
  BY TypeInit, TypeStep, PTL DEF Spec

-----------------------------------------------------------------------------
(* The account and the pair of files *)

\* One goroutine at a time is inside IssueCert, so that a step of another one is
\* not between two of its statements.
LEMMA OneInside ==
  ASSUME TypeOK, NEW s \in Goroutines, NEW t \in Goroutines,
         task[s].pc \in Locked, task[t].pc \in Locked
  PROVE  s = t
  BY DEF TypeOK

\* Nothing that the two are about changes: the files, the account (unless a file has
\* failed already), who is where inside IssueCert; trouble only grows.
IssueKept ==
  /\ UNCHANGED <<files, obtained>> /\ trouble \subseteq trouble'
  /\ "file" \notin trouble => UNCHANGED account
  /\ \A t \in Goroutines :
       task'[t].pc \in {"create", "register"} \cup Writing \/ task[t].pc \in Writing
         => task'[t] = task[t]

LEMMA KeptStep ==
  ASSUME TypeOK, IssueInv, IssueKept
  PROVE  IssueInv'
<1>1. AccountInv'
  BY DEF IssueInv, AccountInv, IssueKept
<1>2. PairInv'
  <2> SUFFICES ASSUME trouble' \cap {"crash", "file"} = {}
               PROVE  /\ \A t \in Goroutines :
                           /\ task'[t].pc \in Writing => task'[t].cert = obtained'
                           /\ task'[t].pc = "key" => files'.cert = obtained'
                      /\ (\A t \in Goroutines : task'[t].pc \notin Writing) =>
                           files' = [cert |-> obtained', key |-> obtained']
    BY DEF PairInv
  <2>1. trouble \cap {"crash", "file"} = {}
    BY DEF IssueKept
  <2>2. \A t \in Goroutines : task[t].pc \in Writing <=> task'[t].pc \in Writing
    BY DEF IssueKept
  <2> QED
    BY <2>1, <2>2 DEF IssueInv, PairInv, IssueKept, Writing
<1> QED
  BY <1>1, <1>2 DEF IssueInv

LEMMA IssueInit == Init => IssueInv
  BY DEF Init, IssueInv, AccountInv, PairInv, Idle, Writing

LEMMA IssueStep == TypeOK /\ IssueInv /\ [Next]_vars => IssueInv'
<1> SUFFICES ASSUME TypeOK, IssueInv, [Next]_vars PROVE IssueInv'
  OBVIOUS
<1>0. task \in [Goroutines -> Task] /\ Renewer \in Goroutines
  BY Bounds DEF TypeOK
<1>1. ASSUME NEW t \in Goroutines, NEW pc \in {"wait", "mark"}, NEW id, Begin(t, pc, id),
             UNCHANGED disk
      PROVE  IssueInv'
  <2>1. task[t].pc = "idle" /\ task'[t].pc = pc /\ trouble \subseteq trouble'
        /\ \A s \in Goroutines : s # t => task'[s] = task[s]
    BY <1>0, <1>1 DEF Begin, Idle
  <2> QED
    BY <1>1, <2>1, KeptStep DEF IssueKept, Writing, disk
<1>14. ASSUME Fails("database"), UNCHANGED <<disk, task>> PROVE IssueInv'
  BY <1>14, KeptStep DEF Fails, disk, IssueKept
<1>2. ASSUME LEDelete \/ Tick \/ (\E auto \in BOOLEAN : LEToggleAutoRenew(auto)) \/ UNCHANGED vars
      PROVE  IssueInv'
  BY <1>2, KeptStep DEF LEDelete, Tick, LEToggleAutoRenew, vars, disk, IssueKept
<1>3. ASSUME NEW t \in Goroutines, MarkPending(t) \/ Lock(t) \/ UpdateLECert(t) \/ IssueFails(t)
      PROVE  IssueInv'
  <2>1. UNCHANGED <<files, obtained>> /\ trouble \subseteq trouble'
    BY <1>3 DEF MarkPending, Lock, UpdateLECert, IssueFails, Fails, disk
  <2>2. "file" \notin trouble => UNCHANGED account
    <3>1. CASE IssueFails(t)
      <4>1. "file" \notin trouble /\ task[t].pc = "create" => account = [key |-> 0, reg |-> 0]
        BY DEF IssueInv, AccountInv
      <4> QED
        BY <3>1, <4>1 DEF IssueFails
    <3>2. CASE MarkPending(t) \/ Lock(t) \/ UpdateLECert(t)
      BY <3>2 DEF MarkPending, Lock, UpdateLECert, disk
    <3> QED
      BY <1>3, <3>1, <3>2
  <2>3. task[t].pc \notin Writing
    BY <1>3 DEF MarkPending, Lock, UpdateLECert, IssueFails, Writing
  <2>4. task'[t].pc \in {"wait", "load", "idle", "error"}
        /\ \A s \in Goroutines : s # t => task'[s] = task[s]
    BY <1>0, <1>3
    DEF MarkPending, Lock, UpdateLECert, IssueFails, Goto, Finish, Return, Idle, Task
  <2> QED
    BY <2>1, <2>2, <2>3, <2>4, KeptStep DEF IssueKept, Writing
<1>4. ASSUME NEW t \in Goroutines, task[t].pc \in Locked
      PROVE  \A s \in Goroutines : s # t => task[s].pc \notin Locked
  BY <1>4, OneInside
<1>5. ASSUME NEW t \in Goroutines, LoadAccount(t) PROVE IssueInv'
  <2>1. /\ task[t].pc = "load" /\ UNCHANGED <<files, account, obtained>>
        /\ trouble \subseteq trouble'
        /\ \A s \in Goroutines : s # t => task'[s] = task[s]
    BY <1>0, <1>5 DEF LoadAccount, Account, Goto, Fails, disk
  <2>2. \A s \in Goroutines : s # t => task[s].pc \notin Locked
    BY <1>4, <2>1 DEF Locked
  <2>3. task'[t].pc \in {"obtain", "register", "create"}
    BY <1>0, <1>5 DEF LoadAccount, Account, Goto, Task
  <2>4. PairInv'
    BY <2>1, <2>2, <2>3 DEF IssueInv, PairInv, Writing, Locked
  <2>5. ASSUME "file" \notin trouble'
        PROVE  /\ task'[t].pc = "register" => task'[t].key = account'.key
               /\ task'[t].pc = "create" => account' = [key |-> 0, reg |-> 0]
    <3>1. "file" \notin trouble /\ (account.reg # 0 => account.reg = account.key)
      BY <2>1, <2>5 DEF IssueInv, AccountInv
    <3>2. CASE account.key # 0 /\ Account(t, account.key)
      BY <1>0, <2>1, <3>2 DEF Account, Task
    <3>3. CASE account.key = 0 /\ Goto(t, "create")
      <4>1. account \in [key : 0..MaxKeys, reg : 0..MaxKeys]
        BY DEF TypeOK
      <4>2. account = [key |-> 0, reg |-> 0]
        BY <3>1, <3>3, <4>1
      <4> QED
        BY <1>0, <2>1, <3>3, <4>2 DEF Goto, Task
    <3> QED
      BY <1>5, <2>5, <3>2, <3>3 DEF LoadAccount, Fails
  <2>6. \A s \in Goroutines : s # t => task'[s].pc \notin {"register", "create"}
    BY <2>1, <2>2 DEF Locked
  <2>7. ASSUME "file" \notin trouble'
        PROVE  /\ account'.reg # 0 => account'.reg = account'.key
               /\ \A s \in Goroutines :
                    /\ task'[s].pc = "register" => task'[s].key = account'.key
                    /\ task'[s].pc = "create" => account' = [key |-> 0, reg |-> 0]
    <3>1. account'.reg # 0 => account'.reg = account'.key
      BY <2>1, <2>7 DEF IssueInv, AccountInv
    <3>2. ASSUME NEW s \in Goroutines
          PROVE  /\ task'[s].pc = "register" => task'[s].key = account'.key
                 /\ task'[s].pc = "create" => account' = [key |-> 0, reg |-> 0]
      <4>1. CASE s = t
        BY <2>5, <2>7, <4>1
      <4>2. CASE s # t
        <5>1. task'[s].pc # "register" /\ task'[s].pc # "create"
          BY <2>6, <4>2
        <5> QED
          BY <5>1
      <4> QED
        BY <4>1, <4>2
    <3> QED
      BY <3>1, <3>2
  <2>8. AccountInv'
    BY <2>7 DEF AccountInv
  <2> QED
    BY <2>4, <2>8 DEF IssueInv
<1>6. ASSUME NEW t \in Goroutines, CreateKey(t) PROVE IssueInv'
  <2>1. /\ task[t].pc = "create" /\ UNCHANGED <<files, obtained, trouble>>
        /\ account' = [account EXCEPT !.key = keys + 1] /\ Account(t, keys + 1)
        /\ \A s \in Goroutines : s # t => task'[s] = task[s]
    BY <1>0, <1>6 DEF CreateKey, Account
  <2>2. \A s \in Goroutines : s # t => task[s].pc \notin Locked
    BY <1>4, <2>1 DEF Locked
  <2>3. /\ task'[t].pc \in {"obtain", "register"}
        /\ task'[t].pc = "register" => task'[t].key = keys + 1
    BY <1>0, <2>1 DEF Account, Task
  <2>4. PairInv'
    BY <2>1, <2>2, <2>3 DEF IssueInv, PairInv, Writing, Locked
  <2>5. "file" \notin trouble => account'.key = keys + 1 /\ account'.reg = 0
    <3>1. "file" \notin trouble => account = [key |-> 0, reg |-> 0]
      BY <2>1 DEF IssueInv, AccountInv
    <3> QED
      BY <2>1, <3>1
  <2>6. AccountInv'
    BY <2>1, <2>2, <2>3, <2>5 DEF AccountInv, Locked
  <2> QED
    BY <2>4, <2>6 DEF IssueInv
<1>7. ASSUME NEW t \in Goroutines, Register(t) PROVE IssueInv'
  <2>1. /\ task[t].pc = "register" /\ UNCHANGED <<files, obtained, trouble>>
        /\ account' \in {account, [account EXCEPT !.reg = task[t].key], [account EXCEPT !.reg = 0]}
        /\ \A s \in Goroutines : s # t => task'[s] = task[s]
    BY <1>0, <1>7 DEF Register
  <2>2. \A s \in Goroutines : s # t => task[s].pc \notin Locked
    BY <1>4, <2>1 DEF Locked
  <2>3. task'[t].pc = "obtain"
    BY <1>0, <1>7 DEF Register, Task
  <2>4. PairInv'
    BY <2>1, <2>2, <2>3 DEF IssueInv, PairInv, Writing, Locked
  <2>5. "file" \notin trouble => (account'.reg # 0 => account'.reg = account'.key)
    <3>1. account \in [key : 0..MaxKeys, reg : 0..MaxKeys]
      BY DEF TypeOK
    <3>2. "file" \notin trouble => task[t].key = account.key /\ (account.reg # 0 => account.reg = account.key)
      BY <2>1 DEF IssueInv, AccountInv
    <3> QED
      BY <2>1, <3>1, <3>2
  <2>6. AccountInv'
    BY <2>1, <2>2, <2>3, <2>5 DEF AccountInv, Locked
  <2> QED
    BY <2>4, <2>6 DEF IssueInv
<1>8. ASSUME NEW t \in Goroutines, Obtain(t) PROVE IssueInv'
  <2>1. /\ task[t].pc = "obtain" /\ UNCHANGED <<files, account, trouble>>
        /\ obtained' = obtained + 1
        /\ \A s \in Goroutines : s # t => task'[s] = task[s]
    BY <1>0, <1>8 DEF Obtain
  <2>2. \A s \in Goroutines : s # t => task[s].pc \notin Locked
    BY <1>4, <2>1 DEF Locked
  <2>3. task'[t].pc = "cert" /\ task'[t].cert = obtained + 1
    BY <1>0, <1>8 DEF Obtain, Task
  <2>4. PairInv'
    BY <2>1, <2>2, <2>3 DEF PairInv, Writing, Locked
  <2>5. AccountInv'
    BY <2>1, <2>2, <2>3 DEF IssueInv, AccountInv, Locked
  <2> QED
    BY <2>4, <2>5 DEF IssueInv
<1>9. ASSUME NEW t \in Goroutines, WriteCert(t) PROVE IssueInv'
  <2>1. /\ task[t].pc = "cert" /\ UNCHANGED <<account, obtained>> /\ trouble \subseteq trouble'
        /\ \A s \in Goroutines : s # t => task'[s] = task[s]
    BY <1>0, <1>9 DEF WriteCert, Goto, Return, Fails
  <2>2. \A s \in Goroutines : s # t => task[s].pc \notin Locked
    BY <1>4, <2>1 DEF Locked
  <2>3. \/ /\ files' = [files EXCEPT !.cert = task[t].cert]
           /\ task'[t].pc = "key" /\ task'[t].cert = task[t].cert
        \/ "file" \in trouble' /\ task'[t].pc = "error"
    BY <1>0, <1>9 DEF WriteCert, Goto, Return, Fails, Task
  <2>4. PairInv'
    <3>1. files \in [cert : 0..MaxObtained, key : 0..MaxObtained]
      BY DEF TypeOK
    <3> QED
      BY <2>1, <2>2, <2>3, <3>1 DEF IssueInv, PairInv, Writing, Locked
  <2>5. AccountInv'
    BY <2>1, <2>2, <2>3 DEF IssueInv, AccountInv, Locked
  <2> QED
    BY <2>4, <2>5 DEF IssueInv
<1>10. ASSUME NEW t \in Goroutines, WriteKey(t) PROVE IssueInv'
  <2>1. /\ task[t].pc = "key" /\ UNCHANGED <<account, obtained>> /\ trouble \subseteq trouble'
        /\ \A s \in Goroutines : s # t => task'[s] = task[s]
    BY <1>0, <1>10 DEF WriteKey, Return, Fails
  <2>2. \A s \in Goroutines : s # t => task[s].pc \notin Locked
    BY <1>4, <2>1 DEF Locked
  <2>3. task'[t].pc \in {"paths", "error"}
    BY <1>0, <1>10 DEF WriteKey, Return, Task
  <2>4. files' = [files EXCEPT !.key = task[t].cert] \/ "file" \in trouble'
    BY <1>10 DEF WriteKey, Fails
  <2>5. PairInv'
    <3>1. files \in [cert : 0..MaxObtained, key : 0..MaxObtained]
      BY DEF TypeOK
    <3> QED
      BY <2>1, <2>2, <2>3, <2>4, <3>1 DEF IssueInv, PairInv, Writing, Locked
  <2>6. AccountInv'
    BY <2>1, <2>2, <2>3 DEF IssueInv, AccountInv, Locked
  <2> QED
    BY <2>5, <2>6 DEF IssueInv
<1>11. ASSUME Crash PROVE IssueInv'
  <2>1. PairInv'
    BY <1>11 DEF Crash, PairInv
  <2>2. \A t \in Goroutines : task'[t].pc = "idle"
    BY <1>11 DEF Crash, Idle
  <2>3. ASSUME "file" \notin trouble PROVE account'.reg # 0 => account'.reg = account'.key
    <3>1. account \in [key : 0..MaxKeys, reg : 0..MaxKeys]
      BY DEF TypeOK
    <3>2. account.reg # 0 => account.reg = account.key
      BY <2>3 DEF IssueInv, AccountInv
    <3>3. CASE account' = account
      BY <3>2, <3>3
    <3>4. ASSUME NEW s \in Goroutines, task[s].pc = "create", account' = [account EXCEPT !.key = 0]
          PROVE  account'.reg = 0
      <4>1. account = [key |-> 0, reg |-> 0]
        BY <2>3, <3>4 DEF IssueInv, AccountInv
      <4> QED
        BY <3>4, <4>1
    <3>5. CASE account' = [account EXCEPT !.reg = 0]
      BY <3>1, <3>5
    <3> QED
      BY <1>11, <3>3, <3>4, <3>5 DEF Crash
  <2>4. AccountInv'
    BY <1>11, <2>2, <2>3 DEF AccountInv, Crash
  <2> QED
    BY <2>1, <2>4 DEF IssueInv
<1>12. ASSUME NEW t \in Tasks, Page(t) PROVE IssueInv'
  <2>1. t \in Goroutines
    BY DEF Goroutines
  <2> QED
    BY <1>1, <1>12, <1>14, <2>1 DEF Page, LEIssuePost, LERenew
<1>13. ASSUME RunRenewal PROVE IssueInv'
  BY <1>0, <1>1, <1>13 DEF RunRenewal
<1> QED
  BY <1>2, <1>3, <1>5, <1>6, <1>7, <1>8, <1>9, <1>10, <1>11, <1>12, <1>13
  DEF Next, Work, IssueCert

\* The inductive invariant of IssueCert on the files it shares: who is between two
\* statements has the newest key or certificate in hand, for any number of
\* goroutines, restarts and failures.
THEOREM IssueInvariant == Spec => []IssueInv
  BY TypeInit, TypeStep, IssueInit, IssueStep, PTL DEF Spec

\* With nobody at work the pair of files is the certificate obtained last and its
\* own key: issueMu is enough, whoever asks for a certificate at a time, as long as
\* neither a crash nor a failed write came between the two files.
THEOREM PairAlwaysMatches == Spec => []PairMatches
<1>1. TypeOK /\ IssueInv => PairMatches
  <2> SUFFICES ASSUME TypeOK, IssueInv, lock = Nobody, trouble \cap {"crash", "file"} = {}
               PROVE  files = [cert |-> obtained, key |-> obtained]
    BY DEF PairMatches
  <2>1. \A t \in Goroutines : task[t].pc \notin Locked
    BY Bounds DEF TypeOK
  <2>2. \A t \in Goroutines : task[t].pc \notin Writing
    BY <2>1 DEF Locked, Writing
  <2>3. files = [cert |-> obtained, key |-> obtained]
    BY <2>2 DEF IssueInv, PairInv
  <2> QED
    BY <2>3
<1> QED
  BY <1>1, TypeCorrect, IssueInvariant, PTL

\* The registration on file is that of the account key on file, also after a
\* restart at any statement of loadOrCreateKey and saveRegistration.
THEOREM AccountAlwaysMatches == Spec => []AccountMatches
<1>1. IssueInv => AccountMatches
  BY DEF IssueInv, AccountInv, AccountMatches
<1> QED
  BY <1>1, IssueInvariant, PTL
-----------------------------------------------------------------------------
(* The row against the files *)

RestPart == OneAtWork /\ WorksForRow /\ WrittenIsOnFile /\ RowIsOnFile /\ PendingIsWorked

LEMMA RestInit == Init => RestInv
  BY DEF Init, RestInv, OneAtWork, WorksForRow, HasWritten, WrittenIsOnFile, RowIsOnFile,
     PendingIsWorked, NoRow, Idle

\* A goroutine begins, with nobody else at work.
LEMMA BeginRests ==
  ASSUME TypeOK, RestInv, NEW t \in Goroutines, NEW pc \in {"wait", "mark"}, NEW id,
         Begin(t, pc, id), trouble' = {}, files' = files, row'.id # 0 => row'.id = id,
         row'.id # 0 /\ row'.status = "active" => row' = row
  PROVE  RestInv'
<1> DEFINE r == [pc |-> pc, id |-> id, key |-> 0, cert |-> 0]
<1>1. r.pc = pc /\ r.id = id
  OBVIOUS
<1>2. /\ \A s \in Goroutines : task[s] = Idle
      /\ \A s \in Goroutines : task'[s] = IF s = t THEN r ELSE Idle
      /\ trouble = {}
  BY DEF Begin, TypeOK
<1>3. r # Idle
  BY <1>1 DEF Idle
<1> HIDE DEF r
<1>4. \A s \in Goroutines : ~HasWritten(s) /\ ~HasWritten(s)'
  BY <1>1, <1>2 DEF HasWritten, Idle
<1>5. RowIsOnFile'
  BY <1>2, <1>4 DEF RestInv, RowIsOnFile
<1>6. OneAtWork' /\ WorksForRow' /\ WrittenIsOnFile' /\ PendingIsWorked'
  BY <1>1, <1>2, <1>3, <1>4 DEF OneAtWork, WorksForRow, WrittenIsOnFile, PendingIsWorked
<1> QED
  BY <1>5, <1>6 DEF RestInv

\* The goroutine that is at work gets on and stays at work: what has to hold after it
\* is about its record, the files and the row.
LEMMA WorkRests ==
  ASSUME TypeOK, RestInv, NEW t \in Goroutines, task[t] # Idle, NEW r, r # Idle,
         task' = [task EXCEPT ![t] = r], r.id = task[t].id,
         trouble' = {}, trouble = {}, row'.id = row.id,
         r.pc \in {"key", "paths"} => files'.cert = r.cert,
         r.pc \notin {"key", "paths"} =>
           ~HasWritten(t) /\ files' = files /\ (row'.status = "active" => row' = row)
  PROVE  RestInv'
<1>1. RestPart
  BY DEF RestInv, RestPart
<1>2. /\ \A s \in Goroutines : s # t => task[s] = Idle
      /\ \A s \in Goroutines : task'[s] = IF s = t THEN r ELSE Idle
  BY <1>1 DEF RestPart, OneAtWork, TypeOK
<1>3. \A s \in Goroutines : s # t => ~HasWritten(s) /\ ~HasWritten(s)'
  BY <1>2 DEF HasWritten, Idle
<1>4. HasWritten(t)' <=> r.pc \in {"key", "paths"}
  BY <1>2 DEF HasWritten
<1>5. OneAtWork' /\ WorksForRow' /\ PendingIsWorked'
  BY <1>1, <1>2 DEF RestPart, OneAtWork, WorksForRow, PendingIsWorked
<1>6. WrittenIsOnFile'
  BY <1>2, <1>3, <1>4 DEF WrittenIsOnFile
<1>7. RowIsOnFile'
  BY <1>1, <1>3, <1>4 DEF RestPart, RowIsOnFile
<1> QED
  BY <1>5, <1>6, <1>7 DEF RestInv

\* IssueCert, statement by statement.
LEMMA IssueRests ==
  ASSUME TypeOK, RestInv, trouble' = {}, NEW t \in Goroutines, Lock(t) \/ IssueCert(t)
  PROVE  RestInv'
<1>1. trouble = {} /\ row' = row /\ task[t] \in Task
  BY DEF Lock, IssueCert, LoadAccount, CreateKey, Register, Obtain, IssueFails, WriteCert,
     WriteKey, Fails, TypeOK
<1>2. task[t] # Idle
  BY DEF Lock, IssueCert, LoadAccount, CreateKey, Register, Obtain, IssueFails, WriteCert,
     WriteKey, Idle
<1>3. ASSUME NEW r, r # Idle, task' = [task EXCEPT ![t] = r], r.id = task[t].id, files' = files,
             ~HasWritten(t), r.pc \notin {"key", "paths"}
      PROVE  RestInv'
  BY <1>1, <1>2, <1>3, WorkRests
<1>4. ASSUME Lock(t) PROVE RestInv'
  <2>1. task' = [task EXCEPT ![t] = [task[t] EXCEPT !.pc = "load"]]
    BY <1>4 DEF Lock, Goto
  <2>2. [task[t] EXCEPT !.pc = "load"].pc = "load" /\ [task[t] EXCEPT !.pc = "load"].id = task[t].id
    BY <1>1 DEF Task
  <2>3. files' = files /\ ~HasWritten(t)
    BY <1>4 DEF Lock, HasWritten, disk
  <2> QED
    BY <1>3, <2>1, <2>2, <2>3 DEF Idle
<1>5. ASSUME NEW key, Account(t, key), files' = files, ~HasWritten(t) PROVE RestInv'
  <2>0. PICK pc \in {"obtain", "register"} :
          \E k : task' = [task EXCEPT ![t] = [task[t] EXCEPT !.pc = pc, !.key = k]]
    <3>1. [task[t] EXCEPT !.pc = "obtain"] = [task[t] EXCEPT !.pc = "obtain", !.key = task[t].key]
      BY <1>1 DEF Task
    <3> QED
      BY <1>5, <3>1 DEF Account
  <2>1. PICK k : task' = [task EXCEPT ![t] = [task[t] EXCEPT !.pc = pc, !.key = k]]
    BY <2>0
  <2> DEFINE r == [task[t] EXCEPT !.pc = pc, !.key = k]
  <2>2. r.pc = pc /\ r.id = task[t].id
    BY <1>1 DEF Task
  <2>3. r # Idle
    BY <2>2 DEF Idle
  <2> HIDE DEF r
  <2> QED
    BY <1>3, <1>5, <2>1, <2>2, <2>3 DEF r
<1>6. ASSUME NEW pc \in {"create"}, Goto(t, pc), files' = files, ~HasWritten(t) PROVE RestInv'
  <2>1. task' = [task EXCEPT ![t] = [task[t] EXCEPT !.pc = "create"]]
    BY <1>6 DEF Goto
  <2>2. /\ [task[t] EXCEPT !.pc = "create"].pc = "create"
        /\ [task[t] EXCEPT !.pc = "create"].id = task[t].id
    BY <1>1 DEF Task
  <2> QED
    BY <1>3, <1>6, <2>1, <2>2 DEF Idle
<1>7. ASSUME LoadAccount(t) PROVE RestInv'
  BY <1>5, <1>6, <1>7 DEF LoadAccount, HasWritten, disk
<1>8. ASSUME CreateKey(t) PROVE RestInv'
  BY <1>5, <1>8 DEF CreateKey, HasWritten
<1>9. ASSUME Register(t) PROVE RestInv'
  <2> DEFINE r == [task[t] EXCEPT !.pc = "obtain", !.key = 0]
  <2>1. task' = [task EXCEPT ![t] = r] /\ files' = files /\ ~HasWritten(t)
    BY <1>9 DEF Register, HasWritten
  <2>2. r.pc = "obtain" /\ r.id = task[t].id
    BY <1>1 DEF Task
  <2>3. r # Idle
    BY <2>2 DEF Idle
  <2> HIDE DEF r
  <2> QED
    BY <1>3, <2>1, <2>2, <2>3
<1>10. ASSUME Obtain(t) PROVE RestInv'
  <2> DEFINE r == [task[t] EXCEPT !.cert = obtained + 1, !.pc = "cert"]
  <2>1. task' = [task EXCEPT ![t] = r] /\ files' = files /\ ~HasWritten(t)
    BY <1>10 DEF Obtain, HasWritten
  <2>2. r.pc = "cert" /\ r.id = task[t].id
    BY <1>1 DEF Task
  <2>3. r # Idle
    BY <2>2 DEF Idle
  <2> HIDE DEF r
  <2> QED
    BY <1>3, <2>1, <2>2, <2>3
<1>11. ASSUME IssueFails(t) PROVE RestInv'
  <2> DEFINE r == [task[t] EXCEPT !.pc = "error", !.key = 0]
  <2>1. task' = [task EXCEPT ![t] = r] /\ files' = files /\ ~HasWritten(t)
    BY <1>11 DEF IssueFails, Return, HasWritten, disk
  <2>2. r.pc = "error" /\ r.id = task[t].id
    BY <1>1 DEF Task
  <2>3. r # Idle
    BY <2>2 DEF Idle
  <2> HIDE DEF r
  <2> QED
    BY <1>3, <2>1, <2>2, <2>3
<1>12. ASSUME WriteCert(t) PROVE RestInv'
  <2> DEFINE r == [task[t] EXCEPT !.pc = "key"]
  <2>1. task' = [task EXCEPT ![t] = r] /\ files' = [files EXCEPT !.cert = task[t].cert]
    BY <1>12 DEF WriteCert, Goto, Fails
  <2>2. r.pc = "key" /\ r.id = task[t].id /\ r.cert = task[t].cert
    BY <1>1 DEF Task
  <2>3. files'.cert = task[t].cert
    BY <2>1 DEF TypeOK
  <2>4. r # Idle
    BY <2>2 DEF Idle
  <2> HIDE DEF r
  <2> QED
    BY <1>1, <1>2, <2>1, <2>2, <2>3, <2>4, WorkRests
<1>13. ASSUME WriteKey(t) PROVE RestInv'
  <2> DEFINE r == [task[t] EXCEPT !.pc = "paths", !.key = 0]
  <2>1. /\ task' = [task EXCEPT ![t] = r] /\ files' = [files EXCEPT !.key = task[t].cert]
        /\ task[t].pc = "key"
    BY <1>13 DEF WriteKey, Return, Fails
  <2>2. r.pc = "paths" /\ r.id = task[t].id /\ r.cert = task[t].cert
    BY <1>1 DEF Task
  <2>3. files'.cert = task[t].cert
    BY <1>1, <2>1 DEF TypeOK, RestInv, WrittenIsOnFile, HasWritten
  <2>4. r # Idle
    BY <2>2 DEF Idle
  <2> HIDE DEF r
  <2> QED
    BY <1>1, <1>2, <2>1, <2>2, <2>3, <2>4, WorkRests
<1> QED
  BY <1>4, <1>7, <1>8, <1>9, <1>10, <1>11, <1>12, <1>13 DEF IssueCert

\* What is recorded is what was written last.
LEMMA RecordRests ==
  ASSUME TypeOK, RestInv, trouble' = {}, NEW t \in Goroutines, UpdateLECert(t)
  PROVE  RestInv'
<1>1. /\ trouble = {} /\ files' = files /\ task[t].pc \in {"paths", "error"}
      /\ task' = [task EXCEPT ![t] = Idle]
      /\ row' = IF row.id = task[t].id THEN Recorded(t) ELSE row
  BY DEF UpdateLECert, Fails, Finish, disk
<1>2. RestPart /\ task[t] # Idle
  BY <1>1 DEF RestInv, RestPart, Idle
<1>3. \A s \in Goroutines : task'[s] = Idle /\ (s # t => task[s] = Idle)
  BY <1>1, <1>2 DEF TypeOK, RestPart, OneAtWork
<1>4. \A s \in Goroutines : ~HasWritten(s)' /\ (s # t => ~HasWritten(s))
  BY <1>3 DEF HasWritten, Idle
<1>5. row \in Rows
  BY DEF TypeOK
<1>6. CASE row.id = 0
  <2>1. task[t].pc = "paths" \/ task[t].pc = "error"
    BY <1>1
  <2>2. row'.id = 0
    BY <1>1, <1>5, <1>6 DEF Recorded, Rows
  <2> QED
    BY <1>3, <1>4, <2>2
    DEF RestInv, OneAtWork, WorksForRow, WrittenIsOnFile, RowIsOnFile, PendingIsWorked
<1>7. CASE row.id # 0
  <2>1. row' = Recorded(t)
    BY <1>1, <1>2, <1>7 DEF RestPart, WorksForRow
  <2>2. row'.status # "pending" /\ (row'.status = "active" => row'.cert = files.cert)
    <3>1. CASE task[t].pc = "paths"
      <4>1. task[t].cert = files.cert
        BY <1>2, <3>1 DEF RestPart, WrittenIsOnFile, HasWritten
      <4> QED
        BY <1>5, <2>1, <3>1, <4>1 DEF Recorded, Rows
    <3>2. CASE task[t].pc = "error"
      BY <1>5, <2>1, <3>2 DEF Recorded, Rows
    <3> QED
      BY <1>1, <3>1, <3>2
  <2> QED
    BY <1>1, <1>3, <1>4, <2>2
    DEF RestInv, OneAtWork, WorksForRow, WrittenIsOnFile, RowIsOnFile, PendingIsWorked
<1> QED
  BY <1>6, <1>7

LEMMA RestStep == TypeOK /\ RestInv /\ [Next]_vars => RestInv'
<1> SUFFICES ASSUME TypeOK, RestInv, [Next]_vars, trouble' = {} PROVE RestInv'
  BY DEF RestInv
<1>0. row \in Rows
  BY DEF TypeOK
<1>1. ASSUME NEW t \in Tasks, NEW auto \in BOOLEAN, LEIssuePost(t, auto) PROVE RestInv'
  <2>1. t \in Goroutines /\ files' = files
    BY <1>1 DEF Goroutines, LEIssuePost, disk
  <2>2. row'.id = ids + 1 /\ row'.status = "pending" /\ Begin(t, "wait", ids + 1)
    BY <1>1 DEF LEIssuePost, Fails
  <2> QED
    BY <2>1, <2>2, BeginRests
<1>2. ASSUME NEW t \in Tasks, LERenew(t) PROVE RestInv'
  <2>1. t \in Goroutines /\ UNCHANGED <<files, row>> /\ Begin(t, "mark", row.id)
    BY <1>2 DEF Goroutines, LERenew, disk
  <2> QED
    BY <2>1, BeginRests
<1>3. ASSUME RunRenewal PROVE RestInv'
  <2>1. Renewer \in Goroutines /\ UNCHANGED <<files, row>> /\ Begin(Renewer, "wait", row.id)
    BY <1>3, Bounds DEF RunRenewal, disk
  <2> QED
    BY <2>1, BeginRests
<1>4. ASSUME NEW t \in Goroutines, MarkPending(t) PROVE RestInv'
  <2> DEFINE r == [task[t] EXCEPT !.pc = "wait"]
  <2>1. /\ task' = [task EXCEPT ![t] = r] /\ files' = files /\ task[t].pc = "mark"
        /\ row' = IF row.id = task[t].id THEN [row EXCEPT !.status = "pending"] ELSE row
        /\ trouble = {}
    BY <1>4 DEF MarkPending, Goto, Fails, disk
  <2>2. r.pc = "wait" /\ r.id = task[t].id
    BY DEF TypeOK, Task
  <2>3. row'.id = row.id /\ (row'.status = "active" => row' = row)
    BY <1>0, <2>1 DEF Rows
  <2>4. task[t] # Idle /\ r # Idle /\ ~HasWritten(t)
    BY <2>1, <2>2 DEF Idle, HasWritten
  <2> HIDE DEF r
  <2> QED
    BY <2>1, <2>2, <2>3, <2>4, WorkRests
<1>5. ASSUME NEW auto \in BOOLEAN, LEToggleAutoRenew(auto) PROVE RestInv'
  <2>1. row'.id = row.id /\ row'.status = row.status /\ row'.cert = row.cert
    BY <1>0, <1>5 DEF LEToggleAutoRenew, Rows
  <2>2. UNCHANGED <<task, files, trouble>>
    BY <1>5 DEF LEToggleAutoRenew, disk
  <2> QED
    BY <2>1, <2>2
    DEF RestInv, OneAtWork, WorksForRow, WrittenIsOnFile, RowIsOnFile, PendingIsWorked, HasWritten
<1>6. ASSUME LEDelete PROVE RestInv'
  <2>1. row'.id = 0 /\ UNCHANGED <<task, files, trouble>>
    BY <1>6 DEF LEDelete, NoRow, disk
  <2> QED
    BY <2>1
    DEF RestInv, OneAtWork, WorksForRow, WrittenIsOnFile, RowIsOnFile, PendingIsWorked, HasWritten
<1>7. ASSUME Tick \/ UNCHANGED vars PROVE RestInv'
  BY <1>7 DEF Tick, vars, disk, RestInv, OneAtWork, WorksForRow, WrittenIsOnFile, RowIsOnFile,
     PendingIsWorked, HasWritten
<1>8. ~Crash
  BY DEF Crash
<1> QED
  BY <1>1, <1>2, <1>3, <1>4, <1>5, <1>6, <1>7, <1>8, IssueRests, RecordRests DEF Next, Page, Work

\* The inductive invariant of the goroutine that works for a row alone.
THEOREM RestInvariant == Spec => []RestInv
  BY TypeCorrect, RestInit, RestStep, PTL DEF Spec

\* At rest an active row has the dates of the certificate on file and no row is
\* pending, as long as goroutines come one after the other and nothing has failed,
\* also when the row is deleted and made again, switched and renewed in between.
THEOREM RowTellsTruth == Spec => []RowTellsFiles
<1>1. RestInv => RowTellsFiles
  BY DEF RestInv, RowTellsFiles, RowIsOnFile, PendingIsWorked, HasWritten, Idle
<1> QED
  BY <1>1, RestInvariant, PTL
=============================================================================
