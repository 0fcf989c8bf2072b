----------------------- MODULE FactorAndUICertProofs -----------------------
(* Theorems about UICert, for any number of handshakes, pairs and restarts,  *)
(* and about the second factor beside it, as MCFactorAndUICert composes them. *)
EXTENDS MCFactorAndUICert, TLAPS

-----------------------------------------------------------------------------
(* Types *)

LEMMA Bounds ==
  /\ MaxPairs \in Nat /\ MaxTime \in Nat /\ MaxTime # 0 /\ MaxCrashes \in Nat
  /\ Modes \subseteq {"provided", "stepca", "self-signed"} /\ UseHTTPS \in BOOLEAN
  /\ Nobody \notin Handshakes
  BY UICertAssumption DEF UICertAssumption

\* The types of the variables one by one.
FileType == cert \in File /\ key \in File /\ pairs \in 0..MaxPairs /\ now \in 0..MaxTime
ProcessType ==
  /\ mode \in {"provided", "stepca", "self-signed"} /\ client \in BOOLEAN /\ https \in BOOLEAN
CacheType == cached \in 0..MaxPairs /\ mods \in Times
HandType ==
  /\ lock \in Handshakes \cup {Nobody} /\ handshake \in [Handshakes -> Handshake]
  /\ \A h \in Handshakes : handshake[h].pc \in Locked <=> lock = h
BegunType == begun \in [Handshakes -> [cached : 0..MaxPairs, onFile : 0..MaxPairs]]
OtherType == crashes \in 0..MaxCrashes /\ trouble \subseteq {"file", "crash"}

Types ==
  /\ FileType /\ ProcessType /\ writer \in Writer /\ CacheType
  /\ HandType /\ BegunType /\ OtherType

LEMMA TypeParts == TypeOK <=> Types
  BY DEF TypeOK, Types, FileType, ProcessType, CacheType, HandType, BegunType, OtherType

LEMMA OnFileType == FileType => OnFile \in 0..MaxPairs
  BY Bounds DEF FileType, File, OnFile

LEMMA StepType ==
  ASSUME writer \in Writer,
         NEW pc \in Writing \cup {"off", "ensure", "serve", "serving", "asleep"}, Step(pc)
  PROVE  writer' \in Writer
  BY DEF Writer, Step

LEMMA TouchedType == BegunType /\ Touched => BegunType'
<1> SUFFICES ASSUME BegunType, Touched PROVE BegunType'
  OBVIOUS
<1>1. ASSUME NEW h \in Handshakes
      PROVE  [begun[h] EXCEPT !.onFile = 0] \in [cached : 0..MaxPairs, onFile : 0..MaxPairs]
  BY Bounds DEF BegunType
<1> QED
  BY <1>1 DEF Touched, BegunType

LEMMA PassesType == now \in 0..MaxTime /\ (Passes \/ PassesSince) => now' \in 0..MaxTime
  BY Bounds DEF Passes, PassesSince

\* A handshake gets a new record, with the lock as it is.
LEMMA HandStays ==
  ASSUME HandType, NEW h \in Handshakes, NEW r \in Handshake,
         handshake' = [handshake EXCEPT ![h] = r], UNCHANGED lock,
         r.pc \in Locked <=> handshake[h].pc \in Locked
  PROVE  HandType'
  BY DEF HandType

\* A handshake takes the lock, or lets it go.
LEMMA HandTakes ==
  ASSUME HandType, NEW h \in Handshakes, NEW r \in Handshake, lock = Nobody,
         handshake' = [handshake EXCEPT ![h] = r], lock' = h, r.pc \in Locked
  PROVE  HandType'
  BY Bounds DEF HandType

LEMMA HandLets ==
  ASSUME HandType, NEW h \in Handshakes, NEW r \in Handshake, handshake[h].pc \in Locked,
         handshake' = [handshake EXCEPT ![h] = r], lock' = Nobody, r.pc \notin Locked
  PROVE  HandType'
  BY Bounds DEF HandType

\* The records handshakes get.
LEMMA DoneType ==
  ASSUME NEW pair \in 0..MaxPairs
  PROVE  LET r == [pc |-> "done", mods |-> NoTimes, pair |-> pair]
         IN  r \in Handshake /\ r.pc \notin Locked
  BY Bounds DEF Handshake, Times, NoTimes, Locked

LEMMA GoOnType ==
  ASSUME HandType, NEW h \in Handshakes, NEW pc \in Locked \cup {"lock"}
  PROVE  [handshake[h] EXCEPT !.pc = pc] \in Handshake /\ [handshake[h] EXCEPT !.pc = pc].pc = pc
<1>1. handshake[h] \in Handshake
  BY DEF HandType
<1> QED
  BY <1>1 DEF Handshake

LEMMA TypeInit == Init => Types
<1> SUFFICES ASSUME Init PROVE Types
  OBVIOUS
<1>1. Absent \in File /\ Off \in Writer /\ NoTimes \in Times
  BY Bounds DEF Absent, File, Off, Writer, NoTimes, Times
<1>2. Idle \in Handshake /\ Idle.pc \notin Locked
  BY <1>1, Bounds DEF Idle, Handshake, Locked
<1>3. FileType
  BY <1>1, Bounds DEF Init, FileType
<1>4. ProcessType
  BY Zenon DEF Init, ProcessType
<1>5. writer \in Writer /\ CacheType
  BY <1>1, Bounds DEF Init, CacheType
<1>6. HandType
  BY <1>2, Bounds DEF Init, HandType
<1>7. BegunType /\ OtherType
  BY Bounds DEF Init, Nothing, BegunType, OtherType
<1> QED
  BY <1>3, <1>4, <1>5, <1>6, <1>7 DEF Types

\* What main and the renewer do.
LEMMA WriterTypeStep ==
  ASSUME Types,
         \/ \E m \in Modes, hasRoot \in BOOLEAN : Start(m, hasRoot)
         \/ EnsureUICert \/ Serve \/ RenewUICertOnce \/ Write
  PROVE  Types'
<1> USE DEF Types
<1>1. ASSUME NEW m \in Modes, NEW hasRoot \in BOOLEAN, Start(m, hasRoot) PROVE Types'
  <2>1. writer' \in Writer
    BY <1>1, Bounds DEF Start, Writer
  <2>2. ProcessType'
    BY <1>1, Bounds DEF Start, ProcessType
  <2> QED
    BY <1>1, <2>1, <2>2 DEF Start, files, reloader, FileType, CacheType, HandType, BegunType,
       OtherType
<1>2. ASSUME NEW signer \in {"CA", "self"}, Make(signer) PROVE Types'
  <2>1. pairs' \in 0..MaxPairs /\ pairs' = pairs + 1
    BY <1>2, Bounds DEF Make, FileType
  <2>2. writer' \in Writer
    <3>1. "cert" \in Writing /\ writer.by \in {"main", "renewer"}
      BY DEF Writing, Writer
    <3> QED
      BY <1>2, <2>1, <3>1 DEF Make, Writer
  <2> QED
    BY <1>2, <2>1, <2>2 DEF Make, reloader, FileType, ProcessType, CacheType, HandType, BegunType,
       OtherType
<1>3. ASSUME Leave PROVE Types'
  <2>1. writer' \in Writer
    BY <1>3, StepType DEF Leave
  <2> QED
    BY <1>3, <2>1 DEF Leave, files, reloader, FileType, ProcessType, CacheType, HandType, BegunType,
       OtherType
<1>4. ASSUME Serve PROVE Types'
  <2>1. writer' \in Writer
    <3>1. (IF mode = "stepca" /\ client THEN "asleep" ELSE "serving") \in {"serving", "asleep"}
      OBVIOUS
    <3> QED
      BY <1>4, <3>1, Bounds DEF Serve, Writer
  <2>2. https' \in BOOLEAN
    BY <1>4 DEF Serve
  <2> QED
    BY <1>4, <2>1, <2>2 DEF Serve, files, reloader, FileType, ProcessType, CacheType, HandType,
       BegunType, OtherType
<1>5. ASSUME Write PROVE Types'
  <2>1. writer.pair \in 0..MaxPairs
    BY DEF Writer
  <2>2. After(TRUE) \in {"asleep", "ensure", "serve"} /\ After(FALSE) \in {"asleep", "serve"}
    BY DEF After
  <2>3. writer' \in Writer
    BY <1>5, <2>2, StepType DEF Write, OpenCert, FillCert, OpenKey, FillKey, WriteFails, Writing
  <2>4. now' \in 0..MaxTime
    BY <1>5, PassesType DEF Write, OpenCert, FillCert, OpenKey, FillKey, WriteFails, files, FileType
  <2>5. FileType'
    <3>1. [pair |-> 0, mod |-> now'] \in File /\ [pair |-> writer.pair, mod |-> now'] \in File
      BY <2>1, <2>4, Bounds DEF File
    <3> HIDE DEF File
    <3>2. cert' \in File /\ key' \in File /\ pairs' = pairs
      BY <1>5, <3>1 DEF Write, OpenCert, FillCert, OpenKey, FillKey, WriteFails, files, FileType
    <3> QED
      BY <2>4, <3>2 DEF FileType
  <2>6. BegunType'
    BY <1>5, TouchedType DEF Write, OpenCert, FillCert, OpenKey, FillKey, WriteFails, BegunType
  <2>7. trouble' \subseteq {"file", "crash"}
    BY <1>5 DEF Write, OpenCert, FillCert, OpenKey, FillKey, WriteFails, OtherType
  <2>8. UNCHANGED <<mode, client, https, reloader, handshake, crashes>>
    BY <1>5 DEF Write, OpenCert, FillCert, OpenKey, FillKey, WriteFails
  <2> QED
    BY <2>3, <2>5, <2>6, <2>7, <2>8 DEF reloader, ProcessType, CacheType, HandType, OtherType
<1> QED
  BY <1>1, <1>2, <1>3, <1>4, <1>5 DEF EnsureUICert, RenewUICertOnce

\* What a handshake does.
LEMMA HandTypeStep ==
  ASSUME Types, NEW h \in Handshakes, GetCertificate(h)
  PROVE  Types'
<1> USE DEF Types
<1>0. /\ handshake[h] \in Handshake /\ handshake[h].pair \in 0..MaxPairs
      /\ handshake[h].mods \in Times
      /\ cert.pair \in 0..MaxPairs /\ cert.mod \in 0..MaxTime /\ key.mod \in 0..MaxTime
  BY DEF HandType, Handshake, FileType, File
<1>1. UNCHANGED <<files, process, crashes, trouble>> => 
        FileType' /\ ProcessType' /\ writer' \in Writer /\ OtherType'
  BY DEF files, process, FileType, ProcessType, OtherType
<1>2. ASSUME StatCert(h) PROVE Types'
  <2> DEFINE r == [pc |-> "statKey", mods |-> [cert |-> cert.mod, key |-> 0], pair |-> 0]
  <2>1. r \in Handshake /\ r.pc \notin Locked
    BY <1>0, Bounds DEF Handshake, Times, Locked
  <2>2. HandType'
    BY <1>2, <2>1, HandStays DEF StatCert, reloader, Locked
  <2>3. BegunType'
    <3>1. [cached |-> cached, onFile |-> OnFile] \in [cached : 0..MaxPairs, onFile : 0..MaxPairs]
      BY OnFileType DEF CacheType
    <3> QED
      BY <1>2, <3>1 DEF StatCert, BegunType
  <2> QED
    BY <1>1, <1>2, <2>2, <2>3 DEF StatCert, reloader, CacheType
<1>3. ASSUME StatKey(h) PROVE Types'
  <2> DEFINE r == [pc |-> "compare", mods |-> [cert |-> handshake[h].mods.cert, key |-> key.mod],
                   pair |-> 0]
  <2>1. r \in Handshake /\ r.pc \notin Locked
    BY <1>0, Bounds DEF Handshake, Times, Locked
  <2>2. HandType'
    BY <1>3, <2>1, HandStays DEF StatKey, reloader, Locked
  <2> QED
    BY <1>1, <1>3, <2>2 DEF StatKey, reloader, CacheType, BegunType
<1>4. ASSUME Compare(h) PROVE Types'
  <2>1. CASE Answer(h, cached)
    <3>1. HandType'
      BY <1>4, <2>1, DoneType, HandStays DEF Compare, Answer, reloader, Locked, CacheType
    <3> QED
      BY <1>1, <1>4, <3>1 DEF Compare, reloader, CacheType, BegunType
  <2>2. CASE GoOn(h, "lock")
    <3>1. HandType'
      BY <1>4, <2>2, GoOnType, HandStays DEF Compare, GoOn, reloader, Locked
    <3> QED
      BY <1>1, <1>4, <3>1 DEF Compare, reloader, CacheType, BegunType
  <2> QED
    BY <1>4, <2>1, <2>2 DEF Compare
<1>5. ASSUME Recheck(h) PROVE Types'
  <2>1. CASE Answer(h, cached) /\ UNCHANGED lock
    <3>1. HandType'
      BY <1>5, <2>1, DoneType, HandStays DEF Recheck, Answer, Locked, CacheType
    <3> QED
      BY <1>1, <1>5, <3>1 DEF Recheck, CacheType, BegunType
  <2>2. CASE GoOn(h, "readCert") /\ lock' = h
    <3>1. HandType'
      BY <1>5, <2>2, GoOnType, HandTakes DEF Recheck, GoOn, LockHeld, Locked
    <3> QED
      BY <1>1, <1>5, <3>1 DEF Recheck, CacheType, BegunType
  <2> QED
    BY <1>5, <2>1, <2>2 DEF Recheck
<1>6. ASSUME ReadCert(h) PROVE Types'
  <2> DEFINE pc == IF cert.pair = 0 THEN "fail" ELSE "readKey"
             r == [pc |-> pc, mods |-> handshake[h].mods, pair |-> cert.pair]
  <2>1. pc \in Locked
    BY DEF Locked
  <2>2. r \in Handshake
    BY <1>0, <2>1 DEF Handshake
  <2>3. HandType'
    <3>1. handshake' = [handshake EXCEPT ![h] = r] /\ UNCHANGED lock /\ handshake[h].pc \in Locked
      BY <1>6 DEF ReadCert, reloader, Locked
    <3>2. r.pc \in Locked
      BY <2>1
    <3> HIDE DEF r
    <3> QED
      BY <2>2, <3>1, <3>2, HandStays
  <2> QED
    BY <1>1, <1>6, <2>3 DEF ReadCert, reloader, CacheType, BegunType
<1>7. ASSUME ReadKey(h) PROVE Types'
  <2> DEFINE pc == IF key.pair = handshake[h].pair THEN "store" ELSE "fail"
  <2>1. pc \in Locked /\ handshake[h].pc \in Locked
    BY <1>7 DEF ReadKey, Locked
  <2>2. handshake' = [handshake EXCEPT ![h].pc = pc] /\ UNCHANGED lock
    BY <1>7 DEF ReadKey, GoOn, reloader
  <2> HIDE DEF pc
  <2>3. HandType'
    BY <2>1, <2>2, GoOnType, HandStays
  <2> QED
    BY <1>1, <1>7, <2>3 DEF ReadKey, reloader, CacheType, BegunType
<1>8. ASSUME Store(h) PROVE Types'
  <2>1. HandType'
    BY <1>0, <1>8, DoneType, HandLets DEF Store, Answer, Locked
  <2>2. CacheType'
    BY <1>0, <1>8 DEF Store, CacheType, Recorded
  <2> QED
    BY <1>1, <1>8, <2>1, <2>2 DEF Store, BegunType
<1>9. ASSUME LoadFails(h) PROVE Types'
  <2>1. HandType'
    BY <1>9, DoneType, HandLets DEF LoadFails, Answer, Locked, CacheType
  <2> QED
    BY <1>1, <1>9, <2>1 DEF LoadFails, CacheType, BegunType
<1> QED
  BY <1>2, <1>3, <1>4, <1>5, <1>6, <1>7, <1>8, <1>9 DEF GetCertificate, Reload

LEMMA CrashTypeStep == Types /\ Crash => Types'
<1> SUFFICES ASSUME Types, Crash PROVE Types'
  OBVIOUS
<1> USE DEF Types
<1>1. writer' \in Writer
  BY Bounds DEF Crash, Writer, Off
<1>2. HandType'
  <2>1. Idle \in Handshake /\ Idle.pc \notin Locked
    BY Bounds DEF Idle, Handshake, Times, NoTimes, Locked
  <2> QED
    BY <2>1, Bounds DEF Crash, HandType
<1>3. CacheType' /\ BegunType'
  BY Bounds DEF Crash, CacheType, BegunType, Nothing, Times, NoTimes
<1>4. OtherType'
  BY Bounds DEF Crash, OtherType
<1> QED
  BY <1>1, <1>2, <1>3, <1>4 DEF Crash, files, FileType, ProcessType

LEMMA TypeStep == Types /\ [Next]_vars => Types'
<1> SUFFICES ASSUME Types, [Next]_vars PROVE Types'
  OBVIOUS
<1>1. CASE UNCHANGED vars
  BY <1>1 DEF vars, files, process, reloader, Types, FileType, ProcessType, CacheType, HandType,
     BegunType, OtherType
<1> QED
  BY <1>1, WriterTypeStep, HandTypeStep, CrashTypeStep DEF Next

\* In every state of every instance the variables have their types, and exactly
\* the handshake that holds the reloader's mutex is between taking and releasing it.
THEOREM TypeCorrect == Spec => []TypeOK
  BY TypeInit, TypeParts, TypeStep, PTL DEF Spec

-----------------------------------------------------------------------------
(* The reloader against the files *)

\* The numbers there are.
LEMMA Numbers ==
  ASSUME Types
  PROVE  /\ cert.pair \in Nat /\ cert.mod \in Nat /\ key.pair \in Nat /\ key.mod \in Nat
         /\ pairs \in Nat /\ now \in Nat /\ cached \in Nat
         /\ mods.cert \in Nat /\ mods.key \in Nat
         /\ \A h \in Handshakes : /\ handshake[h].mods.cert \in Nat
                                  /\ handshake[h].mods.key \in Nat
                                  /\ handshake[h].pair \in Nat
  BY Bounds DEF Types, FileType, File, CacheType, Times, HandType, Handshake

LEMMA BegunNumbers ==
  ASSUME Types, NEW h \in Handshakes
  PROVE  begun[h].cached \in Nat /\ begun[h].onFile \in Nat
  BY Bounds DEF Types, BegunType

LEMMA ReloaderInit == Init => ReloaderInv
<1> SUFFICES ASSUME Init PROVE ReloaderInv
  OBVIOUS
<1>1. TimesInv
  BY DEF Init, TimesInv, Absent, NoTimes, Idle
<1>2. WriterInv
  BY DEF Init, WriterInv, Off, Writing, Up
<1>3. CacheInv
  BY DEF Init, CacheInv, Absent, NoTimes, Agrees
<1>4. ReadInv
  BY DEF Init, ReadInv, Idle
<1>5. BegunInv
  BY DEF Init, BegunInv, Idle, Nothing
<1> QED
  BY <1>1, <1>2, <1>3, <1>4, <1>5 DEF ReloaderInv

\* Who has what is in a file of the time it goes by still has it after the file
\* was written, if that time was found by a process that serves.
KeptIn(f, g) ==
  \A t, p \in Nat :
    /\ t <= f.mod /\ Agrees(t, p, f) /\ (p # 0 \/ t = 0) /\ (Up \/ t = 0)
    => t <= g.mod /\ Agrees(t, p, g)

LEMMA SameKept == KeptIn(cert, cert) /\ KeptIn(key, key)
  BY DEF KeptIn

LEMMA OpenedKept ==
  ASSUME NEW f, NEW g, f.mod \in Nat, g.mod \in Nat, f.mod <= g.mod, Up => f.mod < g.mod
  PROVE  KeptIn(f, g)
  BY DEF KeptIn, Agrees

LEMMA FilledKept ==
  ASSUME NEW f, NEW g, f.mod \in Nat, g.mod \in Nat, f.mod <= g.mod, f.pair = 0
  PROVE  KeptIn(f, g)
  BY DEF KeptIn, Agrees

LEMMA WriteKept ==
  ASSUME Types, TimesInv, WriterInv, OpenCert \/ FillCert \/ OpenKey \/ FillKey
  PROVE  /\ cert'.mod \in Nat /\ key'.mod \in Nat /\ now' \in Nat
         /\ KeptIn(cert, cert') /\ KeptIn(key, key')
         /\ cert.mod <= cert'.mod /\ key.mod <= key'.mod
         /\ cert'.mod <= now' /\ key'.mod <= now'
         /\ cert'.pair \in {cert.pair, 0, pairs}
         /\ WriterInv'
<1> USE Numbers DEF TimesInv
<1>1. CASE OpenCert
  <2>1. cert'.mod = now' /\ cert'.pair = 0 /\ key' = key /\ now' \in Nat
    BY <1>1 DEF OpenCert, PassesSince, Passes
  <2>2. now <= now' /\ (Up => now < now')
    BY <1>1 DEF OpenCert, PassesSince, Passes
  <2>3. KeptIn(cert, cert')
    BY <2>1, <2>2, OpenedKept
  <2>4. WriterInv'
    <3>1. writer'.pc = "certData" /\ writer'.pair = writer.pair /\ (Up' <=> Up)
      BY <1>1 DEF OpenCert, Step, Types, Writer, Up
    <3>2. writer.pc \in Writing
      BY <1>1 DEF OpenCert, Writing
    <3>3. UNCHANGED <<pairs, https, cached, mods, handshake>>
      BY <1>1 DEF OpenCert, reloader
    <3> QED
      BY <2>1, <2>2, <3>1, <3>2, <3>3 DEF WriterInv
  <2> QED
    BY <2>1, <2>2, <2>3, <2>4, SameKept
<1>2. CASE FillCert
  <2>1. cert'.mod = now' /\ cert'.pair = writer.pair /\ key' = key /\ now' \in Nat /\ now <= now'
    BY <1>2 DEF FillCert, Passes
  <2>2. cert.pair = 0 /\ writer.pair = pairs
    BY <1>2 DEF FillCert, WriterInv, Writing
  <2>3. KeptIn(cert, cert')
    BY <2>1, <2>2, FilledKept
  <2>4. WriterInv'
    <3>1. writer'.pc = "key" /\ writer'.pair = writer.pair /\ (Up' <=> Up)
      BY <1>2 DEF FillCert, Step, Types, Writer, Up
    <3>2. writer.pc = "certData" /\ writer.pc \in Writing
      BY <1>2 DEF FillCert, Writing
    <3>3. UNCHANGED <<pairs, https, cached, mods, handshake>>
      BY <1>2 DEF FillCert, reloader
    <3>4. cert.mod <= cert'.mod
      BY <2>1
    <3> QED
      BY <2>1, <3>1, <3>2, <3>3, <3>4 DEF WriterInv
  <2> QED
    BY <2>1, <2>2, <2>3, <2>4, SameKept
<1>3. CASE OpenKey
  <2>1. key'.mod = now' /\ key'.pair = 0 /\ cert' = cert /\ now' \in Nat /\ now <= now'
    BY <1>3 DEF OpenKey, Passes
  <2>2. Up => key.mod < cert.mod
    BY <1>3 DEF OpenKey, WriterInv
  <2>3. KeptIn(key, key')
    BY <2>1, <2>2, OpenedKept
  <2>4. WriterInv'
    <3>1. writer'.pc = "keyData" /\ writer'.pair = writer.pair /\ (Up' <=> Up)
      BY <1>3 DEF OpenKey, Step, Types, Writer, Up
    <3>2. writer.pc \in Writing
      BY <1>3 DEF OpenKey, Writing
    <3>3. UNCHANGED <<pairs, https, cached, mods, handshake>>
      BY <1>3 DEF OpenKey, reloader
    <3> QED
      BY <2>1, <3>1, <3>2, <3>3 DEF WriterInv
  <2> QED
    BY <2>1, <2>3, <2>4, SameKept
<1>4. CASE FillKey
  <2>1. key'.mod = now' /\ cert' = cert /\ now' \in Nat /\ now <= now'
    BY <1>4 DEF FillKey, Passes
  <2>2. key.pair = 0
    BY <1>4 DEF FillKey, WriterInv
  <2>3. KeptIn(key, key')
    BY <2>1, <2>2, FilledKept
  <2>4. WriterInv'
    <3>1. After(FALSE) = IF Up THEN "asleep" ELSE "serve"
      BY DEF After
    <3>2. writer'.pc = (IF Up THEN "asleep" ELSE "serve") /\ (Up' <=> Up)
      BY <1>4, <3>1 DEF FillKey, Step, Types, Writer, Up
    <3>3. UNCHANGED <<pairs, https, cached, mods, handshake>>
      BY <1>4 DEF FillKey, reloader
    <3> QED
      BY <3>2, <3>3 DEF WriterInv, Writing
  <2> QED
    BY <2>1, <2>3, <2>4, SameKept
<1> QED
  BY <1>1, <1>2, <1>3, <1>4

LEMMA WriteStep ==
  ASSUME Types, Types', ReloaderInv, OpenCert \/ FillCert \/ OpenKey \/ FillKey
  PROVE  ReloaderInv'
<1> USE Numbers DEF ReloaderInv
<1>1. /\ cert'.mod \in Nat /\ key'.mod \in Nat /\ now' \in Nat
      /\ KeptIn(cert, cert') /\ KeptIn(key, key')
      /\ cert.mod <= cert'.mod /\ key.mod <= key'.mod
      /\ cert'.mod <= now' /\ key'.mod <= now'
      /\ cert'.pair \in {cert.pair, 0, pairs}
      /\ WriterInv'
  BY WriteKept
<1>2. UNCHANGED <<cached, mods, handshake, pairs>> /\ Touched
  BY DEF OpenCert, FillCert, OpenKey, FillKey, reloader
<1>3. /\ cached = 0 => mods.cert = 0 /\ mods.key = 0
      /\ ~Up => mods.cert = 0 /\ mods.key = 0
      /\ ~Up => \A h \in Handshakes :
           handshake[h].mods.cert = 0 /\ handshake[h].mods.key = 0 /\ handshake[h].pc = "idle"
  BY DEF WriterInv, CacheInv, NoTimes, Idle
<1>4. /\ mods.cert <= cert'.mod /\ Agrees(mods.cert, cached, cert')
      /\ mods.key <= key'.mod /\ Agrees(mods.key, cached, key')
  BY <1>1, <1>3 DEF TimesInv, CacheInv, KeptIn
<1>5. ASSUME NEW h \in Handshakes
      PROVE  handshake[h].mods.cert <= cert'.mod /\ handshake[h].mods.key <= key'.mod
  BY <1>1 DEF TimesInv
<1>6. TimesInv'
  BY <1>1, <1>2, <1>4, <1>5 DEF TimesInv
<1>7. CacheInv'
  BY <1>1, <1>2, <1>4 DEF CacheInv
<1>8. ReadInv'
  <2> SUFFICES ASSUME NEW h \in Handshakes, handshake[h].pc \in {"readKey", "store"}
               PROVE  /\ handshake[h].pair # 0 /\ cached <= handshake[h].pair
                      /\ handshake[h].pair <= pairs
                      /\ cert'.pair # 0 => handshake[h].pair <= cert'.pair
                      /\ Agrees(mods.cert, handshake[h].pair, cert')
                      /\ Agrees(handshake[h].mods.cert, handshake[h].pair, cert')
                      /\ handshake[h].pc = "store" =>
                           /\ Agrees(mods.key, handshake[h].pair, key')
                           /\ Agrees(handshake[h].mods.key, handshake[h].pair, key')
    BY <1>2 DEF ReadInv, Agrees
  <2> DEFINE p == handshake[h].pair
  <2>1. /\ p \in Nat /\ p # 0 /\ cached <= p /\ p <= pairs
        /\ cert.pair # 0 => p <= cert.pair
        /\ Agrees(mods.cert, p, cert) /\ Agrees(handshake[h].mods.cert, p, cert)
        /\ handshake[h].pc = "store" =>
             Agrees(mods.key, p, key) /\ Agrees(handshake[h].mods.key, p, key)
    BY DEF ReadInv
  <2>2. Up
    BY <1>3
  <2>3. mods.cert <= cert.mod /\ mods.key <= key.mod
        /\ handshake[h].mods.cert <= cert.mod /\ handshake[h].mods.key <= key.mod
    BY DEF TimesInv
  <2> HIDE DEF p
  <2>4. Agrees(mods.cert, p, cert') /\ Agrees(handshake[h].mods.cert, p, cert')
    BY <1>1, <2>1, <2>2, <2>3 DEF KeptIn
  <2>5. handshake[h].pc = "store" =>
          Agrees(mods.key, p, key') /\ Agrees(handshake[h].mods.key, p, key')
    BY <1>1, <2>1, <2>2, <2>3 DEF KeptIn
  <2>6. cert'.pair # 0 => p <= cert'.pair
    BY <1>1, <2>1
  <2> QED
    BY <2>1, <2>4, <2>5, <2>6 DEF p
<1>9. BegunInv'
  <2>1. \A h \in Handshakes : begun'[h].onFile = 0 /\ begun'[h].cached = begun[h].cached
    BY <1>2 DEF Touched, Types, BegunType
  <2> QED
    BY <1>2, <2>1 DEF BegunInv
<1> QED
  BY <1>1, <1>6, <1>7, <1>8, <1>9

\* What main and the renewer do besides the files.
LEMMA OtherStep ==
  ASSUME Types, Types', ReloaderInv,
         \/ \E m \in Modes, hasRoot \in BOOLEAN : Start(m, hasRoot)
         \/ EnsureUICert \/ Serve \/ RenewUICertOnce \/ WriteFails
  PROVE  ReloaderInv'
<1> USE Numbers DEF ReloaderInv
<1>1. ASSUME UNCHANGED <<cert, key, now, reloader, handshake, begun>>,
             pairs' = pairs \/ pairs' = pairs + 1, WriterInv'
      PROVE  ReloaderInv'
  <2>1. TimesInv' /\ BegunInv'
    BY <1>1 DEF TimesInv, BegunInv, reloader
  <2>2. CacheInv'
    BY <1>1 DEF CacheInv, reloader
  <2>3. ReadInv'
    BY <1>1 DEF ReadInv, reloader
  <2> QED
    BY <1>1, <2>1, <2>2, <2>3
<1>2. ASSUME NEW m \in Modes, NEW hasRoot \in BOOLEAN, Start(m, hasRoot) PROVE ReloaderInv'
  <2>1. ~Up
    BY <1>2 DEF Start, WriterInv
  <2>2. WriterInv'
    BY <1>2, <2>1 DEF Start, reloader, WriterInv, Up, Writing, files
  <2> QED
    BY <1>1, <1>2, <2>2 DEF Start, files
<1>3. ASSUME NEW signer, Make(signer) PROVE ReloaderInv'
  <2>1. pairs' = pairs + 1 /\ writer'.pair = pairs + 1 /\ writer'.pc = "cert" /\ (Up' <=> Up)
    BY <1>3 DEF Make, Up
  <2>2. WriterInv'
    BY <1>3, <2>1 DEF Make, reloader, WriterInv
  <2> QED
    BY <1>1, <1>3, <2>1, <2>2 DEF Make
<1>4. ASSUME writer.pc = "ensure", Leave PROVE ReloaderInv'
  <2>0. ~Up
    BY <1>4 DEF WriterInv
  <2>1. writer'.pc = "serve" /\ (Up' <=> Up)
    BY <1>4 DEF Leave, Step, Types, Writer, Up
  <2>2. WriterInv'
    BY <1>4, <2>0, <2>1 DEF Leave, reloader, files, WriterInv, Writing
  <2> QED
    BY <1>1, <1>4, <2>2 DEF Leave, files
<1>5. ASSUME Serve PROVE ReloaderInv'
  <2>1. writer'.pc \notin Writing /\ writer'.pc \in {"asleep", "serving"} /\ Up'
    BY <1>5 DEF Serve, Writing, Up
  <2>2. WriterInv'
    BY <2>1 DEF WriterInv, Writing
  <2> QED
    BY <1>1, <1>5, <2>2 DEF Serve, files
<1>6. ASSUME WriteFails PROVE ReloaderInv'
  <2>1. After(TRUE) \in {"asleep", "ensure", "serve"} /\ (Up => After(TRUE) = "asleep")
    BY DEF After
  <2>2. /\ writer'.pc \in {"asleep", "ensure", "serve"} /\ (Up => writer'.pc = "asleep")
        /\ Up' <=> Up
    BY <1>6, <2>1 DEF WriteFails, Step, Types, Writer, Up
  <2>3. WriterInv'
    BY <1>6, <2>2 DEF WriteFails, reloader, WriterInv, Writing
  <2> QED
    BY <1>1, <1>6, <2>3 DEF WriteFails, files
<1> QED
  BY <1>2, <1>3, <1>4, <1>5, <1>6 DEF EnsureUICert, RenewUICertOnce

LEMMA CrashStep ==
  ASSUME Types, Types', ReloaderInv, Crash
  PROVE  ReloaderInv'
<1> USE Numbers DEF ReloaderInv, Crash, files
<1>1. TimesInv'
  BY DEF TimesInv, NoTimes, Idle
<1>2. WriterInv'
  BY DEF WriterInv, Off, Writing, Up
<1>3. CacheInv'
  BY DEF CacheInv, NoTimes, Agrees
<1>4. ReadInv' /\ BegunInv'
  BY DEF ReadInv, BegunInv, Idle, Nothing
<1> QED
  BY <1>1, <1>2, <1>3, <1>4

\* What ReadInv says of a handshake with this record.
HasRead(r) ==
  /\ r.pair # 0 /\ cached <= r.pair /\ r.pair <= pairs
  /\ cert.pair # 0 => r.pair <= cert.pair
  /\ Agrees(mods.cert, r.pair, cert) /\ Agrees(r.mods.cert, r.pair, cert)
  /\ r.pc = "store" => Agrees(mods.key, r.pair, key) /\ Agrees(r.mods.key, r.pair, key)

\* A step of a handshake that leaves the reloader alone.
LEMMA HandStep ==
  ASSUME Types, Types', ReloaderInv, NEW h \in Handshakes, NEW r \in Handshake, Up,
         handshake' = [handshake EXCEPT ![h] = r],
         UNCHANGED <<files, process, cached, mods>>,
         r.mods.cert <= cert.mod, r.mods.key <= key.mod,
         r.pc \notin {"readKey", "store"} \/ HasRead(r), BegunInv'
  PROVE  ReloaderInv'
<1> USE Numbers DEF ReloaderInv, files, process
<1>1. handshake \in [Handshakes -> Handshake]
  BY DEF Types, HandType
<1>2. TimesInv'
  BY <1>1 DEF TimesInv
<1>3. WriterInv' /\ CacheInv'
  BY DEF WriterInv, CacheInv, Up
<1>4. ReadInv'
  <2>1. ASSUME NEW g \in Handshakes, g # h PROVE handshake'[g] = handshake[g]
    BY <1>1, <2>1
  <2>2. handshake'[h] = r
    BY <1>1
  <2> QED
    BY <2>1, <2>2 DEF ReadInv, HasRead, Agrees
<1> QED
  BY <1>2, <1>3, <1>4

LEMMA Records ==
  ASSUME Types, NEW h \in Handshakes
  PROVE  /\ handshake[h] \in Handshake /\ handshake[h].mods \in Times
         /\ handshake[h].pc # "idle" /\ WriterInv => Up
  BY DEF Types, HandType, Handshake, WriterInv, Idle

LEMMA StatCertStep ==
  ASSUME Types, Types', ReloaderInv, NEW h \in Handshakes, StatCert(h)
  PROVE  ReloaderInv'
<1> USE Numbers DEF StatCert
<1> DEFINE r == [pc |-> "statKey", mods |-> [cert |-> cert.mod, key |-> 0], pair |-> 0]
<1>1. r \in Handshake
  BY Bounds DEF Handshake, Times, Types, FileType, File
<1>2. handshake' = [handshake EXCEPT ![h] = r] /\ handshake \in [Handshakes -> Handshake]
  BY DEF Types, HandType
<1>3. begun' = [begun EXCEPT ![h] = [cached |-> cached, onFile |-> OnFile]]
      /\ begun \in [Handshakes -> [cached : 0..MaxPairs, onFile : 0..MaxPairs]]
  BY DEF Types, BegunType
<1>4. OnFile # 0 => cert.pair = OnFile /\ key.pair = OnFile
  BY DEF OnFile
<1>5. BegunInv'
  <2>1. ASSUME NEW g \in Handshakes, g # h
        PROVE  handshake'[g] = handshake[g] /\ begun'[g] = begun[g]
    BY <1>2, <1>3, <2>1
  <2>2. handshake'[h] = r /\ begun'[h].cached = cached /\ begun'[h].onFile = OnFile
    BY <1>2, <1>3
  <2> QED
    BY <1>4, <2>1, <2>2 DEF BegunInv, ReloaderInv, files, reloader
<1>6. r.mods.cert <= cert.mod /\ r.mods.key <= key.mod /\ r.pc = "statKey"
  OBVIOUS
<1> HIDE DEF r
<1> QED
  BY <1>1, <1>2, <1>5, <1>6, HandStep DEF reloader

LEMMA StatKeyStep ==
  ASSUME Types, Types', ReloaderInv, NEW h \in Handshakes, StatKey(h)
  PROVE  ReloaderInv'
<1> USE Numbers DEF StatKey
<1> DEFINE r == [pc |-> "compare", mods |-> [cert |-> handshake[h].mods.cert, key |-> key.mod],
                 pair |-> 0]
<1>1. r \in Handshake /\ Up
  <2>1. handshake[h].mods.cert \in 0..MaxTime /\ key.mod \in 0..MaxTime
    BY Records DEF Times, Types, FileType, File
  <2> QED
    BY <2>1, Records, Bounds DEF Handshake, Times, ReloaderInv
<1>2. handshake' = [handshake EXCEPT ![h] = r] /\ handshake \in [Handshakes -> Handshake]
  BY DEF Types, HandType
<1>3. r.mods.cert <= cert.mod /\ r.mods.key <= key.mod
  BY DEF ReloaderInv, TimesInv
<1>4. BegunInv'
  BY <1>2 DEF BegunInv, ReloaderInv, files, reloader
<1> QED
  BY <1>1, <1>2, <1>3, <1>4, HandStep DEF reloader

\* An answer is no older than what was cached when the handshake began, and what was
\* on file then if the files were left alone since.
GoodAnswer(h, pair) ==
  /\ begun[h].cached <= pair
  /\ begun[h].onFile # 0 => pair = begun[h].onFile

LEMMA AnswerStep ==
  ASSUME Types, Types', ReloaderInv, NEW h \in Handshakes, handshake[h].pc # "idle",
         NEW pair \in 0..MaxPairs, Answer(h, pair), GoodAnswer(h, pair),
         UNCHANGED <<files, process, cached, mods, begun>>
  PROVE  ReloaderInv'
<1> USE Numbers
<1> DEFINE r == [pc |-> "done", mods |-> NoTimes, pair |-> pair]
<1>1. r \in Handshake /\ Up
  BY Records, DoneType DEF ReloaderInv
<1>2. handshake' = [handshake EXCEPT ![h] = r] /\ handshake \in [Handshakes -> Handshake]
  BY DEF Types, HandType, Answer
<1>3. r.mods.cert <= cert.mod /\ r.mods.key <= key.mod
  BY DEF NoTimes
<1>4. BegunInv'
  BY <1>2 DEF BegunInv, ReloaderInv, GoodAnswer, files
<1> QED
  BY <1>1, <1>2, <1>3, <1>4, HandStep

\* What is cached is a good answer when it is good for the times found.
LEMMA UnchangedIsGood ==
  ASSUME Types, ReloaderInv, NEW h \in Handshakes, handshake[h].pc \in {"compare", "lock"},
         Unchanged(handshake[h].mods)
  PROVE  GoodAnswer(h, cached)
<1>1. begun[h].cached <= cached
  BY DEF ReloaderInv, BegunInv
<1>2. ASSUME begun[h].onFile # 0 PROVE cached = begun[h].onFile
  <2>1. cert.pair = begun[h].onFile /\ handshake[h].mods.cert = cert.mod
    BY <1>2 DEF ReloaderInv, BegunInv
  <2>2. mods.cert = cert.mod /\ mods.cert # 0
    BY <2>1 DEF Unchanged, StatOK
  <2>3. cert.pair = cached
    BY <2>2 DEF ReloaderInv, CacheInv, Agrees
  <2> QED
    BY <2>1, <2>3
<1> QED
  BY <1>1, <1>2 DEF GoodAnswer

\* A handshake that goes on with what it has.
LEMMA GoOnStep ==
  ASSUME Types, Types', ReloaderInv, NEW h \in Handshakes, NEW pc \in {"lock", "readCert"},
         GoOn(h, pc), handshake[h].pc \in {"compare", "lock"},
         UNCHANGED <<files, process, cached, mods, begun>>
  PROVE  ReloaderInv'
<1> USE Numbers
<1> DEFINE r == [handshake[h] EXCEPT !.pc = pc]
<1>1. r \in Handshake /\ r.pc = pc /\ r.mods = handshake[h].mods /\ Up
  BY Records DEF Handshake, Locked, ReloaderInv
<1>2. handshake' = [handshake EXCEPT ![h] = r] /\ handshake \in [Handshakes -> Handshake]
  BY DEF Types, HandType, GoOn
<1> HIDE DEF r
<1>3. r.mods.cert <= cert.mod /\ r.mods.key <= key.mod
  BY <1>1 DEF ReloaderInv, TimesInv
<1>4. BegunInv'
  <2>1. ASSUME NEW g \in Handshakes, g # h PROVE handshake'[g] = handshake[g]
    BY <1>2, <2>1
  <2>2. handshake'[h] = r
    BY <1>2
  <2> QED
    BY <1>1, <2>1, <2>2 DEF BegunInv, ReloaderInv, files
<1> QED
  BY <1>1, <1>2, <1>3, <1>4, HandStep

LEMMA CompareStep ==
  ASSUME Types, Types', ReloaderInv, NEW h \in Handshakes, Compare(h) \/ Recheck(h)
  PROVE  ReloaderInv'
<1>1. handshake[h].pc \in {"compare", "lock"} /\ handshake[h].pc # "idle"
  BY DEF Compare, Recheck
<1>2. UNCHANGED <<files, process, cached, mods, begun>>
  BY DEF Compare, Recheck, reloader
<1>3. CASE Unchanged(handshake[h].mods)
  <2>1. Answer(h, cached) /\ cached \in 0..MaxPairs
    BY <1>3 DEF Compare, Recheck, Types, CacheType
  <2> QED
    BY <1>1, <1>2, <1>3, <2>1, AnswerStep, UnchangedIsGood
<1>4. CASE ~Unchanged(handshake[h].mods)
  <2>1. GoOn(h, "lock") \/ GoOn(h, "readCert")
    BY <1>4 DEF Compare, Recheck
  <2> QED
    BY <1>1, <1>2, <2>1, GoOnStep
<1> QED
  BY <1>3, <1>4

\* What is read under the lock is what is on file at that moment.
LEMMA ReadCertStep ==
  ASSUME Types, Types', ReloaderInv, NEW h \in Handshakes, ReadCert(h)
  PROVE  ReloaderInv'
<1> USE Numbers DEF ReadCert
<1> DEFINE r == [pc |-> IF cert.pair = 0 THEN "fail" ELSE "readKey", mods |-> handshake[h].mods,
                 pair |-> cert.pair]
<1>1. r \in Handshake /\ Up
  <2>1. cert.pair \in 0..MaxPairs /\ r.pc \in Locked
    BY DEF Types, FileType, File, Locked
  <2> QED
    BY <2>1, Records DEF Handshake, ReloaderInv
<1>2. handshake' = [handshake EXCEPT ![h] = r] /\ handshake \in [Handshakes -> Handshake]
  BY DEF Types, HandType
<1>3. r.mods.cert <= cert.mod /\ r.mods.key <= key.mod
  BY DEF ReloaderInv, TimesInv
<1>4. cert.pair # 0 => HasRead(r)
  BY DEF HasRead, ReloaderInv, CacheInv, Agrees
<1>5. BegunInv'
  <2>1. ASSUME NEW g \in Handshakes, g # h PROVE handshake'[g] = handshake[g]
    BY <1>2, <2>1
  <2>2. handshake'[h] = r
    BY <1>2
  <2> QED
    BY <2>1, <2>2 DEF BegunInv, ReloaderInv, files, reloader
<1> QED
  BY <1>1, <1>2, <1>3, <1>4, <1>5, HandStep DEF reloader

LEMMA ReadKeyStep ==
  ASSUME Types, Types', ReloaderInv, NEW h \in Handshakes, ReadKey(h)
  PROVE  ReloaderInv'
<1> USE Numbers DEF ReadKey
<1> DEFINE pc == IF key.pair = handshake[h].pair THEN "store" ELSE "fail"
           r == [handshake[h] EXCEPT !.pc = pc]
<1>1. pc \in Locked /\ (pc = "store" => key.pair = handshake[h].pair)
      /\ (pc = "fail" => key.pair # handshake[h].pair) /\ pc \in {"store", "fail"}
  BY DEF Locked
<1>2. handshake' = [handshake EXCEPT ![h].pc = pc]
  BY DEF GoOn
<1> HIDE DEF pc
<1>3. r \in Handshake /\ Up /\ r.pc = pc /\ r.mods = handshake[h].mods
      /\ r.pair = handshake[h].pair
  BY <1>1, Records DEF Handshake, ReloaderInv
<1>4. handshake' = [handshake EXCEPT ![h] = r] /\ handshake \in [Handshakes -> Handshake]
  BY <1>2 DEF Types, HandType
<1> HIDE DEF r
<1>5. r.mods.cert <= cert.mod /\ r.mods.key <= key.mod
  BY <1>3 DEF ReloaderInv, TimesInv
<1>6. pc = "store" => HasRead(r)
  BY <1>1, <1>3 DEF HasRead, ReloaderInv, ReadInv, Agrees
<1>7. BegunInv'
  <2>1. ASSUME NEW g \in Handshakes, g # h PROVE handshake'[g] = handshake[g]
    BY <1>4, <2>1
  <2>2. handshake'[h] = r
    BY <1>4
  <2> QED
    BY <1>1, <1>3, <2>1, <2>2 DEF BegunInv, ReloaderInv, files, reloader
<1> QED
  BY <1>1, <1>3, <1>4, <1>5, <1>6, <1>7, HandStep DEF reloader

LEMMA FailStep ==
  ASSUME Types, Types', ReloaderInv, NEW h \in Handshakes, LoadFails(h)
  PROVE  ReloaderInv'
<1>1. GoodAnswer(h, cached)
  BY DEF GoodAnswer, LoadFails, ReloaderInv, BegunInv
<1>2. cached \in 0..MaxPairs
  BY DEF Types, CacheType
<1> QED
  BY <1>1, <1>2, AnswerStep DEF LoadFails

LEMMA StoreStep ==
  ASSUME Types, Types', ReloaderInv, NEW h \in Handshakes, Store(h)
  PROVE  ReloaderInv'
<1> USE Numbers DEF Store, ReloaderInv, files
<1> DEFINE r == [pc |-> "done", mods |-> NoTimes, pair |-> handshake[h].pair]
<1>1. HasRead(handshake[h]) /\ handshake[h].pc = "store" /\ Up
  BY Records DEF HasRead, ReadInv
<1>2. handshake' = [handshake EXCEPT ![h] = r] /\ handshake \in [Handshakes -> Handshake]
  BY DEF Types, HandType, Answer
<1>3. \A g \in Handshakes : g # h => handshake'[g] = handshake[g]
                                     /\ handshake[g].pc \notin {"readKey", "store"}
  BY <1>1, <1>2 DEF Types, HandType, Locked
<1>4. handshake'[h] = r
  BY <1>2
<1>5. cached' = handshake[h].pair /\ mods' \in {mods, handshake[h].mods} /\ cached <= cached'
  BY <1>1 DEF Recorded, HasRead
<1>6. TimesInv'
  BY <1>3, <1>4, <1>5 DEF TimesInv, NoTimes
<1>7. WriterInv'
  BY <1>1 DEF process, WriterInv, Up
<1>8. CacheInv'
  BY <1>1, <1>5 DEF CacheInv, HasRead, Agrees
<1>9. ReadInv'
  BY <1>3, <1>4 DEF ReadInv
<1>10. BegunInv'
  <2>1. begun[h].cached <= handshake[h].pair
        /\ begun[h].onFile # 0 => /\ handshake[h].pair = begun[h].onFile
                                  /\ cert.pair = begun[h].onFile /\ key.pair = begun[h].onFile
    BY <1>1, BegunNumbers DEF BegunInv, HasRead
  <2> QED
    BY <1>3, <1>4, <1>5, <2>1, BegunNumbers DEF BegunInv
<1> QED
  BY <1>6, <1>7, <1>8, <1>9, <1>10

LEMMA ReloaderStep == Types /\ ReloaderInv /\ [Next]_vars => ReloaderInv'
<1> SUFFICES ASSUME Types, ReloaderInv, [Next]_vars PROVE ReloaderInv'
  OBVIOUS
<1>1. Types'
  BY TypeStep
<1>2. CASE UNCHANGED vars
  BY <1>2 DEF vars, files, process, reloader, ReloaderInv, TimesInv, WriterInv, CacheInv, ReadInv,
     BegunInv, Agrees, Up
<1>3. ASSUME NEW h \in Handshakes, GetCertificate(h) PROVE ReloaderInv'
  BY <1>1, <1>3, StatCertStep, StatKeyStep, CompareStep, ReadCertStep, ReadKeyStep, StoreStep,
     FailStep DEF GetCertificate, Reload
<1> QED
  BY <1>1, <1>2, <1>3, OtherStep, WriteStep, CrashStep DEF Next, Write

\* The inductive invariant of the reloader against whoever writes the pair: times and
\* pairs only grow, and who goes by a file's time has what is in it, for any number
\* of handshakes at any statement of any writing.
THEOREM ReloaderInvariant == Spec => []ReloaderInv
  BY TypeInit, TypeStep, ReloaderInit, ReloaderStep, PTL DEF Spec

\* certReloader never takes an old pair for the one on file.
THEOREM CacheAlwaysCoherent == Spec => []CacheCoherent
<1>1. ReloaderInv => CacheCoherent
  BY DEF ReloaderInv, CacheInv, Agrees, CacheCoherent, Unchanged, StatOK
<1> QED
  BY <1>1, ReloaderInvariant, PTL

\* Every handshake is answered with what was cached when it began or something newer,
\* and with the pair on file if the files were left alone.
THEOREM HandshakesAreServed == Spec => []HandshakeServed
<1>1. ReloaderInv => HandshakeServed
  BY DEF ReloaderInv, BegunInv, HandshakeServed
<1> QED
  BY <1>1, ReloaderInvariant, PTL

\* What is served never goes back while the process runs.
THEOREM ServedNeverBack == Spec => NeverBack
<1>1. Types /\ ReloaderInv /\ [Next]_vars => [writer'.pc = "off" \/ cached' >= cached]_vars
  <2> SUFFICES ASSUME Types, ReloaderInv, Next PROVE writer'.pc = "off" \/ cached' >= cached
    OBVIOUS
  <2>1. cached' = cached => cached' >= cached
    BY Numbers
  <2>2. ASSUME NEW h \in Handshakes, Store(h) PROVE cached' >= cached
    BY <2>2, Numbers DEF Store, ReloaderInv, ReadInv
  <2>3. ASSUME Crash PROVE writer'.pc = "off"
    BY <2>3 DEF Crash, Off
  <2>4. ASSUME NEW h \in Handshakes, GetCertificate(h) PROVE cached' >= cached
    BY <2>1, <2>2, <2>4 DEF GetCertificate, StatCert, StatKey, Compare, Recheck, Reload, ReadCert,
       ReadKey, LoadFails, reloader
  <2>5. ASSUME EnsureUICert \/ Serve \/ RenewUICertOnce \/ Write
        PROVE  cached' = cached
    BY <2>5 DEF EnsureUICert, Serve, RenewUICertOnce, Write, Leave, Make, OpenCert, FillCert,
       OpenKey, FillKey, WriteFails, reloader
  <2>6. ASSUME NEW m \in Modes, NEW hasRoot \in BOOLEAN, Start(m, hasRoot) PROVE cached' = cached
    BY <2>6 DEF Start, reloader
  <2> QED
    BY <2>1, <2>3, <2>4, <2>5, <2>6 DEF Next
<1> QED
  BY <1>1, TypeInit, TypeStep, ReloaderInit, ReloaderStep, PTL DEF Spec, NeverBack
-----------------------------------------------------------------------------
(* The process that serves *)

LEMMA ServeInit == Init => ServeInv
  BY DEF Init, ServeInv, PairsAreWritten, NothingHalfWritten, Promised, Absent, Off, Writing, Up

\* The fields of the writer after a step of it.
LEMMA StepFields ==
  ASSUME Types, NEW pc, Step(pc)
  PROVE  writer'.pc = pc /\ writer'.pair = writer.pair /\ writer'.by = writer.by /\ (Up' <=> Up)
  BY DEF Types, Writer, Step, Up

\* Time starts at 1, so that what was written has a time.
LEMMA TimeGoes ==
  ASSUME Types, now # 0, Passes \/ PassesSince
  PROVE  now' # 0
  BY DEF Types, FileType, Passes, PassesSince

\* The four statements that write the pair: what is there when the last of them is
\* done is the pair in hand.
LEMMA WriteServes ==
  ASSUME Types, WriterInv, ServeInv, OpenCert \/ FillCert \/ OpenKey \/ FillKey
  PROVE  ServeInv'
<1>0. /\ writer.pc \in Writing /\ writer.pair # 0
      /\ UNCHANGED <<mode, https, trouble>>
  BY DEF WriterInv, OpenCert, FillCert, OpenKey, FillKey, Writing
<1>1. now' # 0 /\ (Promised' <=> Promised)
  BY <1>0, TimeGoes DEF OpenCert, FillCert, OpenKey, FillKey, ServeInv, PairsAreWritten, Promised
<1>2. CASE OpenCert \/ FillCert \/ OpenKey
  <2>1. writer'.pc \in {"certData", "key", "keyData"} /\ (Up' <=> Up) /\ writer'.pair = writer.pair
    BY <1>2, StepFields DEF OpenCert, FillCert, OpenKey
  <2>2. PairsAreWritten'
    <3>1. CASE OpenCert
      BY <1>1, <3>1, StepFields DEF OpenCert, PairsAreWritten
    <3>2. CASE FillCert
      BY <1>1, <3>2, StepFields DEF FillCert, PairsAreWritten
    <3>3. CASE OpenKey
      BY <1>1, <3>3, StepFields DEF OpenKey, ServeInv, PairsAreWritten
    <3> QED
      BY <1>2, <3>1, <3>2, <3>3
  <2> QED
    BY <1>0, <1>1, <2>1, <2>2 DEF ServeInv, NothingHalfWritten, Writing
<1>3. CASE FillKey
  <2>1. /\ writer'.pc \in {"asleep", "serve"} /\ (Up' <=> Up)
        /\ cert' = cert /\ key' = [pair |-> writer.pair, mod |-> now']
    BY <1>3, StepFields DEF FillKey, After
  <2>2. OnFile' = writer.pair
    BY <1>3, <2>1 DEF FillKey, OnFile, ServeInv, PairsAreWritten
  <2>3. PairsAreWritten'
    BY <1>1, <2>1 DEF ServeInv, PairsAreWritten
  <2> QED
    BY <1>0, <1>1, <2>1, <2>2, <2>3 DEF ServeInv, NothingHalfWritten
<1> QED
  BY <1>2, <1>3

\* What main and the renewer do besides: ensureUICert leaves a pair alone only when it
\* is none of its business or there is one.
LEMMA OtherServes ==
  ASSUME Types, WriterInv, ServeInv,
         \/ \E m \in Modes, hasRoot \in BOOLEAN : Start(m, hasRoot)
         \/ EnsureUICert \/ Serve \/ RenewUICertOnce \/ WriteFails
  PROVE  ServeInv'
<1>1. ASSUME NEW m \in Modes, NEW hasRoot \in BOOLEAN, Start(m, hasRoot) PROVE ServeInv'
  BY <1>1 DEF Start, files, ServeInv, PairsAreWritten, NothingHalfWritten, OnFile, Writing, Up
<1>2. ASSUME NEW signer, Make(signer) PROVE ServeInv'
  BY <1>2 DEF Make, ServeInv, PairsAreWritten, NothingHalfWritten, Promised, Writing, Up
<1>3. ASSUME writer.pc = "ensure", Leave, mode = "provided" \/ (mode = "self-signed" /\ cert.mod # 0)
      PROVE  ServeInv'
  <2>1. writer'.pc = "serve" /\ (Up' <=> Up) /\ ~Up
    BY <1>3, StepFields DEF Leave, WriterInv
  <2>2. UNCHANGED <<cert, key, now, mode, https, trouble>>
    BY <1>3 DEF Leave, files
  <2>3. Promised => OnFile # 0
    BY <1>3 DEF ServeInv, Promised, NothingHalfWritten, Writing, Types, OtherType
  <2> QED
    BY <1>3, <2>1, <2>2, <2>3
    DEF ServeInv, PairsAreWritten, NothingHalfWritten, Promised, OnFile, Writing
<1>4. ASSUME Serve PROVE ServeInv'
  <2>1. /\ writer.pc = "serve" /\ writer'.pc \in {"asleep", "serving"}
        /\ https' = (UseHTTPS \/ cert.mod # 0)
        /\ UNCHANGED <<cert, key, now, mode, trouble>>
    BY <1>4 DEF Serve, files
  <2>2. Promised => https' /\ OnFile # 0
    BY <2>1 DEF ServeInv, PairsAreWritten, OnFile
  <2> QED
    BY <2>1, <2>2 DEF ServeInv, PairsAreWritten, NothingHalfWritten, Promised, OnFile, Writing
<1>5. ASSUME WriteFails PROVE ServeInv'
  <2>1. writer'.pc \in {"asleep", "ensure", "serve"} /\ "file" \in trouble'
        /\ UNCHANGED <<cert, key, now>>
    BY <1>5, StepFields DEF WriteFails, After, files
  <2> QED
    BY <2>1 DEF ServeInv, PairsAreWritten, NothingHalfWritten, Promised
<1>6. CASE EnsureUICert
  <2>1. \/ /\ writer.pc = "ensure" /\ Leave
           /\ mode = "provided" \/ (mode = "self-signed" /\ cert.mod # 0)
        \/ Make("self") \/ Make("CA")
    BY <1>6, Zenon DEF EnsureUICert
  <2> QED
    BY <1>2, <1>3, <2>1, Zenon
<1>7. CASE RenewUICertOnce
  BY <1>2, <1>7 DEF RenewUICertOnce
<1> QED
  BY <1>1, <1>4, <1>5, <1>6, <1>7

LEMMA ServeStep == Types /\ WriterInv /\ ServeInv /\ [Next]_vars => ServeInv'
<1> SUFFICES ASSUME Types, WriterInv, ServeInv, [Next]_vars PROVE ServeInv'
  OBVIOUS
<1>1. ASSUME UNCHANGED <<cert, key, now, mode, https, writer, trouble>> PROVE ServeInv'
  BY <1>1 DEF ServeInv, PairsAreWritten, NothingHalfWritten, Promised, OnFile, Up
<1>2. ASSUME NEW h \in Handshakes, GetCertificate(h) PROVE ServeInv'
  BY <1>1, <1>2 DEF GetCertificate, StatCert, StatKey, Compare, Recheck, Reload, ReadCert, ReadKey,
     Store, LoadFails, files, process
<1>3. ASSUME Crash PROVE ServeInv'
  <2>1. writer'.pc = "off" /\ writer'.by = "main" /\ UNCHANGED <<cert, key, now>>
    BY <1>3 DEF Crash, Off, files
  <2>2. trouble' = {} => trouble = {} /\ writer.pc \notin Writing
    BY <1>3 DEF Crash
  <2> QED
    BY <2>1, <2>2 DEF ServeInv, PairsAreWritten, NothingHalfWritten, OnFile, Up, Writing
<1>4. CASE UNCHANGED vars
  BY <1>1, <1>4 DEF vars, files, process
<1> QED
  BY <1>2, <1>3, <1>4, OtherServes, WriteServes DEF Next, Write

\* The inductive invariant of the start and the renewer on the pair of files.
THEOREM ServeInvariant == Spec => []ServeInv
<1>1. ReloaderInv => WriterInv
  BY DEF ReloaderInv
<1> QED
  BY <1>1, TypeInit, TypeStep, ReloaderInit, ReloaderStep, ServeInit, ServeStep, PTL DEF Spec

\* A process that serves has a matching pair on file and serves HTTPS, whatever the
\* earlier processes did and wherever they ended, with the exceptions of ReadyToServe.
THEOREM AlwaysReady == Spec => []ReadyToServe
<1>1. Types /\ ReloaderInv /\ ServeInv => ReadyToServe
  <2> SUFFICES ASSUME Types, ReloaderInv, ServeInv, Up, writer.pc \notin Writing, Promised
               PROVE  https /\ OnFile # 0
    BY DEF ReadyToServe, Promised
  <2>1. writer.pc \in {"serving", "asleep"}
    BY DEF Types, Writer, ReloaderInv, WriterInv
  <2> QED
    BY <2>1 DEF ServeInv
<1> QED
  BY <1>1, TypeInit, TypeStep, ReloaderInvariant, ServeInvariant, PTL DEF Spec
-----------------------------------------------------------------------------
(* Beside each other *)

\* The composition runs each of the two as its own specification says, the other
\* one standing still: what holds of one alone holds of it here.
THEOREM BothRun == MCSpec => Spec /\ F!Spec
<1>1. MCInit => Init /\ F!Init
  BY DEF MCInit
<1>2. [MCNext]_<<part, vars, factorVars>> => [Next]_vars
  BY DEF MCNext
<1>3. [MCNext]_<<part, vars, factorVars>> => [F!Next]_F!vars
  BY DEF MCNext, factorVars, F!vars
<1> QED
  BY <1>1, <1>2, <1>3, PTL DEF MCSpec, Spec, F!Spec

\* One code per secret is accepted in one 30-second step, and that once, unless
\* TOTP checks or changes of the enrolment overlapped or the database failed.
THEOREM OneCodePerStep == MCSpec => []OneAcceptancePerStep
<1>1. F!OneAcceptancePerStep => OneAcceptancePerStep
  BY DEF OneAcceptancePerStep
<1> QED
  BY <1>1, BothRun, F!OneCodePerStep, FactorAssumption, PTL

\* A recovery code is accepted once, unless two were redeemed at a time or the
\* database failed.
THEOREM RecoveryOnce == MCSpec => []RecoveryCodesUsedOnce
<1>1. F!RecoveryCodesUsedOnce => RecoveryCodesUsedOnce
  BY DEF RecoveryCodesUsedOnce
<1> QED
  BY <1>1, BothRun, F!RecoveryOnce, FactorAssumption, PTL

\* With no enrolment or disabling under way, the recovery codes on file are those
\* of the last confirmation, or none, unless two overlapped or one was cut off.
THEOREM CodesAreCurrent == MCSpec => []CodesOfThisEnrolment
<1>1. F!CodesOfThisEnrolment => CodesOfThisEnrolment
  BY DEF CodesOfThisEnrolment
<1> QED
  BY <1>1, BothRun, F!CodesAreCurrent, FactorAssumption, PTL

\* A step that has not begun is never taken for one that was used, whatever
\* overlaps and fails.
THEOREM NotLockedOut == MCSpec => []NeverLockedOut
<1>1. F!NeverLockedOut => NeverLockedOut
  BY DEF NeverLockedOut
<1> QED
  BY <1>1, BothRun, F!NotLockedOut, FactorAssumption, PTL
=============================================================================
