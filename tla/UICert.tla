------------------------------- MODULE UICert -------------------------------
(***************************************************************************)
(* The certificate the UI itself serves: the pair of files, who writes it  *)
(* (ensureUICert at the start, the renewer afterwards), and certReloader,  *)
(* which every TLS handshake asks for the pair.                            *)
(*                                                                         *)
(* Pairs are numbers in the order they were made.  A file has the pair it  *)
(* belongs to (0 while it is empty) and the time it was last written (0    *)
(* while there is no file); the clock of the file system may be too coarse *)
(* to tell the statements of one writing of the pair apart.  os.WriteFile  *)
(* empties the file and then fills it, and a handshake takes its steps in  *)
(* between.                                                                *)
(*                                                                         *)
(* A definition that stands right before another one with its parameters   *)
(* and is not used is a plausible bug of the code, as in UserSession.      *)
(***************************************************************************)
EXTENDS Integers

CONSTANTS
  Handshakes,  \* TLS handshakes at a time
  Modes,       \* values UI_TLS_MODE is given, at each start
  UseHTTPS,    \* USE_HTTPS
  MaxPairs,    \* bound on pairs made
  MaxTime,     \* bound on the clock of the file system
  MaxCrashes   \* bound on ends of the process

Nobody == "nobody"

ASSUME UICertAssumption ==
  /\ {MaxPairs, MaxCrashes} \subseteq Nat /\ MaxTime \in Nat \ {0}
  /\ Modes \subseteq {"provided", "stepca", "self-signed"} /\ UseHTTPS \in BOOLEAN
  /\ Nobody \notin Handshakes

VARIABLES
  cert, key,  \* the files SSL_CERT and SSL_KEY
  pairs,      \* pairs made so far
  now,        \* the clock of the file system
  mode,       \* UI_TLS_MODE of the process
  client,     \* whether it has a client for the CA
  https,      \* whether it serves HTTPS
  writer,     \* what main and then the renewer are doing
  cached,     \* certReloader: the pair it holds, 0 if none,
  mods,       \*   and the times it goes by
  lock,       \*   who holds its mutex for writing
  handshake,  \* what each handshake is doing
  crashes,    \* how often the process has ended
  begun,      \* history: what each handshake found when it began
  trouble     \* history: what went on that a promise is not made for

files == <<cert, key, pairs, now>>
process == <<mode, client, https, writer>>
reloader == <<cached, mods, lock>>
vars == <<files, process, reloader, handshake, crashes, begun, trouble>>

-----------------------------------------------------------------------------
(* Types *)

File == [pair : 0..MaxPairs, mod : 0..MaxTime]
Absent == [pair |-> 0, mod |-> 0]
Times == [cert : 0..MaxTime, key : 0..MaxTime]
NoTimes == [cert |-> 0, key |-> 0]

\* Before it serves main writes, then the renewer; `pair' is what is written, by
\* whom it was signed.
Writing == {"cert", "certData", "key", "keyData"}
Writer == [pc : Writing \cup {"off", "ensure", "serve", "serving", "asleep"},
           by : {"main", "renewer"}, pair : 0..MaxPairs, signer : {"CA", "self"}]
Off == [pc |-> "off", by |-> "main", pair |-> 0, signer |-> "self"]

\* `mods' is what it found for the two files, `pair' what it has read or serves.
Idle == [pc |-> "idle", mods |-> NoTimes, pair |-> 0]
Locked == {"readCert", "readKey", "store", "fail"}
Handshake == [pc : Locked \cup {"idle", "statKey", "compare", "lock", "done"},
              mods : Times, pair : 0..MaxPairs]

TypeOK ==
  /\ cert \in File /\ key \in File /\ pairs \in 0..MaxPairs /\ now \in 0..MaxTime
  /\ mode \in {"provided", "stepca", "self-signed"} /\ client \in BOOLEAN /\ https \in BOOLEAN
  /\ writer \in Writer
  /\ cached \in 0..MaxPairs /\ mods \in Times /\ lock \in Handshakes \cup {Nobody}
  /\ handshake \in [Handshakes -> Handshake]
  /\ \A h \in Handshakes : handshake[h].pc \in Locked <=> lock = h
  /\ crashes \in 0..MaxCrashes
  /\ begun \in [Handshakes -> [cached : 0..MaxPairs, onFile : 0..MaxPairs]]
  /\ trouble \subseteq {"file", "crash"}

-----------------------------------------------------------------------------
(* Helpers *)

Step(pc) == writer' = [writer EXCEPT !.pc = pc]
Up == writer.by = "renewer"

\* The pair on file, 0 unless tls.LoadX509KeyPair would take it.
OnFile == IF cert.pair = key.pair THEN cert.pair ELSE 0

\* A file was touched: no handshake under way has found what it will read.
Touched == begun' = [h \in Handshakes |-> [begun[h] EXCEPT !.onFile = 0]]

\* Time goes on or not from one statement to the next; between two writings of
\* the pair by the renewer there is a minute at least.
Passes == now' \in {now, now + 1} /\ now' <= MaxTime
PassesSince == IF Up THEN now' = now + 1 /\ now' <= MaxTime ELSE Passes

-----------------------------------------------------------------------------
(* The start: main, ensureUICert *)

\* The CA's root is on file or fetched in time, or there is no client.
Start(m, hasRoot) ==
  /\ writer.pc = "off"
  /\ writer' = [pc |-> "ensure", by |-> "main", pair |-> 0, signer |-> "self"]
  /\ mode' = m /\ client' = hasRoot /\ https' = FALSE
  /\ UNCHANGED <<files, reloader, handshake, crashes, begun, trouble>>

\* A pair is made and is going to be written.
Make(signer) ==
  /\ pairs < MaxPairs /\ pairs' = pairs + 1
  /\ writer' = [pc |-> "cert", by |-> writer.by, pair |-> pairs + 1, signer |-> signer]
  /\ UNCHANGED <<cert, key, now, mode, client, https, reloader, handshake, crashes, begun, trouble>>

Leave ==
  /\ Step("serve")
  /\ UNCHANGED <<files, mode, client, https, reloader, handshake, crashes, begun, trouble>>

\* Issuing may be tried again any number of times before the fallback.
EnsureUICertOnce ==
  /\ writer.pc = "ensure"
  /\ \/ mode = "provided" /\ Leave
     \/ mode # "provided" /\ cert.mod # 0 /\ Leave
     \/ mode # "provided" /\ cert.mod = 0 /\ Make("self")
     \/ mode = "stepca" /\ cert.mod = 0 /\ client /\ Make("CA")
EnsureUICert ==
  /\ writer.pc = "ensure"
  /\ \/ mode = "provided" /\ Leave
     \/ mode = "self-signed" /\ cert.mod # 0 /\ Leave
     \/ (mode = "self-signed" => cert.mod = 0) /\ mode # "provided" /\ Make("self")
     \/ mode = "stepca" /\ client /\ Make("CA")

\* HTTPS if it is asked for or there is a certificate file; then the renewer, which
\* sleeps before it renews.
Serve ==
  /\ writer.pc = "serve"
  /\ https' = (UseHTTPS \/ cert.mod # 0)
  /\ writer' = [pc |-> IF mode = "stepca" /\ client THEN "asleep" ELSE "serving",
                by |-> "renewer", pair |-> 0, signer |-> "self"]
  /\ UNCHANGED <<files, mode, client, reloader, handshake, crashes, begun, trouble>>

\* A renewal the CA refuses changes nothing.
RenewUICertOnce == writer.pc = "asleep" /\ Make("CA")

-----------------------------------------------------------------------------
(* Writing the pair: issueUICert, generateSelfSignedCert *)

\* Where a writing ends: a failed issue at the start is tried again.
After(failed) ==
  IF Up THEN "asleep" ELSE IF failed /\ writer.signer = "CA" THEN "ensure" ELSE "serve"

OpenCert ==
  /\ writer.pc = "cert"
  /\ PassesSince /\ cert' = [pair |-> 0, mod |-> now'] /\ Step("certData")
  /\ Touched
  /\ UNCHANGED <<key, pairs, mode, client, https, reloader, handshake, crashes, trouble>>

FillCert ==
  /\ writer.pc = "certData"
  /\ Passes /\ cert' = [pair |-> writer.pair, mod |-> now'] /\ Step("key")
  /\ Touched
  /\ UNCHANGED <<key, pairs, mode, client, https, reloader, handshake, crashes, trouble>>

OpenKey ==
  /\ writer.pc = "key"
  /\ Passes /\ key' = [pair |-> 0, mod |-> now'] /\ Step("keyData")
  /\ Touched
  /\ UNCHANGED <<cert, pairs, mode, client, https, reloader, handshake, crashes, trouble>>

FillKey ==
  /\ writer.pc = "keyData"
  /\ Passes /\ key' = [pair |-> writer.pair, mod |-> now'] /\ Step(After(FALSE))
  /\ Touched
  /\ UNCHANGED <<cert, pairs, mode, client, https, reloader, handshake, crashes, trouble>>

\* A file cannot be opened, or not be filled.
WriteFails ==
  /\ writer.pc \in Writing
  /\ Step(After(TRUE)) /\ trouble' = trouble \cup {"file"}
  /\ UNCHANGED <<files, mode, client, https, reloader, handshake, crashes, begun>>

-----------------------------------------------------------------------------
(* A handshake: GetCertificate *)

GoOn(h, pc) == handshake' = [handshake EXCEPT ![h].pc = pc]
Answer(h, pair) ==
  handshake' = [handshake EXCEPT ![h] = [pc |-> "done", mods |-> NoTimes, pair |-> pair]]

\* os.Stat of a file that is not there fails, which its time of 0 stands for.
StatCert(h) ==
  /\ Up /\ https /\ handshake[h].pc \in {"idle", "done"}
  /\ handshake' = [handshake EXCEPT ![h] =
       [pc |-> "statKey", mods |-> [cert |-> cert.mod, key |-> 0], pair |-> 0]]
  /\ begun' = [begun EXCEPT ![h] = [cached |-> cached, onFile |-> OnFile]]
  /\ UNCHANGED <<files, process, reloader, crashes, trouble>>

StatKey(h) ==
  /\ handshake[h].pc = "statKey"
  /\ handshake' = [handshake EXCEPT ![h] =
       [pc |-> "compare", mods |-> [cert |-> @.mods.cert, key |-> key.mod], pair |-> 0]]
  /\ UNCHANGED <<files, process, reloader, crashes, begun, trouble>>

StatOK(t) == t.cert # 0 /\ t.key # 0

UnchangedIfAny(t) == cached # 0
\* Whether what is cached is good for files of these times.
Unchanged(t) == StatOK(t) /\ cached # 0 /\ t = mods

\* Under RLock.
Compare(h) ==
  /\ handshake[h].pc = "compare" /\ lock = Nobody
  /\ IF Unchanged(handshake[h].mods) THEN Answer(h, cached) ELSE GoOn(h, "lock")
  /\ UNCHANGED <<files, process, reloader, crashes, begun, trouble>>

LockHeldNever == FALSE
LockHeld == lock # Nobody

\* Lock, and the same comparison again, for another one may have reloaded.
Recheck(h) ==
  /\ handshake[h].pc = "lock" /\ ~LockHeld
  /\ IF Unchanged(handshake[h].mods)
       THEN Answer(h, cached) /\ UNCHANGED lock
       ELSE GoOn(h, "readCert") /\ lock' = h
  /\ UNCHANGED <<files, process, cached, mods, crashes, begun, trouble>>

ReadCert(h) ==
  /\ handshake[h].pc = "readCert"
  /\ handshake' = [handshake EXCEPT ![h] =
       [pc |-> IF cert.pair = 0 THEN "fail" ELSE "readKey", mods |-> @.mods, pair |-> cert.pair]]
  /\ UNCHANGED <<files, process, reloader, crashes, begun, trouble>>

\* tls.X509KeyPair refuses a key that is not the certificate's.
ReadKey(h) ==
  /\ handshake[h].pc = "readKey"
  /\ GoOn(h, IF key.pair = handshake[h].pair THEN "store" ELSE "fail")
  /\ UNCHANGED <<files, process, reloader, crashes, begun, trouble>>

RecordedAfterwards(t) == IF StatOK(t) THEN [cert |-> cert.mod, key |-> key.mod] ELSE mods
Recorded(t) == IF StatOK(t) THEN t ELSE mods

Store(h) ==
  /\ handshake[h].pc = "store"
  /\ cached' = handshake[h].pair /\ mods' = Recorded(handshake[h].mods)
  /\ Answer(h, handshake[h].pair) /\ lock' = Nobody
  /\ UNCHANGED <<files, process, crashes, begun, trouble>>

\* The last good pair is served, if there is one.
LoadFailsLocked(h) ==
  /\ handshake[h].pc = "fail"
  /\ Answer(h, cached)
  /\ UNCHANGED <<files, process, reloader, crashes, begun, trouble>>
LoadFails(h) ==
  /\ handshake[h].pc = "fail"
  /\ Answer(h, cached) /\ lock' = Nobody
  /\ UNCHANGED <<files, process, cached, mods, crashes, begun, trouble>>

-----------------------------------------------------------------------------
(* The end of the process *)

Nothing == [h \in Handshakes |-> [cached |-> 0, onFile |-> 0]]

Crash ==
  /\ writer.pc # "off" /\ crashes < MaxCrashes /\ crashes' = crashes + 1
  /\ trouble' = IF writer.pc \in Writing THEN trouble \cup {"crash"} ELSE trouble
  /\ writer' = Off /\ https' = FALSE
  /\ cached' = 0 /\ mods' = NoTimes /\ lock' = Nobody
  /\ handshake' = [h \in Handshakes |-> Idle] /\ begun' = Nothing
  /\ UNCHANGED <<files, mode, client>>

-----------------------------------------------------------------------------
(* The specification *)

Init ==
  /\ cert = Absent /\ key = Absent /\ pairs = 0 /\ now = 1
  /\ mode = "provided" /\ client = FALSE /\ https = FALSE /\ writer = Off
  /\ cached = 0 /\ mods = NoTimes /\ lock = Nobody
  /\ handshake = [h \in Handshakes |-> Idle]
  /\ crashes = 0 /\ begun = Nothing /\ trouble = {}

Write == OpenCert \/ FillCert \/ OpenKey \/ FillKey \/ WriteFails

Reload(h) == ReadCert(h) \/ ReadKey(h) \/ Store(h) \/ LoadFails(h)
GetCertificate(h) == StatCert(h) \/ StatKey(h) \/ Compare(h) \/ Recheck(h) \/ Reload(h)

Next ==
  \/ \E m \in Modes, hasRoot \in BOOLEAN : Start(m, hasRoot)
  \/ EnsureUICert \/ Serve \/ RenewUICertOnce
  \/ Write
  \/ \E h \in Handshakes : GetCertificate(h)
  \/ Crash

Spec == Init /\ [][Next]_vars

-----------------------------------------------------------------------------
(* Properties *)

\* Whenever the times on file are such that certReloader would answer with what it
\* holds, at any moment of any writing, that is what is on file: it never takes an
\* old pair for the present one, and is never stuck with it.
CacheCoherent ==
  Unchanged([cert |-> cert.mod, key |-> key.mod]) => cert.pair = cached /\ key.pair = cached

\* A handshake is served a pair no older than the one cached when it began, also
\* while the files are being written; and if it began with a pair on file and the
\* files were left alone since, it is served that one.
HandshakeServed ==
  \A h \in Handshakes : handshake[h].pc = "done" =>
    /\ handshake[h].pair >= begun[h].cached
    /\ begun[h].onFile # 0 => handshake[h].pair = begun[h].onFile

\* However handshakes that reload overlap, what is served never goes back to an
\* earlier pair or to none while the process runs.
NeverBack == [][writer'.pc = "off" \/ cached' >= cached]_vars

\* What makes these inductive.  Times on file only grow; a renewal makes them larger
\* than any that was found before it, and who goes by a time of a file that is not
\* empty has what is in it.
Agrees(time, pair, file) == time # 0 /\ time = file.mod => file.pair = pair

TimesInv ==
  /\ cert.mod <= now /\ key.mod <= now
  /\ mods.cert <= cert.mod /\ mods.key <= key.mod
  /\ \A h \in Handshakes :
       handshake[h].mods.cert <= cert.mod /\ handshake[h].mods.key <= key.mod

WriterInv ==
  /\ writer.pc \in Writing => writer.pair = pairs /\ pairs # 0
  /\ writer.pc \in {"off", "ensure", "serve"} => ~Up
  /\ writer.pc = "certData" => cert.pair = 0
  /\ writer.pc = "keyData" => key.pair = 0
  /\ Up /\ writer.pc \in {"certData", "key"} => key.mod < cert.mod
  /\ ~Up => ~https /\ cached = 0 /\ mods = NoTimes /\ \A h \in Handshakes : handshake[h] = Idle

CacheInv ==
  /\ cached = 0 => mods = NoTimes
  /\ Agrees(mods.cert, cached, cert) /\ Agrees(mods.key, cached, key)
  /\ cached <= pairs /\ cert.pair <= pairs
  /\ cert.pair # 0 => cached <= cert.pair

ReadInv ==
  \A h \in Handshakes : handshake[h].pc \in {"readKey", "store"} =>
    LET mine == handshake[h] IN
    /\ mine.pair # 0 /\ cached <= mine.pair /\ mine.pair <= pairs
    /\ cert.pair # 0 => mine.pair <= cert.pair
    /\ Agrees(mods.cert, mine.pair, cert) /\ Agrees(mine.mods.cert, mine.pair, cert)
    /\ mine.pc = "store" =>
         Agrees(mods.key, mine.pair, key) /\ Agrees(mine.mods.key, mine.pair, key)

BegunInv ==
  \A h \in Handshakes :
    LET mine == handshake[h]  found == begun[h].onFile IN
    /\ mine.pc \notin {"idle", "done"} => begun[h].cached <= cached
    /\ mine.pc = "done" => begun[h].cached <= mine.pair
    /\ found # 0 =>
         /\ cert.pair = found /\ key.pair = found
         /\ mine.pc \notin {"idle", "done"} => mine.mods.cert = cert.mod
         /\ mine.pc \notin {"idle", "done", "statKey"} => mine.mods.key = key.mod
         /\ mine.pc \in {"readKey", "store", "done"} => mine.pair = found
         /\ mine.pc # "fail"

ReloaderInv == TimesInv /\ WriterInv /\ CacheInv /\ ReadInv /\ BegunInv

\* A process that serves has a matching pair on file and serves HTTPS, also after a
\* process that ended in the middle of a writing, unless a file could not be
\* written or the pair is none of its business; in self-signed mode a certificate
\* file whose key was never written is taken for a pair.
ReadyToServe ==
  /\ Up /\ writer.pc \notin Writing /\ mode # "provided"
  /\ "file" \notin trouble /\ (mode = "stepca" \/ "crash" \notin trouble)
  => https /\ OnFile # 0

\* What makes it inductive.  The key is written for the certificate that was written
\* before it; with no writing broken off, a certificate file that is there has its key;
\* and where ensureUICert has come to its end there is a pair.
PairsAreWritten ==
  /\ now # 0 /\ (cert.pair # 0 => cert.mod # 0)
  /\ writer.pc \in {"key", "keyData"} => cert.pair = writer.pair

NothingHalfWritten ==
  trouble = {} /\ writer.pc \notin Writing /\ cert.mod # 0 => OnFile # 0

Promised ==
  /\ mode # "provided"
  /\ "file" \notin trouble /\ (mode = "stepca" \/ "crash" \notin trouble)

ServeInv ==
  /\ PairsAreWritten /\ NothingHalfWritten
  /\ Promised => /\ Up => https
                 /\ writer.pc \in {"serve", "serving", "asleep"} => OnFile # 0
=============================================================================
