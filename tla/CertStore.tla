------------------------------ MODULE CertStore ------------------------------
(***************************************************************************)
(* The certificates of the CA: the table, the pair of files of one name,   *)
(* and what the CA has signed and revoked.  Issuing, renewing, importing   *)
(* and revoking are sequences of reads and writes of these three, without  *)
(* a lock or a transaction.                                                *)
(*                                                                         *)
(* Certificates, their keys and serials are numbers in the order they came *)
(* to be known.  Requests for different names meet nowhere but in the      *)
(* table, so there is one name.  `serial' is unique and rows are never     *)
(* deleted or moved to another serial: the row is named by its serial, and *)
(* 0 is the serial '' of a file that could not be read.  os.WriteFile and  *)
(* os.Create empty a file before it is filled; of two that fill it after   *)
(* both have emptied it the later one prevails, what remains behind it of  *)
(* the earlier one is ignored by everybody who reads it.                   *)
(*                                                                         *)
(* A definition that stands right before another one with its parameters   *)
(* and is not used is a plausible bug of the code, as in UserSession.      *)
(***************************************************************************)
EXTENDS Integers

CONSTANTS
  Workers,      \* requests at a time
  MaxCerts,     \* bound on certificates
  MaxRequests,  \* bound on requests
  MaxCrashes    \* bound on ends of the process

ASSUME CertStoreAssumption == {MaxCerts, MaxRequests, MaxCrashes} \subseteq Nat

VARIABLES
  certs,    \* certificates known so far
  ours,     \* those the CA has signed
  revoked,  \* those it has revoked
  crt, key, \* certificate.crt and private.key
  status,   \* the table: status of the row of each serial
  keyed,    \* the rows whose key_path is not empty
  request,  \* what each request is doing
  requests, \* how many have been made
  crashes,  \* how often the process has ended
  replaced, \* history: for a certificate overwritten on file, what else came after it
  excused   \* history: certificates something befell that no promise is made for

ca == <<certs, ours, revoked>>
files == <<crt, key>>
table == <<status, keyed>>
vars == <<ca, files, table, request, requests, crashes, replaced, excused>>

-----------------------------------------------------------------------------
(* Types *)

Absent == -1
Unreadable == 0
Certs == 1..MaxCerts
Serials == 0..MaxCerts
File == -1..MaxCerts

\* What is promised of a certificate: that it is recorded, that its status is shown.
Kinds == {"recorded", "status"}

Idle == [pc |-> "idle", kind |-> "revoke", row |-> 0, cert |-> 0, keyed |-> FALSE]
Writing == {"openCrt", "fillCrt", "openKey", "fillKey"}
Recording == {"lookup", "parse", "insert"}
Revoking == {"loadCrt", "loadKey", "revoke", "mark"}

\* `cert' is the certificate in hand, `row' the row that is written or revoked,
\* `keyed' whether the row will name a key.  A scan is "new" once it has been told
\* that the table has no such serial.
Request == [pc : {"idle", "obtain"} \cup Writing \cup Recording \cup Revoking,
            kind : {"issue", "upload", "scan", "new", "manual", "revoke"},
            row : Serials, cert : Serials, keyed : BOOLEAN]

TypeOK ==
  /\ certs \in Serials /\ ours \subseteq 1..certs /\ revoked \subseteq ours
  /\ crt \in File /\ key \in File
  /\ status \in [Serials -> {"none", "active", "revoked"}] /\ keyed \subseteq Serials
  /\ request \in [Workers -> Request]
  /\ requests \in 0..MaxRequests /\ crashes \in 0..MaxCrashes
  /\ replaced \subseteq Certs \X Serials /\ excused \subseteq Kinds \X Certs

-----------------------------------------------------------------------------
(* Helpers *)

Begin(w, pc, kind, row, cert, named) ==
  /\ request[w].pc = "idle"
  /\ requests < MaxRequests /\ requests' = requests + 1
  /\ request' = [request EXCEPT ![w] =
       [pc |-> pc, kind |-> kind, row |-> row, cert |-> cert, keyed |-> named]]
Step(w, r) == request' = [request EXCEPT ![w] = r] /\ UNCHANGED requests
GoOn(w, pc) == Step(w, [request[w] EXCEPT !.pc = pc])
End(w) == Step(w, Idle)

\* Nothing of these kinds is promised of these certificates any more.
Excuse(kinds, s) == excused' = excused \cup (kinds \X (s \cap Certs))

Known(s) == status[s] # "none"

-----------------------------------------------------------------------------
(* Issuing and renewing *)

\* The directory of the name is made if it is not there.
IssuePost(w) ==
  /\ Begin(w, "obtain", "issue", 0, 0, TRUE)
  /\ UNCHANGED <<ca, files, table, crashes, replaced, excused>>

\* Whatever the row's status; a row without a key path has none to write to.
Renew(w, s) ==
  /\ Known(s) /\ s \in keyed
  /\ Begin(w, "obtain", "issue", s, 0, TRUE)
  /\ UNCHANGED <<ca, files, table, crashes, replaced, excused>>

Sign == certs < MaxCerts /\ certs' = certs + 1 /\ ours' = ours \cup {certs + 1}

IssueCertificate(w) ==
  /\ request[w].pc = "obtain" /\ Sign
  /\ Step(w, [request[w] EXCEPT !.pc = "openCrt", !.cert = certs + 1])
  /\ UNCHANGED <<revoked, files, table, crashes, replaced, excused>>

\* The CA refuses, or has signed and the answer does not come.
IssueFails(w) ==
  /\ request[w].pc = "obtain" /\ End(w)
  /\ \/ UNCHANGED <<certs, ours, excused>>
     \/ Sign /\ Excuse({"recorded"}, {certs + 1})
  /\ UNCHANGED <<revoked, files, table, crashes, replaced>>

-----------------------------------------------------------------------------
(* Writing the files: issueCert, saveUploadedFile *)

\* Others whose certificate is overwritten before they have read it back.
Raced(w) ==
  {crt} \cap {request[v].cert : v \in
                {v \in Workers \ {w} : request[v].pc \in Writing \cup {"parse"}}}

\* Those that are on file or were there before.
Past == ({crt} \cap Certs) \cup {r[1] : r \in replaced}

WriteCrt(w, content) ==
  /\ crt' = content
  /\ replaced' = replaced \cup ((Past \ {content}) \X {content})
  /\ Excuse({"recorded"}, Raced(w) \ {content})

OpenCrt(w) ==
  /\ request[w].pc = "openCrt"
  /\ WriteCrt(w, Unreadable) /\ GoOn(w, "fillCrt")
  /\ UNCHANGED <<ca, key, table, crashes>>

FillCrt(w) ==
  /\ request[w].pc = "fillCrt"
  /\ WriteCrt(w, request[w].cert)
  /\ GoOn(w, IF request[w].keyed THEN "openKey" ELSE "parse")
  /\ UNCHANGED <<ca, key, table, crashes>>

OpenKey(w) ==
  /\ request[w].pc = "openKey"
  /\ key' = Unreadable /\ GoOn(w, "fillKey")
  /\ UNCHANGED <<ca, crt, table, crashes, replaced, excused>>

FillKey(w) ==
  /\ request[w].pc = "fillKey"
  /\ key' = request[w].cert /\ GoOn(w, "parse")
  /\ UNCHANGED <<ca, crt, table, crashes, replaced, excused>>

\* A file cannot be written; an upload goes on without its key.
WriteFails(w) ==
  /\ request[w].pc \in Writing
  /\ IF request[w].kind = "upload" /\ request[w].pc \in {"openKey", "fillKey"}
       THEN GoOn(w, "parse") /\ UNCHANGED excused
       ELSE End(w) /\ Excuse({"recorded"}, {request[w].cert})
  /\ UNCHANGED <<ca, files, table, crashes, replaced>>

-----------------------------------------------------------------------------
(* Importing *)

\* Any file may come: one that is no certificate (0), one that is known, or one
\* that somebody else has signed; with its key or without.
ImportUpload(w, c, named) ==
  /\ c \in 0..certs + 1 /\ c <= MaxCerts
  /\ certs' = IF c > certs THEN c ELSE certs
  /\ Begin(w, "openCrt", "upload", 0, c, named)
  /\ UNCHANGED <<ours, revoked, files, table, crashes, replaced, excused>>

\* scanExistingCerts finds a file it can read, and perhaps a key,
ImportScan(w) ==
  /\ crt \in Certs
  /\ Begin(w, "lookup", "scan", crt, crt, key # Absent)
  /\ UNCHANGED <<ca, files, table, crashes, replaced, excused>>

\* and asks the table for its serial; it is not there, or the question fails, which
\* means the same.
NotInTable(w) == Step(w, [request[w] EXCEPT !.pc = "parse", !.kind = "new"])

GetCertBySerialActive(w) ==
  /\ request[w].pc = "lookup"
  /\ \/ status[request[w].row] = "active" /\ End(w)
     \/ status[request[w].row] = "revoked" /\ GoOn(w, "parse")
     \/ NotInTable(w)
  /\ UNCHANGED <<ca, files, table, crashes, replaced, excused>>
GetCertBySerial(w) ==
  /\ request[w].pc = "lookup"
  /\ \/ Known(request[w].row) /\ End(w)
     \/ NotInTable(w)
  /\ UNCHANGED <<ca, files, table, crashes, replaced, excused>>

\* The file is there; which key it names is up to whoever asks for it.
ImportManual(w, named) ==
  /\ crt # Absent
  /\ Begin(w, "parse", "manual", 0, 0, named)
  /\ UNCHANGED <<ca, files, table, crashes, replaced, excused>>

-----------------------------------------------------------------------------
(* Recording: parseCertDates, InsertCert *)

\* What cannot be read has no serial: an upload and a scan end, the others go on.
ParseCertDatesOfRow(w) ==
  /\ request[w].pc = "parse"
  /\ IF request[w].kind \in {"upload", "scan", "new"} /\ crt \notin Certs
       THEN End(w)
       ELSE Step(w, [request[w] EXCEPT !.pc = "insert", !.row =
                       IF @ = 0 /\ crt \in Certs THEN crt ELSE @])
  /\ UNCHANGED <<ca, files, table, crashes, replaced, excused>>
ParseCertDates(w) ==
  /\ request[w].pc = "parse"
  /\ IF request[w].kind \in {"upload", "scan", "new"} /\ crt \notin Certs
       THEN End(w)
       ELSE Step(w, [request[w] EXCEPT !.pc = "insert", !.row = IF crt \in Certs THEN crt ELSE 0])
  /\ UNCHANGED <<ca, files, table, crashes, replaced, excused>>

\* Recording a revoked serial makes its row active again.  A scan looks first, and
\* nothing is promised if it did not find what another request has recorded and
\* revoked since, or the file has become another one's; the others do not look.
Revives(r) == status[r.row] = "revoked" /\ r.kind # "scan"

InsertCert(w) ==
  LET r == request[w] IN
  /\ r.pc = "insert"
  /\ status' = [status EXCEPT ![r.row] = "active"]
  /\ keyed' = IF r.keyed THEN keyed \cup {r.row} ELSE keyed \ {r.row}
  /\ Excuse({"status"}, IF Revives(r) THEN {r.row} ELSE {}) /\ End(w)
  /\ UNCHANGED <<ca, files, crashes, replaced>>

InsertFails(w) ==
  /\ request[w].pc = "insert"
  /\ Excuse({"recorded"}, {request[w].row}) /\ End(w)
  /\ UNCHANGED <<ca, files, table, crashes, replaced>>

-----------------------------------------------------------------------------
(* Revoking *)

Revoke(w, s) ==
  /\ Known(s) /\ s \in keyed
  /\ Begin(w, "loadCrt", "revoke", s, 0, FALSE)
  /\ UNCHANGED <<ca, files, table, crashes, replaced, excused>>

\* The pair is loaded from the row's files, whatever is in them by now.
LoadCrt(w) ==
  /\ request[w].pc = "loadCrt"
  /\ IF crt \in Certs
       THEN Step(w, [request[w] EXCEPT !.pc = "loadKey", !.cert = crt])
       ELSE End(w)
  /\ UNCHANGED <<ca, files, table, crashes, replaced, excused>>

LoadKey(w) ==
  /\ request[w].pc = "loadKey"
  /\ IF key = request[w].cert THEN GoOn(w, "revoke") ELSE End(w)
  /\ UNCHANGED <<ca, files, table, crashes, replaced, excused>>

\* The CA revokes the certificate that is presented to it, if it has signed it.  The
\* answer comes, perhaps for another certificate than the row's, or does not come.
RevokeAtCASerialOfRow(w) ==
  /\ request[w].pc = "revoke" /\ request[w].cert \in ours
  /\ revoked' = revoked \cup {request[w].row}
  /\ GoOn(w, "mark") /\ UNCHANGED excused
  /\ UNCHANGED <<certs, ours, files, table, crashes, replaced>>
RevokeAtCA(w) ==
  LET c == request[w].cert IN
  /\ request[w].pc = "revoke" /\ c \in ours
  /\ revoked' = revoked \cup {c}
  /\ \/ GoOn(w, "mark") /\ Excuse({"status"}, {c} \ {request[w].row})
     \/ End(w) /\ Excuse({"status"}, {c})
  /\ UNCHANGED <<certs, ours, files, table, crashes, replaced>>

\* It refuses, or the request does not reach it.
RevokeRefusedMarked(w) ==
  /\ request[w].pc = "revoke" /\ GoOn(w, "mark")
  /\ UNCHANGED <<ca, files, table, crashes, replaced, excused>>
RevokeRefused(w) ==
  /\ request[w].pc = "revoke" /\ End(w)
  /\ UNCHANGED <<ca, files, table, crashes, replaced, excused>>

UpdateCertStatus(w) ==
  LET s == request[w].row IN
  /\ request[w].pc = "mark" /\ End(w)
  /\ \/ status' = [status EXCEPT ![s] = "revoked"] /\ UNCHANGED excused
     \/ UNCHANGED status /\ Excuse({"status"}, {s})
  /\ UNCHANGED <<ca, files, keyed, crashes, replaced>>

-----------------------------------------------------------------------------
(* The end of the process, and the specification *)

\* Nothing is lost when no request is being answered.
Crash ==
  /\ crashes < MaxCrashes /\ crashes' = crashes + 1
  /\ \E w \in Workers : request[w] # Idle
  /\ Excuse(Kinds, UNION {{request[w].row, request[w].cert} : w \in Workers})
  /\ request' = [w \in Workers |-> Idle]
  /\ UNCHANGED <<ca, files, table, requests, replaced>>

Init ==
  /\ certs = 0 /\ ours = {} /\ revoked = {}
  /\ crt = Absent /\ key = Absent
  /\ status = [s \in Serials |-> "none"] /\ keyed = {}
  /\ request = [w \in Workers |-> Idle]
  /\ requests = 0 /\ crashes = 0 /\ replaced = {} /\ excused = {}

Write(w) == OpenCrt(w) \/ FillCrt(w) \/ OpenKey(w) \/ FillKey(w) \/ WriteFails(w)
Issue(w) == IssuePost(w) \/ (\E s \in Serials : Renew(w, s)) \/ IssueCertificate(w) \/ IssueFails(w)
Import(w) ==
  \/ \E c \in Serials, named \in BOOLEAN : ImportUpload(w, c, named)
  \/ ImportScan(w) \/ GetCertBySerial(w)
  \/ \E named \in BOOLEAN : ImportManual(w, named)
Record(w) == ParseCertDates(w) \/ InsertCert(w) \/ InsertFails(w)
RevokePost(w) ==
  \/ \E s \in Serials : Revoke(w, s)
  \/ LoadCrt(w) \/ LoadKey(w) \/ RevokeAtCA(w) \/ RevokeRefused(w) \/ UpdateCertStatus(w)

Next ==
  \/ \E w \in Workers : Issue(w) \/ Write(w) \/ Import(w) \/ Record(w) \/ RevokePost(w)
  \/ Crash

Spec == Init /\ [][Next]_vars

-----------------------------------------------------------------------------
(* Properties *)

AtRest == \A w \in Workers : request[w].pc = "idle"

\* A row says revoked only after the CA has revoked a certificate for it, at any
\* time and whatever failed: its own, or one that has taken its place on file since,
\* as Revoke presents to the CA what it finds there.
RevokedRowsAreRevoked ==
  \A s \in Certs : status[s] = "revoked" =>
    \E c \in revoked : c = s \/ <<s, c>> \in replaced

Excused(kind) == {s \in Certs : <<kind, s>> \in excused}

\* What the CA has revoked is in the table, as revoked, once the requests are through;
\* a scan that finds its row there leaves it so.  Excused is a certificate that was
\* revoked by way of another one's row, whose revocation was not answered or not
\* written down, that a request had in hand when the process ended, or whose row,
\* being revoked, was recorded once more by a request that had not looked, or had
\* looked in vain, before (Revoke drops the error of UpdateCertStatus, and InsertCert
\* makes every row active that it meets).
RevokedIsShown ==
  AtRest => \A s \in revoked \ Excused("status") : status[s] = "revoked"

\* What the CA has signed and what is on file is in the table once the requests are
\* through, although they write one file without a lock and record what they read back.
SignedAndOnFileAreRecorded ==
  AtRest => \A s \in (ours \cup ({crt} \cap Certs)) \ Excused("recorded") : Known(s)
=============================================================================
