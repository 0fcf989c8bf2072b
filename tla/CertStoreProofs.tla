--------------------------- MODULE CertStoreProofs ---------------------------
(***************************************************************************)
(* What CertStore promises, for any number of requests, certificates and   *)
(* ends of the process.                                                    *)
(***************************************************************************)
EXTENDS CertStore, TLAPS

-----------------------------------------------------------------------------
(* Types *)

Pcs == {"idle", "obtain"} \cup Writing \cup Recording \cup Revoking

\* One request has come to this point; the others are where they were.
Moved(w, pc, kind, row, cert) ==
  /\ request' \in [Workers -> Request] /\ requests' \in 0..MaxRequests
  /\ request'[w].pc = pc /\ request'[w].kind = kind
  /\ request'[w].row = row /\ request'[w].cert = cert
  /\ \A v \in Workers \ {w} : request'[v] = request[v]

\* A step of one request that stays a request is of this form.
LEMMA Stepping ==
  ASSUME TypeOK, NEW w \in Workers, NEW r \in Request,
         request' = [request EXCEPT ![w] = r], requests' \in 0..MaxRequests
  PROVE  Moved(w, r.pc, r.kind, r.row, r.cert)
  BY DEF Moved, TypeOK

\* A request begins,
LEMMA Beginning ==
  ASSUME TypeOK, NEW w \in Workers, NEW pc \in Pcs,
         NEW kind \in {"issue", "upload", "scan", "new", "manual", "revoke"},
         NEW row \in Serials, NEW cert \in Serials, NEW named \in BOOLEAN,
         Begin(w, pc, kind, row, cert, named)
  PROVE  Moved(w, pc, kind, row, cert)
<1> DEFINE r == [pc |-> pc, kind |-> kind, row |-> row, cert |-> cert, keyed |-> named]
<1>1. r \in Request
  BY DEF Request, Pcs
<1>2. requests' \in 0..MaxRequests
  BY CertStoreAssumption DEF Begin, TypeOK
<1>3. request' = [request EXCEPT ![w] = r]
  BY DEF Begin
<1>4. r.pc = pc /\ r.kind = kind /\ r.row = row /\ r.cert = cert
  OBVIOUS
<1> HIDE DEF r
<1> QED
  BY <1>1, <1>2, <1>3, <1>4, Stepping

\* goes on,
LEMMA Going ==
  ASSUME TypeOK, NEW w \in Workers, NEW pc \in Pcs, GoOn(w, pc)
  PROVE  Moved(w, pc, request[w].kind, request[w].row, request[w].cert)
<1> DEFINE r == [request[w] EXCEPT !.pc = pc]
<1>1. request[w] \in Request
  BY DEF TypeOK
<1>2. r \in Request /\ r.pc = pc /\ r.kind = request[w].kind /\ r.row = request[w].row
      /\ r.cert = request[w].cert
  BY <1>1 DEF Request, Pcs
<1>3. request' = [request EXCEPT ![w] = r] /\ requests' \in 0..MaxRequests
  BY DEF GoOn, Step, TypeOK
<1> HIDE DEF r
<1> QED
  BY <1>2, <1>3, Stepping

\* takes another certificate in hand,
LEMMA Taking ==
  ASSUME TypeOK, NEW w \in Workers, NEW pc \in Pcs, NEW c \in Serials,
         Step(w, [request[w] EXCEPT !.pc = pc, !.cert = c])
  PROVE  Moved(w, pc, request[w].kind, request[w].row, c)
<1> DEFINE r == [request[w] EXCEPT !.pc = pc, !.cert = c]
<1>1. request[w] \in Request
  BY DEF TypeOK
<1>2. r \in Request /\ r.pc = pc /\ r.kind = request[w].kind /\ r.row = request[w].row
      /\ r.cert = c
  BY <1>1 DEF Request, Pcs
<1>3. request' = [request EXCEPT ![w] = r] /\ requests' \in 0..MaxRequests
  BY DEF Step, TypeOK
<1> HIDE DEF r
<1> QED
  BY <1>2, <1>3, Stepping

\* has another row to write,
LEMMA Reading ==
  ASSUME TypeOK, NEW w \in Workers, NEW pc \in Pcs, NEW s \in Serials,
         Step(w, [request[w] EXCEPT !.pc = pc, !.row = s])
  PROVE  Moved(w, pc, request[w].kind, s, request[w].cert)
<1> DEFINE r == [request[w] EXCEPT !.pc = pc, !.row = s]
<1>1. request[w] \in Request
  BY DEF TypeOK
<1>2. r \in Request /\ r.pc = pc /\ r.kind = request[w].kind /\ r.row = s
      /\ r.cert = request[w].cert
  BY <1>1 DEF Request, Pcs
<1>3. request' = [request EXCEPT ![w] = r] /\ requests' \in 0..MaxRequests
  BY DEF Step, TypeOK
<1> HIDE DEF r
<1> QED
  BY <1>2, <1>3, Stepping

\* has been told that the table has not what it scans,
LEMMA Turning ==
  ASSUME TypeOK, NEW w \in Workers, NotInTable(w)
  PROVE  Moved(w, "parse", "new", request[w].row, request[w].cert)
<1> DEFINE r == [request[w] EXCEPT !.pc = "parse", !.kind = "new"]
<1>1. request[w] \in Request
  BY DEF TypeOK
<1>2. r \in Request /\ r.pc = "parse" /\ r.kind = "new" /\ r.row = request[w].row
      /\ r.cert = request[w].cert
  BY <1>1 DEF Request, Recording
<1>3. request' = [request EXCEPT ![w] = r] /\ requests' \in 0..MaxRequests
  BY DEF NotInTable, Step, TypeOK
<1> HIDE DEF r
<1> QED
  BY <1>2, <1>3, Stepping

\* and ends.
LEMMA Ending ==
  ASSUME TypeOK, NEW w \in Workers, End(w)
  PROVE  Moved(w, "idle", "revoke", 0, 0)
<1>1. Idle \in Request /\ Idle.pc = "idle" /\ Idle.kind = "revoke" /\ Idle.row = 0 /\ Idle.cert = 0
  BY CertStoreAssumption DEF Idle, Request, Serials
<1>2. request' = [request EXCEPT ![w] = Idle] /\ requests' \in 0..MaxRequests
  BY DEF End, Step, TypeOK
<1> HIDE DEF Idle
<1> QED
  BY <1>1, <1>2, Stepping

-----------------------------------------------------------------------------
(* The steps of a request *)

\* The places a request can be in.
LEMMA PcsAre == {"idle", "obtain", "openCrt", "fillCrt", "openKey", "fillKey", "lookup", "parse",
                 "insert", "loadCrt", "loadKey", "revoke", "mark"} = Pcs
  BY DEF Pcs, Writing, Recording, Revoking

\* Where each definition takes the request.
LEMMA IssuePostMoves ==
  ASSUME TypeOK, NEW w \in Workers, IssuePost(w)
  PROVE  Moved(w, "obtain", "issue", 0, 0)
<1>1. Begin(w, "obtain", "issue", 0, 0, TRUE)
  BY DEF IssuePost
<1>2. "obtain" \in Pcs /\ 0 \in Serials
  BY PcsAre, CertStoreAssumption DEF Serials
<1> QED
  BY <1>1, <1>2, Beginning, Zenon

\* Renewing is issuing for a row that is there.
LEMMA RenewMoves ==
  ASSUME TypeOK, NEW w \in Workers, NEW s \in Serials, Renew(w, s)
  PROVE  Moved(w, "obtain", "issue", s, 0)
<1>1. Begin(w, "obtain", "issue", s, 0, TRUE)
  BY DEF Renew
<1>2. "obtain" \in Pcs /\ 0 \in Serials
  BY PcsAre, CertStoreAssumption DEF Serials
<1> QED
  BY <1>1, <1>2, Beginning, Zenon

\* The CA has signed.
LEMMA IssueCertificateMoves ==
  ASSUME TypeOK, NEW w \in Workers, IssueCertificate(w)
  PROVE  Moved(w, "openCrt", request[w].kind, request[w].row, certs + 1)
<1>1. Step(w, [request[w] EXCEPT !.pc = "openCrt", !.cert = certs + 1])
  BY DEF IssueCertificate
<1>2. "openCrt" \in Pcs /\ certs + 1 \in Serials
  BY PcsAre, CertStoreAssumption DEF IssueCertificate, Sign, Serials, TypeOK
<1> QED
  BY <1>1, <1>2, Taking, Zenon

\* The certificate's file is emptied,
LEMMA OpenCrtMoves ==
  ASSUME TypeOK, NEW w \in Workers, OpenCrt(w)
  PROVE  Moved(w, "fillCrt", request[w].kind, request[w].row, request[w].cert)
  BY Going, PcsAre DEF OpenCrt

\* filled,
LEMMA FillCrtMoves ==
  ASSUME TypeOK, NEW w \in Workers, FillCrt(w)
  PROVE  \E pc \in {"openKey", "parse"} : Moved(w, pc, request[w].kind, request[w].row, request[w].cert)
  BY Going, PcsAre DEF FillCrt

\* the key's emptied,
LEMMA OpenKeyMoves ==
  ASSUME TypeOK, NEW w \in Workers, OpenKey(w)
  PROVE  Moved(w, "fillKey", request[w].kind, request[w].row, request[w].cert)
  BY Going, PcsAre DEF OpenKey

\* filled.
LEMMA FillKeyMoves ==
  ASSUME TypeOK, NEW w \in Workers, FillKey(w)
  PROVE  Moved(w, "parse", request[w].kind, request[w].row, request[w].cert)
  BY Going, PcsAre DEF FillKey

\* An upload goes on without its key, everything else ends.
LEMMA WriteFailsMoves ==
  ASSUME TypeOK, NEW w \in Workers, WriteFails(w)
  PROVE  \/ Moved(w, "parse", request[w].kind, request[w].row, request[w].cert) /\ request[w].kind = "upload"
            /\ request[w].pc \in {"openKey", "fillKey"} /\ UNCHANGED excused
         \/ Moved(w, "idle", "revoke", 0, 0) /\ Excuse({"recorded"}, {request[w].cert})
  BY Going, Ending, PcsAre DEF WriteFails

\* An upload has the certificate in hand,
LEMMA ImportUploadMoves ==
  ASSUME TypeOK, NEW w \in Workers, NEW c \in Serials, NEW named \in BOOLEAN, ImportUpload(w, c, named)
  PROVE  Moved(w, "openCrt", "upload", 0, c)
<1>1. Begin(w, "openCrt", "upload", 0, c, named)
  BY DEF ImportUpload
<1>2. "openCrt" \in Pcs /\ 0 \in Serials
  BY PcsAre, CertStoreAssumption DEF Serials
<1> QED
  BY <1>1, <1>2, Beginning, Zenon

\* a scan what it has found on file,
LEMMA ImportScanMoves ==
  ASSUME TypeOK, NEW w \in Workers, ImportScan(w)
  PROVE  Moved(w, "lookup", "scan", crt, crt)
<1>1. Begin(w, "lookup", "scan", crt, crt, key # Absent)
  BY DEF ImportScan
<1>2. "lookup" \in Pcs /\ crt \in Serials
  BY PcsAre, CertStoreAssumption DEF ImportScan, Certs, Serials
<1> QED
  BY <1>1, <1>2, Beginning, Zenon

\* a manual import nothing before it reads the file.
LEMMA ImportManualMoves ==
  ASSUME TypeOK, NEW w \in Workers, NEW named \in BOOLEAN, ImportManual(w, named)
  PROVE  Moved(w, "parse", "manual", 0, 0)
<1>1. Begin(w, "parse", "manual", 0, 0, named)
  BY DEF ImportManual
<1>2. "parse" \in Pcs /\ 0 \in Serials
  BY PcsAre, CertStoreAssumption DEF Serials
<1> QED
  BY <1>1, <1>2, Beginning, Zenon

\* A scan goes on with what is not in the table, or may be.
LEMMA GetCertBySerialMoves ==
  ASSUME TypeOK, NEW w \in Workers, GetCertBySerial(w)
  PROVE  \/ Known(request[w].row) /\ Moved(w, "idle", "revoke", 0, 0)
         \/ Moved(w, "parse", "new", request[w].row, request[w].cert)
  BY Turning, Ending DEF GetCertBySerial

\* The row is what is read from the file, or the one without a serial.
LEMMA ParseCertDatesMoves ==
  ASSUME TypeOK, NEW w \in Workers, ParseCertDates(w)
  PROVE  \/ crt \notin Certs /\ Moved(w, "idle", "revoke", 0, 0)
         \/ crt \in Certs /\ Moved(w, "insert", request[w].kind, crt, request[w].cert)
         \/ crt \notin Certs /\ Moved(w, "insert", request[w].kind, 0, request[w].cert)
<1> DEFINE s == IF crt \in Certs THEN crt ELSE 0
<1>1. "insert" \in Pcs /\ s \in Serials
  BY PcsAre, CertStoreAssumption DEF Serials, Certs
<1>2. CASE request[w].kind \in {"upload", "scan", "new"} /\ crt \notin Certs
  BY <1>2, Ending DEF ParseCertDates
<1>3. CASE ~(request[w].kind \in {"upload", "scan", "new"} /\ crt \notin Certs)
  <2>1. Step(w, [request[w] EXCEPT !.pc = "insert", !.row = s])
    BY <1>3 DEF ParseCertDates
  <2> HIDE DEF s
  <2>2. Moved(w, "insert", request[w].kind, s, request[w].cert)
    BY <1>1, <2>1, Reading, Zenon
  <2> QED
    BY <2>2 DEF s
<1> QED
  BY <1>2, <1>3

\* These are the last steps of a request.
LEMMA RecordMoves ==
  ASSUME TypeOK, NEW w \in Workers, InsertCert(w) \/ InsertFails(w) \/ IssueFails(w)
                                     \/ RevokeRefused(w) \/ UpdateCertStatus(w)
  PROVE  Moved(w, "idle", "revoke", 0, 0)
  BY Ending DEF InsertCert, InsertFails, IssueFails, RevokeRefused, UpdateCertStatus

\* A revocation is asked for a row,
LEMMA RevokeMoves ==
  ASSUME TypeOK, NEW w \in Workers, NEW s \in Serials, Revoke(w, s)
  PROVE  Moved(w, "loadCrt", "revoke", s, 0)
<1>1. Begin(w, "loadCrt", "revoke", s, 0, FALSE)
  BY DEF Revoke
<1>2. "loadCrt" \in Pcs /\ 0 \in Serials
  BY PcsAre, CertStoreAssumption DEF Serials
<1> QED
  BY <1>1, <1>2, Beginning, Zenon

\* takes the certificate that is on file,
LEMMA LoadCrtMoves ==
  ASSUME TypeOK, NEW w \in Workers, LoadCrt(w)
  PROVE  \/ crt \in Certs /\ Moved(w, "loadKey", request[w].kind, request[w].row, crt)
         \/ Moved(w, "idle", "revoke", 0, 0)
<1>1. CASE crt \in Certs
  <2>1. Step(w, [request[w] EXCEPT !.pc = "loadKey", !.cert = crt])
    BY <1>1 DEF LoadCrt
  <2>2. "loadKey" \in Pcs /\ crt \in Serials
    BY <1>1, PcsAre, CertStoreAssumption DEF Serials, Certs
  <2>3. Moved(w, "loadKey", request[w].kind, request[w].row, crt)
    BY <2>1, <2>2, Taking, Zenon
  <2> QED
    BY <1>1, <2>3
<1>2. CASE crt \notin Certs
  BY <1>2, Ending DEF LoadCrt
<1> QED
  BY <1>1, <1>2

\* and its key,
LEMMA LoadKeyMoves ==
  ASSUME TypeOK, NEW w \in Workers, LoadKey(w)
  PROVE  \/ Moved(w, "revoke", request[w].kind, request[w].row, request[w].cert)
         \/ Moved(w, "idle", "revoke", 0, 0)
  BY Going, Ending, PcsAre DEF LoadKey

\* and goes on to mark the row if the CA's answer comes.
LEMMA RevokeAtCAMoves ==
  ASSUME TypeOK, NEW w \in Workers, RevokeAtCA(w)
  PROVE  \/ /\ Moved(w, "mark", request[w].kind, request[w].row, request[w].cert)
            /\ Excuse({"status"}, {request[w].cert} \ {request[w].row})
         \/ Moved(w, "idle", "revoke", 0, 0) /\ Excuse({"status"}, {request[w].cert})
  BY Going, Ending, PcsAre DEF RevokeAtCA

-----------------------------------------------------------------------------
(* Types *)

\* The history is of its type and only grows.
LEMMA Excusing ==
  ASSUME excused \subseteq Kinds \X Certs, NEW kinds \in SUBSET Kinds, NEW s, Excuse(kinds, s)
  PROVE  excused' \subseteq Kinds \X Certs /\ excused \subseteq excused'
  BY DEF Excuse

\* So does what is known of the files of old.
LEMMA OverwritingTyped ==
  ASSUME TypeOK, NEW content \in Serials
  PROVE  replaced \cup ((Past \ {content}) \X {content}) \subseteq Certs \X Serials
<1>1. Past \subseteq Certs
  BY DEF Past, TypeOK
<1> QED
  BY <1>1 DEF TypeOK

\* Every definition keeps the types; the steps that only move a request do so at once.
LEMMA TypePreserved == TypeOK /\ [Next]_vars => TypeOK'
<1> SUFFICES ASSUME TypeOK, [Next]_vars PROVE TypeOK'
  OBVIOUS
<1> USE CertStoreAssumption DEF ca, files, table
<1>0. {"recorded"} \in SUBSET Kinds /\ {"status"} \in SUBSET Kinds /\ Kinds \in SUBSET Kinds
  BY DEF Kinds
<1>1. CASE UNCHANGED vars
  BY <1>1 DEF vars, TypeOK
<1>2. CASE Crash
  <2>1. Idle \in Request
    BY DEF Idle, Request, Serials
  <2>2. excused' \subseteq Kinds \X Certs
    BY <1>0, <1>2, Excusing, Zenon DEF Crash, TypeOK
  <2>3. crashes' \in 0..MaxCrashes
    BY <1>2 DEF Crash, TypeOK
  <2> QED
    BY <1>2, <2>1, <2>2, <2>3 DEF Crash, TypeOK
<1>3. ASSUME NEW w \in Workers, Moved(w, request'[w].pc, request'[w].kind, request'[w].row, request'[w].cert),
             UNCHANGED <<ca, files, table, crashes, replaced>>,
             \/ UNCHANGED excused
             \/ \E kinds \in SUBSET Kinds, s \in SUBSET Int : Excuse(kinds, s)
      PROVE  TypeOK'
  <2>1. excused' \subseteq Kinds \X Certs
    BY <1>3, Excusing, Zenon DEF TypeOK
  <2> QED
    BY <1>3, <2>1 DEF TypeOK, Moved
<1>4. ASSUME NEW w \in Workers, IssuePost(w)
      PROVE  TypeOK'
  <2>1. Moved(w, request'[w].pc, request'[w].kind, request'[w].row, request'[w].cert)
    BY <1>4, IssuePostMoves DEF Moved
  <2> QED
    BY <1>3, <1>4, <2>1 DEF IssuePost
<1>5. ASSUME NEW w \in Workers, NEW s \in Serials, Renew(w, s)
      PROVE  TypeOK'
  <2>1. Moved(w, request'[w].pc, request'[w].kind, request'[w].row, request'[w].cert)
    BY <1>5, RenewMoves DEF Moved
  <2> QED
    BY <1>3, <1>5, <2>1 DEF Renew
<1>6. ASSUME NEW w \in Workers, ImportScan(w)
      PROVE  TypeOK'
  <2>1. Moved(w, request'[w].pc, request'[w].kind, request'[w].row, request'[w].cert)
    BY <1>6, ImportScanMoves DEF Moved
  <2> QED
    BY <1>3, <1>6, <2>1 DEF ImportScan
<1>7. ASSUME NEW w \in Workers, NEW named \in BOOLEAN, ImportManual(w, named)
      PROVE  TypeOK'
  <2>1. Moved(w, request'[w].pc, request'[w].kind, request'[w].row, request'[w].cert)
    BY <1>7, ImportManualMoves DEF Moved
  <2> QED
    BY <1>3, <1>7, <2>1 DEF ImportManual
<1>8. ASSUME NEW w \in Workers, NEW s \in Serials, Revoke(w, s)
      PROVE  TypeOK'
  <2>1. Moved(w, request'[w].pc, request'[w].kind, request'[w].row, request'[w].cert)
    BY <1>8, RevokeMoves DEF Moved
  <2> QED
    BY <1>3, <1>8, <2>1 DEF Revoke
<1>9. ASSUME NEW w \in Workers, LoadCrt(w)
      PROVE  TypeOK'
  <2>1. Moved(w, request'[w].pc, request'[w].kind, request'[w].row, request'[w].cert)
    BY <1>9, LoadCrtMoves DEF Moved
  <2> QED
    BY <1>3, <1>9, <2>1 DEF LoadCrt
<1>10. ASSUME NEW w \in Workers, LoadKey(w)
      PROVE  TypeOK'
  <2>1. Moved(w, request'[w].pc, request'[w].kind, request'[w].row, request'[w].cert)
    BY <1>10, LoadKeyMoves DEF Moved
  <2> QED
    BY <1>3, <1>10, <2>1 DEF LoadKey
<1>11. ASSUME NEW w \in Workers, ParseCertDates(w)
      PROVE  TypeOK'
  <2>1. Moved(w, request'[w].pc, request'[w].kind, request'[w].row, request'[w].cert)
    BY <1>11, ParseCertDatesMoves DEF Moved
  <2> QED
    BY <1>3, <1>11, <2>1 DEF ParseCertDates
<1>12. ASSUME NEW w \in Workers, RevokeRefused(w)
      PROVE  TypeOK'
  <2>1. Moved(w, request'[w].pc, request'[w].kind, request'[w].row, request'[w].cert)
    BY <1>12, RecordMoves DEF Moved
  <2> QED
    BY <1>3, <1>12, <2>1 DEF RevokeRefused
<1>13. ASSUME NEW w \in Workers, IssueCertificate(w)
      PROVE  TypeOK'
  <2>1. Moved(w, request'[w].pc, request'[w].kind, request'[w].row, request'[w].cert)
    BY <1>13, IssueCertificateMoves DEF Moved
  <2> QED
    BY <1>13, <2>1 DEF IssueCertificate, Sign, Serials, TypeOK, Moved
<1>14. ASSUME NEW w \in Workers, IssueFails(w)
      PROVE  TypeOK'
  <2>1. Moved(w, request'[w].pc, request'[w].kind, request'[w].row, request'[w].cert)
    BY <1>14, RecordMoves DEF Moved
  <2>2. excused' \subseteq Kinds \X Certs
    BY <1>0, <1>14, Excusing, Zenon DEF IssueFails, TypeOK
  <2>3. certs' \in Serials /\ ours' \subseteq 1..certs' /\ revoked' \subseteq ours'
    <3>1. CASE UNCHANGED <<certs, ours>>
      BY <1>14, <3>1 DEF IssueFails, TypeOK
    <3>2. CASE Sign
      BY <1>14, <3>2 DEF IssueFails, Sign, Serials, TypeOK
    <3> QED
      BY <1>14, <3>1, <3>2 DEF IssueFails
  <2> QED
    BY <1>14, <2>1, <2>2, <2>3 DEF IssueFails, TypeOK, Moved
<1>15. ASSUME NEW w \in Workers, OpenCrt(w)
      PROVE  TypeOK'
  <2>1. Moved(w, request'[w].pc, request'[w].kind, request'[w].row, request'[w].cert)
    BY <1>15, OpenCrtMoves DEF Moved
  <2>2. excused' \subseteq Kinds \X Certs
    BY <1>0, <1>15, Excusing, Zenon DEF OpenCrt, WriteCrt, TypeOK
  <2>3. crt' \in File /\ replaced' \subseteq Certs \X Serials
    <3>1. crt' = Unreadable /\ replaced' = replaced \cup ((Past \ {Unreadable}) \X {Unreadable})
      BY <1>15 DEF OpenCrt, WriteCrt
    <3>2. Unreadable \in Serials
      BY DEF Unreadable, Serials
    <3> QED
      BY <3>1, <3>2, OverwritingTyped DEF File, Serials
  <2> QED
    BY <1>15, <2>1, <2>2, <2>3 DEF OpenCrt, WriteCrt, TypeOK, Moved
<1>16. ASSUME NEW w \in Workers, FillCrt(w)
      PROVE  TypeOK'
  <2>1. Moved(w, request'[w].pc, request'[w].kind, request'[w].row, request'[w].cert)
    BY <1>16, FillCrtMoves DEF Moved
  <2>2. excused' \subseteq Kinds \X Certs
    BY <1>0, <1>16, Excusing, Zenon DEF FillCrt, WriteCrt, TypeOK
  <2>3. crt' \in File /\ replaced' \subseteq Certs \X Serials
    <3>1. crt' = request[w].cert /\ replaced' = replaced \cup ((Past \ {request[w].cert}) \X {request[w].cert})
      BY <1>16 DEF FillCrt, WriteCrt
    <3>2. request[w].cert \in Serials
      BY DEF Request, TypeOK
    <3> QED
      BY <3>1, <3>2, OverwritingTyped DEF File, Serials
  <2> QED
    BY <1>16, <2>1, <2>2, <2>3 DEF FillCrt, WriteCrt, TypeOK, Moved
<1>17. ASSUME NEW w \in Workers, OpenKey(w)
      PROVE  TypeOK'
  <2>1. Moved(w, request'[w].pc, request'[w].kind, request'[w].row, request'[w].cert)
    BY <1>17, OpenKeyMoves DEF Moved
  <2> QED
    BY <1>17, <2>1 DEF OpenKey, File, Unreadable, TypeOK, Moved
<1>18. ASSUME NEW w \in Workers, FillKey(w)
      PROVE  TypeOK'
  <2>1. Moved(w, request'[w].pc, request'[w].kind, request'[w].row, request'[w].cert)
    BY <1>18, FillKeyMoves DEF Moved
  <2>3. key' \in File
    BY <1>18, request[w] \in Request DEF FillKey, File, Serials, Request, TypeOK
  <2> QED
    BY <1>18, <2>1, <2>3 DEF FillKey, TypeOK, Moved
<1>19. ASSUME NEW w \in Workers, WriteFails(w)
      PROVE  TypeOK'
  <2>1. Moved(w, request'[w].pc, request'[w].kind, request'[w].row, request'[w].cert)
    BY <1>19, WriteFailsMoves DEF Moved
  <2>2. excused' \subseteq Kinds \X Certs
    BY <1>0, <1>19, Excusing, Zenon DEF WriteFails, TypeOK
  <2> QED
    BY <1>19, <2>1, <2>2 DEF WriteFails, TypeOK, Moved
<1>20. ASSUME NEW w \in Workers, NEW c \in Serials, NEW named \in BOOLEAN, ImportUpload(w, c, named)
      PROVE  TypeOK'
  <2>1. Moved(w, request'[w].pc, request'[w].kind, request'[w].row, request'[w].cert)
    BY <1>20, ImportUploadMoves DEF Moved
  <2> QED
    BY <1>20, <2>1 DEF ImportUpload, Serials, TypeOK, Moved
<1>21. ASSUME NEW w \in Workers, GetCertBySerial(w)
      PROVE  TypeOK'
  <2>1. Moved(w, request'[w].pc, request'[w].kind, request'[w].row, request'[w].cert)
    BY <1>21, GetCertBySerialMoves DEF Moved
  <2>2. excused' \subseteq Kinds \X Certs
    BY <1>0, <1>21, Excusing, Zenon DEF GetCertBySerial, TypeOK
  <2> QED
    BY <1>21, <2>1, <2>2 DEF GetCertBySerial, TypeOK, Moved
<1>22. ASSUME NEW w \in Workers, InsertCert(w)
      PROVE  TypeOK'
  <2>1. Moved(w, request'[w].pc, request'[w].kind, request'[w].row, request'[w].cert)
    BY <1>22, RecordMoves DEF Moved
  <2>2. excused' \subseteq Kinds \X Certs
    BY <1>0, <1>22, Excusing, Zenon DEF InsertCert, TypeOK
  <2> QED
    BY <1>22, <2>1, <2>2 DEF InsertCert, Request, TypeOK, Moved
<1>23. ASSUME NEW w \in Workers, InsertFails(w)
      PROVE  TypeOK'
  <2>1. Moved(w, request'[w].pc, request'[w].kind, request'[w].row, request'[w].cert)
    BY <1>23, RecordMoves DEF Moved
  <2>2. excused' \subseteq Kinds \X Certs
    BY <1>0, <1>23, Excusing, Zenon DEF InsertFails, TypeOK
  <2> QED
    BY <1>23, <2>1, <2>2 DEF InsertFails, TypeOK, Moved
<1>24. ASSUME NEW w \in Workers, RevokeAtCA(w)
      PROVE  TypeOK'
  <2>1. Moved(w, request'[w].pc, request'[w].kind, request'[w].row, request'[w].cert)
    BY <1>24, RevokeAtCAMoves DEF Moved
  <2>2. excused' \subseteq Kinds \X Certs
    BY <1>0, <1>24, Excusing, Zenon DEF RevokeAtCA, TypeOK
  <2> QED
    BY <1>24, <2>1, <2>2 DEF RevokeAtCA, TypeOK, Moved
<1>25. ASSUME NEW w \in Workers, UpdateCertStatus(w)
      PROVE  TypeOK'
  <2>1. Moved(w, request'[w].pc, request'[w].kind, request'[w].row, request'[w].cert)
    BY <1>25, RecordMoves DEF Moved
  <2>2. excused' \subseteq Kinds \X Certs
    BY <1>0, <1>25, Excusing, Zenon DEF UpdateCertStatus, TypeOK
  <2> QED
    BY <1>25, <2>1, <2>2 DEF UpdateCertStatus, Request, TypeOK, Moved
<1> QED
  BY <1>1, <1>2, <1>4, <1>5, <1>6, <1>7, <1>8, <1>9, <1>10, <1>11, <1>12, <1>13, <1>14,
     <1>15, <1>16, <1>17, <1>18, <1>19, <1>20, <1>21, <1>22, <1>23, <1>24, <1>25
     DEF Next, Issue, Write, Import, Record, RevokePost

-----------------------------------------------------------------------------
(* A row that says revoked *)

\* A certificate is the row's, or has taken its place on file.
StandsFor(c, s) == c = s \/ <<s, c>> \in replaced

\* A row was read from the file, and what is there now stands for it.
OnFile(s) == s = 0 \/ StandsFor(crt, s)

\* The CA has revoked one for it.
RevokedFor(s) == s = 0 \/ \E c \in revoked : StandsFor(c, s)

\* What a request is about to record, or has been asked to revoke, was on file; what
\* it presents to the CA stands for it.
RowOf(w) ==
  LET r == request[w] IN
  /\ r.pc \in {"insert"} \cup Revoking => OnFile(r.row)
  /\ r.pc \in {"loadKey", "revoke"} => r.row = 0 \/ StandsFor(r.cert, r.row)
  /\ r.pc = "mark" => RevokedFor(r.row)

RowsInv ==
  /\ RevokedRowsAreRevoked
  /\ \A s \in Serials : Known(s) => OnFile(s)
  /\ \A w \in Workers : RowOf(w)

\* What the invariant asks of a step of one request: the rest of it follows because
\* nothing is ever forgotten that was on file or that the CA has revoked.
LEMMA RowsKept ==
  ASSUME RowsInv, NEW w \in Workers,
         \A v \in Workers \ {w} : request'[v] = request[v],
         \A s \in Serials : OnFile(s) => OnFile(s)',
         \A v \in Workers : request[v].row \in Serials,
         replaced \subseteq replaced', revoked \subseteq revoked',
         \A s \in Serials : Known(s)' => Known(s) \/ OnFile(s)',
         \A s \in Certs : status'[s] = "revoked" =>
                            status[s] = "revoked" \/ RevokedFor(s)',
         RowOf(w)'
  PROVE  RowsInv'
<1>0. \A s : RevokedFor(s) => RevokedFor(s)'
  BY DEF RevokedFor, StandsFor
<1>1. RevokedRowsAreRevoked'
  <2> SUFFICES ASSUME NEW s \in Certs, status'[s] = "revoked"
               PROVE  \E c \in revoked' : c = s \/ <<s, c>> \in replaced'
    BY DEF RevokedRowsAreRevoked
  <2>1. s # 0
    BY CertStoreAssumption DEF Certs
  <2>2. status[s] = "revoked" => RevokedFor(s)
    BY DEF RowsInv, RevokedRowsAreRevoked, RevokedFor, StandsFor
  <2>3. RevokedFor(s)'
    BY <1>0, <2>2
  <2> QED
    BY <2>1, <2>3 DEF RevokedFor, StandsFor
<1>2. \A s \in Serials : Known(s)' => OnFile(s)'
  BY DEF RowsInv
<1>3. ASSUME NEW v \in Workers \ {w} PROVE RowOf(v)'
  <2>1. RowOf(v) /\ request'[v] = request[v] /\ request[v].row \in Serials
    BY DEF RowsInv
  <2>2. PICK s \in Serials : s = request[v].row
    BY <2>1
  <2>3. s = request'[v].row /\ (OnFile(s) => OnFile(s)')
    BY <2>1, <2>2
  <2>4. RevokedFor(s) => RevokedFor(s)'
    BY <1>0
  <2> QED
    BY <2>1, <2>2, <2>3, <2>4 DEF RowOf, StandsFor
<1> QED
  BY <1>1, <1>2, <1>3 DEF RowsInv

\* Most steps touch neither the files nor the table.
LEMMA RowsKeptQuietly ==
  ASSUME RowsInv, TypeOK, NEW w \in Workers,
         \A v \in Workers \ {w} : request'[v] = request[v],
         UNCHANGED <<revoked, crt, status, replaced>>, RowOf(w)'
  PROVE  RowsInv'
<1>1. \A s : OnFile(s)' <=> OnFile(s)
  BY DEF OnFile, StandsFor
<1>2. \A s : Known(s)' <=> Known(s)
  BY DEF Known
<1>3. \A v \in Workers : request[v].row \in Serials
  BY DEF TypeOK, Request
<1> QED
  BY <1>1, <1>2, <1>3, RowsKept

\* What was on file is on file or among the replaced when the file is written.
LEMMA RowsKeptByWriting ==
  ASSUME RowsInv, TypeOK, NEW w \in Workers, NEW content, WriteCrt(w, content),
         \A v \in Workers \ {w} : request'[v] = request[v],
         UNCHANGED <<revoked, status>>, RowOf(w)'
  PROVE  RowsInv'
<1>1. \A s \in Serials : OnFile(s) => OnFile(s)'
  <2> SUFFICES ASSUME NEW s \in Serials, OnFile(s), s # 0
               PROVE  s = content \/ <<s, content>> \in replaced'
    BY DEF OnFile, StandsFor, WriteCrt
  <2>1. s \in Certs
    BY DEF Serials, Certs
  <2>2. s \in Past
    BY <2>1 DEF Past, OnFile, StandsFor
  <2> QED
    BY <2>2 DEF WriteCrt
<1>2. \A s : Known(s)' <=> Known(s)
  BY DEF Known
<1>3. \A v \in Workers : request[v].row \in Serials
  BY DEF TypeOK, Request
<1>4. replaced \subseteq replaced'
  BY DEF WriteCrt
<1>5. \A s \in Serials : Known(s)' => Known(s) \/ OnFile(s)'
  BY <1>2
<1> QED
  BY <1>1, <1>3, <1>4, <1>5, RowsKept

\* Every definition keeps what the rows and the files have in common.
LEMMA RowsPreserved == TypeOK /\ RowsInv /\ [Next]_vars => RowsInv'
<1> SUFFICES ASSUME TypeOK, RowsInv, [Next]_vars PROVE RowsInv'
  OBVIOUS
<1> USE DEF ca, files, table
<1>0. \A s \in Serials : Known(s) => OnFile(s)
  BY DEF RowsInv
<1>1. CASE UNCHANGED vars
  BY <1>1 DEF vars, RowsInv, RevokedRowsAreRevoked, Known, OnFile, StandsFor, RevokedFor, RowOf, Revoking
<1>2. CASE Crash
  <2>1. \A w \in Workers : RowOf(w)'
    BY <1>2 DEF Crash, RowOf, Idle, Revoking
  <2> QED
    BY <1>2, <2>1 DEF Crash, RowsInv, RevokedRowsAreRevoked, Known, OnFile, StandsFor
<1>3. ASSUME NEW w \in Workers, IssuePost(w)
      PROVE  RowsInv'
  <2>1. RowOf(w)'
    BY <1>3, IssuePostMoves DEF Moved, RowOf, Revoking
  <2>2. \A v \in Workers \ {w} : request'[v] = request[v]
    BY <1>3, IssuePostMoves DEF Moved
  <2> QED
    BY <1>3, <2>1, <2>2, RowsKeptQuietly DEF IssuePost
<1>4. ASSUME NEW w \in Workers, NEW s \in Serials, Renew(w, s)
      PROVE  RowsInv'
  <2>1. RowOf(w)'
    BY <1>4, RenewMoves DEF Moved, RowOf, Revoking
  <2>2. \A v \in Workers \ {w} : request'[v] = request[v]
    BY <1>4, RenewMoves DEF Moved
  <2> QED
    BY <1>4, <2>1, <2>2, RowsKeptQuietly DEF Renew
<1>5. ASSUME NEW w \in Workers, IssueCertificate(w)
      PROVE  RowsInv'
  <2>1. RowOf(w)'
    BY <1>5, IssueCertificateMoves DEF Moved, RowOf, Revoking
  <2>2. \A v \in Workers \ {w} : request'[v] = request[v]
    BY <1>5, IssueCertificateMoves DEF Moved
  <2> QED
    BY <1>5, <2>1, <2>2, RowsKeptQuietly DEF IssueCertificate
<1>6. ASSUME NEW w \in Workers, IssueFails(w)
      PROVE  RowsInv'
  <2>1. RowOf(w)'
    BY <1>6, RecordMoves DEF Moved, RowOf, Revoking
  <2>2. \A v \in Workers \ {w} : request'[v] = request[v]
    BY <1>6, RecordMoves DEF Moved
  <2> QED
    BY <1>6, <2>1, <2>2, RowsKeptQuietly DEF IssueFails
<1>7. ASSUME NEW w \in Workers, OpenKey(w)
      PROVE  RowsInv'
  <2>1. RowOf(w)'
    BY <1>7, OpenKeyMoves DEF Moved, RowOf, Revoking
  <2>2. \A v \in Workers \ {w} : request'[v] = request[v]
    BY <1>7, OpenKeyMoves DEF Moved
  <2> QED
    BY <1>7, <2>1, <2>2, RowsKeptQuietly DEF OpenKey
<1>8. ASSUME NEW w \in Workers, FillKey(w)
      PROVE  RowsInv'
  <2>1. RowOf(w)'
    BY <1>8, FillKeyMoves DEF Moved, RowOf, Revoking
  <2>2. \A v \in Workers \ {w} : request'[v] = request[v]
    BY <1>8, FillKeyMoves DEF Moved
  <2> QED
    BY <1>8, <2>1, <2>2, RowsKeptQuietly DEF FillKey
<1>9. ASSUME NEW w \in Workers, WriteFails(w)
      PROVE  RowsInv'
  <2>1. RowOf(w)'
    BY <1>9, WriteFailsMoves DEF Moved, RowOf, Revoking
  <2>2. \A v \in Workers \ {w} : request'[v] = request[v]
    BY <1>9, WriteFailsMoves DEF Moved
  <2> QED
    BY <1>9, <2>1, <2>2, RowsKeptQuietly DEF WriteFails
<1>10. ASSUME NEW w \in Workers, NEW c \in Serials, NEW named \in BOOLEAN, ImportUpload(w, c, named)
      PROVE  RowsInv'
  <2>1. RowOf(w)'
    BY <1>10, ImportUploadMoves DEF Moved, RowOf, Revoking
  <2>2. \A v \in Workers \ {w} : request'[v] = request[v]
    BY <1>10, ImportUploadMoves DEF Moved
  <2> QED
    BY <1>10, <2>1, <2>2, RowsKeptQuietly DEF ImportUpload
<1>11. ASSUME NEW w \in Workers, ImportScan(w)
      PROVE  RowsInv'
  <2>1. RowOf(w)'
    BY <1>11, ImportScanMoves DEF Moved, RowOf, Revoking
  <2>2. \A v \in Workers \ {w} : request'[v] = request[v]
    BY <1>11, ImportScanMoves DEF Moved
  <2> QED
    BY <1>11, <2>1, <2>2, RowsKeptQuietly DEF ImportScan
<1>12. ASSUME NEW w \in Workers, GetCertBySerial(w)
      PROVE  RowsInv'
  <2>1. RowOf(w)'
    BY <1>12, GetCertBySerialMoves DEF Moved, RowOf, Revoking
  <2>2. \A v \in Workers \ {w} : request'[v] = request[v]
    BY <1>12, GetCertBySerialMoves DEF Moved
  <2> QED
    BY <1>12, <2>1, <2>2, RowsKeptQuietly DEF GetCertBySerial
<1>13. ASSUME NEW w \in Workers, NEW named \in BOOLEAN, ImportManual(w, named)
      PROVE  RowsInv'
  <2>1. RowOf(w)'
    BY <1>13, ImportManualMoves DEF Moved, RowOf, Revoking
  <2>2. \A v \in Workers \ {w} : request'[v] = request[v]
    BY <1>13, ImportManualMoves DEF Moved
  <2> QED
    BY <1>13, <2>1, <2>2, RowsKeptQuietly DEF ImportManual
<1>14. ASSUME NEW w \in Workers, ParseCertDates(w)
      PROVE  RowsInv'
  <2>1. RowOf(w)'
    BY <1>14, ParseCertDatesMoves DEF Moved, RowOf, OnFile, StandsFor, ParseCertDates, Revoking
  <2>2. \A v \in Workers \ {w} : request'[v] = request[v]
    BY <1>14, ParseCertDatesMoves DEF Moved
  <2> QED
    BY <1>14, <2>1, <2>2, RowsKeptQuietly DEF ParseCertDates
<1>15. ASSUME NEW w \in Workers, InsertFails(w)
      PROVE  RowsInv'
  <2>1. RowOf(w)'
    BY <1>15, RecordMoves DEF Moved, RowOf, Revoking
  <2>2. \A v \in Workers \ {w} : request'[v] = request[v]
    BY <1>15, RecordMoves DEF Moved
  <2> QED
    BY <1>15, <2>1, <2>2, RowsKeptQuietly DEF InsertFails
<1>16. ASSUME NEW w \in Workers, NEW s \in Serials, Revoke(w, s)
      PROVE  RowsInv'
  <2>1. RowOf(w)'
    <3>1. OnFile(s)
      BY <1>16, <1>0 DEF Revoke
    <3>2. request'[w].row = s /\ request'[w].pc = "loadCrt" /\ UNCHANGED <<crt, replaced>>
      BY <1>16, RevokeMoves DEF Moved, Revoke
    <3>3. OnFile(s)'
      BY <3>1, <3>2 DEF OnFile, StandsFor
    <3> QED
      BY <3>2, <3>3 DEF RowOf, OnFile, StandsFor
  <2>2. \A v \in Workers \ {w} : request'[v] = request[v]
    BY <1>16, RevokeMoves DEF Moved
  <2> QED
    BY <1>16, <2>1, <2>2, RowsKeptQuietly DEF Revoke
<1>17. ASSUME NEW w \in Workers, LoadCrt(w)
      PROVE  RowsInv'
  <2>1. RowOf(w)'
    BY <1>17, LoadCrtMoves DEF Moved, RowOf, OnFile, StandsFor, LoadCrt, RowsInv, Revoking
  <2>2. \A v \in Workers \ {w} : request'[v] = request[v]
    BY <1>17, LoadCrtMoves DEF Moved
  <2> QED
    BY <1>17, <2>1, <2>2, RowsKeptQuietly DEF LoadCrt
<1>18. ASSUME NEW w \in Workers, LoadKey(w)
      PROVE  RowsInv'
  <2>1. RowOf(w)'
    BY <1>18, LoadKeyMoves DEF Moved, RowOf, LoadKey, RowsInv, OnFile, StandsFor, Revoking
  <2>2. \A v \in Workers \ {w} : request'[v] = request[v]
    BY <1>18, LoadKeyMoves DEF Moved
  <2> QED
    BY <1>18, <2>1, <2>2, RowsKeptQuietly DEF LoadKey
<1>19. ASSUME NEW w \in Workers, RevokeRefused(w)
      PROVE  RowsInv'
  <2>1. RowOf(w)'
    BY <1>19, RecordMoves DEF Moved, RowOf, Revoking
  <2>2. \A v \in Workers \ {w} : request'[v] = request[v]
    BY <1>19, RecordMoves DEF Moved
  <2> QED
    BY <1>19, <2>1, <2>2, RowsKeptQuietly DEF RevokeRefused
<1>20. ASSUME NEW w \in Workers, OpenCrt(w)
      PROVE  RowsInv'
  <2>1. RowOf(w)'
    BY <1>20, OpenCrtMoves DEF Moved, RowOf, Revoking
  <2>2. \A v \in Workers \ {w} : request'[v] = request[v]
    BY <1>20, OpenCrtMoves DEF Moved
  <2> QED
    BY <1>20, <2>1, <2>2, RowsKeptByWriting DEF OpenCrt
<1>21. ASSUME NEW w \in Workers, FillCrt(w)
      PROVE  RowsInv'
  <2>1. RowOf(w)'
    BY <1>21, FillCrtMoves DEF Moved, RowOf, Revoking
  <2>2. \A v \in Workers \ {w} : request'[v] = request[v]
    BY <1>21, FillCrtMoves DEF Moved
  <2> QED
    BY <1>21, <2>1, <2>2, RowsKeptByWriting DEF FillCrt
<1>22. ASSUME NEW w \in Workers, RevokeAtCA(w)
      PROVE  RowsInv'
  <2>1. RowOf(w)'
    BY <1>22, RevokeAtCAMoves DEF Moved, RowOf, RevokeAtCA, RowsInv, OnFile, StandsFor, RevokedFor, Revoking
  <2>2. \A v \in Workers \ {w} : request'[v] = request[v]
    BY <1>22, RevokeAtCAMoves DEF Moved
  <2>3. \A s \in Serials : OnFile(s) => OnFile(s)'
    BY <1>22 DEF RevokeAtCA, OnFile, StandsFor
  <2>4. \A s \in Serials : Known(s)' => Known(s)
    BY <1>22 DEF RevokeAtCA, Known
  <2>5. \A v \in Workers : request[v].row \in Serials
    BY DEF TypeOK, Request
  <2> QED
    BY <1>22, <2>1, <2>2, <2>3, <2>4, <2>5, RowsKept DEF RevokeAtCA
<1>23. ASSUME NEW w \in Workers, InsertCert(w)
      PROVE  RowsInv'
  <2>1. RowOf(w)'
    BY <1>23, RecordMoves DEF Moved, RowOf, Revoking
  <2>2. \A v \in Workers \ {w} : request'[v] = request[v]
    BY <1>23, RecordMoves DEF Moved
  <2>3. UNCHANGED <<ca, files, replaced>> /\ status' = [status EXCEPT ![request[w].row] = "active"]
    BY <1>23 DEF InsertCert
  <2>4. OnFile(request[w].row)
    BY <1>23 DEF InsertCert, RowsInv, RowOf, Revoking
  <2>5. \A s \in Serials : OnFile(s) => OnFile(s)'
    BY <2>3 DEF OnFile, StandsFor
  <2>6. \A v \in Workers : request[v].row \in Serials
    BY DEF TypeOK, Request
  <2>7. \A s \in Serials : Known(s)' => Known(s) \/ OnFile(s)'
    BY <2>3, <2>4, <2>5 DEF Known, TypeOK
  <2>8. \A s \in Certs : status'[s] = "revoked" => status[s] = "revoked"
    BY <2>3 DEF TypeOK, Certs, Serials
  <2> QED
    BY <2>1, <2>2, <2>3, <2>5, <2>6, <2>7, <2>8, RowsKept
<1>24. ASSUME NEW w \in Workers, UpdateCertStatus(w)
      PROVE  RowsInv'
  <2>1. RowOf(w)'
    BY <1>24, RecordMoves DEF Moved, RowOf, Revoking
  <2>2. \A v \in Workers \ {w} : request'[v] = request[v]
    BY <1>24, RecordMoves DEF Moved
  <2>3. /\ UNCHANGED <<ca, files, replaced>>
        /\ status' \in {status, [status EXCEPT ![request[w].row] = "revoked"]}
    BY <1>24 DEF UpdateCertStatus
  <2>4. RevokedFor(request[w].row) /\ (\A s : RevokedFor(s) => RevokedFor(s)')
    BY <1>24, <2>3 DEF UpdateCertStatus, RowsInv, RowOf, RevokedFor, StandsFor
  <2>5. \A s \in Serials : OnFile(s) => OnFile(s)'
    BY <2>3 DEF OnFile, StandsFor
  <2>6. \A v \in Workers : request[v].row \in Serials
    BY DEF TypeOK, Request
  <2>7. \A s \in Serials : Known(s)' => Known(s) \/ OnFile(s)'
    <3>1. OnFile(request[w].row)
      BY <1>24 DEF UpdateCertStatus, RowsInv, RowOf, Revoking
    <3> QED
      BY <2>3, <2>5, <3>1 DEF Known, TypeOK
  <2>8. \A s \in Certs : status'[s] = "revoked" => status[s] = "revoked" \/ RevokedFor(s)'
    BY <2>3, <2>4, CertStoreAssumption DEF TypeOK, Certs, Serials
  <2> QED
    BY <2>1, <2>2, <2>3, <2>5, <2>6, <2>7, <2>8, RowsKept
<1> QED
  BY <1>1, <1>2, <1>3, <1>4, <1>5, <1>6, <1>7, <1>8, <1>9, <1>10, <1>11, <1>12, <1>13,
     <1>14, <1>15, <1>16, <1>17, <1>18, <1>19, <1>20, <1>21, <1>22, <1>23, <1>24
     DEF Next, Issue, Write, Import, Record, RevokePost

-----------------------------------------------------------------------------
(* What is signed and on file is recorded *)

\* A request is going to record it: it has yet to write the file, or has written it
\* and nobody has overwritten that, or has read it back.
InHand(w, s) ==
  LET r == request[w] IN
  \/ r.pc \in {"openCrt", "fillCrt"} /\ r.cert = s
  \/ r.pc \in {"openKey", "fillKey", "parse"} /\ r.cert = s /\ crt = s
  \/ r.pc = "insert" /\ r.row = s

Promised(s) == s \in ours \cup {crt} /\ <<"recorded", s>> \notin excused

RecordedInv ==
  \A s \in Certs : Promised(s) => Known(s) \/ \E w \in Workers : InHand(w, s)

\* What is excused is in the history,
LEMMA Excuses ==
  ASSUME NEW kinds, NEW e, Excuse(kinds, e), NEW k \in kinds, NEW s \in e, s \in Certs
  PROVE  <<k, s>> \in excused'
  BY DEF Excuse

\* which only grows.
LEMMA ExcusesMore ==
  ASSUME NEW kinds, NEW e, Excuse(kinds, e) PROVE excused \subseteq excused'
  BY DEF Excuse

\* One request lets go of nothing that is promised and not yet recorded.
LEMMA RecordedKept ==
  ASSUME RecordedInv, NEW w \in Workers,
         \A v \in Workers \ {w} : request'[v] = request[v],
         UNCHANGED <<ours, crt>>, excused \subseteq excused',
         \A k \in Certs : Known(k) => Known(k)',
         \A s \in Certs : InHand(w, s) =>
            InHand(w, s)' \/ Known(s)' \/ <<"recorded", s>> \in excused'
  PROVE  RecordedInv'
<1> SUFFICES ASSUME NEW s \in Certs, Promised(s)' PROVE Known(s)' \/ \E v \in Workers : InHand(v, s)'
  BY DEF RecordedInv
<1>1. Promised(s)
  BY DEF Promised
<1>2. CASE Known(s)
  BY <1>2
<1>3. ASSUME NEW v \in Workers, InHand(v, s) PROVE Known(s)' \/ \E u \in Workers : InHand(u, s)'
  <2>1. CASE v = w
    BY <1>3, <2>1 DEF Promised
  <2>2. CASE v # w
    BY <1>3, <2>2 DEF InHand
  <2> QED
    BY <2>1, <2>2
<1> QED
  BY <1>1, <1>2, <1>3 DEF RecordedInv

\* Writing the file takes it from those who have written it before and not read it
\* back: nothing is promised of theirs any more.
LEMMA RecordedKeptByWriting ==
  ASSUME RecordedInv, TypeOK, NEW w \in Workers, NEW content, WriteCrt(w, content),
         \A v \in Workers \ {w} : request'[v] = request[v],
         UNCHANGED <<ours, status>>,
         \A s \in Certs : InHand(w, s) => InHand(w, s)',
         content \in Certs => InHand(w, content)'
  PROVE  RecordedInv'
<1> SUFFICES ASSUME NEW s \in Certs, Promised(s)' PROVE Known(s)' \/ \E v \in Workers : InHand(v, s)'
  BY DEF RecordedInv
<1>1. crt' = content
  BY DEF WriteCrt
<1>2. CASE s = content
  BY <1>2
<1>3. CASE s # content
  <2>1. excused \subseteq excused' /\ s \in ours
    BY <1>1, <1>3, ExcusesMore DEF WriteCrt, Promised
  <2>2. Promised(s)
    BY <2>1 DEF Promised
  <2>3. CASE Known(s)
    BY <2>3 DEF Known
  <2>4. ASSUME NEW v \in Workers, InHand(v, s) PROVE \E u \in Workers : InHand(u, s)'
    <3>1. CASE v = w
      BY <2>4, <3>1
    <3>2. CASE v # w /\ request[v].pc \in {"openCrt", "fillCrt", "insert"}
      BY <2>4, <3>2 DEF InHand
    <3>3. CASE v # w /\ request[v].pc \in {"openKey", "fillKey", "parse"}
      <4>1. s \in Raced(w) \ {content}
        BY <1>3, <2>4, <3>3 DEF InHand, Raced, Writing
      <4>2. <<"recorded", s>> \in excused'
        BY <4>1, Excuses DEF WriteCrt
      <4> QED
        BY <4>2 DEF Promised
    <3> QED
      BY <2>4, <3>1, <3>2, <3>3 DEF InHand
  <2> QED
    BY <2>2, <2>3, <2>4 DEF RecordedInv
<1> QED
  BY <1>2, <1>3

\* Every definition keeps what is promised recorded or in hand.
LEMMA RecordedPreserved == TypeOK /\ RecordedInv /\ [Next]_vars => RecordedInv'
<1> SUFFICES ASSUME TypeOK, RecordedInv, [Next]_vars PROVE RecordedInv'
  OBVIOUS
<1> USE DEF ca, files, table
<1>1. CASE UNCHANGED vars
  BY <1>1 DEF vars, RecordedInv, Promised, Known, InHand
<1>2. CASE Crash
  <2> SUFFICES ASSUME NEW s \in Certs, Promised(s)' PROVE Known(s)'
    BY DEF RecordedInv
  <2>1. Excuse(Kinds, UNION {{request[w].row, request[w].cert} : w \in Workers})
    BY <1>2 DEF Crash
  <2>2. Promised(s)
    BY <1>2, <2>1, ExcusesMore DEF Crash, Promised
  <2>3. ASSUME NEW w \in Workers, InHand(w, s) PROVE FALSE
    <3>1. s \in UNION {{request[v].row, request[v].cert} : v \in Workers}
      BY <2>3 DEF InHand
    <3>2. <<"recorded", s>> \in excused'
      BY <2>1, <3>1, Excuses DEF Kinds
    <3> QED
      BY <3>2 DEF Promised
  <2> QED
    BY <1>2, <2>2, <2>3 DEF RecordedInv, Crash, Known
<1>3. ASSUME NEW w \in Workers, IssuePost(w)
      PROVE  RecordedInv'
  <2>1. \A v \in Workers \ {w} : request'[v] = request[v]
    BY <1>3, IssuePostMoves DEF Moved
  <2>2. UNCHANGED <<ours, crt>> /\ excused \subseteq excused'
    BY <1>3 DEF IssuePost
  <2>3. \A k \in Certs : Known(k) => Known(k)'
    BY <1>3 DEF IssuePost, Known
  <2>4. ASSUME NEW t \in Certs, InHand(w, t)
        PROVE  InHand(w, t)' \/ Known(t)' \/ <<"recorded", t>> \in excused'
    BY <1>3, <2>2, <2>4, IssuePostMoves DEF InHand, Moved, IssuePost, Begin
  <2> QED
    BY <2>1, <2>2, <2>3, <2>4, RecordedKept
<1>4. ASSUME NEW w \in Workers, NEW s \in Serials, Renew(w, s)
      PROVE  RecordedInv'
  <2>1. \A v \in Workers \ {w} : request'[v] = request[v]
    BY <1>4, RenewMoves DEF Moved
  <2>2. UNCHANGED <<ours, crt>> /\ excused \subseteq excused'
    BY <1>4 DEF Renew
  <2>3. \A k \in Certs : Known(k) => Known(k)'
    BY <1>4 DEF Renew, Known
  <2>4. ASSUME NEW t \in Certs, InHand(w, t)
        PROVE  InHand(w, t)' \/ Known(t)' \/ <<"recorded", t>> \in excused'
    BY <1>4, <2>2, <2>4, RenewMoves DEF InHand, Moved, Renew, Begin
  <2> QED
    BY <2>1, <2>2, <2>3, <2>4, RecordedKept
<1>5. ASSUME NEW w \in Workers, OpenKey(w)
      PROVE  RecordedInv'
  <2>1. \A v \in Workers \ {w} : request'[v] = request[v]
    BY <1>5, OpenKeyMoves DEF Moved
  <2>2. UNCHANGED <<ours, crt>> /\ excused \subseteq excused'
    BY <1>5 DEF OpenKey
  <2>3. \A k \in Certs : Known(k) => Known(k)'
    BY <1>5 DEF OpenKey, Known
  <2>4. ASSUME NEW t \in Certs, InHand(w, t)
        PROVE  InHand(w, t)' \/ Known(t)' \/ <<"recorded", t>> \in excused'
    BY <1>5, <2>2, <2>4, OpenKeyMoves DEF InHand, Moved, OpenKey
  <2> QED
    BY <2>1, <2>2, <2>3, <2>4, RecordedKept
<1>6. ASSUME NEW w \in Workers, FillKey(w)
      PROVE  RecordedInv'
  <2>1. \A v \in Workers \ {w} : request'[v] = request[v]
    BY <1>6, FillKeyMoves DEF Moved
  <2>2. UNCHANGED <<ours, crt>> /\ excused \subseteq excused'
    BY <1>6 DEF FillKey
  <2>3. \A k \in Certs : Known(k) => Known(k)'
    BY <1>6 DEF FillKey, Known
  <2>4. ASSUME NEW t \in Certs, InHand(w, t)
        PROVE  InHand(w, t)' \/ Known(t)' \/ <<"recorded", t>> \in excused'
    BY <1>6, <2>2, <2>4, FillKeyMoves DEF InHand, Moved, FillKey
  <2> QED
    BY <2>1, <2>2, <2>3, <2>4, RecordedKept
<1>7. ASSUME NEW w \in Workers, NEW c \in Serials, NEW named \in BOOLEAN, ImportUpload(w, c, named)
      PROVE  RecordedInv'
  <2>1. \A v \in Workers \ {w} : request'[v] = request[v]
    BY <1>7, ImportUploadMoves DEF Moved
  <2>2. UNCHANGED <<ours, crt>> /\ excused \subseteq excused'
    BY <1>7 DEF ImportUpload
  <2>3. \A k \in Certs : Known(k) => Known(k)'
    BY <1>7 DEF ImportUpload, Known
  <2>4. ASSUME NEW t \in Certs, InHand(w, t)
        PROVE  InHand(w, t)' \/ Known(t)' \/ <<"recorded", t>> \in excused'
    BY <1>7, <2>2, <2>4, ImportUploadMoves DEF InHand, Moved, ImportUpload, Begin
  <2> QED
    BY <2>1, <2>2, <2>3, <2>4, RecordedKept
<1>8. ASSUME NEW w \in Workers, ImportScan(w)
      PROVE  RecordedInv'
  <2>1. \A v \in Workers \ {w} : request'[v] = request[v]
    BY <1>8, ImportScanMoves DEF Moved
  <2>2. UNCHANGED <<ours, crt>> /\ excused \subseteq excused'
    BY <1>8 DEF ImportScan
  <2>3. \A k \in Certs : Known(k) => Known(k)'
    BY <1>8 DEF ImportScan, Known
  <2>4. ASSUME NEW t \in Certs, InHand(w, t)
        PROVE  InHand(w, t)' \/ Known(t)' \/ <<"recorded", t>> \in excused'
    BY <1>8, <2>2, <2>4, ImportScanMoves DEF InHand, Moved, ImportScan, Begin
  <2> QED
    BY <2>1, <2>2, <2>3, <2>4, RecordedKept
<1>9. ASSUME NEW w \in Workers, NEW named \in BOOLEAN, ImportManual(w, named)
      PROVE  RecordedInv'
  <2>1. \A v \in Workers \ {w} : request'[v] = request[v]
    BY <1>9, ImportManualMoves DEF Moved
  <2>2. UNCHANGED <<ours, crt>> /\ excused \subseteq excused'
    BY <1>9 DEF ImportManual
  <2>3. \A k \in Certs : Known(k) => Known(k)'
    BY <1>9 DEF ImportManual, Known
  <2>4. ASSUME NEW t \in Certs, InHand(w, t)
        PROVE  InHand(w, t)' \/ Known(t)' \/ <<"recorded", t>> \in excused'
    BY <1>9, <2>2, <2>4, ImportManualMoves DEF InHand, Moved, ImportManual, Begin
  <2> QED
    BY <2>1, <2>2, <2>3, <2>4, RecordedKept
<1>10. ASSUME NEW w \in Workers, ParseCertDates(w)
      PROVE  RecordedInv'
  <2>1. \A v \in Workers \ {w} : request'[v] = request[v]
    BY <1>10, ParseCertDatesMoves DEF Moved
  <2>2. UNCHANGED <<ours, crt>> /\ excused \subseteq excused'
    BY <1>10 DEF ParseCertDates
  <2>3. \A k \in Certs : Known(k) => Known(k)'
    BY <1>10 DEF ParseCertDates, Known
  <2>4. ASSUME NEW t \in Certs, InHand(w, t)
        PROVE  InHand(w, t)' \/ Known(t)' \/ <<"recorded", t>> \in excused'
    BY <1>10, <2>2, <2>4, ParseCertDatesMoves DEF InHand, Moved, ParseCertDates
  <2> QED
    BY <2>1, <2>2, <2>3, <2>4, RecordedKept
<1>11. ASSUME NEW w \in Workers, NEW s \in Serials, Revoke(w, s)
      PROVE  RecordedInv'
  <2>1. \A v \in Workers \ {w} : request'[v] = request[v]
    BY <1>11, RevokeMoves DEF Moved
  <2>2. UNCHANGED <<ours, crt>> /\ excused \subseteq excused'
    BY <1>11 DEF Revoke
  <2>3. \A k \in Certs : Known(k) => Known(k)'
    BY <1>11 DEF Revoke, Known
  <2>4. ASSUME NEW t \in Certs, InHand(w, t)
        PROVE  InHand(w, t)' \/ Known(t)' \/ <<"recorded", t>> \in excused'
    BY <1>11, <2>2, <2>4, RevokeMoves DEF InHand, Moved, Revoke, Begin
  <2> QED
    BY <2>1, <2>2, <2>3, <2>4, RecordedKept
<1>12. ASSUME NEW w \in Workers, LoadCrt(w)
      PROVE  RecordedInv'
  <2>1. \A v \in Workers \ {w} : request'[v] = request[v]
    BY <1>12, LoadCrtMoves DEF Moved
  <2>2. UNCHANGED <<ours, crt>> /\ excused \subseteq excused'
    BY <1>12 DEF LoadCrt
  <2>3. \A k \in Certs : Known(k) => Known(k)'
    BY <1>12 DEF LoadCrt, Known
  <2>4. ASSUME NEW t \in Certs, InHand(w, t)
        PROVE  InHand(w, t)' \/ Known(t)' \/ <<"recorded", t>> \in excused'
    BY <1>12, <2>2, <2>4, LoadCrtMoves DEF InHand, Moved, LoadCrt
  <2> QED
    BY <2>1, <2>2, <2>3, <2>4, RecordedKept
<1>13. ASSUME NEW w \in Workers, LoadKey(w)
      PROVE  RecordedInv'
  <2>1. \A v \in Workers \ {w} : request'[v] = request[v]
    BY <1>13, LoadKeyMoves DEF Moved
  <2>2. UNCHANGED <<ours, crt>> /\ excused \subseteq excused'
    BY <1>13 DEF LoadKey
  <2>3. \A k \in Certs : Known(k) => Known(k)'
    BY <1>13 DEF LoadKey, Known
  <2>4. ASSUME NEW t \in Certs, InHand(w, t)
        PROVE  InHand(w, t)' \/ Known(t)' \/ <<"recorded", t>> \in excused'
    BY <1>13, <2>2, <2>4, LoadKeyMoves DEF InHand, Moved, LoadKey
  <2> QED
    BY <2>1, <2>2, <2>3, <2>4, RecordedKept
<1>14. ASSUME NEW w \in Workers, RevokeRefused(w)
      PROVE  RecordedInv'
  <2>1. \A v \in Workers \ {w} : request'[v] = request[v]
    BY <1>14, RecordMoves DEF Moved
  <2>2. UNCHANGED <<ours, crt>> /\ excused \subseteq excused'
    BY <1>14 DEF RevokeRefused
  <2>3. \A k \in Certs : Known(k) => Known(k)'
    BY <1>14 DEF RevokeRefused, Known
  <2>4. ASSUME NEW t \in Certs, InHand(w, t)
        PROVE  InHand(w, t)' \/ Known(t)' \/ <<"recorded", t>> \in excused'
    BY <1>14, <2>2, <2>4, RecordMoves DEF InHand, Moved, RevokeRefused
  <2> QED
    BY <2>1, <2>2, <2>3, <2>4, RecordedKept
<1>15. ASSUME NEW w \in Workers, GetCertBySerial(w)
      PROVE  RecordedInv'
  <2>1. \A v \in Workers \ {w} : request'[v] = request[v]
    BY <1>15, GetCertBySerialMoves DEF Moved
  <2>2. UNCHANGED <<ours, crt>> /\ excused \subseteq excused'
    BY <1>15, ExcusesMore DEF GetCertBySerial
  <2>3. \A k \in Certs : Known(k) => Known(k)'
    BY <1>15 DEF GetCertBySerial, Known
  <2>4. ASSUME NEW t \in Certs, InHand(w, t)
        PROVE  InHand(w, t)' \/ Known(t)' \/ <<"recorded", t>> \in excused'
    BY <1>15, <2>2, <2>4, GetCertBySerialMoves DEF InHand, Moved, GetCertBySerial
  <2> QED
    BY <2>1, <2>2, <2>3, <2>4, RecordedKept
<1>16. ASSUME NEW w \in Workers, RevokeAtCA(w)
      PROVE  RecordedInv'
  <2>1. \A v \in Workers \ {w} : request'[v] = request[v]
    BY <1>16, RevokeAtCAMoves DEF Moved
  <2>2. UNCHANGED <<ours, crt>> /\ excused \subseteq excused'
    BY <1>16, ExcusesMore DEF RevokeAtCA
  <2>3. \A k \in Certs : Known(k) => Known(k)'
    BY <1>16 DEF RevokeAtCA, Known
  <2>4. ASSUME NEW t \in Certs, InHand(w, t)
        PROVE  InHand(w, t)' \/ Known(t)' \/ <<"recorded", t>> \in excused'
    BY <1>16, <2>2, <2>4, RevokeAtCAMoves DEF InHand, Moved, RevokeAtCA
  <2> QED
    BY <2>1, <2>2, <2>3, <2>4, RecordedKept
<1>17. ASSUME NEW w \in Workers, WriteFails(w)
      PROVE  RecordedInv'
  <2>1. \A v \in Workers \ {w} : request'[v] = request[v]
    BY <1>17, WriteFailsMoves DEF Moved
  <2>2. UNCHANGED <<ours, crt>> /\ excused \subseteq excused'
    BY <1>17, ExcusesMore DEF WriteFails
  <2>3. \A k \in Certs : Known(k) => Known(k)'
    BY <1>17 DEF WriteFails, Known
  <2>4. ASSUME NEW t \in Certs, InHand(w, t)
        PROVE  InHand(w, t)' \/ Known(t)' \/ <<"recorded", t>> \in excused'
    <3>1. CASE Excuse({"recorded"}, {request[w].cert})
      <4>1. t = request[w].cert
        BY <1>17, <2>4 DEF WriteFails, InHand, Writing
      <4> QED
        BY <3>1, <4>1, Excuses
    <3>2. CASE ~Excuse({"recorded"}, {request[w].cert})
      BY <1>17, <2>2, <2>4, <3>2, WriteFailsMoves DEF InHand, Moved
    <3> QED
      BY <3>1, <3>2
  <2> QED
    BY <2>1, <2>2, <2>3, <2>4, RecordedKept
<1>18. ASSUME NEW w \in Workers, InsertCert(w)
      PROVE  RecordedInv'
  <2>1. \A v \in Workers \ {w} : request'[v] = request[v]
    BY <1>18, RecordMoves DEF Moved
  <2>2. UNCHANGED <<ours, crt>> /\ excused \subseteq excused'
    BY <1>18, ExcusesMore DEF InsertCert
  <2>3. \A k \in Certs : Known(k) => Known(k)'
    BY <1>18 DEF InsertCert, Known, TypeOK, Certs, Serials
  <2>4. ASSUME NEW t \in Certs, InHand(w, t)
        PROVE  InHand(w, t)' \/ Known(t)' \/ <<"recorded", t>> \in excused'
    <3>1. t = request[w].row /\ status' = [status EXCEPT ![request[w].row] = "active"]
      BY <1>18, <2>4 DEF InsertCert, InHand
    <3>2. t \in Serials
      BY DEF Certs, Serials
    <3> QED
      BY <3>1, <3>2 DEF Known, TypeOK
  <2> QED
    BY <2>1, <2>2, <2>3, <2>4, RecordedKept
<1>19. ASSUME NEW w \in Workers, InsertFails(w)
      PROVE  RecordedInv'
  <2>1. \A v \in Workers \ {w} : request'[v] = request[v]
    BY <1>19, RecordMoves DEF Moved
  <2>2. UNCHANGED <<ours, crt>> /\ excused \subseteq excused'
    BY <1>19, ExcusesMore DEF InsertFails
  <2>3. \A k \in Certs : Known(k) => Known(k)'
    BY <1>19 DEF InsertFails, Known
  <2>4. ASSUME NEW t \in Certs, InHand(w, t)
        PROVE  InHand(w, t)' \/ Known(t)' \/ <<"recorded", t>> \in excused'
    <3>1. t = request[w].row
      BY <1>19, <2>4 DEF InsertFails, InHand
    <3> QED
      BY <1>19, <3>1, Excuses DEF InsertFails
  <2> QED
    BY <2>1, <2>2, <2>3, <2>4, RecordedKept
<1>20. ASSUME NEW w \in Workers, UpdateCertStatus(w)
      PROVE  RecordedInv'
  <2>1. \A v \in Workers \ {w} : request'[v] = request[v]
    BY <1>20, RecordMoves DEF Moved
  <2>2. UNCHANGED <<ours, crt>> /\ excused \subseteq excused'
    BY <1>20, ExcusesMore DEF UpdateCertStatus
  <2>3. \A k \in Certs : Known(k) => Known(k)'
    <3>1. status' \in {status, [status EXCEPT ![request[w].row] = "revoked"]}
      BY <1>20 DEF UpdateCertStatus
    <3>2. CASE status' = status
      BY <3>2 DEF Known
    <3>3. CASE status' = [status EXCEPT ![request[w].row] = "revoked"]
      BY <3>3 DEF Known, TypeOK, Certs, Serials
    <3> QED
      BY <3>1, <3>2, <3>3
  <2>4. ASSUME NEW t \in Certs, InHand(w, t)
        PROVE  InHand(w, t)' \/ Known(t)' \/ <<"recorded", t>> \in excused'
    BY <1>20, <2>2, <2>4, RecordMoves DEF InHand, Moved, UpdateCertStatus
  <2> QED
    BY <2>1, <2>2, <2>3, <2>4, RecordedKept
<1>21. ASSUME NEW w \in Workers, IssueCertificate(w)
      PROVE  RecordedInv'
  <2> SUFFICES ASSUME NEW s \in Certs, Promised(s)' PROVE Known(s)' \/ \E v \in Workers : InHand(v, s)'
    BY DEF RecordedInv
  <2>1. Moved(w, "openCrt", request[w].kind, request[w].row, certs + 1)
    BY <1>21, IssueCertificateMoves
  <2>2. CASE s = certs + 1
    BY <2>1, <2>2 DEF Moved, InHand
  <2>3. CASE s # certs + 1
    BY <1>21, <2>1, <2>3 DEF IssueCertificate, Sign, Moved, InHand, Promised, Known, RecordedInv
  <2> QED
    BY <2>2, <2>3
<1>22. ASSUME NEW w \in Workers, IssueFails(w)
      PROVE  RecordedInv'
  <2> SUFFICES ASSUME NEW s \in Certs, Promised(s)' PROVE Known(s)' \/ \E v \in Workers : InHand(v, s)'
    BY DEF RecordedInv
  <2>1. Moved(w, "idle", "revoke", 0, 0)
    BY <1>22, RecordMoves
  <2>2. excused \subseteq excused' /\ UNCHANGED <<crt, status>>
    BY <1>22, ExcusesMore DEF IssueFails
  <2>3. s \in ours \cup {crt}
    <3>1. CASE UNCHANGED ours
      BY <2>2, <3>1 DEF Promised
    <3>2. CASE Sign /\ Excuse({"recorded"}, {certs + 1})
      <4>1. s # certs + 1
        BY <3>2, Excuses DEF Promised
      <4> QED
        BY <2>2, <3>2, <4>1 DEF Sign, Promised
    <3> QED
      BY <1>22, <3>1, <3>2 DEF IssueFails
  <2>4. Promised(s)
    BY <2>2, <2>3 DEF Promised
  <2>5. ~InHand(w, s)
    BY <1>22 DEF IssueFails, InHand
  <2> QED
    BY <2>1, <2>2, <2>4, <2>5 DEF Moved, InHand, Known, RecordedInv
<1>23. ASSUME NEW w \in Workers, OpenCrt(w)
      PROVE  RecordedInv'
  <2>1. PICK c : c = Unreadable
    OBVIOUS
  <2>2. WriteCrt(w, c) /\ crt' = c
    BY <1>23, <2>1 DEF OpenCrt, WriteCrt
  <2>3. UNCHANGED <<ours, status>> /\ \A v \in Workers \ {w} : request'[v] = request[v]
    BY <1>23, OpenCrtMoves DEF OpenCrt, Moved
  <2>4. \A s \in Certs : InHand(w, s) => InHand(w, s)'
    BY <1>23, <2>1, <2>2, OpenCrtMoves DEF OpenCrt, InHand, Moved
  <2>5. c \in Certs => InHand(w, c)'
    BY <1>23, <2>1, <2>2, OpenCrtMoves DEF InHand, Moved, Certs, Unreadable
  <2> QED
    BY <2>2, <2>3, <2>4, <2>5, RecordedKeptByWriting
<1>24. ASSUME NEW w \in Workers, FillCrt(w)
      PROVE  RecordedInv'
  <2>1. PICK c : c = request[w].cert
    OBVIOUS
  <2>2. WriteCrt(w, c) /\ crt' = c
    BY <1>24, <2>1 DEF FillCrt, WriteCrt
  <2>3. UNCHANGED <<ours, status>> /\ \A v \in Workers \ {w} : request'[v] = request[v]
    BY <1>24, FillCrtMoves DEF FillCrt, Moved
  <2>4. \A s \in Certs : InHand(w, s) => InHand(w, s)'
    BY <1>24, <2>1, <2>2, FillCrtMoves DEF FillCrt, InHand, Moved
  <2>5. c \in Certs => InHand(w, c)'
    BY <1>24, <2>1, <2>2, FillCrtMoves DEF InHand, Moved, Certs, Unreadable
  <2> QED
    BY <2>2, <2>3, <2>4, <2>5, RecordedKeptByWriting
<1> QED
  BY <1>1, <1>2, <1>3, <1>4, <1>5, <1>6, <1>7, <1>8, <1>9, <1>10, <1>11, <1>12, <1>13,
     <1>14, <1>15, <1>16, <1>17, <1>18, <1>19, <1>20, <1>21, <1>22, <1>23, <1>24
     DEF Next, Issue, Write, Import, Record, RevokePost

-----------------------------------------------------------------------------
(* What is revoked is shown *)

\* The row is marked, or a request is about to mark it.
Shown(s) ==
  /\ Known(s)
  /\ \/ status[s] = "revoked"
     \/ \E w \in Workers : request[w].pc = "mark" /\ request[w].row = s

\* A scan that is still one has not gone past its question.
AsksWell(w) ==
  LET r == request[w] IN
  /\ r.pc \in {"obtain", "parse", "insert"} \cup Writing => r.kind # "scan"
  /\ r.pc \in Revoking => Known(r.row)

ShownInv ==
  /\ \A s \in revoked : <<"status", s>> \notin excused => Shown(s)
  /\ \A w \in Workers : AsksWell(w)

\* Those that do not write the table leave it shown.
LEMMA ShownKept ==
  ASSUME ShownInv, NEW w \in Workers,
         \A v \in Workers \ {w} : request'[v] = request[v],
         UNCHANGED <<revoked, status>>, excused \subseteq excused', request[w].pc # "mark",
         AsksWell(w)'
  PROVE  ShownInv'
<1>1. \A v \in Workers : AsksWell(v)'
  BY DEF ShownInv, AsksWell, Known
<1>2. ASSUME NEW s \in revoked, <<"status", s>> \notin excused' PROVE Shown(s)'
  <2>1. Shown(s) /\ Known(s) /\ Known(s)'
    BY <1>2 DEF ShownInv, Shown, Known
  <2>2. ASSUME NEW v \in Workers, request[v].pc = "mark", request[v].row = s PROVE Shown(s)'
    <3>1. request'[v].pc = "mark" /\ request'[v].row = s
      BY <2>2
    <3> QED
      BY <2>1, <3>1 DEF Shown
  <2> QED
    BY <2>1, <2>2 DEF Shown
<1> QED
  BY <1>1, <1>2 DEF ShownInv

\* What is signed or revoked is a certificate.
LEMMA RevokedAreCerts == TypeOK => ours \subseteq Certs /\ revoked \subseteq Certs
<1> SUFFICES ASSUME TypeOK PROVE ours \subseteq Certs
  BY DEF TypeOK
<1>1. certs \in 0..MaxCerts /\ ours \subseteq 1..certs
  BY DEF TypeOK, Serials
<1> QED
  BY <1>1, CertStoreAssumption DEF Certs

\* Every definition keeps what the CA has revoked shown or about to be.
LEMMA ShownPreserved == TypeOK /\ ShownInv /\ [Next]_vars => ShownInv'
<1> SUFFICES ASSUME TypeOK, ShownInv, [Next]_vars PROVE ShownInv'
  OBVIOUS
<1> USE DEF ca, files, table
<1>1. CASE UNCHANGED vars
  BY <1>1 DEF vars, ShownInv, Shown, Known, AsksWell
<1>2. CASE Crash
  <2>1. Excuse(Kinds, UNION {{request[w].row, request[w].cert} : w \in Workers})
        /\ UNCHANGED <<revoked, status>>
    BY <1>2 DEF Crash
  <2>2. \A w \in Workers : AsksWell(w)'
    BY <1>2 DEF Crash, AsksWell, Idle, Revoking, Writing
  <2>3. ASSUME NEW s \in revoked, <<"status", s>> \notin excused' PROVE Shown(s)'
    <3>1. Shown(s) /\ s \in Certs
      BY <2>1, <2>3, ExcusesMore, RevokedAreCerts DEF ShownInv
    <3>2. ASSUME NEW w \in Workers, request[w].row = s PROVE FALSE
      <4>1. s \in UNION {{request[v].row, request[v].cert} : v \in Workers}
        BY <3>2
      <4> QED
        BY <2>1, <2>3, <3>1, <4>1, Excuses DEF Kinds
    <3> QED
      BY <2>1, <2>2, <3>1, <3>2 DEF Shown, Known
  <2> QED
    BY <2>1, <2>2, <2>3 DEF ShownInv
<1>3. ASSUME NEW w \in Workers, IssuePost(w)
      PROVE  ShownInv'
  <2>1. \A v \in Workers \ {w} : request'[v] = request[v]
    BY <1>3, IssuePostMoves DEF Moved
  <2>2. UNCHANGED <<revoked, status>> /\ excused \subseteq excused' /\ request[w].pc # "mark"
    BY <1>3 DEF IssuePost, Begin
  <2>3. AsksWell(w)'
    BY <1>3, <2>2, IssuePostMoves DEF AsksWell, Moved, Writing, Revoking, Known, Begin
  <2> QED
    BY <2>1, <2>2, <2>3, ShownKept
<1>4. ASSUME NEW w \in Workers, NEW s \in Serials, Renew(w, s)
      PROVE  ShownInv'
  <2>1. \A v \in Workers \ {w} : request'[v] = request[v]
    BY <1>4, RenewMoves DEF Moved
  <2>2. UNCHANGED <<revoked, status>> /\ excused \subseteq excused' /\ request[w].pc # "mark"
    BY <1>4 DEF Renew, Begin
  <2>3. AsksWell(w)'
    BY <1>4, <2>2, RenewMoves DEF AsksWell, Moved, Writing, Revoking, Known, Begin
  <2> QED
    BY <2>1, <2>2, <2>3, ShownKept
<1>5. ASSUME NEW w \in Workers, IssueCertificate(w)
      PROVE  ShownInv'
  <2>1. \A v \in Workers \ {w} : request'[v] = request[v]
    BY <1>5, IssueCertificateMoves DEF Moved
  <2>2. UNCHANGED <<revoked, status>> /\ excused \subseteq excused' /\ request[w].pc # "mark"
    BY <1>5 DEF IssueCertificate
  <2>3. AsksWell(w)'
    BY <1>5, <2>2, IssueCertificateMoves DEF AsksWell, Moved, Writing, Revoking, Known, IssueCertificate, ShownInv
  <2> QED
    BY <2>1, <2>2, <2>3, ShownKept
<1>6. ASSUME NEW w \in Workers, OpenKey(w)
      PROVE  ShownInv'
  <2>1. \A v \in Workers \ {w} : request'[v] = request[v]
    BY <1>6, OpenKeyMoves DEF Moved
  <2>2. UNCHANGED <<revoked, status>> /\ excused \subseteq excused' /\ request[w].pc # "mark"
    BY <1>6 DEF OpenKey
  <2>3. AsksWell(w)'
    BY <1>6, <2>2, OpenKeyMoves DEF AsksWell, Moved, Writing, Revoking, Known, OpenKey, ShownInv
  <2> QED
    BY <2>1, <2>2, <2>3, ShownKept
<1>7. ASSUME NEW w \in Workers, FillKey(w)
      PROVE  ShownInv'
  <2>1. \A v \in Workers \ {w} : request'[v] = request[v]
    BY <1>7, FillKeyMoves DEF Moved
  <2>2. UNCHANGED <<revoked, status>> /\ excused \subseteq excused' /\ request[w].pc # "mark"
    BY <1>7 DEF FillKey
  <2>3. AsksWell(w)'
    BY <1>7, <2>2, FillKeyMoves DEF AsksWell, Moved, Writing, Revoking, Known, FillKey, ShownInv
  <2> QED
    BY <2>1, <2>2, <2>3, ShownKept
<1>8. ASSUME NEW w \in Workers, NEW c \in Serials, NEW named \in BOOLEAN, ImportUpload(w, c, named)
      PROVE  ShownInv'
  <2>1. \A v \in Workers \ {w} : request'[v] = request[v]
    BY <1>8, ImportUploadMoves DEF Moved
  <2>2. UNCHANGED <<revoked, status>> /\ excused \subseteq excused' /\ request[w].pc # "mark"
    BY <1>8 DEF ImportUpload, Begin
  <2>3. AsksWell(w)'
    BY <1>8, <2>2, ImportUploadMoves DEF AsksWell, Moved, Writing, Revoking, Known, Begin
  <2> QED
    BY <2>1, <2>2, <2>3, ShownKept
<1>9. ASSUME NEW w \in Workers, ImportScan(w)
      PROVE  ShownInv'
  <2>1. \A v \in Workers \ {w} : request'[v] = request[v]
    BY <1>9, ImportScanMoves DEF Moved
  <2>2. UNCHANGED <<revoked, status>> /\ excused \subseteq excused' /\ request[w].pc # "mark"
    BY <1>9 DEF ImportScan, Begin
  <2>3. AsksWell(w)'
    BY <1>9, <2>2, ImportScanMoves DEF AsksWell, Moved, Writing, Revoking, Known, ImportScan, Begin
  <2> QED
    BY <2>1, <2>2, <2>3, ShownKept
<1>10. ASSUME NEW w \in Workers, NEW named \in BOOLEAN, ImportManual(w, named)
      PROVE  ShownInv'
  <2>1. \A v \in Workers \ {w} : request'[v] = request[v]
    BY <1>10, ImportManualMoves DEF Moved
  <2>2. UNCHANGED <<revoked, status>> /\ excused \subseteq excused' /\ request[w].pc # "mark"
    BY <1>10 DEF ImportManual, Begin
  <2>3. AsksWell(w)'
    BY <1>10, <2>2, ImportManualMoves DEF AsksWell, Moved, Writing, Revoking, Known, Begin
  <2> QED
    BY <2>1, <2>2, <2>3, ShownKept
<1>11. ASSUME NEW w \in Workers, NEW s \in Serials, Revoke(w, s)
      PROVE  ShownInv'
  <2>1. \A v \in Workers \ {w} : request'[v] = request[v]
    BY <1>11, RevokeMoves DEF Moved
  <2>2. UNCHANGED <<revoked, status>> /\ excused \subseteq excused' /\ request[w].pc # "mark"
    BY <1>11 DEF Revoke, Begin
  <2>3. AsksWell(w)'
    BY <1>11, <2>2, RevokeMoves DEF AsksWell, Moved, Writing, Revoking, Known, Revoke, Begin
  <2> QED
    BY <2>1, <2>2, <2>3, ShownKept
<1>12. ASSUME NEW w \in Workers, LoadCrt(w)
      PROVE  ShownInv'
  <2>1. \A v \in Workers \ {w} : request'[v] = request[v]
    BY <1>12, LoadCrtMoves DEF Moved
  <2>2. UNCHANGED <<revoked, status>> /\ excused \subseteq excused' /\ request[w].pc # "mark"
    BY <1>12 DEF LoadCrt
  <2>3. AsksWell(w)'
    BY <1>12, <2>2, LoadCrtMoves DEF AsksWell, Moved, Writing, Revoking, Known, ShownInv, LoadCrt
  <2> QED
    BY <2>1, <2>2, <2>3, ShownKept
<1>13. ASSUME NEW w \in Workers, LoadKey(w)
      PROVE  ShownInv'
  <2>1. \A v \in Workers \ {w} : request'[v] = request[v]
    BY <1>13, LoadKeyMoves DEF Moved
  <2>2. UNCHANGED <<revoked, status>> /\ excused \subseteq excused' /\ request[w].pc # "mark"
    BY <1>13 DEF LoadKey
  <2>3. AsksWell(w)'
    BY <1>13, <2>2, LoadKeyMoves DEF AsksWell, Moved, Writing, Revoking, Known, ShownInv, LoadKey
  <2> QED
    BY <2>1, <2>2, <2>3, ShownKept
<1>14. ASSUME NEW w \in Workers, RevokeRefused(w)
      PROVE  ShownInv'
  <2>1. \A v \in Workers \ {w} : request'[v] = request[v]
    BY <1>14, RecordMoves DEF Moved
  <2>2. UNCHANGED <<revoked, status>> /\ excused \subseteq excused' /\ request[w].pc # "mark"
    BY <1>14 DEF RevokeRefused
  <2>3. AsksWell(w)'
    BY <1>14, <2>2, RecordMoves DEF AsksWell, Moved, Writing, Revoking, Known, RevokeRefused
  <2> QED
    BY <2>1, <2>2, <2>3, ShownKept
<1>15. ASSUME NEW w \in Workers, IssueFails(w)
      PROVE  ShownInv'
  <2>1. \A v \in Workers \ {w} : request'[v] = request[v]
    BY <1>15, RecordMoves DEF Moved
  <2>2. UNCHANGED <<revoked, status>> /\ excused \subseteq excused' /\ request[w].pc # "mark"
    BY <1>15, ExcusesMore DEF IssueFails
  <2>3. AsksWell(w)'
    BY <1>15, <2>2, RecordMoves DEF AsksWell, Moved, Writing, Revoking, Known, IssueFails
  <2> QED
    BY <2>1, <2>2, <2>3, ShownKept
<1>16. ASSUME NEW w \in Workers, InsertFails(w)
      PROVE  ShownInv'
  <2>1. \A v \in Workers \ {w} : request'[v] = request[v]
    BY <1>16, RecordMoves DEF Moved
  <2>2. UNCHANGED <<revoked, status>> /\ excused \subseteq excused' /\ request[w].pc # "mark"
    BY <1>16, ExcusesMore DEF InsertFails
  <2>3. AsksWell(w)'
    BY <1>16, <2>2, RecordMoves DEF AsksWell, Moved, Writing, Revoking, Known, InsertFails
  <2> QED
    BY <2>1, <2>2, <2>3, ShownKept
<1>17. ASSUME NEW w \in Workers, OpenCrt(w)
      PROVE  ShownInv'
  <2>1. \A v \in Workers \ {w} : request'[v] = request[v]
    BY <1>17, OpenCrtMoves DEF Moved
  <2>2. UNCHANGED <<revoked, status>> /\ excused \subseteq excused' /\ request[w].pc # "mark"
    BY <1>17, ExcusesMore DEF OpenCrt, WriteCrt
  <2>3. AsksWell(w)'
    BY <1>17, <2>2, OpenCrtMoves DEF AsksWell, Moved, Writing, Revoking, Known, OpenCrt, WriteCrt, ShownInv
  <2> QED
    BY <2>1, <2>2, <2>3, ShownKept
<1>18. ASSUME NEW w \in Workers, FillCrt(w)
      PROVE  ShownInv'
  <2>1. \A v \in Workers \ {w} : request'[v] = request[v]
    BY <1>18, FillCrtMoves DEF Moved
  <2>2. UNCHANGED <<revoked, status>> /\ excused \subseteq excused' /\ request[w].pc # "mark"
    BY <1>18, ExcusesMore DEF FillCrt, WriteCrt
  <2>3. AsksWell(w)'
    BY <1>18, <2>2, FillCrtMoves DEF AsksWell, Moved, Writing, Revoking, Known, FillCrt, WriteCrt, ShownInv
  <2> QED
    BY <2>1, <2>2, <2>3, ShownKept
<1>19. ASSUME NEW w \in Workers, WriteFails(w)
      PROVE  ShownInv'
  <2>1. \A v \in Workers \ {w} : request'[v] = request[v]
    BY <1>19, WriteFailsMoves DEF Moved
  <2>2. UNCHANGED <<revoked, status>> /\ excused \subseteq excused' /\ request[w].pc # "mark"
    BY <1>19, ExcusesMore DEF WriteFails, Writing
  <2>3. AsksWell(w)'
    BY <1>19, <2>2, WriteFailsMoves DEF AsksWell, Moved, Writing, Revoking, Known, WriteFails, ShownInv
  <2> QED
    BY <2>1, <2>2, <2>3, ShownKept
<1>20. ASSUME NEW w \in Workers, ParseCertDates(w)
      PROVE  ShownInv'
  <2>1. \A v \in Workers \ {w} : request'[v] = request[v]
    BY <1>20, ParseCertDatesMoves DEF Moved
  <2>2. UNCHANGED <<revoked, status>> /\ excused \subseteq excused' /\ request[w].pc # "mark"
    BY <1>20 DEF ParseCertDates
  <2>3. AsksWell(w)'
    BY <1>20, <2>2, ParseCertDatesMoves DEF AsksWell, Moved, Writing, Revoking, Known, ParseCertDates, ShownInv
  <2> QED
    BY <2>1, <2>2, <2>3, ShownKept
<1>21. ASSUME NEW w \in Workers, GetCertBySerial(w)
      PROVE  ShownInv'
  <2>1. \A v \in Workers \ {w} : request'[v] = request[v]
    BY <1>21, GetCertBySerialMoves DEF Moved
  <2>2. UNCHANGED <<revoked, status>> /\ excused \subseteq excused' /\ request[w].pc # "mark"
    BY <1>21, ExcusesMore DEF GetCertBySerial
  <2>3. AsksWell(w)'
    BY <1>21, <2>2, GetCertBySerialMoves DEF AsksWell, Moved, Writing, Revoking, Known, GetCertBySerial, ShownInv
  <2> QED
    BY <2>1, <2>2, <2>3, ShownKept
<1>22. ASSUME NEW w \in Workers, InsertCert(w)
      PROVE  ShownInv'
  <2> DEFINE r == request[w]
  <2>1. /\ r.pc = "insert" /\ UNCHANGED revoked /\ status' = [status EXCEPT ![r.row] = "active"]
        /\ Excuse({"status"}, IF Revives(r) THEN {r.row} ELSE {})
    BY <1>22 DEF InsertCert
  <2>2. Moved(w, "idle", "revoke", 0, 0)
    BY <1>22, RecordMoves
  <2>3. excused \subseteq excused'
    BY <2>1, ExcusesMore
  <2>4. \A s \in Serials : Known(s) => Known(s)'
    BY <2>1 DEF Known, TypeOK
  <2>5. \A v \in Workers : request[v].row \in Serials
    BY DEF TypeOK, Request
  <2>6. ASSUME NEW v \in Workers PROVE AsksWell(v)'
    <3>1. CASE v = w
      BY <2>2, <3>1 DEF Moved, AsksWell, Writing, Revoking
    <3>2. CASE v # w
      <4>1. request'[v] = request[v] /\ AsksWell(v)
        BY <2>2, <3>2 DEF Moved, ShownInv
      <4>2. PICK s \in Serials : s = request[v].row
        BY <2>5
      <4> QED
        BY <2>4, <4>1, <4>2 DEF AsksWell, Known
    <3> QED
      BY <3>1, <3>2
  <2>7. ASSUME NEW s \in revoked, <<"status", s>> \notin excused' PROVE Shown(s)'
    <3>1. Shown(s) /\ s \in Certs /\ s \in Serials
      BY <2>3, <2>7, RevokedAreCerts DEF ShownInv, Certs, Serials
    <3>2. Known(s)'
      BY <2>4, <3>1 DEF Shown
    <3>3. CASE \E v \in Workers : request[v].pc = "mark" /\ request[v].row = s
      <4>1. PICK v \in Workers : request[v].pc = "mark" /\ request[v].row = s
        BY <3>3
      <4>2. request'[v] = request[v]
        BY <2>1, <2>2, <4>1 DEF Moved
      <4> QED
        BY <3>2, <4>1, <4>2 DEF Shown
    <3>4. CASE status[s] = "revoked"
      <4>1. ~(Revives(r) /\ s = r.row)
        <5> SUFFICES ASSUME Revives(r), s = r.row PROVE FALSE
          OBVIOUS
        <5>1. Excuse({"status"}, {r.row})
          BY <2>1
        <5> QED
          BY <2>7, <3>1, <5>1, Excuses
      <4>2. s # r.row
        BY <2>1, <3>1, <3>4, <4>1 DEF Revives, ShownInv, AsksWell
      <4>3. status'[s] = "revoked"
        BY <2>1, <3>1, <3>4, <4>2 DEF TypeOK
      <4> QED
        BY <3>2, <4>3 DEF Shown
    <3> QED
      BY <3>1, <3>3, <3>4 DEF Shown
  <2> QED
    BY <2>1, <2>6, <2>7 DEF ShownInv
<1>23. ASSUME NEW w \in Workers, RevokeAtCA(w)
      PROVE  ShownInv'
  <2> DEFINE c == request[w].cert
  <2>1. /\ request[w].pc = "revoke" /\ c \in ours /\ revoked' = revoked \cup {c} /\ UNCHANGED status
        /\ excused \subseteq excused'
    BY <1>23, ExcusesMore DEF RevokeAtCA
  <2>2. \A v \in Workers \ {w} : request'[v] = request[v]
    BY <1>23, RevokeAtCAMoves DEF Moved
  <2>3. \A v \in Workers : AsksWell(v)'
    BY <1>23, <2>1, <2>2, RevokeAtCAMoves DEF ShownInv, AsksWell, Moved, Known, Revoking, Writing
  <2>4. ASSUME NEW s \in revoked', <<"status", s>> \notin excused' PROVE Shown(s)'
    <3>1. CASE s = c
      <4>0. s \in Certs
        BY RevokedAreCerts, <2>1, <3>1
      <4>1. ~Excuse({"status"}, {c}) /\ (Excuse({"status"}, {c} \ {request[w].row}) => s = request[w].row)
        BY <2>4, <3>1, <4>0, Excuses
      <4>2. s = request[w].row /\ Moved(w, "mark", request[w].kind, request[w].row, request[w].cert)
        BY <1>23, <4>1, RevokeAtCAMoves
      <4>3. Known(s)'
        BY <2>1, <4>2 DEF ShownInv, AsksWell, Revoking, Known
      <4> QED
        BY <4>2, <4>3 DEF Shown, Moved
    <3>2. CASE s # c
      <4>1. Shown(s)
        BY <2>1, <2>4, <3>2 DEF ShownInv
      <4>3. Known(s)'
        BY <2>1, <4>1 DEF Shown, Known
      <4>4. ASSUME NEW v \in Workers, request[v].pc = "mark", request[v].row = s PROVE Shown(s)'
        BY <2>1, <2>2, <4>3, <4>4 DEF Shown
      <4>5. CASE status[s] = "revoked"
        BY <2>1, <4>3, <4>5 DEF Shown
      <4> QED
        BY <4>1, <4>4, <4>5 DEF Shown
    <3> QED
      BY <3>1, <3>2
  <2> QED
    BY <2>3, <2>4 DEF ShownInv
<1>24. ASSUME NEW w \in Workers, UpdateCertStatus(w)
      PROVE  ShownInv'
  <2> DEFINE t == request[w].row
  <2>1. /\ request[w].pc = "mark" /\ UNCHANGED revoked
        /\ excused \subseteq excused'
        /\ \/ /\ status' = [status EXCEPT ![t] = "revoked"]
              /\ UNCHANGED excused
           \/ UNCHANGED status /\ Excuse({"status"}, {t})
    BY <1>24, ExcusesMore DEF UpdateCertStatus
  <2>2. Moved(w, "idle", "revoke", 0, 0)
    BY <1>24, RecordMoves
  <2>3. \A v \in Workers : request[v].row \in Serials
    BY DEF TypeOK, Request
  <2>4. \A s \in Serials : (Known(s) => Known(s)') /\ (s # t => status'[s] = status[s])
    <3>1. CASE UNCHANGED status
      BY <3>1 DEF Known
    <3>2. CASE status' = [status EXCEPT ![t] = "revoked"]
      BY <3>2 DEF Known, TypeOK
    <3> QED
      BY <2>1, <3>1, <3>2
  <2>5. ASSUME NEW v \in Workers PROVE AsksWell(v)'
    <3>1. CASE v = w
      BY <2>2, <3>1 DEF Moved, AsksWell, Writing, Revoking
    <3>2. CASE v # w
      <4>1. request'[v] = request[v] /\ AsksWell(v)
        BY <2>2, <3>2 DEF Moved, ShownInv
      <4>2. PICK s \in Serials : s = request[v].row
        BY <2>3
      <4> QED
        BY <2>4, <4>1, <4>2 DEF AsksWell, Known
    <3> QED
      BY <3>1, <3>2
  <2>6. ASSUME NEW s \in revoked, <<"status", s>> \notin excused' PROVE Shown(s)'
    <3>1. Shown(s) /\ s \in Certs /\ s \in Serials
      BY <2>1, <2>6, RevokedAreCerts DEF ShownInv, Certs, Serials
    <3>2. Known(s)'
      BY <2>4, <3>1 DEF Shown
    <3>3. CASE s = t
      <4>1. ~Excuse({"status"}, {t})
        BY <2>6, <3>1, <3>3, Excuses
      <4>2. status'[s] = "revoked"
        BY <2>1, <3>1, <3>3, <4>1 DEF TypeOK
      <4> QED
        BY <3>2, <4>2 DEF Shown
    <3>4. CASE s # t
      <4>1. status'[s] = status[s]
        BY <2>4, <3>1, <3>4
      <4>2. ASSUME NEW v \in Workers, request[v].pc = "mark", request[v].row = s PROVE Shown(s)'
        BY <2>2, <3>2, <3>4, <4>2 DEF Shown, Moved
      <4>3. CASE status[s] = "revoked"
        BY <3>2, <4>1, <4>3 DEF Shown
      <4> QED
        BY <3>1, <4>2, <4>3 DEF Shown
    <3> QED
      BY <3>3, <3>4
  <2> QED
    BY <2>1, <2>5, <2>6 DEF ShownInv
<1> QED
  BY <1>1, <1>2, <1>3, <1>4, <1>5, <1>6, <1>7, <1>8, <1>9, <1>10, <1>11, <1>12, <1>13,
     <1>14, <1>15, <1>16, <1>17, <1>18, <1>19, <1>20, <1>21, <1>22, <1>23, <1>24
     DEF Next, Issue, Write, Import, Record, RevokePost

-----------------------------------------------------------------------------
(* The promises *)

StoreInv == TypeOK /\ RowsInv /\ RecordedInv /\ ShownInv

\* StoreInv holds at first, is kept by every step, and implies the promises.
THEOREM StoreInvariant == Spec => []StoreInv
<1>1. Init => StoreInv
  <2> SUFFICES ASSUME Init PROVE StoreInv
    OBVIOUS
  <2> USE CertStoreAssumption
  <2>1. Idle \in Request
    BY DEF Idle, Request, Serials
  <2>2. TypeOK
    BY <2>1 DEF Init, TypeOK, Serials, File, Absent
  <2>3. RowsInv
    BY DEF Init, RowsInv, RevokedRowsAreRevoked, Known, RowOf, Idle, Revoking, Serials, Certs
  <2>4. RecordedInv
    BY DEF Init, RecordedInv, Promised, Absent, Certs
  <2>5. ShownInv
    BY DEF Init, ShownInv, AsksWell, Idle, Writing, Revoking
  <2> QED
    BY <2>2, <2>3, <2>4, <2>5 DEF StoreInv
<1>2. StoreInv /\ [Next]_vars => StoreInv'
  BY TypePreserved, RowsPreserved, RecordedPreserved, ShownPreserved DEF StoreInv
<1> QED
  BY <1>1, <1>2, PTL DEF Spec

\* The state has its types: nothing is revoked that the CA has not signed.
THEOREM TypeCorrect == Spec => []TypeOK
<1>1. StoreInv => TypeOK
  BY DEF StoreInv
<1> QED
  BY <1>1, StoreInvariant, PTL

\* Revoke marks a row only after the CA has revoked the row's own certificate, or one
\* that has taken its place on file since: what it presents is what is on file.
THEOREM RevokedRowsTellTheTruth == Spec => []RevokedRowsAreRevoked
<1>1. StoreInv => RevokedRowsAreRevoked
  BY DEF StoreInv, RowsInv
<1> QED
  BY <1>1, StoreInvariant, PTL

\* issueCert and the imports leave nothing unrecorded, whoever overwrites whose file.
THEOREM AllIsRecorded == Spec => []SignedAndOnFileAreRecorded
<1>1. StoreInv => SignedAndOnFileAreRecorded
  <2> SUFFICES ASSUME RecordedInv, AtRest, NEW s \in (ours \cup ({crt} \cap Certs)) \ Excused("recorded"),
                      TypeOK
               PROVE  Known(s)
    BY DEF StoreInv, SignedAndOnFileAreRecorded
  <2>1. s \in Certs /\ Promised(s)
    BY RevokedAreCerts DEF Excused, Promised
  <2>2. \A w \in Workers : ~InHand(w, s)
    BY DEF AtRest, InHand
  <2> QED
    BY <2>1, <2>2 DEF RecordedInv
<1> QED
  BY <1>1, StoreInvariant, PTL

\* What Revoke has had revoked is marked, and stays so when a scan finds its row
\* there.  Not promised is it of what was revoked by way of another row, unanswered,
\* unwritten or cut off, nor of a row that is recorded once more by a request that
\* did not ask the table, or asked it in vain.
THEOREM RevokedRowsShown == Spec => []RevokedIsShown
<1>1. StoreInv => RevokedIsShown
  <2> SUFFICES ASSUME ShownInv, AtRest, NEW s \in revoked \ Excused("status"), TypeOK
               PROVE  status[s] = "revoked"
    BY DEF StoreInv, RevokedIsShown
  <2>1. Shown(s)
    BY RevokedAreCerts DEF ShownInv, Excused
  <2> QED
    BY <2>1 DEF AtRest, Shown
<1> QED
  BY <1>1, StoreInvariant, PTL
===============================================================================
