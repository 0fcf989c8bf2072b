------------------------------- MODULE Backup -------------------------------
(***************************************************************************)
(* The backup bundle, taken while certificates go on being saved.          *)
(*                                                                         *)
(* The bundle holds a dump of the tables and an archive of each of four    *)
(* directories, taken one after the other, with no lock against the        *)
(* handlers and the renewer, which write the certificate, the key and the  *)
(* row one after the other.  A part that fails is left out with a warning  *)
(* in the manifest, and the others go on.  The program never deletes a     *)
(* certificate file; it truncates and overwrites them.                     *)
(*                                                                         *)
(* A file is its version and whether it is cut short at the moment; the    *)
(* size that is copied is compared with the one in the header.  Another    *)
(* backup at the same time works in a temporary directory of its own.      *)
(*                                                                         *)
(* A definition that stands right before another one with its parameters   *)
(* and is not used is a plausible bug of the code.                         *)
(***************************************************************************)
EXTENDS Integers, Sequences, FiniteSets

CONSTANTS
  Names,      \* certificates, each with its two files and its row
  Dirs,       \* the directories that are archived, in their order
  DirOf,      \* the directory of each certificate
  MaxVersion  \* bound on the saves of one certificate

\* Each directory has a part of the bundle of its own.
BackupOK ==
  /\ IsFiniteSet(Names) /\ MaxVersion \in Nat
  /\ Dirs \in Seq({Dirs[i] : i \in DOMAIN Dirs})
  /\ \A i, j \in DOMAIN Dirs : Dirs[i] = Dirs[j] => i = j
  /\ \A i \in DOMAIN Dirs : Dirs[i] # "dump"
  /\ DirOf \in [Names -> {Dirs[i] : i \in DOMAIN Dirs}]

VARIABLES
  file,       \* the files on disk
  row,        \* the version each row tells of, 0: no row
  save,       \* how far a save of each certificate has come
  bundle,     \* what the request for a backup has put together
  left,       \* a temporary directory stayed behind
  half        \* history: certificates whose last save came only half way

vars == <<file, row, save, bundle, left, half>>

-----------------------------------------------------------------------------
(* Types *)

Pair == {"crt", "key"}
File == [v : Nat, cut : BOOLEAN]
Absent == [v |-> 0, cut |-> FALSE]
Files == [Names -> [Pair -> File]]

Entries == Names \X Pair
DirSet == {Dirs[i] : i \in DOMAIN Dirs}
Parts == DirSet \cup {"dump"}

\* `parts' is what is still to come, `todo' the entries of the directory that
\* is being walked, `found' all that were found so far; `size' is what the header of the
\* current one says, `short' that fewer bytes than that followed.  The manifest
\* has the `listed' with their checksum, the `faulty' with the status "error", and
\* the `warned' in its warnings; `swallowed' is what an error nobody looks at has
\* cut short or kept out of the bundle, the manifest included.
Bundle == [at : {"part", "entry", "copy", "manifest", "serve"},
           parts : Seq(Parts), todo : Seq(Entries), found : SUBSET Entries,
           size : {0, 1}, short : BOOLEAN,
           dumped : [Names -> Nat], archived : Files,
           listed : SUBSET Parts, warned : SUBSET Parts, faulty : SUBSET Parts,
           swallowed : SUBSET (Parts \cup {"manifest"}),
           disturbed : SUBSET Names]
None == [at |-> "none"]

\* The steps of a save: what is written next.
Stages == {"idle", "crt", "openkey", "key", "row"}

TypeOK ==
  /\ file \in Files /\ row \in [Names -> Nat] /\ save \in [Names -> Stages]
  /\ bundle \in Bundle \cup {None}
  /\ left \in BOOLEAN /\ half \subseteq Names

-----------------------------------------------------------------------------
(* Saving a certificate, as issueCert, the renewals and lego do it *)

Size(f) == IF f.cut THEN 0 ELSE 1

\* os.WriteFile truncates and then writes.
Open(n, p, v) == file' = [file EXCEPT ![n][p] = [v |-> v, cut |-> TRUE]]
Write(n, p) == file' = [file EXCEPT ![n][p].cut = FALSE]

NewVersion(n) == file[n]["crt"].v + 1

SaveBegins(n) ==
  /\ save[n] = "idle" /\ NewVersion(n) <= MaxVersion
  /\ Open(n, "crt", NewVersion(n))
  /\ save' = [save EXCEPT ![n] = "crt"]
  /\ UNCHANGED <<row, bundle, left, half>>

SaveStep(n) ==
  LET v == file[n]["crt"].v IN
  /\ \/ save[n] = "crt" /\ Write(n, "crt") /\ save' = [save EXCEPT ![n] = "openkey"]
     \/ save[n] = "openkey" /\ Open(n, "key", v) /\ save' = [save EXCEPT ![n] = "key"]
     \/ save[n] = "key" /\ Write(n, "key") /\ save' = [save EXCEPT ![n] = "row"]
  /\ UNCHANGED <<row, bundle, left, half>>

\* The row comes last, and its statement may fail.
SaveRow(n) ==
  /\ save[n] = "row"
  /\ save' = [save EXCEPT ![n] = "idle"]
  /\ row' \in {row, [row EXCEPT ![n] = file[n]["crt"].v]}
  /\ half' = half \ {n}
  /\ UNCHANGED <<file, bundle, left>>

SaveFails(n) ==
  /\ save[n] \in {"crt", "openkey", "key"}
  /\ save' = [save EXCEPT ![n] = "idle"]
  /\ half' = half \cup {n}
  /\ UNCHANGED <<file, row, bundle, left>>

-----------------------------------------------------------------------------
(* buildBackupBundle *)

FilesFirst == Dirs \o <<"dump">>
DumpFirst == <<"dump">> \o Dirs

\* MkdirTemp, or nothing.
AdminBackupDownload ==
  /\ bundle = None
  /\ bundle' = [at |-> "part", parts |-> DumpFirst, todo |-> <<>>, found |-> {},
                size |-> 0, short |-> FALSE,
                dumped |-> [n \in Names |-> 0],
                archived |-> [n \in Names |-> [p \in Pair |-> Absent]],
                listed |-> {}, warned |-> {}, faulty |-> {}, swallowed |-> {},
                disturbed |-> {}]
  /\ UNCHANGED <<file, row, save, left, half>>

At(a) == bundle # None /\ bundle.at = a
Part == Head(bundle.parts)

\* The loop goes on with the next part, and with the manifest after the last.
Onward(b) ==
  [b EXCEPT !.parts = Tail(@), !.at = IF Len(b.parts) = 1 THEN "manifest" ELSE "part",
            !.todo = <<>>, !.size = 0, !.short = FALSE]

PartFailsQuietly(b) == Onward(b)
PartFails(b) == Onward([b EXCEPT !.warned = @ \cup {Head(b.parts)}])

\* addFile: with a file that cannot be read back for its checksum the part is in
\* the manifest as an error, and warned about.
PartUnread(b) == PartFails([b EXCEPT !.faulty = @ \cup {Head(b.parts)}])
PartListed(b) == Onward([b EXCEPT !.listed = @ \cup {Head(b.parts)}])

\* writePGDump: one snapshot of the tables.  It fails without a result, or with
\* part of one, which the bundle contains and the manifest does not list.
WritePGDump ==
  /\ At("part") /\ Part = "dump"
  /\ bundle' \in {PartFails(bundle), PartUnread(bundle),
                  PartListed([bundle EXCEPT !.dumped = row])}
  /\ UNCHANGED <<file, row, save, left, half>>

\* The files a walk finds, the certificate of a name before its key.
Walk(S) == CHOOSE s \in [1..Cardinality(S) -> S] :
  /\ {s[i] : i \in DOMAIN s} = S
  /\ \A i, j \in DOMAIN s : s[i][1] = s[j][1] /\ s[i][2] = "crt" /\ s[j][2] = "key" => i < j

\* writeDirTGZ: Stat and the directory read by WalkDir.
OpenDir ==
  /\ At("part") /\ Part # "dump"
  /\ LET there == {e \in Entries : DirOf[e[1]] = Part /\ file[e[1]][e[2]] # Absent}
     IN bundle' \in {PartFails(bundle),
                     [bundle EXCEPT !.at = "entry", !.todo = Walk(there),
                                    !.found = @ \cup there]}
  /\ UNCHANGED <<file, row, save, left, half>>

\* What is on disk of a certificate is not what its row tells of.
Unsettled(n) == save[n] # "idle" \/ n \in half
Noting(b, n) == IF Unsettled(n) THEN [b EXCEPT !.disturbed = @ \cup {n}] ELSE b

\* d.Info and WriteHeader, which also finds out that the last entry was short.
WriteHeader ==
  /\ At("entry") /\ bundle.todo # <<>>
  /\ LET e == Head(bundle.todo)
     IN bundle' \in {PartFails(bundle)} \cup
          (IF bundle.short THEN {}
           ELSE {Noting([bundle EXCEPT !.at = "copy", !.size = Size(file[e[1]][e[2]])], e[1])})
  /\ UNCHANGED <<file, row, save, left, half>>

\* io.Copy: more bytes than the header says are an error, fewer are not yet.
CopyEntry ==
  /\ At("copy")
  /\ LET e == Head(bundle.todo)
         f == file[e[1]][e[2]]
         b == Noting([bundle EXCEPT !.at = "entry", !.todo = Tail(@),
                        !.archived[e[1]][e[2]] = f, !.short = Size(f) < bundle.size], e[1])
     IN bundle' \in {PartFails(bundle)} \cup (IF Size(f) > bundle.size THEN {} ELSE {b})
  /\ UNCHANGED <<file, row, save, left, half>>

\* The archive is closed by the deferred calls, whose errors nobody sees: that
\* the last entry was short, or that the rest did not fit on the disk.  The
\* checksum is that of what is there.
CloseDir ==
  /\ At("entry") /\ bundle.todo = <<>>
  /\ \E lost \in BOOLEAN :
       /\ bundle.short => lost
       /\ bundle' \in {PartUnread(bundle),
            PartListed([bundle EXCEPT !.swallowed = IF lost THEN @ \cup {Part} ELSE @])}
  /\ UNCHANGED <<file, row, save, left, half>>

\* What the manifest lists with a checksum and no ignored error has spoilt.
Sound == bundle.listed \ bundle.swallowed

\* writeManifest and writeBundleTGZ: an error of either gives up, and leaves the
\* temporary directory behind; but a file that Stat does not find is passed over,
\* and nobody looks at what the Close of a file, of the archive or of the
\* compression says.
WriteBundle ==
  /\ At("manifest")
  /\ \/ /\ \E lost \in SUBSET (Sound \cup {"manifest"}) :
             bundle' = [bundle EXCEPT !.at = "serve", !.swallowed = @ \cup lost]
        /\ UNCHANGED left
     \/ bundle' = None /\ left' = TRUE
  /\ UNCHANGED <<file, row, save, half>>

\* http.ServeFile, whether or not it arrives, and the deferred RemoveAll.
ServeFile ==
  /\ At("serve")
  /\ bundle' = None
  /\ UNCHANGED <<file, row, save, left, half>>

Crash ==
  /\ bundle # None \/ \E n \in Names : save[n] # "idle"
  /\ bundle' = None
  /\ left' = (left \/ bundle # None)
  /\ save' = [n \in Names |-> "idle"]
  /\ half' = half \cup {n \in Names : save[n] \in {"crt", "openkey", "key"}}
  /\ UNCHANGED <<file, row>>

-----------------------------------------------------------------------------
(* The specification *)

Init ==
  /\ file = [n \in Names |-> [p \in Pair |-> Absent]]
  /\ row = [n \in Names |-> 0] /\ save = [n \in Names |-> "idle"]
  /\ bundle = None /\ left = FALSE /\ half = {}

Save(n) == SaveBegins(n) \/ SaveStep(n) \/ SaveRow(n) \/ SaveFails(n)

Build == WritePGDump \/ OpenDir \/ WriteHeader \/ CopyEntry \/ CloseDir \/ WriteBundle

Next ==
  \/ \E n \in Names : Save(n)
  \/ AdminBackupDownload \/ Build \/ ServeFile
  \/ Crash

Spec == Init /\ [][Next]_vars

-----------------------------------------------------------------------------
(* Properties *)

\* A restored table finds its files: every row in a sound dump has a certificate
\* and a key in the archives that are sound, whole and no older than the row
\* tells, unless they were being saved, or half saved, while they were copied (the
\* dump comes first, and a save writes its row last).
RowsHaveFiles ==
  At("serve") /\ "dump" \in Sound =>
    \A n \in Names :
      bundle.dumped[n] > 0 /\ DirOf[n] \in Sound /\ n \notin bundle.disturbed =>
        \A p \in Pair : /\ bundle.archived[n][p].v >= bundle.dumped[n]
                        /\ ~bundle.archived[n][p].cut

\* What is missing from a bundle is missing with a warning, as far as the program
\* looks at its errors.  If the manifest came in, it has every part, either with a
\* checksum or with a warning, and a warning for every part with the status
\* "error"; and the archive of a directory with a checksum holds every file that
\* was found there, whole unless it was being saved.  Not promised is this of an
\* archive that an ignored error of Close has cut short, and not of one that
\* writeBundleTGZ has passed over because Stat failed: those are missing untold
\* (addFile, the warnings of buildBackupBundle).
NothingMissingUntold ==
  At("serve") /\ "manifest" \notin bundle.swallowed =>
    /\ Parts = bundle.listed \cup bundle.warned /\ bundle.listed \cap bundle.warned = {}
    /\ bundle.faulty \subseteq bundle.warned
    /\ \A e \in bundle.found : DirOf[e[1]] \in Sound =>
         /\ bundle.archived[e[1]][e[2]] # Absent
         /\ bundle.archived[e[1]][e[2]].cut => e[1] \in bundle.disturbed

\* The inductive invariant.  A file that is cut is being written, or was left
\* half way, and no row tells of a version that its files have not.
SaveInv ==
  \A n \in Names :
    /\ \A p \in Pair : /\ file[n][p].v = 0 => ~file[n][p].cut
                       /\ file[n][p].v >= row[n]
    /\ file[n]["key"].v <= file[n]["crt"].v
    /\ save[n] # "idle" => file[n]["crt"].v > 0
    /\ save[n] \in {"key", "row"} => file[n]["key"].v = file[n]["crt"].v
    /\ file[n]["crt"].cut => save[n] = "crt" \/ (save[n] = "idle" /\ n \in half)
    /\ file[n]["key"].cut =>
         save[n] = "key" \/ (save[n] \in {"idle", "crt", "openkey"} /\ n \in half)

\* Every part is still to come, listed or warned about, an error among the latter,
\* the dump comes first, and only directories are walked.
Remaining(b) == {b.parts[i] : i \in DOMAIN b.parts}
Walked(b) == IF b.at \in {"entry", "copy"} THEN {Head(b.parts)} ELSE {}

PartsInv(b) ==
  /\ \A i, j \in DOMAIN b.parts : b.parts[i] = b.parts[j] => i = j
  /\ Remaining(b) \cup b.listed \cup b.warned = Parts
  /\ Remaining(b) \cap (b.listed \cup b.warned) = {} /\ b.listed \cap b.warned = {}
  /\ b.faulty \subseteq b.warned
  /\ b.parts = <<>> <=> b.at \in {"manifest", "serve"}
  /\ "dump" \in Remaining(b) => Remaining(b) = Parts /\ Head(b.parts) = "dump"
  /\ Walked(b) \subseteq DirSet /\ (b.at = "copy" => b.todo # <<>>)

\* What is found is on disk, and has been copied unless it is still to come or
\* its archive is not sound.
Copied(b, e) ==
  LET f == b.archived[e[1]][e[2]] IN
  f.v > 0 /\ f.v >= b.dumped[e[1]] /\ (f.cut => e[1] \in b.disturbed)

FoundInv(b) ==
  \A e \in b.found :
    /\ DirOf[e[1]] \in b.listed \cup b.warned \cup Walked(b)
    /\ file[e[1]][e[2]].v > 0
    /\ (\/ DirOf[e[1]] \in b.listed \ b.swallowed
        \/ DirOf[e[1]] \in Walked(b) /\ \A i \in DOMAIN b.todo : b.todo[i] # e) => Copied(b, e)

\* What a row of the dump tells of is on disk, and is found by the walk.
DumpInv(b) ==
  \A n \in Names :
    /\ "dump" \notin b.listed => b.dumped[n] = 0
    /\ \A p \in Pair :
         /\ file[n][p].v >= b.dumped[n]
         /\ b.dumped[n] > 0 /\ DirOf[n] \in b.listed \cup Walked(b) => <<n, p>> \in b.found

BundleInv == bundle # None => PartsInv(bundle) /\ FoundInv(bundle) /\ DumpInv(bundle)
=============================================================================
