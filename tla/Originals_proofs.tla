-------------------------- MODULE Originals_proofs --------------------------
(***************************************************************************)
(* Proofs about the original files (module Originals): for any number of   *)
(* uploads, documents, transfers and blobs, rows and files agree, nothing  *)
(* that was saved is replaced, the same bytes are live once, and what      *)
(* backup, clear_library, reconcile and restore return is true.            *)
(***************************************************************************)
EXTENDS Originals, TLAPS

-----------------------------------------------------------------------------
(* The invariant, by the part of the state it is about.                    *)

(* The gate is closed as long as the connection that holds it lives, and   *)
(* no writing transaction is open while it is.                             *)
GateInv ==
    /\ paused <=> guarded
    /\ paused => deleting = {} /\ \A r \in Requests : target[r] = Nothing

(* A transfer that renamed its file holds the lock of its upload's row; no *)
(* row and no other transfer has the file.                                 *)
HoldsItsFile(r) ==
    /\ stored[r] \in root /\ bytes[stored[r]] # Nothing
    /\ upload[target[r]] = "pending"
    /\ declared[target[r]] \in {bytes[stored[r]], Nothing}
    /\ \A q \in Requests \ {r} : target[q] # target[r] /\ stored[q] # stored[r]
    /\ \A u \in Uploads : blob_key[u] # stored[r]

TransferInv ==
    \A r \in Requests : IF target[r] = Nothing THEN stored[r] = Nothing ELSE HoldsItsFile(r)

(* What the rows of an upload say about each other and about the file.     *)
RowsFit(u) ==
    /\ blob_key[u] # Nothing <=> upload[u] \in {"complete", "submitted"}
    /\ version[u] # "none" <=> upload[u] = "submitted"
    /\ blob_key[u] # Nothing =>
          /\ sha256[u] # Nothing /\ sha256[u] = bytes[blob_key[u]]
          /\ declared[u] \in {sha256[u], Nothing}
          /\ \A w \in Uploads \ {u} : blob_key[w] # blob_key[u]

RowInv == \A u \in Uploads : RowsFit(u)

(* Where the file is: a deletion that is under way may have moved it, one  *)
(* that was torn may have lost it.                                         *)
InPlace(u) ==
    blob_key[u] # Nothing /\ version[u] # "deleted" /\ ~(upload[u] = "submitted" /\ DocumentOf[u] \in torn)
        => \/ blob_key[u] \in root \cup retired
           \/ upload[u] = "submitted" /\ blob_key[u] \in moved[DocumentOf[u]]

PlaceInv == \A u \in Uploads : InPlace(u)

DeletionInv ==
    \A d \in Documents :
        /\ moved[d] # {} => d \in deleting
        /\ \A b \in moved[d] : \E u \in Uploads : blob_key[u] = b /\ DocumentOf[u] = d

LibraryInv == RowInv /\ TransferInv /\ PlaceInv /\ DeletionInv /\ QuarantineIsRemoved

(* What the running backup and the running clearing have done so far.  As  *)
(* long as the gate was held, it is what the rows still say.               *)
BackupInv ==
    /\ backup = "off" => listed = {}
    /\ backup # "off" => clearing # "moving" /\ ~archive.complete
    /\ backup = "list" => listed = {} /\ archive.blobs = {}
    /\ backup = "copy" => /\ archive.manifest = archive.blobs \cup listed
                          /\ guarded => archive.manifest = References(Rows)
    /\ backup = "finish" => /\ listed = {} /\ archive.manifest = archive.blobs
                            /\ guarded => archive.manifest = References(archive.rows)

ClearInv ==
    /\ clearing # "moving" => retired = {}
    /\ clearing = "same" /\ (archive.complete \/ backup = "finish") => archive.rows = Rows
    /\ clearing = "moving" => archive.complete /\ (guarded => archive.rows = Rows)

ArchiveInv == BackupInv /\ ClearInv /\ ArchiveIsWhole

(* What the running reconcile found so far.                                *)
Broken(items) == {item \in items : ~Intact(item)}

ReportInv ==
    /\ inventory \notin {"off", "told"} => backup = "off" /\ clearing = "off"
    /\ inventory = "list" => report.broken = {}
    /\ inventory = "check" /\ guarded =>
          /\ report.referenced = References(Rows) /\ due \subseteq report.referenced
          /\ report.broken = Broken(report.referenced \ due)
    /\ inventory = "tell" /\ guarded =>
          /\ report.broken = Broken(References(Rows))
          /\ report.unreferenced = root \ {item.path : item \in References(Rows)}
    /\ ReportIsTrue

(* What the running restore did so far.                                    *)
RestoreInv ==
    /\ recovery \in {"off", "copy", "write"} => restored.bad = {}
    /\ recovery = "write" => copying \notin restored.sound
    /\ recovery = "verify" /\ copying \in restored.sound => restored.bad = {}
    /\ RestoredIsWhole

(* The records keep their fields.                                          *)
ArchiveShape ==
    archive = [complete |-> archive.complete, manifest |-> archive.manifest,
               blobs |-> archive.blobs, rows |-> archive.rows]
ReportShape ==
    report = [referenced |-> report.referenced, broken |-> report.broken,
              unreferenced |-> report.unreferenced]
RestoredShape == restored = [sound |-> restored.sound, bad |-> restored.bad]

LEMMA ListedOriginals ==
    ASSUME StorageTypes, RowInv
    PROVE  /\ References(Rows) \subseteq Originals
           /\ \A u \in Referring(Rows) : blob_key[u] \in Blobs /\ sha256[u] \in Contents
<1>1. ASSUME NEW u \in Uploads, upload[u] \in {"complete", "submitted"}
      PROVE  blob_key[u] \in Blobs /\ sha256[u] \in Contents
  BY <1>1 DEF StorageTypes, RowInv, RowsFit
<1>2. \A u \in Referring(Rows) : u \in Uploads /\ upload[u] \in {"complete", "submitted"}
  BY DEF Referring, Rows
<1>3. ASSUME NEW item \in References(Rows) PROVE item \in Originals
  <2>1. PICK u \in Referring(Rows) : item = [path |-> Rows.blob_key[u], sha256 |-> Rows.sha256[u]]
    BY DEF References
  <2>2. Rows.blob_key[u] \in Blobs /\ Rows.sha256[u] \in Contents
    BY <1>1, <1>2, <2>1 DEF Rows
  <2> QED
    BY <2>1, <2>2 DEF Originals
<1> QED
  BY <1>1, <1>2, <1>3

(* Requests and deletions that run, and the gate.                          *)
LEMMA StorageTypesStep ==
    ASSUME StorageTypes, TransferInv, StorageNext
    PROVE  StorageTypes'
<1> USE StorageAssumption DEF StorageTypes, rowVars, fileVars, putVars, delVars
<1>1. ASSUME NEW u \in Uploads, NEW c \in Contents \cup {Nothing}, Prepare(u, c)
      PROVE  StorageTypes'
  BY <1>1 DEF Prepare, UploadStates
<1>2. ASSUME NEW u \in Uploads, Submit(u) PROVE StorageTypes'
  BY <1>2 DEF Submit, UploadStates, VersionStates, Present
<1>3. ASSUME NEW u \in Uploads, Publish(u) \/ Reject(u) \/ Withdraw(u) \/ Restore(u)
      PROVE  StorageTypes'
  BY <1>3 DEF Publish, Reject, Withdraw, Restore, Review, VersionStates, Present
<1>4. ASSUME NEW r \in Requests, NEW u \in Uploads, NEW c \in Contents, NEW b \in Blobs,
             Rename(r, u, c, b)
      PROVE  StorageTypes'
  BY <1>4 DEF Rename
<1>5. ASSUME NEW r \in Requests, CommitUpload(r) PROVE StorageTypes'
  <2>1. target[r] \in Uploads /\ stored[r] \in Blobs
    BY <1>5 DEF CommitUpload, Settle, TransferInv, HoldsItsFile
  <2> QED
    BY <1>5, <2>1 DEF CommitUpload, Settle, UploadStates
<1>6. ASSUME NEW r \in Requests, LoseUpload(r) PROVE StorageTypes'
  BY <1>6 DEF LoseUpload, Settle
<1>7. ASSUME NEW d \in Documents, NEW b \in Blobs, MoveAway(d, b) PROVE StorageTypes'
  BY <1>7 DEF MoveAway
<1>8. ASSUME NEW d \in Documents, BeginDelete(d) \/ LoseDelete(d) PROVE StorageTypes'
  BY <1>8 DEF BeginDelete, LoseDelete
<1>9. ASSUME NEW d \in Documents, CommitDelete(d) PROVE StorageTypes'
  <2>1. version' \in [Uploads -> VersionStates]
    BY <1>9 DEF CommitDelete, VersionStates
  <2>2. traced' \subseteq Blobs /\ audited' \subseteq Documents
    BY <1>9 DEF CommitDelete, Trail
  <2> QED
    BY <1>9, <2>1, <2>2 DEF CommitDelete
<1>10. ASSUME NEW expired \in SUBSET quarantine, PurgeQuarantine(expired) PROVE StorageTypes'
  BY <1>10 DEF PurgeQuarantine
<1> QED
  BY <1>1, <1>2, <1>3, <1>4, <1>5, <1>6, <1>7, <1>8, <1>9, <1>10 DEF StorageNext

-----------------------------------------------------------------------------
(* Which actions leave what alone.                                         *)
LEMMA GateHolds ==
    ASSUME GateInv, paused, StorageNext
    PROVE  UNCHANGED <<rowVars, root, bytes, putVars, delVars, paused>>
<1> USE DEF GateInv, putVars, delVars, fileVars
<1>1. ASSUME NEW u \in Uploads, NEW c \in Contents \cup {Nothing}, Prepare(u, c) PROVE FALSE
  BY <1>1 DEF Prepare
<1>2. ASSUME NEW u \in Uploads,
             Submit(u) \/ Publish(u) \/ Reject(u) \/ Withdraw(u) \/ Restore(u)
      PROVE  FALSE
  BY <1>2 DEF Submit, Publish, Reject, Withdraw, Restore, Review
<1>3. ASSUME NEW r \in Requests, CommitUpload(r) \/ LoseUpload(r) PROVE FALSE
  BY <1>3 DEF CommitUpload, LoseUpload, Settle
<1>4. ASSUME NEW r \in Requests, NEW u \in Uploads, NEW c \in Contents, NEW b \in Blobs,
             Rename(r, u, c, b)
      PROVE  FALSE
  BY <1>4 DEF Rename
<1>5. ASSUME NEW d \in Documents, BeginDelete(d) \/ CommitDelete(d) \/ LoseDelete(d) PROVE FALSE
  BY <1>5 DEF BeginDelete, CommitDelete, LoseDelete
<1>6. ASSUME NEW d \in Documents, NEW b \in Blobs, MoveAway(d, b) PROVE FALSE
  BY <1>6 DEF MoveAway
<1>7. ASSUME NEW expired \in SUBSET quarantine, PurgeQuarantine(expired)
      PROVE  UNCHANGED <<rowVars, root, bytes, putVars, delVars, paused>>
  BY <1>7 DEF PurgeQuarantine
<1> QED
  BY <1>1, <1>2, <1>3, <1>4, <1>5, <1>6, <1>7 DEF StorageNext

LEMMA GateStays == StorageNext => UNCHANGED paused
BY DEF StorageNext, Prepare, Submit, Publish, Reject, Withdraw, Restore, Review, Rename, CommitUpload,
       LoseUpload, Settle, BeginDelete, CommitDelete, LoseDelete, MoveAway, PurgeQuarantine

LEMMA ArchiveFrame ==
    ArchiveNext => \/ UNCHANGED <<storageVars, retired>>
                   \/ MoveLibrary \/ CommitClear \/ AbandonClear
BY DEF ArchiveNext, BeginBackup, ListOriginals, Dump, Finish, FailBackup, LoseGuard, CopyOriginal,
       BeginClear

LEMMA RecoveryFrame ==
    ASSUME BackupInv, ReportInv, RecoveryNext
    PROVE  UNCHANGED <<storageVars, backup, listed, archive, clearing, retired>>
<1>1. ASSUME Tell \/ FailReconcile
      PROVE  backup' = "off" /\ listed' = {} /\ UNCHANGED <<storageVars, archive, clearing, retired>>
  BY <1>1 DEF Tell, FailReconcile, EndReconcile, Stop
<1>2. Tell \/ FailReconcile => backup = "off" /\ listed = {}
  BY DEF Tell, FailReconcile, BackupInv, ReportInv
<1>3. \/ Tell \/ FailReconcile
      \/ UNCHANGED <<storageVars, backup, listed, archive, clearing, retired>>
  BY DEF RecoveryNext, BeginReconcile, ListReferences, ScanFolder, CheckReference, BeginRestore,
         CopyBack, CheckCopy, FinishRestore, FailRestore, Damage, CheckSource, ReadsOnly, Beside,
         archiveVars
<1> QED
  BY <1>1, <1>2, <1>3

(* Only a step of the maintenance moves the gate.                          *)
LEMMA GateMoves ==
    ArchiveNext \/ RecoveryNext =>
        /\ UNCHANGED <<target, deleting>>
        /\ Pause \/ UNCHANGED <<paused, guarded>> \/ (paused' = FALSE /\ guarded' = FALSE)
<1> USE DEF storageVars, putVars, delVars, archiveVars
<1>1. ASSUME ArchiveNext
      PROVE  /\ UNCHANGED <<target, deleting>>
             /\ Pause \/ UNCHANGED <<paused, guarded>> \/ (paused' = FALSE /\ guarded' = FALSE)
  BY <1>1 DEF ArchiveNext, BeginBackup, ListOriginals, Dump, Finish, FailBackup, LoseGuard,
              CopyOriginal, BeginClear, MoveLibrary, CommitClear, AbandonClear, Stop
<1>2. ASSUME RecoveryNext
      PROVE  /\ UNCHANGED <<target, deleting>>
             /\ Pause \/ UNCHANGED <<paused, guarded>> \/ (paused' = FALSE /\ guarded' = FALSE)
  BY <1>2 DEF RecoveryNext, BeginReconcile, ListReferences, ScanFolder, CheckReference, BeginRestore,
              CopyBack, CheckCopy, FinishRestore, FailRestore, Damage, CheckSource, ReadsOnly, Beside,
              Tell, FailReconcile, EndReconcile, Stop
<1> QED
  BY <1>1, <1>2

LEMMA GateStep ==
    ASSUME GateInv, [Next]_vars
    PROVE  GateInv'
<1> USE DEF GateInv
<1>1. CASE StorageNext /\ Notice
  <2>1. UNCHANGED <<paused, guarded>>
    BY <1>1, GateStays DEF Notice
  <2> QED
    BY <1>1, <2>1, GateHolds DEF putVars, delVars
<1>2. CASE ArchiveNext \/ RecoveryNext
  <2>1. CASE Pause
    BY <1>2, <2>1, GateMoves DEF Pause, Writing
  <2> QED
    BY <1>2, <2>1, GateMoves
<1>3. CASE LoseGuard
  BY <1>3 DEF LoseGuard, storageVars, putVars, delVars
<1>4. CASE UNCHANGED vars
  BY <1>4 DEF vars, storageVars, putVars, delVars, archiveVars
<1> QED
  BY <1>1, <1>2, <1>3, <1>4 DEF Next

-----------------------------------------------------------------------------
(* Rows and files.                                                         *)
LEMMA UploadSteps ==
    ASSUME StorageTypes, LibraryInv, UNCHANGED retired, NEW r \in Requests,
           CommitUpload(r) \/ LoseUpload(r) \/
           (\E u \in Uploads, c \in Contents, b \in Blobs : Rename(r, u, c, b))
    PROVE  LibraryInv'
<1> USE StorageAssumption DEF StorageTypes, rowVars, fileVars, putVars, delVars
<1>a. /\ \A u \in Uploads : RowsFit(u) /\ InPlace(u)
      /\ \A q \in Requests : IF target[q] = Nothing THEN stored[q] = Nothing ELSE HoldsItsFile(q)
  BY DEF LibraryInv, RowInv, TransferInv, PlaceInv
<1>1. ASSUME NEW u \in Uploads, NEW c \in Contents, NEW b \in Blobs, Rename(r, u, c, b)
      PROVE  LibraryInv'
  <2>1. /\ \A w \in Uploads : blob_key[w] # b
        /\ \A q \in Requests : stored[q] # b
    BY <1>1, <1>a DEF Rename, RowsFit, HoldsItsFile
  <2>2. RowInv'
    BY <1>1, <1>a, <2>1 DEF Rename, RowInv, RowsFit
  <2>3. HoldsItsFile(r)'
    BY <1>1, <1>a, <2>1 DEF Rename, RowFree, StillPending, HoldsItsFile
  <2>4. ASSUME NEW q \in Requests \ {r}
        PROVE  IF target'[q] = Nothing THEN stored'[q] = Nothing ELSE HoldsItsFile(q)'
    BY <1>1, <1>a, <2>1, <2>4 DEF Rename, RowFree, HoldsItsFile
  <2>5. TransferInv'
    BY <1>1, <2>3, <2>4 DEF Rename, TransferInv
  <2>6. PlaceInv' /\ DeletionInv' /\ QuarantineIsRemoved'
    BY <1>1, <1>a DEF Rename, PlaceInv, InPlace, DeletionInv, QuarantineIsRemoved, LibraryInv
  <2> QED
    BY <2>2, <2>5, <2>6 DEF LibraryInv
<1>2. ASSUME CommitUpload(r) PROVE LibraryInv'
  <2>0. PICK u \in Uploads, b \in Blobs : u = target[r] /\ b = stored[r]
    BY <1>2, <1>a DEF CommitUpload, Settle, HoldsItsFile
  <2>1. /\ u \in Uploads /\ b \in root /\ b \in Blobs /\ bytes[b] # Nothing /\ upload[u] = "pending"
        /\ blob_key[u] = Nothing /\ version[u] = "none" /\ declared[u] \in {bytes[b], Nothing}
        /\ \A q \in Requests \ {r} : target[q] # u /\ stored[q] # b
        /\ \A w \in Uploads : blob_key[w] # b
    BY <1>2, <1>a, <2>0 DEF CommitUpload, Settle, HoldsItsFile, RowsFit
  <2>2. /\ upload' = [upload EXCEPT ![u] = "complete"] /\ sha256' = [sha256 EXCEPT ![u] = bytes[b]]
        /\ blob_key' = [blob_key EXCEPT ![u] = b]
        /\ stored' = [stored EXCEPT ![r] = Nothing] /\ target' = [target EXCEPT ![r] = Nothing]
        /\ UNCHANGED <<declared, version, traced, fileVars, delVars>>
    BY <1>2, <2>0 DEF CommitUpload, Settle
  <2>3. RowInv'
    <3>1. ASSUME NEW w \in Uploads, w # u PROVE RowsFit(w)'
      BY <1>a, <2>1, <2>2, <3>1 DEF RowsFit
    <3>2. RowsFit(u)'
      BY <2>1, <2>2 DEF RowsFit
    <3> QED
      BY <3>1, <3>2 DEF RowInv
  <2>4. TransferInv'
    BY <1>a, <2>1, <2>2 DEF TransferInv, HoldsItsFile
  <2>5. PlaceInv'
    BY <1>a, <2>1, <2>2 DEF PlaceInv, InPlace
  <2>6. DeletionInv'
    BY <2>1, <2>2 DEF LibraryInv, DeletionInv
  <2>7. QuarantineIsRemoved'
    BY <2>1, <2>2 DEF LibraryInv, QuarantineIsRemoved
  <2> QED
    BY <2>3, <2>4, <2>5, <2>6, <2>7 DEF LibraryInv
<1>3. ASSUME LoseUpload(r) PROVE LibraryInv'
  <2>1. RowInv' /\ PlaceInv' /\ DeletionInv' /\ QuarantineIsRemoved'
    BY <1>3 DEF LoseUpload, Settle, LibraryInv, RowInv, RowsFit, PlaceInv, InPlace, DeletionInv,
                QuarantineIsRemoved
  <2>2. TransferInv'
    BY <1>3, <1>a DEF LoseUpload, Settle, TransferInv, HoldsItsFile
  <2> QED
    BY <2>1, <2>2 DEF LibraryInv
<1> QED
  BY <1>1, <1>2, <1>3

LEMMA RowSteps ==
    ASSUME StorageTypes, LibraryInv, UNCHANGED retired, NEW u \in Uploads,
           (\E c \in Contents \cup {Nothing} : Prepare(u, c)) \/
           Submit(u) \/ Publish(u) \/ Reject(u) \/ Withdraw(u) \/ Restore(u)
    PROVE  LibraryInv'
<1> USE StorageAssumption DEF StorageTypes, rowVars, fileVars, putVars, delVars
<1>a. /\ \A w \in Uploads : RowsFit(w) /\ InPlace(w)
      /\ \A q \in Requests : IF target[q] = Nothing THEN stored[q] = Nothing ELSE HoldsItsFile(q)
  BY DEF LibraryInv, RowInv, TransferInv, PlaceInv
<1>b. DeletionInv /\ QuarantineIsRemoved
  BY DEF LibraryInv
<1>1. ASSUME NEW c \in Contents \cup {Nothing}, Prepare(u, c) PROVE LibraryInv'
  <2>1. RowInv' /\ TransferInv'
    BY <1>1, <1>a DEF Prepare, RowInv, RowsFit, TransferInv, HoldsItsFile
  <2>2. PlaceInv' /\ DeletionInv' /\ QuarantineIsRemoved'
    BY <1>1, <1>a, <1>b DEF Prepare, RowsFit, PlaceInv, InPlace, DeletionInv, QuarantineIsRemoved
  <2> QED
    BY <2>1, <2>2 DEF LibraryInv
<1>2. ASSUME Submit(u) PROVE LibraryInv'
  <2>1. RowInv' /\ TransferInv'
    BY <1>2, <1>a DEF Submit, RowInv, RowsFit, TransferInv, HoldsItsFile
  <2>2. PlaceInv' /\ DeletionInv' /\ QuarantineIsRemoved'
    BY <1>2, <1>a, <1>b DEF Submit, RowsFit, PlaceInv, InPlace, DeletionInv, QuarantineIsRemoved
  <2> QED
    BY <2>1, <2>2 DEF LibraryInv
<1>3. ASSUME Publish(u) \/ Reject(u) \/ Withdraw(u) \/ Restore(u) PROVE LibraryInv'
  <2>1. /\ version[u] \notin {"none", "deleted"}
        /\ \E after \in VersionStates \ {"none", "deleted"} : version' = [version EXCEPT ![u] = after]
        /\ UNCHANGED <<upload, declared, sha256, blob_key, traced, fileVars, putVars, delVars>>
    BY <1>3 DEF Publish, Reject, Withdraw, Restore, Review, VersionStates, Present
  <2>2. RowInv' /\ TransferInv'
    BY <2>1, <1>a DEF RowInv, RowsFit, TransferInv, HoldsItsFile
  <2>3. PlaceInv' /\ DeletionInv' /\ QuarantineIsRemoved'
    BY <2>1, <1>a, <1>b DEF PlaceInv, InPlace, DeletionInv, QuarantineIsRemoved
  <2> QED
    BY <2>2, <2>3 DEF LibraryInv
<1> QED
  BY <1>1, <1>2, <1>3

LEMMA DeleteSteps ==
    ASSUME StorageTypes, LibraryInv, UNCHANGED retired, NEW d \in Documents,
           BeginDelete(d) \/ CommitDelete(d) \/ LoseDelete(d) \/ (\E b \in Blobs : MoveAway(d, b))
    PROVE  LibraryInv'
<1> USE StorageAssumption DEF StorageTypes, rowVars, fileVars, putVars, delVars
<1>a. /\ \A w \in Uploads : RowsFit(w) /\ InPlace(w)
      /\ \A q \in Requests : IF target[q] = Nothing THEN stored[q] = Nothing ELSE HoldsItsFile(q)
  BY DEF LibraryInv, RowInv, TransferInv, PlaceInv
<1>b. DeletionInv /\ QuarantineIsRemoved
  BY DEF LibraryInv
<1>1. ASSUME BeginDelete(d) PROVE LibraryInv'
  <2>1. RowInv' /\ TransferInv'
    BY <1>1, <1>a DEF BeginDelete, RowInv, RowsFit, TransferInv, HoldsItsFile
  <2>2. PlaceInv' /\ DeletionInv' /\ QuarantineIsRemoved'
    BY <1>1, <1>a, <1>b DEF BeginDelete, PlaceInv, InPlace, DeletionInv, QuarantineIsRemoved
  <2> QED
    BY <2>1, <2>2 DEF LibraryInv
<1>2. ASSUME NEW b \in Blobs, MoveAway(d, b) PROVE LibraryInv'
  <2>1. PICK w \in Uploads : blob_key[w] = b /\ DocumentOf[w] = d /\ version[w] \notin {"none", "deleted"}
    BY <1>2 DEF MoveAway, BlobsOf, SubmittedTo
  <2>2. /\ d \in deleting /\ root' = root \ {b} /\ quarantine' = quarantine \cup {b}
        /\ moved' = [moved EXCEPT ![d] = moved[d] \cup {b}]
        /\ UNCHANGED <<rowVars, bytes, putVars, deleting, torn>>
    BY <1>2 DEF MoveAway
  <2>3. RowInv'
    BY <1>a, <2>2 DEF RowInv, RowsFit
  <2>4. TransferInv'
    BY <1>a, <2>1, <2>2 DEF TransferInv, HoldsItsFile
  <2>5. PlaceInv'
    <3>1. InPlace(w)'
      BY <1>a, <2>1, <2>2 DEF InPlace, RowsFit
    <3>2. ASSUME NEW u \in Uploads \ {w} PROVE InPlace(u)'
      <4>1. blob_key[u] # b
        BY <1>a, <2>1 DEF RowsFit
      <4> QED
        BY <1>a, <2>2, <4>1 DEF InPlace
    <3> QED
      BY <3>1, <3>2 DEF PlaceInv
  <2>6. DeletionInv'
    BY <1>b, <2>1, <2>2 DEF DeletionInv
  <2>7. QuarantineIsRemoved'
    BY <1>b, <2>2 DEF QuarantineIsRemoved
  <2> QED
    BY <2>3, <2>4, <2>5, <2>6, <2>7 DEF LibraryInv
<1>3. ASSUME CommitDelete(d) PROVE LibraryInv'
  <2>1. /\ \A u \in Uploads : version'[u] = IF DocumentOf[u] = d /\ version[u] # "none" THEN "deleted"
                                            ELSE version[u]
        /\ traced' = traced \cup moved[d] /\ moved' = [moved EXCEPT ![d] = {}]
        /\ deleting' = deleting \ {d}
        /\ UNCHANGED <<upload, declared, sha256, blob_key, fileVars, putVars, torn>>
    BY <1>3 DEF CommitDelete, Trail, SubmittedTo
  <2>2. RowInv'
    BY <1>a, <2>1 DEF RowInv, RowsFit
  <2>3. TransferInv'
    BY <1>a, <2>1 DEF TransferInv, HoldsItsFile
  <2>4. PlaceInv'
    BY <1>a, <2>1 DEF PlaceInv, InPlace, RowsFit
  <2>5. DeletionInv' /\ QuarantineIsRemoved'
    BY <1>b, <2>1 DEF DeletionInv, QuarantineIsRemoved
  <2> QED
    BY <2>2, <2>3, <2>4, <2>5 DEF LibraryInv
<1>4. ASSUME LoseDelete(d) PROVE LibraryInv'
  <2>1. /\ deleting' = deleting \ {d} /\ moved' = [moved EXCEPT ![d] = {}]
        /\ torn' = IF moved[d] = {} THEN torn ELSE torn \cup {d}
        /\ UNCHANGED <<rowVars, fileVars, putVars>>
    BY <1>4 DEF LoseDelete
  <2>2. RowInv' /\ TransferInv'
    BY <1>a, <2>1 DEF RowInv, RowsFit, TransferInv, HoldsItsFile
  <2>3. PlaceInv'
    BY <1>a, <2>1 DEF PlaceInv, InPlace
  <2>4. DeletionInv' /\ QuarantineIsRemoved'
    BY <1>b, <2>1 DEF DeletionInv, QuarantineIsRemoved
  <2> QED
    BY <2>2, <2>3, <2>4 DEF LibraryInv
<1> QED
  BY <1>1, <1>2, <1>3, <1>4

LEMMA MaintenanceSteps ==
    ASSUME StorageTypes, LibraryInv, GateInv, ClearInv, MoveLibrary \/ CommitClear \/ AbandonClear
    PROVE  LibraryInv'
<1> USE StorageAssumption DEF StorageTypes, rowVars, fileVars, putVars, delVars
<1>a. /\ \A w \in Uploads : RowsFit(w) /\ InPlace(w)
      /\ \A q \in Requests : IF target[q] = Nothing THEN stored[q] = Nothing ELSE HoldsItsFile(q)
  BY DEF LibraryInv, RowInv, TransferInv, PlaceInv
<1>b. DeletionInv /\ QuarantineIsRemoved
  BY DEF LibraryInv
<1>1. ASSUME MoveLibrary PROVE LibraryInv'
  <2>1. /\ root' = {} /\ retired' = root /\ retired = {}
        /\ \A r \in Requests : target[r] = Nothing
        /\ UNCHANGED <<rowVars, quarantine, bytes, putVars, delVars>>
    BY <1>1 DEF MoveLibrary, Pause, Writing, ClearInv, Unchanged
  <2>2. RowInv' /\ TransferInv'
    BY <1>a, <2>1 DEF RowInv, RowsFit, TransferInv
  <2>3. PlaceInv' /\ DeletionInv' /\ QuarantineIsRemoved'
    BY <1>a, <1>b, <2>1 DEF PlaceInv, InPlace, DeletionInv, QuarantineIsRemoved
  <2> QED
    BY <2>2, <2>3 DEF LibraryInv
<1>2. ASSUME CommitClear PROVE LibraryInv'
  <2>1. /\ \A u \in Uploads : blob_key'[u] = Nothing /\ upload'[u] = "none" /\ version'[u] = "none"
        /\ quarantine' = {} /\ UNCHANGED <<putVars, moved, deleting>>
    BY <1>2 DEF CommitClear
  <2>2. deleting = {} /\ \A r \in Requests : target[r] = Nothing
    BY <1>2 DEF CommitClear, GateInv
  <2>3. RowInv' /\ TransferInv'
    BY <1>a, <2>1, <2>2 DEF RowInv, RowsFit, TransferInv
  <2>4. PlaceInv' /\ DeletionInv' /\ QuarantineIsRemoved'
    BY <1>b, <2>1, <2>2 DEF PlaceInv, InPlace, DeletionInv, QuarantineIsRemoved
  <2> QED
    BY <2>3, <2>4 DEF LibraryInv
<1>3. ASSUME AbandonClear PROVE LibraryInv'
  <2>1. /\ root' = root \cup retired /\ retired' = {}
        /\ UNCHANGED <<rowVars, quarantine, bytes, putVars, delVars>>
    BY <1>3 DEF AbandonClear
  <2>2. RowInv' /\ TransferInv'
    BY <1>a, <2>1 DEF RowInv, RowsFit, TransferInv, HoldsItsFile
  <2>3. PlaceInv' /\ DeletionInv' /\ QuarantineIsRemoved'
    BY <1>a, <1>b, <2>1 DEF PlaceInv, InPlace, DeletionInv, QuarantineIsRemoved
  <2> QED
    BY <2>2, <2>3 DEF LibraryInv
<1> QED
  BY <1>1, <1>2, <1>3

LEMMA LibraryStep ==
    ASSUME StorageTypes, GateInv, LibraryInv, BackupInv, ClearInv, ReportInv, [Next]_vars
    PROVE  LibraryInv'
<1>a. UNCHANGED <<storageVars, retired>> => LibraryInv'
  BY DEF storageVars, rowVars, fileVars, putVars, delVars, LibraryInv, RowInv, RowsFit, TransferInv,
         HoldsItsFile, PlaceInv, InPlace, DeletionInv, QuarantineIsRemoved
<1>1. CASE StorageNext /\ Notice
  <2>1. UNCHANGED retired
    BY <1>1 DEF Notice
  <2>2. ASSUME NEW expired \in SUBSET quarantine, PurgeQuarantine(expired) PROVE LibraryInv'
    BY <2>1, <2>2
       DEF PurgeQuarantine, rowVars, putVars, delVars, LibraryInv, RowInv, RowsFit, TransferInv,
           HoldsItsFile, PlaceInv, InPlace, DeletionInv, QuarantineIsRemoved
  <2> QED
    BY <1>1, <2>1, <2>2, UploadSteps, RowSteps, DeleteSteps DEF StorageNext
<1>2. CASE ArchiveNext
  BY <1>2, <1>a, ArchiveFrame, MaintenanceSteps
<1>3. CASE RecoveryNext
  BY <1>3, <1>a, RecoveryFrame
<1>4. CASE LoseGuard \/ UNCHANGED vars
  BY <1>4, <1>a DEF LoseGuard, vars, archiveVars
<1> QED
  BY <1>1, <1>2, <1>3, <1>4 DEF Next

-----------------------------------------------------------------------------
(* Backup and clearing.                                                    *)
LEMMA RowsFrame == UNCHANGED rowVars => Rows' = Rows
BY DEF Rows, rowVars

LEMMA NewArchive ==
    ASSUME ArchiveShape
    PROVE  /\ \A x : [archive EXCEPT !.rows = x] =
                       [complete |-> archive.complete, manifest |-> archive.manifest,
                        blobs |-> archive.blobs, rows |-> x]
           /\ \A x : [archive EXCEPT !.manifest = x] =
                       [complete |-> archive.complete, manifest |-> x,
                        blobs |-> archive.blobs, rows |-> archive.rows]
           /\ \A x : [archive EXCEPT !.blobs = x] =
                       [complete |-> archive.complete, manifest |-> archive.manifest,
                        blobs |-> x, rows |-> archive.rows]
           /\ [archive EXCEPT !.complete = TRUE] =
                       [complete |-> TRUE, manifest |-> archive.manifest,
                        blobs |-> archive.blobs, rows |-> archive.rows]
<1>1. PICK c, m, b, w : archive = [complete |-> c, manifest |-> m, blobs |-> b, rows |-> w]
  BY DEF ArchiveShape
<1>2. archive.complete = c /\ archive.manifest = m /\ archive.blobs = b /\ archive.rows = w
  BY <1>1
<1>3. ASSUME NEW x
      PROVE  /\ [archive EXCEPT !.rows = x] = [complete |-> c, manifest |-> m, blobs |-> b, rows |-> x]
             /\ [archive EXCEPT !.manifest = x] = [complete |-> c, manifest |-> x, blobs |-> b, rows |-> w]
             /\ [archive EXCEPT !.blobs = x] = [complete |-> c, manifest |-> m, blobs |-> x, rows |-> w]
             /\ [archive EXCEPT !.complete = x] = [complete |-> x, manifest |-> m, blobs |-> b, rows |-> w]
  BY <1>1
<1> QED
  BY <1>2, <1>3, Zenon

LEMMA EmptyArchive ==
    ASSUME archive' = Empty
    PROVE  ArchiveShape' /\ archive'.complete = FALSE /\ archive'.blobs = {} /\ archive'.manifest = {}
BY DEF ArchiveShape, Empty

LEMMA ArchiveSteps ==
    ASSUME TypeOK, ArchiveShape, RowInv, ArchiveInv, ArchiveNext
    PROVE  ArchiveTypes' /\ ArchiveShape' /\ ArchiveInv'
<1> USE DEF TypeOK, ArchiveTypes, ArchiveInv, BackupInv, ClearInv, ArchiveIsWhole
<1>b. References(Rows) \subseteq Originals
  BY ListedOriginals
<1>c. root \subseteq Blobs
  BY DEF StorageTypes
<1>r. UNCHANGED storageVars => Rows' = Rows
  BY RowsFrame DEF storageVars
<1>1. ASSUME BeginBackup PROVE ArchiveTypes' /\ ArchiveShape' /\ ArchiveInv'
  BY <1>1, <1>r, EmptyArchive DEF BeginBackup, Pause
<1>2. ASSUME ListOriginals PROVE ArchiveTypes' /\ ArchiveShape' /\ ArchiveInv'
  <2>1. archive' = [complete |-> archive.complete, manifest |-> References(Rows),
                    blobs |-> archive.blobs, rows |-> archive.rows]
    BY <1>2, NewArchive DEF ListOriginals
  <2> QED
    BY <1>2, <1>b, <1>r, <2>1 DEF ListOriginals, ArchiveShape
<1>3. ASSUME NEW item \in listed, CopyOriginal(item) PROVE ArchiveTypes' /\ ArchiveShape' /\ ArchiveInv'
  <2>1. archive' = [complete |-> archive.complete, manifest |-> archive.manifest,
                    blobs |-> archive.blobs \cup {item}, rows |-> archive.rows]
    BY <1>3, NewArchive DEF CopyOriginal
  <2> QED
    BY <1>3, <1>r, <2>1 DEF CopyOriginal, ArchiveShape
<1>4. ASSUME Dump PROVE ArchiveTypes' /\ ArchiveShape' /\ ArchiveInv'
  <2>1. archive' = [complete |-> archive.complete, manifest |-> archive.manifest,
                    blobs |-> archive.blobs, rows |-> Rows]
    BY <1>4, NewArchive DEF Dump
  <2> QED
    BY <1>4, <1>r, <2>1 DEF Dump, ArchiveShape
<1>5. ASSUME Finish PROVE ArchiveTypes' /\ ArchiveShape' /\ ArchiveInv'
  <2>1. archive' = [complete |-> TRUE, manifest |-> archive.manifest,
                    blobs |-> archive.blobs, rows |-> archive.rows]
    BY <1>5, NewArchive DEF Finish
  <2> QED
    BY <1>5, <1>r, <2>1 DEF Finish, Stop, ArchiveShape
<1>6. ASSUME FailBackup PROVE ArchiveTypes' /\ ArchiveShape' /\ ArchiveInv'
  BY <1>6, <1>r, EmptyArchive DEF FailBackup, Stop
<1>7. ASSUME LoseGuard PROVE ArchiveTypes' /\ ArchiveShape' /\ ArchiveInv'
  BY <1>7, <1>r DEF LoseGuard, ArchiveShape
<1>8. ASSUME BeginClear PROVE ArchiveTypes' /\ ArchiveShape' /\ ArchiveInv'
  BY <1>8, <1>r, EmptyArchive DEF BeginClear
<1>9. ASSUME MoveLibrary PROVE ArchiveTypes' /\ ArchiveShape' /\ ArchiveInv'
  <2>1. Rows' = Rows
    BY <1>9, RowsFrame DEF MoveLibrary
  <2> QED
    BY <1>9, <1>c, <2>1 DEF MoveLibrary, Pause, Unchanged, ArchiveShape
<1>10. ASSUME CommitClear PROVE ArchiveTypes' /\ ArchiveShape' /\ ArchiveInv'
  BY <1>10 DEF CommitClear, Stop, ArchiveShape
<1>11. ASSUME AbandonClear PROVE ArchiveTypes' /\ ArchiveShape' /\ ArchiveInv'
  BY <1>11 DEF AbandonClear, Stop, ArchiveShape
<1> QED
  BY <1>1, <1>2, <1>3, <1>4, <1>5, <1>6, <1>7, <1>8, <1>9, <1>10, <1>11 DEF ArchiveNext

(* A request that changes a row makes a snapshot untrue; while the gate is *)
(* closed there is none.                                                   *)
LEMMA NoticeSteps ==
    ASSUME TypeOK, ArchiveShape, GateInv, ArchiveInv, StorageNext, Notice
    PROVE  ArchiveTypes' /\ ArchiveShape' /\ ArchiveInv'
<1> USE DEF TypeOK, ArchiveTypes, ArchiveInv, BackupInv, ClearInv, ArchiveIsWhole
<1>1. guarded => Rows' = Rows
  BY GateHolds, RowsFrame DEF GateInv
<1>2. /\ clearing' \in {clearing, "changed"} /\ (clearing' = "changed" => clearing \in {"same", "changed"})
      /\ clearing' = "same" => clearing = "same" /\ Rows' = Rows
      /\ UNCHANGED <<backup, guarded, listed, retired>>
  BY DEF Notice
<1>3. CASE archive' = archive
  BY <1>1, <1>2, <1>3 DEF ArchiveShape
<1>4. CASE archive' = Empty /\ backup = "off" /\ clearing = "off"
  BY <1>2, <1>4, EmptyArchive
<1> QED
  BY <1>3, <1>4 DEF Notice

LEMMA ArchiveStep ==
    ASSUME TypeOK, ArchiveShape, GateInv, RowInv, ArchiveInv, ReportInv, [Next]_vars
    PROVE  ArchiveTypes' /\ ArchiveShape' /\ ArchiveInv'
<1>1. CASE StorageNext /\ Notice
  BY <1>1, NoticeSteps
<1>2. CASE ArchiveNext \/ LoseGuard
  BY <1>2, ArchiveSteps DEF ArchiveNext
<1>3. CASE RecoveryNext \/ UNCHANGED vars
  <2>1. /\ UNCHANGED <<storageVars, backup, listed, archive, clearing, retired>>
    BY <1>3, RecoveryFrame DEF ArchiveInv, vars, archiveVars
  <2>2. UNCHANGED guarded \/ (backup = "off" /\ clearing = "off")
    BY <1>3 DEF vars, archiveVars, RecoveryNext, BeginReconcile, ListReferences, ScanFolder,
         CheckReference, BeginRestore, CopyBack, CheckCopy, FinishRestore, FailRestore, Damage,
         CheckSource, ReadsOnly, Beside, Tell, FailReconcile, ReportInv
  <2>3. guarded' \in BOOLEAN
    BY <1>3, GateMoves DEF Pause, vars, archiveVars, TypeOK, ArchiveTypes
  <2>4. Rows' = Rows
    BY <2>1, RowsFrame DEF storageVars
  <2> QED
    BY <2>1, <2>2, <2>3, <2>4
       DEF TypeOK, ArchiveTypes, ArchiveShape, ArchiveInv, BackupInv, ClearInv, ArchiveIsWhole
<1> QED
  BY <1>1, <1>2, <1>3 DEF Next

-----------------------------------------------------------------------------
(* Reconcile.                                                              *)
LEMMA NewReport ==
    ASSUME ReportShape
    PROVE  /\ \A x : [report EXCEPT !.referenced = x] =
                       [referenced |-> x, broken |-> report.broken,
                        unreferenced |-> report.unreferenced]
           /\ \A x : [report EXCEPT !.broken = x] =
                       [referenced |-> report.referenced, broken |-> x,
                        unreferenced |-> report.unreferenced]
           /\ \A x : [report EXCEPT !.unreferenced = x] =
                       [referenced |-> report.referenced, broken |-> report.broken,
                        unreferenced |-> x]
<1>1. PICK i, b, w : report = [referenced |-> i, broken |-> b, unreferenced |-> w]
  BY DEF ReportShape
<1>2. report.referenced = i /\ report.broken = b /\ report.unreferenced = w
  BY <1>1
<1>3. ASSUME NEW x
      PROVE  /\ [report EXCEPT !.referenced = x] = [referenced |-> x, broken |-> b, unreferenced |-> w]
             /\ [report EXCEPT !.broken = x] = [referenced |-> i, broken |-> x, unreferenced |-> w]
             /\ [report EXCEPT !.unreferenced = x] = [referenced |-> i, broken |-> b, unreferenced |-> x]
  BY <1>1
<1> QED
  BY <1>2, <1>3, Zenon

LEMMA LeftReport ==
    ASSUME ReportShape, LeaveReport
    PROVE  /\ ReportShape' /\ inventory' # "told"
           /\ inventory' # "off" => UNCHANGED reconcileVars
<1>1. CASE inventory = "told"
  BY <1>1 DEF LeaveReport, NoReport, ReportShape
<1>2. CASE inventory # "told"
  BY <1>2 DEF LeaveReport, ReportShape, reconcileVars
<1> QED
  BY <1>1, <1>2

LEMMA BrokenFrame ==
    ASSUME UNCHANGED <<rowVars, root, bytes>>
    PROVE  Rows' = Rows /\ \A items : Broken(items)' = Broken(items)
BY RowsFrame DEF Broken, Intact

LEMMA ReportStep ==
    ASSUME TypeOK, ReportShape, GateInv, BackupInv, ReportInv, [Next]_vars
    PROVE  ReportInv' /\ ReportShape'
<1> USE DEF ReportInv, ReportIsTrue, Broken
<1>f. UNCHANGED storageVars => UNCHANGED <<rowVars, root, bytes>>
  BY DEF storageVars, fileVars
<1>1. ASSUME StorageNext, Notice, LeaveReport PROVE ReportInv' /\ ReportShape'
  <2>1. CASE inventory' = "off"
    BY <1>1, <2>1, LeftReport
  <2>2. CASE inventory' # "off"
    <3>1. /\ UNCHANGED reconcileVars /\ inventory' # "told" /\ ReportShape'
      BY <1>1, <2>2, LeftReport
    <3>2. backup' = "off" /\ clearing' = "off" /\ UNCHANGED guarded
      BY <1>1, <2>2, <3>1 DEF Notice, reconcileVars
    <3>3. guarded => UNCHANGED <<rowVars, root, bytes>>
      BY <1>1, GateHolds DEF GateInv
    <3>4. guarded => Rows' = Rows /\ \A items : Broken(items)' = Broken(items)
      BY <3>3, BrokenFrame
    <3>5. inventory' = inventory /\ due' = due /\ report' = report
      BY <3>1 DEF reconcileVars
    <3> QED
      BY <3>1, <3>2, <3>3, <3>4, <3>5
  <2> QED
    BY <2>1, <2>2
<1>2. ASSUME ArchiveNext, inventory \in {"off", "told"}, LeaveReport PROVE ReportInv' /\ ReportShape'
  BY <1>2, LeftReport DEF LeaveReport
<1>3. ASSUME LoseGuard \/ UNCHANGED vars, UNCHANGED reconcileVars PROVE ReportInv' /\ ReportShape'
  <2>1. UNCHANGED <<storageVars, backup, clearing, inventory, due, report>> /\ (guarded' => guarded)
    BY <1>3 DEF LoseGuard, vars, archiveVars, reconcileVars
  <2>2. Rows' = Rows /\ (\A items : Broken(items)' = Broken(items)) /\ root' = root /\ bytes' = bytes
    BY <2>1, <1>f, BrokenFrame
  <2> QED
    BY <2>1, <2>2 DEF ReportShape, Intact
<1>4. ASSUME UNCHANGED <<storageVars, archiveVars, reconcileVars>> PROVE ReportInv' /\ ReportShape'
  <2>1. UNCHANGED <<guarded, backup, clearing, inventory, due, report>>
    BY <1>4 DEF archiveVars, reconcileVars
  <2>2. Rows' = Rows /\ (\A items : Broken(items)' = Broken(items)) /\ root' = root /\ bytes' = bytes
    BY <1>4, <1>f, BrokenFrame
  <2> QED
    BY <2>1, <2>2 DEF ReportShape, Intact
<1>5. ASSUME BeginReconcile PROVE ReportInv' /\ ReportShape'
  BY <1>5 DEF BeginReconcile, NoReport, ReportShape
<1>6. ASSUME ListReferences PROVE ReportInv' /\ ReportShape'
  <2>1. report' = [referenced |-> References(Rows), broken |-> report.broken,
                   unreferenced |-> report.unreferenced]
    BY <1>6, NewReport DEF ListReferences
  <2>2. /\ inventory = "list" /\ inventory' = "check" /\ due' = References(Rows)
        /\ UNCHANGED <<storageVars, backup, clearing>>
    BY <1>6 DEF ListReferences, ReadsOnly, archiveVars
  <2>3. Rows' = Rows
    BY <2>2, <1>f, BrokenFrame
  <2> QED
    BY <2>1, <2>2, <2>3 DEF ReportShape
<1>7. ASSUME NEW item \in due, CheckReference(item) PROVE ReportInv' /\ ReportShape'
  <2>1. report' = [referenced |-> report.referenced,
                   broken |-> IF Intact(item) THEN report.broken ELSE report.broken \cup {item},
                   unreferenced |-> report.unreferenced]
    BY <1>7, NewReport DEF CheckReference
  <2>2. /\ inventory = "check" /\ inventory' = "check" /\ due' = due \ {item}
        /\ UNCHANGED <<storageVars, backup, clearing, guarded>>
    BY <1>7 DEF CheckReference, ReadsOnly, archiveVars
  <2>3. Rows' = Rows /\ (\A x : Intact(x)' = Intact(x))
    BY <2>2, <1>f, BrokenFrame DEF Intact
  <2>4. guarded => (IF Intact(item) THEN report.broken ELSE report.broken \cup {item})
                     = {x \in report.referenced \ (due \ {item}) : ~Intact(x)}
    BY <1>7, <2>2
  <2> QED
    BY <2>1, <2>2, <2>3, <2>4 DEF ReportShape
<1>8. ASSUME ScanFolder PROVE ReportInv' /\ ReportShape'
  <2>1. report' = [referenced |-> report.referenced, broken |-> report.broken,
                   unreferenced |-> root \ {item.path : item \in report.referenced}]
    BY <1>8, NewReport DEF ScanFolder
  <2>2. /\ inventory = "check" /\ inventory' = "tell" /\ due = {}
        /\ UNCHANGED <<storageVars, backup, clearing, guarded>>
    BY <1>8 DEF ScanFolder, ReadsOnly, archiveVars
  <2>3. Rows' = Rows /\ (\A x : Intact(x)' = Intact(x)) /\ root' = root
    BY <2>2, <1>f, BrokenFrame DEF Intact
  <2>4. guarded => report.referenced = References(Rows) /\ report.broken = Broken(References(Rows))
    BY <2>2
  <2> QED
    BY <2>1, <2>2, <2>3, <2>4 DEF ReportShape
<1>9. ASSUME Tell PROVE ReportInv' /\ ReportShape'
  <2>1. /\ inventory = "tell" /\ guarded /\ inventory' = "told" /\ UNCHANGED <<storageVars, report>>
    BY <1>9 DEF Tell, EndReconcile
  <2>2. Rows' = Rows /\ (\A x : Intact(x)' = Intact(x)) /\ root' = root
    BY <2>1, <1>f, BrokenFrame DEF Intact
  <2> QED
    BY <2>1, <2>2 DEF ReportShape
<1>10. ASSUME FailReconcile PROVE ReportInv' /\ ReportShape'
  BY <1>10 DEF FailReconcile, EndReconcile, NoReport, ReportShape
<1>11. CASE RecoveryNext
  <2>1. \/ BeginReconcile \/ ListReferences \/ ScanFolder \/ Tell \/ FailReconcile
        \/ \E item \in due : CheckReference(item)
        \/ UNCHANGED <<storageVars, archiveVars, reconcileVars>>
    BY <1>11 DEF RecoveryNext, BeginRestore, CopyBack, CheckCopy, FinishRestore, FailRestore, Damage,
                 CheckSource, Beside
  <2> QED
    BY <2>1, <1>4, <1>5, <1>6, <1>7, <1>8, <1>9, <1>10
<1> QED
  BY <1>1, <1>2, <1>3, <1>11 DEF Next, vars, recoveryVars

-----------------------------------------------------------------------------
(* Restore.                                                                *)
LEMMA NewCopies ==
    ASSUME RestoredShape
    PROVE  \A x : /\ [restored EXCEPT !.sound = x] = [sound |-> x, bad |-> restored.bad]
                  /\ [restored EXCEPT !.bad = x] = [sound |-> restored.sound, bad |-> x]
<1>1. PICK s, b : restored = [sound |-> s, bad |-> b]
  BY DEF RestoredShape
<1>2. restored.sound = s /\ restored.bad = b
  BY <1>1
<1>3. ASSUME NEW x
      PROVE  /\ [restored EXCEPT !.sound = x] = [sound |-> x, bad |-> b]
             /\ [restored EXCEPT !.bad = x] = [sound |-> s, bad |-> x]
  BY <1>1
<1> QED
  BY <1>2, <1>3, Zenon

LEMMA RestoreStep ==
    ASSUME RestoredShape, BackupInv, ReportInv, RestoreInv, [Next]_vars
    PROVE  RestoreInv' /\ RestoredShape'
<1> USE DEF RestoreInv, RestoredIsWhole
<1>1. ASSUME LeaveRestore PROVE RestoreInv' /\ RestoredShape'
  BY <1>1 DEF LeaveRestore, NoCopies, RestoredShape
<1>2. ASSUME UNCHANGED restoreVars, UNCHANGED archive PROVE RestoreInv' /\ RestoredShape'
  BY <1>2 DEF restoreVars, RestoredShape
<1>3. ASSUME CopyBack PROVE RestoreInv' /\ RestoredShape'
  <2>1. CASE copying \in damaged
    <3>1. restored' = [sound |-> restored.sound, bad |-> restored.bad \cup {copying}]
      BY <1>3, <2>1, NewCopies DEF CopyBack
    <3> QED
      BY <1>3, <3>1 DEF CopyBack, RestoredShape
  <2>2. CASE copying \notin damaged
    <3>1. restored' = [sound |-> restored.sound \cup {copying}, bad |-> restored.bad]
      BY <1>3, <2>2, NewCopies DEF CopyBack
    <3> QED
      BY <1>3, <3>1 DEF CopyBack, RestoredShape
  <2> QED
    BY <2>1, <2>2
<1>4. ASSUME BeginRestore \/ CheckCopy \/ FinishRestore PROVE RestoreInv' /\ RestoredShape'
  BY <1>4 DEF BeginRestore, CheckCopy, CopyIsRight, FinishRestore, RestoredShape, Beside, archiveVars
<1>5. ASSUME NEW item \in archive.blobs, Damage(item) \/ CheckSource(item)
      PROVE  RestoreInv' /\ RestoredShape'
  BY <1>5 DEF Damage, Restoring, CheckSource, RestoredShape, Beside, archiveVars
<1>6. ASSUME FailRestore PROVE RestoreInv' /\ RestoredShape'
  BY <1>6 DEF FailRestore, NoCopies, RestoredShape
<1>7. CASE RecoveryNext
  <2>1. \/ LeaveRestore \/ UNCHANGED restoreVars
        \/ BeginRestore \/ CopyBack \/ CheckCopy \/ FinishRestore \/ FailRestore
        \/ \E item \in archive.blobs : Damage(item) \/ CheckSource(item)
    BY <1>7 DEF RecoveryNext, BeginReconcile, ListReferences, ScanFolder, CheckReference, Tell,
                FailReconcile, EndReconcile, ReadsOnly
  <2> QED
    BY <1>7, <1>1, <1>2, <1>3, <1>4, <1>5, <1>6, <2>1, RecoveryFrame
<1>8. LoseGuard \/ UNCHANGED vars => UNCHANGED archive
  BY DEF LoseGuard, vars, archiveVars
<1> QED
  BY <1>1, <1>2, <1>7, <1>8 DEF Next, vars, recoveryVars

-----------------------------------------------------------------------------
(* The same bytes are live once.                                           *)
LEMMA OneCopyStep ==
    ASSUME StorageTypes, RowInv, TransferInv, OneLiveCopy, [Next]_vars
    PROVE  OneLiveCopy'
<1> USE DEF StorageTypes, OneLiveCopy
<1>f. UNCHANGED <<sha256, version>> => OneLiveCopy'
  OBVIOUS
<1>1. ASSUME NEW u \in Uploads, Submit(u) PROVE OneLiveCopy'
  BY <1>1 DEF Submit, Duplicate
<1>2. ASSUME NEW u \in Uploads, Publish(u) \/ Reject(u) \/ Withdraw(u) \/ Restore(u) PROVE OneLiveCopy'
  BY <1>2 DEF Publish, Reject, Withdraw, Restore, Review, Present
<1>3. ASSUME NEW r \in Requests, CommitUpload(r) PROVE OneLiveCopy'
  <2>1. PICK u \in Uploads : u = target[r] /\ version[u] = "none"
    BY <1>3 DEF CommitUpload, Settle, TransferInv, HoldsItsFile, RowInv, RowsFit
  <2>2. \A w \in Uploads \ {u} : sha256'[w] = sha256[w]
    BY <1>3, <2>1 DEF CommitUpload
  <2>3. version' = version
    BY <1>3 DEF CommitUpload, Settle
  <2> QED
    BY <2>1, <2>2, <2>3 DEF Present
<1>4. ASSUME NEW d \in Documents, CommitDelete(d) PROVE OneLiveCopy'
  BY <1>4 DEF CommitDelete, Present
<1>5. CASE StorageNext
  <2>1. \/ UNCHANGED <<sha256, version>>
        \/ \E u \in Uploads : Submit(u) \/ Publish(u) \/ Reject(u) \/ Withdraw(u) \/ Restore(u)
        \/ \E r \in Requests : CommitUpload(r)
        \/ \E d \in Documents : CommitDelete(d)
    BY <1>5 DEF StorageNext, Prepare, Rename, LoseUpload, Settle, MoveAway, BeginDelete, LoseDelete,
                PurgeQuarantine, rowVars
  <2> QED
    BY <2>1, <1>f, <1>1, <1>2, <1>3, <1>4
<1>6. ASSUME CommitClear PROVE OneLiveCopy'
  BY <1>6 DEF CommitClear, Present
<1>7. CASE ArchiveNext
  BY <1>7, <1>6, <1>f, ArchiveFrame DEF storageVars, rowVars, MoveLibrary, AbandonClear
<1>8. CASE RecoveryNext \/ UNCHANGED vars
  BY <1>8, <1>f DEF RecoveryNext, BeginReconcile, ListReferences, ScanFolder, CheckReference, Tell,
         FailReconcile, EndReconcile, ReadsOnly, BeginRestore, CopyBack, CheckCopy, FinishRestore,
         FailRestore, Damage, CheckSource, Beside, vars, storageVars, rowVars
<1> QED
  BY <1>5, <1>7, <1>8 DEF Next, ArchiveNext

-----------------------------------------------------------------------------
(* The invariant of the library, and what follows from it.                 *)
Inv ==
    /\ TypeOK /\ ArchiveShape /\ ReportShape /\ RestoredShape
    /\ GateInv /\ LibraryInv /\ ArchiveInv /\ ReportInv /\ RestoreInv /\ OneLiveCopy

LEMMA StorageTypesKept ==
    ASSUME TypeOK, TransferInv, BackupInv, ReportInv, [Next]_vars
    PROVE  StorageTypes'
<1> USE DEF TypeOK, ArchiveTypes
<1>1. CASE StorageNext
  BY <1>1, StorageTypesStep
<1>2. CASE ArchiveNext \/ RecoveryNext
  <2>1. paused' \in BOOLEAN
    BY <1>2, GateMoves DEF Pause, StorageTypes
  <2>2. CASE UNCHANGED storageVars
    BY <2>1, <2>2 DEF StorageTypes, storageVars, rowVars, fileVars, putVars, delVars
  <2>3. CASE MoveLibrary \/ AbandonClear
    BY <2>1, <2>3 DEF MoveLibrary, AbandonClear, StorageTypes, rowVars, putVars, delVars
  <2>4. CASE CommitClear
    BY <2>1, <2>4 DEF CommitClear, StorageTypes, UploadStates, VersionStates, putVars
  <2> QED
    BY <1>2, <2>2, <2>3, <2>4, ArchiveFrame, RecoveryFrame
<1>3. CASE LoseGuard
  BY <1>3 DEF LoseGuard, StorageTypes, storageVars, rowVars, fileVars, putVars, delVars
<1>4. CASE UNCHANGED vars
  BY <1>4 DEF vars, StorageTypes, storageVars, rowVars, fileVars, putVars, delVars
<1> QED
  BY <1>1, <1>2, <1>3, <1>4 DEF Next

LEMMA InitInv == Init => Inv
<1> SUFFICES ASSUME Init PROVE Inv
  OBVIOUS
<1> USE DEF Init, StorageInit, ArchiveInit, RecoveryInit
<1>1. TypeOK
  BY DEF TypeOK, StorageTypes, UploadStates, VersionStates, ArchiveTypes, Empty
<1>2. ArchiveShape /\ ReportShape /\ RestoredShape
  BY DEF ArchiveShape, ReportShape, RestoredShape, Empty, NoReport, NoCopies
<1>3. GateInv /\ LibraryInv
  BY DEF GateInv, LibraryInv, RowInv, RowsFit, TransferInv, PlaceInv, InPlace, DeletionInv,
         QuarantineIsRemoved
<1>4. ArchiveInv /\ ReportInv /\ RestoreInv
  BY DEF ArchiveInv, BackupInv, ClearInv, ArchiveIsWhole, Empty, ReportInv, ReportIsTrue,
         RestoreInv, RestoredIsWhole, NoCopies
<1>5. OneLiveCopy
  BY DEF OneLiveCopy, Present
<1> QED
  BY <1>1, <1>2, <1>3, <1>4, <1>5 DEF Inv

(* Every state of the library satisfies the invariant.                     *)
THEOREM LibraryInvariant == Spec => []Inv
<1>1. Inv /\ [Next]_vars => Inv'
  <2> SUFFICES ASSUME Inv, [Next]_vars PROVE Inv'
    OBVIOUS
  <2> USE DEF Inv
  <2>1. /\ TypeOK /\ StorageTypes /\ RowInv /\ TransferInv /\ BackupInv /\ ClearInv
    BY DEF TypeOK, ArchiveShape, ArchiveShape, ReportShape, RestoredShape, LibraryInv, ArchiveInv
  <2>2. StorageTypes'
    BY <2>1, StorageTypesKept
  <2>3. ArchiveTypes' /\ ArchiveShape' /\ ArchiveInv'
    BY <2>1, ArchiveStep
  <2>4. GateInv' /\ LibraryInv' /\ OneLiveCopy'
    BY <2>1, GateStep, LibraryStep, OneCopyStep
  <2>5. ReportInv' /\ ReportShape' /\ RestoreInv' /\ RestoredShape'
    BY <2>1, ReportStep, RestoreStep
  <2> QED
    BY <2>2, <2>3, <2>4, <2>5 DEF TypeOK
<1> QED
  BY <1>1, InitInv, PTL DEF Spec

(* FilesAgree: an original that counts is where its row says, with the     *)
(* bytes its row says; what is in the quarantine belongs to a deletion.    *)
THEOREM RowsAndFilesAgree == Spec => []FilesAgree
<1>1. Inv => FilesAgree
  <2> SUFFICES ASSUME Inv PROVE OriginalIsKept
    BY DEF FilesAgree, Inv, LibraryInv
  <2> SUFFICES ASSUME NEW u \in Uploads, upload[u] \in {"complete", "submitted"},
                      version[u] # "deleted",
                      ~(upload[u] = "submitted" /\ DocumentOf[u] \in deleting \cup torn)
               PROVE  /\ blob_key[u] \in root \cup retired /\ bytes[blob_key[u]] = sha256[u]
                      /\ declared[u] \in {sha256[u], Nothing}
    BY Zenon DEF OriginalIsKept
  <2>1. RowsFit(u) /\ InPlace(u) /\ DocumentOf[u] \in Documents
    BY StorageAssumption DEF Inv, LibraryInv, RowInv, PlaceInv
  <2>2. DocumentOf[u] \notin deleting => moved[DocumentOf[u]] = {}
    BY <2>1 DEF Inv, LibraryInv, DeletionInv
  <2> QED
    BY <2>1, <2>2 DEF RowsFit, InPlace
<1> QED
  BY <1>1, LibraryInvariant, PTL

(* OneLiveCopy: the same bytes are in the library once.                    *)
THEOREM OneCopyIsLive == Spec => []OneLiveCopy
<1>1. Inv => OneLiveCopy
  BY DEF Inv
<1> QED
  BY <1>1, LibraryInvariant, PTL

(* ArchiveIsWhole: a complete backup holds what its dump refers to.        *)
THEOREM BackupsAreWhole == Spec => []ArchiveIsWhole
<1>1. Inv => ArchiveIsWhole
  BY DEF Inv, ArchiveInv
<1> QED
  BY <1>1, LibraryInvariant, PTL

(* ReportIsTrue: what reconcile returns is so when it returns.             *)
THEOREM ReportsAreTrue == Spec => []ReportIsTrue
<1>1. Inv => ReportIsTrue
  BY DEF Inv, ReportInv
<1> QED
  BY <1>1, LibraryInvariant, PTL

(* RestoredIsWhole: a restored library that is served has every original.  *)
THEOREM RestoresAreWhole == Spec => []RestoredIsWhole
<1>1. Inv => RestoredIsWhole
  BY DEF Inv, RestoreInv
<1> QED
  BY <1>1, LibraryInvariant, PTL

-----------------------------------------------------------------------------
(* What a step may never do.                                               *)

(* SavedOriginalIsFinal: the file of an upload is not replaced.            *)
THEOREM SavedOriginalsAreFinal == Spec => SavedOriginalIsFinal
<1>1. Inv /\ [Next]_vars => SavedStays
  <2> SUFFICES ASSUME Inv, [Next]_vars PROVE SavedStays
    OBVIOUS
  <2>1. /\ StorageTypes /\ RowInv /\ TransferInv /\ BackupInv /\ ReportInv
        /\ \A u \in Uploads : RowsFit(u)
    BY DEF Inv, TypeOK, LibraryInv, ArchiveInv, RowInv
  <2>2. ASSUME UNCHANGED <<sha256, blob_key>> PROVE SavedStays
    BY <2>1, <2>2 DEF SavedStays, RowsFit
  <2>3. ASSUME NEW r \in Requests, CommitUpload(r) PROVE SavedStays
    <3>0. target[r] \in Uploads /\ HoldsItsFile(r)
      BY <2>1, <2>3 DEF CommitUpload, Settle, TransferInv, StorageTypes
    <3>1. PICK w \in Uploads : /\ w = target[r] /\ blob_key[w] = Nothing
                               /\ \A u \in Uploads : blob_key[u] # stored[r]
      BY <2>1, <3>0 DEF HoldsItsFile, RowsFit
    <3>2. /\ \A u \in Uploads \ {w} : blob_key'[u] = blob_key[u] /\ sha256'[u] = sha256[u]
          /\ blob_key'[w] = stored[r]
      BY <2>1, <2>3, <3>1 DEF CommitUpload, StorageTypes
    <3> QED
      BY <2>1, <3>1, <3>2 DEF SavedStays, RowsFit
  <2>4. ASSUME CommitClear PROVE SavedStays
    BY <2>4 DEF CommitClear, SavedStays
  <2>5. CASE StorageNext
    <3>1. UNCHANGED <<sha256, blob_key>> \/ \E r \in Requests : CommitUpload(r)
      BY <2>5 DEF StorageNext, Prepare, Submit, Publish, Reject, Withdraw, Restore, Review, Rename,
                  LoseUpload, Settle, MoveAway, BeginDelete, CommitDelete, LoseDelete,
                  PurgeQuarantine, rowVars
    <3> QED
      BY <3>1, <2>2, <2>3
  <2>6. CASE ~StorageNext
    <3>1. UNCHANGED <<sha256, blob_key>> \/ CommitClear
      BY <2>1, <2>6, ArchiveFrame, RecoveryFrame
         DEF Next, vars, storageVars, rowVars, MoveLibrary, AbandonClear, LoseGuard
    <3> QED
      BY <3>1, <2>2, <2>4
  <2> QED
    BY <2>5, <2>6
<1> QED
  BY <1>1, LibraryInvariant, PTL DEF Spec, SavedOriginalIsFinal

(* MaintenanceIsSafe: nothing moves behind a closed gate, and the library  *)
(* is cleared only into an archive that has all of it.                     *)
THEOREM MaintenanceLosesNothing == Spec => MaintenanceIsSafe
<1>1. Inv /\ [Next]_vars => LibraryIsFrozen /\ ClearedIntoArchive
  <2> SUFFICES ASSUME Inv, [Next]_vars PROVE LibraryIsFrozen /\ ClearedIntoArchive
    OBVIOUS
  <2>1. /\ StorageTypes /\ GateInv /\ BackupInv /\ ClearInv /\ ArchiveIsWhole /\ ReportInv
    BY DEF Inv, TypeOK, ArchiveInv
  <2>2. ASSUME UNCHANGED <<rowVars, root>> PROVE LibraryIsFrozen /\ ClearedIntoArchive
    BY <2>2 DEF LibraryIsFrozen, ClearedIntoArchive, rowVars
  <2>3. ASSUME MoveLibrary \/ AbandonClear PROVE LibraryIsFrozen /\ ClearedIntoArchive
    BY <2>3 DEF MoveLibrary, Pause, AbandonClear, Stop, LibraryIsFrozen, ClearedIntoArchive, rowVars
  <2>4. ASSUME CommitClear PROVE LibraryIsFrozen /\ ClearedIntoArchive
    <3>1. archive.complete /\ archive.rows = Rows
      BY <2>1, <2>4 DEF CommitClear, ClearInv
    <3>2. References(Rows) = archive.blobs
      BY <2>1, <3>1 DEF ArchiveIsWhole
    <3> QED
      BY <2>4, <3>1, <3>2 DEF CommitClear, Stop, LibraryIsFrozen, ClearedIntoArchive
  <2>5. CASE StorageNext
    <3>1. ASSUME NEW u \in Uploads, upload[u] # "none" PROVE upload'[u] # "none"
      BY <2>1, <2>5, <3>1
         DEF StorageNext, Prepare, Submit, Publish, Reject, Withdraw, Restore, Review, Rename,
             CommitUpload, LoseUpload, Settle, MoveAway, BeginDelete, CommitDelete, LoseDelete,
             PurgeQuarantine, rowVars, StorageTypes
    <3> QED
      BY <2>1, <2>5, <3>1, GateHolds DEF LibraryIsFrozen, ClearedIntoArchive
  <2>6. CASE ~StorageNext
    <3>1. UNCHANGED <<rowVars, root>> \/ MoveLibrary \/ AbandonClear \/ CommitClear
      BY <2>1, <2>6, ArchiveFrame, RecoveryFrame DEF Next, vars, storageVars, fileVars, LoseGuard
    <3> QED
      BY <3>1, <2>2, <2>3, <2>4
  <2> QED
    BY <2>5, <2>6
<1> QED
  BY <1>1, LibraryInvariant, PTL DEF Spec, MaintenanceIsSafe
=============================================================================
