----------------------------- MODULE Originals -----------------------------
(***************************************************************************)
(* The original files of the library under uploads, reviews, deletions,    *)
(* crashes and backups, and what the library promises about them.          *)
(***************************************************************************)
EXTENDS Recovery

vars == <<storageVars, paused, archiveVars, recoveryVars>>

Init == StorageInit /\ ArchiveInit /\ RecoveryInit

Next ==
    \/ StorageNext /\ Notice /\ LeaveReport /\ LeaveRestore
    \/ inventory \in {"off", "told"} /\ ArchiveNext /\ LeaveReport /\ LeaveRestore
    \/ LoseGuard /\ UNCHANGED recoveryVars
    \/ RecoveryNext

Spec == Init /\ [][Next]_vars

TypeOK == StorageTypes /\ ArchiveTypes

-----------------------------------------------------------------------------
(* "A crash can leave an orphan, never a false completion": an upload that *)
(* counts as complete, and every version that is not deleted, has its      *)
(* original in the storage folder, with the bytes whose hash was recorded  *)
(* and, where the client declared one, with the declared hash.  The one    *)
(* exception is a document whose deletion moved files and was rolled back. *)
OriginalIsKept ==
    \A u \in Uploads :
        /\ upload[u] \in {"complete", "submitted"}
        /\ version[u] # "deleted"
        /\ ~(upload[u] = "submitted" /\ DocumentOf[u] \in deleting \cup torn)
        => /\ blob_key[u] \in root \cup retired /\ bytes[blob_key[u]] = sha256[u]
           /\ declared[u] \in {sha256[u], Nothing}

(* An original that was saved is never replaced, whatever other transfers  *)
(* of the same upload bring, and no two uploads share a file.              *)
SavedStays ==
    \A u \in Uploads :
        blob_key[u] # Nothing /\ upload'[u] # "none" =>
            /\ blob_key'[u] = blob_key[u] /\ sha256'[u] = sha256[u]
            /\ \A w \in Uploads \ {u} : blob_key'[w] # blob_key[u]

SavedOriginalIsFinal == [][SavedStays]_vars

(* The same bytes are in the library once, however many uploads bring them *)
(* and in whatever order they are submitted; only bringing a withdrawn     *)
(* version back can add a second copy.                                     *)
OneLiveCopy ==
    \A u, w \in Uploads :
        /\ u # w /\ sha256[u] = sha256[w]
        /\ version[u] \in Present /\ version[w] \in Present
        => version[u] = "restored" \/ version[w] = "restored"

(* A deletion in progress is the only owner of what it moves: a file in    *)
(* the quarantine belongs to a deletion, finished, running or torn.        *)
QuarantineIsRemoved ==
    \A b \in quarantine :
        \/ b \in traced
        \/ \E d \in deleting : b \in moved[d]
        \/ \E u \in Uploads : blob_key[u] = b /\ DocumentOf[u] \in torn

(* Rows and files agree at every step: an original is where its row says,  *)
(* or it is in the quarantine of the deletion that removed the row.        *)
FilesAgree == TypeOK /\ OriginalIsKept /\ QuarantineIsRemoved

(* While the gate is closed no row changes and no file enters or leaves    *)
(* the storage folder: transactions that began before are over, later ones *)
(* are refused.                                                            *)
LibraryIsFrozen == paused /\ paused' => UNCHANGED <<rowVars, root>>

(* A backup that counts as complete can be restored: its originals are     *)
(* exactly those its dump refers to, with the right bytes, although the    *)
(* gate may have been lost while it ran.  (restore checks the same.)       *)
ArchiveIsWhole ==
    archive.complete =>
        /\ archive.manifest = References(archive.rows)
        /\ archive.blobs = archive.manifest

(* The library is cleared only into an archive that has all of it: no      *)
(* version and no original disappears that the archive lacks.              *)
ClearedIntoArchive ==
    (\E u \in Uploads : upload[u] # "none" /\ upload'[u] = "none") =>
        /\ archive.complete
        /\ archive.rows = Rows
        /\ References(Rows) \subseteq archive.blobs

(* Maintenance works on a library that stands still, and loses nothing.    *)
MaintenanceIsSafe == [][LibraryIsFrozen /\ ClearedIntoArchive]_vars

(* A report that reconcile returns is true of the library as it is then:   *)
(* an original it calls missing or corrupt is, no other is, and a file it  *)
(* calls unreferenced belongs to no upload, although transfers and         *)
(* deletions went on until it began and its gate may have been lost.       *)
ReportIsTrue ==
    inventory = "told" =>
        /\ report.broken = {item \in References(Rows) : ~Intact(item)}
        /\ report.unreferenced = root \ {item.path : item \in References(Rows)}

(* A restored library that may be served has the right bytes of every      *)
(* original its rows refer to, though the archive decays while it is read. *)
RestoredIsWhole ==
    recovery = "served" => References(archive.rows) \subseteq restored.sound

(* lifecycle.py, delete_document: "Audit rows survive the delete [...] as  *)
(* the only trace of who removed what."                                    *)
DeletionLeavesTrace ==
    \A u \in Uploads : version[u] = "deleted" => DocumentOf[u] \in audited
=============================================================================
