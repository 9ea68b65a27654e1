------------------------------ MODULE Archive ------------------------------
(***************************************************************************)
(* Backups of the library (operations.backup) and the clearing of the      *)
(* library that rests on one (library_maintenance.clear_library).          *)
(*                                                                         *)
(* A backup closes the gate that every writing transaction passes          *)
(* (pause_writes; paused in module Storage), lists the originals the rows  *)
(* refer to, copies them one after the other, dumps the database and then  *)
(* asks whether the connection that holds the gate is still alive: when    *)
(* that connection is lost the gate opens under the running backup.        *)
(***************************************************************************)
EXTENDS Storage

VARIABLES
    backup,     \* what the running backup does next; "off" without one
    guarded,    \* the connection that holds the gate is alive
    listed,     \* references: the originals that have to be copied
    archive,    \* the directory the last backup wrote
    clearing,   \* clear_library: "off", its snapshot is still true ("same") or
                \* not ("changed"), or it is moving the files ("moving")
    retired     \* blobs it moved out of the storage folder

archiveVars == <<backup, guarded, listed, archive, clearing, retired>>

(* The rows of the library, as a dump or a snapshot of it shows them.      *)
Rows == [upload   |-> upload,   sha256  |-> sha256, blob_key |-> blob_key,
         version  |-> version,  traced  |-> traced]

(* references: the originals of complete and of submitted uploads, but not *)
(* of those whose deletion left a trace.                                   *)
Referring(rows) ==
    {u \in Uploads :
        /\ rows.upload[u] \in {"complete", "submitted"}
        /\ ~(rows.version[u] = "deleted" /\ rows.blob_key[u] \in rows.traced)}

References(rows) ==
    {[path |-> rows.blob_key[u], sha256 |-> rows.sha256[u]] : u \in Referring(rows)}

Empty == [complete |-> FALSE, manifest |-> {}, blobs |-> {}, rows |-> Nothing]

Originals == [path : Blobs, sha256 : Contents]

ArchiveTypes ==
    /\ backup \in {"off", "list", "copy", "finish"}
    /\ guarded \in BOOLEAN
    /\ listed \subseteq Originals
    /\ archive.complete \in BOOLEAN
    /\ archive.manifest \subseteq Originals /\ archive.blobs \subseteq Originals
    /\ clearing \in {"off", "same", "changed", "moving"}
    /\ retired \subseteq Blobs

ArchiveInit ==
    /\ backup = "off" /\ guarded = FALSE /\ listed = {}
    /\ archive = Empty
    /\ clearing = "off" /\ retired = {}

-----------------------------------------------------------------------------
(* pause_writes is granted when no writing transaction is open.            *)
Writing_Deletions == deleting # {}
Writing == deleting # {} \/ \E r \in Requests : target[r] # Nothing

Pause ==
    /\ ~paused /\ ~Writing
    /\ paused' = TRUE
    /\ guarded' = TRUE

Stop ==
    /\ backup' = "off"
    /\ guarded' = FALSE
    /\ listed' = {}
    /\ paused' = FALSE

BeginBackup ==
    /\ backup = "off"
    /\ clearing = "off" \/ (clearing # "moving" /\ ~archive.complete)
    /\ Pause
    /\ backup' = "list"
    /\ archive' = Empty
    /\ UNCHANGED <<storageVars, listed, clearing, retired>>

ListOriginals ==
    /\ backup = "list"
    /\ listed' = References(Rows)
    /\ archive' = [archive EXCEPT !.manifest = References(Rows)]
    /\ backup' = "copy"
    /\ UNCHANGED <<storageVars, paused, guarded, clearing, retired>>

(* check_blob: the file is there and has the hash of its row.              *)
Intact(item) == item.path \in root /\ bytes[item.path] = item.sha256

CopyOriginal(item) ==
    /\ backup = "copy"
    /\ item \in listed
    /\ Intact(item)
    /\ listed' = listed \ {item}
    /\ archive' = [archive EXCEPT !.blobs = @ \cup {item}]
    /\ UNCHANGED <<storageVars, paused, backup, guarded, clearing, retired>>

Dump ==
    /\ backup = "copy"
    /\ listed = {}
    /\ archive' = [archive EXCEPT !.rows = Rows]
    /\ backup' = "finish"
    /\ UNCHANGED <<storageVars, paused, guarded, listed, clearing, retired>>

(* The gate must have been held all along: its own connection is asked.    *)
Finish_Unasked ==
    /\ backup = "finish"
    /\ archive' = [archive EXCEPT !.complete = TRUE]
    /\ Stop
    /\ UNCHANGED <<storageVars, clearing, retired>>

Finish ==
    /\ backup = "finish"
    /\ guarded
    /\ archive' = [archive EXCEPT !.complete = TRUE]
    /\ Stop
    /\ UNCHANGED <<storageVars, clearing, retired>>

(* An original is missing or damaged, a tool fails, the gate was lost, or  *)
(* the process dies: the directory stays marked INCOMPLETE.                *)
FailBackup ==
    /\ backup # "off"
    /\ Stop
    /\ archive' = Empty
    /\ clearing' = "off"
    /\ UNCHANGED <<storageVars, retired>>

LoseGuard ==
    /\ guarded
    /\ guarded' = FALSE
    /\ paused' = FALSE
    /\ UNCHANGED <<storageVars, backup, listed, archive, clearing, retired>>

-----------------------------------------------------------------------------
(* clear_library: a snapshot of all tables, a backup, and, when nothing    *)
(* changed in between, the removal of all rows and files of the library.   *)
(* No request may be in progress: the operator stops the API first.  What  *)
(* a snapshot compares holds the audit rows too, which every change adds   *)
(* to: a library that changed and changed back counts as changed.          *)
BeginClear ==
    /\ clearing = "off"
    /\ backup = "off"
    /\ clearing' = "same"
    /\ archive' = Empty
    /\ UNCHANGED <<storageVars, paused, backup, guarded, listed, retired>>

(* What a change of the library means for it.  An archive that no clearing *)
(* waits for is not followed any further.                                  *)
Notice ==
    /\ clearing' = IF clearing = "same" /\ Rows' # Rows THEN "changed" ELSE clearing
    /\ archive' = IF backup = "off" /\ clearing = "off" THEN Empty ELSE archive
    /\ UNCHANGED <<backup, guarded, listed, retired>>

Unchanged_Ignored == clearing \in {"same", "changed"}
Unchanged == clearing = "same"

MoveLibrary ==
    /\ backup = "off" /\ archive.complete
    /\ Unchanged
    /\ Pause
    /\ clearing' = "moving"
    /\ retired' = root
    /\ root' = {}
    /\ UNCHANGED <<rowVars, quarantine, bytes, putVars, delVars, backup, listed, archive>>

CommitClear ==
    /\ clearing = "moving"
    /\ guarded
    /\ upload' = [u \in Uploads |-> "none"]
    /\ declared' = [u \in Uploads |-> Nothing]
    /\ sha256' = [u \in Uploads |-> Nothing]
    /\ blob_key' = [u \in Uploads |-> Nothing]
    /\ version' = [u \in Uploads |-> "none"]
    /\ traced' = {} /\ audited' = {} /\ torn' = {}
    /\ quarantine' = {}
    /\ clearing' = "off"
    /\ retired' = {}
    /\ Stop
    /\ UNCHANGED <<root, bytes, putVars, deleting, moved, archive>>

(* The library changed meanwhile, or a step failed: the rows stay, and the *)
(* files that were moved are moved back.                                   *)
AbandonClear ==
    /\ clearing # "off"
    /\ backup = "off"
    /\ clearing' = "off"
    /\ root' = root \cup retired
    /\ retired' = {}
    /\ Stop
    /\ UNCHANGED <<rowVars, quarantine, bytes, putVars, delVars, archive>>

ArchiveNext ==
    \/ BeginBackup \/ ListOriginals \/ Dump \/ Finish \/ FailBackup \/ LoseGuard
    \/ \E item \in listed : CopyOriginal(item)
    \/ BeginClear \/ MoveLibrary \/ CommitClear \/ AbandonClear
=============================================================================
