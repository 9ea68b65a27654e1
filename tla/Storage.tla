------------------------------ MODULE Storage ------------------------------
(***************************************************************************)
(* Original files: the uploads table, the blobs in the storage folder and  *)
(* the quarantine, and the handlers that touch both a row and a file:      *)
(* prepare, upload_content and submit (files.py), delete_document          *)
(* (lifecycle.py) and the purge of the quarantine (worker.py).             *)
(*                                                                         *)
(* Rows change when a transaction commits, files at once.  A handler that  *)
(* renames a file inside its transaction is therefore more than one step,  *)
(* and between the rename and the commit its process may die.  The publi-  *)
(* cation handlers of module Lifecycle appear only with what they mean for *)
(* an original: whether it counts as present, withdrawn or restored.       *)
(***************************************************************************)
EXTENDS FiniteSets, Naturals

CONSTANTS
    Uploads,        \* uploads (owner and idempotency key); each has at most one version
    Documents,      \* ids of documents
    DocumentOf,     \* the document an upload is submitted to
    Declaring,      \* uploads whose client may declare the hash beforehand: a bound
    Contents,       \* the bytes a file can have, and so their SHA-256
    Blobs,          \* fresh names for stored files: bounds the transfers kept
    Requests,       \* transfers in progress at the same time
    Nothing         \* NULL, no hash declared, no bytes

ASSUME StorageAssumption ==
    /\ Nothing \notin Contents \cup Blobs \cup Uploads
    /\ DocumentOf \in [Uploads -> Documents]
    /\ Declaring \subseteq Uploads

VARIABLES
    \* uploads, and versions by upload
    upload,         \* "none" before prepare
    declared,       \* expected_sha256
    sha256,         \* the hash computed while the bytes were received
    blob_key,
    version,        \* what became of the submission
    \* audit_events of delete_document
    traced,         \* blobs named by "quarantined"
    audited,        \* documents with an audit row of their deletion
    \* the storage folder
    root,           \* blobs in it
    quarantine,     \* blobs in its quarantine folder
    bytes,          \* what each blob holds; Nothing for a name not yet used
    \* requests
    target, stored, \* upload_content: the upload and the blob it renamed
    deleting, moved,                   \* delete_document, by document
    torn,           \* documents whose deletion moved files and was rolled back
    \* the advisory lock of a backup
    paused

rowVars  == <<upload, declared, sha256, blob_key, version, traced, audited>>
fileVars == <<root, quarantine, bytes>>
putVars  == <<target, stored>>
delVars  == <<deleting, moved, torn>>
storageVars == <<rowVars, fileVars, putVars, delVars>>

UploadStates  == {"none", "pending", "complete", "submitted"}
Present       == {"draft", "published", "restored"}
VersionStates == Present \cup {"none", "rejected", "withdrawn", "deleted"}

StorageTypes ==
    /\ upload \in [Uploads -> UploadStates]
    /\ declared \in [Uploads -> Contents \cup {Nothing}]
    /\ sha256 \in [Uploads -> Contents \cup {Nothing}]
    /\ blob_key \in [Uploads -> Blobs \cup {Nothing}]
    /\ version \in [Uploads -> VersionStates]
    /\ traced \subseteq Blobs /\ audited \subseteq Documents
    /\ root \subseteq Blobs /\ quarantine \subseteq Blobs
    /\ bytes \in [Blobs -> Contents \cup {Nothing}]
    /\ target \in [Requests -> Uploads \cup {Nothing}]
    /\ stored \in [Requests -> Blobs \cup {Nothing}]
    /\ deleting \subseteq Documents
    /\ moved \in [Documents -> SUBSET Blobs]
    /\ torn \subseteq Documents
    /\ paused \in BOOLEAN

StorageInit ==
    /\ upload = [u \in Uploads |-> "none"]
    /\ declared = [u \in Uploads |-> Nothing]
    /\ sha256 = [u \in Uploads |-> Nothing]
    /\ blob_key = [u \in Uploads |-> Nothing]
    /\ version = [u \in Uploads |-> "none"]
    /\ traced = {} /\ audited = {}
    /\ root = {} /\ quarantine = {}
    /\ bytes = [b \in Blobs |-> Nothing]
    /\ target = [r \in Requests |-> Nothing]
    /\ stored = [r \in Requests |-> Nothing]
    /\ deleting = {} /\ moved = [d \in Documents |-> {}] /\ torn = {}
    /\ paused = FALSE

-----------------------------------------------------------------------------
(* duplicate_version: a version that is not withdrawn has these bytes.     *)
Duplicate_OfAnother(c, u) == \E w \in Uploads \ {u} : version[w] = "published" /\ sha256[w] = c
Duplicate(c, u) == \E w \in Uploads \ {u} : version[w] \in Present /\ sha256[w] = c

(* prepare: a known duplicate is skipped before any bytes are sent.        *)
Prepare(u, c) ==
    /\ ~paused
    /\ upload[u] = "none"
    /\ c # Nothing => u \in Declaring /\ ~Duplicate(c, u)
    /\ upload' = [upload EXCEPT ![u] = "pending"]
    /\ declared' = [declared EXCEPT ![u] = c]
    /\ UNCHANGED <<sha256, blob_key, version, traced, audited, fileVars, putVars, delVars, paused>>

(* upload_content: the stream ended and its temporary file has the size    *)
(* and, when one was declared, the hash that prepare recorded (neither     *)
(* ever changes: reception and finalize are one step).  Only now finalize  *)
(* asks whether the upload was received before, so a client may send it    *)
(* again; in every other case than the one below the temporary file is     *)
(* removed and nothing changes.  finalize holds the lock of the upload's   *)
(* row from there to its commit.                                           *)
RowFree(u) == \A r \in Requests : target[r] # u

StillPending_Unchecked(u) == upload[u] \in {"pending", "complete"}
StillPending(u) == upload[u] = "pending"

Rename(r, u, c, b) ==
    /\ target[r] = Nothing
    /\ declared[u] \in {c, Nothing}
    /\ ~paused
    /\ RowFree(u)
    /\ StillPending(u)
    /\ bytes[b] = Nothing
    /\ bytes' = [bytes EXCEPT ![b] = c]
    /\ root' = root \cup {b}
    /\ stored' = [stored EXCEPT ![r] = b]
    /\ target' = [target EXCEPT ![r] = u]
    /\ UNCHANGED <<rowVars, quarantine, delVars, paused>>

(* The request is over: its transaction committed, or its process died     *)
(* between the rename and the commit, and the blob stays behind.           *)
Settle(r) ==
    /\ target[r] # Nothing
    /\ stored' = [stored EXCEPT ![r] = Nothing]
    /\ target' = [target EXCEPT ![r] = Nothing]
    /\ UNCHANGED <<declared, version, traced, audited, fileVars, delVars, paused>>

CommitUpload_Declared(r) ==
    /\ Settle(r)
    /\ upload' = [upload EXCEPT ![target[r]] = "complete"]
    /\ sha256' = [sha256 EXCEPT ![target[r]] = declared[target[r]]]
    /\ blob_key' = [blob_key EXCEPT ![target[r]] = stored[r]]

CommitUpload(r) ==
    /\ Settle(r)
    /\ upload' = [upload EXCEPT ![target[r]] = "complete"]
    /\ sha256' = [sha256 EXCEPT ![target[r]] = bytes[stored[r]]]
    /\ blob_key' = [blob_key EXCEPT ![target[r]] = stored[r]]

LoseUpload(r) ==
    /\ Settle(r)
    /\ UNCHANGED <<upload, sha256, blob_key>>

-----------------------------------------------------------------------------
(* Documents.  Who changes one holds the lock of its row.                  *)
SubmittedTo(d) == {u \in Uploads : DocumentOf[u] = d /\ version[u] # "none"}
HasRows(d)     == \E u \in SubmittedTo(d) : version[u] # "deleted"

(* submit: identical bytes are found by the hash computed on reception.    *)
Submit(u) ==
    LET d == DocumentOf[u] IN
    /\ ~paused
    /\ upload[u] = "complete"
    /\ RowFree(u)
    /\ ~Duplicate(sha256[u], u)
    /\ SubmittedTo(d) = {} \/ (HasRows(d) /\ d \notin deleting)
    /\ upload' = [upload EXCEPT ![u] = "submitted"]
    /\ version' = [version EXCEPT ![u] = "draft"]
    /\ UNCHANGED <<declared, sha256, blob_key, traced, audited, fileVars, putVars, delVars, paused>>

(* publish, withdraw_submission, withdraw and restore.                     *)
Review(u, before, after) ==
    /\ ~paused
    /\ DocumentOf[u] \notin deleting
    /\ version[u] \in before
    /\ version' = [version EXCEPT ![u] = after]
    /\ UNCHANGED <<upload, declared, sha256, blob_key, traced, audited, fileVars, putVars, delVars,
                   paused>>

Publish(u)  == Review(u, {"draft"}, "published")
Reject(u)   == Review(u, {"draft"}, "rejected")
Withdraw(u) == Review(u, {"published", "restored"}, "withdrawn")
Restore(u)  == Review(u, {"withdrawn"}, "restored")

(* delete_document deletes the rows, then renames the originals of all the *)
(* document's versions into the quarantine one after the other, then       *)
(* commits.  The audit row is written when a file was moved.               *)
BlobsOf(d) == {blob_key[u] : u \in {w \in SubmittedTo(d) : version[w] # "deleted"}}

BeginDelete(d) ==
    /\ ~paused
    /\ d \notin deleting
    /\ HasRows(d)
    /\ deleting' = deleting \cup {d}
    /\ UNCHANGED <<rowVars, fileVars, putVars, moved, torn, paused>>

MoveAway(d, b) ==
    /\ d \in deleting
    /\ b \in BlobsOf(d) \cap root
    /\ root' = root \ {b}
    /\ quarantine' = quarantine \cup {b}
    /\ moved' = [moved EXCEPT ![d] = @ \cup {b}]
    /\ UNCHANGED <<rowVars, bytes, putVars, deleting, torn, paused>>

Trail(d) == traced \cup moved[d]

CommitDelete(d) ==
    /\ d \in deleting
    /\ BlobsOf(d) \cap root = {}
    /\ version' = [u \in Uploads |-> IF u \in SubmittedTo(d) THEN "deleted" ELSE version[u]]
    /\ traced' = Trail(d)
    /\ audited' = IF moved[d] = {} THEN audited ELSE audited \cup {d}
    /\ deleting' = deleting \ {d}
    /\ moved' = [moved EXCEPT ![d] = {}]
    /\ UNCHANGED <<upload, declared, sha256, blob_key, fileVars, putVars, torn, paused>>

(* The process dies or the transaction fails: the rows are back, the files *)
(* that were renamed are not.                                              *)
LoseDelete(d) ==
    /\ d \in deleting
    /\ deleting' = deleting \ {d}
    /\ moved' = [moved EXCEPT ![d] = {}]
    /\ torn' = IF moved[d] = {} THEN torn ELSE torn \cup {d}
    /\ UNCHANGED <<rowVars, fileVars, putVars, paused>>

(* purge_expired_quarantine, once a day, for what is older than 30 days.   *)
PurgeQuarantine(expired) ==
    /\ expired # {}
    /\ quarantine' = quarantine \ expired
    /\ UNCHANGED <<rowVars, root, bytes, putVars, delVars, paused>>

StorageNext ==
    \/ \E u \in Uploads :
          \/ \E c \in Contents \cup {Nothing} : Prepare(u, c)
          \/ Submit(u) \/ Publish(u) \/ Reject(u) \/ Withdraw(u) \/ Restore(u)
    \/ \E r \in Requests :
          \/ \E u \in Uploads, c \in Contents, b \in Blobs : Rename(r, u, c, b)
          \/ CommitUpload(r) \/ LoseUpload(r)
    \/ \E d \in Documents :
          \/ \E b \in Blobs : MoveAway(d, b)
          \/ BeginDelete(d) \/ CommitDelete(d) \/ LoseDelete(d)
    \/ \E expired \in SUBSET quarantine : PurgeQuarantine(expired)
=============================================================================
