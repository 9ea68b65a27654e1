------------------------------ MODULE Recovery ------------------------------
(***************************************************************************)
(* What an operator does with a library and its backup (operations.py):    *)
(* reconcile reports the originals that are missing and the files that no  *)
(* row refers to, with the gate of the writers closed like for a backup;   *)
(* restore makes a new database and a new storage folder from an archive,  *)
(* beside the library.  The archive's files may be damaged at any time.    *)
(* The operator runs one of backup, clear_library and reconcile at a time. *)
(***************************************************************************)
EXTENDS Archive

VARIABLES
    inventory,  \* what the running reconcile does next, "told" when it returned
    due,        \* references it has not checked
    report,     \* what it found so far
    damaged,    \* originals of the archive that lost their bytes
    recovery,   \* what the running restore does next; "served" when it is over
    copying,    \* the original it copies
    restored    \* the copies in its storage folder that are right, and the others

reconcileVars == <<inventory, due, report>>
restoreVars   == <<damaged, recovery, copying, restored>>
recoveryVars  == <<reconcileVars, restoreVars>>

NoReport == [referenced |-> {}, broken |-> {}, unreferenced |-> {}]
NoCopies == [sound |-> {}, bad |-> {}]

RecoveryInit ==
    /\ inventory = "off" /\ due = {} /\ report = NoReport
    /\ damaged = {} /\ recovery = "off" /\ copying = Nothing /\ restored = NoCopies

-----------------------------------------------------------------------------
(* When the library or the archive changes, a report that was returned and *)
(* a restore are not followed any further.                                 *)
LeaveReport ==
    /\ inventory' = IF inventory = "told" THEN "off" ELSE inventory
    /\ report' = IF inventory = "told" THEN NoReport ELSE report
    /\ UNCHANGED due

LeaveRestore == damaged' = {} /\ recovery' = "off" /\ copying' = Nothing /\ restored' = NoCopies

-----------------------------------------------------------------------------
(* reconcile: pause, list the references, check one after the other, scan  *)
(* the folder, and return the report if the gate was held until now.       *)
ReadsOnly == UNCHANGED <<storageVars, archiveVars, paused, restoreVars>>

BeginReconcile ==
    /\ inventory \in {"off", "told"} /\ backup = "off" /\ clearing = "off"
    /\ Pause
    /\ inventory' = "list" /\ report' = NoReport
    /\ UNCHANGED <<storageVars, backup, listed, archive, clearing, retired, due>>
    /\ LeaveRestore

ListReferences ==
    /\ inventory = "list"
    /\ due' = References(Rows)
    /\ report' = [report EXCEPT !.referenced = References(Rows)]
    /\ inventory' = "check"
    /\ ReadsOnly

CheckReference(item) ==
    /\ inventory = "check" /\ item \in due
    /\ due' = due \ {item}
    /\ report' = [report EXCEPT !.broken = IF Intact(item) THEN @ ELSE @ \cup {item}]
    /\ UNCHANGED inventory /\ ReadsOnly

ScanFolder ==
    /\ inventory = "check" /\ due = {}
    /\ report' = [report EXCEPT !.unreferenced = root \ {item.path : item \in report.referenced}]
    /\ inventory' = "tell"
    /\ UNCHANGED due /\ ReadsOnly

EndReconcile(outcome) ==
    /\ inventory' = outcome /\ due' = {}
    /\ Stop
    /\ UNCHANGED <<storageVars, archive, clearing, retired, restoreVars>>

(* "Never return a complete report if the original guard connection was    *)
(* lost."                                                                  *)
Tell_Unasked ==
    /\ inventory = "tell"
    /\ EndReconcile("told") /\ UNCHANGED report

Tell ==
    /\ inventory = "tell"
    /\ guarded
    /\ EndReconcile("told") /\ UNCHANGED report

(* It takes too long, the connection is lost or the process dies.          *)
FailReconcile ==
    /\ inventory \notin {"off", "told"}
    /\ EndReconcile("off") /\ report' = NoReport

-----------------------------------------------------------------------------
(* restore.  validate_backup looks at the whole archive, and refuses one   *)
(* that is damaged: it is followed from there.  Each original is checked   *)
(* again before and after it is copied.                                    *)
Beside == UNCHANGED <<storageVars, archiveVars, paused, reconcileVars>>

AtRest ==   \* bound: when restores are followed
    /\ backup = "off" /\ clearing = "off" /\ inventory = "off"
    /\ ~Writing /\ quarantine = {} /\ torn = {}

BeginRestore ==
    /\ recovery = "off" /\ AtRest
    /\ archive.complete
    /\ recovery' = "copy"
    /\ UNCHANGED <<damaged, copying, restored>> /\ Beside

Restoring == recovery \in {"copy", "write", "verify"}

Damage(item) ==
    /\ Restoring
    /\ item \in archive.blobs \ damaged
    /\ damaged' = damaged \cup {item}
    /\ UNCHANGED <<recovery, copying, restored>> /\ Beside

CheckSource(item) ==
    /\ recovery = "copy"
    /\ item \in archive.manifest \ (restored.sound \cup restored.bad \cup damaged)
    /\ copying' = item /\ recovery' = "write"
    /\ UNCHANGED <<damaged, restored>> /\ Beside

CopyBack ==
    /\ recovery = "write"
    /\ restored' = IF copying \in damaged THEN [restored EXCEPT !.bad = @ \cup {copying}]
                   ELSE [restored EXCEPT !.sound = @ \cup {copying}]
    /\ recovery' = "verify"
    /\ UNCHANGED <<damaged, copying>> /\ Beside

(* check_blob(storage, item): the copy has the recorded hash.              *)
CopyIsRight_Unread == TRUE
CopyIsRight == copying \in restored.sound

CheckCopy ==
    /\ recovery = "verify" /\ CopyIsRight
    /\ copying' = Nothing /\ recovery' = "copy"
    /\ UNCHANGED <<damaged, restored>> /\ Beside

(* The restored database refers to what the manifest lists; then the mark  *)
(* RESTORE_INCOMPLETE is removed.                                          *)
FinishRestore ==
    /\ recovery = "copy"
    /\ archive.manifest \subseteq restored.sound \cup restored.bad
    /\ References(archive.rows) = archive.manifest
    /\ recovery' = "served"
    /\ UNCHANGED <<damaged, copying, restored>> /\ Beside

(* A check fails, a tool fails or the process dies: the mark stays, and    *)
(* only a new database and a new folder can be restored into.              *)
FailRestore ==
    /\ Restoring
    /\ recovery' = "off" /\ copying' = Nothing /\ restored' = NoCopies /\ damaged' = {}
    /\ Beside

RecoveryNext ==
    \/ BeginReconcile \/ ListReferences \/ ScanFolder \/ Tell \/ FailReconcile
    \/ \E item \in due : CheckReference(item)
    \/ BeginRestore \/ CopyBack \/ CheckCopy \/ FinishRestore \/ FailRestore
    \/ \E item \in archive.blobs : Damage(item) \/ CheckSource(item)
=============================================================================
