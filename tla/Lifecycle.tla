----------------------------- MODULE Lifecycle -----------------------------
(***************************************************************************)
(* The handlers that change the publication state of a document: submit    *)
(* (files.py), publish, review_name, rename_published, withdraw, restore,  *)
(* withdraw_submission, set_grants and delete_document (lifecycle.py) and  *)
(* the explicit retry (worker.py, called by files.retry_processing).       *)
(*                                                                         *)
(* A manager sends the revision its page shows as expected_revision; what  *)
(* the page shows is view[m], refreshed by Look.  A request whose check    *)
(* fails changes nothing, so a failed check is a guard.                    *)
(***************************************************************************)
EXTENDS Store

(* A manager reads a document (list_documents, pending, status).           *)
Look(m, d) ==
    /\ Exists(d)
    /\ view' = [view EXCEPT ![m][d] =
                  [revision |-> revision[d], active |-> active_version_id[d]]]
    /\ UNCHANGED <<docVars, verVars, indexVars, jobVars, execVars, next_generation, refunds>>

(* check_revision: the document is still as the manager saw it, and the    *)
(* draft was written against it.                                           *)
Expected(m, d) == Exists(d) /\ view[m][d].revision = revision[d]

BaseIsCurrent_NotAhead(v)  == base_revision[v] <= revision[DocumentOf[v]]
BaseIsCurrent(v)          == base_revision[v] = revision[DocumentOf[v]]

Bump(d) ==
    /\ revision[d] < MaxRevision
    /\ revision' = [revision EXCEPT ![d] = @ + 1]

(* files.submit: a new document starts at base revision 0, a replacement   *)
(* names any base revision the client believes in; the draft is kept even  *)
(* when that base is not the current one.                                  *)
Submit(v, base, review) ==
    LET d == DocumentOf[v] IN
    /\ state[v] = "none"
    /\ Exists(d) \/ (Unused(d) /\ base = 0)
    /\ state' = [state EXCEPT ![v] = "draft"]
    /\ base_revision' = [base_revision EXCEPT ![v] = base]
    /\ needs_review' = [needs_review EXCEPT ![v] = review]
    /\ job_state' = [job_state EXCEPT ![v] = "queued"]
    /\ due' = [due EXCEPT ![v] = TRUE]
    /\ UNCHANGED <<docVars, published_at, publication_mode, indexVars,
                   generation, attempts, lease, execVars, next_generation, refunds, view>>

(* review_name by a manager, or the naming worker deciding "done".         *)
ReviewName(v) ==
    /\ state[v] = "draft"
    /\ needs_review[v]
    /\ needs_review' = [needs_review EXCEPT ![v] = FALSE]
    /\ UNCHANGED <<docVars, state, base_revision, published_at, publication_mode, indexVars,
                   jobVars, execVars, next_generation, refunds, view>>

(* activate: the published version of the document, if any, is superseded. *)
Activate_KeepsOld(d, v) ==
    /\ Bump(d)
    /\ active_version_id' = [active_version_id EXCEPT ![d] = v]
    /\ state' = [state EXCEPT ![v] = "published"]
    /\ published_at' = [published_at EXCEPT ![v] = TRUE]

Activate(d, v) ==
    /\ Bump(d)
    /\ active_version_id' = [active_version_id EXCEPT ![d] = v]
    /\ state' = [w \in Versions |->
                   IF w = v THEN "published"
                   ELSE IF w = active_version_id[d] THEN "superseded" ELSE state[w]]
    /\ published_at' = [published_at EXCEPT ![v] = TRUE]

(* A CAD drawing is not published before its text was looked for.          *)
DrawingIsRead_ByStatus(v) == v \in Cad => processing_status[v] # "failed"

DrawingIsRead(v) ==
    v \in Cad => job_state[v] = "complete" /\ processing_status[v] \in Parsed

Publish(m, v, accept_incomplete) ==
    LET d == DocumentOf[v] IN
    /\ state[v] = "draft"
    /\ Expected(m, d)
    /\ BaseIsCurrent(v)
    /\ ~needs_review[v]
    /\ DrawingIsRead(v)
    /\ processing_status[v] \in {"ready", "stored_only"} \/ accept_incomplete
    /\ publication_mode' = [publication_mode EXCEPT ![v] = ModeFor(processing_status[v])]
    /\ Activate(d, v)
    /\ UNCHANGED <<base_revision, needs_review, indexVars, jobVars, execVars,
                   next_generation, refunds, view>>

Restore(m, v) ==
    LET d == DocumentOf[v] IN
    /\ state[v] \in {"superseded", "withdrawn"}
    /\ published_at[v]
    /\ Expected(m, d)
    /\ Activate(d, v)
    /\ UNCHANGED <<base_revision, needs_review, publication_mode, indexVars, jobVars, execVars,
                   next_generation, refunds, view>>

Withdraw_NoRevision(m, d) ==
    /\ Expected(m, d)
    /\ active_version_id[d] # NoVersion
    /\ state' = [state EXCEPT ![active_version_id[d]] = "withdrawn"]
    /\ active_version_id' = [active_version_id EXCEPT ![d] = NoVersion]
    /\ UNCHANGED <<revision, base_revision, published_at, publication_mode, needs_review,
                   indexVars, jobVars, execVars, next_generation, refunds, view>>

Withdraw(m, d) ==
    /\ Expected(m, d)
    /\ active_version_id[d] # NoVersion
    /\ Bump(d)
    /\ state' = [state EXCEPT ![active_version_id[d]] = "withdrawn"]
    /\ active_version_id' = [active_version_id EXCEPT ![d] = NoVersion]
    /\ UNCHANGED <<base_revision, published_at, publication_mode, needs_review, indexVars,
                   jobVars, execVars, next_generation, refunds, view>>

(* set_grants, and rename_published of a document that has a published     *)
(* version: both leave the versions alone and count as a revision.         *)
SetGrants(m, d) ==
    /\ Expected(m, d)
    /\ Bump(d)
    /\ UNCHANGED <<active_version_id, verVars, indexVars, jobVars, execVars,
                   next_generation, refunds, view>>

RenamePublished(m, d) ==
    /\ Expected(m, d)
    /\ active_version_id[d] # NoVersion
    /\ Bump(d)
    /\ UNCHANGED <<active_version_id, verVars, indexVars, jobVars, execVars,
                   next_generation, refunds, view>>

(* The author takes a draft back, or the approver rejects it.              *)
WithdrawSubmission(v) ==
    /\ state[v] = "draft"
    /\ state' = [state EXCEPT ![v] = "withdrawn"]
    /\ job_state' = [job_state EXCEPT ![v] = "cancelled"]
    /\ UNCHANGED <<docVars, base_revision, published_at, publication_mode, needs_review, indexVars,
                   generation, attempts, lease, due, execVars, next_generation, refunds, view>>

(* delete_document purges every row of the document; an executor that was  *)
(* parsing one of its versions still holds its claim.                      *)
DeleteDocument(m, d) ==
    LET gone == VersionsOf(d) IN
    /\ Expected(m, d)
    /\ active_version_id' = [active_version_id EXCEPT ![d] = NoVersion]
    /\ state' = [v \in Versions |-> IF v \in gone THEN "deleted" ELSE state[v]]
    /\ job_state' = [v \in Versions |-> IF v \in gone THEN "none" ELSE job_state[v]]
    /\ chunks' = [v \in Versions |-> IF v \in gone THEN {} ELSE chunks[v]]
    /\ active_generation' = [v \in Versions |-> IF v \in gone THEN 0 ELSE active_generation[v]]
    /\ UNCHANGED <<revision, base_revision, published_at, publication_mode, needs_review,
                   processing_status, generation, attempts, lease, due,
                   execVars, next_generation, refunds, view>>

(* Worker.retry: parsing starts over, whatever the job was doing.          *)
Retriable_Withdrawn(v) == Stored(v)
Retriable(v)           == Stored(v) /\ state[v] # "withdrawn"

Retry(v) ==
    /\ Retriable(v)
    /\ refunds < MaxRefunds
    /\ refunds' = refunds + 1
    /\ job_state' = [job_state EXCEPT ![v] = "queued"]
    /\ generation' = [generation EXCEPT ![v] = 0]
    /\ attempts' = [attempts EXCEPT ![v] = 0]
    /\ lease' = [lease EXCEPT ![v] = 0]
    /\ due' = [due EXCEPT ![v] = TRUE]
    /\ UNCHANGED <<docVars, verVars, indexVars, execVars, next_generation, view>>

LifecycleNext ==
    \/ \E m \in Managers, d \in Documents :
          \/ Look(m, d)
          \/ Withdraw(m, d)
          \/ SetGrants(m, d)
          \/ RenamePublished(m, d)
          \/ DeleteDocument(m, d)
    \/ \E m \in Managers, v \in Versions :
          \/ \E accept_incomplete \in BOOLEAN : Publish(m, v, accept_incomplete)
          \/ Restore(m, v)
    \/ \E v \in Versions :
          \/ \E base \in 0 .. MaxRevision, review \in BOOLEAN : Submit(v, base, review)
          \/ ReviewName(v)
          \/ WithdrawSubmission(v)
          \/ Retry(v)
=============================================================================
