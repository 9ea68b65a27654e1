-------------------------- MODULE Documents_proofs --------------------------
(* Proofs about the publication state of module KnowledgeStore: the active *)
(* pointer, the base revisions of drafts and what managers' pages show;    *)
(* and, in the second half, about each version's row.                      *)
EXTENDS KnowledgeStore_proofs

(* The worker changes nothing of what makes a publication.                 *)
LEMMA WorkerLeavesDocuments ==
    ASSUME WorkerNext
    PROVE  UNCHANGED <<docVars, state, base_revision, published_at, needs_review, view>>
BY DEF WorkerNext, Claim, RunClaim, Sweep, ReadExhausted, FailExhausted, PickJob, ClaimNothing,
       ReadClaim, MarkProcessing, StartRun, Renew, Abandon, Commit, Defer, Fail, Break,
       Release, RecoverInterrupted, Crash, Tick, BecomeDue, docVars, verVars

(* A step that only raises revisions keeps the document invariant.         *)
LEMMA DocumentFrame ==
    ASSUME TypeOK, DocumentInv, UNCHANGED <<active_version_id, state, base_revision, published_at>>,
           \A d \in Documents : revision'[d] \in Nat /\ revision'[d] >= revision[d]
    PROVE  DocumentInv'
BY StoreAssumption DEF DocumentInv, ActiveIsPublished, TypeOK, PublicationTypes

(* activate supersedes the old version and keeps the invariant.            *)
LEMMA ActivateKeepsDocuments ==
    ASSUME TypeOK, DocumentInv, NEW v \in Versions, Activate(DocumentOf[v], v),
           state[v] \in {"draft", "superseded", "withdrawn"},
           base_revision[v] <= revision[DocumentOf[v]], UNCHANGED base_revision
    PROVE  DocumentInv'
<1> DEFINE d   == DocumentOf[v]
           old == active_version_id[d]
<1> USE StoreAssumption DEF DocumentInv, ActiveIsPublished, TypeOK, PublicationTypes
<1>1. /\ d \in Documents /\ old # v
      /\ old # NoVersion => old \in Versions /\ DocumentOf[old] = d /\ state[old] = "published"
  OBVIOUS
<1>2. /\ active_version_id' = [active_version_id EXCEPT ![d] = v]
      /\ revision' = [revision EXCEPT ![d] = @ + 1]
      /\ state' = [w \in Versions |->
                     IF w = v THEN "published" ELSE IF w = old THEN "superseded" ELSE state[w]]
      /\ published_at' = [published_at EXCEPT ![v] = TRUE]
  BY DEF Activate, Bump
<1>3. ActiveIsPublished'
  BY <1>1, <1>2
<1>4. \A c \in Documents :
        active_version_id'[c] # NoVersion => DocumentOf[active_version_id'[c]] = c
  BY <1>1, <1>2
<1>5. \A u, w \in Versions :
        DocumentOf[u] = DocumentOf[w] /\ state'[u] = "deleted" => state'[w] = "deleted"
  BY <1>1, <1>2
<1>6. \A w \in Versions :
        /\ state'[w] \in {"none", "draft"} => ~published_at'[w]
        /\ state'[w] = "published" => published_at'[w]
  BY <1>1, <1>2
<1>7. \A w \in Versions : published_at'[w] => base_revision'[w] < revision'[DocumentOf[w]]
  BY <1>1, <1>2
<1> QED
  BY <1>3, <1>4, <1>5, <1>6, <1>7

(* Every step keeps the document invariant.                                *)
LEMMA DocumentStep ==
    ASSUME TypeOK, DocumentInv, [Next]_vars
    PROVE  DocumentInv'
<1> USE StoreAssumption DEF docVars, verVars
<1>1. ASSUME UNCHANGED <<docVars, state, base_revision, published_at>> PROVE DocumentInv'
  BY <1>1, DocumentFrame DEF TypeOK, PublicationTypes
<1>2. ASSUME NEW m \in Managers, NEW d \in Documents, SetGrants(m, d) \/ RenamePublished(m, d)
      PROVE  DocumentInv'
  BY <1>2, DocumentFrame DEF SetGrants, RenamePublished, Bump, TypeOK, PublicationTypes
<1>3. ASSUME NEW m \in Managers, NEW v \in Versions, NEW a \in BOOLEAN, Publish(m, v, a)
      PROVE  DocumentInv'
  BY <1>3, ActivateKeepsDocuments DEF Publish, BaseIsCurrent, TypeOK, PublicationTypes
<1>4. ASSUME NEW m \in Managers, NEW v \in Versions, Restore(m, v) PROVE DocumentInv'
  BY <1>4, ActivateKeepsDocuments DEF Restore, DocumentInv, TypeOK, PublicationTypes
<1>5. ASSUME NEW m \in Managers, NEW d \in Documents, Withdraw(m, d) PROVE DocumentInv'
  BY <1>5 DEF Withdraw, Bump, DocumentInv, ActiveIsPublished, TypeOK, PublicationTypes
<1>6. ASSUME NEW m \in Managers, NEW d \in Documents, DeleteDocument(m, d) PROVE DocumentInv'
  BY <1>6 DEF DeleteDocument, VersionsOf, DocumentInv, ActiveIsPublished, TypeOK, PublicationTypes
<1>7. ASSUME NEW v \in Versions, NEW base \in 0 .. MaxRevision, NEW review, Submit(v, base, review)
      PROVE  DocumentInv'
  BY <1>7 DEF Submit, DocumentInv, ActiveIsPublished, Exists, Unused, Stored, VersionsOf,
              TypeOK, PublicationTypes
<1>8. ASSUME NEW v \in Versions, WithdrawSubmission(v) PROVE DocumentInv'
  BY <1>8 DEF WithdrawSubmission, DocumentInv, ActiveIsPublished, TypeOK, PublicationTypes
<1>9. ASSUME \/ \E m \in Managers, d \in Documents : Look(m, d)
             \/ \E v \in Versions : ReviewName(v) \/ Retry(v)
             \/ WorkerNext
             \/ UNCHANGED vars
      PROVE  UNCHANGED <<docVars, state, base_revision, published_at>>
  BY <1>9, WorkerLeavesDocuments DEF Look, ReviewName, Retry, vars
<1> QED
  BY <1>1, <1>2, <1>3, <1>4, <1>5, <1>6, <1>7, <1>8, <1>9 DEF Next, LifecycleNext

(* The active version of a document is its one published version.          *)
THEOREM DocumentInvariant == Spec => [](TypeOK /\ DocumentInv)
<1>1. Init => DocumentInv
  BY StoreAssumption DEF Init, DocumentInv, ActiveIsPublished
<1>2. TypeOK /\ DocumentInv /\ [Next]_vars => DocumentInv'
  BY DocumentStep
<1> QED
  BY <1>1, <1>2, TypeCorrect, PTL DEF Spec

(* documents.active_version_id names the published version, always:        *)
(* activate, withdraw, restore and the purge keep the two columns in step. *)
THEOREM ActivePointerCorrect == Spec => []ActiveIsPublished
<1>1. DocumentInv => ActiveIsPublished
  BY DEF DocumentInv
<1> QED
  BY <1>1, DocumentInvariant, PTL

(* Of the drafts written against one revision at most one is published.    *)
THEOREM NoLostUpdate == Spec => []OnePublicationPerBase
<1>1. Init => OnePublicationPerBase
  BY DEF Init, OnePublicationPerBase
<1>2. TypeOK /\ DocumentInv /\ OnePublicationPerBase /\ [Next]_vars => OnePublicationPerBase'
  <2> SUFFICES ASSUME TypeOK, DocumentInv, OnePublicationPerBase, [Next]_vars
               PROVE  OnePublicationPerBase'
    OBVIOUS
  <2> USE DEF OnePublicationPerBase, docVars, verVars
  <2>1. ASSUME UNCHANGED <<base_revision, published_at>> PROVE OnePublicationPerBase'
    BY <2>1
  <2>2. ASSUME NEW m \in Managers, NEW v \in Versions, NEW a \in BOOLEAN, Publish(m, v, a)
        PROVE  OnePublicationPerBase'
    <3>1. /\ published_at' = [published_at EXCEPT ![v] = TRUE] /\ UNCHANGED base_revision
          /\ base_revision[v] = revision[DocumentOf[v]]
      BY <2>2 DEF Publish, Activate, BaseIsCurrent
    <3>2. \A w \in Versions : published_at[w] => base_revision[w] < revision[DocumentOf[w]]
      BY DEF DocumentInv
    <3> QED
      BY <3>1, <3>2, StoreAssumption DEF TypeOK, PublicationTypes
  <2>3. ASSUME NEW m \in Managers, NEW v \in Versions, Restore(m, v)
        PROVE  OnePublicationPerBase'
    BY <2>3 DEF Restore, Activate, TypeOK, PublicationTypes
  <2>4. ASSUME NEW v \in Versions, NEW base \in 0 .. MaxRevision, NEW review,
               Submit(v, base, review)
        PROVE  OnePublicationPerBase'
    BY <2>4 DEF Submit, DocumentInv, TypeOK, PublicationTypes
  <2>5. ASSUME \/ \E m \in Managers, d \in Documents :
                     \/ Look(m, d) \/ Withdraw(m, d) \/ SetGrants(m, d) \/ RenamePublished(m, d)
                     \/ DeleteDocument(m, d)
               \/ \E v \in Versions : ReviewName(v) \/ WithdrawSubmission(v) \/ Retry(v)
               \/ WorkerNext
               \/ UNCHANGED vars
        PROVE  UNCHANGED <<base_revision, published_at>>
    BY <2>5, WorkerLeavesDocuments DEF Look, Withdraw, SetGrants, RenamePublished, DeleteDocument,
             ReviewName, WithdrawSubmission, Retry, vars
  <2> HIDE DEF OnePublicationPerBase
  <2> QED
    BY <2>1, <2>2, <2>3, <2>4, <2>5 DEF Next, LifecycleNext
<1> QED
  BY <1>1, <1>2, DocumentInvariant, PTL DEF Spec

(* Of all the versions of a document one is published at a time, and of    *)
(* the drafts written against one revision one at most ever is.            *)
THEOREM OnePublicationHolds == Spec => []OnePublication
<1>1. ActiveIsPublished /\ OnePublicationPerBase => OnePublication
  BY DEF OnePublication
<1> QED
  BY <1>1, ActivePointerCorrect, NoLostUpdate, PTL

-----------------------------------------------------------------------------
(* What the managers' pages show.                                          *)
LEMMA ViewStep ==
    ASSUME TypeOK, DocumentInv, ViewInv, [Next]_vars
    PROVE  ViewInv'
<1> USE StoreAssumption DEF docVars, verVars, TypeOK, PublicationTypes, View
<1>1. ASSUME NEW m \in Managers, NEW d \in Documents, Look(m, d) PROVE ViewInv'
  BY <1>1 DEF Look, ViewInv, VersionsOf
<1>2. ASSUME UNCHANGED view,
             \A d \in Documents :
                \/ revision'[d] = revision[d] /\ active_version_id'[d] = active_version_id[d]
                \/ revision'[d] = revision[d] + 1
                \/ revision'[d] = revision[d] /\ \E v \in VersionsOf(d) : state'[v] = "deleted",
             \A v \in Versions : state[v] = "deleted" => state'[v] = "deleted"
      PROVE  ViewInv'
  <2> SUFFICES ASSUME NEW m \in Managers, NEW d \in Documents
               PROVE  /\ view[m][d].revision <= revision'[d]
                      /\ \/ \E v \in VersionsOf(d) : state'[v] = "deleted"
                         \/ view[m][d].revision = revision'[d]
                            => view[m][d].active = active_version_id'[d]
    BY <1>2 DEF ViewInv, VersionsOf
  <2>1. /\ view[m][d].revision \in Nat /\ revision[d] \in Nat
        /\ view[m][d].revision <= revision[d]
        /\ \/ \E v \in VersionsOf(d) : state[v] = "deleted"
           \/ view[m][d].revision = revision[d] => view[m][d].active = active_version_id[d]
    BY DEF ViewInv
  <2>2. VersionsOf(d) \subseteq Versions
    BY DEF VersionsOf
  <2> QED
    BY <1>2, <2>1, <2>2
<1>3. ASSUME NEW v \in Versions, Activate(DocumentOf[v], v),
             state[v] \in {"draft", "superseded", "withdrawn"}, UNCHANGED view
      PROVE  ViewInv'
  <2>1. \A w \in Versions : state[w] = "deleted" => state'[w] = "deleted"
    BY <1>3 DEF Activate, DocumentInv, ActiveIsPublished
  <2> QED
    BY <1>2, <1>3, <2>1 DEF Activate, Bump
<1>4. ASSUME NEW m \in Managers, NEW v \in Versions,
             Restore(m, v) \/ \E a \in BOOLEAN : Publish(m, v, a)
      PROVE  ViewInv'
  BY <1>3, <1>4 DEF Restore, Publish
<1>5. ASSUME NEW m \in Managers, NEW d \in Documents,
             SetGrants(m, d) \/ RenamePublished(m, d)
      PROVE  ViewInv'
  BY <1>2, <1>5 DEF SetGrants, RenamePublished, Bump
<1>6. ASSUME NEW m \in Managers, NEW d \in Documents, Withdraw(m, d) PROVE ViewInv'
  <2>1. \A w \in Versions : state[w] = "deleted" => state'[w] = "deleted"
    BY <1>6 DEF Withdraw, DocumentInv, ActiveIsPublished
  <2> QED
    BY <1>2, <1>6, <2>1 DEF Withdraw, Bump
<1>7. ASSUME NEW m \in Managers, NEW d \in Documents, DeleteDocument(m, d) PROVE ViewInv'
  <2>1. \E v \in VersionsOf(d) : state'[v] = "deleted"
    BY <1>7 DEF DeleteDocument, Expected, Exists, VersionsOf
  <2>2. \A w \in Versions : state[w] = "deleted" => state'[w] = "deleted"
    BY <1>7 DEF DeleteDocument
  <2>3. \A c \in Documents :
          revision'[c] = revision[c] /\ (c # d => active_version_id'[c] = active_version_id[c])
    BY <1>7 DEF DeleteDocument
  <2>4. UNCHANGED view
    BY <1>7 DEF DeleteDocument
  <2> QED
    BY <1>2, <2>1, <2>2, <2>3, <2>4
<1>8. ASSUME \/ \E v \in Versions : ReviewName(v) \/ Retry(v) \/ WithdrawSubmission(v)
             \/ \E v \in Versions, base \in 0 .. MaxRevision, review \in BOOLEAN :
                   Submit(v, base, review)
             \/ WorkerNext
             \/ UNCHANGED vars
      PROVE  ViewInv'
  <2>1. UNCHANGED <<view, docVars>>
    BY <1>8, WorkerLeavesDocuments DEF ReviewName, Retry, WithdrawSubmission, Submit, vars
  <2>2. \A w \in Versions : state[w] = "deleted" => state'[w] = "deleted"
    BY <1>8, WorkerLeavesDocuments DEF ReviewName, Retry, WithdrawSubmission, Submit, vars
  <2> QED
    BY <1>2, <2>1, <2>2
<1> HIDE DEF TypeOK
<1> QED
  BY <1>1, <1>4, <1>5, <1>6, <1>7, <1>8 DEF Next, LifecycleNext

(* The revision a manager sends back identifies the active version.        *)
THEOREM RevisionsIdentify == Spec => []RevisionTellsChange
<1>1. Init => ViewInv
  BY DEF Init, ViewInv
<1>2. TypeOK /\ DocumentInv /\ ViewInv /\ [Next]_vars => ViewInv'
  BY ViewStep
<1>3. DocumentInv /\ ViewInv => RevisionTellsChange
  <2> SUFFICES ASSUME DocumentInv, ViewInv, NEW m \in Managers, NEW d \in Documents,
                      view[m][d].revision = revision[d], Exists(d)
               PROVE  view[m][d].active = active_version_id[d]
    BY DEF RevisionTellsChange
  <2>1. \A v \in VersionsOf(d) : state[v] # "deleted"
    BY DEF Exists, Stored, VersionsOf, DocumentInv
  <2> QED
    BY <2>1 DEF ViewInv
<1> QED
  BY <1>1, <1>2, <1>3, DocumentInvariant, PTL DEF Spec

-----------------------------------------------------------------------------
(* Proofs that relate the publication state of a version to its job and    *)
(* its text: what was reviewed, named and parsed before it was published;  *)
(* and that the index so kept implements module VersionIndex.              *)

(* The columns of one version belong together.                             *)
Row(v) ==
    /\ state[v] \in {"none", "deleted"} => job_state[v] = "none"
    /\ state[v] = "none" =>
          /\ generation[v] = 0 /\ active_generation[v] = 0
          /\ publication_mode[v] = "unset" /\ processing_status[v] = "queued"
    /\ job_state[v] = "cancelled" => state[v] = "withdrawn" /\ ~published_at[v]
    /\ Stored(v) /\ processing_status[v] \in Parsed => active_generation[v] # 0
    /\ needs_review[v] =>
          /\ generation[v] = 0 /\ active_generation[v] = 0
          /\ job_state[v] \notin {"running", "complete", "failed"}
          /\ ~published_at[v]
    /\ publication_mode[v] = "content" /\ Stored(v) => active_generation[v] # 0 /\ published_at[v]
    /\ v \in Cad /\ Stored(v) /\ published_at[v] => active_generation[v] # 0

Rows == \A v \in Versions : Row(v)

(* The row invariant, written per version, is the conjunction of the named *)
(* ones.                                                                   *)
LEMMA RowsAre == Rows <=> RowInv /\ NamedFirst /\ ContentIsParsed /\ CadIsParsedFirst
BY StoreAssumption DEF Rows, Row, RowInv, NamedFirst, ContentIsParsed, CadIsParsedFirst

Known == TypeOK /\ ClaimsInv /\ IndexInv /\ DocumentInv

(* activate keeps every row consistent: the version's own and the          *)
(* superseded one's.                                                       *)
LEMMA ActivateKeepsRow ==
    ASSUME Known, Rows, NEW v \in Versions, Activate(DocumentOf[v], v), NEW w \in Versions,
           state[v] \in {"draft", "superseded", "withdrawn"}, ~needs_review[v],
           job_state[v] # "cancelled", v \in Cad => active_generation[v] # 0,
           UNCHANGED <<needs_review, indexVars, jobVars>>,
           \/ publication_mode' = publication_mode
           \/ /\ publication_mode' = [publication_mode EXCEPT ![v] = ModeFor(processing_status[v])]
              /\ state[v] = "draft"
    PROVE  Row(w)'
<1> DEFINE old == active_version_id[DocumentOf[v]]
<1>0. /\ state' = [u \in Versions |->
                     IF u = v THEN "published" ELSE IF u = old THEN "superseded" ELSE state[u]]
      /\ published_at' = [published_at EXCEPT ![v] = TRUE]
  BY DEF Activate
<1>a. w = old => state[w] = "published"
  <2>1. DocumentOf[v] \in Documents /\ w # NoVersion
    BY StoreAssumption
  <2> QED
    BY <2>1 DEF Known, DocumentInv, ActiveIsPublished
<1>1. (state[w] # "none" /\ state[w] # "deleted") <=> (state'[w] # "none" /\ state'[w] # "deleted")
  BY <1>0, <1>a
<1>2. state'[w] = "none" => state[w] = "none"
  BY <1>0
<1>3. w # v => /\ published_at'[w] = published_at[w] /\ publication_mode'[w] = publication_mode[w]
               /\ job_state[w] = "cancelled" => state'[w] = state[w]
  BY <1>0, <1>a DEF Known, Rows, Row, TypeOK, PublicationTypes
<1>4. published_at'[v]
  BY DEF Known, Activate, TypeOK, PublicationTypes
<1>5. publication_mode'[v] = "content" /\ Stored(v) => active_generation[v] # 0
  BY DEF Known, ModeFor, Rows, Row, Parsed, TypeOK, PublicationTypes
<1> QED
  BY <1>1, <1>2, <1>3, <1>4, <1>5 DEF Rows, Row, Stored, indexVars, jobVars

(* Every lifecycle handler keeps every row consistent.                     *)
LEMMA LifecycleRows ==
    ASSUME Known, Rows, LifecycleNext
    PROVE  Rows'
<1> SUFFICES ASSUME NEW w \in Versions PROVE Row(w)'
  BY DEF Rows
<1> USE StoreAssumption DEF docVars, verVars, indexVars, jobVars, TypeOK, PublicationTypes, JobTypes,
        IndexTypes, Stored
<1>1. ASSUME NEW m \in Managers, NEW d \in Documents,
             Look(m, d) \/ SetGrants(m, d) \/ RenamePublished(m, d)
      PROVE  Row(w)'
  BY <1>1 DEF Look, SetGrants, RenamePublished, Rows, Row
<1>2. ASSUME NEW m \in Managers, NEW d \in Documents, Withdraw(m, d) PROVE Row(w)'
  BY <1>2 DEF Withdraw, Rows, Row, Known, DocumentInv, ActiveIsPublished
<1>3. ASSUME NEW m \in Managers, NEW d \in Documents, DeleteDocument(m, d) PROVE Row(w)'
  BY <1>3 DEF DeleteDocument, VersionsOf, Rows, Row, Known
<1>4. ASSUME NEW m \in Managers, NEW v \in Versions, NEW a \in BOOLEAN, Publish(m, v, a)
      PROVE  Row(w)'
  <2>1. job_state[v] # "cancelled"
    BY <1>4 DEF Publish, Rows, Row
  <2>2. v \in Cad => active_generation[v] # 0
    BY <1>4 DEF Publish, DrawingIsRead, Rows, Row
  <2>3. /\ Activate(DocumentOf[v], v) /\ state[v] = "draft" /\ ~needs_review[v]
        /\ UNCHANGED <<needs_review, indexVars, jobVars>>
        /\ publication_mode' = [publication_mode EXCEPT ![v] = ModeFor(processing_status[v])]
    BY <1>4 DEF Publish
  <2> QED
    BY <2>1, <2>2, <2>3, ActivateKeepsRow
<1>5. ASSUME NEW m \in Managers, NEW v \in Versions, Restore(m, v) PROVE Row(w)'
  <2>1. /\ job_state[v] # "cancelled" /\ ~needs_review[v]
        /\ v \in Cad => active_generation[v] # 0
    BY <1>5 DEF Restore, Rows, Row
  <2>2. /\ Activate(DocumentOf[v], v) /\ state[v] \in {"superseded", "withdrawn"}
        /\ UNCHANGED <<needs_review, indexVars, jobVars, publication_mode>>
    BY <1>5 DEF Restore
  <2> QED
    BY <2>1, <2>2, ActivateKeepsRow
<1>6. ASSUME NEW v \in Versions, NEW base \in 0 .. MaxRevision, NEW review \in BOOLEAN,
             Submit(v, base, review)
      PROVE  Row(w)'
  <2>1. state[v] = "none" /\ ~published_at[v] /\ Row(v)
    BY <1>6 DEF Submit, Rows, Known, DocumentInv
  <2>2. /\ state'[v] = "draft" /\ job_state'[v] = "queued"
        /\ UNCHANGED <<generation, active_generation, publication_mode, processing_status,
                       published_at>>
    BY <1>6 DEF Submit, Known
  <2>3. w # v => /\ state'[w] = state[w] /\ job_state'[w] = job_state[w]
                 /\ needs_review'[w] = needs_review[w]
    BY <1>6 DEF Submit, Known
  <2>4. Row(w)
    BY DEF Rows
  <2>5. CASE w = v
    BY <2>1, <2>2, <2>5 DEF Row, Parsed
  <2>6. CASE w # v
    BY <2>2, <2>3, <2>4, <2>6 DEF Row
  <2> QED
    BY <2>5, <2>6
<1>7. ASSUME NEW v \in Versions, ReviewName(v) PROVE Row(w)'
  BY <1>7 DEF ReviewName, Rows, Row, Known
<1>8. ASSUME NEW v \in Versions, WithdrawSubmission(v) PROVE Row(w)'
  BY <1>8 DEF WithdrawSubmission, Rows, Row, Known, DocumentInv
<1>9. ASSUME NEW v \in Versions, Retry(v) PROVE Row(w)'
  BY <1>9 DEF Retry, Retriable, Rows, Row, Known
<1> HIDE DEF TypeOK, Stored
<1> QED
  BY <1>1, <1>2, <1>3, <1>4, <1>5, <1>6, <1>7, <1>8, <1>9 DEF LifecycleNext

-----------------------------------------------------------------------------
(* Whatever the worker does, it does to the row of a version w one of four *)
(* things.                                                                 *)
Same(w) == active_generation'[w] = active_generation[w] /\ publication_mode'[w] = publication_mode[w]

Idles(w) ==
    /\ Same(w) /\ job_state'[w] = job_state[w] /\ generation'[w] = generation[w]
    /\ \/ processing_status'[w] = processing_status[w]
       \/ Stored(w) /\ processing_status'[w] \notin Parsed

Loses(w) ==
    /\ Same(w) /\ job_state[w] = "running" /\ job_state'[w] \in {"queued", "failed"}
    /\ processing_status'[w] = processing_status[w] \/ processing_status'[w] \notin Parsed

Starts(w) ==
    /\ Same(w) /\ job_state[w] \in {"queued", "running"} /\ ~needs_review[w]
    /\ job_state'[w] = "running" /\ processing_status'[w] = processing_status[w]

Finishes(w) ==
    /\ job_state[w] = "running" /\ job_state'[w] = "complete" /\ active_generation'[w] = generation[w]
    /\ publication_mode'[w] = publication_mode[w] \/ state[w] = "published"

Turn(w) == Idles(w) \/ Loses(w) \/ Starts(w) \/ Finishes(w)

(* Taking a job away from its executor touches the row of that job only.   *)
LEMMA RequeueTurn ==
    ASSUME TypeOK, NEW v \in Versions, Requeue(v), job_state[v] = "running",
           UNCHANGED <<active_generation, publication_mode>>, NEW w \in Versions
    PROVE  Idles(w) \/ Loses(w)
BY DEF Requeue, Idles, Loses, Same, Parsed, TypeOK, IndexTypes, JobTypes

(* What a transaction of the worker may do to the row of one version.      *)
LEMMA WorkerTurn ==
    ASSUME TypeOK, ClaimsInv, WorkerNext, NEW w \in Versions
    PROVE  Turn(w)
<1> USE DEF Turn, Same, TypeOK, IndexTypes, JobTypes, PublicationTypes, docVars, verVars, indexVars,
        jobVars
<1>1. ASSUME UNCHANGED <<indexVars, job_state, generation, publication_mode>> PROVE Turn(w)
  BY <1>1 DEF Idles
<1>2. ASSUME NEW e \in Executors, NEW v \in Versions, FailExhausted(e, v) PROVE Turn(w)
  BY <1>2 DEF FailExhausted, Exhausted, Idles, Loses, Parsed
<1>3. ASSUME NEW e \in Executors, NEW v \in Versions, PickJob(e, v) PROVE Turn(w)
  BY <1>3 DEF PickJob, Eligible, Claimable, Idles, Starts
<1>4. ASSUME NEW e \in Executors, MarkProcessing(e) PROVE Turn(w)
  BY <1>4 DEF MarkProcessing, WantsMark, Idles, Parsed
<1>5. ASSUME NEW e \in Executors, NEW status \in Parsed, Commit(e, status) PROVE Turn(w)
  BY <1>5 DEF Commit, Valid, Live, Idles, Finishes
<1>6. ASSUME NEW e \in Executors, Defer(e) PROVE Turn(w)
  BY <1>6 DEF Defer, Valid, Live, Idles, Loses, Parsed
<1>7. ASSUME NEW e \in Executors, NEW hopeless \in BOOLEAN, Fail(e, hopeless) PROVE Turn(w)
  BY <1>7 DEF Fail, Verdict, Valid, Live, Idles, Loses, Parsed
<1>8. ASSUME NEW e \in Executors, Release(e) PROVE Turn(w)
  <2>1. claimed[e] \in Versions
    BY <1>8 DEF Release, ClaimsInv, Holding
  <2>2. CASE job_state[claimed[e]] = "running" /\ Requeue(claimed[e])
    BY <1>8, <2>1, <2>2, RequeueTurn DEF Release
  <2>3. CASE UNCHANGED <<jobVars, processing_status>>
    BY <1>1, <1>8, <2>3 DEF Release
  <2> QED
    BY <1>8, <2>2, <2>3 DEF Release
<1>9. ASSUME NEW v \in Versions, RecoverInterrupted(v) PROVE Turn(w)
  BY <1>9, RequeueTurn DEF RecoverInterrupted
<1>10. ASSUME \/ \E e \in Executors :
                    \/ ReadExhausted(e) \/ ClaimNothing(e) \/ ReadClaim(e) \/ StartRun(e)
                    \/ Renew(e) \/ Abandon(e) \/ Break(e) \/ Crash(e)
              \/ \E v \in Versions : BecomeDue(v)
              \/ Tick
       PROVE  UNCHANGED <<indexVars, job_state, generation, publication_mode>>
  BY <1>10 DEF ReadExhausted, ClaimNothing, ReadClaim, StartRun, Renew, Abandon, Break, Crash,
               BecomeDue, Tick
<1> HIDE DEF Turn, TypeOK
<1> QED
  BY <1>1, <1>2, <1>3, <1>4, <1>5, <1>6, <1>7, <1>8, <1>9, <1>10
     DEF WorkerNext, Claim, RunClaim, Sweep

(* Every transaction of the worker keeps every row consistent.             *)
LEMMA WorkerRows ==
    ASSUME Known, Rows, WorkerNext
    PROVE  Rows'
<1> SUFFICES ASSUME NEW w \in Versions PROVE Row(w)'
  BY DEF Rows
<1>1. /\ Turn(w) /\ Row(w)
      /\ state[w] = "published" => published_at[w]
      /\ job_state[w] = "running" => generation[w] # 0
  BY WorkerTurn DEF Known, Rows, DocumentInv, IndexInv, FencesAdvance, TypeOK, IndexTypes, JobTypes
<1>2. UNCHANGED <<state[w], published_at[w], needs_review[w]>>
  BY WorkerLeavesDocuments DEF verVars
<1>3. CASE Idles(w)     BY <1>1, <1>2, <1>3 DEF Idles, Same, Row, Stored
<1>4. CASE Loses(w)     BY <1>1, <1>2, <1>4 DEF Loses, Same, Row, Stored
<1>5. CASE Starts(w)    BY <1>1, <1>2, <1>5 DEF Starts, Same, Row, Stored
<1>6. CASE Finishes(w)  BY <1>1, <1>2, <1>6 DEF Finishes, Row, Stored
<1> QED
  BY <1>1, <1>3, <1>4, <1>5, <1>6 DEF Turn

(* The invariant that ties the columns of a version together.              *)
THEOREM RowsInvariant == Spec => [](Known /\ Rows)
<1>1. Init => Rows
  BY DEF Init, Rows, Row, Stored
<1>2. Known /\ Rows /\ [Next]_vars => Rows'
  <2>1. Rows /\ UNCHANGED vars => Rows'
    BY DEF vars, verVars, indexVars, jobVars, Rows, Row, Stored
  <2> QED
    BY <2>1, LifecycleRows, WorkerRows DEF Next
<1> QED
  BY <1>1, <1>2, IndexInvariant, DocumentInvariant, PTL DEF Spec, Known

(* Nothing is parsed or published before its name is settled, what counts  *)
(* as content has a text, and a drawing is published only after its text   *)
(* was looked for, whatever the order of claims, reviews and publications. *)
THEOREM ReviewedFirst == Spec => []GatesHold
<1>1. Rows => GatesHold
  BY RowsAre DEF GatesHold
<1> QED
  BY <1>1, RowsInvariant, PTL

-----------------------------------------------------------------------------
(* Only the purge changes which versions are deleted, and only it and the  *)
(* publication of another version touch a version that is withdrawn.       *)
LEMMA DeletedStays ==
    ASSUME Known, [Next]_vars, ~ \E m \in Managers, d \in Documents : DeleteDocument(m, d),
           NEW v \in Versions
    PROVE  state'[v] = "deleted" <=> state[v] = "deleted"
<1> USE StoreAssumption DEF Known, TypeOK, PublicationTypes, DocumentInv, ActiveIsPublished
<1>1. ASSUME NEW u \in Versions, Activate(DocumentOf[u], u), state[u] # "deleted"
      PROVE  state'[v] = "deleted" <=> state[v] = "deleted"
  BY <1>1 DEF Activate
<1>2. ASSUME NEW m \in Managers, NEW d \in Documents, Withdraw(m, d)
      PROVE  state'[v] = "deleted" <=> state[v] = "deleted"
  BY <1>2 DEF Withdraw
<1>3. ASSUME NEW m \in Managers, NEW u \in Versions,
             Restore(m, u) \/ \E a \in BOOLEAN : Publish(m, u, a)
      PROVE  state'[v] = "deleted" <=> state[v] = "deleted"
  BY <1>1, <1>3 DEF Restore, Publish
<1>4. ASSUME NEW u \in Versions, NEW base, NEW review,
             Submit(u, base, review) \/ WithdrawSubmission(u)
      PROVE  state'[v] = "deleted" <=> state[v] = "deleted"
  BY <1>4 DEF Submit, WithdrawSubmission
<1>5. ASSUME \/ \E m \in Managers, d \in Documents :
                   Look(m, d) \/ SetGrants(m, d) \/ RenamePublished(m, d)
             \/ \E u \in Versions : ReviewName(u) \/ Retry(u)
             \/ WorkerNext
             \/ UNCHANGED vars
      PROVE  UNCHANGED state
  BY <1>5, WorkerLeavesDocuments
     DEF Look, SetGrants, RenamePublished, ReviewName, Retry, vars, verVars
<1> HIDE DEF Known, TypeOK, PublicationTypes, DocumentInv, ActiveIsPublished
<1> QED
  BY <1>2, <1>3, <1>4, <1>5 DEF Next, LifecycleNext

(* Only a commit under the running fence writes a text.                    *)
LEMMA TextOnlyCommitted ==
    ASSUME [Next]_vars, ~ \E m \in Managers, d \in Documents : DeleteDocument(m, d),
           ~ \E e \in Executors, status \in Parsed : Commit(e, status)
    PROVE  UNCHANGED <<active_generation, chunks>>
BY DEF Next, LifecycleNext, Look, Withdraw, SetGrants, RenamePublished, Publish, Restore, Submit,
       ReviewName, WithdrawSubmission, Retry, WorkerNext, Claim, RunClaim, Sweep, ReadExhausted,
       FailExhausted, PickJob, ClaimNothing, ReadClaim, MarkProcessing, StartRun, Renew, Abandon,
       Defer, Fail, Break, Release, RecoverInterrupted, Crash, Tick, BecomeDue, indexVars, vars

(* Every step of the program is a step of module VersionIndex or none.     *)
LEMMA IndexRefinementStep ==
    ASSUME Known, Rows, [Next]_vars
    PROVE  [Index!Next]_Index!vars
<1> DEFINE deleted == {v \in Versions : state[v] = "deleted"}
<1>1. ASSUME NEW m \in Managers, NEW d \in Documents, DeleteDocument(m, d)
      PROVE  Index!Next
  <2>1. Index!Remove(VersionsOf(d))
    BY <1>1 DEF Index!Remove, DeleteDocument, VersionsOf
  <2>2. VersionsOf(d) \in SUBSET Versions
    BY DEF VersionsOf
  <2> QED
    BY <2>1, <2>2 DEF Index!Next
<1>2. ASSUME ~ \E m \in Managers, d \in Documents : DeleteDocument(m, d)
      PROVE  deleted' = deleted
  BY <1>2, DeletedStays
<1>3. ASSUME NEW e \in Executors, NEW status \in Parsed, Commit(e, status),
             ~ \E m \in Managers, d \in Documents : DeleteDocument(m, d)
      PROVE  Index!Next
  <2> DEFINE v == claimed[e]
  <2>1. /\ v \in Versions /\ token[e] \in Nat /\ generation[v] = token[e]
        /\ job_state[v] = "running" /\ active_generation[v] < token[e]
    BY <1>3 DEF Commit, Known, ClaimsInv, IndexInv, FencesAdvance, Holding, Valid, Live, TypeOK,
                ExecutorTypes, IndexTypes, JobTypes
  <2>2. v \notin deleted
    BY <2>1 DEF Rows, Row
  <2>3. /\ active_generation' = [active_generation EXCEPT ![v] = token[e]]
        /\ chunks' = [chunks EXCEPT ![v] = ReplacedText(e, status)]
        /\ active_generation'[v] = token[e]
    BY <1>3, <2>1 DEF Commit, Known, TypeOK, IndexTypes
  <2>4. ReplacedText(e, status) \in {{}, {token[e]}}
    BY DEF ReplacedText
  <2>5. active_generation'[v] > active_generation[v]
    BY <2>1, <2>3 DEF Known, TypeOK, IndexTypes
  <2>6. Index!Switch(v)
    BY <1>2, <1>3, <2>2, <2>3, <2>4, <2>5 DEF Index!Switch
  <2> QED
    BY <2>1, <2>6 DEF Index!Next
<1>4. ASSUME ~ \E m \in Managers, d \in Documents : DeleteDocument(m, d),
             ~ \E e \in Executors, status \in Parsed : Commit(e, status)
      PROVE  UNCHANGED Index!vars
  BY <1>2, <1>4, TextOnlyCommitted DEF Index!vars
<1> QED
  BY <1>1, <1>3, <1>4

(* The columns of the library implement the abstract index: whatever       *)
(* claims, leases, retries and crashes do, a reader sees one text per      *)
(* version, replaced in single steps by the texts of later parses.         *)
THEOREM IndexImplemented == Spec => ImplementsIndex
<1>1. Init => Index!Init
  BY DEF Init, Index!Init
<1>2. Known /\ Rows /\ [Next]_vars => [Index!Next]_Index!vars
  BY IndexRefinementStep
<1> QED
  BY <1>1, <1>2, RowsInvariant, PTL DEF Spec, ImplementsIndex, Index!Spec

(* A withdrawn draft keeps its text and its cancelled job, although claims *)
(* made before the withdrawal still run.                                   *)
THEOREM WithdrawnDraftsFrozen == Spec => WithdrawnDraftIsFrozen
<1>1. ASSUME Known, Rows, [Next]_vars, NEW v \in Versions,
             job_state[v] = "cancelled", state'[v] # "deleted"
      PROVE  /\ job_state'[v] = "cancelled" /\ state'[v] = "withdrawn"
             /\ active_generation'[v] = active_generation[v] /\ chunks'[v] = chunks[v]
  <2>1. state[v] = "withdrawn" /\ ~published_at[v]
    BY <1>1 DEF Rows, Row
  <2>2. job_state'[v] = "cancelled" /\ state'[v] = "withdrawn"
    <3> USE <1>1, <2>1, StoreAssumption DEF Known, TypeOK, PublicationTypes, JobTypes
    <3>1. ASSUME NEW m \in Managers, NEW d \in Documents, DeleteDocument(m, d)
          PROVE  job_state'[v] = "cancelled" /\ state'[v] = "withdrawn"
      BY <3>1 DEF DeleteDocument
    <3>2. ASSUME NEW m \in Managers, NEW d \in Documents, Withdraw(m, d)
          PROVE  job_state'[v] = "cancelled" /\ state'[v] = "withdrawn"
      BY <3>2 DEF Withdraw, DocumentInv, ActiveIsPublished, jobVars
    <3>3. ASSUME NEW m \in Managers, NEW u \in Versions,
                 Restore(m, u) \/ \E a \in BOOLEAN : Publish(m, u, a)
          PROVE  job_state'[v] = "cancelled" /\ state'[v] = "withdrawn"
      <4>1. u # v /\ UNCHANGED jobVars /\ Activate(DocumentOf[u], u)
        BY <3>3 DEF Restore, Publish
      <4>2. active_version_id[DocumentOf[u]] # v
        BY DEF DocumentInv, ActiveIsPublished
      <4> QED
        BY <4>1, <4>2 DEF Activate, jobVars
    <3>4. ASSUME NEW u \in Versions, NEW base, NEW review, Submit(u, base, review)
          PROVE  job_state'[v] = "cancelled" /\ state'[v] = "withdrawn"
      BY <3>4 DEF Submit
    <3>5. ASSUME NEW u \in Versions, ReviewName(u) \/ WithdrawSubmission(u) \/ Retry(u)
          PROVE  job_state'[v] = "cancelled" /\ state'[v] = "withdrawn"
      BY <3>5 DEF ReviewName, WithdrawSubmission, Retry, Retriable, jobVars, verVars
    <3>6. ASSUME NEW m \in Managers, NEW d \in Documents,
                 Look(m, d) \/ SetGrants(m, d) \/ RenamePublished(m, d)
          PROVE  job_state'[v] = "cancelled" /\ state'[v] = "withdrawn"
      BY <3>6 DEF Look, SetGrants, RenamePublished, jobVars, verVars
    <3>7. ASSUME WorkerNext PROVE job_state'[v] = "cancelled" /\ state'[v] = "withdrawn"
      BY <3>7, WorkerTurn, WorkerLeavesDocuments DEF Turn, Idles, Loses, Starts, Finishes
    <3>8. ASSUME UNCHANGED vars PROVE job_state'[v] = "cancelled" /\ state'[v] = "withdrawn"
      BY <3>8 DEF vars, verVars, jobVars
    <3> HIDE DEF Known, TypeOK, PublicationTypes, JobTypes
    <3> QED
      BY <3>1, <3>2, <3>3, <3>4, <3>5, <3>6, <3>7, <3>8 DEF Next, LifecycleNext
  <2>3. Effect(v)
    BY <1>1, StepEffect DEF Known
  <2> QED
    BY <1>1, <2>2, <2>3 DEF Effect, Leaves, Stops, Claims, Switches, Purges, Text
<1>2. Known /\ Rows /\ [Next]_vars => [WithdrawnDraftStays]_vars
  BY <1>1 DEF WithdrawnDraftStays
<1> QED
  BY <1>2, RowsInvariant, PTL DEF Spec, WithdrawnDraftIsFrozen
=============================================================================
