--------------------------- MODULE KnowledgeStore ---------------------------
(***************************************************************************)
(* The API process and the workers together on one database, and what they *)
(* promise: the index, the jobs and the publication state stay consistent  *)
(* whatever the interleaving of their transactions, and every job settles. *)
(***************************************************************************)
EXTENDS Lifecycle, Worker

Next == LifecycleNext \/ WorkerNext

Spec == Init /\ [][Next]_vars

-----------------------------------------------------------------------------
(* The index (chunks and active_generation).                               *)

(* Search joins chunks on the active generation, so the rows of a version  *)
(* are those of its active generation and of no other: no reader finds a   *)
(* text twice, and no half-replaced text is left behind by run_claim,      *)
(* however many claims of the version were overtaken or interrupted.       *)
IndexIsWhole == \A v \in Versions : chunks[v] \subseteq {active_generation[v]} \ {0}

(* "An old process cannot overwrite newer results": the active generation  *)
(* of a version only ever moves to a claim made later, unless the version  *)
(* is purged.                                                              *)
IndexAdvances ==
    \A v \in Versions :
        \/ active_generation'[v] >= active_generation[v]
        \/ state'[v] = "deleted"

IndexNeverRegresses == [][IndexAdvances]_vars

(* A draft its author withdrew (or the approver rejected) is cut off from  *)
(* the worker for good: a claim that was still running when it was         *)
(* withdrawn changes neither its text nor the cancelled job.               *)
WithdrawnDraftStays ==
    \A v \in Versions :
        job_state[v] = "cancelled" /\ state'[v] # "deleted" =>
            /\ job_state'[v] = "cancelled"
            /\ state'[v] = "withdrawn"
            /\ active_generation'[v] = active_generation[v]
            /\ chunks'[v] = chunks[v]

WithdrawnDraftIsFrozen == [][WithdrawnDraftStays]_vars

-----------------------------------------------------------------------------
(* The jobs.                                                               *)

(* A claim that Worker._valid accepts is exclusive: of all the executors   *)
(* that ever claimed a version, at most one can still write its result.    *)
ExclusiveClaim ==
    \A e, f \in Executors :
        /\ Holding(e) /\ Holding(f) /\ claimed[e] = claimed[f]
        /\ Valid(e) /\ Valid(f)
        => e = f

(* The database limits the jobs running under a live lease across all      *)
(* executors, and the OCR-heavy ones among them, whoever claims when.      *)
SlotsRespected ==
    /\ Cardinality(LiveJobs) <= SlotLimit
    /\ Cardinality(LiveJobs \cap Heavy) <= HeavyLimit

(* A lease that ran out is never extended: the job goes to a later claim   *)
(* or leaves "running".                                                    *)
ExpiredLeaseNeedsNewClaim ==
    \A v \in Versions :
        /\ job_state[v] = "running" /\ lease[v] = 0
        /\ job_state'[v] = "running" /\ lease'[v] > 0
        => generation'[v] > generation[v]

ExpiredLeaseIsLost == [][ExpiredLeaseNeedsNewClaim]_vars

(* "An old process cannot overwrite newer results" (README.md:116), said   *)
(* of a failure: once a job has failed, nothing but a new start (an        *)
(* explicit retry) changes what its version shows.  The last statement of  *)
(* a claim may have read the job before it failed, when its lease had run  *)
(* out and another executor's sweep had the version: it writes             *)
(* "processing" over the failure, for good.                                *)
FailureStands ==
    \A v \in Versions :
        job_state[v] = "failed" /\ job_state'[v] = "failed"
        => processing_status'[v] = processing_status[v]

FailureIsFinal == [][FailureStands]_vars

(* A complete job is the one whose text is being shown, with a status the  *)
(* reviewer can act on.                                                    *)
CompleteIsIndexed ==
    \A v \in Versions :
        job_state[v] = "complete" =>
            /\ active_generation[v] = generation[v] /\ generation[v] # 0
            /\ processing_status[v] \in Parsed
            /\ chunks[v] = {} <=> processing_status[v] = "stored_only"

(* "Background failures have bounded retries": interrupted, overtaken and  *)
(* failing claims together never exceed the attempts of a job.             *)
AttemptsBounded == \A v \in Versions : attempts[v] <= MaxAttempts

(* run_claim decides from the number it got with its claim, never from the *)
(* row, whether a failure was the last attempt: while it may still write   *)
(* its result, that number is the row's, although deferrals, releases, an  *)
(* operator and retries hand attempts back.                                *)
AttemptIsRemembered ==
    \A e \in Executors :
        Holding(e) /\ Valid(e) => tries[e] = attempts[claimed[e]]

(* A job that keeps failing ends after the attempts it has, not before and *)
(* not later, whoever interrupts whom.                                     *)
AttemptsCount == AttemptsBounded /\ AttemptIsRemembered

(* Parsing waits for the name: no claim, and so no text and no failure, of *)
(* a file that still awaits its name review; and such a file is never      *)
(* published.                                                              *)
NamedFirst ==
    \A v \in Versions :
        needs_review[v] =>
            /\ generation[v] = 0 /\ active_generation[v] = 0
            /\ job_state[v] \notin {"running", "complete", "failed"}
            /\ ~published_at[v]

-----------------------------------------------------------------------------
(* The documents.                                                          *)

(* The document's pointer and the states of its versions agree: the active *)
(* version is the published one, and there is no other.                    *)
ActiveIsPublished ==
    \A v \in Versions :
        state[v] = "published" <=> active_version_id[DocumentOf[v]] = v

(* "An old draft cannot overwrite a newer one": of the drafts written      *)
(* against the same revision of a document at most one is ever published,  *)
(* also with withdrawals, restores and other edits in between.             *)
OnePublicationPerBase ==
    \A v, w \in Versions :
        /\ published_at[v] /\ published_at[w]
        /\ DocumentOf[v] = DocumentOf[w] /\ base_revision[v] = base_revision[w]
        => v = w

(* A document has one published version at a time, and one per revision    *)
(* that was written against ever.                                          *)
OnePublication == ActiveIsPublished /\ OnePublicationPerBase

(* The revision is enough to detect a change: a manager whose page shows   *)
(* the current revision also sees the current active version, so publish,  *)
(* withdraw and restore never act on a version it did not see.             *)
RevisionTellsChange ==
    \A m \in Managers, d \in Documents :
        view[m][d].revision = revision[d] /\ Exists(d)
        => view[m][d].active = active_version_id[d]

(* A version that counts as published content has been parsed, even while  *)
(* it is parsed again.                                                     *)
ContentIsParsed ==
    \A v \in Versions :
        publication_mode[v] = "content" /\ Stored(v)
        => active_generation[v] # 0 /\ published_at[v]

(* A drawing that was ever published has been looked through for text, and *)
(* stays so while it is parsed again, withdrawn or restored.               *)
CadIsParsedFirst ==
    \A v \in Cad : Stored(v) /\ published_at[v] => active_generation[v] # 0

(* The gates between naming, parsing and publishing stay shut: a file is   *)
(* parsed after it is named, counts as content after it is parsed, and a   *)
(* drawing is parsed before it is published.                               *)
GatesHold == NamedFirst /\ ContentIsParsed /\ CadIsParsedFirst

-----------------------------------------------------------------------------
(* Why these properties hold: what every step preserves.                   *)

(* Every claim has a fence of its own, handed out in ascending order.      *)
ClaimsInv ==
    /\ \A e \in Executors : Holding(e) =>
          claimed[e] \in Versions /\ token[e] \in 1 .. next_generation - 1
    /\ \A e, f \in Executors : Holding(e) /\ Holding(f) /\ token[e] = token[f] => e = f

(* The fence of a running job is newer than the text the version has.      *)
FencesAdvance ==
    \A v \in Versions :
        /\ generation[v] < next_generation /\ active_generation[v] < next_generation
        /\ job_state[v] = "running" => generation[v] > active_generation[v]

(* What a search can find is the text of the latest claim that ended.      *)
IndexInv == FencesAdvance /\ IndexIsWhole /\ CompleteIsIndexed

(* The purge takes all versions of a document, and the states a version    *)
(* goes through agree with what is recorded about its publication.         *)
DocumentInv ==
    /\ ActiveIsPublished
    /\ \A d \in Documents :
          active_version_id[d] # NoVersion => DocumentOf[active_version_id[d]] = d
    /\ \A v, w \in Versions :
          DocumentOf[v] = DocumentOf[w] /\ state[v] = "deleted" => state[w] = "deleted"
    /\ \A v \in Versions :
          /\ state[v] \in {"none", "draft"} => ~published_at[v]
          /\ state[v] = "published" => published_at[v]
          /\ published_at[v] => base_revision[v] < revision[DocumentOf[v]]

(* What a manager's page shows is an earlier or the current revision; the  *)
(* current one shows the current active version, until the purge.          *)
ViewInv ==
    \A m \in Managers, d \in Documents :
        /\ view[m][d].revision <= revision[d]
        /\ \/ \E v \in VersionsOf(d) : state[v] = "deleted"
           \/ view[m][d].revision = revision[d] => view[m][d].active = active_version_id[d]

(* The columns of one version agree: a row that does not exist yet is      *)
(* blank, a cancelled job belongs to a draft that was withdrawn, and a     *)
(* status that tells of a text comes with that text.                       *)
RowInv ==
    \A v \in Versions :
        /\ state[v] \in {"none", "deleted"} => job_state[v] = "none"
        /\ state[v] = "none" =>
              /\ generation[v] = 0 /\ active_generation[v] = 0
              /\ publication_mode[v] = "unset" /\ processing_status[v] = "queued"
        /\ job_state[v] = "cancelled" => state[v] = "withdrawn" /\ ~published_at[v]
        /\ Stored(v) /\ processing_status[v] \in Parsed => active_generation[v] # 0

-----------------------------------------------------------------------------
(* The abstract index, implemented by the columns.                         *)
Index == INSTANCE VersionIndex
           WITH latest <- active_generation,
                shown <- chunks,
                gone <- {v \in Versions : state[v] = "deleted"}

ImplementsIndex == Index!Spec

-----------------------------------------------------------------------------
(* Fairness.  The pools tick as long as a worker process runs, the parser  *)
(* subprocesses have timeouts, and time passes.  A process that crashes is *)
(* started again and does not die in every single sweep, hence the strong  *)
(* fairness.  Nothing obliges a person to submit, review, publish or retry.*)
Fairness ==
    /\ \A e \in Executors : WF_vars(Claim(e) \/ RunClaim(e) \/ Release(e)) /\ SF_vars(Sweep(e))
    /\ \A v \in Versions : WF_vars(BecomeDue(v))
    /\ WF_vars(Tick)

FairSpec == Spec /\ Fairness

(* Every submitted file whose name is settled comes to an end: its job is  *)
(* complete, failed or cancelled (or purged), though workers crash, leases *)
(* run out and claims are overtaken.  Submissions and retries are bounded, *)
(* so from some time on no job is open but one that waits for its name.    *)
EveryJobSettles ==
    <>[](\A v \in Versions : job_state[v] \in {"queued", "running"} => needs_review[v])
=============================================================================
