------------------------------- MODULE Store -------------------------------
(***************************************************************************)
(* The PostgreSQL tables shared by the API process and the worker: the     *)
(* columns of documents, versions, jobs and chunks that the lifecycle      *)
(* handlers (module Lifecycle) and the parsing worker (module Worker) read *)
(* and write, one variable per column, and the memory of the two kinds of  *)
(* process: the executors of the worker pools and the managers' browsers.  *)
(*                                                                         *)
(* Every action of the two modules is one database transaction.  It takes  *)
(* the row locks it needs before it looks, so it is one atomic step; what  *)
(* is NOT atomic, and is modelled as separate steps, is everything between *)
(* two transactions of the same handler, and the one statement that looks  *)
(* at a job without a lock (ReadClaim and MarkProcessing of Worker).       *)
(*                                                                         *)
(* A definition named F_Mistake is F as a plausible bug would have it.  No *)
(* action uses it: it is there to show that a property notices the bug.    *)
(***************************************************************************)
EXTENDS Integers, FiniteSets

CONSTANTS
    Documents,      \* ids of documents
    Versions,       \* ids of versions (and of the one job of each version)
    NoVersion,      \* NULL in documents.active_version_id
    Executors,      \* slots of every worker pool, of every worker process
    Managers,       \* signed-in managers, each with what its page last showed
    DocumentOf,     \* the document a version belongs to (versions.document_id)
    Heavy,          \* versions whose file satisfies _HEAVY_JOB_SQL
    Cad,            \* versions whose file is .dwg or .dxf
    MaxAttempts,    \* settings.worker_max_attempts
    Concurrency,    \* settings.worker_concurrency
    LeaseTicks,     \* WORKER_LEASE_SECONDS, in ticks of the model's clock
    MaxRevision,    \* bound: no document is changed more often than this
    MaxRefunds      \* bound: how often an attempt is handed back, by all events

ASSUME StoreAssumption ==
    /\ IsFiniteSet(Versions)
    /\ NoVersion \notin Versions
    /\ DocumentOf \in [Versions -> Documents]
    /\ Heavy \subseteq Versions
    /\ Cad \subseteq Versions
    /\ MaxAttempts \in Nat \ {0}
    /\ Concurrency \in Int
    /\ LeaseTicks \in Nat \ {0}
    /\ MaxRevision \in Nat
    /\ MaxRefunds \in Nat

VARIABLES
    \* documents
    revision,           \* [Documents -> Nat]
    active_version_id,  \* [Documents -> Versions \cup {NoVersion}]
    \* versions
    state,              \* "none" before the submission, "deleted" after the purge
    base_revision,
    processing_status,
    active_generation,  \* the generation search reads; 0 stands for NULL
    published_at,       \* whether the column is set
    publication_mode,   \* "unset" stands for NULL
    needs_review,       \* capabilities.naming_review.needs_review
    \* jobs, keyed by version
    job_state,          \* "none" while there is no row
    generation,         \* the fence of the last claim; 0 stands for NULL
    attempts,
    lease,              \* ticks left until lease_until; 0 = expired or NULL
    due,                \* next_attempt_at <= now()
    \* chunks
    chunks,             \* the generations a version has chunk rows of
    \* executors of the worker pools
    pc, claimed, token, tries, stale,
    next_generation,    \* uuid4(): generations are numbered in claim order
    refunds,            \* events so far that hand back an attempt of some job
    \* managers
    view                \* revision and active version each manager last saw

docVars   == <<revision, active_version_id>>
verVars   == <<state, base_revision, published_at, publication_mode, needs_review>>
indexVars == <<processing_status, active_generation, chunks>>
jobVars   == <<job_state, generation, attempts, lease, due>>
execVars  == <<pc, claimed, token, tries, stale>>
vars == <<docVars, verVars, indexVars, jobVars, execVars, next_generation, refunds, view>>

-----------------------------------------------------------------------------
VersionStates == {"none", "draft", "published", "superseded", "withdrawn", "deleted"}
Parsed        == {"ready", "partial", "stored_only"}
Statuses      == {"queued", "processing", "failed"} \cup Parsed
JobStates     == {"none", "queued", "running", "complete", "failed", "cancelled"}
Modes         == {"unset", "content", "file_only"}
Steps         == {"idle", "sweep", "claimed", "marking", "submitted", "parsing", "broken"}

View == [revision : Nat, active : Versions \cup {NoVersion}]

PublicationTypes ==
    /\ revision \in [Documents -> Nat]
    /\ active_version_id \in [Documents -> Versions \cup {NoVersion}]
    /\ state \in [Versions -> VersionStates]
    /\ base_revision \in [Versions -> Nat]
    /\ published_at \in [Versions -> BOOLEAN]
    /\ publication_mode \in [Versions -> Modes]
    /\ needs_review \in [Versions -> BOOLEAN]
    /\ view \in [Managers -> [Documents -> View]]

IndexTypes ==
    /\ processing_status \in [Versions -> Statuses]
    /\ active_generation \in [Versions -> Nat]
    /\ chunks \in [Versions -> SUBSET Nat]

JobTypes ==
    /\ job_state \in [Versions -> JobStates]
    /\ generation \in [Versions -> Nat]
    /\ attempts \in [Versions -> Nat]
    /\ lease \in [Versions -> Nat]
    /\ due \in [Versions -> BOOLEAN]
    /\ next_generation \in Nat \ {0}
    /\ refunds \in Nat

ExecutorTypes ==
    /\ pc \in [Executors -> Steps]
    /\ claimed \in [Executors -> Versions \cup {NoVersion}]
    /\ token \in [Executors -> Nat]
    /\ tries \in [Executors -> Nat]
    /\ stale \in [Executors -> SUBSET Versions]

TypeOK == PublicationTypes /\ IndexTypes /\ JobTypes /\ ExecutorTypes

(* An empty library: no row in any table, no executor busy.                *)
Init ==
    /\ revision = [d \in Documents |-> 0]
    /\ active_version_id = [d \in Documents |-> NoVersion]
    /\ state = [v \in Versions |-> "none"]
    /\ base_revision = [v \in Versions |-> 0]
    /\ processing_status = [v \in Versions |-> "queued"]
    /\ active_generation = [v \in Versions |-> 0]
    /\ published_at = [v \in Versions |-> FALSE]
    /\ publication_mode = [v \in Versions |-> "unset"]
    /\ needs_review = [v \in Versions |-> FALSE]
    /\ job_state = [v \in Versions |-> "none"]
    /\ generation = [v \in Versions |-> 0]
    /\ attempts = [v \in Versions |-> 0]
    /\ lease = [v \in Versions |-> 0]
    /\ due = [v \in Versions |-> FALSE]
    /\ chunks = [v \in Versions |-> {}]
    /\ pc = [e \in Executors |-> "idle"]
    /\ claimed = [e \in Executors |-> NoVersion]
    /\ token = [e \in Executors |-> 0]
    /\ tries = [e \in Executors |-> 0]
    /\ stale = [e \in Executors |-> {}]
    /\ next_generation = 1
    /\ refunds = 0
    /\ view = [m \in Managers |-> [d \in Documents |-> [revision |-> 0, active |-> NoVersion]]]

-----------------------------------------------------------------------------
(* Rows.  A document has rows exactly while one of its versions has: they  *)
(* are created together by submit and purged together by delete_document.  *)
Stored(v)     == state[v] \notin {"none", "deleted"}
VersionsOf(d) == {v \in Versions : DocumentOf[v] = d}
Exists(d)     == \E v \in VersionsOf(d) : Stored(v)
Unused(d)     == \A v \in VersionsOf(d) : state[v] = "none"

(* Jobs, as the worker's SQL tells them apart.                             *)
Live(v)      == job_state[v] = "running" /\ lease[v] > 0
LiveJobs     == {v \in Versions : Live(v)}
Exhausted_Beyond(v) == job_state[v] = "running" /\ lease[v] = 0 /\ attempts[v] > MaxAttempts
Exhausted(v)        == job_state[v] = "running" /\ lease[v] = 0 /\ attempts[v] >= MaxAttempts

(* What a version counts as once published: searchable text, or a file.    *)
ModeFor_AnyText(status) == IF status # "failed" THEN "content" ELSE "file_only"
ModeFor(status)        == IF status = "ready" THEN "content" ELSE "file_only"

AtLeastOne(n) == IF n < 1 THEN 1 ELSE n
SlotLimit     == AtLeastOne(IF Concurrency > 5 THEN 5 ELSE Concurrency)
HeavyLimit    == AtLeastOne(IF Concurrency > 2 THEN 2 ELSE Concurrency)
=============================================================================
