---------------------------- MODULE MCBackground ----------------------------
(* What every worker process does in the background, for TLC: its naming   *)
(* thread and its pools of executors (worker.py, WorkerPool.tick).  A file *)
(* that waits for its name has no part in the other (needs_review keeps    *)
(* its job from being claimed), so a behaviour is about one of them: jobs  *)
(* of an empty library while no draft is open, or drafts while the pools   *)
(* have nothing to do.                                                     *)
EXTENDS Naming

CONSTANTS Documents, Versions, NoVersion, Executors, Managers, DocumentOf, Heavy, Cad,
          MaxAttempts, Concurrency, LeaseTicks, MaxRevision, MaxRefunds

VARIABLES revision, active_version_id, state, base_revision, processing_status,
          active_generation, published_at, publication_mode, needs_review, job_state,
          generation, attempts, lease, due, chunks, pc, claimed, token, tries, stale,
          next_generation, refunds, view, work

Store == INSTANCE KnowledgeStore

EachItsOwn == [v \in Versions |-> v]

storeVars == <<revision, active_version_id, state, base_revision, published_at, publication_mode,
               needs_review, processing_status, active_generation, chunks, job_state, generation,
               attempts, lease, due, pc, claimed, token, tries, stale, next_generation, refunds,
               view>>
all == <<vars, storeVars, work>>

Named ==
    /\ naming = [d \in Drafts |-> [state |-> "done", token |-> 0, over |-> FALSE]]
    /\ title = [d \in Drafts |-> [by |-> "person", project |-> None, prefix |-> None]]
    /\ ProjectsInit
    /\ tx = [x \in People |-> Idle]
    /\ used = [trouble |-> 0, review |-> 0]

InitBoth ==
    /\ Store!Init
    /\ \/ work = "names" /\ Init
       \/ work = "jobs" /\ Named

NextOfBoth ==
    \/ work = "names" /\ Next /\ UNCHANGED <<storeVars, work>>
    \/ work = "jobs" /\ Store!Next /\ UNCHANGED <<vars, work>>

(* The fairness of Naming and of KnowledgeStore, for the one at work.      *)
FairnessOfBoth ==
    /\ \A w \in Namers : WF_vars(work = "names" /\ Batch(w))
    /\ \A r \in Reviewers : WF_vars(work = "names" /\ Transaction(r))
    /\ \A d \in Drafts : WF_vars(work = "names" /\ Lapse(d))
    /\ \A e \in Executors :
          /\ WF_storeVars(work = "jobs" /\ (Store!Claim(e) \/ Store!RunClaim(e) \/ Store!Release(e)))
          /\ SF_storeVars(work = "jobs" /\ Store!Sweep(e))
    /\ \A v \in Versions : WF_storeVars(work = "jobs" /\ Store!BecomeDue(v))
    /\ WF_storeVars(work = "jobs" /\ Store!Tick)

SpecOfBoth == InitBoth /\ [][NextOfBoth]_all /\ FairnessOfBoth

(* Every job of a file whose name is settled comes to an end               *)
(* (KnowledgeStore).                                                       *)
EveryJobSettles == Store!EveryJobSettles
=============================================================================
