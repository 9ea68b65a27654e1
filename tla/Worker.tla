------------------------------- MODULE Worker -------------------------------
(***************************************************************************)
(* The parsing worker (worker.py): claiming a job under a lease and a      *)
(* fencing generation, parsing outside any transaction, and the final      *)
(* transaction that switches the index, defers, retries or fails the job.  *)
(*                                                                         *)
(* pc[e] says which transaction of the handler executor e runs next:       *)
(*   idle      -> Worker.claim reads the exhausted jobs                    *)
(*   sweep     -> claim fails the jobs in stale[e], then picks a job       *)
(*   claimed   -> claim's last statement takes its snapshot                *)
(*   marking   -> that statement marks the version as processing           *)
(*   submitted -> run_claim checks that the claim is still valid           *)
(*   parsing   -> run_claim commits its result                             *)
(*   broken    -> the future raised; WorkerPool.tick releases the claim    *)
(* Between two of these steps the other actors may do anything, the lease  *)
(* may run out and the process may die.                                    *)
(***************************************************************************)
EXTENDS Store

Become(e, step) ==
    /\ pc' = [pc EXCEPT ![e] = step]
    /\ UNCHANGED <<claimed, token, tries, stale>>

(* The executor forgets its claim and is available again.                  *)
Drop(e) ==
    /\ pc' = [pc EXCEPT ![e] = "idle"]
    /\ claimed' = [claimed EXCEPT ![e] = NoVersion]
    /\ token' = [token EXCEPT ![e] = 0]
    /\ tries' = [tries EXCEPT ![e] = 0]
    /\ stale' = [stale EXCEPT ![e] = {}]

OneLess(n) == IF n > 0 THEN n - 1 ELSE 0

(* The claim an executor holds, and the one thread that may extend it.     *)
Holding(e) == pc[e] \in {"claimed", "marking", "submitted", "parsing", "broken"}

(* Worker._valid: the job still runs under this generation and lease.      *)
Valid_NoFence(e) == Live(claimed[e])

Valid(e) ==
    /\ Live(claimed[e])
    /\ generation[claimed[e]] = token[e]

-----------------------------------------------------------------------------
(* Worker.claim, first transaction.                                        *)
ReadExhausted(e) ==
    /\ pc[e] = "idle"
    /\ stale' = [stale EXCEPT ![e] = {v \in Versions : Exhausted(v)}]
    /\ pc' = [pc EXCEPT ![e] = "sweep"]
    /\ UNCHANGED <<docVars, verVars, indexVars, jobVars, claimed, token, tries,
                   next_generation, refunds, view>>

(* One transaction per exhausted job; the row is checked again under the   *)
(* version's lock, it may have moved on since it was read.                 *)
FailExhausted(e, v) ==
    /\ pc[e] = "sweep"
    /\ v \in stale[e]
    /\ stale' = [stale EXCEPT ![e] = @ \ {v}]
    /\ \/ /\ Exhausted(v)
          /\ job_state' = [job_state EXCEPT ![v] = "failed"]
          /\ processing_status' = IF active_generation[v] = 0
                                  THEN [processing_status EXCEPT ![v] = "failed"]
                                  ELSE processing_status
       \/ /\ ~Exhausted(v)
          /\ UNCHANGED <<job_state, processing_status>>
    /\ UNCHANGED <<docVars, verVars, active_generation, chunks, generation, attempts, lease, due,
                   pc, claimed, token, tries, next_generation, refunds, view>>

SlotsFull_OffByOne == Cardinality(LiveJobs) > SlotLimit
SlotsFull == Cardinality(LiveJobs) >= SlotLimit
HeavyFull == Cardinality(LiveJobs \cap Heavy) >= HeavyLimit

Claimable(v) ==
    \/ job_state[v] = "queued" /\ due[v]
    \/ job_state[v] = "running" /\ lease[v] = 0

Eligible_OnceMore(v) ==
    /\ attempts[v] <= MaxAttempts /\ ~needs_review[v] /\ Claimable(v)
    /\ HeavyFull => v \notin Heavy

Eligible_Unnamed(v) ==
    /\ attempts[v] < MaxAttempts /\ Claimable(v)
    /\ HeavyFull => v \notin Heavy

Eligible(v) ==
    /\ attempts[v] < MaxAttempts /\ ~needs_review[v] /\ Claimable(v)
    /\ HeavyFull => v \notin Heavy

(* The number of the attempt that a claim hands its executor.              *)
ThisAttempt_AsRead(v) == attempts[v]
ThisAttempt(v)        == attempts[v] + 1

(* The transaction under the worker-slots lock.  SKIP LOCKED passes over   *)
(* rows other transactions hold at that moment, so the oldest row left can *)
(* be any of the eligible ones.                                            *)
PickJob(e, v) ==
    /\ pc[e] = "sweep" /\ stale[e] = {}
    /\ ~SlotsFull
    /\ Eligible(v)
    /\ job_state' = [job_state EXCEPT ![v] = "running"]
    /\ generation' = [generation EXCEPT ![v] = next_generation]
    /\ next_generation' = next_generation + 1
    /\ attempts' = [attempts EXCEPT ![v] = @ + 1]
    /\ lease' = [lease EXCEPT ![v] = LeaseTicks]
    /\ claimed' = [claimed EXCEPT ![e] = v]
    /\ token' = [token EXCEPT ![e] = next_generation]
    /\ tries' = [tries EXCEPT ![e] = ThisAttempt(v)]
    /\ pc' = [pc EXCEPT ![e] = "claimed"]
    /\ UNCHANGED <<docVars, verVars, indexVars, due, stale, refunds, view>>

ClaimNothing(e) ==
    /\ pc[e] = "sweep" /\ stale[e] = {}
    /\ SlotsFull \/ \A v \in Versions : ~Eligible(v)
    /\ Drop(e)
    /\ UNCHANGED <<docVars, verVars, indexVars, jobVars, next_generation, refunds, view>>

(* claim's last transaction is one UPDATE of the version's row that asks,  *)
(* in a subquery, whether the job is still claimed.  It holds no lock when *)
(* it begins: it reads both rows in its snapshot, and whoever locked the   *)
(* version first goes first.  When the statement gets the row, PostgreSQL  *)
(* checks it again, as it is now, but not the job.                         *)
WantsMark(v) == Stored(v) /\ state[v] # "withdrawn" /\ active_generation[v] = 0

StillClaimed(e) ==
    /\ WantsMark(claimed[e])
    /\ job_state[claimed[e]] = "running" /\ generation[claimed[e]] = token[e]

ReadClaim(e) ==
    /\ pc[e] = "claimed"
    /\ Become(e, IF StillClaimed(e) THEN "marking" ELSE "submitted")
    /\ UNCHANGED <<docVars, verVars, indexVars, jobVars, next_generation, refunds, view>>

MarkProcessing(e) ==
    /\ pc[e] = "marking"
    /\ processing_status' = IF WantsMark(claimed[e])
                            THEN [processing_status EXCEPT ![claimed[e]] = "processing"]
                            ELSE processing_status
    /\ Become(e, "submitted")
    /\ UNCHANGED <<docVars, verVars, active_generation, chunks, jobVars, next_generation,
                   refunds, view>>

StartRun(e) ==
    /\ pc[e] = "submitted"
    /\ IF Valid(e) THEN Become(e, "parsing") ELSE Drop(e)
    /\ UNCHANGED <<docVars, verVars, indexVars, jobVars, next_generation, refunds, view>>

(* WorkerPool.tick renews the leases of the claims it has submitted.       *)
Renew(e) ==
    /\ pc[e] \in {"submitted", "parsing"}
    /\ Valid(e)
    /\ lease' = [lease EXCEPT ![claimed[e]] = LeaseTicks]
    /\ UNCHANGED <<docVars, verVars, indexVars, job_state, generation, attempts, due, execVars,
                   next_generation, refunds, view>>

-----------------------------------------------------------------------------
(* The final transaction of run_claim, in its three forms.  Each checks    *)
(* Valid again under the locks; a claim that is no longer valid is dropped.*)
Abandon(e) ==
    /\ pc[e] = "parsing"
    /\ ~Valid(e)
    /\ Drop(e)
    /\ UNCHANGED <<docVars, verVars, indexVars, jobVars, next_generation, refunds, view>>

Extracted(e, status) == IF status = "stored_only" THEN {} ELSE {token[e]}

AddedText(e, status)    == chunks[claimed[e]] \cup Extracted(e, status)
ReplacedText(e, status) == {g \in AddedText(e, status) : g = token[e]}

(* The text was extracted: its chunks replace those of every other         *)
(* generation.  A file that is only stored has no chunks; an embedding     *)
(* failure turns "ready" into "partial".  A published version's mode       *)
(* follows the new status.                                                 *)
Commit(e, status) ==
    LET v == claimed[e] IN
    /\ pc[e] = "parsing"
    /\ Valid(e)
    /\ chunks' = [chunks EXCEPT ![v] = ReplacedText(e, status)]
    /\ active_generation' = [active_generation EXCEPT ![v] = token[e]]
    /\ processing_status' = [processing_status EXCEPT ![v] = status]
    /\ publication_mode' = IF state[v] = "published"
         THEN [publication_mode EXCEPT ![v] = ModeFor(status)]
         ELSE publication_mode
    /\ job_state' = [job_state EXCEPT ![v] = "complete"]
    /\ lease' = [lease EXCEPT ![v] = 0]
    /\ Drop(e)
    /\ UNCHANGED <<docVars, state, base_revision, published_at, needs_review, generation,
                   attempts, due, next_generation, refunds, view>>

(* VisionDeferred: the job waits for the vision budget and the attempt is  *)
(* not spent.                                                              *)
Defer(e) ==
    LET v == claimed[e] IN
    /\ pc[e] = "parsing"
    /\ Valid(e)
    /\ refunds < MaxRefunds
    /\ refunds' = refunds + 1
    /\ job_state' = [job_state EXCEPT ![v] = "queued"]
    /\ lease' = [lease EXCEPT ![v] = 0]
    /\ attempts' = [attempts EXCEPT ![v] = OneLess(@)]
    /\ due' = [due EXCEPT ![v] = FALSE]
    /\ processing_status' = [processing_status EXCEPT ![v] = "queued"]
    /\ Drop(e)
    /\ UNCHANGED <<docVars, verVars, active_generation, chunks, generation, next_generation,
                   view>>

(* Any other exception: terminal for the job when the error says so or the *)
(* claim was the last attempt.                                             *)
Verdict(e, hopeless) == IF hopeless \/ tries[e] >= MaxAttempts THEN "failed" ELSE "queued"

Fail(e, hopeless) ==
    LET v == claimed[e] IN
    /\ pc[e] = "parsing"
    /\ Valid(e)
    /\ job_state' = [job_state EXCEPT ![v] = Verdict(e, hopeless)]
    /\ lease' = [lease EXCEPT ![v] = 0]
    /\ due' = [due EXCEPT ![v] = FALSE]
    /\ processing_status' = IF active_generation[v] = 0 \/ state[v] = "draft"
                            THEN [processing_status EXCEPT ![v] = Verdict(e, hopeless)]
                            ELSE processing_status
    /\ Drop(e)
    /\ UNCHANGED <<docVars, verVars, active_generation, chunks, generation, attempts,
                   next_generation, refunds, view>>

-----------------------------------------------------------------------------
(* The exception escapes run_claim: a transaction of its own could not run *)
(* (database down, writes paused for a backup).                            *)
Break(e) ==
    /\ pc[e] \in {"submitted", "parsing"}
    /\ refunds < MaxRefunds
    /\ refunds' = refunds + 1
    /\ Become(e, "broken")
    /\ UNCHANGED <<docVars, verVars, indexVars, jobVars, next_generation, view>>

(* release_interrupted: requeue the job of this fence, and only of it.     *)
Requeue(v) ==
    /\ job_state' = [job_state EXCEPT ![v] = "queued"]
    /\ generation' = [generation EXCEPT ![v] = 0]
    /\ lease' = [lease EXCEPT ![v] = 0]
    /\ attempts' = [attempts EXCEPT ![v] = OneLess(@)]
    /\ due' = [due EXCEPT ![v] = TRUE]
    /\ processing_status' = IF active_generation[v] = 0 /\ state[v] # "withdrawn"
                            THEN [processing_status EXCEPT ![v] = "queued"]
                            ELSE processing_status

Release(e) ==
    /\ pc[e] = "broken"
    /\ Drop(e)
    /\ \/ /\ job_state[claimed[e]] = "running" /\ generation[claimed[e]] = token[e]
          /\ Requeue(claimed[e])
       \/ /\ ~(job_state[claimed[e]] = "running" /\ generation[claimed[e]] = token[e])
          /\ UNCHANGED <<jobVars, processing_status>>
    /\ UNCHANGED <<docVars, verVars, active_generation, chunks, next_generation, refunds,
                   view>>

(* worker --recover-interrupted-job: an operator releases the running      *)
(* claim of a job by hand, whether or not its executor is still at work.   *)
RecoverInterrupted(v) ==
    /\ job_state[v] = "running"
    /\ refunds < MaxRefunds
    /\ refunds' = refunds + 1
    /\ Requeue(v)
    /\ UNCHANGED <<docVars, verVars, active_generation, chunks, execVars, next_generation, view>>

(* The worker process dies, or claim raised after its second transaction:  *)
(* nobody will report on the claim, the lease has to run out.              *)
Crash(e) ==
    /\ pc[e] # "idle"
    /\ Drop(e)
    /\ UNCHANGED <<docVars, verVars, indexVars, jobVars, next_generation, refunds, view>>

-----------------------------------------------------------------------------
(* Time: a tick brings every lease closer to its end; next_attempt_at of a *)
(* job is reached.                                                         *)
Tick ==
    /\ LiveJobs # {}
    /\ lease' = [v \in Versions |-> OneLess(lease[v])]
    /\ UNCHANGED <<docVars, verVars, indexVars, job_state, generation, attempts, due, execVars,
                   next_generation, refunds, view>>

BecomeDue(v) ==
    /\ job_state[v] = "queued" /\ ~due[v]
    /\ due' = [due EXCEPT ![v] = TRUE]
    /\ UNCHANGED <<docVars, verVars, indexVars, job_state, generation, attempts, lease, execVars,
                   next_generation, refunds, view>>

Sweep(e) == \E v \in Versions : FailExhausted(e, v) \/ PickJob(e, v)

Claim(e) ==
    \/ ReadExhausted(e)
    \/ Sweep(e)
    \/ ClaimNothing(e)
    \/ ReadClaim(e)
    \/ MarkProcessing(e)

RunClaim(e) ==
    \/ StartRun(e)
    \/ Abandon(e)
    \/ \E status \in Parsed : Commit(e, status)
    \/ Defer(e)
    \/ \E hopeless \in BOOLEAN : Fail(e, hopeless)

WorkerNext ==
    \/ \E e \in Executors :
          Claim(e) \/ RunClaim(e) \/ Renew(e) \/ Break(e) \/ Release(e) \/ Crash(e)
    \/ \E v \in Versions : RecoverInterrupted(v) \/ BecomeDue(v)
    \/ Tick
=============================================================================
