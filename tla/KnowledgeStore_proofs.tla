----------------------- MODULE KnowledgeStore_proofs -----------------------
(* Proofs about module KnowledgeStore, for every value of its constants.   *)
EXTENDS KnowledgeStore, FiniteSetTheorems, TLAPS

(* Every handler of lifecycle.py and files.submit keeps the columns'       *)
(* types.                                                                  *)
LEMMA TypeOfLifecycle ==
    ASSUME TypeOK, LifecycleNext
    PROVE  TypeOK'
<1> USE StoreAssumption DEF TypeOK, PublicationTypes, IndexTypes, JobTypes, ExecutorTypes,
        docVars, verVars, indexVars, jobVars, execVars,
        VersionStates, Parsed, Statuses, JobStates, Modes, View
<1>1. ASSUME NEW m \in Managers, NEW d \in Documents, Look(m, d) PROVE TypeOK'
  BY <1>1 DEF Look
<1>2. ASSUME NEW m \in Managers, NEW d \in Documents, Withdraw(m, d) PROVE TypeOK'
  BY <1>2 DEF Withdraw, Bump
<1>3. ASSUME NEW m \in Managers, NEW d \in Documents, SetGrants(m, d) PROVE TypeOK'
  BY <1>3 DEF SetGrants, Bump
<1>4. ASSUME NEW m \in Managers, NEW d \in Documents, RenamePublished(m, d) PROVE TypeOK'
  BY <1>4 DEF RenamePublished, Bump
<1>5. ASSUME NEW m \in Managers, NEW d \in Documents, DeleteDocument(m, d) PROVE TypeOK'
  BY <1>5 DEF DeleteDocument
<1>6. ASSUME NEW m \in Managers, NEW v \in Versions, NEW a \in BOOLEAN, Publish(m, v, a) PROVE TypeOK'
  BY <1>6 DEF Publish, Activate, Bump, ModeFor
<1>7. ASSUME NEW m \in Managers, NEW v \in Versions, Restore(m, v) PROVE TypeOK'
  BY <1>7 DEF Restore, Activate, Bump
<1>8. ASSUME NEW v \in Versions, NEW base \in 0 .. MaxRevision, NEW review \in BOOLEAN,
             Submit(v, base, review)
      PROVE  TypeOK'
  BY <1>8 DEF Submit
<1>9. ASSUME NEW v \in Versions, ReviewName(v) PROVE TypeOK'
  BY <1>9 DEF ReviewName
<1>10. ASSUME NEW v \in Versions, WithdrawSubmission(v) PROVE TypeOK'
  BY <1>10 DEF WithdrawSubmission
<1>11. ASSUME NEW v \in Versions, Retry(v) PROVE TypeOK'
  BY <1>11 DEF Retry
<1> HIDE DEF TypeOK
<1> QED
  BY <1>1, <1>2, <1>3, <1>4, <1>5, <1>6, <1>7, <1>8, <1>9, <1>10, <1>11 DEF LifecycleNext

-----------------------------------------------------------------------------
(* greatest(attempts-1, 0) stays a natural number.                         *)
LEMMA OneLessInNat == ASSUME NEW n \in Nat PROVE OneLess(n) \in Nat
BY DEF OneLess

(* An executor that forgets its claim has a well-typed memory.             *)
LEMMA DropTypes ==
    ASSUME ExecutorTypes, NEW e \in Executors, Drop(e)
    PROVE  ExecutorTypes'
BY DEF ExecutorTypes, Drop, Steps

(* An executor that goes on to its next transaction stays well-typed.      *)
LEMMA BecomeTypes ==
    ASSUME ExecutorTypes, NEW e \in Executors, NEW step \in Steps, Become(e, step)
    PROVE  ExecutorTypes'
BY DEF ExecutorTypes, Become

(* Taking a job away from its executor keeps the types of its row.         *)
LEMMA RequeueTypes ==
    ASSUME JobTypes, IndexTypes, NEW v, Requeue(v),
           next_generation' = next_generation, refunds' \in Nat,
           UNCHANGED <<active_generation, chunks>>
    PROVE  JobTypes' /\ IndexTypes'
<1>1. attempts' \in [Versions -> Nat]
  BY OneLessInNat DEF Requeue, JobTypes
<1> QED
  BY <1>1 DEF Requeue, JobTypes, IndexTypes, JobStates, Statuses

(* Every transaction of the worker keeps the columns' types.               *)
LEMMA TypeOfWorker ==
    ASSUME TypeOK, WorkerNext
    PROVE  TypeOK'
<1> USE StoreAssumption DEF TypeOK, PublicationTypes, IndexTypes, JobTypes,
        docVars, verVars, indexVars, jobVars, execVars,
        VersionStates, Parsed, Statuses, JobStates, Modes, Steps
<1>1. ASSUME NEW e \in Executors, ReadExhausted(e) PROVE TypeOK'
  BY <1>1 DEF ReadExhausted, ExecutorTypes
<1>2. ASSUME NEW e \in Executors, NEW v \in Versions, FailExhausted(e, v) PROVE TypeOK'
  <2>1. ExecutorTypes'
    BY <1>2 DEF FailExhausted, ExecutorTypes
  <2>2. CASE Exhausted(v)
    <3>1. job_state' = [job_state EXCEPT ![v] = "failed"]
      BY <1>2, <2>2 DEF FailExhausted
    <3>2. \/ processing_status' = [processing_status EXCEPT ![v] = "failed"]
          \/ processing_status' = processing_status
      BY <1>2, <2>2 DEF FailExhausted
    <3> QED
      BY <1>2, <2>1, <3>1, <3>2 DEF FailExhausted
  <2>3. CASE ~Exhausted(v)
    BY <1>2, <2>1, <2>3 DEF FailExhausted
  <2> QED
    BY <2>2, <2>3
<1>3. ASSUME NEW e \in Executors, NEW v \in Versions, PickJob(e, v) PROVE TypeOK'
  BY <1>3 DEF PickJob, ThisAttempt, ExecutorTypes
<1>4. ASSUME NEW e \in Executors, ClaimNothing(e) PROVE TypeOK'
  BY <1>4, DropTypes DEF ClaimNothing
<1>5. ASSUME NEW e \in Executors, ReadClaim(e) \/ MarkProcessing(e) PROVE TypeOK'
  <2>1. ExecutorTypes'
    BY <1>5, BecomeTypes DEF ReadClaim, MarkProcessing
  <2> QED  BY <1>5, <2>1 DEF ReadClaim, MarkProcessing
<1>6. ASSUME NEW e \in Executors, StartRun(e) PROVE TypeOK'
  <2>1. ExecutorTypes'
    BY <1>6, BecomeTypes, DropTypes DEF StartRun
  <2> QED  BY <1>6, <2>1 DEF StartRun
<1>7. ASSUME NEW e \in Executors, Renew(e) PROVE TypeOK'
  BY <1>7 DEF Renew, ExecutorTypes
<1>8. ASSUME NEW e \in Executors, Abandon(e) PROVE TypeOK'
  BY <1>8, DropTypes DEF Abandon
<1>9. ASSUME NEW e \in Executors, NEW status \in Parsed, Commit(e, status) PROVE TypeOK'
  <2>1. token[e] \in Nat
    BY DEF ExecutorTypes
  <2>2. \A v \in Versions : v = claimed[e] => ReplacedText(e, status) \in SUBSET Nat
    BY <2>1 DEF ReplacedText, AddedText, Extracted
  <2>3. IndexTypes'
    BY <1>9, <2>1, <2>2 DEF Commit
  <2> QED
    BY <1>9, <2>3, DropTypes DEF Commit, ModeFor
<1>10. ASSUME NEW e \in Executors, Defer(e) PROVE TypeOK'
  <2>1. attempts' \in [Versions -> Nat]
    BY <1>10, OneLessInNat DEF Defer
  <2> QED
    BY <1>10, <2>1, DropTypes DEF Defer
<1>11. ASSUME NEW e \in Executors, NEW hopeless \in BOOLEAN, Fail(e, hopeless) PROVE TypeOK'
  BY <1>11, DropTypes DEF Fail, Verdict
<1>12. ASSUME NEW e \in Executors, Break(e) PROVE TypeOK'
  BY <1>12, BecomeTypes DEF Break
<1>13. ASSUME NEW e \in Executors, Release(e) PROVE TypeOK'
  <2>1. JobTypes' /\ IndexTypes'
    <3>1. CASE Requeue(claimed[e])
      BY <1>13, <3>1, RequeueTypes DEF Release
    <3>2. CASE UNCHANGED <<jobVars, processing_status>>
      BY <1>13, <3>2 DEF Release
    <3> QED  BY <1>13, <3>1, <3>2 DEF Release
  <2> QED
    BY <1>13, <2>1, DropTypes DEF Release
<1>14. ASSUME NEW v \in Versions, RecoverInterrupted(v) PROVE TypeOK'
  <2>1. JobTypes' /\ IndexTypes'
    BY <1>14, RequeueTypes DEF RecoverInterrupted
  <2> QED
    BY <1>14, <2>1 DEF RecoverInterrupted, ExecutorTypes
<1>15. ASSUME NEW e \in Executors, Crash(e) PROVE TypeOK'
  BY <1>15, DropTypes DEF Crash
<1>16. ASSUME Tick PROVE TypeOK'
  BY <1>16, OneLessInNat DEF Tick, ExecutorTypes
<1>17. ASSUME NEW v \in Versions, BecomeDue(v) PROVE TypeOK'
  BY <1>17 DEF BecomeDue, ExecutorTypes
<1> HIDE DEF TypeOK
<1> QED
  BY <1>1, <1>2, <1>3, <1>4, <1>5, <1>6, <1>7, <1>8, <1>9, <1>10, <1>11, <1>12, <1>13, <1>14,
     <1>15, <1>16, <1>17 DEF WorkerNext, Claim, RunClaim, Sweep

(* The columns and the executors' memory keep their types.                 *)
THEOREM TypeCorrect == Spec => []TypeOK
<1>1. Init => TypeOK
  BY StoreAssumption DEF Init, TypeOK, PublicationTypes, IndexTypes, JobTypes, ExecutorTypes, VersionStates, Parsed, Statuses, JobStates, Modes, Steps, View
<1>2. TypeOK /\ [Next]_vars => TypeOK'
  <2>1. CASE LifecycleNext  BY <2>1, TypeOfLifecycle
  <2>2. CASE WorkerNext     BY <2>2, TypeOfWorker
  <2>3. CASE UNCHANGED vars
    BY <2>3 DEF TypeOK, PublicationTypes, IndexTypes, JobTypes, ExecutorTypes, vars, docVars, verVars, indexVars, jobVars, execVars
  <2> QED  BY <2>1, <2>2, <2>3 DEF Next
<1> QED  BY <1>1, <1>2, PTL DEF Spec

-----------------------------------------------------------------------------
(* The claims executors hold.                                              *)

(* Claims stay distinct while executors and the fence counter rest.        *)
LEMMA ClaimsFrame ==
    ASSUME ClaimsInv, UNCHANGED <<pc, claimed, token, next_generation>>
    PROVE  ClaimsInv'
BY DEF ClaimsInv, Holding

(* Claims stay distinct when an executor drops its own.                    *)
LEMMA ClaimsDrop ==
    ASSUME TypeOK, ClaimsInv, NEW e \in Executors, Drop(e), UNCHANGED next_generation
    PROVE  ClaimsInv'
BY DEF ClaimsInv, Holding, Drop, TypeOK, ExecutorTypes

(* Claims stay distinct when an executor that holds one moves on.          *)
LEMMA ClaimsBecome ==
    ASSUME TypeOK, ClaimsInv, NEW e \in Executors, NEW step, Become(e, step), Holding(e),
           UNCHANGED next_generation
    PROVE  ClaimsInv'
BY DEF ClaimsInv, Holding, Become, TypeOK, ExecutorTypes

(* Every step keeps the claims' fences distinct and below the counter.     *)
LEMMA ClaimsStep ==
    ASSUME TypeOK, ClaimsInv, [Next]_vars
    PROVE  ClaimsInv'
<1> USE DEF execVars
<1>1. CASE LifecycleNext
  <2>1. UNCHANGED <<execVars, next_generation>>
    BY <1>1 DEF LifecycleNext, Look, Withdraw, SetGrants, RenamePublished, DeleteDocument, Publish,
                Restore, Submit, ReviewName, WithdrawSubmission, Retry
  <2> QED  BY <2>1, ClaimsFrame
<1>2. CASE WorkerNext
  <2>1. ASSUME NEW e \in Executors, ReadExhausted(e) PROVE ClaimsInv'
    BY <2>1 DEF ReadExhausted, ClaimsInv, Holding, TypeOK, ExecutorTypes
  <2>2. ASSUME NEW e \in Executors, NEW v \in Versions, PickJob(e, v) PROVE ClaimsInv'
    BY <2>2 DEF PickJob, ClaimsInv, Holding, TypeOK, ExecutorTypes, JobTypes
  <2>3. ASSUME \/ \E e \in Executors : Renew(e) \/ \E v \in Versions : FailExhausted(e, v)
               \/ \E v \in Versions : RecoverInterrupted(v) \/ BecomeDue(v)
               \/ Tick
        PROVE  ClaimsInv'
    <3>1. UNCHANGED <<pc, claimed, token, next_generation>>
      BY <2>3 DEF FailExhausted, Renew, RecoverInterrupted, Tick, BecomeDue
    <3> QED  BY <3>1, ClaimsFrame
  <2>4. ASSUME NEW e \in Executors,
               ReadClaim(e) \/ MarkProcessing(e) \/ StartRun(e) \/ Break(e)
        PROVE  ClaimsInv'
    BY <2>4, ClaimsBecome, ClaimsDrop DEF ReadClaim, MarkProcessing, StartRun, Break, Holding
  <2>5. ASSUME NEW e \in Executors,
               \/ ClaimNothing(e) \/ Abandon(e) \/ Defer(e) \/ Release(e) \/ Crash(e)
               \/ \E status \in Parsed : Commit(e, status)
               \/ \E hopeless \in BOOLEAN : Fail(e, hopeless)
        PROVE  ClaimsInv'
    <3>1. Drop(e) /\ UNCHANGED next_generation
      BY <2>5 DEF ClaimNothing, Abandon, Commit, Defer, Fail, Release, Crash
    <3> QED  BY <3>1, ClaimsDrop
  <2> QED
    BY <1>2, <2>1, <2>2, <2>3, <2>4, <2>5 DEF WorkerNext, Claim, RunClaim, Sweep
<1>3. CASE UNCHANGED vars
  BY <1>3, ClaimsFrame DEF vars
<1> QED
  BY <1>1, <1>2, <1>3 DEF Next

-----------------------------------------------------------------------------
(* The index.  Whatever step is taken, it does to the text and the fence   *)
(* of a version v one of five things.                                      *)
Text(v) == <<active_generation[v], chunks[v]>>

Leaves(v) ==
    /\ Text(v)' = Text(v) /\ job_state'[v] = job_state[v] /\ generation'[v] = generation[v]
    /\ processing_status'[v] = processing_status[v] \/ job_state[v] # "complete"

Stops(v) ==
    /\ Text(v)' = Text(v)
    /\ job_state'[v] \notin {"running", "complete"} /\ generation'[v] \in {0, generation[v]}

Claims(v) ==
    /\ Text(v)' = Text(v)
    /\ job_state'[v] = "running" /\ generation'[v] = next_generation
    /\ next_generation' = next_generation + 1

Switches(v) ==
    /\ job_state[v] = "running" /\ job_state'[v] = "complete"
    /\ generation'[v] = generation[v] /\ active_generation'[v] = generation[v]
    /\ processing_status'[v] \in Parsed
    /\ \/ processing_status'[v] = "stored_only" /\ chunks'[v] = {}
       \/ processing_status'[v] # "stored_only" /\ chunks'[v] = {generation[v]}

Purges(v) ==
    /\ active_generation'[v] = 0 /\ chunks'[v] = {}
    /\ job_state'[v] = "none" /\ generation'[v] = generation[v] /\ state'[v] = "deleted"

Effect(v) == Leaves(v) \/ Stops(v) \/ Claims(v) \/ Switches(v) \/ Purges(v)

(* What a lifecycle handler may do to the job and the text of a version:   *)
(* leave both, stop the job, or purge them.                                *)
LEMMA LifecycleEffect ==
    ASSUME TypeOK, LifecycleNext, NEW w \in Versions
    PROVE  Effect(w)
<1> USE DEF Effect, Text, TypeOK, IndexTypes, JobTypes, docVars, verVars, indexVars, jobVars, execVars
<1>1. ASSUME UNCHANGED <<indexVars, jobVars>> PROVE Effect(w)
  BY <1>1 DEF Leaves
<1>2. ASSUME NEW v \in Versions, NEW base, NEW review, Submit(v, base, review) PROVE Effect(w)
  BY <1>2 DEF Submit, Leaves, Stops
<1>3. ASSUME NEW v \in Versions, WithdrawSubmission(v) PROVE Effect(w)
  BY <1>3 DEF WithdrawSubmission, Leaves, Stops
<1>4. ASSUME NEW v \in Versions, Retry(v) PROVE Effect(w)
  BY <1>4 DEF Retry, Leaves, Stops
<1>5. ASSUME NEW m \in Managers, NEW d \in Documents, DeleteDocument(m, d) PROVE Effect(w)
  BY <1>5 DEF DeleteDocument, Leaves, Purges
<1>6. ASSUME \/ \E m \in Managers, d \in Documents :
                   Look(m, d) \/ Withdraw(m, d) \/ SetGrants(m, d) \/ RenamePublished(m, d)
             \/ \E m \in Managers, v \in Versions :
                   Restore(m, v) \/ \E a \in BOOLEAN : Publish(m, v, a)
             \/ \E v \in Versions : ReviewName(v)
      PROVE  UNCHANGED <<indexVars, jobVars>>
  BY <1>6 DEF Look, Withdraw, SetGrants, RenamePublished, Restore, Publish, ReviewName
<1> HIDE DEF Effect, TypeOK
<1> QED
  BY <1>1, <1>2, <1>3, <1>4, <1>5, <1>6 DEF LifecycleNext

(* Requeueing a job stops that job and leaves the texts alone.             *)
LEMMA RequeueEffect ==
    ASSUME TypeOK, NEW v \in Versions, Requeue(v), UNCHANGED <<active_generation, chunks>>,
           NEW w \in Versions
    PROVE  Leaves(w) \/ Stops(w)
BY DEF Requeue, Leaves, Stops, Text, TypeOK, IndexTypes, JobTypes

(* run_claim's commit switches one version to the text of its fence.       *)
LEMMA CommitEffect ==
    ASSUME TypeOK, ClaimsInv, IndexInv, NEW e \in Executors, NEW status \in Parsed,
           Commit(e, status), NEW w \in Versions
    PROVE  Leaves(w) \/ Switches(w)
<1> DEFINE v == claimed[e]
<1>1. /\ v \in Versions /\ token[e] \in Nat \ {0}
      /\ job_state[v] = "running" /\ generation[v] = token[e]
      /\ active_generation[v] < token[e] /\ active_generation[v] \in Nat
  BY DEF Commit, ClaimsInv, IndexInv, FencesAdvance, Holding, Valid, Live, TypeOK, ExecutorTypes,
         IndexTypes, JobTypes
<1>2. chunks[v] \subseteq {active_generation[v]}
  BY <1>1 DEF IndexInv, IndexIsWhole
<1>3. ReplacedText(e, status) = IF status = "stored_only" THEN {} ELSE {token[e]}
  BY <1>1, <1>2 DEF ReplacedText, AddedText, Extracted
<1>4. CASE w = v
  BY <1>1, <1>3, <1>4 DEF Commit, Switches, TypeOK, IndexTypes, JobTypes
<1>5. CASE w # v
  BY <1>1, <1>5 DEF Commit, Leaves, Text, TypeOK, IndexTypes, JobTypes
<1> QED
  BY <1>4, <1>5

(* What a transaction of the worker may do to one version.                 *)
LEMMA WorkerEffect ==
    ASSUME TypeOK, ClaimsInv, IndexInv, WorkerNext, NEW w \in Versions
    PROVE  Effect(w)
<1> USE DEF Effect, Text, TypeOK, IndexTypes, JobTypes, docVars, verVars, indexVars, jobVars, execVars
<1>1. ASSUME UNCHANGED <<indexVars, job_state, generation>> PROVE Effect(w)
  BY <1>1 DEF Leaves
<1>2. ASSUME NEW e \in Executors, NEW v \in Versions, FailExhausted(e, v) PROVE Effect(w)
  BY <1>2 DEF FailExhausted, Exhausted, Leaves, Stops
<1>3. ASSUME NEW e \in Executors, NEW v \in Versions, PickJob(e, v) PROVE Effect(w)
  BY <1>3 DEF PickJob, Leaves, Claims
<1>4. ASSUME NEW e \in Executors, MarkProcessing(e) PROVE Effect(w)
  <2>1. WantsMark(claimed[e]) => job_state[claimed[e]] # "complete"
    BY <1>4 DEF MarkProcessing, WantsMark, IndexInv, CompleteIsIndexed, ClaimsInv, Holding
  <2> QED  BY <1>4, <2>1 DEF MarkProcessing, Leaves
<1>5. ASSUME NEW e \in Executors, NEW status \in Parsed, Commit(e, status) PROVE Effect(w)
  BY <1>5, CommitEffect
<1>6. ASSUME NEW e \in Executors, Defer(e) PROVE Effect(w)
  BY <1>6 DEF Defer, Leaves, Stops
<1>7. ASSUME NEW e \in Executors, NEW hopeless \in BOOLEAN, Fail(e, hopeless) PROVE Effect(w)
  BY <1>7 DEF Fail, Verdict, Leaves, Stops
<1>8. ASSUME NEW e \in Executors, Release(e) PROVE Effect(w)
  <2>1. claimed[e] \in Versions
    BY <1>8 DEF Release, ClaimsInv, Holding
  <2> QED
    BY <1>1, <1>8, <2>1, RequeueEffect DEF Release
<1>9. ASSUME NEW v \in Versions, RecoverInterrupted(v) PROVE Effect(w)
  BY <1>9, RequeueEffect DEF RecoverInterrupted
<1>10. ASSUME \/ \E e \in Executors :
                    \/ ReadExhausted(e) \/ ClaimNothing(e) \/ ReadClaim(e) \/ StartRun(e)
                    \/ Renew(e) \/ Abandon(e) \/ Break(e) \/ Crash(e)
              \/ \E v \in Versions : BecomeDue(v)
              \/ Tick
       PROVE  UNCHANGED <<indexVars, job_state, generation>>
  BY <1>10 DEF ReadExhausted, ClaimNothing, ReadClaim, StartRun, Renew, Abandon, Break, Crash, BecomeDue, Tick
<1> HIDE DEF Effect, TypeOK
<1> QED
  BY <1>1, <1>2, <1>3, <1>4, <1>5, <1>6, <1>7, <1>8, <1>9, <1>10
     DEF WorkerNext, Claim, RunClaim, Sweep

(* Every step has one of the five effects on every version.                *)
LEMMA StepEffect ==
    ASSUME TypeOK, ClaimsInv, IndexInv, [Next]_vars, NEW v \in Versions
    PROVE  Effect(v)
<1>1. CASE UNCHANGED vars
  BY <1>1 DEF vars, indexVars, jobVars, Effect, Leaves, Text
<1> QED
  BY <1>1, LifecycleEffect, WorkerEffect DEF Next

(* The fence counter never decreases.                                      *)
LEMMA GenerationsGrow ==
    ASSUME TypeOK, [Next]_vars
    PROVE  next_generation' \in Nat /\ next_generation' >= next_generation
<1>1. CASE UNCHANGED next_generation
  BY <1>1 DEF TypeOK, JobTypes
<1>2. ASSUME NEW e \in Executors, NEW v \in Versions, PickJob(e, v)
      PROVE  next_generation' = next_generation + 1
  BY <1>2 DEF PickJob
<1>3. LifecycleNext => UNCHANGED next_generation
  BY DEF LifecycleNext, Look, Withdraw, SetGrants, RenamePublished, DeleteDocument, Publish,
         Restore, Submit, ReviewName, WithdrawSubmission, Retry
<1>4. WorkerNext => UNCHANGED next_generation \/ \E e \in Executors, v \in Versions : PickJob(e, v)
  BY DEF WorkerNext, Claim, RunClaim, Sweep, ReadExhausted, FailExhausted, ClaimNothing,
         ReadClaim, MarkProcessing, StartRun, Renew, Abandon, Commit, Defer, Fail, Break,
         Release, RecoverInterrupted, Crash, Tick, BecomeDue
<1>5. UNCHANGED vars => UNCHANGED next_generation
  BY DEF vars
<1> QED
  BY <1>1, <1>2, <1>3, <1>4, <1>5 DEF Next, TypeOK, JobTypes

(* Every step keeps the invariant of the index.                            *)
LEMMA IndexStep ==
    ASSUME TypeOK, TypeOK', ClaimsInv, IndexInv, [Next]_vars
    PROVE  IndexInv'
<1> SUFFICES ASSUME NEW v \in Versions
             PROVE  /\ generation'[v] < next_generation' /\ active_generation'[v] < next_generation'
                    /\ job_state'[v] = "running" => generation'[v] > active_generation'[v]
                    /\ chunks'[v] \subseteq {active_generation'[v]} \ {0}
                    /\ job_state'[v] = "complete" =>
                          /\ active_generation'[v] = generation'[v] /\ generation'[v] # 0
                          /\ processing_status'[v] \in Parsed
                          /\ chunks'[v] = {} <=> processing_status'[v] = "stored_only"
  BY DEF IndexInv, FencesAdvance, IndexIsWhole, CompleteIsIndexed
<1>1. Effect(v)
  BY StepEffect
<1>2. next_generation' \in Nat /\ next_generation' >= next_generation
  BY GenerationsGrow
<1>3. /\ generation[v] < next_generation /\ active_generation[v] < next_generation
      /\ job_state[v] = "running" => generation[v] > active_generation[v]
      /\ chunks[v] \subseteq {active_generation[v]} \ {0}
      /\ job_state[v] = "complete" =>
            /\ active_generation[v] = generation[v] /\ generation[v] # 0
            /\ processing_status[v] \in Parsed
            /\ chunks[v] = {} <=> processing_status[v] = "stored_only"
  BY DEF IndexInv, FencesAdvance, IndexIsWhole, CompleteIsIndexed
<1>4. /\ next_generation \in Nat \ {0} /\ generation[v] \in Nat /\ active_generation[v] \in Nat
  BY DEF TypeOK, JobTypes, IndexTypes
<1>5. CASE Leaves(v)    BY <1>2, <1>3, <1>4, <1>5 DEF Leaves, Text
<1>6. CASE Stops(v)     BY <1>2, <1>3, <1>4, <1>6 DEF Stops, Text
<1>7. CASE Claims(v)    BY <1>2, <1>3, <1>4, <1>7 DEF Claims, Text
<1>8. CASE Switches(v)  BY <1>2, <1>3, <1>4, <1>8 DEF Switches
<1>9. CASE Purges(v)    BY <1>2, <1>3, <1>4, <1>9 DEF Purges
<1> QED
  BY <1>1, <1>5, <1>6, <1>7, <1>8, <1>9 DEF Effect

(* The invariant of the index holds in every reachable state.              *)
THEOREM IndexInvariant == Spec => [](TypeOK /\ ClaimsInv /\ IndexInv)
<1>1. Init => ClaimsInv /\ IndexInv
  BY DEF Init, ClaimsInv, Holding, IndexInv, FencesAdvance, IndexIsWhole, CompleteIsIndexed
<1>2. TypeOK /\ TypeOK' /\ ClaimsInv /\ IndexInv /\ [Next]_vars => ClaimsInv' /\ IndexInv'
  BY ClaimsStep, IndexStep
<1> QED
  BY <1>1, <1>2, TypeCorrect, PTL DEF Spec

(* No reader finds text of a parse that is not the active one, a complete  *)
(* job is the one whose text is shown, and only one executor can write the *)
(* result of a job, for any number of executors, jobs and attempts.        *)
THEOREM IndexCorrect == Spec => [](IndexIsWhole /\ CompleteIsIndexed /\ ExclusiveClaim)
<1>1. ClaimsInv => ExclusiveClaim
  BY DEF ClaimsInv, ExclusiveClaim, Valid
<1>2. IndexInv => IndexIsWhole /\ CompleteIsIndexed
  BY DEF IndexInv
<1> QED
  BY <1>1, <1>2, IndexInvariant, PTL

(* An overtaken executor never puts an older text back in place.           *)
THEOREM NoRegression == Spec => IndexNeverRegresses
<1>1. ASSUME TypeOK, ClaimsInv, IndexInv, [Next]_vars, NEW v \in Versions
      PROVE  active_generation'[v] >= active_generation[v] \/ state'[v] = "deleted"
  <2>1. Effect(v)
    BY <1>1, StepEffect
  <2>2. active_generation[v] \in Nat /\ generation[v] \in Nat
        /\ (job_state[v] = "running" => generation[v] > active_generation[v])
    BY <1>1 DEF TypeOK, IndexTypes, JobTypes, IndexInv, FencesAdvance
  <2> QED
    BY <2>1, <2>2 DEF Effect, Leaves, Stops, Claims, Switches, Purges, Text
<1>2. TypeOK /\ ClaimsInv /\ IndexInv /\ [Next]_vars => [IndexAdvances]_vars
  BY <1>1 DEF IndexAdvances
<1> QED
  BY <1>2, IndexInvariant, PTL DEF Spec, IndexNeverRegresses
=============================================================================
