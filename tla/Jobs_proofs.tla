---------------------------- MODULE Jobs_proofs ----------------------------
(* Proofs about the jobs of module KnowledgeStore: the limits on running   *)
(* jobs and on attempts, and the attempt that a claim remembers.           *)
EXTENDS KnowledgeStore_proofs

(* Only a claim adds a running job with a live lease.                      *)
LEMMA LifecycleAddsNoLiveJob ==
    ASSUME TypeOK, LifecycleNext
    PROVE  LiveJobs' \subseteq LiveJobs
<1> USE DEF TypeOK, JobTypes, LiveJobs, Live, jobVars
<1>1. ASSUME NEW v \in Versions, NEW base, NEW review, Submit(v, base, review)
      PROVE  LiveJobs' \subseteq LiveJobs
  BY <1>1 DEF Submit
<1>2. ASSUME NEW v \in Versions, WithdrawSubmission(v) \/ Retry(v)
      PROVE  LiveJobs' \subseteq LiveJobs
  BY <1>2 DEF WithdrawSubmission, Retry
<1>3. ASSUME NEW m \in Managers, NEW d \in Documents, DeleteDocument(m, d)
      PROVE  LiveJobs' \subseteq LiveJobs
  BY <1>3 DEF DeleteDocument
<1>4. ASSUME UNCHANGED jobVars PROVE LiveJobs' \subseteq LiveJobs
  BY <1>4
<1> HIDE DEF TypeOK, LiveJobs
<1> QED
  BY <1>1, <1>2, <1>3, <1>4
     DEF LifecycleNext, Look, Withdraw, SetGrants, RenamePublished, Restore, Publish, ReviewName

(* Of the worker's transactions only the pick adds a live job.             *)
LEMMA WorkerAddsNoLiveJob ==
    ASSUME TypeOK, ClaimsInv, WorkerNext, ~ \E e \in Executors, v \in Versions : PickJob(e, v)
    PROVE  LiveJobs' \subseteq LiveJobs
<1> USE DEF TypeOK, JobTypes, LiveJobs, Live, jobVars
<1>1. ASSUME NEW v, Requeue(v) PROVE LiveJobs' \subseteq LiveJobs
  BY <1>1 DEF Requeue
<1>2. ASSUME NEW e \in Executors, NEW v \in Versions, FailExhausted(e, v)
      PROVE  LiveJobs' \subseteq LiveJobs
  BY <1>2 DEF FailExhausted, Exhausted
<1>3. ASSUME NEW e \in Executors, Renew(e) PROVE LiveJobs' \subseteq LiveJobs
  BY <1>3, StoreAssumption DEF Renew, Valid
<1>4. ASSUME NEW e \in Executors,
             \/ \E status \in Parsed : Commit(e, status)
             \/ Defer(e)
             \/ \E hopeless \in BOOLEAN : Fail(e, hopeless)
      PROVE  LiveJobs' \subseteq LiveJobs
  BY <1>4 DEF Commit, Defer, Fail, Verdict
<1>5. ASSUME Tick PROVE LiveJobs' \subseteq LiveJobs
  BY <1>5 DEF Tick, OneLess
<1>6. ASSUME UNCHANGED <<job_state, lease>> PROVE LiveJobs' \subseteq LiveJobs
  BY <1>6
<1>7. ASSUME \/ \E e \in Executors :
                   \/ ReadExhausted(e) \/ ClaimNothing(e) \/ ReadClaim(e) \/ MarkProcessing(e)
                   \/ StartRun(e) \/ Abandon(e) \/ Break(e) \/ Crash(e)
             \/ \E v \in Versions : BecomeDue(v)
      PROVE  UNCHANGED <<job_state, lease>>
  BY <1>7 DEF ReadExhausted, ClaimNothing, ReadClaim, MarkProcessing, StartRun, Abandon, Break,
              Crash, BecomeDue
<1> HIDE DEF TypeOK, LiveJobs
<1> QED
  BY <1>1, <1>2, <1>3, <1>4, <1>5, <1>6, <1>7
     DEF WorkerNext, Claim, RunClaim, Sweep, Release, RecoverInterrupted

(* The live jobs can be counted: there are finitely many versions.         *)
LEMMA LiveJobsAreFinite == IsFiniteSet(LiveJobs) /\ Cardinality(LiveJobs) \in Nat
BY StoreAssumption, FS_Subset, FS_CardinalityType DEF LiveJobs

(* The limits survive when no job is added to the live ones.               *)
LEMMA FewerLiveJobs ==
    ASSUME SlotsRespected, LiveJobs' \subseteq LiveJobs
    PROVE  SlotsRespected'
<1>1. /\ Cardinality(LiveJobs') <= Cardinality(LiveJobs)
      /\ Cardinality(LiveJobs' \cap Heavy) <= Cardinality(LiveJobs \cap Heavy)
      /\ Cardinality(LiveJobs') \in Nat /\ Cardinality(LiveJobs' \cap Heavy) \in Nat
      /\ Cardinality(LiveJobs) \in Nat /\ Cardinality(LiveJobs \cap Heavy) \in Nat
  BY LiveJobsAreFinite, FS_Subset, FS_CardinalityType
<1>2. SlotLimit \in Int /\ HeavyLimit \in Int
  BY StoreAssumption DEF SlotLimit, HeavyLimit, AtLeastOne
<1> QED
  BY <1>1, <1>2 DEF SlotsRespected

(* Adding one job to a set of fewer than n jobs gives at most n.           *)
LEMMA OneMore ==
    ASSUME NEW S, IsFiniteSet(S), NEW x
    PROVE  Cardinality(S \cup {x}) \in Nat /\ Cardinality(S \cup {x}) <= Cardinality(S) + 1
<1>1. Cardinality(S) \in Nat
  BY FS_CardinalityType
<1>2. IsFiniteSet(S \cup {x}) /\ Cardinality(S \cup {x}) \in Nat
  BY FS_AddElement, FS_CardinalityType
<1>3. Cardinality(S \cup {x}) = IF x \in S THEN Cardinality(S) ELSE Cardinality(S) + 1
  BY FS_AddElement
<1> QED
  BY <1>1, <1>2, <1>3

(* The pick counts the live jobs before it adds one, so it keeps the       *)
(* limits.                                                                 *)
LEMMA PickKeepsSlots ==
    ASSUME TypeOK, SlotsRespected, NEW e \in Executors, NEW v \in Versions, PickJob(e, v)
    PROVE  SlotsRespected'
<1>1. LiveJobs' = LiveJobs \cup {v}
  BY StoreAssumption DEF PickJob, LiveJobs, Live, TypeOK, JobTypes
<1>2. SlotLimit \in Int /\ HeavyLimit \in Int
  BY StoreAssumption DEF SlotLimit, HeavyLimit, AtLeastOne
<1>3. IsFiniteSet(LiveJobs) /\ IsFiniteSet(LiveJobs \cap Heavy)
  BY LiveJobsAreFinite, FS_Subset
<1>4. /\ Cardinality(LiveJobs) \in Nat /\ Cardinality(LiveJobs \cap Heavy) \in Nat
  BY <1>3, FS_CardinalityType
<1>5. Cardinality(LiveJobs') <= SlotLimit
  <2>1. Cardinality(LiveJobs) < SlotLimit
    BY <1>2, <1>4 DEF PickJob, SlotsFull
  <2>2. /\ Cardinality(LiveJobs \cup {v}) \in Nat
        /\ Cardinality(LiveJobs \cup {v}) <= Cardinality(LiveJobs) + 1
    BY <1>3, OneMore
  <2> QED
    BY <1>1, <1>2, <1>4, <2>1, <2>2
<1>6. Cardinality(LiveJobs' \cap Heavy) <= HeavyLimit
  <2>1. CASE v \in Heavy
    <3>1. Cardinality(LiveJobs \cap Heavy) < HeavyLimit
      BY <1>2, <1>4, <2>1 DEF PickJob, Eligible, HeavyFull
    <3>2. LiveJobs' \cap Heavy = (LiveJobs \cap Heavy) \cup {v}
      BY <1>1, <2>1
    <3>3. /\ Cardinality((LiveJobs \cap Heavy) \cup {v}) \in Nat
          /\ Cardinality((LiveJobs \cap Heavy) \cup {v}) <= Cardinality(LiveJobs \cap Heavy) + 1
      BY <1>3, OneMore
    <3> QED
      BY <1>2, <1>4, <3>1, <3>2, <3>3
  <2>2. CASE v \notin Heavy
    <3>1. LiveJobs' \cap Heavy = LiveJobs \cap Heavy
      BY <1>1, <2>2
    <3> QED
      BY <3>1 DEF SlotsRespected
  <2> QED
    BY <2>1, <2>2
<1> QED
  BY <1>5, <1>6 DEF SlotsRespected

(* The database limits the running jobs, and the heavy ones among them,    *)
(* whatever the number of workers and wherever a claim is interrupted.     *)
THEOREM SlotsAreRespected == Spec => []SlotsRespected
<1>1. Init => SlotsRespected
  <2>1. ASSUME Init PROVE LiveJobs = {} /\ LiveJobs \cap Heavy = {}
    BY <2>1 DEF Init, LiveJobs, Live
  <2>2. 0 <= SlotLimit /\ 0 <= HeavyLimit
    BY StoreAssumption DEF SlotLimit, HeavyLimit, AtLeastOne
  <2> QED
    BY <2>1, <2>2, FS_EmptySet DEF SlotsRespected
<1>2. TypeOK /\ ClaimsInv /\ SlotsRespected /\ [Next]_vars => SlotsRespected'
  <2> SUFFICES ASSUME TypeOK, ClaimsInv, SlotsRespected, [Next]_vars PROVE SlotsRespected'
    OBVIOUS
  <2>1. CASE \E e \in Executors, v \in Versions : PickJob(e, v)
    BY <2>1, PickKeepsSlots
  <2>2. CASE UNCHANGED vars
    <3>1. LiveJobs' \subseteq LiveJobs
      BY <2>2 DEF vars, jobVars, LiveJobs, Live
    <3> QED  BY <3>1, FewerLiveJobs
  <2> QED
    BY <2>1, <2>2, LifecycleAddsNoLiveJob, WorkerAddsNoLiveJob, FewerLiveJobs DEF Next
<1> QED
  BY <1>1, <1>2, IndexInvariant, PTL DEF Spec

-----------------------------------------------------------------------------
(* Attempts, and the number of the attempt that a claim remembers.         *)

(* AttemptIsRemembered without the lease: the fence alone ties the number  *)
(* an executor got with its claim to the row of the job.                   *)
FenceRemembers ==
    \A e \in Executors :
        /\ Holding(e) /\ job_state[claimed[e]] = "running"
        /\ generation[claimed[e]] = token[e]
        => tries[e] = attempts[claimed[e]]

Counted == AttemptsBounded /\ FenceRemembers

(* A step that claims nothing: no job starts to run and no running job     *)
(* changes its fence or its attempts, which stay within the bound ...      *)
RunsOn(v) ==
    /\ attempts'[v] <= MaxAttempts
    /\ job_state'[v] = "running" =>
          /\ job_state[v] = "running"
          /\ generation'[v] = generation[v] /\ attempts'[v] = attempts[v]

(* ... and an executor that holds a claim then held the same one before.   *)
HoldsOn(e) ==
    Holding(e)' => /\ Holding(e) /\ claimed'[e] = claimed[e]
                   /\ token'[e] = token[e] /\ tries'[e] = tries[e]

(* Such a step keeps the count.                                            *)
LEMMA CountKept ==
    ASSUME ClaimsInv, Counted, \A v \in Versions : RunsOn(v), \A e \in Executors : HoldsOn(e)
    PROVE  Counted'
<1>1. AttemptsBounded'
  BY DEF AttemptsBounded, RunsOn
<1>2. FenceRemembers'
  BY DEF FenceRemembers, Counted, RunsOn, HoldsOn, ClaimsInv
<1> QED
  BY <1>1, <1>2 DEF Counted

(* A handler of the API process starts no claim.                           *)
LEMMA LifecycleRunsOn ==
    ASSUME TypeOK, AttemptsBounded, LifecycleNext
    PROVE  (\A v \in Versions : RunsOn(v)) /\ (\A e \in Executors : HoldsOn(e))
<1> USE StoreAssumption DEF RunsOn, AttemptsBounded, TypeOK, JobTypes, jobVars
<1>1. ASSUME NEW v \in Versions, NEW base, NEW review, Submit(v, base, review)
      PROVE  \A w \in Versions : RunsOn(w)
  BY <1>1 DEF Submit
<1>2. ASSUME NEW v \in Versions, WithdrawSubmission(v) \/ Retry(v)
      PROVE  \A w \in Versions : RunsOn(w)
  BY <1>2 DEF WithdrawSubmission, Retry
<1>3. ASSUME NEW m \in Managers, NEW d \in Documents, DeleteDocument(m, d)
      PROVE  \A w \in Versions : RunsOn(w)
  BY <1>3 DEF DeleteDocument
<1>4. ASSUME UNCHANGED jobVars PROVE \A w \in Versions : RunsOn(w)
  BY <1>4
<1>5. UNCHANGED execVars
  BY DEF LifecycleNext, Look, Withdraw, SetGrants, RenamePublished, DeleteDocument, Publish,
         Restore, Submit, ReviewName, WithdrawSubmission, Retry
<1>6. \A e \in Executors : HoldsOn(e)
  BY <1>5 DEF execVars, HoldsOn, Holding
<1> HIDE DEF TypeOK, RunsOn
<1> QED
  BY <1>1, <1>2, <1>3, <1>4, <1>6
     DEF LifecycleNext, Look, Withdraw, SetGrants, RenamePublished, Restore, Publish, ReviewName

(* Handing an attempt back stops the job and leaves the count in bounds.   *)
LEMMA RequeueRunsOn ==
    ASSUME TypeOK, AttemptsBounded, NEW v \in Versions, Requeue(v), NEW w \in Versions
    PROVE  RunsOn(w)
<1>1. OneLess(attempts[v]) <= attempts[v] /\ OneLess(attempts[v]) \in Nat
  BY DEF OneLess, TypeOK, JobTypes
<1> QED
  BY <1>1, StoreAssumption DEF Requeue, RunsOn, AttemptsBounded, TypeOK, JobTypes

(* No transaction of the worker but the pick starts a claim or changes the *)
(* attempts of a job that goes on running.                                 *)
LEMMA WorkerRunsOn ==
    ASSUME TypeOK, ClaimsInv, AttemptsBounded, WorkerNext,
           ~ \E e \in Executors, v \in Versions : PickJob(e, v), NEW w \in Versions
    PROVE  RunsOn(w)
<1> USE StoreAssumption DEF RunsOn, AttemptsBounded, TypeOK, JobTypes, jobVars
<1>1. ASSUME NEW e \in Executors, NEW v \in Versions, FailExhausted(e, v) PROVE RunsOn(w)
  BY <1>1 DEF FailExhausted
<1>2. ASSUME NEW e \in Executors, Renew(e) \/ \E status \in Parsed : Commit(e, status)
      PROVE  RunsOn(w)
  BY <1>2 DEF Renew, Commit
<1>3. ASSUME NEW e \in Executors, Defer(e) PROVE RunsOn(w)
  <2>1. claimed[e] \in Versions
    BY <1>3 DEF Defer, ClaimsInv, Holding
  <2>2. OneLess(attempts[claimed[e]]) <= MaxAttempts
    BY <2>1 DEF OneLess
  <2> QED
    BY <1>3, <2>1, <2>2 DEF Defer
<1>4. ASSUME NEW e \in Executors, NEW hopeless \in BOOLEAN, Fail(e, hopeless) PROVE RunsOn(w)
  BY <1>4 DEF Fail, Verdict
<1>5. ASSUME NEW e \in Executors, Release(e) PROVE RunsOn(w)
  <2>1. claimed[e] \in Versions
    BY <1>5 DEF Release, ClaimsInv, Holding
  <2>2. CASE Requeue(claimed[e])  BY <2>1, <2>2, RequeueRunsOn
  <2>3. CASE UNCHANGED jobVars    BY <2>3
  <2> QED
    BY <1>5, <2>2, <2>3 DEF Release
<1>6. ASSUME NEW v \in Versions, RecoverInterrupted(v) PROVE RunsOn(w)
  BY <1>6, RequeueRunsOn DEF RecoverInterrupted
<1>7. ASSUME UNCHANGED <<job_state, generation, attempts>> PROVE RunsOn(w)
  BY <1>7
<1>8. ASSUME \/ \E e \in Executors :
                   \/ ReadExhausted(e) \/ ClaimNothing(e) \/ ReadClaim(e) \/ MarkProcessing(e)
                   \/ StartRun(e) \/ Abandon(e) \/ Break(e) \/ Crash(e)
             \/ \E v \in Versions : BecomeDue(v)
             \/ Tick
      PROVE  UNCHANGED <<job_state, generation, attempts>>
  BY <1>8 DEF ReadExhausted, ClaimNothing, ReadClaim, MarkProcessing, StartRun, Abandon, Break,
              Crash, BecomeDue, Tick
<1> HIDE DEF TypeOK, RunsOn
<1> QED
  BY <1>1, <1>2, <1>3, <1>4, <1>5, <1>6, <1>7, <1>8 DEF WorkerNext, Claim, RunClaim, Sweep

(* No transaction of the worker but the pick gives an executor a claim.    *)
LEMMA WorkerHoldsOn ==
    ASSUME TypeOK, WorkerNext,
           ~ \E e \in Executors, v \in Versions : PickJob(e, v), NEW f \in Executors
    PROVE  HoldsOn(f)
<1> USE DEF HoldsOn, Holding, TypeOK, ExecutorTypes, execVars
<1>1. ASSUME NEW e \in Executors, Drop(e) PROVE HoldsOn(f)
  BY <1>1 DEF Drop
<1>2. ASSUME NEW e \in Executors, NEW step, Holding(e), Become(e, step) PROVE HoldsOn(f)
  BY <1>2 DEF Become
<1>3. ASSUME NEW e \in Executors, ReadExhausted(e) PROVE HoldsOn(f)
  BY <1>3 DEF ReadExhausted
<1>4. ASSUME UNCHANGED <<pc, claimed, token, tries>> PROVE HoldsOn(f)
  BY <1>4
<1>5. ASSUME \/ \E e \in Executors : Renew(e) \/ \E v \in Versions : FailExhausted(e, v)
             \/ \E v \in Versions : RecoverInterrupted(v) \/ BecomeDue(v)
             \/ Tick
      PROVE  UNCHANGED <<pc, claimed, token, tries>>
  BY <1>5 DEF FailExhausted, Renew, RecoverInterrupted, Tick, BecomeDue
<1>6. ASSUME NEW e \in Executors,
             ReadClaim(e) \/ MarkProcessing(e) \/ StartRun(e) \/ Break(e)
      PROVE  Drop(e) \/ \E step \in Steps : Holding(e) /\ Become(e, step)
  BY <1>6 DEF ReadClaim, MarkProcessing, StartRun, Break, Steps
<1>7. ASSUME NEW e \in Executors,
             \/ ClaimNothing(e) \/ Abandon(e) \/ Defer(e) \/ Release(e) \/ Crash(e)
             \/ \E status \in Parsed : Commit(e, status)
             \/ \E hopeless \in BOOLEAN : Fail(e, hopeless)
      PROVE  Drop(e)
  BY <1>7 DEF ClaimNothing, Abandon, Commit, Defer, Fail, Release, Crash
<1> HIDE DEF HoldsOn, Holding, TypeOK
<1> QED
  BY <1>1, <1>2, <1>3, <1>4, <1>5, <1>6, <1>7 DEF WorkerNext, Claim, RunClaim, Sweep

(* The pick hands out the number of the attempt it counts, under a fence   *)
(* that no other executor has.                                             *)
LEMMA PickCounts ==
    ASSUME TypeOK, ClaimsInv, Counted, NEW e \in Executors, NEW v \in Versions, PickJob(e, v)
    PROVE  Counted'
<1>1. AttemptsBounded'
  BY StoreAssumption DEF Counted, AttemptsBounded, PickJob, Eligible, TypeOK, JobTypes
<1>2. ASSUME NEW f \in Executors, Holding(f)', job_state'[claimed'[f]] = "running",
             generation'[claimed'[f]] = token'[f]
      PROVE  tries'[f] = attempts'[claimed'[f]]
  <2>1. CASE f = e
    BY <2>1 DEF PickJob, ThisAttempt, TypeOK, JobTypes, ExecutorTypes
  <2>2. CASE f # e
    <3>1. /\ Holding(f) /\ claimed'[f] = claimed[f] /\ token'[f] = token[f]
          /\ tries'[f] = tries[f]
      BY <1>2, <2>2 DEF PickJob, Holding, TypeOK, ExecutorTypes
    <3>2. token[f] < next_generation /\ claimed[f] \in Versions
      BY <3>1 DEF ClaimsInv, TypeOK, ExecutorTypes, JobTypes
    <3>3. claimed[f] # v
      BY <1>2, <3>1, <3>2 DEF PickJob, TypeOK, JobTypes, ExecutorTypes
    <3> QED
      BY <1>2, <3>1, <3>2, <3>3 DEF PickJob, Counted, FenceRemembers, TypeOK, JobTypes
  <2> QED  BY <2>1, <2>2
<1> QED
  BY <1>1, <1>2 DEF Counted, FenceRemembers

(* However often a job is interrupted, overtaken, deferred or retried, it  *)
(* is not claimed more than max_attempts times in a row, and the executor  *)
(* that may still write its result knows the number of its attempt.        *)
THEOREM AttemptsAreCounted == Spec => []AttemptsCount
<1>1. Init => Counted
  BY StoreAssumption DEF Init, Counted, AttemptsBounded, FenceRemembers, Holding
<1>2. TypeOK /\ ClaimsInv /\ Counted /\ [Next]_vars => Counted'
  <2> SUFFICES ASSUME TypeOK, ClaimsInv, Counted, [Next]_vars PROVE Counted'
    OBVIOUS
  <2>1. CASE \E e \in Executors, v \in Versions : PickJob(e, v)
    BY <2>1, PickCounts
  <2>2. CASE UNCHANGED vars
    BY <2>2 DEF vars, jobVars, execVars, Counted, AttemptsBounded, FenceRemembers, Holding
  <2>3. CASE LifecycleNext
    BY <2>3, LifecycleRunsOn, CountKept DEF Counted
  <2>4. CASE WorkerNext /\ ~ \E e \in Executors, v \in Versions : PickJob(e, v)
    BY <2>4, WorkerRunsOn, WorkerHoldsOn, CountKept DEF Counted
  <2> QED
    BY <2>1, <2>2, <2>3, <2>4 DEF Next
<1>3. Counted => AttemptsCount
  BY DEF Counted, FenceRemembers, AttemptsCount, AttemptIsRemembered, Valid, Live
<1> QED
  BY <1>1, <1>2, <1>3, IndexInvariant, PTL DEF Spec

(* Only a new claim gives a job whose lease ran out a live lease again.    *)
THEOREM LeasesEnd == Spec => ExpiredLeaseIsLost
<1>1. ASSUME TypeOK, ClaimsInv, IndexInv, [Next]_vars PROVE ExpiredLeaseNeedsNewClaim
  <2>1. CASE \E e \in Executors, v \in Versions : PickJob(e, v)
    BY <1>1, <2>1 DEF PickJob, ExpiredLeaseNeedsNewClaim, IndexInv, FencesAdvance, TypeOK, JobTypes
  <2>2. CASE LiveJobs' \subseteq LiveJobs
    BY <2>2 DEF LiveJobs, Live, ExpiredLeaseNeedsNewClaim
  <2>3. CASE UNCHANGED vars
    BY <2>3 DEF vars, jobVars, ExpiredLeaseNeedsNewClaim
  <2> QED
    BY <1>1, <2>1, <2>2, <2>3, LifecycleAddsNoLiveJob, WorkerAddsNoLiveJob DEF Next
<1>2. TypeOK /\ ClaimsInv /\ IndexInv /\ [Next]_vars => [ExpiredLeaseNeedsNewClaim]_vars
  BY <1>1
<1> QED
  BY <1>2, IndexInvariant, PTL DEF Spec, ExpiredLeaseIsLost
=============================================================================
