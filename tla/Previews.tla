------------------------------ MODULE Previews ------------------------------
(***************************************************************************)
(* Previews of documents (previews.py) and thumbnails (thumbnails.py): a   *)
(* client asks again and again until its file is there or refused.  A file *)
(* is made by a child process, which writes a temporary file and renames   *)
(* it; a job of a thread pool waits for the child.  The service may be     *)
(* restarted at any time, and a child then goes on alone.                  *)
(***************************************************************************)
EXTENDS Naturals, FiniteSets

CONSTANTS
    Targets,          \* files to make: manifests, pages, thumbnails
    Thumbnails,       \* those of thumbnails.py, a service with jobs of its own
    ManifestOf,       \* the manifest a page needs; a file that needs none: itself
    Memory,           \* ticks a failure is remembered (60 s; that of a thumbnail is not)
    MaxJobs,          \* 100
    Children,         \* bound: child processes
    MaxTime,          \* bound: the clock stops here
    MaxRestarts       \* bound: restarts of the service

Absent == "absent"

ASSUME PreviewsAssumption ==
    /\ Thumbnails \subseteq Targets
    /\ ManifestOf \in [Targets -> Targets]
    /\ MaxJobs \in Nat \ {0}
    /\ {Memory, MaxTime, MaxRestarts} \subseteq Nat
    /\ Absent \notin Children

VARIABLES
    files,            \* by the child that created it: is it whole, who opened it last and
                      \* (history) was an overlap of two services at work on it then
    target,           \* the child whose file has the final name, or Absent
    part,             \* the child whose file has the temporary name, or Absent
    child,            \* the processes, and the file each has open
    jobs,             \* jobs: by target, "none", "running" or "finished"
    failed,           \* failed: when a failure was noticed
    clock,
    restarts

previewVars == <<files, target, part, child, jobs, failed, clock, restarts>>

Torn == "torn"
Whole == "whole"
Unborn == [pc |-> "unborn"]
Never == MaxTime + Memory + 1

PreviewsInit ==
    /\ files = [k \in Children |-> [text |-> Torn, last |-> k, overlap |-> FALSE]]
    /\ target = [t \in Targets |-> Absent]
    /\ part = [t \in Targets |-> Absent]
    /\ child = [k \in Children |-> Unborn]
    /\ jobs = [t \in Targets |-> "none"]
    /\ failed = [t \in Targets |-> Never]
    /\ clock = 0 /\ restarts = 0

Made(t) == target[t] # Absent
Remembered(stamp, t) == stamp[t] # Never /\ clock - stamp[t] < Memory

-----------------------------------------------------------------------------
(* _request, under the lock: the file; or a failure that was noticed less  *)
(* than a minute ago; or wait for the job; or, when there is room once the *)
(* finished jobs are gone, a new job.                                      *)
Pool(t) == IF t \in Thumbnails THEN Thumbnails ELSE Targets \ Thumbnails

Noticed(done) ==
    [t \in Targets |-> IF t \in done \ Thumbnails /\ ~Made(t) THEN clock
                       ELSE IF Remembered(failed, t) THEN failed[t] ELSE Never]

Served(t) ==
    /\ Made(t)
    /\ jobs' = [jobs EXCEPT ![t] = "none"]
    /\ failed' = [failed EXCEPT ![t] = Never]
    /\ UNCHANGED child

Refused(t) ==
    /\ ~Made(t)
    /\ LET done == {t} \cap {u \in Targets : jobs[u] = "finished"} IN
       /\ failed' = Noticed(done)
       /\ Remembered(failed', t) \/ done # {}
       /\ jobs' = [u \in Targets |-> IF u \in done THEN "none" ELSE jobs[u]]
    /\ UNCHANGED child

Awaited(t) ==
    /\ ~Made(t) /\ jobs[t] = "running" /\ ~Remembered(failed, t)
    /\ failed' = Noticed({})
    /\ UNCHANGED <<jobs, child>>

Submitted(t) ==
    /\ ~Made(t) /\ jobs[t] = "none" /\ ~Remembered(failed, t)
    /\ LET done == {u \in Pool(t) : jobs[u] = "finished"}
           left == [u \in Targets |-> IF u \in done THEN "none" ELSE jobs[u]]
       IN  /\ failed' = Noticed(done)
           /\ IF Cardinality({u \in Pool(t) : left[u] # "none"}) >= MaxJobs
              THEN /\ jobs' = left
                   /\ UNCHANGED child
              ELSE /\ jobs' = [left EXCEPT ![t] = "running"]
                   /\ \E k \in Children :
                        /\ child[k] = Unborn
                        /\ child' = [child EXCEPT
                              ![k] = [pc |-> "open", makes |-> t, file |-> k, orphan |-> FALSE]]

(* A page is asked for once its manifest can be read.                      *)
Request(t) ==
    /\ t \notin Thumbnails
    /\ LET m == ManifestOf[t] IN m # t => Made(m) /\ files[target[m]].text = Whole
    /\ Served(t) \/ Refused(t) \/ Awaited(t) \/ Submitted(t)
    /\ UNCHANGED <<files, target, part, clock, restarts>>

(* get of thumbnails.py is the same, but for the memory of failures.       *)
Get(t) ==
    /\ t \in Thumbnails
    /\ Served(t) \/ Refused(t) \/ Awaited(t) \/ Submitted(t)
    /\ UNCHANGED <<files, target, part, clock, restarts>>

-----------------------------------------------------------------------------
(* The child: opening the temporary file empties it, also if another child *)
(* has it open; what two children write into one file are the same bytes,  *)
(* whole when the last to open it is through.                              *)
Goes(k, from, change) == child[k].pc = from /\ child' = [child EXCEPT ![k] = change]

(* A child that ends: the job of its service waits for it, but nobody for  *)
(* one that the service before a restart has left behind.                  *)
Ended(k) == IF child[k].orphan THEN [pc |-> "gone"] ELSE [child[k] EXCEPT !.pc = "over"]

InHand(k, t) == child[k].pc \in {"write", "rename"} /\ child[k].makes = t

(* Another child has this file in hand, and one of the two is left from    *)
(* before a restart.                                                       *)
Overlaps(k) ==
    \E j \in Children \ {k} :
        InHand(j, child[k].makes) /\ (child[j].orphan \/ child[k].orphan)

Open_InPlace(k) ==
    /\ Goes(k, "open", [child[k] EXCEPT !.pc = "write"])
    /\ target' = [target EXCEPT ![child[k].makes] = k]
    /\ UNCHANGED <<files, part, jobs, failed, clock, restarts>>

Open(k) ==
    LET t == child[k].makes
        f == IF part[t] = Absent THEN k ELSE part[t] IN
    /\ Goes(k, "open", [child[k] EXCEPT !.pc = "write", !.file = f])
    /\ part' = [part EXCEPT ![t] = f]
    /\ files' = [files EXCEPT ![f] = [text |-> Torn, last |-> k, overlap |-> Overlaps(k)]]
    /\ UNCHANGED <<target, jobs, failed, clock, restarts>>

Write(k) ==
    LET f == child[k].file IN
    /\ Goes(k, "write", [child[k] EXCEPT !.pc = "rename"])
    /\ files' = IF files[f].last = k THEN [files EXCEPT ![f].text = Whole] ELSE files
    /\ UNCHANGED <<target, part, jobs, failed, clock, restarts>>

Rename(k) ==
    LET t == child[k].makes IN
    /\ Goes(k, "rename", Ended(k))
    /\ IF part[t] = Absent THEN UNCHANGED <<target, part>>
       ELSE target' = [target EXCEPT ![t] = part[t]] /\ part' = [part EXCEPT ![t] = Absent]
    /\ UNCHANGED <<files, jobs, failed, clock, restarts>>

(* It cannot read the document, or runs out of time and is killed.         *)
Die(k) ==
    /\ child[k].pc \in {"open", "write", "rename"}
    /\ child' = [child EXCEPT ![k] = Ended(k)]
    /\ UNCHANGED <<files, target, part, jobs, failed, clock, restarts>>

(* _generate, when the child is over: whatever is left of its temporary    *)
(* file goes.                                                              *)
Finish(k) ==
    /\ child[k].pc = "over"
    /\ child' = [child EXCEPT ![k] = [pc |-> "gone"]]
    /\ part' = [part EXCEPT ![child[k].makes] = Absent]
    /\ jobs' = [jobs EXCEPT ![child[k].makes] = IF @ = "running" THEN "finished" ELSE @]
    /\ UNCHANGED <<files, target, failed, clock, restarts>>

Restart ==
    /\ restarts < MaxRestarts /\ restarts' = restarts + 1
    /\ child' = [k \in Children |->
                    IF child[k].pc \in {"unborn", "gone"} THEN child[k]
                    ELSE IF child[k].pc = "over" THEN [pc |-> "gone"]
                    ELSE [child[k] EXCEPT !.orphan = TRUE]]
    /\ jobs' = [t \in Targets |-> "none"]
    /\ failed' = [t \in Targets |-> Never]
    /\ UNCHANGED <<files, target, part, clock>>

(* Time is read only where a failure is remembered.                        *)
Tick ==
    /\ clock < MaxTime /\ \E t \in Targets : Remembered(failed, t)
    /\ clock' = clock + 1
    /\ UNCHANGED <<files, target, part, child, jobs, failed, restarts>>

Rendering ==
    \/ \E k \in Children : Open(k) \/ Write(k) \/ Rename(k) \/ Die(k) \/ Finish(k)
    \/ Restart \/ Tick

PreviewsNext == (\E t \in Targets : Request(t)) \/ Rendering
ThumbnailsNext == (\E t \in Thumbnails : Get(t)) \/ Rendering

-----------------------------------------------------------------------------
(* What has the final name was written to its end, whoever renamed it and  *)
(* when.  Only one thing may spoil it: while a child of the service before *)
(* a restart had the same file in hand, another began to write it.         *)
WholeUnlessOverlap ==
    \A t \in Targets :
        Made(t) /\ files[target[t]].text = Torn => files[target[t]].overlap
=============================================================================
