------------------------------- MODULE Reading -------------------------------
(***************************************************************************)
(* The passes over a file (enrich_pdf, enrich_word, enrich_excel,          *)
(* enrich_ppt, enrich_image and the worker's handling of VisionDeferred):  *)
(* each reads what is still missing until it must wait, and the file ends  *)
(* ready or partial.  One executor at a time works on the file; who that   *)
(* is, and the waiting time of the queue, are the subject of Worker.       *)
(***************************************************************************)
EXTENDS Vision

CONSTANT MaxCrashes   \* bound: crashes of the worker during a pass

VARIABLES
    pass,             \* a worker is reading the file
    status,           \* "open", then the status the file ends with
    crashes

vars == <<routeVars, visionVars, pass, status, crashes>>

Init ==
    /\ RoutesInit /\ VisionInit
    /\ pass = FALSE /\ status = "open" /\ crashes = 0

(* A region settled in an earlier pass is taken from pdf_regions.          *)
StartPass ==
    /\ ~pass /\ status = "open"
    /\ pass' = TRUE /\ started' = NoneStarted
    /\ at' = [r \in Regions |-> [pc |-> IF r \notin Shown \/ Settled(<<r>>) THEN "kept" ELSE "next"]]
    /\ UNCHANGED <<routeVars, file, cache, level, short, saved, trouble, status, crashes>>

Now(pcs) == {r \in Regions : at[r].pc \in pcs}

(* consume: a deferral is kept until the other regions are through, and    *)
(* then raised; anything else fails its page and only that.                *)
Deferred_Swallowed == FALSE
Deferred == Now({"deferred"}) # {}

(* record compares the numbers of every region, also of one read earlier.  *)
Gaps_OfThisPass == {r \in Now({"done"}) : saved[<<r>>] \in short[<<r>>]}
Gaps == {r \in Regions : saved[<<r>>] \in short[<<r>>]}

(* Nothing is left to be explained.                                        *)
AllDescribed == Now({"done", "kept"}) = Regions

EndPass ==
    /\ pass /\ Now(Busy) = {} /\ (Halted \/ Now({"next"}) = {})
    /\ pass' = FALSE
    /\ CASE Now({"broke"}) # {} -> status' = "failed" /\ UNCHANGED at
         [] Now({"broke"}) = {} /\ Deferred -> at' = [r \in Regions |-> Idle] /\ UNCHANGED status
         [] OTHER -> /\ status' = IF AllDescribed /\ Gaps = {}
                                  THEN "ready" ELSE "partial"
                     /\ UNCHANGED at
    /\ UNCHANGED <<routeVars, file, cache, level, short, saved, started, trouble, crashes>>

(* The worker dies; what its threads had written stays.                    *)
Crash ==
    /\ pass /\ crashes < MaxCrashes
    /\ pass' = FALSE /\ crashes' = crashes + 1
    /\ at' = [r \in Regions |-> Idle]
    /\ UNCHANGED <<routeVars, file, cache, level, short, saved, started, trouble, status>>

Clock == (Tick \/ NewDay) /\ UNCHANGED <<visionVars, pass, status, crashes>>
Read == VisionNext /\ UNCHANGED <<pass, status, crashes>>

Next == StartPass \/ EndPass \/ Crash \/ Clock \/ Read

(* A thread goes on, a request is answered in time (or, MaxTrouble times,  *)
(* not), the clock runs and the worker takes the file up again.            *)
Threaded(r) ==
    /\ Enter(r) \/ Cached(r) \/ Ask(r) \/ Answer(r) \/ LeaveRoute(r) \/ Pick(r)
    /\ UNCHANGED <<pass, status, crashes>>

Fairness ==
    /\ \A r \in Regions : WF_vars(Threaded(r))
    /\ WF_vars(StartPass) /\ WF_vars(EndPass)
    /\ WF_vars(Tick /\ UNCHANGED <<visionVars, pass, status, crashes>>)
    /\ WF_vars(NewDay /\ UNCHANGED <<visionVars, pass, status, crashes>>)

Spec == Init /\ [][Next]_vars
FairSpec == Spec /\ Fairness

-----------------------------------------------------------------------------
(* docs/server-setup.md: the primary is left alone for one fixed period    *)
(* from the moment of the switch, and neither requests that were already   *)
(* under way nor failures of the backup make it longer or shorter.         *)
FailoverWindowFixed == [][Switched => switched' = switched]_vars

(* A file called ready has every region and field read and every number of *)
(* its drawings accounted for, in whatever pass and by whichever model     *)
(* each region was read.                                                   *)
ReadyIsRead ==
    status = "ready" =>
        /\ \A r \in Shown : Office \/ IsField(r) => cache[<<r>>] \ short[<<r>>] # {}
        /\ ~Office => \A r \in Shown \ Fields : Settled(<<r>>) /\ saved[<<r>>] \notin short[<<r>>]

(* docs/server-setup.md: while no route can answer, and while the day's    *)
(* share is spent, progress is kept and the file waits: it never ends with *)
(* a region given up for that.                                             *)
WaitsForRecovery == status \in {"ready", "partial"} => Now({"deferred", "skipped"}) = {}

PdfWaitsForRecovery == ~Office => WaitsForRecovery

(* A region whose answer was cut off again and again is not asked for as a *)
(* whole any more: it is read in halves.                                   *)
HalvedWhenCutOff ==
    mode = "direct" =>
        \A r \in Now({"asked"}) :
            LET p == at[r].piece IN
            Len(p) <= MaxDepth /\ ~Office /\ ~IsField(r) => Level(p, <<Head(Primary)>>) < SplitLevel

(* Every file ends: no pass is cut so short, and no progress lost so often *)
(* (a draft that is not kept, a half that is read again), that a file      *)
(* comes back for ever.                                                    *)
EveryFileEnds == <>(status # "open")
=============================================================================
