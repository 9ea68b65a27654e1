---------------------------- MODULE VersionIndex ----------------------------
(***************************************************************************)
(* What the search index promises its readers, without jobs, leases or     *)
(* workers: every version has one text at a time, which is replaced in one *)
(* step, only ever by the text of a later parse, until the version is      *)
(* removed for good.                                                       *)
(***************************************************************************)
EXTENDS Integers

CONSTANT Versions

VARIABLES
    latest,     \* number of the parse whose text a version has, 0 for none
    shown,      \* the parses whose text a reader finds
    gone        \* versions that were removed

vars == <<latest, shown, gone>>

Init ==
    /\ latest = [v \in Versions |-> 0]
    /\ shown = [v \in Versions |-> {}]
    /\ gone = {}

Switch(v) ==
    /\ v \notin gone
    /\ latest'[v] > latest[v]
    /\ latest' = [latest EXCEPT ![v] = latest'[v]]
    /\ \E text \in {{}, {latest'[v]}} : shown' = [shown EXCEPT ![v] = text]
    /\ UNCHANGED gone

Remove(removed) ==
    /\ gone' = gone \cup removed
    /\ latest' = [v \in Versions |-> IF v \in removed THEN 0 ELSE latest[v]]
    /\ shown' = [v \in Versions |-> IF v \in removed THEN {} ELSE shown[v]]

Next ==
    \/ \E v \in Versions : Switch(v)
    \/ \E removed \in SUBSET Versions : Remove(removed)

Spec == Init /\ [][Next]_vars
=============================================================================
