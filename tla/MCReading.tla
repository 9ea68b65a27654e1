----------------------------- MODULE MCReading -----------------------------
(* Instances of Reading for TLC.                                           *)
EXTENDS Reading, TLC

CONSTANTS a, b
OnePrimary  == <<a>>
OneFallback == <<b>>

(* The day's share is short in one of the configurations.                  *)
ShareByMode == [m \in Modes |-> IF m = "direct" THEN 1 ELSE 0]
=============================================================================
