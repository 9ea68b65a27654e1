------------------------------ MODULE MCAccess ------------------------------
(* Instances of Access for TLC.                                            *)
EXTENDS Access, TLC

(* The directory instance has no AI clients and fewer revocations.         *)
ClientsByMode     == [m \in Modes |-> IF m = "local" THEN Employees ELSE {}]
RevocationsByMode == [m \in Modes |-> IF m = "local" THEN 3 ELSE 1]

Alike == Permutations(Accounts \ (Employees \cup Maintainers))
           \cup Permutations(Calls) \cup Permutations(Processes) \cup Permutations(Grants)
=============================================================================
