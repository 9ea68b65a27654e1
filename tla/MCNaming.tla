------------------------------ MODULE MCNaming ------------------------------
(* Instances of Naming for TLC.                                            *)
EXTENDS Naming
=============================================================================
