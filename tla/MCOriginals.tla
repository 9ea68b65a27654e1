---------------------------- MODULE MCOriginals ----------------------------
(* Instances of Originals for TLC.                                         *)
EXTENDS Originals, TLC

CONSTANTS d1, u1

OneDocument == [u \in Uploads |-> d1]

Alike == Permutations(Blobs) \cup Permutations(Requests) \cup Permutations(Contents)
=============================================================================
