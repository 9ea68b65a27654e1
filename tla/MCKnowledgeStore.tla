-------------------------- MODULE MCKnowledgeStore --------------------------
(* Instances of KnowledgeStore for TLC.                                    *)
EXTENDS KnowledgeStore, TLC

CONSTANTS d1, v1, v2

(* All versions belong to one document; or each has a document of its own, *)
(* which then goes by the same model value, so that the pairs of a document*)
(* and its version are interchangeable.                                    *)
AllOfOne   == [v \in Versions |-> d1]
EachItsOwn == [v \in Versions |-> v]

AnyJob == Permutations(Executors) \cup Permutations(Versions)
=============================================================================
