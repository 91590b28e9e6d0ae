--------------------------- MODULE MCKnowledgeHub ---------------------------
(* KnowledgeHub for TLC.                                                   *)
EXTENDS KnowledgeHub, TLC

Symmetry == Permutations(Reqs) \cup Permutations(Jobs)
            \cup Permutations(Contents) \cup Permutations(Reviews)
=============================================================================
