------------------------ MODULE MCDocumentWorkflow ------------------------
(* DocumentWorkflow for TLC: the symmetry of the identifiers that stay     *)
(* interchangeable; not used where liveness is checked.                    *)
EXTENDS DocumentWorkflow, TLC

Symmetry == Permutations(Reqs) \cup Permutations(Contents) \cup Permutations(Reviews)
=============================================================================
