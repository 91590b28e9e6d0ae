----------------------------- MODULE MCServices -----------------------------
(***************************************************************************)
(* Checks the services on small sets: the accounts are interchangeable, and  *)
(* so are the requests about them.                                           *)
(***************************************************************************)
EXTENDS Services, TLC

Symmetry == Permutations(Users) \cup Permutations(Calls)
=============================================================================
