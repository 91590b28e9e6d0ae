---------------------------- MODULE MCTtsRelay ----------------------------
(* TtsRelay for TLC; the symmetry is not used where liveness is checked.   *)
EXTENDS TtsRelay, TLC

Symmetry == Permutations(Ids) \cup Permutations(Clients) \cup Permutations(Streams)
=============================================================================
