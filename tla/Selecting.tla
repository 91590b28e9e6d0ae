------------------------------ MODULE Selecting ------------------------------
(* A loop over a list that skips some of its elements, those outside a set.  *)
EXTENDS Naturals, Sequences

\* kept[i]: what is kept of the first i elements.
KeptOf(s, S) ==
    LET kept[i \in 0..Len(s)] ==
            IF i = 0 THEN <<>>
            ELSE IF s[i] \in S THEN Append(kept[i - 1], s[i]) ELSE kept[i - 1]
    IN  kept

\* The elements of s that are in S, in the order of s.
Only(s, S) == KeptOf(s, S)[Len(s)]
=============================================================================
