---------------------------- MODULE MCAgentTurn ----------------------------
(* An instance of AgentTurn: a question of two words, the same words with    *)
(* more space, a greeting, a text asking for a diagram and one of marks only. *)
EXTENDS AgentTurn, TLC

MCTrim == [t \in Texts |-> IF t = "a  b " THEN "a  b" ELSE IF t = " " THEN "" ELSE t]
MCSqueeze == [t \in Texts |-> IF t \in {"a  b ", "a  b"} THEN "a b" ELSE IF t = " " THEN "" ELSE t]
MCResults == {<<>>, <<"a">>, <<"b", "a">>}
Symmetry == Permutations(Calls)
=============================================================================
