-------------------------- MODULE MCKnowledgeGraph --------------------------
(* An instance of KnowledgeGraph: two documents that share an entity, one   *)
(* text of two chunks and a blank one, answers with an empty name, an       *)
(* unknown type, a relation to an entity of another chunk and more than the *)
(* maxima.                                                                  *)
EXTENDS KnowledgeGraph, TLC

Symmetry == Permutations(Jobs)

Entity(n, t) == [name |-> n, type |-> t]
Relation(a, t, b) == [source |-> a, target |-> b, type |-> t]

MCChunking == [short |-> <<"a">>, long |-> <<"b", "c">>, blank |-> <<>>]

MCAnswer ==
    [a |-> [entities |-> <<Entity("x", "PERSON"), Entity(Null, "PERSON"), Entity("y", "TEAM"),
                           Entity("z", "PROCESS")>>,
            relations |-> <<Relation("x", "USES", "y")>>],
     b |-> [entities |-> <<Entity("y", "PROCESS")>>,
            relations |-> <<Relation("y", "REQUIRES", "x"), Relation("y", "USES", Null)>>],
     c |-> [entities |-> <<Entity("x", "PERSON")>>, relations |-> <<>>]]

MCAuthor == [d \in Docs |-> IF d = "d1" THEN "u1" ELSE "u2"]
MCKeywords == {{}, {"x", "y", "d1"}}
MCTags == [d \in Docs |-> {"hr"}]
=============================================================================
