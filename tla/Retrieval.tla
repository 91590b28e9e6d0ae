----------------------------- MODULE Retrieval -----------------------------
(***************************************************************************)
(* One search of the knowledge base: HybridRetrievalService asks the keyword *)
(* and the vector channel of the chunk index (VectorIndexService), fuses     *)
(* their lists by reciprocal rank and has RerankerService judge the result.  *)
(* The query may fail to be embedded, and the reranker to answer.            *)
(***************************************************************************)
EXTENDS Naturals, Sequences, FiniteSets, Selecting

CONSTANTS
    Chunks,         \* the indexed chunks
    HybridTopK,     \* RAG_HYBRID_TOP_K
    RrfC,           \* RAG_RRF_C
    Scores,         \* what the reranker may say of a chunk
    MinScore,       \* RAG_MIN_SCORE
    TopKs           \* the number of chunks asked for

ASSUME RetrievalAssumption ==
    /\ {HybridTopK, RrfC, MinScore} \cup Scores \cup TopKs \subseteq Nat
    /\ 0 \notin TopKs \cup {RrfC} /\ IsFiniteSet(Chunks)

VARIABLES
    search,     \* the stage of the search, how many are asked for, both lists
    fused,      \* the fused list, of [id, score]
    found       \* the answer

retrievalVars == <<search, fused, found>>

-----------------------------------------------------------------------------
ClampTopK(k) == IF k < 1 THEN 1 ELSE IF k > 50 THEN 50 ELSE k

Lists(k) == {s \in UNION {[1..n -> Chunks] : n \in 0..k} :
                \A i, j \in DOMAIN s : i # j => s[i] # s[j]}

\* A channel lists its best chunks, best first, each once.
Channel == Lists(IF Cardinality(Chunks) < ClampTopK(HybridTopK)
                 THEN Cardinality(Chunks) ELSE ClampTopK(HybridTopK))

RetrievalInit ==
    /\ search = [stage |-> "asked", topK |-> 0, keyword |-> <<>>, vector |-> <<>>]
    /\ fused = <<>> /\ found = <<>>

-----------------------------------------------------------------------------
(* Reciprocal rank fusion.  Scores are multiples of 1 / Unit, exactly.      *)

In(list, c) == \E i \in DOMAIN list : list[i] = c
Rank(list, c) == CHOOSE i \in DOMAIN list : list[i] = c

Unit == LET product[n \in 0..Cardinality(Chunks)] ==
                IF n = 0 THEN 1 ELSE product[n - 1] * (RrfC + n)
        IN  product[Cardinality(Chunks)]

Rrf(list, c) == IF In(list, c) THEN Unit \div (RrfC + Rank(list, c)) ELSE 0

\* Mutant: existing.score = rrf
RrfScore_Last(keyword, vector, c) ==
    IF In(vector, c) THEN Rrf(vector, c) ELSE Rrf(keyword, c)

RrfScore(keyword, vector, c) == Rrf(keyword, c) + Rrf(vector, c)

\* The order chunks enter the map in, which a stable sort keeps among equals.
Entered(keyword, vector, c) ==
    IF In(keyword, c) THEN Rank(keyword, c) ELSE Len(keyword) + Rank(vector, c)

RrfFuse(keyword, vector) ==
    LET hits == {c \in Chunks : In(keyword, c) \/ In(vector, c)}
        score(c) == RrfScore(keyword, vector, c)
        before(a, b) == \/ score(a) > score(b)
                        \/ /\ score(a) = score(b)
                           /\ Entered(keyword, vector, a) < Entered(keyword, vector, b)
        at(n) == CHOOSE c \in hits : Cardinality({b \in hits : before(b, c)}) = n - 1
    IN  [n \in 1..Cardinality(hits) |-> [id |-> at(n), score |-> score(at(n))]]

\* A query that cannot be embedded is searched by its words only.
SearchHybrid(topK) ==
    /\ search.stage = "asked"
    /\ \E keyword \in Channel, vector \in Channel :
        /\ search' = [stage |-> "fused", topK |-> topK, keyword |-> keyword, vector |-> vector]
        /\ fused' = RrfFuse(keyword, vector)
    /\ UNCHANGED found

-----------------------------------------------------------------------------
(* Reranking *)

FirstHits(hits, n) == SubSeq(hits, 1, IF Len(hits) < n THEN Len(hits) ELSE n)
\* The answers of the reranker: up to topK of the documents it was sent, with
\* scores, best first, among them perhaps an index it was not sent.
Reranked ==
    LET n == Len(FirstHits(fused, search.topK))
        lists == UNION {[1..k -> [index : 0..Len(fused), score : Scores]] : k \in 1..n}
    IN  {l \in lists : \A i, j \in DOMAIN l :
            i < j => l[i].index # l[j].index /\ l[i].score >= l[j].score}

\* Chunks of the answer that were sent, with their new scores (index from 0).
Known(answer) ==
    LET items == Only(answer, [index : 0..Len(fused) - 1, score : Scores])
    IN  [i \in DOMAIN items |-> [id |-> fused[items[i].index + 1].id, score |-> items[i].score]]

Relevant(hits) == Only(hits, [id : Chunks, score : {s \in Scores : s >= MinScore}])

\* Nothing found is not reranked; a reranker that is off, fails or knows none
\* of the chunks leaves the fused list, to which no threshold applies.
Rerank ==
    /\ search.stage = "fused"
    /\ \/ found' = FirstHits(fused, search.topK)
       \/ \E answer \in Reranked :
            found' = FirstHits(IF Known(answer) = <<>> THEN fused ELSE Relevant(Known(answer)),
                               search.topK)
    /\ search' = [search EXCEPT !.stage = "done"]
    /\ UNCHANGED fused

RetrievalNext == (\E k \in TopKs : SearchHybrid(k)) \/ Rerank

-----------------------------------------------------------------------------
RetrievalTypeOK ==
    /\ search.stage \in {"asked", "fused", "done"}
    /\ \A i \in DOMAIN fused : fused[i] \in [id : Chunks, score : Nat]
    /\ \A i \in DOMAIN found : found[i] \in [id : Chunks, score : Nat]

\* A chunk that is ahead of another in every channel which lists the other
\* comes ahead of it in the fused list, where each chunk found comes once; the
\* answer has each of its chunks once, all of them found, and not too many.
SearchKeepsOrder ==
    LET k == search.keyword
        v == search.vector
        ahead(list, a, b) == In(list, b) => In(list, a) /\ Rank(list, a) < Rank(list, b)
    IN  search.stage # "asked" =>
          /\ {fused[n].id : n \in DOMAIN fused} = {c \in Chunks : In(k, c) \/ In(v, c)}
          /\ \A m, n \in DOMAIN fused : m # n =>
               /\ fused[m].id # fused[n].id
               /\ ahead(k, fused[m].id, fused[n].id) /\ ahead(v, fused[m].id, fused[n].id) => m < n
          /\ Len(found) <= search.topK
          /\ \A i, j \in DOMAIN found : i # j => found[i].id # found[j].id
          /\ \A i \in DOMAIN found : \E n \in DOMAIN fused : fused[n].id = found[i].id
=============================================================================
