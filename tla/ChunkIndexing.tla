---------------------------- MODULE ChunkIndexing ----------------------------
(***************************************************************************)
(* From the text of a document to its chunks in the vector index:            *)
(* ChunkingService cuts the text into overlapping pieces, EmbeddingService   *)
(* embeds them in batches, which the provider may answer in any order, and   *)
(* VectorIndexService pairs chunk i with vector i.  A text is its length; a  *)
(* vector is known by the chunk it was computed from.                        *)
(***************************************************************************)
EXTENDS Naturals, Sequences, FiniteSets

CONSTANTS
    Lengths,        \* lengths of trimmed texts
    ChunkSizes,     \* RAG_CHUNK_CHARS
    Overlaps,       \* RAG_CHUNK_OVERLAP_CHARS, which nothing keeps below the size
    BatchSizes      \* EMBEDDING_BATCH_SIZE

ASSUME ChunkingAssumption ==
    /\ Lengths \cup Overlaps \subseteq Nat
    /\ ChunkSizes \cup BatchSizes \subseteq Nat \ {0}

VARIABLES
    job,        \* the text and the settings, and what is being done
    start,      \* where the next chunk starts
    chunks,     \* chunks cut so far: from (included) and to (excluded)
    vectors,    \* vectors received so far
    stored      \* what bulkIndex wrote: a chunk and a vector each

chunkVars == <<job, start, chunks, vectors, stored>>

Smaller(a, b) == IF a < b THEN a ELSE b
Larger(a, b) == IF a < b THEN b ELSE a

ChunkTypeOK ==
    /\ job.stage \in {"cut", "embed", "write", "done", "failed"}
    /\ start \in 0..job.length
    /\ chunks \in Seq([from : 0..job.length, to : 0..job.length])
    /\ vectors \in Seq(DOMAIN chunks)

ChunkInit ==
    /\ job \in [length : Lengths, size : ChunkSizes, overlap : Overlaps,
                batch : BatchSizes, stage : {"cut"}]
    /\ start = 0 /\ chunks = <<>> /\ vectors = <<>> /\ stored = <<>>

-----------------------------------------------------------------------------
Stage(stage) == job' = [job EXCEPT !.stage = stage]

\* Mutant: the end of a chunk is not cut to the text
ChunkEnd_Uncut(from) == from + job.size

ChunkEnd(from) == Smaller(from + job.size, job.length)

NextStart(from, to) ==
    Larger(IF to < job.overlap THEN 0 ELSE to - job.overlap, from + 1)

\* One turn of the loop.  The difference above may be negative in the code,
\* where the larger of the two is the same.
CutChunk ==
    LET to == ChunkEnd(start) IN
    /\ job.stage = "cut" /\ start < job.length
    /\ chunks' = Append(chunks, [from |-> start, to |-> to])
    /\ IF to >= job.length THEN Stage("embed") /\ start' = start
       ELSE start' = NextStart(start, to) /\ UNCHANGED job
    /\ UNCHANGED <<vectors, stored>>

\* An empty text has no chunks, and nothing is written.
NoText ==
    /\ job.stage = "cut" /\ job.length = 0
    /\ Stage("done")
    /\ UNCHANGED <<start, chunks, vectors, stored>>

\* The answer to a batch: data, each with the index of its text.
Answers(n) == {data \in [1..n -> 0..n - 1] : \A i, j \in 1..n : i # j => data[i] # data[j]}

\* Mutant: the answers are taken in the order they come in
InTextOrder_AsCome(data) == data

InTextOrder(data) ==
    [i \in DOMAIN data |-> CHOOSE x \in 0..Len(data) - 1 :
        Cardinality({j \in DOMAIN data : data[j] < x}) = i - 1 /\ \E j \in DOMAIN data : data[j] = x]

EmbedOnce ==
    LET first == Len(vectors)
        n == Smaller(job.batch, Len(chunks) - first)
    IN  /\ job.stage = "embed"
        /\ \/ /\ \E data \in Answers(n) :
                   vectors' = vectors \o [i \in 1..n |-> first + InTextOrder(data)[i] + 1]
              /\ IF first + n = Len(chunks) THEN Stage("write") ELSE UNCHANGED job
           \/ Stage("failed") /\ UNCHANGED vectors
        /\ UNCHANGED <<start, chunks, stored>>

BulkIndex ==
    /\ job.stage = "write"
    /\ stored' = [i \in DOMAIN chunks |-> [chunk |-> chunks[i], vector |-> vectors[i]]]
    /\ Stage("done")
    /\ UNCHANGED <<start, chunks, vectors>>

ChunkNext == CutChunk \/ NoText \/ EmbedOnce \/ BulkIndex

-----------------------------------------------------------------------------
\* What is indexed covers the text without a gap, even when the overlap is as
\* large as a chunk; the loop ends, and every chunk has its own vector.
IndexedWhole ==
    /\ Len(chunks) <= job.length
    /\ \A i \in DOMAIN chunks : chunks[i].from < chunks[i].to
    /\ job.stage = "done" =>
        /\ \A x \in 0..job.length - 1 : \E i \in DOMAIN stored :
             stored[i].chunk.from <= x /\ x < stored[i].chunk.to
        /\ \A i \in DOMAIN stored : stored[i].vector = i
        /\ \A i, j \in DOMAIN stored : i < j => stored[i].chunk.from < stored[j].chunk.from
=============================================================================
