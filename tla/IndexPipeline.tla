--------------------------- MODULE IndexPipeline ---------------------------
(***************************************************************************)
(* The consumer side of the document pipeline: RabbitMQService delivering  *)
(* the tasks of the durable queues, and the handlers that keep the full    *)
(* text index (SearchIndexService, one entry per document) and the vector  *)
(* index (RagService, the chunks of a text) in step with the stores.        *)
(*                                                                         *)
(* consume() is called without a prefetch limit, so the broker hands over  *)
(* every task it has and the handlers of one queue interleave at their     *)
(* awaits.  A handler run is a job; a job reads the stores in one step and *)
(* writes an index in a later one.                                         *)
(***************************************************************************)
EXTENDS Naturals, Sequences

CONSTANTS
    Docs, Contents, Queues,
    Jobs,           \* slots for handler runs: their number bounds concurrency
    Spaced,         \* whether the tasks of one document are handled one by one
    MaxFaults,      \* bound on failures
    NoContent, NotIndexed

VARIABLES
    row, content,   \* Postgres and Mongo, written by the document service
    queue,          \* every task published so far, per queue, oldest first
    next,           \* next[q]: how many tasks of q have been delivered once
    back,           \* back[q]: positions in queue[q] put back for redelivery
    job,            \* the handler runs in progress
    search,         \* search[d]: the text in the full text index
    vector,         \* vector[d]: the texts whose chunks are in the vector index
    faults

indexes == <<search, vector>>
pipelineVars == <<next, back, job, search, vector>>

-----------------------------------------------------------------------------
JobPC == {"free", "received", "readBody", "writeEntry", "clearChunks", "writeChunks"}

\* pos: which task of the queue; text: the body the job has read; lost: its
\* channel is gone, the task has been put back and the ack will fail.
JobType == [pc : JobPC, queue : Queues \cup {"none"}, pos : Nat,
            text : Contents \cup {NoContent}, lost : BOOLEAN]

Free == [pc |-> "free", queue |-> "none", pos |-> 0, text |-> NoContent, lost |-> FALSE]

PipelineTypeOK ==
    /\ next \in [Queues -> Nat]
    /\ back \in [Queues -> SUBSET Nat]
    /\ \A q \in Queues : /\ next[q] <= Len(queue[q])
                         /\ back[q] \subseteq 1..next[q]
    /\ job \in [Jobs -> JobType]
    /\ search \in [Docs -> Contents \cup {NoContent, NotIndexed}]
    /\ vector \in [Docs -> SUBSET Contents]

PipelineInit ==
    /\ next = [q \in Queues |-> 0]
    /\ back = [q \in Queues |-> {}]
    /\ job = [j \in Jobs |-> Free]
    /\ search = [d \in Docs |-> NotIndexed]
    /\ vector = [d \in Docs |-> {}]

-----------------------------------------------------------------------------
(* Helpers *)

LiveDoc(d) == row[d].status # "Absent" /\ ~row[d].deleted

\* findOne({ documentId, deleted: false }), '' when there is none
Body(d) == IF content[d].deleted THEN NoContent ELSE content[d].text

Working(j) == job[j].pc # "free"
Task(j) == queue[job[j].queue][job[j].pos]
Doc(j) == Task(j).doc
Handles(j, q, type, pc) ==
    /\ job[j].pc = pc
    /\ job[j].queue = q
    /\ Task(j).type = type

Advance(j, pc) == job' = [job EXCEPT ![j].pc = pc]

\* The handler returns and the callback acks: the task is gone unless the
\* channel was, in which case the failed ack is only logged.
Finish(j) == job' = [job EXCEPT ![j] = Free]

Fault == faults < MaxFaults /\ faults' = faults + 1

-----------------------------------------------------------------------------
(* RabbitMQ: delivery, loss of the channel, failure of a handler *)

\* Position n holds the oldest task of q that is ready, one put back before
\* any new one.
Ready(q, n) ==
    IF back[q] = {} THEN n = next[q] + 1 ELSE n \in back[q] /\ \A m \in back[q] : n <= m

\* The broker hands the oldest ready task of q to the free handler slot j.
Deliver(j, q) ==
    /\ ~Working(j)
    /\ \E n \in 1..Len(queue[q]) :
        /\ Ready(q, n)
        /\ Spaced => \A k \in Jobs :
                        Working(k) /\ job[k].queue = q => Doc(k) # queue[q][n].doc
        /\ job' = [job EXCEPT ![j] =
                      [Free EXCEPT !.pc = "received", !.queue = q, !.pos = n]]
        /\ back' = [back EXCEPT ![q] = @ \ {n}]
        /\ next' = [next EXCEPT ![q] = IF n > @ THEN n ELSE @]
    /\ UNCHANGED <<indexes, faults>>

Unacked(q) == {j \in Jobs : Working(j) /\ job[j].queue = q /\ ~job[j].lost}

PutBack == back' = [q \in Queues |-> back[q] \cup {job[j].pos : j \in Unacked(q)}]

\* The connection drops and comes back: the broker puts back every task it
\* has no ack for, while the handlers that received them go on.
LoseChannel ==
    /\ \E q \in Queues : Unacked(q) # {}
    /\ PutBack
    /\ job' = [j \in Jobs |-> IF Working(j) THEN [job[j] EXCEPT !.lost = TRUE] ELSE Free]
    /\ Fault
    /\ UNCHANGED <<next, indexes>>

\* The process dies with its handlers; their tasks are put back.
Crash ==
    /\ PutBack
    /\ job' = [j \in Jobs |-> Free]
    /\ UNCHANGED <<next, indexes>>

\* A call of the handler throws.  The search INDEX handler passes the error
\* to the callback, which nacks without requeue; the others log it and are
\* acked: in every case the task is gone and what was written stays.
HandlerFails(j) ==
    /\ Working(j)
    /\ Finish(j)
    /\ Fault
    /\ UNCHANGED <<next, back, indexes>>

-----------------------------------------------------------------------------
(* SearchIndexService *)

\* indexFromDocumentId reads the row and goes on only if it is published ...
SearchReadRow(j) ==
    /\ Handles(j, "search", "INDEX", "received")
    /\ IF LiveDoc(Doc(j)) /\ row[Doc(j)].status = "Published"
       THEN Advance(j, "readBody")
       ELSE Finish(j)
    /\ UNCHANGED <<next, back, indexes, faults>>

\* ... then reads the body ...
SearchReadBody(j) ==
    /\ Handles(j, "search", "INDEX", "readBody")
    /\ job' = [job EXCEPT ![j].pc = "writeEntry", ![j].text = Body(Doc(j))]
    /\ UNCHANGED <<next, back, indexes, faults>>

\* ... and writes the entry whose id is the document's.
SearchWrite(j) ==
    /\ Handles(j, "search", "INDEX", "writeEntry")
    /\ search' = [search EXCEPT ![Doc(j)] = job[j].text]
    /\ Finish(j)
    /\ UNCHANGED <<next, back, vector, faults>>

\* Mutant: the task is acked and the entry stays.
SearchDelete_KeepsEntry(j) ==
    /\ Handles(j, "search", "DELETE", "received")
    /\ Finish(j)
    /\ UNCHANGED <<next, back, indexes, faults>>

SearchDelete(j) ==
    /\ Handles(j, "search", "DELETE", "received")
    /\ search' = [search EXCEPT ![Doc(j)] = NotIndexed]
    /\ Finish(j)
    /\ UNCHANGED <<next, back, vector, faults>>

-----------------------------------------------------------------------------
(* RagService and VectorIndexService *)

\* reindexOne looks for the row, whatever its status.
RagReadRow(j) ==
    /\ Handles(j, "rag", "INDEX", "received")
    /\ IF LiveDoc(Doc(j)) THEN Advance(j, "readBody") ELSE Finish(j)
    /\ UNCHANGED <<next, back, indexes, faults>>

\* Mutant: a missing body is indexed as well, as the other index does.
RagReadBody_AlsoMissing(j) ==
    /\ Handles(j, "rag", "INDEX", "readBody")
    /\ job' = [job EXCEPT ![j].pc = "clearChunks", ![j].text = Body(Doc(j))]
    /\ UNCHANGED <<next, back, indexes, faults>>

\* ... and has nothing to do without a body.
RagReadBody(j) ==
    /\ Handles(j, "rag", "INDEX", "readBody")
    /\ IF Body(Doc(j)) = NoContent
       THEN Finish(j)
       ELSE job' = [job EXCEPT ![j].pc = "clearChunks", ![j].text = Body(Doc(j))]
    /\ UNCHANGED <<next, back, indexes, faults>>

ClearChunks(d) == vector' = [vector EXCEPT ![d] = {}]

RagClear(j) ==
    /\ Handles(j, "rag", "INDEX", "clearChunks")
    /\ ClearChunks(Doc(j))
    /\ Advance(j, "writeChunks")
    /\ UNCHANGED <<next, back, search, faults>>

\* After the embeddings arrive, bulkIndex writes the chunks.  A chunk id is a
\* hash of document, position and text, so the chunks of another text of the
\* document are not replaced.
RagWrite(j) ==
    /\ Handles(j, "rag", "INDEX", "writeChunks")
    /\ vector' = [vector EXCEPT ![Doc(j)] = @ \cup {job[j].text}]
    /\ Finish(j)
    /\ UNCHANGED <<next, back, search, faults>>

RagDelete(j) ==
    /\ Handles(j, "rag", "DELETE", "received")
    /\ ClearChunks(Doc(j))
    /\ Finish(j)
    /\ UNCHANGED <<next, back, search, faults>>

Handle(j) ==
    \/ SearchReadRow(j) \/ SearchReadBody(j) \/ SearchWrite(j) \/ SearchDelete(j)
    \/ RagReadRow(j) \/ RagReadBody(j) \/ RagClear(j) \/ RagWrite(j) \/ RagDelete(j)

-----------------------------------------------------------------------------
(* Queries about the pipeline, for the modules that compose it *)

\* No task is waiting or being handled.
Drained ==
    /\ \A j \in Jobs : ~Working(j)
    /\ \A q \in Queues : next[q] = Len(queue[q]) /\ back[q] = {}

Indexed(d) == search[d] # NotIndexed \/ vector[d] # {}
=============================================================================
