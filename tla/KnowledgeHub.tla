---------------------------- MODULE KnowledgeHub ----------------------------
(***************************************************************************)
(* The document service and the index pipeline as one process: requests    *)
(* change the stores and publish tasks, the broker delivers the tasks to   *)
(* the handlers, the handlers read the stores the requests are changing.   *)
(***************************************************************************)
EXTENDS DocumentWorkflow

CONSTANTS Jobs, Spaced, NotIndexed

\* The third queue, kg.graph, has its own consumer and is not part of this
\* composition.
ASSUME HubAssumption ==
    /\ Queues \subseteq {"search", "rag"}
    /\ Spaced \in BOOLEAN
    /\ NotIndexed \notin Contents \cup {NoContent}

VARIABLES next, back, job, search, vector

Pipeline == INSTANCE IndexPipeline

pipelineVars == <<next, back, job, search, vector>>
hubVars == <<workflowVars, pipelineVars>>

HubTypeOK == TypeOK /\ Pipeline!PipelineTypeOK

HubInit == Init /\ Pipeline!PipelineInit

\* The service restarts: every request and every handler ends where it is.
ProcessCrash ==
    /\ \/ \E r \in Reqs : req[r].pc # "idle"
       \/ \E j \in Jobs : Pipeline!Working(j)
    /\ req' = [r \in Reqs |-> Idle]
    /\ Pipeline!Crash
    /\ Fault
    /\ UNCHANGED <<stores, queue>>

WorkflowStep == Next /\ UNCHANGED pipelineVars

Consume(j) ==
    /\ \/ \E q \in Queues : Pipeline!Deliver(j, q)
       \/ Pipeline!Handle(j)
    /\ UNCHANGED <<stores, queue, req>>

ConsumerFault ==
    /\ Pipeline!LoseChannel \/ \E j \in Jobs : Pipeline!HandlerFails(j)
    /\ UNCHANGED <<stores, queue, req>>

HubNext == WorkflowStep \/ (\E j \in Jobs : Consume(j)) \/ ConsumerFault \/ ProcessCrash

\* Requests in flight and handlers that run go on; the broker delivers what
\* is ready.  Clients need not send anything.
HubFairness ==
    /\ \A r \in Reqs : WF_hubVars(Step(r) /\ UNCHANGED pipelineVars)
    /\ \A j \in Jobs : WF_hubVars(Pipeline!Handle(j) /\ UNCHANGED <<stores, queue, req>>)
    /\ \A q \in Queues :
        WF_hubVars(\E j \in Jobs : Pipeline!Deliver(j, q) /\ UNCHANGED <<stores, queue, req>>)

HubSpec == HubInit /\ [][HubNext]_hubVars /\ HubFairness

-----------------------------------------------------------------------------
Published(d) == Live(d) /\ row[d].status = "Published"

\* Whatever overlaps and whatever fails, an index never holds a document no
\* reviewer has decided on: the chain from upload to index passes through a
\* decision (10-document-review.html:172).
IndexedWasReviewed == \A d \in Docs : Pipeline!Indexed(d) => Decided(d)

\* The indexes agree with the stores about d: a published document is there
\* with the body it has, any other is not (document-access.ts:61 relies on
\* this when it filters search results without looking at the status).
Agrees(d) ==
    /\ "search" \in Queues =>
        search[d] = IF Published(d) THEN content[d].text ELSE NotIndexed
    /\ "rag" \in Queues =>
        vector[d] = IF Published(d) THEN {content[d].text} ELSE {}

\* Once the requests are done and the queues are empty the indexes agree with
\* the stores, however reads and writes of the two sides interleaved.
SettledAgrees ==
    (Pipeline!Drained /\ \A r \in Reqs : req[r].pc = "idle") => \A d \in Docs : Agrees(d)

\* The indexes never stay behind for good.
EventuallyAgrees == \A d \in Docs : []<>Agrees(d)

-----------------------------------------------------------------------------
(* What comments and course notes say, checked against the code *)

\* document-access.ts:61: what is not published is not in an index, once
\* every task has been handled.
NothingLeftBehind ==
    (Pipeline!Drained /\ \A r \in Reqs : req[r].pc = "idle") =>
        \A d \in Docs : Pipeline!Indexed(d) => Published(d)
=============================================================================
