------------------------ MODULE KnowledgeHub_proofs ------------------------
(***************************************************************************)
(* Safety of the composition: for any number of documents, requests,       *)
(* handlers and faults, whatever is in an index has been through a review; *)
(* and where requests and tasks are kept apart and nothing fails, the      *)
(* indexes end up with exactly what is published.                          *)
(***************************************************************************)
EXTENDS KnowledgeHub, DocumentWorkflow_proofs

LEMMA HubTypeInit == HubInit => HubTypeOK
<1> SUFFICES ASSUME HubInit
             PROVE  HubTypeOK
  OBVIOUS
<1>1. TypeOK
  BY TypeInit DEF HubInit
<1>2. \A q \in Queues : queue[q] = <<>>
  BY DEF HubInit, Init
<1>3. Pipeline!PipelineTypeOK
  BY <1>2 DEF HubInit, Pipeline!PipelineInit, Pipeline!PipelineTypeOK, Pipeline!Free,
     Pipeline!JobType, Pipeline!JobPC
<1>4. QED
  BY <1>1, <1>3 DEF HubTypeOK

-----------------------------------------------------------------------------
\* The workflow only appends to the queues.
LEMMA QueuesGrow ==
    ASSUME TypeOK, [Next]_workflowVars, NEW q \in Queues
    PROVE  Len(queue[q]) <= Len(queue'[q])
<1>0. queue[q] \in Seq(TaskType)
  BY DEF TypeOK
<1>1. ASSUME NEW type \in {"INDEX", "DELETE"}, NEW d \in Docs, Publish(type, d)
      PROVE  Len(queue[q]) <= Len(queue'[q])
  <2>1. \/ queue'[q] = queue[q]
        \/ queue'[q] = Append(queue[q], [type |-> type, doc |-> d])
    BY <1>1, PublishAppends
  <2>2. QED
    BY <1>0, <2>1
<1>2. CASE UNCHANGED queue
  BY <1>0, <1>2
<1>3. ASSUME NEW r \in Reqs, Unpublish(r) \/ AnnounceRemoval(r) \/ AfterApproval(r)
      PROVE  Len(queue[q]) <= Len(queue'[q])
  <2>1. req[r].doc \in Docs
    BY <1>3 DEF Unpublish, AnnounceRemoval, AfterApproval, At, TypeOK
  <2>2. QED
    BY <1>1, <1>3, <2>1 DEF Unpublish, AnnounceRemoval, AfterApproval
<1>4. QED
  BY <1>2, <1>3 DEF Next, Start, Step, Abort, stores, workflowVars,
     UploadFile, ReadForUpdate, ReadForArchive, ReadForDraft, ReadForRemove,
     ReadForSubmit, ReadForApprove, ReadForReject, ReadReview,
     CreateContent, CreateRow, WriteContent, SaveEdit, Retire, MarkDeleted, DeleteContent,
     CheckPending, OpenReview, SavePending, SaveResult, FindDoc, SaveDecision

\* A running handler holds a task that has been delivered, and a body when it
\* is about to replace chunks.
JobsOK ==
    \A j \in Jobs : Pipeline!Working(j) =>
        /\ job[j].queue \in Queues
        /\ job[j].pos \in 1..next[job[j].queue]
        /\ job[j].pc \in {"clearChunks", "writeChunks"} => job[j].text \in Contents

LEMMA JobTask ==
    ASSUME HubTypeOK, JobsOK, NEW j \in Jobs, Pipeline!Working(j)
    PROVE  /\ job[j].queue \in Queues
           /\ job[j].pos \in 1..Len(queue[job[j].queue])
           /\ Pipeline!Task(j) \in TaskType
           /\ Pipeline!Doc(j) \in Docs
<1>1. /\ job[j].queue \in Queues
      /\ job[j].pos \in 1..next[job[j].queue]
  BY DEF JobsOK
<1>2. PICK s \in Seq(TaskType) : s = queue[job[j].queue]
  BY <1>1 DEF HubTypeOK, TypeOK
<1>3. next[job[j].queue] \in Nat /\ next[job[j].queue] <= Len(s)
  BY <1>1, <1>2 DEF HubTypeOK, Pipeline!PipelineTypeOK
<1>4. job[j].pos \in 1..Len(s) /\ s[job[j].pos] \in TaskType
  BY <1>1, <1>2, <1>3
<1>5. QED
  BY <1>1, <1>2, <1>4 DEF Pipeline!Task, Pipeline!Doc, TaskType

-----------------------------------------------------------------------------
(* Type correctness of the pipeline, with the positions of the handlers *)

LEMMA WorkflowTypes ==
    ASSUME HubTypeOK, JobsOK, WorkflowStep \/ UNCHANGED hubVars
    PROVE  HubTypeOK' /\ JobsOK'
<1>1. TypeOK' /\ UNCHANGED <<next, back, job, search, vector>> /\ [Next]_workflowVars
  BY TypeNext DEF HubTypeOK, WorkflowStep, hubVars, pipelineVars
<1>2. \A q \in Queues : next[q] \in Nat /\ next[q] <= Len(queue'[q])
  <2>1. ASSUME NEW q \in Queues
        PROVE  next[q] \in Nat /\ next[q] <= Len(queue'[q])
    <3>1. PICK s \in Seq(TaskType) : s = queue[q]
      BY DEF HubTypeOK, TypeOK
    <3>2. PICK t \in Seq(TaskType) : t = queue'[q]
      BY <1>1 DEF TypeOK
    <3>3. next[q] \in Nat /\ next[q] <= Len(s) /\ Len(s) <= Len(t)
      BY <1>1, <3>1, <3>2, QueuesGrow DEF HubTypeOK, Pipeline!PipelineTypeOK
    <3>4. QED
      BY <3>2, <3>3
  <2>2. QED
    BY <2>1
<1>3. Pipeline!PipelineTypeOK'
  BY <1>1, <1>2 DEF HubTypeOK, Pipeline!PipelineTypeOK
<1>4. JobsOK'
  BY <1>1 DEF JobsOK, Pipeline!Working
<1>5. QED
  BY <1>1, <1>3, <1>4 DEF HubTypeOK

LEMMA DeliverTypes ==
    ASSUME HubTypeOK, JobsOK, NEW j \in Jobs, NEW q \in Queues, Pipeline!Deliver(j, q),
           UNCHANGED <<stores, queue, req>>
    PROVE  Pipeline!PipelineTypeOK' /\ JobsOK'
<1> USE DEF Pipeline!Free, Pipeline!JobType, Pipeline!JobPC
<1>1. PICK n \in 1..Len(queue[q]) :
        /\ job' = [job EXCEPT ![j] =
                      [Pipeline!Free EXCEPT !.pc = "received", !.queue = q, !.pos = n]]
        /\ back' = [back EXCEPT ![q] = @ \ {n}]
        /\ next' = [next EXCEPT ![q] = IF n > @ THEN n ELSE @]
  BY DEF Pipeline!Deliver
<1>2. /\ UNCHANGED <<search, vector, queue>>
      /\ n \in Nat /\ n <= Len(queue[q])
      /\ \A p \in Queues : Len(queue[p]) \in Nat
      /\ Pipeline!PipelineTypeOK
  <2>1. \A p \in Queues : queue[p] \in Seq(TaskType)
    BY DEF HubTypeOK, TypeOK
  <2>2. \A p \in Queues : Len(queue[p]) \in Nat
    BY <2>1
  <2>3. QED
    BY <1>1, <2>2 DEF Pipeline!Deliver, Pipeline!indexes, HubTypeOK
<1>3. next' \in [Queues -> Nat] /\ \A p \in Queues : next[p] <= next'[p] /\ next'[p] <= Len(queue[p])
  BY <1>1, <1>2 DEF Pipeline!PipelineTypeOK
<1>4. back' \in [Queues -> SUBSET Nat] /\ \A p \in Queues : back'[p] \subseteq 1..next'[p]
  BY <1>1, <1>2, <1>3 DEF Pipeline!PipelineTypeOK
<1>5. job' \in [Jobs -> Pipeline!JobType]
  BY <1>1, <1>2 DEF Pipeline!PipelineTypeOK
<1>6. Pipeline!PipelineTypeOK'
  BY <1>2, <1>3, <1>4, <1>5 DEF Pipeline!PipelineTypeOK
<1>7. n <= next'[q]
  BY <1>1, <1>2 DEF Pipeline!PipelineTypeOK
<1>8. ASSUME NEW k \in Jobs, Pipeline!Working(k)'
      PROVE  /\ job'[k].queue \in Queues /\ job'[k].pos \in 1..next'[job'[k].queue]
             /\ job'[k].pc \in {"clearChunks", "writeChunks"} => job'[k].text \in Contents
  <2>1. CASE k = j
    BY <1>1, <1>2, <1>3, <1>7, <2>1 DEF Pipeline!PipelineTypeOK
  <2>2. CASE k # j
    <3>1. job'[k] = job[k]
      BY <1>1, <1>2, <2>2 DEF Pipeline!PipelineTypeOK
    <3>2. /\ job[k].queue \in Queues /\ job[k].pos \in 1..next[job[k].queue]
          /\ job[k].pc \in {"clearChunks", "writeChunks"} => job[k].text \in Contents
      BY <1>8, <3>1 DEF JobsOK, Pipeline!Working
    <3>3. QED
      BY <1>2, <1>3, <3>1, <3>2 DEF Pipeline!PipelineTypeOK
  <2>3. QED
    BY <2>1, <2>2
<1>9. QED
  BY <1>6, <1>8 DEF JobsOK

\* What every step of a handler does to its job and to the indexes.
HandlerStep(j) ==
    /\ \/ job' = [job EXCEPT ![j] = Pipeline!Free]
       \/ \E pc \in Pipeline!JobPC : \E text \in Contents \cup {NoContent} :
            /\ pc \in {"clearChunks", "writeChunks"} => text \in Contents
            /\ job' = [job EXCEPT ![j].pc = pc, ![j].text = text]
    /\ UNCHANGED <<next, back>>
    /\ \/ UNCHANGED search
       \/ \E d \in Docs : \E text \in Contents \cup {NoContent, NotIndexed} :
            search' = [search EXCEPT ![d] = text]
    /\ \/ UNCHANGED vector
       \/ \E d \in Docs : \E texts \in SUBSET Contents : vector' = [vector EXCEPT ![d] = texts]

LEMMA HandlerTypes ==
    ASSUME HubTypeOK, JobsOK, NEW j \in Jobs, Pipeline!Working(j), HandlerStep(j),
           UNCHANGED <<stores, queue, req>>
    PROVE  Pipeline!PipelineTypeOK' /\ JobsOK'
<1>1. Pipeline!PipelineTypeOK
  BY DEF HubTypeOK
<1>2. /\ job' \in [Jobs -> Pipeline!JobType]
      /\ \A k \in Jobs : \/ job'[k].pc = "free"
                         \/ /\ Pipeline!Working(k)
                            /\ job'[k].queue = job[k].queue /\ job'[k].pos = job[k].pos
                            /\ \/ job'[k] = job[k]
                               \/ job'[k].pc \in {"clearChunks", "writeChunks"} => job'[k].text \in Contents
  <2>1. job \in [Jobs -> Pipeline!JobType]
    BY <1>1 DEF Pipeline!PipelineTypeOK
  <2>2. CASE job' = [job EXCEPT ![j] = Pipeline!Free]
    BY <2>1, <2>2 DEF Pipeline!JobType, Pipeline!JobPC, Pipeline!Free, Pipeline!Working
  <2>3. ASSUME NEW pc \in Pipeline!JobPC, NEW text \in Contents \cup {NoContent},
               pc \in {"clearChunks", "writeChunks"} => text \in Contents,
               job' = [job EXCEPT ![j].pc = pc, ![j].text = text]
        PROVE  /\ job' \in [Jobs -> Pipeline!JobType]
               /\ \A k \in Jobs : \/ job'[k].pc = "free"
                                  \/ /\ Pipeline!Working(k)
                                     /\ job'[k].queue = job[k].queue /\ job'[k].pos = job[k].pos
                                     /\ \/ job'[k] = job[k]
                                        \/ job'[k].pc \in {"clearChunks", "writeChunks"} => job'[k].text \in Contents
    <3>1. job' = [job EXCEPT ![j] = [job[j] EXCEPT !.pc = pc, !.text = text]]
      BY <2>1, <2>3 DEF Pipeline!JobType
    <3>2. [job[j] EXCEPT !.pc = pc, !.text = text] \in Pipeline!JobType
      BY <2>1 DEF Pipeline!JobType
    <3>3. QED
      BY <2>1, <2>3, <3>1, <3>2 DEF Pipeline!JobType, Pipeline!Working
  <2>4. QED
    BY <2>2, <2>3 DEF HandlerStep
<1>3. /\ search' \in [Docs -> Contents \cup {NoContent, NotIndexed}]
      /\ vector' \in [Docs -> SUBSET Contents]
  BY <1>1 DEF HandlerStep, Pipeline!PipelineTypeOK
<1>4. Pipeline!PipelineTypeOK'
  BY <1>1, <1>2, <1>3 DEF HandlerStep, Pipeline!PipelineTypeOK
<1>5. JobsOK'
  BY <1>2 DEF JobsOK, Pipeline!Working, HandlerStep
<1>6. QED
  BY <1>4, <1>5

LEMMA HandleIsStep ==
    ASSUME HubTypeOK, JobsOK, NEW j \in Jobs, Pipeline!Handle(j)
    PROVE  Pipeline!Working(j) /\ HandlerStep(j)
<1> USE DEF Pipeline!Handles, Pipeline!Working, Pipeline!JobPC, Pipeline!indexes,
            Pipeline!Advance, Pipeline!Finish
<1>0. job[j] \in Pipeline!JobType /\ Pipeline!PipelineTypeOK
  BY DEF HubTypeOK, Pipeline!PipelineTypeOK
<1>1. Pipeline!Working(j)
  BY DEF Pipeline!Handle, Pipeline!SearchReadRow, Pipeline!SearchReadBody, Pipeline!SearchWrite,
     Pipeline!SearchDelete, Pipeline!RagReadRow, Pipeline!RagReadBody, Pipeline!RagClear,
     Pipeline!RagWrite, Pipeline!RagDelete
<1>2. Pipeline!Doc(j) \in Docs /\ Pipeline!Body(Pipeline!Doc(j)) \in Contents \cup {NoContent}
  BY <1>1, JobTask DEF HubTypeOK, TypeOK, ContentType, Pipeline!Body
\* Advance leaves the text of the job as it was.
<1>3. ASSUME NEW pc \in Pipeline!JobPC, Pipeline!Advance(j, pc)
      PROVE  job' = [job EXCEPT ![j].pc = pc, ![j].text = job[j].text]
  BY <1>0, <1>3 DEF Pipeline!PipelineTypeOK, Pipeline!JobType
<1>4. CASE Pipeline!SearchReadRow(j)
  <2>1. job[j].text \in Contents \cup {NoContent}
    BY <1>0 DEF Pipeline!JobType
  <2>2. QED
    BY <1>3, <1>1, <1>4, <2>1 DEF HandlerStep, Pipeline!SearchReadRow
<1>5. CASE Pipeline!SearchReadBody(j)
  BY <1>1, <1>2, <1>5 DEF HandlerStep, Pipeline!SearchReadBody
<1>6. CASE Pipeline!SearchWrite(j)
  BY <1>0, <1>1, <1>2, <1>6 DEF HandlerStep, Pipeline!SearchWrite, Pipeline!JobType
<1>7. CASE Pipeline!SearchDelete(j)
  BY <1>1, <1>2, <1>7 DEF HandlerStep, Pipeline!SearchDelete
<1>8. CASE Pipeline!RagReadRow(j)
  <2>1. job[j].text \in Contents \cup {NoContent}
    BY <1>0 DEF Pipeline!JobType
  <2>2. QED
    BY <1>1, <1>3, <1>8, <2>1 DEF HandlerStep, Pipeline!RagReadRow
<1>9. CASE Pipeline!RagReadBody(j)
  BY <1>1, <1>2, <1>9 DEF HandlerStep, Pipeline!RagReadBody
<1>10. CASE Pipeline!RagClear(j)
  <2>1. job[j].text \in Contents
    BY <1>1, <1>10 DEF JobsOK, Pipeline!RagClear
  <2>2. QED
    BY <1>1, <1>2, <1>3, <1>10, <2>1 DEF HandlerStep, Pipeline!RagClear, Pipeline!ClearChunks
<1>11. CASE Pipeline!RagWrite(j)
  <2>1. job[j].text \in Contents
    BY <1>1, <1>11 DEF JobsOK, Pipeline!RagWrite
  <2>2. vector[Pipeline!Doc(j)] \cup {job[j].text} \in SUBSET Contents
    BY <1>0, <1>2, <2>1 DEF Pipeline!PipelineTypeOK
  <2>3. vector' = [vector EXCEPT ![Pipeline!Doc(j)] = vector[Pipeline!Doc(j)] \cup {job[j].text}]
    BY <1>0, <1>2, <1>11 DEF Pipeline!RagWrite, Pipeline!PipelineTypeOK
  <2>4. QED
    BY <1>1, <1>2, <1>11, <2>2, <2>3 DEF HandlerStep, Pipeline!RagWrite
<1>12. CASE Pipeline!RagDelete(j)
  BY <1>1, <1>2, <1>12 DEF HandlerStep, Pipeline!RagDelete, Pipeline!ClearChunks
<1>13. QED
  BY <1>4, <1>5, <1>6, <1>7, <1>8, <1>9, <1>10, <1>11, <1>12 DEF Pipeline!Handle

\* Losing the channel or the process puts back tasks that were delivered.
LEMMA PutBackTypes ==
    ASSUME HubTypeOK, JobsOK, Pipeline!PutBack,
           UNCHANGED <<next, search, vector, queue>>,
           job' \in [Jobs -> Pipeline!JobType],
           \A j \in Jobs : \/ job'[j].pc = "free"
                          \/ /\ Pipeline!Working(j) /\ job'[j].pc = job[j].pc
                             /\ job'[j].queue = job[j].queue /\ job'[j].pos = job[j].pos
                             /\ job'[j].text = job[j].text
    PROVE  Pipeline!PipelineTypeOK' /\ JobsOK'
<1>1. \A q \in Queues : \A j \in Pipeline!Unacked(q) : job[j].pos \in 1..next[q]
  BY DEF JobsOK, Pipeline!Unacked
<1>2. \A q \in Queues : {job[j].pos : j \in Pipeline!Unacked(q)} \subseteq 1..next[q]
  BY <1>1
<1>3. Pipeline!PipelineTypeOK
  BY DEF HubTypeOK
<1>4. back' \in [Queues -> SUBSET Nat] /\ \A q \in Queues : back'[q] \subseteq 1..next[q]
  <2> DEFINE returned(q) == {job[j].pos : j \in Pipeline!Unacked(q)}
  <2>1. back' = [q \in Queues |-> back[q] \cup returned(q)]
    BY DEF Pipeline!PutBack
  <2>2. \A q \in Queues : back[q] \subseteq 1..next[q] /\ returned(q) \subseteq 1..next[q]
    BY <1>2, <1>3 DEF Pipeline!PipelineTypeOK
  <2> HIDE DEF returned
  <2>3. \A q \in Queues : back[q] \cup returned(q) \subseteq 1..next[q]
    BY <2>2
  <2>4. \A q \in Queues : back[q] \cup returned(q) \in SUBSET Nat
    BY <2>3
  <2>5. QED
    BY <2>1, <2>3, <2>4
<1>5. Pipeline!PipelineTypeOK'
  BY <1>3, <1>4 DEF Pipeline!PipelineTypeOK
<1>6. JobsOK'
  BY DEF JobsOK, Pipeline!Working
<1>7. QED
  BY <1>5, <1>6

LEMMA HubFaultType ==
    ASSUME TypeOK, Fault \/ UNCHANGED faults, UNCHANGED <<stores, queue, req>>
    PROVE  TypeOK'
BY WorkflowAssumption DEF TypeOK, Fault, stores

HubTyped == HubTypeOK /\ JobsOK

LEMMA HubTypedInit == HubInit => HubTyped
BY HubTypeInit DEF HubTyped, HubInit, JobsOK, Pipeline!PipelineInit, Pipeline!Free, Pipeline!Working

LEMMA ConsumeTypes ==
    ASSUME HubTyped, NEW j \in Jobs, Consume(j)
    PROVE  HubTyped'
<1>1. UNCHANGED <<stores, queue, req>>
  BY DEF Consume
<1>2. ASSUME NEW q \in Queues, Pipeline!Deliver(j, q)
      PROVE  HubTyped'
  <2>1. TypeOK'
    BY <1>1, <1>2, HubFaultType DEF HubTyped, HubTypeOK, Pipeline!Deliver
  <2>2. QED
    BY <1>1, <1>2, <2>1, DeliverTypes DEF HubTyped, HubTypeOK
<1>3. CASE Pipeline!Handle(j)
  <2>1. UNCHANGED faults
    BY <1>3 DEF Pipeline!Handle, Pipeline!SearchReadRow, Pipeline!SearchReadBody,
       Pipeline!SearchWrite, Pipeline!SearchDelete, Pipeline!RagReadRow, Pipeline!RagReadBody,
       Pipeline!RagClear, Pipeline!RagWrite, Pipeline!RagDelete
  <2>2. TypeOK'
    BY <1>1, <2>1, HubFaultType DEF HubTyped, HubTypeOK
  <2>3. QED
    BY <1>1, <1>3, <2>2, HandleIsStep, HandlerTypes DEF HubTyped, HubTypeOK
<1>4. QED
  BY <1>2, <1>3 DEF Consume

LEMMA ConsumerFaultTypes ==
    ASSUME HubTyped, ConsumerFault
    PROVE  HubTyped'
<1>1. TypeOK'
  BY HubFaultType DEF ConsumerFault, HubTyped, HubTypeOK, Fault, Pipeline!Fault,
     Pipeline!LoseChannel, Pipeline!HandlerFails
<1>2. UNCHANGED <<stores, queue, req>> /\ HubTypeOK /\ JobsOK
  BY DEF ConsumerFault, HubTyped
<1>3. CASE Pipeline!LoseChannel
  <2>1. job \in [Jobs -> Pipeline!JobType]
    BY <1>2 DEF HubTypeOK, Pipeline!PipelineTypeOK
  <2>2. \A j \in Jobs :
            /\ job'[j] \in Pipeline!JobType
            /\ \/ job'[j].pc = "free"
               \/ /\ Pipeline!Working(j) /\ job'[j].pc = job[j].pc
                  /\ job'[j].queue = job[j].queue /\ job'[j].pos = job[j].pos
                  /\ job'[j].text = job[j].text
    BY <1>3, <2>1 DEF Pipeline!LoseChannel, Pipeline!Working, Pipeline!Free, Pipeline!JobType,
       Pipeline!JobPC
  <2>3. job' \in [Jobs -> Pipeline!JobType]
    BY <1>3, <2>2 DEF Pipeline!LoseChannel
  <2>4. QED
    BY <1>1, <1>2, <1>3, <2>2, <2>3, PutBackTypes
       DEF Pipeline!LoseChannel, Pipeline!indexes, HubTyped, HubTypeOK
<1>4. ASSUME NEW j \in Jobs, Pipeline!HandlerFails(j)
      PROVE  HubTyped'
  <2>1. Pipeline!Working(j) /\ HandlerStep(j)
    BY <1>4 DEF Pipeline!HandlerFails, Pipeline!Finish, HandlerStep, Pipeline!indexes
  <2>2. QED
    BY <1>1, <1>2, <2>1, HandlerTypes DEF HubTyped, HubTypeOK
<1>5. QED
  BY <1>3, <1>4 DEF ConsumerFault

LEMMA ProcessCrashTypes ==
    ASSUME HubTyped, ProcessCrash
    PROVE  HubTyped'
<1>1. TypeOK'
  BY IdleType, WorkflowAssumption
     DEF HubTyped, HubTypeOK, ProcessCrash, TypeOK, Fault, stores, Idle
<1>2. job' = [j \in Jobs |-> Pipeline!Free] /\ Pipeline!PutBack
      /\ UNCHANGED <<next, search, vector, queue>>
  BY DEF ProcessCrash, Pipeline!Crash, Pipeline!indexes
<1>3. job' \in [Jobs -> Pipeline!JobType] /\ \A j \in Jobs : job'[j].pc = "free"
  BY <1>2 DEF Pipeline!Free, Pipeline!JobType, Pipeline!JobPC
<1>4. QED
  BY <1>1, <1>2, <1>3, PutBackTypes DEF HubTyped, HubTypeOK

LEMMA HubTypedNext == HubTyped /\ [HubNext]_hubVars => HubTyped'
BY WorkflowTypes, ConsumeTypes, ConsumerFaultTypes, ProcessCrashTypes DEF HubNext, HubTyped

LEMMA HubTypedAlways == HubSpec => []HubTyped
BY HubTypedInit, HubTypedNext, PTL DEF HubSpec

\* Stores, queues, requests, handlers and indexes keep their types; a handler
\* never holds a task that was not delivered.
THEOREM HubTypeCorrect == HubSpec => []HubTypeOK
<1>1. HubTyped => HubTypeOK
  BY DEF HubTyped
<1>2. QED
  BY <1>1, HubTypedAlways, PTL

-----------------------------------------------------------------------------
(***************************************************************************)
(* From a decision to an index.  IndexedWasReviewed is not inductive: an   *)
(* entry is written for the task a handler holds, the task was published   *)
(* by a request, and the request was the one that decided; ReviewedInv     *)
(* carries the decision from the request to the task.                      *)
(***************************************************************************)

HubReviewed == ReviewedInv /\ IndexedWasReviewed

LEMMA HubReviewedInit == HubInit => HubReviewed
BY ReviewedInit DEF HubInit, HubReviewed, IndexedWasReviewed, Pipeline!PipelineInit,
   Pipeline!Indexed

LEMMA WorkflowReviewed ==
    ASSUME HubTyped, HubReviewed, WorkflowStep \/ UNCHANGED hubVars
    PROVE  HubReviewed'
<1>1. TypeOK /\ ReviewedInv /\ [Next]_workflowVars /\ UNCHANGED <<search, vector>>
  BY DEF HubTyped, HubTypeOK, HubReviewed, WorkflowStep, hubVars, pipelineVars
<1>2. ReviewedInv'
  BY <1>1, ReviewedNext
<1>3. \A d \in Docs : Decided(d) => Decided(d)'
  BY <1>1, DecidedForever
<1>4. IndexedWasReviewed'
  BY <1>1, <1>3 DEF HubReviewed, IndexedWasReviewed, Pipeline!Indexed
<1>5. QED
  BY <1>2, <1>4 DEF HubReviewed

\* A handler only fills an index with a document an index task asked for.
LEMMA HandlersFollowTasks ==
    ASSUME HubTyped, HubReviewed, NEW j \in Jobs, Pipeline!Handle(j), NEW d \in Docs
    PROVE  Pipeline!Indexed(d)' => Decided(d)
<1> USE DEF Pipeline!Indexed, Pipeline!Handles, Pipeline!indexes
<1>1. /\ search \in [Docs -> Contents \cup {NoContent, NotIndexed}]
      /\ vector \in [Docs -> SUBSET Contents]
      /\ Pipeline!Indexed(d) => Decided(d)
  BY DEF HubTyped, HubTypeOK, Pipeline!PipelineTypeOK, HubReviewed, IndexedWasReviewed
<1>2. ASSUME Pipeline!Task(j).type = "INDEX"
      PROVE  Decided(Pipeline!Doc(j))
  <2>1. /\ job[j].queue \in Queues
        /\ job[j].pos \in 1..Len(queue[job[j].queue])
    BY HandleIsStep, JobTask DEF HubTyped
  <2>2. IndexTaskWasReviewed
    BY DEF HubReviewed, ReviewedInv
  <2>3. QED
    BY <1>2, <2>1, <2>2 DEF IndexTaskWasReviewed, Pipeline!Task, Pipeline!Doc
<1>3. CASE Pipeline!SearchWrite(j)
  BY <1>1, <1>2, <1>3 DEF Pipeline!SearchWrite
<1>4. CASE Pipeline!RagWrite(j)
  BY <1>1, <1>2, <1>4 DEF Pipeline!RagWrite
<1>5. CASE Pipeline!SearchDelete(j)
  BY <1>1, <1>5 DEF Pipeline!SearchDelete
<1>6. CASE Pipeline!RagClear(j) \/ Pipeline!RagDelete(j)
  BY <1>1, <1>6 DEF Pipeline!RagClear, Pipeline!RagDelete, Pipeline!ClearChunks
<1>7. CASE UNCHANGED <<search, vector>>
  BY <1>1, <1>7
<1>8. QED
  BY <1>3, <1>4, <1>5, <1>6, <1>7 DEF Pipeline!Handle, Pipeline!SearchReadRow,
     Pipeline!SearchReadBody, Pipeline!RagReadRow, Pipeline!RagReadBody

LEMMA HubReviewedNext == HubTyped /\ HubReviewed /\ [HubNext]_hubVars => HubReviewed'
<1> SUFFICES ASSUME HubTyped, HubReviewed, [HubNext]_hubVars
             PROVE  HubReviewed'
  OBVIOUS
<1>1. CASE WorkflowStep \/ UNCHANGED hubVars
  BY <1>1, WorkflowReviewed
<1>2. ASSUME UNCHANGED <<stores, queue, req>>
      PROVE  ReviewedInv' /\ \A d \in Docs : Decided(d) => Decided(d)'
  BY <1>2 DEF stores, HubReviewed, ReviewedInv, RequestReviewed, IndexTaskWasReviewed, Decided
<1>3. ASSUME NEW j \in Jobs, Consume(j)
      PROVE  HubReviewed'
  <2>1. ReviewedInv' /\ \A d \in Docs : Decided(d) => Decided(d)'
    BY <1>2, <1>3 DEF Consume
  <2>2. ASSUME NEW d \in Docs, Pipeline!Indexed(d)'
        PROVE  Decided(d)
    <3>1. CASE Pipeline!Handle(j)
      BY <2>2, <3>1, HandlersFollowTasks
    <3>2. CASE \E q \in Queues : Pipeline!Deliver(j, q)
      BY <2>2, <3>2 DEF Pipeline!Deliver, Pipeline!indexes, Pipeline!Indexed, HubReviewed,
         IndexedWasReviewed
    <3>3. QED
      BY <1>3, <3>1, <3>2 DEF Consume
  <2>3. QED
    BY <2>1, <2>2 DEF HubReviewed, IndexedWasReviewed
<1>4. CASE ConsumerFault
  <2>1. UNCHANGED <<search, vector>>
    BY <1>4 DEF ConsumerFault, Pipeline!LoseChannel, Pipeline!HandlerFails, Pipeline!indexes
  <2>2. ReviewedInv' /\ \A d \in Docs : Decided(d) => Decided(d)'
    BY <1>2, <1>4 DEF ConsumerFault
  <2>3. QED
    BY <2>1, <2>2 DEF HubReviewed, IndexedWasReviewed, Pipeline!Indexed
<1>5. CASE ProcessCrash
  <2>1. UNCHANGED <<search, vector, stores, queue>> /\ req' = [r \in Reqs |-> Idle]
    BY <1>5 DEF ProcessCrash, Pipeline!Crash, Pipeline!indexes
  <2>2. ReviewedInv'
    BY <2>1 DEF HubReviewed, ReviewedInv, RequestReviewed, IndexTaskWasReviewed, Decided, Idle,
       stores
  <2>3. QED
    BY <2>1, <2>2 DEF HubReviewed, IndexedWasReviewed, Pipeline!Indexed, Decided, stores
<1>6. QED
  BY <1>1, <1>3, <1>4, <1>5 DEF HubNext

\* Whatever overlaps, fails or is delivered twice, a document is in an index
\* only after a reviewer decided on it.
THEOREM IndexingWasReviewed == HubSpec => []IndexedWasReviewed
<1>1. HubReviewed => IndexedWasReviewed
  BY DEF HubReviewed
<1>2. QED
  BY <1>1, HubTypedAlways, HubReviewedInit, HubReviewedNext, PTL DEF HubSpec

-----------------------------------------------------------------------------
(***************************************************************************)
(* The indexes of a service whose requests on one document keep apart, in  *)
(* which nothing fails and a queue hands over the tasks of a document one  *)
(* by one.  SettledAgrees speaks of the end only; on the way there, either *)
(* a request still owes the queues a task, or the last task announced for  *)
(* a document says what the stores say, and whoever is left to handle it   *)
(* is on the way to the body that is stored.                               *)
(***************************************************************************)

\* d is to be found: it is published and not being removed.  A removal is
\* announced before its row is written.
Wanted(d) ==
    /\ Published(d)
    /\ \A r \in Reqs : req[r].doc = d => req[r].pc # "markDeleted"

\* A request has changed the stores and not told the queues yet.
Owes(q, d) ==
    /\ q.doc = d
    /\ \/ q.pc \in {"unpublish", "publish"}
       \/ q.pc = "saveEdit" /\ Published(d)

Owed(d) == \E r \in Reqs : Owes(req[r], d)

\* The tasks of d in q that no handler has received.
Waiting(q, d) == {i \in 1..Len(queue[q]) : i > next[q] /\ queue[q][i].doc = d}

Handling(j, q, d) == Pipeline!Working(j) /\ job[j].queue = q /\ Pipeline!Doc(j) = d

AsksRightly(type, d) == (type = "INDEX") <=> Wanted(d)

\* A handler that indexes d has not read its body yet or holds the body that
\* is stored.
OnTheWay(j, d) ==
    /\ AsksRightly(Pipeline!Task(j).type, d)
    /\ Wanted(d) => \/ job[j].pc \in {"received", "readBody"}
                    \/ /\ job[j].text = content[d].text
                       /\ Pipeline!Handles(j, "rag", "INDEX", "writeChunks") => vector[d] = {}

\* The index that q feeds says of d what it should.
Tells(q, d) ==
    /\ q = "search" => search[d] = IF Wanted(d) THEN content[d].text ELSE NotIndexed
    /\ q = "rag" => vector[d] = IF Wanted(d) THEN {content[d].text} ELSE {}

Follows(q, d) ==
    \/ \E i \in Waiting(q, d) : /\ \A k \in Waiting(q, d) : k <= i
                                /\ AsksRightly(queue[q][i].type, d)
    \/ /\ Waiting(q, d) = {}
       /\ \E j \in Jobs : Handling(j, q, d) /\ OnTheWay(j, d)
    \/ /\ Waiting(q, d) = {}
       /\ \A j \in Jobs : ~Handling(j, q, d)
       /\ Tells(q, d)

\* Until it saves, a request remembers the status its document has.
Remembers(q) ==
    q.pc \in {"writeContent", "saveEdit", "retire", "checkPending", "openReview", "savePending"}
        => q.before = row[q.doc].status

\* Nothing is put back, and the handlers of a queue work on different
\* documents.
OneByOne ==
    /\ \A q \in Queues : back[q] = {}
    /\ \A q \in Queues : \A d \in Docs : \A j, k \in Jobs :
          Handling(j, q, d) /\ Handling(k, q, d) => j = k

SpacedInv ==
    /\ \A r \in Reqs : Remembers(req[r])
    /\ OneByOne
    /\ \A d \in Docs : Owed(d) \/ \A q \in Queues : Follows(q, d)

-----------------------------------------------------------------------------
\* Appending to a queue changes no task a handler holds.
LEMMA TasksStay ==
    ASSUME HubTyped, UNCHANGED pipelineVars, NEW q \in Queues, NEW t \in TaskType,
           queue'[q] = queue[q] \/ queue'[q] = Append(queue[q], t), NEW d \in Docs
    PROVE  /\ \A i \in 1..Len(queue[q]) : queue'[q][i] = queue[q][i]
           /\ \A j \in Jobs : Pipeline!Working(j) /\ job[j].queue = q =>
                Pipeline!Task(j)' = Pipeline!Task(j)
           /\ \A j \in Jobs : Handling(j, q, d)' <=> Handling(j, q, d)
<1>1. queue[q] \in Seq(TaskType)
  BY DEF HubTyped, HubTypeOK, TypeOK
<1>2. \A i \in 1..Len(queue[q]) : queue'[q][i] = queue[q][i]
  BY <1>1
<1>3. UNCHANGED job
  BY DEF pipelineVars
<1>4. ASSUME NEW j \in Jobs, Pipeline!Working(j), job[j].queue = q
      PROVE  Pipeline!Task(j)' = Pipeline!Task(j)
  <2>1. job[j].pos \in 1..Len(queue[q])
    BY <1>4, JobTask DEF HubTyped
  <2> QED
    BY <1>2, <1>3, <1>4, <2>1 DEF Pipeline!Task
<1>5. ASSUME NEW j \in Jobs
      PROVE  Handling(j, q, d)' <=> Handling(j, q, d)
  <2>1. CASE Pipeline!Working(j) /\ job[j].queue = q
    <3>1. Pipeline!Doc(j)' = Pipeline!Doc(j)
      BY <1>4, <2>1 DEF Pipeline!Doc
    <3> QED
      BY <1>3, <3>1 DEF Handling, Pipeline!Working
  <2>2. CASE ~(Pipeline!Working(j) /\ job[j].queue = q)
    BY <1>3, <2>2 DEF Handling, Pipeline!Working
  <2> QED
    BY <2>1, <2>2
<1> QED
  BY <1>2, <1>4, <1>5

\* A task of another document is none of d's.
LEMMA OthersWait ==
    ASSUME HubTyped, UNCHANGED pipelineVars, NEW q \in Queues, NEW t \in TaskType,
           NEW d \in Docs,
           queue'[q] = queue[q] \/ (queue'[q] = Append(queue[q], t) /\ t.doc # d)
    PROVE  Waiting(q, d)' = Waiting(q, d)
<1>1. PICK s \in Seq(TaskType) : s = queue[q]
  BY DEF HubTyped, HubTypeOK, TypeOK
<1>2. next' = next
  BY DEF pipelineVars
<1>3. CASE queue'[q] = queue[q]
  BY <1>2, <1>3 DEF Waiting
<1>4. CASE queue'[q] = Append(queue[q], t) /\ t.doc # d
  <2>0. Append(s, t) \in Seq(TaskType)
    OBVIOUS
  <2>1. PICK u \in Seq(TaskType) : u = Append(s, t)
    BY <2>0
  <2>2. /\ 1..Len(u) = 1..Len(s) \cup {Len(s) + 1}
        /\ \A i \in 1..Len(s) : u[i] = s[i]
        /\ u[Len(s) + 1].doc # d
    BY <1>4, <2>1
  <2>3. {i \in 1..Len(u) : i > next[q] /\ u[i].doc = d}
          = {i \in 1..Len(s) : i > next[q] /\ s[i].doc = d}
    BY <2>2
  <2> QED
    BY <1>1, <1>2, <1>4, <2>1, <2>3 DEF Waiting
<1> QED
  BY <1>3, <1>4

\* While what is to be found stays as it is and nothing is announced for d,
\* the queues and handlers go on to follow.
LEMMA FollowsStill ==
    ASSUME HubTyped, UNCHANGED pipelineVars, NEW q \in Queues, NEW t \in TaskType,
           NEW d \in Docs,
           queue'[q] = queue[q] \/ (queue'[q] = Append(queue[q], t) /\ t.doc # d),
           Wanted(d)' <=> Wanted(d),
           Wanted(d) => content'[d].text = content[d].text,
           Follows(q, d)
    PROVE  Follows(q, d)'
<1>1. Waiting(q, d)' = Waiting(q, d)
  BY OthersWait
<1>2. /\ \A i \in 1..Len(queue[q]) : queue'[q][i] = queue[q][i]
      /\ \A j \in Jobs : Pipeline!Working(j) /\ job[j].queue = q =>
            Pipeline!Task(j)' = Pipeline!Task(j)
      /\ \A j \in Jobs : Handling(j, q, d)' <=> Handling(j, q, d)
  BY TasksStay
<1>3. UNCHANGED <<job, search, vector>>
  BY DEF pipelineVars
<1>4. ASSUME NEW i \in Waiting(q, d), \A k \in Waiting(q, d) : k <= i,
             AsksRightly(queue[q][i].type, d)
      PROVE  Follows(q, d)'
  <2>1. queue'[q][i] = queue[q][i]
    BY <1>2 DEF Waiting
  <2>2. AsksRightly(queue[q][i].type, d)'
    BY <1>4, <2>1 DEF AsksRightly
  <2> QED
    BY <1>1, <1>4, <2>2 DEF Follows
<1>5. ASSUME Waiting(q, d) = {}, NEW j \in Jobs, Handling(j, q, d), OnTheWay(j, d)
      PROVE  Follows(q, d)'
  <2>1. Pipeline!Task(j)' = Pipeline!Task(j)
    BY <1>2, <1>5 DEF Handling
  <2>2. OnTheWay(j, d)'
    BY <1>3, <1>5, <2>1 DEF OnTheWay, AsksRightly, Pipeline!Handles
  <2> QED
    BY <1>1, <1>2, <1>5, <2>2 DEF Follows
<1>6. ASSUME Waiting(q, d) = {}, \A j \in Jobs : ~Handling(j, q, d), Tells(q, d)
      PROVE  Follows(q, d)'
  <2>1. Tells(q, d)'
    BY <1>3, <1>6 DEF Tells
  <2> QED
    BY <1>1, <1>2, <1>6, <2>1 DEF Follows
<1> QED
  BY <1>4, <1>5, <1>6 DEF Follows

\* A task for d that says what the stores say is the last one.
LEMMA Announces ==
    ASSUME HubTyped, UNCHANGED pipelineVars, NEW q \in Queues, NEW type \in {"INDEX", "DELETE"},
           NEW d \in Docs, queue'[q] = Append(queue[q], [type |-> type, doc |-> d]),
           (type = "INDEX") <=> Wanted(d)'
    PROVE  Follows(q, d)'
<1>1. PICK s \in Seq(TaskType) : s = queue[q]
  BY DEF HubTyped, HubTypeOK, TypeOK
<1>2. PICK t \in TaskType : t = [type |-> type, doc |-> d]
  BY DEF TaskType
<1>3. next' = next /\ next[q] \in Nat /\ next[q] <= Len(s)
  BY <1>1 DEF pipelineVars, HubTyped, HubTypeOK, Pipeline!PipelineTypeOK
<1>4. PICK u \in Seq(TaskType) : u = Append(s, t) /\ u = queue'[q]
  <2>1. Append(s, t) \in Seq(TaskType)
    OBVIOUS
  <2>2. Append(s, t) = queue'[q]
    BY <1>1, <1>2
  <2> QED
    BY <2>1, <2>2
<1>5. PICK n : n = Len(s) + 1
  OBVIOUS
<1>6. n \in 1..Len(u) /\ u[n] = t /\ n > next[q] /\ \A i \in 1..Len(u) : i <= n
  <2>0. Len(Append(s, t)) = Len(s) + 1 /\ Append(s, t)[Len(s) + 1] = t /\ Len(s) \in Nat
    OBVIOUS
  <2>1. Len(s) \in Nat /\ Len(u) = n /\ u[n] = t
    BY <1>4, <1>5, <2>0
  <2>2. n \in Nat /\ n > next[q] /\ n >= 1
    BY <1>3, <1>5, <2>1
  <2> QED
    BY <2>1, <2>2
<1>7. Waiting(q, d)' = {i \in 1..Len(u) : i > next[q] /\ u[i].doc = d}
  BY <1>3, <1>4 DEF Waiting
<1>8. n \in Waiting(q, d)' /\ \A k \in Waiting(q, d)' : k <= n
  BY <1>2, <1>6, <1>7
<1>9. queue'[q][n].type = type
  BY <1>2, <1>4, <1>6
<1>10. AsksRightly(queue[q][n].type, d)'
  BY <1>9 DEF AsksRightly
<1> QED
  BY <1>8, <1>10 DEF Follows

-----------------------------------------------------------------------------
(* The requests *)

\* What r alone does about d is what happens about d.
LEMMA OnlyOne ==
    ASSUME NEW r \in Reqs, NEW d \in Docs,
           \A p \in Reqs \ {r} : req[p].doc # d /\ req'[p] = req[p]
    PROVE  /\ Wanted(d) <=> Published(d) /\ (req[r].doc = d => req[r].pc # "markDeleted")
           /\ Wanted(d)' <=> Published(d)' /\ (req'[r].doc = d => req'[r].pc # "markDeleted")
           /\ Owed(d) <=> Owes(req[r], d)
           /\ Owed(d)' <=> (/\ req'[r].doc = d
                            /\ \/ req'[r].pc \in {"unpublish", "publish"}
                               \/ req'[r].pc = "saveEdit" /\ Published(d)')
BY DEF Wanted, Owed, Owes

\* What a step may do about the document of its request: nothing the indexes
\* have to know of, something it is going to announce, or an announcement.
Unnoticed(d) ==
    /\ UNCHANGED queue
    /\ Wanted(d)' <=> Wanted(d)
    /\ Wanted(d) => content'[d].text = content[d].text
    /\ Owed(d) => Owed(d)'

Announcing(type, d) ==
    /\ queue' = [q \in Queues |-> Append(queue[q], [type |-> type, doc |-> d])]
    /\ (type = "INDEX") <=> Wanted(d)'

Shown(d) == Unnoticed(d) \/ Owed(d)' \/ \E type \in {"INDEX", "DELETE"} : Announcing(type, d)

\* Whatever a step does about its document, the queues follow or are owed.
LEMMA ShownFollows ==
    ASSUME HubTyped, UNCHANGED pipelineVars, NEW d \in Docs, Shown(d),
           Owed(d) \/ \A q \in Queues : Follows(q, d)
    PROVE  Owed(d)' \/ \A q \in Queues : Follows(q, d)'
<1>1. CASE Unnoticed(d)
  <2>1. SUFFICES ASSUME NEW q \in Queues, Follows(q, d)
                 PROVE  Follows(q, d)'
    BY <1>1 DEF Unnoticed
  <2>2. PICK t \in TaskType : TRUE
    <3>1. [type |-> "INDEX", doc |-> d] \in TaskType
      BY DEF TaskType
    <3> QED
      BY <3>1
  <2> QED
    BY <1>1, <2>1, <2>2, FollowsStill DEF Unnoticed
<1>2. ASSUME NEW type \in {"INDEX", "DELETE"}, Announcing(type, d)
      PROVE  \A q \in Queues : Follows(q, d)'
  BY <1>2, Announces DEF Announcing
<1> QED
  BY <1>1, <1>2 DEF Shown

\* What a request knows when it has begun: it has read a document nobody works
\* on.
Begun(n) ==
    /\ n.doc \in Docs /\ Quiet(n.doc)
    /\ n.pc \notin {"idle", "unpublish", "publish"}
    /\ n.pc = "markDeleted" => ~Published(n.doc)
    /\ Remembers(n)

\* Every request begins by reading.
LEMMA StartBegins ==
    ASSUME ~Overlap, TypeOK, NEW r \in Reqs, Start(r)
    PROVE  Begun(req'[r]) /\ req[r].pc = "idle" /\ UNCHANGED <<row, content, queue>>
<1> USE DEF Begin, Idle, Begun, Remembers, stores
<1>0. req \in [Reqs -> ReqType]
  BY DEF TypeOK
<1>1. ASSUME NEW d \in Docs, UploadFile(r, d)
      PROVE  Begun(req'[r]) /\ req[r].pc = "idle" /\ UNCHANGED <<row, content, queue>>
  BY <1>0, <1>1 DEF UploadFile
<1>2. ASSUME NEW d \in Docs, ReadForUpdate(r, d)
      PROVE  Begun(req'[r]) /\ req[r].pc = "idle" /\ UNCHANGED <<row, content, queue>>
  <2>1. PICK c \in Contents \cup {NoContent} :
          Begin(r, [Idle EXCEPT !.pc = IF c = NoContent THEN "saveEdit" ELSE "writeContent",
                                !.doc = d, !.text = c,
                                !.before = row[d].status, !.status = "Draft"])
    BY <1>2 DEF ReadForUpdate
  <2>2. CASE c = NoContent
    BY <1>0, <1>2, <2>1, <2>2 DEF ReadForUpdate
  <2>3. CASE c # NoContent
    BY <1>0, <1>2, <2>1, <2>3 DEF ReadForUpdate
  <2> QED
    BY <2>2, <2>3
<1>3. ASSUME NEW d \in Docs, ReadForArchive(r, d) \/ ReadForDraft(r, d)
      PROVE  Begun(req'[r]) /\ req[r].pc = "idle" /\ UNCHANGED <<row, content, queue>>
  <2>1. PICK n \in [pc : {"retire"}, doc : {d}, before : {row[d].status}, 
                    status : {"Archived", "Draft"}, review : {NoReview}, result : {"Pending"},
                    text : {NoContent}] : Begin(r, n)
    <3>1. CASE ReadForArchive(r, d)
      <4>1. PICK n : n = [Idle EXCEPT !.pc = "retire", !.doc = d, !.before = row[d].status,
                                      !.status = "Archived"]
        OBVIOUS
      <4> QED
        BY <3>1, <4>1 DEF ReadForArchive
    <3>2. CASE ReadForDraft(r, d)
      <4>1. PICK n : n = [Idle EXCEPT !.pc = "retire", !.doc = d, !.before = row[d].status,
                                      !.status = "Draft"]
        OBVIOUS
      <4> QED
        BY <3>2, <4>1 DEF ReadForDraft
    <3> QED
      BY <1>3, <3>1, <3>2
  <2>2. UNCHANGED <<row, content, queue>>
    BY <1>3 DEF ReadForArchive, ReadForDraft
  <2> QED
    BY <1>0, <2>1, <2>2
<1>4. ASSUME NEW d \in Docs, ReadForRemove(r, d)
      PROVE  Begun(req'[r]) /\ req[r].pc = "idle" /\ UNCHANGED <<row, content, queue>>
  <2>1. CASE row[d].status = "Published"
    BY <1>0, <1>4, <2>1 DEF ReadForRemove
  <2>2. CASE row[d].status # "Published"
    BY <1>0, <1>4, <2>2 DEF ReadForRemove, Published
  <2> QED
    BY <2>1, <2>2
<1>5. ASSUME NEW d \in Docs, ReadForSubmit(r, d)
      PROVE  Begun(req'[r]) /\ req[r].pc = "idle" /\ UNCHANGED <<row, content, queue>>
  BY <1>0, <1>5 DEF ReadForSubmit
<1>6. ASSUME NEW v \in Reviews, ReadForApprove(r, v) \/ ReadForReject(r, v)
      PROVE  Begun(req'[r]) /\ req[r].pc = "idle" /\ UNCHANGED <<row, content, queue>>
  <2>1. review[v].doc \in Docs
    BY <1>6 DEF ReadForApprove, ReadForReject, ReadReview, TypeOK, ReviewType
  <2> QED
    <3>1. PICK n \in [pc : {"saveResult"}, doc : {review[v].doc}, before : {"Absent"},
                      status : {"Absent"}, review : {v}, result : {"Approved", "Rejected"},
                      text : {NoContent}] :
            Begin(r, n)
      BY <1>6 DEF ReadForApprove, ReadForReject, ReadReview
    <3>2. UNCHANGED <<row, content, queue>>
      BY <1>6 DEF ReadForApprove, ReadForReject, ReadReview
    <3> QED
      BY <1>0, <2>1, <3>1, <3>2
<1> QED
  BY <1>1, <1>2, <1>3, <1>4, <1>5, <1>6 DEF Start

\* So the beginning of a request is not noticed, or the request is one that
\* will announce its edit.
LEMMA StartShown ==
    ASSUME ~Overlap, TypeOK, NEW r \in Reqs, Start(r), NEW d \in Docs, d = req'[r].doc
    PROVE  Shown(d)
<1>1. /\ Begun(req'[r]) /\ req[r].pc = "idle" /\ UNCHANGED <<row, content, queue>>
      /\ \A p \in Reqs \ {r} : req'[p] = req[p]
  BY StartBegins, OneRequestMoves
<1>2. \A p \in Reqs : req[p].doc # d
  BY <1>1 DEF Begun, Quiet
<1>3. Published(d)' <=> Published(d)
  BY <1>1 DEF Published, Live
<1>4. /\ Wanted(d) <=> Published(d)
      /\ Wanted(d)' <=> Published(d)' /\ req'[r].pc # "markDeleted"
      /\ ~Owed(d)
  BY <1>1, <1>2, OnlyOne DEF Owes
<1>5. Wanted(d)' <=> Wanted(d)
  BY <1>1, <1>3, <1>4 DEF Begun
<1> QED
  BY <1>1, <1>4, <1>5 DEF Shown, Unnoticed

\* A step of r, which works on d and is the only one to.
AtWork(r, d) ==
    /\ req[r].pc # "idle" /\ req[r].doc = d
    /\ Underway(req[r]) /\ Remembers(req[r])
    /\ \A p \in Reqs \ {r} : req[p].doc # d /\ req'[p] = req[p]

\* Steps that leave the rows alone and go on.
LEMMA GoesOnShown ==
    ASSUME TypeOK, NEW r \in Reqs, NEW d \in Docs, AtWork(r, d), UNCHANGED <<row, queue>>,
           Published(d) => content'[d].text = content[d].text,
           req[r].pc \notin {"saveEdit", "unpublish", "publish"},
           NEW pc \in PC \ {"markDeleted"}, Goto(r, pc) \/ Return(r),
           pc \in {"saveEdit", "retire", "writeContent", "checkPending", "openReview", "savePending"}
               => req[r].pc \in {"writeContent", "checkPending", "openReview"},
           req[r].pc # "markDeleted" \/ ~Published(d)
    PROVE  Shown(d) /\ Remembers(req[r])'
<1>1. req[r] \in ReqType /\ req'[r] \in {Idle, [req[r] EXCEPT !.pc = pc]}
  BY DEF TypeOK, Goto, Return
<1>2. Published(d)' <=> Published(d)
  BY DEF Published, Live
<1>3. /\ Wanted(d) <=> Published(d)
      /\ Wanted(d)' <=> Published(d)'
      /\ ~Owed(d)
  <2>1. req'[r].pc # "markDeleted"
    BY <1>1 DEF Idle, ReqType
  <2> QED
    BY <1>2, <2>1, OnlyOne DEF AtWork, Owes
<1>4. Remembers(req[r])'
  <2>1. CASE req'[r] = Idle
    BY <2>1 DEF Remembers, Idle
  <2>2. CASE req'[r] = [req[r] EXCEPT !.pc = pc]
    <3>1. req'[r].pc = pc /\ req'[r].doc = d /\ req'[r].before = req[r].before
      BY <1>1, <2>2 DEF ReqType, AtWork
    <3> QED
      BY <3>1 DEF Remembers, AtWork
  <2> QED
    BY <1>1, <2>1, <2>2
<1> QED
  BY <1>2, <1>3, <1>4 DEF Shown, Unnoticed

\* Steps that save a row that was not published and is not now.
LEMMA NotPublishedShown ==
    ASSUME TypeOK, NEW r \in Reqs, NEW d \in Docs, AtWork(r, d), UNCHANGED queue,
           ~Published(d), ~Published(d)', req[r].pc \notin {"unpublish", "publish"},
           NEW pc \in {"idle", "saveEdit", "deleteContent"},
           Goto(r, pc) \/ Return(r),
           pc = "saveEdit" => UNCHANGED row /\ req[r].pc = "writeContent"
    PROVE  Shown(d) /\ Remembers(req[r])'
<1>1. req[r] \in ReqType /\ req'[r] \in {Idle, [req[r] EXCEPT !.pc = pc]}
  BY DEF TypeOK, Goto, Return
<1>2. ~Wanted(d) /\ ~Wanted(d)'
  BY DEF Wanted
<1>3. ~Owed(d)
  BY OnlyOne DEF AtWork, Owes
<1>4. Remembers(req[r])'
  <2>1. CASE req'[r] = Idle
    BY <2>1 DEF Remembers, Idle
  <2>2. CASE req'[r] = [req[r] EXCEPT !.pc = pc]
    <3>1. req'[r].pc = pc /\ req'[r].doc = d /\ req'[r].before = req[r].before
      BY <1>1, <2>2 DEF ReqType, AtWork
    <3> QED
      BY <3>1 DEF Remembers, AtWork
  <2> QED
    BY <1>1, <2>1, <2>2
<1> QED
  BY <1>2, <1>3, <1>4 DEF Shown, Unnoticed

\* Steps after which the request owes the queues a task.
LEMMA OwedShown ==
    ASSUME TypeOK, NEW r \in Reqs, NEW d \in Docs, AtWork(r, d),
           NEW pc \in {"unpublish", "publish", "saveEdit"}, Goto(r, pc),
           pc = "saveEdit" => UNCHANGED row /\ req[r].pc = "writeContent" /\ Published(d)'
    PROVE  Shown(d) /\ Remembers(req[r])'
<1>1. req[r] \in ReqType /\ req'[r] = [req[r] EXCEPT !.pc = pc]
  BY DEF TypeOK, Goto
<1>2. req'[r].pc = pc /\ req'[r].doc = d /\ req'[r].before = req[r].before
  BY <1>1 DEF ReqType, AtWork
<1>3. Owed(d)'
  BY <1>2, OnlyOne DEF AtWork
<1>4. Remembers(req[r])'
  BY <1>2 DEF Remembers, AtWork
<1> QED
  BY <1>3, <1>4 DEF Shown

\* Whatever step a request takes, the queues follow or are owed a task.
LEMMA StepShown ==
    ASSUME MaxFaults = 0, TypeOK, IsolatedInv, NEW r \in Reqs, Step(r), NEW d \in Docs,
           AtWork(r, d)
    PROVE  Shown(d) /\ Remembers(req[r])'
<1>0. /\ req[r] \in ReqType /\ req[r].doc = d /\ Underway(req[r]) /\ Remembers(req[r])
      /\ PC \ {"markDeleted"} = {"idle", "createContent", "createRow", "writeContent", "saveEdit",
           "retire", "dropTask", "deleteContent", "checkPending", "openReview", "savePending",
           "saveResult", "findDoc", "saveDecision", "publish", "unpublish"}
  BY DEF TypeOK, AtWork, PC
<1>1. CASE CreateContent(r)
  <2>1. /\ req[r].pc = "createContent" /\ UNCHANGED <<row, queue>> /\ Goto(r, "createRow")
    BY <1>1 DEF CreateContent, At
  <2>2. ~Published(d)
    BY <1>0, <2>1 DEF Underway, Unborn, Published, Live
  <2> QED
    BY <1>0, <2>1, <2>2, GoesOnShown
<1>2. CASE CreateRow(r)
  <2>1. /\ req[r].pc = "createRow" /\ SaveRow(d, "Draft", FALSE) /\ Return(r)
        /\ UNCHANGED <<content, review, submitted, queue>>
    BY <1>0, <1>2 DEF CreateRow, At
  <2>2. ~Published(d)
    BY <1>0, <2>1 DEF Underway, Unborn, Published, Live
  <2>3. ~Published(d)'
    <3>1. row'[d].status = "Draft"
      BY <2>1, RowSaved
    <3> QED
      BY <3>1 DEF Published
  <2> QED
    BY <2>1, <2>2, <2>3, NotPublishedShown
<1>3. CASE WriteContent(r)
  <2>1. /\ req[r].pc = "writeContent" /\ UNCHANGED <<row, queue>> /\ Goto(r, "saveEdit")
    BY <1>3 DEF WriteContent, At
  <2>2. CASE Published(d)
    <3>1. Published(d)'
      BY <2>1, <2>2 DEF Published, Live
    <3> QED
      BY <2>1, <3>1, OwedShown
  <2>3. CASE ~Published(d)
    <3>1. ~Published(d)'
      BY <2>1, <2>3 DEF Published, Live
    <3> QED
      BY <2>1, <2>3, <3>1, NotPublishedShown
  <2> QED
    BY <2>2, <2>3
<1>4. CASE SaveEdit(r)
  <2>1. /\ req[r].pc = "saveEdit" /\ SaveRow(d, req[r].status, FALSE)
        /\ UNCHANGED <<content, review, submitted, queue>>
        /\ req[r].before = "Published" => Goto(r, "unpublish")
        /\ req[r].before # "Published" => Return(r)
    BY <1>0, <1>4 DEF SaveEdit, At
  <2>2. req[r].status = "Draft" /\ req[r].before = row[d].status
    BY <1>0, <2>1 DEF Underway, Remembers
  <2>3. CASE req[r].before = "Published"
    BY <2>1, <2>3, OwedShown
  <2>4. CASE req[r].before # "Published"
    <3>1. ~Published(d) /\ ~Published(d)'
      BY <2>1, <2>2, <2>4, RowSaved DEF Published
    <3> QED
      BY <2>1, <2>4, <3>1, NotPublishedShown
  <2> QED
    BY <2>3, <2>4
<1>5. CASE Retire(r)
  <2>1. Goto(r, "unpublish")
    BY <1>5 DEF Retire
  <2> QED
    BY <2>1, OwedShown
<1>6. CASE Unpublish(r)
  <2>1. /\ req[r].pc = "unpublish" /\ UNCHANGED <<row, content>> /\ Return(r)
        /\ Publish("DELETE", d)
    BY <1>0, <1>6 DEF Unpublish, At, stores
  <2>2. ~Published(d)'
    BY <1>0, <2>1 DEF Underway, Published, Live
  <2>3. ~Wanted(d)'
    BY <2>2 DEF Wanted
  <2>4. Announcing("DELETE", d)
    BY <2>1, <2>3, NothingFails DEF Announcing
  <2>5. Remembers(req[r])'
    BY <1>0, <2>1 DEF Return, Remembers, Idle, TypeOK
  <2> QED
    BY <2>4, <2>5 DEF Shown
<1>7. CASE AfterApproval(r)
  <2>1. /\ req[r].pc = "publish" /\ UNCHANGED <<row, content>> /\ Return(r)
        /\ Publish("INDEX", d)
    BY <1>0, <1>7 DEF AfterApproval, At, stores
  <2>2. Published(d)'
    BY <1>0, <2>1 DEF Underway, Published, Live
  <2>3. req'[r] = Idle
    BY <2>1 DEF Return, TypeOK
  <2>4. Wanted(d)'
    BY <2>2, <2>3, OnlyOne DEF AtWork, Idle
  <2>5. Announcing("INDEX", d)
    BY <2>1, <2>4, NothingFails DEF Announcing
  <2>6. Remembers(req[r])'
    BY <2>3 DEF Remembers, Idle
  <2> QED
    BY <2>5, <2>6 DEF Shown
<1>8. CASE AnnounceRemoval(r)
  <2>1. /\ req[r].pc = "dropTask" /\ UNCHANGED <<row, content>> /\ Goto(r, "markDeleted")
        /\ Publish("DELETE", d)
    BY <1>0, <1>8 DEF AnnounceRemoval, At, stores
  <2>2. req'[r].pc = "markDeleted" /\ req'[r].doc = d
    BY <1>0, <2>1 DEF Goto, TypeOK, ReqType
  <2>3. ~Wanted(d)'
    BY <2>2, OnlyOne DEF AtWork
  <2>4. Announcing("DELETE", d)
    BY <2>1, <2>3, NothingFails DEF Announcing
  <2>5. Remembers(req[r])'
    BY <2>2 DEF Remembers
  <2> QED
    BY <2>4, <2>5 DEF Shown
<1>9. CASE MarkDeleted(r)
  <2>1. /\ req[r].pc = "markDeleted" /\ SaveRow(d, req[r].status, TRUE)
        /\ Goto(r, "deleteContent") /\ UNCHANGED <<content, review, submitted, queue>>
    BY <1>0, <1>9 DEF MarkDeleted, At
  <2>2. req'[r].pc = "deleteContent" /\ req'[r].doc = d
    BY <1>0, <2>1 DEF Goto, TypeOK, ReqType
  <2>3. ~Published(d)'
    BY <2>1, RowSaved DEF Published
  <2>4. ~Wanted(d) /\ ~Wanted(d)' /\ ~Owed(d)
    BY <1>0, <2>1, <2>3, OnlyOne DEF AtWork, Owes
  <2>5. Remembers(req[r])'
    BY <2>2 DEF Remembers
  <2> QED
    BY <2>1, <2>4, <2>5 DEF Shown, Unnoticed
<1>10. CASE DeleteContent(r)
  <2>1. /\ req[r].pc = "deleteContent" /\ UNCHANGED <<row, queue>> /\ Return(r)
    BY <1>10 DEF DeleteContent, At
  <2>2. ~Published(d) /\ ~Published(d)'
    BY <1>0, <2>1 DEF Underway, Published, Live
  <2> QED
    BY <2>1, <2>2, NotPublishedShown
<1>11. CASE CheckPending(r)
  <2>1. /\ req[r].pc = "checkPending" /\ UNCHANGED <<row, content, queue>>
        /\ Goto(r, "openReview") \/ Return(r)
    BY <1>11 DEF CheckPending, At, stores
  <2> QED
    BY <1>0, <2>1, GoesOnShown
<1>12. CASE OpenReview(r)
  <2>1. /\ req[r].pc = "openReview" /\ UNCHANGED <<row, content, queue>>
        /\ Goto(r, "savePending")
    BY <1>12 DEF OpenReview, At
  <2> QED
    BY <1>0, <2>1, GoesOnShown
<1>13. CASE SavePending(r)
  <2>1. /\ req[r].pc = "savePending" /\ SaveRow(d, req[r].status, FALSE)
        /\ UNCHANGED <<content, review, submitted, queue>>
        /\ req[r].before = "Published" => Goto(r, "unpublish")
        /\ req[r].before # "Published" => Return(r)
    BY <1>0, <1>13 DEF SavePending, At
  <2>2. req[r].status = "PendingReview" /\ req[r].before = row[d].status
    BY <1>0, <2>1 DEF Underway, Remembers
  <2>3. CASE req[r].before = "Published"
    BY <2>1, <2>3, OwedShown
  <2>4. CASE req[r].before # "Published"
    <3>1. ~Published(d) /\ ~Published(d)'
      BY <2>1, <2>2, <2>4, RowSaved DEF Published
    <3> QED
      BY <2>1, <2>4, <3>1, NotPublishedShown
  <2> QED
    BY <2>3, <2>4
<1>14. CASE SaveResult(r)
  <2>1. /\ req[r].pc = "saveResult" /\ UNCHANGED <<row, content, queue>> /\ Goto(r, "findDoc")
    BY <1>14 DEF SaveResult, At
  <2> QED
    BY <1>0, <2>1, GoesOnShown
<1>15. CASE FindDoc(r)
  <2>1. /\ req[r].pc = "findDoc" /\ UNCHANGED <<row, content, queue>>
        /\ Goto(r, "saveDecision") \/ Return(r)
    BY <1>15 DEF FindDoc, At, stores
  <2> QED
    BY <1>0, <2>1, GoesOnShown
<1>16. CASE SaveDecision(r)
  <2>1. req[r].pc = "saveDecision" /\ UNCHANGED <<content, review, submitted, queue>>
    BY <1>16 DEF SaveDecision, At
  <2>2. CASE req[r].result = "Approved"
    <3>1. Goto(r, "publish")
      BY <1>16, <2>2 DEF SaveDecision
    <3> QED
      BY <3>1, OwedShown
  <2>3. CASE req[r].result # "Approved"
    <3>1. SaveRow(d, "Draft", FALSE) /\ Return(r)
      BY <1>0, <1>16, <2>3 DEF SaveDecision
    <3>2. ~Published(d)
      BY <1>0, <2>1 DEF Underway, Published
    <3>3. ~Published(d)'
      <4>1. row'[d].status = "Draft"
        BY <2>1, <3>1, RowSaved
      <4> QED
        BY <4>1 DEF Published
    <3> QED
      BY <2>1, <3>1, <3>2, <3>3, NotPublishedShown
  <2> QED
    BY <2>2, <2>3
<1> QED
  BY <1>1, <1>2, <1>3, <1>4, <1>5, <1>6, <1>7, <1>8, <1>9, <1>10, <1>11, <1>12, <1>13, <1>14,
     <1>15, <1>16 DEF Step

\* A step of a request concerns its own document.
LEMMA StepElsewhere ==
    ASSUME MaxFaults = 0, TypeOK, NEW r \in Reqs, Step(r)
    PROVE  /\ req[r].pc # "idle"
           /\ req'[r].doc \in {req[r].doc, NoDoc}
           /\ \A e \in Docs \ {req[r].doc} : row'[e] = row[e] /\ content'[e] = content[e]
           /\ \/ UNCHANGED queue
              \/ \E type \in {"INDEX", "DELETE"} :
                    queue' = [q \in Queues |->
                                Append(queue[q], [type |-> type, doc |-> req[r].doc])]
<1>0. /\ row \in [Docs -> RowType] /\ content \in [Docs -> ContentType]
      /\ req \in [Reqs -> ReqType] /\ req[r] \in ReqType
  BY DEF TypeOK
<1>1. req[r].pc # "idle"
  BY DEF Step, At, CreateContent, CreateRow, WriteContent, SaveEdit, Retire, Unpublish,
     AnnounceRemoval, MarkDeleted, DeleteContent, CheckPending, OpenReview, SavePending,
     SaveResult, FindDoc, SaveDecision, AfterApproval
<1>2. Return(r) \/ \E pc \in PC : Goto(r, pc)
  BY DEF Step, PC, CreateContent, CreateRow, WriteContent, SaveEdit, Retire, Unpublish,
     AnnounceRemoval, MarkDeleted, DeleteContent, CheckPending, OpenReview, SavePending,
     SaveResult, FindDoc, SaveDecision, AfterApproval
<1>3. req'[r].doc \in {req[r].doc, NoDoc}
  BY <1>0, <1>2 DEF Return, Goto, ReqType, Idle
<1>4. \/ UNCHANGED row
      \/ \E status, deleted : SaveRow(req[r].doc, status, deleted)
  BY DEF Step, stores, CreateContent, CreateRow, WriteContent, SaveEdit, Retire, Unpublish,
     AnnounceRemoval, MarkDeleted, DeleteContent, CheckPending, OpenReview, SavePending,
     SaveResult, FindDoc, SaveDecision, AfterApproval
<1>5. \A e \in Docs \ {req[r].doc} : row'[e] = row[e]
  BY <1>0, <1>4 DEF SaveRow
<1>6. \A e \in Docs \ {req[r].doc} : content'[e] = content[e]
  BY <1>0 DEF Step, stores, CreateContent, CreateRow, WriteContent, SaveEdit, Retire, Unpublish,
     AnnounceRemoval, MarkDeleted, DeleteContent, CheckPending, OpenReview, SavePending,
     SaveResult, FindDoc, SaveDecision, AfterApproval
<1>7. UNCHANGED queue \/ \E type \in {"INDEX", "DELETE"} : Publish(type, req[r].doc)
  BY DEF Step, stores, CreateContent, CreateRow, WriteContent, SaveEdit, Retire, Unpublish,
     AnnounceRemoval, MarkDeleted, DeleteContent, CheckPending, OpenReview, SavePending,
     SaveResult, FindDoc, SaveDecision, AfterApproval
<1> QED
  BY <1>1, <1>3, <1>5, <1>6, <1>7, NothingFails

\* A request that moves leaves the other documents as they were, and what the
\* queues and handlers do about them.
LEMMA OthersFollow ==
    ASSUME HubTyped, UNCHANGED pipelineVars, NEW r \in Reqs, NEW d \in Docs,
           NEW e \in Docs \ {d},
           \A p \in Reqs \ {r} : req'[p] = req[p],
           req[r].doc \in {d, NoDoc}, req'[r].doc \in {d, NoDoc},
           row'[e] = row[e], content'[e] = content[e],
           \/ UNCHANGED queue
           \/ \E type \in {"INDEX", "DELETE"} :
                queue' = [q \in Queues |-> Append(queue[q], [type |-> type, doc |-> d])],
           Owed(e) \/ \A q \in Queues : Follows(q, e)
    PROVE  Owed(e)' \/ \A q \in Queues : Follows(q, e)'
<1>1. req[r].doc # e /\ req'[r].doc # e
  BY WorkflowAssumption
<1>2. Published(e)' <=> Published(e)
  BY DEF Published, Live
<1>3. Wanted(e)' <=> Wanted(e)
  BY <1>1, <1>2 DEF Wanted
<1>4. Owed(e) => Owed(e)'
  <2>1. ASSUME NEW p \in Reqs, Owes(req[p], e)
        PROVE  Owed(e)'
    <3>1. req'[p] = req[p]
      BY <1>1, <2>1 DEF Owes
    <3> QED
      BY <1>2, <2>1, <3>1 DEF Owed, Owes
  <2> QED
    BY <2>1 DEF Owed
<1>5. ASSUME NEW q \in Queues, Follows(q, e)
      PROVE  Follows(q, e)'
  <2>1. PICK t \in TaskType :
          /\ t.doc = d
          /\ queue'[q] = queue[q] \/ queue'[q] = Append(queue[q], t)
    <3>1. \A type \in {"INDEX", "DELETE"} : [type |-> type, doc |-> d] \in TaskType
      BY DEF TaskType
    <3>2. CASE UNCHANGED queue
      <4>1. [type |-> "INDEX", doc |-> d] \in TaskType
        BY <3>1
      <4> QED
        BY <3>2, <4>1
    <3>3. ASSUME NEW type \in {"INDEX", "DELETE"},
                 queue' = [p \in Queues |-> Append(queue[p], [type |-> type, doc |-> d])]
          PROVE  \E t \in TaskType : t.doc = d /\ queue'[q] = Append(queue[q], t)
      <4>1. PICK t \in TaskType : t = [type |-> type, doc |-> d]
        BY <3>1
      <4>2. t.doc = d
        BY <4>1
      <4>3. queue'[q] = Append(queue[q], t)
        BY <3>3, <4>1
      <4> QED
        BY <4>2, <4>3
    <3> QED
      BY <3>2, <3>3
  <2> QED
    BY <1>3, <1>5, <2>1, FollowsStill
<1> QED
  BY <1>4, <1>5

\* A step of one request keeps the invariant when it is seen or owed.
LEMMA MovedSpaced ==
    ASSUME HubTyped, SpacedInv, UNCHANGED pipelineVars, NEW r \in Reqs, NEW d \in Docs,
           \A p \in Reqs \ {r} : req[p].doc # d /\ req'[p] = req[p],
           req[r].doc \in {d, NoDoc}, req'[r].doc \in {d, NoDoc},
           \A e \in Docs \ {d} : row'[e] = row[e] /\ content'[e] = content[e],
           \/ UNCHANGED queue
           \/ \E type \in {"INDEX", "DELETE"} :
                queue' = [q \in Queues |-> Append(queue[q], [type |-> type, doc |-> d])],
           Shown(d), Remembers(req[r])'
    PROVE  SpacedInv'
<1>1. ASSUME NEW p \in Reqs
      PROVE  Remembers(req[p])'
  <2>1. CASE p = r
    BY <2>1
  <2>2. CASE p # r
    <3>1. req'[p] = req[p] /\ Remembers(req[p]) /\ req[p].doc # d
      BY <2>2 DEF SpacedInv
    <3>2. req[p].pc # "idle" => req[p].doc \in Docs \ {d}
      BY <3>1 DEF HubTyped, HubTypeOK, TypeOK
    <3> QED
      BY <3>1, <3>2 DEF Remembers
  <2> QED
    BY <2>1, <2>2
<1>2. OneByOne'
  <2>1. UNCHANGED back
    BY DEF pipelineVars
  <2>2. ASSUME NEW q \in Queues, NEW e \in Docs, NEW j \in Jobs
        PROVE  Handling(j, q, e)' <=> Handling(j, q, e)
    <3>1. [type |-> "INDEX", doc |-> d] \in TaskType /\ [type |-> "DELETE", doc |-> d] \in TaskType
      BY DEF TaskType
    <3>2. \/ queue'[q] = queue[q] \/ queue'[q] = Append(queue[q], [type |-> "INDEX", doc |-> d])
          \/ queue'[q] = Append(queue[q], [type |-> "DELETE", doc |-> d])
      OBVIOUS
    <3> QED
      BY <3>1, <3>2, TasksStay
  <2> QED
    BY <2>1, <2>2 DEF SpacedInv, OneByOne
<1>3. ASSUME NEW e \in Docs
      PROVE  Owed(e)' \/ \A q \in Queues : Follows(q, e)'
  <2>1. Owed(e) \/ \A q \in Queues : Follows(q, e)
    BY DEF SpacedInv
  <2>2. CASE e = d
    BY <2>1, <2>2, ShownFollows
  <2>3. CASE e # d
    BY <2>1, <2>3, OthersFollow
  <2> QED
    BY <2>2, <2>3
<1> QED
  BY <1>1, <1>2, <1>3 DEF SpacedInv

\* No step of a request breaks it ...
LEMMA WorkflowSpaced ==
    ASSUME ~Overlap, MaxFaults = 0, HubTyped, IsolatedInv, SpacedInv, WorkflowStep
    PROVE  SpacedInv'
<1>1. PICK r \in Reqs : Start(r) \/ Step(r) \/ Abort(r)
  BY DEF WorkflowStep, Next
<1>2. /\ TypeOK /\ UNCHANGED pipelineVars /\ ~Abort(r)
      /\ \A p \in Reqs \ {r} : req'[p] = req[p]
  BY <1>1, OneRequestMoves, NothingFails DEF HubTyped, HubTypeOK, WorkflowStep
<1>3. CASE Start(r)
  <2>1. PICK d \in Docs : d = req'[r].doc
    BY <1>2, <1>3, StartBegins DEF Begun
  <2>2. /\ Begun(req'[r]) /\ req[r].pc = "idle" /\ UNCHANGED <<row, content, queue>>
        /\ Shown(d)
    BY <1>2, <1>3, <2>1, StartBegins, StartShown
  <2>3. \A p \in Reqs \ {r} : req[p].doc # d /\ req'[p] = req[p]
    BY <1>2, <2>1, <2>2 DEF Begun, Quiet
  <2>4. req[r].doc \in {d, NoDoc} /\ req'[r].doc \in {d, NoDoc}
    BY <2>1, <2>2 DEF IsolatedInv, OneAtATime
  <2>5. Remembers(req[r])'
    BY <2>1, <2>2 DEF Begun, Remembers
  <2> QED
    BY <1>2, <2>2, <2>3, <2>4, <2>5, MovedSpaced
<1>4. CASE Step(r)
  <2>1. req[r].pc # "idle"
    BY <1>2, <1>4, StepElsewhere
  <2>2. PICK d \in Docs : d = req[r].doc
    BY <1>2, <2>1, InFlight
  <2>3. AtWork(r, d)
    BY <1>2, <2>1, <2>2, InFlight DEF AtWork, IsolatedInv, OneAtATime, SpacedInv
  <2>4. Shown(d) /\ Remembers(req[r])'
    BY <1>2, <1>4, <2>3, StepShown
  <2>5. /\ req'[r].doc \in {d, NoDoc}
        /\ \A e \in Docs \ {d} : row'[e] = row[e] /\ content'[e] = content[e]
        /\ \/ UNCHANGED queue
           \/ \E type \in {"INDEX", "DELETE"} :
                queue' = [q \in Queues |-> Append(queue[q], [type |-> type, doc |-> d])]
    BY <1>2, <1>4, <2>2, StepElsewhere
  <2> QED
    BY <1>2, <2>2, <2>3, <2>4, <2>5, MovedSpaced DEF AtWork
<1> QED
  BY <1>1, <1>2, <1>3, <1>4

-----------------------------------------------------------------------------
(* The handlers *)

\* While the stores stay, what is wanted and owed stays.
LEMMA StoresStay ==
    ASSUME UNCHANGED <<stores, queue, req>>, NEW d
    PROVE  /\ Published(d)' <=> Published(d)
           /\ Wanted(d)' <=> Wanted(d)
           /\ Owed(d)' <=> Owed(d)
           /\ UNCHANGED <<row, content, queue, req>>
<1>1. UNCHANGED <<row, content, queue, req>>
  BY DEF stores
<1>2. Published(d)' <=> Published(d)
  BY <1>1 DEF Published, Live
<1> QED
  BY <1>1, <1>2 DEF Wanted, Owed, Owes

\* A published document has the body the handlers look for.
LEMMA WantedHasBody ==
    ASSUME TypeOK, StoredInv, IsolatedInv, NEW d \in Docs, Wanted(d)
    PROVE  /\ Published(d) /\ Pipeline!LiveDoc(d) /\ row[d].status = "Published"
           /\ Pipeline!Body(d) = content[d].text
           /\ content[d].text \in Contents
<1>1. Live(d) /\ row[d].status = "Published" /\ ~row[d].deleted
  BY DEF Wanted, Published, Live
<1>2. Stored(d) /\ content[d] \in ContentType
  BY <1>1 DEF StoredInv, TypeOK
<1>3. content[d].text \in Contents
  BY <1>2 DEF Stored, ContentType
<1>4. ~content[d].deleted
  <2>1. CASE Quiet(d)
    BY <1>1, <2>1 DEF IsolatedInv, Settled
  <2>2. ASSUME NEW r \in Reqs, req[r].doc = d
        PROVE  ~content[d].deleted
    <3>1. req[r].pc # "idle"
      BY <2>2, WorkflowAssumption DEF IsolatedInv, OneAtATime
    <3>2. req[r].pc \in PC /\ Underway(req[r])
      BY <3>1, InFlight DEF ReqType
    <3> QED
      BY <1>1, <2>2, <3>1, <3>2 DEF Underway, Settled, Unborn, PC, Free
  <2> QED
    BY <2>1, <2>2 DEF Quiet
<1> QED
  BY <1>1, <1>3, <1>4 DEF Published, Pipeline!LiveDoc, Pipeline!Body

\* A handler of another queue or document is none of q's and d's.
LEMMA FollowsElsewhere ==
    ASSUME UNCHANGED <<stores, queue, req>>, NEW q, NEW d,
           Waiting(q, d)' = Waiting(q, d),
           \A k \in Jobs : Handling(k, q, d)' <=> Handling(k, q, d),
           \A k \in Jobs : Handling(k, q, d) => job'[k] = job[k],
           q = "search" => search'[d] = search[d],
           q = "rag" => vector'[d] = vector[d],
           Follows(q, d)
    PROVE  Follows(q, d)'
<1>1. /\ Wanted(d)' <=> Wanted(d)
      /\ UNCHANGED <<content, queue>>
  BY StoresStay
<1>2. ASSUME NEW i \in Waiting(q, d), \A k \in Waiting(q, d) : k <= i,
             AsksRightly(queue[q][i].type, d)
      PROVE  Follows(q, d)'
  <2>1. AsksRightly(queue[q][i].type, d)'
    BY <1>1, <1>2 DEF AsksRightly
  <2> QED
    BY <1>2, <2>1 DEF Follows
<1>3. ASSUME Waiting(q, d) = {}, NEW j \in Jobs, Handling(j, q, d), OnTheWay(j, d)
      PROVE  Follows(q, d)'
  <2>1. job'[j] = job[j] /\ job[j].queue = q
    BY <1>3 DEF Handling
  <2>2. Pipeline!Task(j)' = Pipeline!Task(j)
    BY <1>1, <2>1 DEF Pipeline!Task
  <2>3. OnTheWay(j, d)'
    BY <1>1, <1>3, <2>1, <2>2 DEF OnTheWay, AsksRightly, Pipeline!Handles
  <2> QED
    BY <1>3, <2>3 DEF Follows
<1>4. ASSUME Waiting(q, d) = {}, \A j \in Jobs : ~Handling(j, q, d), Tells(q, d)
      PROVE  Follows(q, d)'
  <2>1. Tells(q, d)'
    BY <1>1, <1>4 DEF Tells
  <2> QED
    BY <1>4, <2>1 DEF Follows
<1> QED
  BY <1>2, <1>3, <1>4 DEF Follows

\* ... nor a delivery: the task handed over is the one the handler is now on
\* the way with ...
LEMMA DeliverSpaced ==
    ASSUME Spaced, HubTyped, SpacedInv, NEW j \in Jobs, NEW q \in Queues, Pipeline!Deliver(j, q),
           UNCHANGED <<stores, queue, req>>
    PROVE  SpacedInv'
<1>1. PICK s \in Seq(TaskType) : s = queue[q]
  BY DEF HubTyped, HubTypeOK, TypeOK
<1>2. back[q] = {} /\ next[q] \in Nat /\ next \in [Queues -> Nat] /\ job \in [Jobs -> Pipeline!JobType]
      /\ back \in [Queues -> SUBSET Nat]
  BY DEF SpacedInv, OneByOne, HubTyped, HubTypeOK, Pipeline!PipelineTypeOK
<1>3. PICK n \in 1..Len(s) :
        /\ n = next[q] + 1
        /\ \A k \in Jobs : Pipeline!Working(k) /\ job[k].queue = q => Pipeline!Doc(k) # s[n].doc
        /\ job' = [job EXCEPT ![j] =
                      [Pipeline!Free EXCEPT !.pc = "received", !.queue = q, !.pos = n]]
        /\ back' = [back EXCEPT ![q] = @ \ {n}]
        /\ next' = [next EXCEPT ![q] = IF n > @ THEN n ELSE @]
  BY <1>1, <1>2 DEF Pipeline!Deliver, Pipeline!Ready
<1>4. /\ job'[j].pc = "received" /\ job'[j].queue = q /\ job'[j].pos = n
      /\ \A k \in Jobs \ {j} : job'[k] = job[k]
      /\ next'[q] = n /\ \A p \in Queues \ {q} : next'[p] = next[p]
      /\ \A p \in Queues : back'[p] = {}
      /\ UNCHANGED <<search, vector, queue>> /\ ~Pipeline!Working(j)
  <2>1. next'[q] = n
    BY <1>2, <1>3
  <2>2. \A p \in Queues : back'[p] = {}
    BY <1>2, <1>3 DEF SpacedInv, OneByOne
  <2> QED
    BY <1>2, <1>3, <2>1, <2>2 DEF Pipeline!Free, Pipeline!Deliver, Pipeline!indexes
<1>5. PICK e \in Docs : e = s[n].doc
  <2>1. s[n] \in TaskType
    OBVIOUS
  <2> QED
    BY <2>1 DEF TaskType
<1>6. ASSUME NEW k \in Jobs, NEW p \in Queues, NEW d \in Docs
      PROVE  Handling(k, p, d)' <=> (Handling(k, p, d) \/ (k = j /\ p = q /\ d = e))
  <2>1. CASE k = j
    <3>1. Pipeline!Task(j)' = s[n]
      BY <1>1, <1>4 DEF Pipeline!Task
    <3> QED
      BY <1>4, <1>5, <2>1, <3>1 DEF Handling, Pipeline!Working, Pipeline!Doc
  <2>2. CASE k # j
    <3>1. job'[k] = job[k] /\ queue' = queue
      BY <1>4, <2>2
    <3> QED
      BY <2>2, <3>1 DEF Handling, Pipeline!Working, Pipeline!Doc, Pipeline!Task
  <2> QED
    BY <2>1, <2>2
<1>7. \A k \in Jobs : ~Handling(k, q, e)
  BY <1>3, <1>5 DEF Handling
<1>8. OneByOne'
  BY <1>4, <1>6, <1>7 DEF SpacedInv, OneByOne
<1>9. ASSUME NEW p \in Queues, NEW d \in Docs, p # q \/ d # e, Follows(p, d)
      PROVE  Follows(p, d)'
  <2>1. Waiting(p, d)' = Waiting(p, d)
    <3>1. CASE p # q
      BY <1>4, <3>1 DEF Waiting
    <3>2. CASE p = q
      <4>1. {i \in 1..Len(s) : i > n /\ s[i].doc = d} = {i \in 1..Len(s) : i > next[q] /\ s[i].doc = d}
        BY <1>2, <1>3, <1>5, <1>9, <3>2
      <4> QED
        BY <1>1, <1>4, <3>2, <4>1 DEF Waiting
    <3> QED
      BY <3>1, <3>2
  <2>2. \A k \in Jobs : Handling(k, p, d)' <=> Handling(k, p, d)
    BY <1>6, <1>9
  <2>3. \A k \in Jobs : Handling(k, p, d) => job'[k] = job[k]
    BY <1>4 DEF Handling
  <2> QED
    BY <1>4, <1>9, <2>1, <2>2, <2>3, FollowsElsewhere
<1>10. ASSUME Follows(q, e)
       PROVE  Follows(q, e)'
  <2>1. Waiting(q, e) = {i \in 1..Len(s) : i > next[q] /\ s[i].doc = e}
    BY <1>1 DEF Waiting
  <2>2. Waiting(q, e)' = {i \in 1..Len(s) : i > n /\ s[i].doc = e}
    BY <1>1, <1>4 DEF Waiting
  <2>3. n \in Waiting(q, e)
    BY <1>2, <1>3, <1>5, <2>1
  <2>4. PICK i \in Waiting(q, e) : /\ \A k \in Waiting(q, e) : k <= i
                                   /\ AsksRightly(s[i].type, e)
    BY <1>1, <1>10, <2>3 DEF Follows
  <2>5. AsksRightly(s[i].type, e)'
    BY <2>4, StoresStay DEF AsksRightly
  <2>6. CASE i # n
    <3>1. i \in Waiting(q, e)' /\ \A k \in Waiting(q, e)' : k <= i
      BY <1>2, <1>3, <2>1, <2>2, <2>4, <2>6
    <3>2. AsksRightly(queue[q][i].type, e)'
      BY <1>1, <1>4, <2>5 DEF AsksRightly
    <3> QED
      BY <3>1, <3>2 DEF Follows
  <2>7. CASE i = n
    <3>1. Waiting(q, e)' = {}
      <4>1. \A k \in 1..Len(s) : k > next[q] /\ s[k].doc = e => k <= n
        BY <2>1, <2>4, <2>7
      <4>2. \A k \in 1..Len(s) : ~(k > n /\ s[k].doc = e)
        BY <1>2, <1>3, <4>1, SMTT(30)
      <4> QED
        BY <2>2, <4>2
    <3>2. Pipeline!Task(j)' = s[n]
      BY <1>1, <1>4 DEF Pipeline!Task
    <3>3. OnTheWay(j, e)'
      BY <1>4, <2>5, <2>7, <3>2 DEF OnTheWay, AsksRightly
    <3>4. Handling(j, q, e)'
      BY <1>6
    <3> QED
      BY <3>1, <3>3, <3>4 DEF Follows
  <2> QED
    BY <2>6, <2>7
<1>11. ASSUME NEW d \in Docs
       PROVE  Owed(d)' \/ \A p \in Queues : Follows(p, d)'
  <2>1. Owed(d)' <=> Owed(d)
    BY StoresStay
  <2> QED
    BY <1>9, <1>10, <2>1 DEF SpacedInv
<1>12. \A r \in Reqs : Remembers(req[r])'
  BY DEF SpacedInv, Remembers, stores
<1> QED
  BY <1>8, <1>11, <1>12 DEF SpacedInv

\* A step of a handler concerns the document of its task and the index of its
\* queue.
LEMMA HandleElsewhere ==
    ASSUME HubTyped, NEW j \in Jobs, Pipeline!Handle(j), UNCHANGED <<stores, queue, req>>
    PROVE  /\ Pipeline!Working(j) /\ job[j].queue \in Queues /\ Pipeline!Doc(j) \in Docs
           /\ UNCHANGED <<next, back>>
           /\ \A k \in Jobs \ {j} : job'[k] = job[k]
           /\ \/ job'[j] = Pipeline!Free
              \/ job'[j].queue = job[j].queue /\ job'[j].pos = job[j].pos /\ Pipeline!Working(j)'
           /\ job[j].queue # "search" => search' = search
           /\ job[j].queue # "rag" => vector' = vector
           /\ \A d \in Docs \ {Pipeline!Doc(j)} : search'[d] = search[d] /\ vector'[d] = vector[d]
<1> USE DEF Pipeline!Handles, Pipeline!indexes, Pipeline!Advance, Pipeline!Finish
<1>1. /\ Pipeline!Working(j) /\ HandlerStep(j)
      /\ job[j].queue \in Queues /\ Pipeline!Doc(j) \in Docs
  BY HandleIsStep, JobTask DEF HubTyped
<1>2. /\ job \in [Jobs -> Pipeline!JobType]
      /\ search \in [Docs -> Contents \cup {NoContent, NotIndexed}]
      /\ vector \in [Docs -> SUBSET Contents]
  BY DEF HubTyped, HubTypeOK, Pipeline!PipelineTypeOK
<1>3. UNCHANGED <<next, back>>
  BY <1>1 DEF HandlerStep
<1>4. \A k \in Jobs \ {j} : job'[k] = job[k]
  BY <1>1, <1>2 DEF HandlerStep
<1>5. \/ job' = [job EXCEPT ![j] = Pipeline!Free]
      \/ \E pc \in Pipeline!JobPC \ {"free"} : \E text :
            job' = [job EXCEPT ![j].pc = pc, ![j].text = text]
  <2>1. \A pc \in Pipeline!JobPC \ {"free"} : Pipeline!Advance(j, pc) =>
            job' = [job EXCEPT ![j].pc = pc, ![j].text = job[j].text]
    BY <1>2 DEF Pipeline!JobType
  <2> QED
    BY <2>1 DEF Pipeline!Handle, Pipeline!SearchReadRow, Pipeline!SearchReadBody,
       Pipeline!SearchWrite, Pipeline!SearchDelete, Pipeline!RagReadRow, Pipeline!RagReadBody,
       Pipeline!RagClear, Pipeline!RagWrite, Pipeline!RagDelete, Pipeline!JobPC
<1>6. \/ job'[j] = Pipeline!Free
      \/ job'[j].queue = job[j].queue /\ job'[j].pos = job[j].pos /\ Pipeline!Working(j)'
  <2>1. CASE job' = [job EXCEPT ![j] = Pipeline!Free]
    BY <1>2, <2>1
  <2>2. ASSUME NEW pc \in Pipeline!JobPC \ {"free"}, NEW text,
               job' = [job EXCEPT ![j].pc = pc, ![j].text = text]
        PROVE  job'[j].queue = job[j].queue /\ job'[j].pos = job[j].pos /\ Pipeline!Working(j)'
    <3>1. job'[j] = [job[j] EXCEPT !.pc = pc, !.text = text]
      BY <1>2, <2>2 DEF Pipeline!JobType
    <3> QED
      BY <1>2, <3>1 DEF Pipeline!JobType, Pipeline!Working
  <2> QED
    BY <1>5, <2>1, <2>2
<1>7. /\ job[j].queue # "search" => search' = search
      /\ job[j].queue # "rag" => vector' = vector
  BY DEF Pipeline!Handle, Pipeline!SearchReadRow, Pipeline!SearchReadBody,
     Pipeline!SearchWrite, Pipeline!SearchDelete, Pipeline!RagReadRow, Pipeline!RagReadBody,
     Pipeline!RagClear, Pipeline!RagWrite, Pipeline!RagDelete
<1>8. \A d \in Docs \ {Pipeline!Doc(j)} : search'[d] = search[d] /\ vector'[d] = vector[d]
  BY <1>2 DEF Pipeline!Handle, Pipeline!SearchReadRow, Pipeline!SearchReadBody,
     Pipeline!SearchWrite, Pipeline!SearchDelete, Pipeline!RagReadRow, Pipeline!RagReadBody,
     Pipeline!RagClear, Pipeline!RagWrite, Pipeline!RagDelete, Pipeline!ClearChunks
<1> QED
  BY <1>1, <1>3, <1>4, <1>6, <1>7, <1>8

\* A handler on the way stays on it, and leaves the index right.
LEMMA OnTheWayKeeps ==
    ASSUME HubTyped, StoredInv, IsolatedInv, NEW j \in Jobs, NEW q \in Queues, NEW d \in Docs,
           Handling(j, q, d), OnTheWay(j, d), Pipeline!Handle(j), UNCHANGED <<stores, queue, req>>
    PROVE  \/ job'[j] # Pipeline!Free /\ OnTheWay(j, d)'
           \/ job'[j] = Pipeline!Free /\ Tells(q, d)'
<1> USE DEF Pipeline!Handles, Pipeline!indexes, Pipeline!Advance, Pipeline!Finish
<1>0. /\ job[j].queue = q /\ Pipeline!Doc(j) = d
      /\ Wanted(d) <=> Pipeline!Task(j).type = "INDEX"
      /\ Wanted(d) => \/ job[j].pc \in {"received", "readBody"}
                      \/ /\ job[j].text = content[d].text
                         /\ (q = "rag" /\ job[j].pc = "writeChunks") => vector[d] = {}
  BY DEF Handling, OnTheWay, AsksRightly
<1>1. /\ job \in [Jobs -> Pipeline!JobType]
      /\ search \in [Docs -> Contents \cup {NoContent, NotIndexed}]
      /\ vector \in [Docs -> SUBSET Contents]
  BY DEF HubTyped, HubTypeOK, Pipeline!PipelineTypeOK
<1>2. /\ Wanted(d)' <=> Wanted(d)
      /\ UNCHANGED <<row, content, queue>>
  BY StoresStay
<1>3. Wanted(d) => /\ Pipeline!LiveDoc(d) /\ row[d].status = "Published"
                   /\ Pipeline!Body(d) = content[d].text
                   /\ content[d].text \in Contents
  BY WantedHasBody DEF HubTyped, HubTypeOK
<1>4. NoContent \notin Contents
  BY WorkflowAssumption
\* A handler that goes on.
<1>5. ASSUME NEW pc \in {"readBody", "writeEntry", "clearChunks", "writeChunks"}, NEW text,
             job' = [job EXCEPT ![j].pc = pc, ![j].text = text],
             Pipeline!Task(j).type = "INDEX",
             pc # "readBody" => text = content[d].text,
             q = "rag" /\ pc = "writeChunks" => vector'[d] = {}
      PROVE  job'[j] # Pipeline!Free /\ OnTheWay(j, d)'
  <2>1. job'[j] = [job[j] EXCEPT !.pc = pc, !.text = text]
    BY <1>1, <1>5 DEF Pipeline!JobType
  <2>2. job'[j].pc = pc /\ job'[j].text = text /\ job'[j].queue = q /\ job'[j].pos = job[j].pos
    BY <1>0, <1>1, <2>1 DEF Pipeline!JobType
  <2>3. Pipeline!Task(j)' = Pipeline!Task(j)
    BY <1>0, <1>2, <2>2 DEF Pipeline!Task
  <2>4. OnTheWay(j, d)'
    BY <1>0, <1>2, <1>5, <2>2, <2>3 DEF OnTheWay, AsksRightly
  <2> QED
    BY <2>2, <2>4 DEF Pipeline!Free
<1>6. ASSUME NEW pc, Pipeline!Advance(j, pc)
      PROVE  job' = [job EXCEPT ![j].pc = pc, ![j].text = job[j].text]
  BY <1>1, <1>6 DEF Pipeline!JobType
<1>7. ASSUME Pipeline!Finish(j)
      PROVE  job'[j] = Pipeline!Free
  BY <1>1, <1>7
<1>8. CASE Pipeline!SearchReadRow(j)
  BY <1>0, <1>3, <1>5, <1>6, <1>8 DEF Pipeline!SearchReadRow
<1>9. CASE Pipeline!SearchReadBody(j)
  BY <1>0, <1>3, <1>5, <1>9 DEF Pipeline!SearchReadBody
<1>10. CASE Pipeline!SearchWrite(j)
  <2>1. search'[d] = content[d].text /\ job'[j] = Pipeline!Free /\ q = "search" /\ Wanted(d)
    BY <1>0, <1>1, <1>7, <1>10 DEF Pipeline!SearchWrite
  <2> QED
    BY <1>2, <2>1 DEF Tells
<1>11. CASE Pipeline!SearchDelete(j)
  <2>1. search'[d] = NotIndexed /\ job'[j] = Pipeline!Free /\ q = "search" /\ ~Wanted(d)
    BY <1>0, <1>1, <1>7, <1>11 DEF Pipeline!SearchDelete
  <2> QED
    BY <1>2, <2>1 DEF Tells
<1>12. CASE Pipeline!RagReadRow(j)
  BY <1>0, <1>3, <1>5, <1>6, <1>12 DEF Pipeline!RagReadRow
<1>13. CASE Pipeline!RagReadBody(j)
  BY <1>0, <1>3, <1>4, <1>5, <1>13 DEF Pipeline!RagReadBody
<1>14. CASE Pipeline!RagClear(j)
  <2>1. vector'[d] = {} /\ Pipeline!Task(j).type = "INDEX" /\ job[j].text = content[d].text
        /\ Pipeline!Advance(j, "writeChunks")
    BY <1>0, <1>1, <1>14 DEF Pipeline!RagClear, Pipeline!ClearChunks
  <2> QED
    BY <1>5, <1>6, <2>1
<1>15. CASE Pipeline!RagWrite(j)
  <2>1. vector'[d] = vector[d] \cup {job[j].text} /\ job'[j] = Pipeline!Free /\ q = "rag" /\ Wanted(d)
    BY <1>0, <1>1, <1>7, <1>15 DEF Pipeline!RagWrite
  <2>2. vector[d] = {} /\ job[j].text = content[d].text
    BY <1>0, <1>15, <2>1 DEF Pipeline!RagWrite
  <2> QED
    BY <1>2, <2>1, <2>2 DEF Tells
<1>16. CASE Pipeline!RagDelete(j)
  <2>1. vector'[d] = {} /\ job'[j] = Pipeline!Free /\ q = "rag" /\ ~Wanted(d)
    BY <1>0, <1>1, <1>7, <1>16 DEF Pipeline!RagDelete, Pipeline!ClearChunks
  <2> QED
    BY <1>2, <2>1 DEF Tells
<1> QED
  BY <1>8, <1>9, <1>10, <1>11, <1>12, <1>13, <1>14, <1>15, <1>16 DEF Pipeline!Handle

\* ... nor a step of a handler.
LEMMA HandleSpaced ==
    ASSUME HubTyped, StoredInv, IsolatedInv, SpacedInv, NEW j \in Jobs, Pipeline!Handle(j),
           UNCHANGED <<stores, queue, req>>
    PROVE  SpacedInv'
<1>1. PICK q \in Queues, e \in Docs :
        /\ q = job[j].queue /\ e = Pipeline!Doc(j)
        /\ UNCHANGED <<next, back, queue>>
        /\ \A k \in Jobs \ {j} : job'[k] = job[k]
        /\ \/ job'[j] = Pipeline!Free
           \/ job'[j].queue = job[j].queue /\ job'[j].pos = job[j].pos /\ Pipeline!Working(j)'
        /\ q # "search" => search' = search
        /\ q # "rag" => vector' = vector
        /\ \A d \in Docs \ {e} : search'[d] = search[d] /\ vector'[d] = vector[d]
        /\ Handling(j, q, e)
  BY HandleElsewhere DEF Handling
<1>2. \A p, d : Waiting(p, d)' = Waiting(p, d)
  BY <1>1 DEF Waiting
<1>3. ASSUME NEW k \in Jobs, NEW p \in Queues, NEW d \in Docs
      PROVE  Handling(k, p, d)' <=> (Handling(k, p, d) /\ (k = j => job'[j] # Pipeline!Free))
  <2>1. CASE k # j
    <3>1. job'[k] = job[k]
      BY <1>1, <2>1
    <3> QED
      BY <1>1, <2>1, <3>1 DEF Handling, Pipeline!Working, Pipeline!Doc, Pipeline!Task
  <2>2. CASE k = j /\ job'[j] = Pipeline!Free
    BY <2>2 DEF Handling, Pipeline!Working, Pipeline!Free
  <2>3. CASE k = j /\ job'[j] # Pipeline!Free
    <3>1. /\ job'[j].queue = job[j].queue /\ job'[j].pos = job[j].pos
          /\ Pipeline!Working(j)' /\ Pipeline!Working(j)
      BY <1>1, <2>3 DEF Handling
    <3>2. Pipeline!Doc(j)' = Pipeline!Doc(j)
      BY <1>1, <3>1 DEF Pipeline!Doc, Pipeline!Task
    <3> QED
      BY <2>3, <3>1, <3>2 DEF Handling
  <2> QED
    BY <2>1, <2>2, <2>3
<1>4. OneByOne'
  BY <1>1, <1>3 DEF SpacedInv, OneByOne
<1>5. ASSUME NEW p \in Queues, NEW d \in Docs, p # q \/ d # e, Follows(p, d)
      PROVE  Follows(p, d)'
  <2>1. \A k \in Jobs : Handling(k, p, d) => k # j
    BY <1>1, <1>5 DEF Handling
  <2>2. \A k \in Jobs : Handling(k, p, d)' <=> Handling(k, p, d)
    BY <1>3, <2>1
  <2>3. \A k \in Jobs : Handling(k, p, d) => job'[k] = job[k]
    BY <1>1, <2>1
  <2>4. /\ p = "search" => search'[d] = search[d]
        /\ p = "rag" => vector'[d] = vector[d]
    BY <1>1, <1>5
  <2> QED
    BY <1>2, <1>5, <2>2, <2>3, <2>4, FollowsElsewhere
<1>6. ASSUME Follows(q, e)
      PROVE  Follows(q, e)'
  <2>1. CASE Waiting(q, e) # {}
    <3>1. PICK i \in Waiting(q, e) : /\ \A k \in Waiting(q, e) : k <= i
                                     /\ AsksRightly(queue[q][i].type, e)
      BY <1>6, <2>1 DEF Follows
    <3>2. AsksRightly(queue[q][i].type, e)'
      BY <1>1, <3>1, StoresStay DEF AsksRightly
    <3> QED
      BY <1>2, <3>1, <3>2 DEF Follows
  <2>2. CASE Waiting(q, e) = {}
    <3>1. OnTheWay(j, e)
      BY <1>1, <1>6, <2>2 DEF Follows, SpacedInv, OneByOne
    <3>2. \/ job'[j] # Pipeline!Free /\ OnTheWay(j, e)'
          \/ job'[j] = Pipeline!Free /\ Tells(q, e)'
      BY <1>1, <3>1, OnTheWayKeeps
    <3>3. CASE job'[j] # Pipeline!Free /\ OnTheWay(j, e)'
      <4>1. Handling(j, q, e)'
        BY <1>1, <1>3, <3>3
      <4> QED
        BY <1>2, <2>2, <3>3, <4>1 DEF Follows
    <3>4. CASE job'[j] = Pipeline!Free /\ Tells(q, e)'
      <4>1. \A k \in Jobs : ~Handling(k, q, e)'
        BY <1>1, <1>3, <3>4 DEF SpacedInv, OneByOne
      <4> QED
        BY <1>2, <2>2, <3>4, <4>1 DEF Follows
    <3> QED
      BY <3>2, <3>3, <3>4
  <2> QED
    BY <2>1, <2>2
<1>7. ASSUME NEW d \in Docs
      PROVE  Owed(d)' \/ \A p \in Queues : Follows(p, d)'
  <2>1. Owed(d)' <=> Owed(d)
    BY StoresStay
  <2> QED
    BY <1>5, <1>6, <2>1 DEF SpacedInv
<1>8. \A r \in Reqs : Remembers(req[r])'
  BY DEF SpacedInv, Remembers, stores
<1> QED
  BY <1>4, <1>7, <1>8 DEF SpacedInv

-----------------------------------------------------------------------------
(* The composition *)

SettledInv == HubTyped /\ StoredInv /\ IsolatedInv /\ SpacedInv

\* At first nothing is wanted, announced or indexed.
LEMMA SettledInvInit == HubInit => SettledInv
<1> SUFFICES ASSUME HubInit
             PROVE  SettledInv
  OBVIOUS
<1>1. HubTyped /\ StoredInv /\ IsolatedInv
  BY HubTypedInit, StoredInit, IsolatedInit DEF HubInit
<1>2. /\ \A r \in Reqs : req[r] = Idle
      /\ \A d \in Docs : row[d].status = "Absent"
      /\ \A q \in Queues : queue[q] = <<>> /\ back[q] = {}
      /\ \A j \in Jobs : ~Pipeline!Working(j)
      /\ \A d \in Docs : search[d] = NotIndexed /\ vector[d] = {}
  BY DEF HubInit, Init, Pipeline!PipelineInit, Pipeline!Working, Pipeline!Free
<1>3. \A r \in Reqs : Remembers(req[r])
  BY <1>2 DEF Remembers, Idle
<1>4. OneByOne
  BY <1>2 DEF OneByOne, Handling
<1>5. ASSUME NEW d \in Docs, NEW q \in Queues
      PROVE  Follows(q, d)
  <2>1. ~Wanted(d)
    BY <1>2 DEF Wanted, Published, Live
  <2>2. Waiting(q, d) = {}
    <3>1. Len(queue[q]) = 0
      BY <1>2
    <3> QED
      BY <3>1 DEF Waiting
  <2>3. Tells(q, d)
    BY <1>2, <2>1 DEF Tells
  <2> QED
    BY <1>2, <2>2, <2>3 DEF Follows, Handling
<1> QED
  BY <1>1, <1>3, <1>4, <1>5 DEF SettledInv, SpacedInv

\* With no fault to spend, no handler, channel or process is lost.
LEMMA NothingFailsHub ==
    ASSUME MaxFaults = 0, TypeOK
    PROVE  ~ConsumerFault /\ ~ProcessCrash
BY DEF TypeOK, ConsumerFault, ProcessCrash, Fault, Pipeline!Fault, Pipeline!LoseChannel,
   Pipeline!HandlerFails

\* Every step of the composition keeps the invariant.
LEMMA SettledInvNext ==
    ASSUME ~Overlap, Spaced, MaxFaults = 0
    PROVE  SettledInv /\ [HubNext]_hubVars => SettledInv'
<1> SUFFICES ASSUME SettledInv, [HubNext]_hubVars
             PROVE  SettledInv'
  OBVIOUS
<1>1. TypeOK /\ HubTyped /\ StoredInv /\ IsolatedInv /\ SpacedInv /\ HubTyped'
  BY HubTypedNext DEF SettledInv, HubTyped, HubTypeOK
<1>2. CASE WorkflowStep
  <2>1. StoredInv' /\ IsolatedInv'
    BY <1>1, <1>2, StoredNext, IsolatedNext DEF WorkflowStep
  <2> QED
    BY <1>1, <1>2, <2>1, WorkflowSpaced DEF SettledInv
<1>3. ASSUME NEW j \in Jobs, Consume(j)
      PROVE  SettledInv'
  <2>1. UNCHANGED <<stores, queue, req>>
    BY <1>3 DEF Consume
  <2>2. StoredInv' /\ IsolatedInv'
    <3>1. UNCHANGED <<objects, row, content, review, submitted, req>>
      BY <2>1 DEF stores
    <3>2. StoredInv'
      BY <1>1, <3>1 DEF StoredInv, RequestStored, Stored
    <3>3. OneAtATime' /\ \A d \in Docs : row'[d].status = "Absent" => ~row'[d].deleted
      BY <1>1, <3>1 DEF IsolatedInv, OneAtATime
    <3>4. \A d : /\ Quiet(d)' <=> Quiet(d)
                 /\ Settled(d)' <=> Settled(d)
      BY <3>1 DEF Quiet, Settled, Live, InReview, OpenReviews, Approved
    <3>5. \A r \in Reqs : Underway(req[r])' <=> Underway(req[r])
      <4>1. \A q : Underway(q)' <=> Underway(q)
        BY <3>1, <3>4 DEF Underway, Live, InReview, OpenReviews, Approved, Unborn, Free
      <4> QED
        BY <3>1, <4>1
    <3>6. IsolatedInv'
      BY <1>1, <3>1, <3>3, <3>4, <3>5 DEF IsolatedInv
    <3> QED
      BY <3>2, <3>6
  <2>3. SpacedInv'
    BY <1>1, <1>3, <2>1, DeliverSpaced, HandleSpaced DEF Consume
  <2> QED
    BY <1>1, <2>2, <2>3 DEF SettledInv
<1>4. ~ConsumerFault /\ ~ProcessCrash
  BY <1>1, NothingFailsHub
<1>5. CASE UNCHANGED hubVars
  <2>1. /\ UNCHANGED <<stores, queue, req>> /\ [Next]_workflowVars
        /\ UNCHANGED <<next, back, job, search, vector>>
    BY <1>5 DEF hubVars, workflowVars, pipelineVars, stores
  <2>2. StoredInv' /\ IsolatedInv'
    BY <1>1, <2>1, StoredNext, IsolatedNext
  <2>3. SpacedInv'
    <3>1. \A q, d : Waiting(q, d)' = Waiting(q, d)
      BY <2>1 DEF Waiting
    <3>2. \A k \in Jobs : \A q, d : Handling(k, q, d)' <=> Handling(k, q, d)
      BY <2>1 DEF Handling, Pipeline!Working, Pipeline!Doc, Pipeline!Task
    <3>3. ASSUME NEW q \in Queues, NEW d \in Docs, Follows(q, d)
          PROVE  Follows(q, d)'
      BY <2>1, <3>1, <3>2, <3>3, FollowsElsewhere
    <3>4. \A d \in Docs : Owed(d)' <=> Owed(d)
      BY <2>1, StoresStay
    <3>5. OneByOne'
      BY <1>1, <2>1, <3>2 DEF SpacedInv, OneByOne
    <3>6. \A r \in Reqs : Remembers(req[r])'
      BY <1>1, <2>1 DEF SpacedInv, Remembers, stores
    <3> QED
      BY <1>1, <3>3, <3>4, <3>5, <3>6 DEF SpacedInv
  <2> QED
    BY <1>1, <2>2, <2>3 DEF SettledInv
<1> QED
  BY <1>2, <1>3, <1>4, <1>5 DEF HubNext

\* With nothing owed, waiting or being handled, the indexes tell what is
\* published.
LEMMA SettledInvAgrees == SettledInv => SettledAgrees
<1> SUFFICES ASSUME SettledInv, Pipeline!Drained, \A r \in Reqs : req[r].pc = "idle",
                    NEW d \in Docs
             PROVE  Agrees(d)
  BY DEF SettledAgrees
<1>1. ~Owed(d)
  BY DEF Owed, Owes
<1>2. Wanted(d) <=> Published(d)
  BY DEF Wanted
<1>3. ASSUME NEW q \in Queues
      PROVE  Tells(q, d)
  <2>1. Waiting(q, d) = {}
    <3>1. next[q] = Len(queue[q]) /\ queue[q] \in Seq(TaskType)
      BY DEF Pipeline!Drained, SettledInv, HubTyped, HubTypeOK, TypeOK
    <3> QED
      BY <3>1 DEF Waiting
  <2>2. \A j \in Jobs : ~Handling(j, q, d)
    BY DEF Pipeline!Drained, Handling
  <2> QED
    BY <1>1, <2>1, <2>2 DEF SettledInv, SpacedInv, Follows
<1> QED
  BY <1>2, <1>3 DEF Agrees, Tells

\* When clients keep the requests on a document apart, nothing fails and a
\* queue hands over the tasks of a document one by one, the indexes agree with
\* the stores whenever the requests are done and the queues are empty, however
\* the reads and writes of requests and handlers interleaved.
THEOREM SettledIndexesAgree ==
    ASSUME ~Overlap, Spaced, MaxFaults = 0
    PROVE  HubSpec => []SettledAgrees
<1>1. SettledInv /\ [HubNext]_hubVars => SettledInv'
  BY SettledInvNext
<1> QED
  BY <1>1, SettledInvInit, SettledInvAgrees, PTL DEF HubSpec
=============================================================================
