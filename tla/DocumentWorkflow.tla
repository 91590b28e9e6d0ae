-------------------------- MODULE DocumentWorkflow --------------------------
(***************************************************************************)
(* DocumentService and DocumentReviewService: the HTTP requests that       *)
(* create, edit, review, retire and remove documents, over three stores    *)
(* that share no transaction (the Postgres tables kh_document and          *)
(* kh_document_review, the Mongo collection document_content, RustFS) and  *)
(* the durable queues that carry the index tasks.                          *)
(*                                                                         *)
(* A request is a process.  Every await of the source is a boundary        *)
(* between two of its steps, so a step performs one database call and the  *)
(* synchronous code around it, and the steps of requests interleave.  A    *)
(* request whose guard fails answers 4xx and changes nothing: it is        *)
(* modelled as an action that is not enabled, or, when the guard is met    *)
(* after a first step, as the end of the request.                          *)
(***************************************************************************)
EXTENDS Naturals, Sequences

CONSTANTS
    Docs,           \* document ids (nextSnowflakeId never repeats one)
    Reviews,        \* review ids
    Contents,       \* distinguishable document bodies
    Reqs,           \* slots for requests in flight: their number bounds concurrency
    Queues,         \* the durable queues a task is published to
    Overlap,        \* whether clients work on one document at the same time
    MaxFaults,      \* bound on failed requests and lost tasks
    NoDoc, NoReview, NoContent

ASSUME WorkflowAssumption ==
    /\ NoDoc \notin Docs
    /\ NoReview \notin Reviews
    /\ NoContent \notin Contents
    /\ Overlap \in BOOLEAN
    /\ MaxFaults \in Nat

VARIABLES
    objects,    \* RustFS: documents whose original file is stored
    row,        \* kh_document
    content,    \* document_content in Mongo
    review,     \* kh_document_review
    queue,      \* every task published so far, per queue, oldest first
    req,        \* the requests in flight
    faults,     \* faults that have happened, at most MaxFaults
    submitted   \* history: the body a review was opened for

stores == <<objects, row, content, review, submitted>>
workflowVars == <<objects, row, content, review, queue, req, faults, submitted>>

-----------------------------------------------------------------------------
(* Types *)

Status == {"Draft", "Published", "Archived", "PendingReview"}

RowType == [status : Status \cup {"Absent"}, deleted : BOOLEAN]
ContentType == [text : Contents \cup {NoContent}, deleted : BOOLEAN]
Result == {"Pending", "Approved", "Rejected"}
ReviewType == [doc : Docs \cup {NoDoc}, result : Result]
TaskType == [type : {"INDEX", "DELETE"}, doc : Docs]

PC == {"idle",
       "createContent", "createRow",                         \* upload
       "writeContent", "saveEdit",                           \* update
       "retire",                                             \* archive, saveAsDraft
       "dropTask", "markDeleted", "deleteContent",           \* remove
       "checkPending", "openReview", "savePending",          \* submitForReview
       "saveResult", "findDoc", "saveDecision", "publish",   \* approve, reject
       "unpublish"}

\* What a request holds between two awaits: the row it read (`before`), the
\* status it is going to save, and its arguments.
ReqType == [pc : PC, doc : Docs \cup {NoDoc}, before : Status \cup {"Absent"},
            status : Status \cup {"Absent"}, review : Reviews \cup {NoReview},
            result : Result, text : Contents \cup {NoContent}]

Idle == [pc |-> "idle", doc |-> NoDoc, before |-> "Absent", status |-> "Absent",
         review |-> NoReview, result |-> "Pending", text |-> NoContent]

TypeOK ==
    /\ objects \in SUBSET Docs
    /\ row \in [Docs -> RowType]
    /\ content \in [Docs -> ContentType]
    /\ review \in [Reviews -> ReviewType]
    /\ submitted \in [Reviews -> Contents \cup {NoContent}]
    /\ queue \in [Queues -> Seq(TaskType)]
    /\ req \in [Reqs -> ReqType]
    /\ \A r \in Reqs : req[r].pc # "idle" => req[r].doc \in Docs
    /\ faults \in 0..MaxFaults

-----------------------------------------------------------------------------
(* Helpers *)

\* findOne({ id, deleted: false })
Live(d) == row[d].status # "Absent" /\ ~row[d].deleted

\* Mutant: a pending document may be edited.
canEditContent_AlsoPending(s) == s \in Status

canEditContent(s) == s \in {"Draft", "Published", "Archived"}
canArchive(s) == s = "Published"

OpenReviews(d) == {v \in Reviews : review[v].doc = d /\ review[v].result = "Pending"}

\* The bound on reviews: ids not used yet.
FreeReviews == {v \in Reviews : review[v].doc = NoDoc}

\* No request is working on d.
Quiet(d) == \A r \in Reqs : req[r].doc # d

\* Nothing in the service keeps two requests off the same document; without
\* Overlap the clients do.
Begin(r, state) ==
    /\ req[r].pc = "idle"
    /\ Overlap \/ Quiet(state.doc)
    /\ req' = [req EXCEPT ![r] = state]
At(r, pc) == req[r].pc = pc
Goto(r, pc) == req' = [req EXCEPT ![r].pc = pc]
Return(r) == req' = [req EXCEPT ![r] = Idle]

\* repository.save(entity) writes every column in which the entity read
\* earlier differs from the row as it is now: the row becomes the entity.
SaveRow(d, status, deleted) ==
    row' = [row EXCEPT ![d] = [status |-> status, deleted |-> deleted]]

Fault == faults < MaxFaults /\ faults' = faults + 1

\* afterPublish and afterUnpublish publish one task per queue; a publish that
\* fails returns false, is logged, and its task is lost.
Publish(type, d) ==
    \E ok \in SUBSET Queues :
        /\ queue' = [q \in Queues |->
                        IF q \in ok
                        THEN Append(queue[q], [type |-> type, doc |-> d])
                        ELSE queue[q]]
        /\ IF ok = Queues THEN UNCHANGED faults ELSE Fault

-----------------------------------------------------------------------------
Init ==
    /\ objects = {}
    /\ row = [d \in Docs |-> [status |-> "Absent", deleted |-> FALSE]]
    /\ content = [d \in Docs |-> [text |-> NoContent, deleted |-> FALSE]]
    /\ review = [v \in Reviews |-> [doc |-> NoDoc, result |-> "Pending"]]
    /\ submitted = [v \in Reviews |-> NoContent]
    /\ queue = [q \in Queues |-> <<>>]
    /\ req = [r \in Reqs |-> Idle]
    /\ faults = 0

-----------------------------------------------------------------------------
(* uploadAndCreateDocument: RustFS, then Mongo, then Postgres *)

\* Mutant: the row is written before the body.
UploadFile_RowFirst(r, d) ==
    /\ d \notin objects
    /\ \E c \in Contents :
        Begin(r, [Idle EXCEPT !.pc = "createRow", !.doc = d, !.text = c])
    /\ objects' = objects \cup {d}
    /\ UNCHANGED <<row, content, review, queue, faults, submitted>>

UploadFile(r, d) ==
    /\ d \notin objects
    /\ \E c \in Contents :
        Begin(r, [Idle EXCEPT !.pc = "createContent", !.doc = d, !.text = c])
    /\ objects' = objects \cup {d}
    /\ UNCHANGED <<row, content, review, queue, faults, submitted>>

CreateContent(r) ==
    /\ At(r, "createContent")
    /\ content' = [content EXCEPT ![req[r].doc] =
                        [text |-> req[r].text, deleted |-> FALSE]]
    /\ Goto(r, "createRow")
    /\ UNCHANGED <<objects, row, review, queue, faults, submitted>>

\* Mutant: a new document is indexed at once.
CreateRow_ThenIndex(r) ==
    /\ At(r, "createRow")
    /\ SaveRow(req[r].doc, "Draft", FALSE)
    /\ Goto(r, "publish")
    /\ UNCHANGED <<objects, content, review, queue, faults, submitted>>

CreateRow(r) ==
    /\ At(r, "createRow")
    /\ SaveRow(req[r].doc, "Draft", FALSE)
    /\ Return(r)
    /\ UNCHANGED <<objects, content, review, queue, faults, submitted>>

-----------------------------------------------------------------------------
(* updateDocument *)

\* The request may carry a new body or only a title or tags.
ReadForUpdate(r, d) ==
    /\ Live(d)
    /\ canEditContent(row[d].status)
    /\ \E c \in Contents \cup {NoContent} :
        Begin(r, [Idle EXCEPT !.pc = IF c = NoContent THEN "saveEdit" ELSE "writeContent",
                              !.doc = d, !.text = c,
                              !.before = row[d].status, !.status = "Draft"])
    /\ UNCHANGED <<stores, queue, faults>>

\* updateOne({ documentId, deleted: false }) matches nothing once deleted.
WriteContent(r) ==
    /\ At(r, "writeContent")
    /\ content' = IF content[req[r].doc].deleted
                  THEN content
                  ELSE [content EXCEPT ![req[r].doc].text = req[r].text]
    /\ Goto(r, "saveEdit")
    /\ UNCHANGED <<objects, row, review, queue, faults, submitted>>

\* Mutant: the indexes are not told of an edit.
SaveEdit_StaysIndexed(r) ==
    /\ At(r, "saveEdit")
    /\ SaveRow(req[r].doc, req[r].status, FALSE)
    /\ Return(r)
    /\ UNCHANGED <<objects, content, review, queue, faults, submitted>>

SaveEdit(r) ==
    /\ At(r, "saveEdit")
    /\ SaveRow(req[r].doc, req[r].status, FALSE)
    /\ IF req[r].before = "Published" THEN Goto(r, "unpublish") ELSE Return(r)
    /\ UNCHANGED <<objects, content, review, queue, faults, submitted>>

-----------------------------------------------------------------------------
(* archive and saveAsDraft *)

ReadForArchive(r, d) ==
    /\ Live(d)
    /\ canArchive(row[d].status)
    /\ Begin(r, [Idle EXCEPT !.pc = "retire", !.doc = d,
                             !.before = row[d].status, !.status = "Archived"])
    /\ UNCHANGED <<stores, queue, faults>>

ReadForDraft(r, d) ==
    /\ Live(d)
    /\ row[d].status = "Published"
    /\ Begin(r, [Idle EXCEPT !.pc = "retire", !.doc = d,
                             !.before = row[d].status, !.status = "Draft"])
    /\ UNCHANGED <<stores, queue, faults>>

Retire(r) ==
    /\ At(r, "retire")
    /\ SaveRow(req[r].doc, req[r].status, FALSE)
    /\ Goto(r, "unpublish")
    /\ UNCHANGED <<objects, content, review, queue, faults, submitted>>

\* The last step of update, archive, saveAsDraft and submitForReview on a
\* document that was read as published.
Unpublish(r) ==
    /\ At(r, "unpublish")
    /\ Publish("DELETE", req[r].doc)
    /\ Return(r)
    /\ UNCHANGED stores

-----------------------------------------------------------------------------
(* remove: announce, then the row, then the body *)

ReadForRemove(r, d) ==
    /\ Live(d)
    /\ Begin(r, [Idle EXCEPT
                    !.pc = IF row[d].status = "Published" THEN "dropTask" ELSE "markDeleted",
                    !.doc = d, !.before = row[d].status, !.status = row[d].status])
    /\ UNCHANGED <<stores, queue, faults>>

AnnounceRemoval(r) ==
    /\ At(r, "dropTask")
    /\ Publish("DELETE", req[r].doc)
    /\ Goto(r, "markDeleted")
    /\ UNCHANGED stores

\* Mutant: the removal is written into the status.
MarkDeleted_AsStatus(r) ==
    /\ At(r, "markDeleted")
    /\ SaveRow(req[r].doc, "Deleted", TRUE)
    /\ Goto(r, "deleteContent")
    /\ UNCHANGED <<objects, content, review, queue, faults, submitted>>

\* Mutant: the body is forgotten.
MarkDeleted_KeepsContent(r) ==
    /\ At(r, "markDeleted")
    /\ SaveRow(req[r].doc, req[r].status, TRUE)
    /\ Return(r)
    /\ UNCHANGED <<objects, content, review, queue, faults, submitted>>

MarkDeleted(r) ==
    /\ At(r, "markDeleted")
    /\ SaveRow(req[r].doc, req[r].status, TRUE)
    /\ Goto(r, "deleteContent")
    /\ UNCHANGED <<objects, content, review, queue, faults, submitted>>

DeleteContent(r) ==
    /\ At(r, "deleteContent")
    /\ content' = [content EXCEPT ![req[r].doc].deleted = TRUE]
    /\ Return(r)
    /\ UNCHANGED <<objects, row, review, queue, faults, submitted>>

-----------------------------------------------------------------------------
(* submitForReview *)

ReadForSubmit(r, d) ==
    /\ Live(d)
    /\ row[d].status \in {"Draft", "Published"}
    /\ FreeReviews # {}
    /\ Begin(r, [Idle EXCEPT !.pc = "checkPending", !.doc = d,
                             !.before = row[d].status, !.status = "PendingReview"])
    /\ UNCHANGED <<stores, queue, faults>>

CheckPending(r) ==
    /\ At(r, "checkPending")
    /\ IF OpenReviews(req[r].doc) = {} THEN Goto(r, "openReview") ELSE Return(r)
    /\ UNCHANGED <<stores, queue, faults>>

OpenReview(r) ==
    /\ At(r, "openReview")
    /\ \E v \in FreeReviews :
        /\ review' = [review EXCEPT ![v] = [doc |-> req[r].doc, result |-> "Pending"]]
        /\ submitted' = [submitted EXCEPT ![v] = content[req[r].doc].text]
    /\ Goto(r, "savePending")
    /\ UNCHANGED <<objects, row, content, queue, faults>>

\* Mutant: the indexes are not told of a submission.
SavePending_StaysIndexed(r) ==
    /\ At(r, "savePending")
    /\ SaveRow(req[r].doc, req[r].status, FALSE)
    /\ Return(r)
    /\ UNCHANGED <<objects, content, review, queue, faults, submitted>>

SavePending(r) ==
    /\ At(r, "savePending")
    /\ SaveRow(req[r].doc, req[r].status, FALSE)
    /\ IF req[r].before = "Published" THEN Goto(r, "unpublish") ELSE Return(r)
    /\ UNCHANGED <<objects, content, review, queue, faults, submitted>>

-----------------------------------------------------------------------------
(* approveReview and rejectReview *)

\* Mutant: the document is decided and the review row is not.
ReadReview_SkipsResult(r, v, result) ==
    /\ review[v].doc # NoDoc
    /\ review[v].result = "Pending"
    /\ Begin(r, [Idle EXCEPT !.pc = "findDoc", !.doc = review[v].doc,
                             !.review = v, !.result = result])
    /\ UNCHANGED <<stores, queue, faults>>

ReadReview(r, v, result) ==
    /\ review[v].doc # NoDoc
    /\ review[v].result = "Pending"
    /\ Begin(r, [Idle EXCEPT !.pc = "saveResult", !.doc = review[v].doc,
                             !.review = v, !.result = result])
    /\ UNCHANGED <<stores, queue, faults>>

ReadForApprove(r, v) == ReadReview(r, v, "Approved")
ReadForReject(r, v)  == ReadReview(r, v, "Rejected")

SaveResult(r) ==
    /\ At(r, "saveResult")
    /\ review' = [review EXCEPT ![req[r].review].result = req[r].result]
    /\ Goto(r, "findDoc")
    /\ UNCHANGED <<objects, row, content, queue, faults, submitted>>

\* findDoc throws when the document has been removed: the decision stays
\* recorded and nothing else happens.
FindDoc(r) ==
    /\ At(r, "findDoc")
    /\ IF Live(req[r].doc) THEN Goto(r, "saveDecision") ELSE Return(r)
    /\ UNCHANGED <<stores, queue, faults>>

\* Mutant: a rejection leaves the document pending.
SaveDecision_RejectKeepsStatus(r) ==
    /\ At(r, "saveDecision")
    /\ IF req[r].result = "Approved"
       THEN SaveRow(req[r].doc, "Published", FALSE) /\ Goto(r, "publish")
       ELSE UNCHANGED row /\ Return(r)
    /\ UNCHANGED <<objects, content, review, queue, faults, submitted>>

SaveDecision(r) ==
    /\ At(r, "saveDecision")
    /\ IF req[r].result = "Approved"
       THEN SaveRow(req[r].doc, "Published", FALSE) /\ Goto(r, "publish")
       ELSE SaveRow(req[r].doc, "Draft", FALSE) /\ Return(r)
    /\ UNCHANGED <<objects, content, review, queue, faults, submitted>>

AfterApproval(r) ==
    /\ At(r, "publish")
    /\ Publish("INDEX", req[r].doc)
    /\ Return(r)
    /\ UNCHANGED stores

-----------------------------------------------------------------------------
\* A database call throws, or the process dies: the request ends where it
\* is and what it wrote stays.  A crash of the process is one fault per
\* request in flight.
Abort(r) ==
    /\ req[r].pc # "idle"
    /\ Return(r)
    /\ Fault
    /\ UNCHANGED <<stores, queue>>

Start(r) ==
    \/ \E d \in Docs : \/ UploadFile(r, d) \/ ReadForUpdate(r, d)
                       \/ ReadForArchive(r, d) \/ ReadForDraft(r, d)
                       \/ ReadForRemove(r, d) \/ ReadForSubmit(r, d)
    \/ \E v \in Reviews : ReadForApprove(r, v) \/ ReadForReject(r, v)

Step(r) ==
    \/ CreateContent(r) \/ CreateRow(r)
    \/ WriteContent(r) \/ SaveEdit(r)
    \/ Retire(r) \/ Unpublish(r)
    \/ AnnounceRemoval(r) \/ MarkDeleted(r) \/ DeleteContent(r)
    \/ CheckPending(r) \/ OpenReview(r) \/ SavePending(r)
    \/ SaveResult(r) \/ FindDoc(r) \/ SaveDecision(r) \/ AfterApproval(r)

Next == \E r \in Reqs : Start(r) \/ Step(r) \/ Abort(r)

\* A request in flight goes on: its database calls return.  Nobody has to
\* send another request.
Fairness == \A r \in Reqs : WF_workflowVars(Step(r))

Spec == Init /\ [][Next]_workflowVars /\ Fairness

-----------------------------------------------------------------------------
(* Properties of every interleaving, with faults *)

\* A document row is only visible once its file and its body are stored
\* (document.service.ts:61-96 write them in that order), whatever fails.
RowHasContent ==
    \A d \in Docs :
        row[d].status # "Absent" => d \in objects /\ content[d].text # NoContent

Decided(d) == \E v \in Reviews : review[v].doc = d /\ review[v].result # "Pending"

\* Nobody publishes around the review: a live published row, even one written
\* from a stale entity, has a decided review behind it
\* (document-review.service.ts:83-97 is the only way to Published).
PublishedWasReviewed ==
    \A d \in Docs : Live(d) /\ row[d].status = "Published" => Decided(d)

\* An index task is only ever published for a document a reviewer decided on
\* (document-review.service.ts:99 is the only caller of afterPublish).
IndexTaskWasReviewed ==
    \A q \in Queues : \A i \in 1..Len(queue[q]) :
        queue[q][i].type = "INDEX" => Decided(queue[q][i].doc)

-----------------------------------------------------------------------------
(* Properties of a service whose requests on one document do not overlap   *)
(* (~Overlap) and are not cut short (MaxFaults = 0)                        *)

\* What is published is what was submitted: the body served under Published
\* is the body an approved review was opened for (canEditContent,
\* document-status.ts:34, and the return to Draft in updateDocument).
PublishedContentWasApproved ==
    \A d \in Docs :
        Quiet(d) /\ Live(d) /\ row[d].status = "Published" =>
            \E v \in Reviews : /\ review[v].doc = d
                               /\ review[v].result = "Approved"
                               /\ submitted[v] = content[d].text

\* A live document is pending exactly while one review of it is open, so a
\* pending document can always be decided and leave that status.
PendingIffOneOpenReview ==
    \A d \in Docs :
        Quiet(d) /\ Live(d) =>
            IF row[d].status = "PendingReview"
            THEN \E v \in Reviews : OpenReviews(d) = {v}
            ELSE OpenReviews(d) = {}

\* The soft delete reaches both stores (document.service.ts:192).
RemovedFromBothStores ==
    \A d \in Docs : Quiet(d) => row[d].deleted = content[d].deleted

\* The last task announced for d on q asks to index it.
Announced(q, d) ==
    \E i \in DOMAIN queue[q] : /\ queue[q][i] = [type |-> "INDEX", doc |-> d]
                              /\ \A j \in DOMAIN queue[q] : j > i => queue[q][j].doc # d

Lifecycle ==
    INSTANCE DocumentLifecycle WITH
        status <- [d \in Docs |-> IF row[d].deleted THEN "Deleted" ELSE row[d].status],
        served <- [d \in Docs |-> \E q \in Queues : Announced(q, d)]

\* The workflow implements the lifecycle it promises: the status moves, the
\* announcement of a document only while it is published, and its withdrawal
\* some time after it is not.
ImplementsLifecycle == Lifecycle!LifecycleSpec

=============================================================================
