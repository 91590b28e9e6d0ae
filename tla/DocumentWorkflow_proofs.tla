---------------------- MODULE DocumentWorkflow_proofs ----------------------
(***************************************************************************)
(* Safety of DocumentWorkflow for any number of documents, reviews,        *)
(* requests in flight, queues and faults: with every interleaving the      *)
(* service allows.                                                         *)
(***************************************************************************)
EXTENDS DocumentWorkflow, TLAPS

\* What a publish does to the queues: it appends at most one task to each.
LEMMA PublishAppends ==
    ASSUME NEW type \in {"INDEX", "DELETE"}, NEW d \in Docs, TypeOK, Publish(type, d)
    PROVE  /\ queue' \in [Queues -> Seq(TaskType)]
           /\ faults' \in 0..MaxFaults
           /\ \A q \in Queues :
                \/ queue'[q] = queue[q]
                \/ queue'[q] = Append(queue[q], [type |-> type, doc |-> d])
<1>1. [type |-> type, doc |-> d] \in TaskType
  BY DEF TaskType
<1>2. \A q \in Queues : queue[q] \in Seq(TaskType)
  BY DEF TypeOK
<1>3. PICK ok \in SUBSET Queues :
        /\ queue' = [q \in Queues |->
                        IF q \in ok
                        THEN Append(queue[q], [type |-> type, doc |-> d])
                        ELSE queue[q]]
        /\ IF ok = Queues THEN UNCHANGED faults ELSE Fault
  BY DEF Publish
<1>4. \A q \in Queues : Append(queue[q], [type |-> type, doc |-> d]) \in Seq(TaskType)
  BY <1>1, <1>2
<1>5. faults' \in 0..MaxFaults
  BY <1>3, WorkflowAssumption DEF TypeOK, Fault
<1>6. QED
  BY <1>2, <1>3, <1>4, <1>5

\* Idle and every state a request begins in have the type of a request.
LEMMA IdleType == Idle \in ReqType
BY DEF Idle, ReqType, PC, Result

-----------------------------------------------------------------------------
(* Type correctness *)

LEMMA TypeInit == Init => TypeOK
BY WorkflowAssumption, IdleType DEF Init, TypeOK, RowType, ContentType, ReviewType, Result, Idle

\* The three ways an action moves its request.
ReqOK ==
    /\ req \in [Reqs -> ReqType]
    /\ \A r \in Reqs : req[r].pc # "idle" => req[r].doc \in Docs

LEMMA BeginType ==
    ASSUME TypeOK, NEW r \in Reqs, NEW state \in ReqType, state.doc \in Docs, Begin(r, state)
    PROVE  ReqOK'
BY DEF TypeOK, ReqOK, Begin

LEMMA GotoType ==
    ASSUME TypeOK, NEW r \in Reqs, req[r].pc # "idle", NEW pc \in PC, Goto(r, pc)
    PROVE  ReqOK'
BY DEF TypeOK, ReqOK, Goto, ReqType

LEMMA ReturnType ==
    ASSUME TypeOK, NEW r \in Reqs, Return(r)
    PROVE  ReqOK'
BY IdleType DEF TypeOK, ReqOK, Return, Idle

LEMMA SaveRowType ==
    ASSUME TypeOK, NEW d \in Docs, NEW s \in Status \cup {"Absent"}, NEW b \in BOOLEAN,
           SaveRow(d, s, b)
    PROVE  row' \in [Docs -> RowType]
BY DEF TypeOK, SaveRow, RowType

LEMMA TypeStart ==
    ASSUME TypeOK, NEW r \in Reqs, Start(r)
    PROVE  TypeOK'
<1> USE DEF Idle, ReqType, PC, Result
<1> SUFFICES ASSUME ReqOK' => TypeOK'
             PROVE  ReqOK'
  BY DEF TypeOK, ReqOK, Start, UploadFile, ReadForUpdate, ReadForArchive, ReadForDraft,
         ReadForRemove, ReadForSubmit, ReadForApprove, ReadForReject, ReadReview, stores
<1>1. ASSUME NEW d \in Docs, UploadFile(r, d)
      PROVE  ReqOK'
  <2>1. PICK c \in Contents :
            Begin(r, [Idle EXCEPT !.pc = "createContent", !.doc = d, !.text = c])
    BY <1>1 DEF UploadFile
  <2>2. QED
    BY <2>1, BeginType
<1>2. ASSUME NEW d \in Docs, ReadForUpdate(r, d)
      PROVE  ReqOK'
  <2>1. PICK c \in Contents \cup {NoContent} :
            Begin(r, [Idle EXCEPT
                        !.pc = IF c = NoContent THEN "saveEdit" ELSE "writeContent",
                        !.doc = d, !.text = c,
                        !.before = row[d].status, !.status = "Draft"])
    BY <1>2 DEF ReadForUpdate
  <2>2. QED
    BY <2>1, BeginType DEF TypeOK, RowType, Status
<1>3. ASSUME NEW d \in Docs, ReadForArchive(r, d)
      PROVE  ReqOK'
  BY <1>3, BeginType DEF ReadForArchive, TypeOK, RowType, Status
<1>4. ASSUME NEW d \in Docs, ReadForDraft(r, d)
      PROVE  ReqOK'
  BY <1>4, BeginType DEF ReadForDraft, TypeOK, RowType, Status
<1>5. ASSUME NEW d \in Docs, ReadForRemove(r, d)
      PROVE  ReqOK'
  BY <1>5, BeginType DEF ReadForRemove, TypeOK, RowType, Status
<1>6. ASSUME NEW d \in Docs, ReadForSubmit(r, d)
      PROVE  ReqOK'
  BY <1>6, BeginType DEF ReadForSubmit, TypeOK, RowType, Status
<1>7. ASSUME NEW v \in Reviews, NEW result \in {"Approved", "Rejected"}, ReadReview(r, v, result)
      PROVE  ReqOK'
  BY <1>7, BeginType DEF ReadReview, TypeOK, ReviewType
<1>8. QED
  BY <1>1, <1>2, <1>3, <1>4, <1>5, <1>6, <1>7 DEF Start, ReadForApprove, ReadForReject

LEMMA TypeStep ==
    ASSUME TypeOK, NEW r \in Reqs, Step(r)
    PROVE  TypeOK'
<1> USE DEF At
<1>1. req[r] \in ReqType /\ (req[r].pc # "idle" => req[r].doc \in Docs)
  BY DEF TypeOK
<1>2. CASE CreateContent(r)
  <2>1. ReqOK'
    BY <1>2, <1>1, GotoType DEF CreateContent, PC
  <2>2. content' \in [Docs -> ContentType]
    BY <1>2, <1>1 DEF CreateContent, TypeOK, ContentType, ReqType
  <2>3. QED
    BY <1>2, <2>1, <2>2 DEF CreateContent, TypeOK, ReqOK
<1>3. CASE CreateRow(r)
  BY <1>1, <1>3, ReturnType, SaveRowType DEF TypeOK, ReqOK, CreateRow, Status
<1>4. CASE WriteContent(r)
  <2>1. ReqOK'
    BY <1>4, <1>1, GotoType DEF WriteContent, PC
  <2>2. content' \in [Docs -> ContentType]
    BY <1>4, <1>1 DEF WriteContent, TypeOK, ContentType, ReqType
  <2>3. QED
    BY <1>4, <2>1, <2>2 DEF WriteContent, TypeOK, ReqOK
<1>5. CASE SaveEdit(r)
  <2>1. ReqOK'
    BY <1>5, <1>1, GotoType, ReturnType DEF SaveEdit, PC
  <2>2. row' \in [Docs -> RowType]
    BY <1>5, <1>1, SaveRowType DEF SaveEdit, ReqType
  <2>3. QED
    BY <1>5, <2>1, <2>2 DEF SaveEdit, TypeOK, ReqOK
<1>6. CASE Retire(r)
  <2>1. ReqOK'
    BY <1>6, <1>1, GotoType DEF Retire, PC
  <2>2. row' \in [Docs -> RowType]
    BY <1>6, <1>1, SaveRowType DEF Retire, ReqType
  <2>3. QED
    BY <1>6, <2>1, <2>2 DEF Retire, TypeOK, ReqOK
<1>7. CASE Unpublish(r)
  BY <1>1, <1>7, ReturnType, PublishAppends DEF TypeOK, ReqOK, Unpublish, stores
<1>8. CASE AnnounceRemoval(r)
  <2>1. ReqOK'
    BY <1>8, <1>1, GotoType DEF AnnounceRemoval, PC
  <2>2. QED
    BY <1>1, <1>8, <2>1, PublishAppends DEF TypeOK, ReqOK, AnnounceRemoval, stores
<1>9. CASE MarkDeleted(r)
  <2>1. ReqOK'
    BY <1>9, <1>1, GotoType DEF MarkDeleted, PC
  <2>2. row' \in [Docs -> RowType]
    BY <1>9, <1>1, SaveRowType DEF MarkDeleted, ReqType
  <2>3. QED
    BY <1>9, <2>1, <2>2 DEF MarkDeleted, TypeOK, ReqOK
<1>10. CASE DeleteContent(r)
  <2>1. content' \in [Docs -> ContentType]
    BY <1>10, <1>1 DEF DeleteContent, TypeOK, ContentType
  <2>2. QED
    BY <1>10, <2>1, ReturnType DEF DeleteContent, TypeOK, ReqOK
<1>11. CASE CheckPending(r)
  <2>1. ReqOK'
    BY <1>11, <1>1, GotoType, ReturnType DEF CheckPending, PC
  <2>2. QED
    BY <1>11, <2>1 DEF CheckPending, TypeOK, ReqOK, stores
<1>12. CASE OpenReview(r)
  <2>1. ReqOK'
    BY <1>12, <1>1, GotoType DEF OpenReview, PC
  <2>2. PICK v \in Reviews :
            /\ review' = [review EXCEPT ![v] = [doc |-> req[r].doc, result |-> "Pending"]]
            /\ submitted' = [submitted EXCEPT ![v] = content[req[r].doc].text]
    BY <1>12 DEF OpenReview, FreeReviews
  <2>3. review' \in [Reviews -> ReviewType]
    BY <1>12, <1>1, <2>2 DEF OpenReview, TypeOK, ReviewType, Result
  <2>4. submitted' \in [Reviews -> Contents \cup {NoContent}]
    BY <1>12, <1>1, <2>2 DEF OpenReview, TypeOK, ContentType
  <2>5. QED
    BY <1>12, <2>1, <2>3, <2>4 DEF OpenReview, TypeOK, ReqOK
<1>13. CASE SavePending(r)
  <2>1. ReqOK'
    BY <1>13, <1>1, GotoType, ReturnType DEF SavePending, PC
  <2>2. row' \in [Docs -> RowType]
    BY <1>13, <1>1, SaveRowType DEF SavePending, ReqType
  <2>3. QED
    BY <1>13, <2>1, <2>2 DEF SavePending, TypeOK, ReqOK
<1>14. CASE SaveResult(r)
  <2>1. ReqOK'
    BY <1>14, <1>1, GotoType DEF SaveResult, PC
  <2>2. review' \in [Reviews -> ReviewType]
    BY <1>14, <1>1, ZenonT(40) DEF SaveResult, TypeOK, ReviewType, ReqType
  <2>3. QED
    BY <1>14, <2>1, <2>2 DEF SaveResult, TypeOK, ReqOK
<1>15. CASE FindDoc(r)
  <2>1. ReqOK'
    BY <1>15, <1>1, GotoType, ReturnType DEF FindDoc, PC
  <2>2. QED
    BY <1>15, <2>1 DEF FindDoc, TypeOK, ReqOK, stores
<1>16. CASE SaveDecision(r)
  <2>1. ReqOK'
    BY <1>16, <1>1, GotoType, ReturnType DEF SaveDecision, PC
  <2>2. row' \in [Docs -> RowType]
    BY <1>16, <1>1, SaveRowType DEF SaveDecision, Status
  <2>3. QED
    BY <1>16, <2>1, <2>2 DEF SaveDecision, TypeOK, ReqOK
<1>17. CASE AfterApproval(r)
  BY <1>1, <1>17, ReturnType, PublishAppends DEF TypeOK, ReqOK, AfterApproval, stores
<1>18. QED
  BY <1>2, <1>3, <1>4, <1>5, <1>6, <1>7, <1>8, <1>9, <1>10, <1>11, <1>12, <1>13,
     <1>14, <1>15, <1>16, <1>17 DEF Step

LEMMA TypeAbort ==
    ASSUME TypeOK, NEW r \in Reqs, Abort(r)
    PROVE  TypeOK'
BY IdleType, WorkflowAssumption DEF TypeOK, Abort, Return, Fault, Idle, stores

LEMMA TypeNext == TypeOK /\ [Next]_workflowVars => TypeOK'
<1> SUFFICES ASSUME TypeOK, [Next]_workflowVars
             PROVE  TypeOK'
  OBVIOUS
<1>1. CASE Next
  BY <1>1, TypeStart, TypeStep, TypeAbort DEF Next
<1>2. CASE UNCHANGED workflowVars
  BY <1>2 DEF workflowVars, TypeOK
<1>3. QED
  BY <1>1, <1>2

\* Every store, queue and request keeps its type.
THEOREM TypeCorrect == Spec => []TypeOK
BY TypeInit, TypeNext, PTL DEF Spec

-----------------------------------------------------------------------------
(***************************************************************************)
(* The chain from a stored body to a published row and an index task.      *)
(* None of RowHasContent, PublishedWasReviewed and IndexTaskWasReviewed is *)
(* inductive: a request writes what it read or decided some steps ago, so  *)
(* the invariant says what is known of a document a request still holds.   *)
(***************************************************************************)

Stored(d) == d \in objects /\ content[d].text # NoContent

\* An uploading request has stored what the next store will point at; any
\* other request works on a document that is stored.
RequestStored(r) ==
    LET q == req[r] IN
    /\ q.pc \in {"createContent", "writeContent"} => q.text # NoContent
    /\ q.pc = "createContent" => q.doc \in objects
    /\ q.pc \notin {"idle", "createContent"} => Stored(q.doc)

StoredInv ==
    /\ \A d \in Docs : row[d].status # "Absent" => Stored(d)
    /\ \A v \in Reviews : review[v].doc # NoDoc => Stored(review[v].doc)
    /\ \A r \in Reqs : RequestStored(r)

\* A request that holds Published, or that is past the save of a decision,
\* works on a document with a decided review.
RequestReviewed(r) ==
    LET q == req[r] IN
    /\ q.pc # "idle" /\ q.status = "Published" => Decided(q.doc)
    /\ q.pc = "saveResult" => /\ q.review \in Reviews
                              /\ review[q.review].doc = q.doc
                              /\ q.result # "Pending"
    /\ q.pc \in {"findDoc", "saveDecision", "publish"} => Decided(q.doc)

ReviewedInv ==
    /\ \A d \in Docs : row[d].status = "Published" => Decided(d)
    /\ \A r \in Reqs : RequestReviewed(r)
    /\ IndexTaskWasReviewed

-----------------------------------------------------------------------------
LEMMA StoredInit == Init => StoredInv
BY DEF Init, StoredInv, RequestStored, Idle

\* No step takes a stored document back.
LEMMA StoredForever ==
    ASSUME TypeOK, StoredInv, [Next]_workflowVars, NEW d \in Docs, Stored(d)
    PROVE  Stored(d)'
<1>1. ASSUME NEW r \in Reqs, Step(r)
      PROVE  Stored(d)'
  <2>1. CASE CreateContent(r)
    BY <2>1 DEF CreateContent, TypeOK, StoredInv, RequestStored, Stored, At, ContentType
  <2>2. CASE WriteContent(r)
    BY <2>2 DEF WriteContent, TypeOK, StoredInv, RequestStored, Stored, At, ContentType
  <2>3. CASE DeleteContent(r)
    BY <2>3 DEF DeleteContent, TypeOK, Stored, ContentType
  <2>4. QED
    BY <1>1, <2>1, <2>2, <2>3 DEF Step, CreateRow, SaveEdit, Retire, Unpublish,
       AnnounceRemoval, MarkDeleted, CheckPending, OpenReview, SavePending, SaveResult,
       FindDoc, SaveDecision, AfterApproval, Stored, stores
<1>2. ASSUME NEW r \in Reqs, Start(r)
      PROVE  Stored(d)'
  BY <1>2 DEF Start, UploadFile, ReadForUpdate, ReadForArchive, ReadForDraft, ReadForRemove,
     ReadForSubmit, ReadForApprove, ReadForReject, ReadReview, Stored, stores
<1>3. CASE \E r \in Reqs : Abort(r)
  BY <1>3 DEF Abort, Stored, stores
<1>4. CASE UNCHANGED workflowVars
  BY <1>4 DEF workflowVars, Stored
<1>5. QED
  BY <1>1, <1>2, <1>3, <1>4 DEF Next

\* A step of one request leaves the others where they are.
LEMMA OneRequestMoves ==
    ASSUME TypeOK, NEW r \in Reqs, Start(r) \/ Step(r) \/ Abort(r)
    PROVE  \A p \in Reqs \ {r} : req'[p] = req[p]
BY DEF TypeOK, Start, Step, Abort, Begin, Goto, Return,
   UploadFile, ReadForUpdate, ReadForArchive, ReadForDraft, ReadForRemove, ReadForSubmit,
   ReadForApprove, ReadForReject, ReadReview,
   CreateContent, CreateRow, WriteContent, SaveEdit, Retire, Unpublish, AnnounceRemoval,
   MarkDeleted, DeleteContent, CheckPending, OpenReview, SavePending, SaveResult, FindDoc,
   SaveDecision, AfterApproval

\* The request that moves still knows its document is stored.
LEMMA StoredMover ==
    ASSUME TypeOK, StoredInv, NoContent \notin Contents, NEW r \in Reqs,
           Start(r) \/ Step(r) \/ Abort(r),
           \A d \in Docs : Stored(d) => Stored(d)'
    PROVE  RequestStored(r)'
<1> USE DEF RequestStored, Idle
<1>0. RequestStored(r) /\ req \in [Reqs -> ReqType] /\ (req[r].pc # "idle" => req[r].doc \in Docs)
  BY DEF StoredInv, TypeOK
<1>1. CASE req'[r] = Idle
  BY <1>1
<1>2. ASSUME NEW d \in Docs, UploadFile(r, d)
      PROVE  RequestStored(r)'
  <2>1. PICK c \in Contents :
            req' = [req EXCEPT ![r] = [Idle EXCEPT !.pc = "createContent", !.doc = d, !.text = c]]
    BY <1>2 DEF UploadFile, Begin
  <2>2. d \in objects'
    BY <1>2 DEF UploadFile
  <2>3. QED
    BY <1>0, <2>1, <2>2
<1>3. ASSUME NEW d \in Docs, ReadForUpdate(r, d)
      PROVE  RequestStored(r)'
  <2>1. PICK c \in Contents \cup {NoContent} :
            req' = [req EXCEPT ![r] =
                      [Idle EXCEPT
                        !.pc = IF c = NoContent THEN "saveEdit" ELSE "writeContent",
                        !.doc = d, !.text = c,
                        !.before = row[d].status, !.status = "Draft"]]
    BY <1>3 DEF ReadForUpdate, Begin
  <2>2. Stored(d)'
    BY <1>3 DEF ReadForUpdate, Live, StoredInv
  <2>3. QED
    BY <1>0, <2>1, <2>2
<1>4. ASSUME NEW d \in Docs,
             ReadForArchive(r, d) \/ ReadForDraft(r, d) \/ ReadForRemove(r, d) \/ ReadForSubmit(r, d)
      PROVE  RequestStored(r)'
  <2>1. Stored(d)'
    BY <1>4 DEF ReadForArchive, ReadForDraft, ReadForRemove, ReadForSubmit, Live, StoredInv
  <2>2. /\ req'[r].doc = d
        /\ req'[r].pc \notin {"createContent", "writeContent"}
    <3>1. CASE ReadForArchive(r, d)
      BY <1>0, <3>1 DEF ReadForArchive, Begin
    <3>2. CASE ReadForDraft(r, d)
      BY <1>0, <3>2 DEF ReadForDraft, Begin
    <3>3. CASE ReadForRemove(r, d)
      BY <1>0, <3>3 DEF ReadForRemove, Begin
    <3>4. CASE ReadForSubmit(r, d)
      BY <1>0, <3>4 DEF ReadForSubmit, Begin
    <3>5. QED
      BY <1>4, <3>1, <3>2, <3>3, <3>4
  <2>3. QED
    BY <2>1, <2>2
<1>5. ASSUME NEW v \in Reviews, NEW result \in {"Approved", "Rejected"}, ReadReview(r, v, result)
      PROVE  RequestStored(r)'
  <2>1. PICK d \in Docs : d = review[v].doc /\ Stored(d)
    BY <1>5 DEF ReadReview, StoredInv, TypeOK, ReviewType
  <2>2. /\ req'[r].doc = d
        /\ req'[r].pc = "saveResult"
    BY <1>0, <1>5, <2>1 DEF ReadReview, Begin
  <2>3. QED
    BY <2>1, <2>2
<1>6. CASE CreateContent(r)
  <2>1. PICK d \in Docs : d = req[r].doc /\ d \in objects
    BY <1>0, <1>6 DEF CreateContent, At
  <2>2. /\ req'[r].doc = d
        /\ req'[r].pc = "createRow"
    BY <1>0, <1>6, <2>1 DEF CreateContent, Goto, ReqType
  <2>3. Stored(d)'
    BY <1>0, <1>6, <2>1 DEF CreateContent, At, Stored, TypeOK, ContentType
  <2>4. QED
    BY <2>2, <2>3
<1>7. CASE Step(r) /\ ~CreateContent(r) /\ req'[r] # Idle
  <2>1. /\ \E pc \in PC \ {"createContent", "writeContent"} : Goto(r, pc)
        /\ req[r].pc \notin {"idle", "createContent"}
    BY <1>0, <1>7 DEF Step, CreateRow, WriteContent, SaveEdit, Retire, Unpublish,
       AnnounceRemoval, MarkDeleted, DeleteContent, CheckPending, OpenReview, SavePending,
       SaveResult, FindDoc, SaveDecision, AfterApproval, Return, At, PC
  <2>2. PICK d \in Docs : d = req[r].doc /\ Stored(d)
    BY <1>0, <2>1
  <2>3. req'[r].doc = d /\ req'[r].pc \notin {"createContent", "writeContent"}
    BY <1>0, <2>1, <2>2 DEF Goto, ReqType
  <2>4. QED
    BY <2>2, <2>3
<1>8. CASE Abort(r)
  BY <1>0, <1>1, <1>8 DEF Abort, Return
<1>9. QED
  BY <1>1, <1>2, <1>3, <1>4, <1>5, <1>6, <1>7, <1>8 DEF Start, ReadForApprove, ReadForReject

LEMMA StoredNext == TypeOK /\ StoredInv /\ [Next]_workflowVars => StoredInv'
<1> SUFFICES ASSUME TypeOK, StoredInv, [Next]_workflowVars
             PROVE  StoredInv'
  OBVIOUS
<1>1. \A d \in Docs : Stored(d) => Stored(d)'
  BY StoredForever
<1>2. CASE UNCHANGED workflowVars
  BY <1>2 DEF workflowVars, StoredInv, RequestStored, Stored
<1>3. ASSUME NEW r \in Reqs, Start(r) \/ Step(r) \/ Abort(r)
      PROVE  StoredInv'
  <2>0. RequestStored(r) /\ (req[r].pc # "idle" => req[r].doc \in Docs)
    BY DEF StoredInv, TypeOK
  <2>1. \A d \in Docs : row'[d].status # "Absent" => Stored(d)'
    <3>1. \A d \in Docs :
            \/ row'[d] = row[d]
            \/ d = req[r].doc /\ req[r].pc \notin {"idle", "createContent"}
      BY <1>3 DEF TypeOK, Start, Step, Abort, SaveRow, At, stores,
         UploadFile, ReadForUpdate, ReadForArchive, ReadForDraft, ReadForRemove,
         ReadForSubmit, ReadForApprove, ReadForReject, ReadReview,
         CreateContent, CreateRow, WriteContent, SaveEdit, Retire, Unpublish,
         AnnounceRemoval, MarkDeleted, DeleteContent, CheckPending, OpenReview,
         SavePending, SaveResult, FindDoc, SaveDecision, AfterApproval
    <3>2. QED
      BY <1>1, <2>0, <3>1 DEF StoredInv, RequestStored
  <2>2. \A v \in Reviews : review'[v].doc # NoDoc => (Stored(review[v].doc))'
    <3>1. \A v \in Reviews :
            \/ review'[v].doc = review[v].doc
            \/ review'[v].doc = req[r].doc /\ req[r].pc = "openReview"
      <4>1. CASE OpenReview(r)
        BY <4>1 DEF OpenReview, FreeReviews, TypeOK, ReviewType, At
      <4>2. CASE SaveResult(r)
        BY <4>2 DEF SaveResult, TypeOK, ReviewType
      <4>3. CASE UNCHANGED review
        BY <4>3
      <4>4. QED
        BY <1>3, <4>1, <4>2, <4>3 DEF Start, Step, Abort, stores,
           UploadFile, ReadForUpdate, ReadForArchive, ReadForDraft, ReadForRemove,
           ReadForSubmit, ReadForApprove, ReadForReject, ReadReview,
           CreateContent, CreateRow, WriteContent, SaveEdit, Retire, Unpublish,
           AnnounceRemoval, MarkDeleted, DeleteContent, CheckPending, SavePending,
           FindDoc, SaveDecision, AfterApproval
    <3>2. QED
      BY <1>1, <2>0, <3>1 DEF StoredInv, RequestStored, TypeOK, ReviewType
  <2>3. \A p \in Reqs : RequestStored(p)'
    <3>1. RequestStored(r)'
      BY <1>1, <1>3, StoredMover, WorkflowAssumption
    <3>2. objects \subseteq objects'
      BY <1>3 DEF Start, Step, Abort, stores,
         UploadFile, ReadForUpdate, ReadForArchive, ReadForDraft, ReadForRemove,
         ReadForSubmit, ReadForApprove, ReadForReject, ReadReview,
         CreateContent, CreateRow, WriteContent, SaveEdit, Retire, Unpublish,
         AnnounceRemoval, MarkDeleted, DeleteContent, CheckPending, OpenReview,
         SavePending, SaveResult, FindDoc, SaveDecision, AfterApproval
    <3>3. ASSUME NEW p \in Reqs \ {r}
          PROVE  RequestStored(p)'
      <4>1. req'[p] = req[p] /\ RequestStored(p) /\ (req[p].pc # "idle" => req[p].doc \in Docs)
        BY <1>3, OneRequestMoves DEF StoredInv, TypeOK
      <4>2. QED
        BY <1>1, <3>2, <4>1 DEF RequestStored
    <3>4. QED
      BY <3>1, <3>3
  <2>4. QED
    BY <2>1, <2>2, <2>3 DEF StoredInv
<1>4. QED
  BY <1>2, <1>3 DEF Next

\* A published row, a deleted one, and every row that exists is stored.
THEOREM RowsHaveContent == Spec => []RowHasContent
<1>1. StoredInv => RowHasContent
  BY DEF StoredInv, RowHasContent, Stored
<1>2. QED
  BY <1>1, TypeCorrect, StoredInit, StoredNext, PTL DEF Spec

-----------------------------------------------------------------------------
LEMMA ReviewedInit == Init => ReviewedInv
BY DEF Init, ReviewedInv, RequestReviewed, IndexTaskWasReviewed, Idle

\* A decision is never taken back, even when it is overwritten by another.
LEMMA DecidedForever ==
    ASSUME TypeOK, ReviewedInv, [Next]_workflowVars, NEW d \in Docs, Decided(d)
    PROVE  Decided(d)'
<1>1. PICK v \in Reviews : review[v].doc = d /\ review[v].result # "Pending"
  BY DEF Decided
<1>2. review'[v].doc = d /\ review'[v].result # "Pending"
  <2>1. CASE \E r \in Reqs : SaveResult(r)
    BY <1>1, <2>1 DEF SaveResult, At, TypeOK, ReviewType, ReviewedInv, RequestReviewed
  <2>2. CASE \E r \in Reqs : OpenReview(r)
    BY <1>1, <2>2, WorkflowAssumption DEF OpenReview, FreeReviews, TypeOK, ReviewType
  <2>3. CASE UNCHANGED review
    BY <1>1, <2>3
  <2>4. QED
    BY <2>1, <2>2, <2>3 DEF Next, Start, Step, Abort, stores, workflowVars,
       UploadFile, ReadForUpdate, ReadForArchive, ReadForDraft, ReadForRemove,
       ReadForSubmit, ReadForApprove, ReadForReject, ReadReview,
       CreateContent, CreateRow, WriteContent, SaveEdit, Retire, Unpublish,
       AnnounceRemoval, MarkDeleted, DeleteContent, CheckPending, SavePending,
       FindDoc, SaveDecision, AfterApproval
<1>3. QED
  BY <1>2 DEF Decided

\* A review keeps its document as long as its decision is being saved.
LEMMA ReviewKeepsDoc ==
    ASSUME TypeOK, [Next]_workflowVars, NEW v \in Reviews, review[v].doc \in Docs
    PROVE  review'[v].doc = review[v].doc
<1>1. CASE \E r \in Reqs : SaveResult(r)
  BY <1>1 DEF SaveResult, TypeOK, ReviewType
<1>2. CASE \E r \in Reqs : OpenReview(r)
  BY <1>2, WorkflowAssumption DEF OpenReview, FreeReviews, TypeOK, ReviewType
<1>3. CASE UNCHANGED review
  BY <1>3
<1>4. QED
  BY <1>1, <1>2, <1>3 DEF Next, Start, Step, Abort, stores, workflowVars,
     UploadFile, ReadForUpdate, ReadForArchive, ReadForDraft, ReadForRemove,
     ReadForSubmit, ReadForApprove, ReadForReject, ReadReview,
     CreateContent, CreateRow, WriteContent, SaveEdit, Retire, Unpublish,
     AnnounceRemoval, MarkDeleted, DeleteContent, CheckPending, SavePending,
     FindDoc, SaveDecision, AfterApproval

\* What the moving request knows about the review of its document.
LEMMA ReviewedMover ==
    ASSUME TypeOK, ReviewedInv, NEW r \in Reqs, Start(r) \/ Step(r) \/ Abort(r),
           \A d \in Docs : Decided(d) => Decided(d)'
    PROVE  RequestReviewed(r)'
<1> USE DEF RequestReviewed, Idle
<1>0. RequestReviewed(r) /\ req \in [Reqs -> ReqType] /\ (req[r].pc # "idle" => req[r].doc \in Docs)
  BY DEF ReviewedInv, TypeOK
<1>1. CASE req'[r] = Idle
  BY <1>1
<1>2. ASSUME NEW d \in Docs,
             \/ UploadFile(r, d) \/ ReadForUpdate(r, d) \/ ReadForArchive(r, d)
             \/ ReadForDraft(r, d) \/ ReadForRemove(r, d) \/ ReadForSubmit(r, d)
      PROVE  RequestReviewed(r)'
  <2>1. /\ req'[r].doc = d
        /\ req'[r].pc \notin {"saveResult", "findDoc", "saveDecision", "publish"}
        /\ req'[r].status = "Published" => row[d].status = "Published"
    <3>1. CASE UploadFile(r, d)
      BY <1>0, <3>1 DEF UploadFile, Begin
    <3>2. CASE ReadForUpdate(r, d)
      BY <1>0, <3>2 DEF ReadForUpdate, Begin
    <3>3. CASE ReadForArchive(r, d)
      BY <1>0, <3>3 DEF ReadForArchive, Begin
    <3>4. CASE ReadForDraft(r, d)
      BY <1>0, <3>4 DEF ReadForDraft, Begin
    <3>5. CASE ReadForRemove(r, d)
      BY <1>0, <3>5 DEF ReadForRemove, Begin
    <3>6. CASE ReadForSubmit(r, d)
      BY <1>0, <3>6 DEF ReadForSubmit, Begin
    <3>7. QED
      BY <1>2, <3>1, <3>2, <3>3, <3>4, <3>5, <3>6
  <2>2. QED
    BY <2>1 DEF ReviewedInv
<1>3. ASSUME NEW v \in Reviews, NEW result \in {"Approved", "Rejected"}, ReadReview(r, v, result)
      PROVE  RequestReviewed(r)'
  BY <1>0, <1>3 DEF ReadReview, Begin, stores
<1>4. CASE SaveResult(r)
  <2>1. PICK d \in Docs : d = req[r].doc /\ review[req[r].review].doc = d
    BY <1>0, <1>4 DEF SaveResult, At
  <2>2. Decided(d)'
    BY <1>0, <1>4, <2>1 DEF SaveResult, At, Decided, TypeOK, ReviewType
  <2>3. /\ req'[r].doc = d
        /\ req'[r].pc = "findDoc"
    BY <1>0, <1>4, <2>1 DEF SaveResult, Goto, ReqType
  <2>4. QED
    BY <2>2, <2>3
<1>5. CASE Step(r) /\ ~SaveResult(r) /\ req'[r] # Idle
  <2>1. PICK pc \in PC :
            /\ Goto(r, pc)
            /\ pc \in {"saveDecision", "publish"} => req[r].pc \in {"findDoc", "saveDecision"}
            /\ pc \notin {"saveResult", "findDoc"}
            /\ req[r].pc # "idle"
    BY <1>0, <1>5 DEF Step, CreateContent, CreateRow, WriteContent, SaveEdit, Retire, Unpublish,
       AnnounceRemoval, MarkDeleted, DeleteContent, CheckPending, OpenReview, SavePending,
       FindDoc, SaveDecision, AfterApproval, Return, At, PC
  <2>2. PICK d \in Docs : d = req[r].doc
    BY <1>0, <2>1
  <2>3. req'[r].doc = d /\ req'[r].pc = pc /\ req'[r].status = req[r].status
    BY <1>0, <2>1, <2>2 DEF Goto, ReqType
  <2>4. QED
    BY <1>0, <2>1, <2>2, <2>3
<1>6. CASE Abort(r)
  BY <1>0, <1>1, <1>6 DEF Abort, Return
<1>7. QED
  BY <1>1, <1>2, <1>3, <1>4, <1>5, <1>6 DEF Start, ReadForApprove, ReadForReject

\* A row becomes published only by the save of an approval, or when a stale
\* entity that was read as published is saved.
LEMMA PublishedRows ==
    ASSUME TypeOK, ReviewedInv, NEW r \in Reqs, Start(r) \/ Step(r) \/ Abort(r), NEW d \in Docs,
           row'[d].status = "Published"
    PROVE  Decided(d)
<1>0. RequestReviewed(r) /\ (req[r].pc # "idle" => req[r].doc \in Docs)
  BY DEF ReviewedInv, TypeOK
<1>1. CASE row'[d] = row[d]
  BY <1>1 DEF ReviewedInv
<1>2. CASE SaveDecision(r) /\ row'[d] # row[d]
  BY <1>0, <1>2 DEF SaveDecision, SaveRow, At, TypeOK, RequestReviewed
<1>3. CASE SaveRow(req[r].doc, req[r].status, FALSE) /\ req[r].pc # "idle" /\ row'[d] # row[d]
  BY <1>0, <1>3 DEF SaveRow, TypeOK, RequestReviewed
<1>4. CASE SaveRow(req[r].doc, req[r].status, TRUE) /\ req[r].pc # "idle" /\ row'[d] # row[d]
  BY <1>0, <1>4 DEF SaveRow, TypeOK, RequestReviewed
<1>5. CASE CreateRow(r) /\ row'[d] # row[d]
  BY <1>5 DEF CreateRow, SaveRow, TypeOK
<1>6. QED
  BY <1>1, <1>2, <1>3, <1>4, <1>5 DEF Start, Step, Abort, stores, At,
     UploadFile, ReadForUpdate, ReadForArchive, ReadForDraft, ReadForRemove,
     ReadForSubmit, ReadForApprove, ReadForReject, ReadReview,
     CreateContent, WriteContent, SaveEdit, Retire, Unpublish,
     AnnounceRemoval, MarkDeleted, DeleteContent, CheckPending, OpenReview,
     SavePending, SaveResult, FindDoc, AfterApproval

\* A task that was already queued is still for a document with a decision.
LEMMA OldTask ==
    ASSUME TypeOK, IndexTaskWasReviewed, \A d \in Docs : Decided(d) => Decided(d)',
           NEW q \in Queues, NEW i \in 1..Len(queue[q]),
           queue'[q][i] = queue[q][i], queue[q][i].type = "INDEX"
    PROVE  (Decided(queue[q][i].doc))'
<1>1. queue[q] \in Seq(TaskType)
  BY DEF TypeOK
<1>2. queue[q][i] \in TaskType
  BY <1>1
<1>3. PICK e \in Docs : e = queue[q][i].doc
  BY <1>2 DEF TaskType
<1>4. Decided(e)
  BY <1>3 DEF IndexTaskWasReviewed
<1>5. Decided(e)'
  BY <1>4
<1>6. QED
  BY <1>3, <1>5 DEF Decided

\* The queues only grow, and an index task joins them only after a decision.
LEMMA TasksReviewed ==
    ASSUME TypeOK, ReviewedInv, NEW r \in Reqs, Start(r) \/ Step(r) \/ Abort(r),
           \A d \in Docs : Decided(d) => Decided(d)'
    PROVE  IndexTaskWasReviewed'
<1>0. /\ RequestReviewed(r)
      /\ req[r].pc # "idle" => req[r].doc \in Docs
      /\ \A q \in Queues : queue[q] \in Seq(TaskType)
      /\ IndexTaskWasReviewed
  BY DEF ReviewedInv, TypeOK
<1>1. ASSUME NEW type \in {"INDEX", "DELETE"}, NEW d \in Docs, Publish(type, d),
             type = "INDEX" => Decided(d)
      PROVE  IndexTaskWasReviewed'
  <2>1. ASSUME NEW q \in Queues, NEW i \in 1..Len(queue'[q]), queue'[q][i].type = "INDEX"
        PROVE  (Decided(queue[q][i].doc))'
    <3> DEFINE task == [type |-> type, doc |-> d]
    <3>1. queue'[q] = queue[q] \/ queue'[q] = Append(queue[q], task)
      BY <1>1, PublishAppends
    <3>2. CASE i \in 1..Len(queue[q]) /\ queue'[q][i] = queue[q][i]
      BY <1>0, <2>1, <3>2, OldTask
    <3>3. CASE queue'[q] = Append(queue[q], task) /\ i = Len(queue[q]) + 1
      <4>1. queue'[q][i] = task
        BY <1>0, <3>3
      <4>2. type = "INDEX" /\ queue'[q][i].doc = d
        BY <2>1, <4>1
      <4>3. Decided(d)'
        BY <1>1, <4>2
      <4>4. QED
        BY <4>2, <4>3 DEF Decided
    <3>4. \/ i \in 1..Len(queue[q]) /\ queue'[q][i] = queue[q][i]
          \/ queue'[q] = Append(queue[q], task) /\ i = Len(queue[q]) + 1
      <4>1. queue[q] \in Seq(TaskType)
        BY <1>0
      <4>2. QED
        BY <2>1, <3>1, <4>1
    <3>5. QED
      BY <3>2, <3>3, <3>4
  <2>2. QED
    BY <2>1 DEF IndexTaskWasReviewed
<1>2. CASE Unpublish(r) \/ AnnounceRemoval(r)
  BY <1>0, <1>1, <1>2 DEF Unpublish, AnnounceRemoval, At
<1>3. CASE AfterApproval(r)
  BY <1>0, <1>1, <1>3 DEF AfterApproval, At, RequestReviewed
<1>4. CASE UNCHANGED queue
  <2>1. ASSUME NEW q \in Queues, NEW i \in 1..Len(queue'[q]), queue'[q][i].type = "INDEX"
        PROVE  (Decided(queue[q][i].doc))'
    BY <1>0, <1>4, <2>1, OldTask
  <2>2. QED
    BY <2>1 DEF IndexTaskWasReviewed
<1>5. QED
  BY <1>2, <1>3, <1>4 DEF Start, Step, Abort, stores,
     UploadFile, ReadForUpdate, ReadForArchive, ReadForDraft, ReadForRemove,
     ReadForSubmit, ReadForApprove, ReadForReject, ReadReview,
     CreateContent, CreateRow, WriteContent, SaveEdit, Retire, MarkDeleted, DeleteContent,
     CheckPending, OpenReview, SavePending, SaveResult, FindDoc, SaveDecision

LEMMA ReviewedNext == TypeOK /\ ReviewedInv /\ [Next]_workflowVars => ReviewedInv'
<1> SUFFICES ASSUME TypeOK, ReviewedInv, [Next]_workflowVars
             PROVE  ReviewedInv'
  OBVIOUS
<1>1. \A d \in Docs : Decided(d) => Decided(d)'
  BY DecidedForever
<1>2. CASE UNCHANGED workflowVars
  BY <1>2 DEF workflowVars, ReviewedInv, RequestReviewed, Decided, IndexTaskWasReviewed
<1>3. ASSUME NEW r \in Reqs, Start(r) \/ Step(r) \/ Abort(r)
      PROVE  ReviewedInv'
  <2>1. \A d \in Docs : row'[d].status = "Published" => Decided(d)'
    BY <1>1, <1>3, PublishedRows
  <2>2. RequestReviewed(r)'
    BY <1>1, <1>3, ReviewedMover
  <2>3. ASSUME NEW p \in Reqs \ {r}
        PROVE  RequestReviewed(p)'
    <3>1. req'[p] = req[p] /\ RequestReviewed(p) /\ (req[p].pc # "idle" => req[p].doc \in Docs)
      BY <1>3, OneRequestMoves DEF ReviewedInv, TypeOK
    <3>2. req[p].pc = "saveResult" => review'[req[p].review].doc = req[p].doc
      BY <3>1, ReviewKeepsDoc DEF RequestReviewed
    <3>3. QED
      BY <1>1, <3>1, <3>2 DEF RequestReviewed
  <2>4. IndexTaskWasReviewed'
    BY <1>1, <1>3, TasksReviewed
  <2>5. QED
    BY <2>1, <2>2, <2>3, <2>4 DEF ReviewedInv
<1>4. QED
  BY <1>2, <1>3 DEF Next

LEMMA ReviewedAlways == Spec => []ReviewedInv
BY TypeCorrect, ReviewedInit, ReviewedNext, PTL DEF Spec

\* No interleaving publishes a document around its reviewers.
THEOREM PublishingNeedsDecision == Spec => []PublishedWasReviewed
<1>1. ReviewedInv => PublishedWasReviewed
  BY DEF ReviewedInv, PublishedWasReviewed
<1>2. QED
  BY <1>1, ReviewedAlways, PTL

\* No interleaving asks an index for a document no reviewer has decided on.
THEOREM IndexingNeedsDecision == Spec => []IndexTaskWasReviewed
<1>1. ReviewedInv => IndexTaskWasReviewed
  BY DEF ReviewedInv
<1>2. QED
  BY <1>1, ReviewedAlways, PTL

-----------------------------------------------------------------------------
(***************************************************************************)
(* Requests that wait for each other.  Where clients keep the requests on  *)
(* a document apart and none is cut short, the documents nobody works on   *)
(* are settled, and a request in flight knows exactly what its earlier     *)
(* steps left behind: Underway is the assertion at each of its awaits.     *)
(***************************************************************************)

\* A document nobody has created yet has no reviews.
Unborn(d) == row[d].status = "Absent" /\ \A v \in Reviews : review[v].doc # d

\* The body of d is one that an approved review was opened for.
Approved(d) == \E v \in Reviews : /\ review[v].doc = d /\ review[v].result = "Approved"
                                  /\ submitted[v] = content[d].text

\* One review of d is open, and it was opened for the body d has.
InReview(d) == \E v \in Reviews : OpenReviews(d) = {v} /\ submitted[v] = content[d].text

\* What holds of a document nobody is working on.
Settled(d) ==
    /\ row[d].deleted = content[d].deleted
    /\ Live(d) => IF row[d].status = "PendingReview" THEN InReview(d) ELSE OpenReviews(d) = {}
    /\ Live(d) /\ row[d].status = "Published" => Approved(d)

\* A live document that no reviewer looks at.
Free(d) == Live(d) /\ ~content[d].deleted /\ OpenReviews(d) = {}

\* What a request knows of its document at each of its awaits.
Underway(q) ==
    LET d == q.doc IN
    /\ q.pc \in {"createContent", "createRow"} => Unborn(d)
    /\ q.pc = "createRow" => ~content[d].deleted
    /\ q.pc \in {"writeContent", "saveEdit"} =>
          Free(d) /\ canEditContent(row[d].status) /\ q.status = "Draft"
    /\ q.pc = "retire" =>
          Free(d) /\ row[d].status = "Published" /\ q.status \in {"Archived", "Draft"}
    /\ q.pc \in {"unpublish", "publish", "checkPending", "openReview", "dropTask",
                 "markDeleted", "saveResult"} => Settled(d)
    /\ q.pc = "unpublish" => ~(Live(d) /\ row[d].status = "Published")
    /\ q.pc = "publish" => Live(d) /\ row[d].status = "Published"
    /\ q.pc \in {"dropTask", "markDeleted"} => Live(d) /\ q.status = row[d].status
    /\ q.pc = "deleteContent" => row[d].status # "Absent" /\ row[d].deleted
    /\ q.pc \in {"checkPending", "openReview", "savePending"} =>
          Live(d) /\ row[d].status \in {"Draft", "Published"} /\ q.status = "PendingReview"
    /\ q.pc = "savePending" => ~content[d].deleted /\ InReview(d)
    /\ q.pc = "saveResult" => q.review \in OpenReviews(d)
    /\ q.pc \in {"saveResult", "findDoc", "saveDecision"} =>
          q.result \in {"Approved", "Rejected"}
    /\ q.pc \in {"findDoc", "saveDecision"} =>
          /\ row[d].deleted = content[d].deleted
          /\ Live(d) => /\ row[d].status = "PendingReview" /\ OpenReviews(d) = {}
                        /\ q.result = "Approved" => Approved(d)
    /\ q.pc = "saveDecision" => Live(d)

\* Requests in flight work on documents of their own.
OneAtATime ==
    /\ \A r \in Reqs : req[r].pc = "idle" => req[r].doc = NoDoc
    /\ \A r, p \in Reqs : req[r].pc # "idle" /\ req[p].doc = req[r].doc => p = r

IsolatedInv ==
    /\ OneAtATime
    /\ \A d \in Docs : row[d].status = "Absent" => ~row[d].deleted
    /\ \A d \in Docs : Quiet(d) => Settled(d)
    /\ \A r \in Reqs : req[r].pc # "idle" => Underway(req[r])

\* A step that is none of e's business.
Elsewhere(e) ==
    /\ row'[e] = row[e]
    /\ content'[e] = content[e]
    /\ \A v \in Reviews : review[v].doc = e \/ review'[v].doc = e =>
            review'[v] = review[v] /\ submitted'[v] = submitted[v]

-----------------------------------------------------------------------------
\* Before any request, documents are settled.
LEMMA IsolatedInit == Init => IsolatedInv
<1> SUFFICES ASSUME Init
             PROVE  IsolatedInv
  OBVIOUS
<1>1. OneAtATime
  BY DEF Init, OneAtATime, Idle
<1>2. \A d \in Docs : row[d].status = "Absent" => ~row[d].deleted
  BY DEF Init
<1>3. \A d \in Docs : Settled(d)
  BY DEF Init, Settled, Live
<1>4. \A r \in Reqs : req[r].pc = "idle"
  BY DEF Init, Idle
<1> QED
  BY <1>1, <1>2, <1>3, <1>4 DEF IsolatedInv

\* What nobody touches stays as it is ...
LEMMA ElsewhereKeeps ==
    ASSUME NEW e, Elsewhere(e)
    PROVE  /\ Live(e)' <=> Live(e)
           /\ OpenReviews(e)' = OpenReviews(e)
           /\ Unborn(e) => Unborn(e)'
           /\ Approved(e) => Approved(e)'
           /\ InReview(e) => InReview(e)'
<1>1. OpenReviews(e)' = OpenReviews(e)
  BY DEF Elsewhere, OpenReviews
<1>2. Live(e)' <=> Live(e)
  BY DEF Elsewhere, Live
<1>3. Unborn(e) => Unborn(e)'
  BY DEF Elsewhere, Unborn
<1>4. Approved(e) => Approved(e)'
  BY DEF Elsewhere, Approved
<1>5. InReview(e) => InReview(e)'
  <2>1. ASSUME NEW v \in Reviews, OpenReviews(e) = {v}, submitted[v] = content[e].text
        PROVE  InReview(e)'
    <3>1. review[v].doc = e
      BY <2>1 DEF OpenReviews
    <3>2. submitted'[v] = content'[e].text
      BY <2>1, <3>1 DEF Elsewhere
    <3>3. OpenReviews(e)' = {v}
      BY <1>1, <2>1
    <3> QED
      BY <3>2, <3>3 DEF InReview
  <2> QED
    BY <2>1 DEF InReview
<1> QED
  BY <1>1, <1>2, <1>3, <1>4, <1>5

\* ... so it stays settled ...
LEMMA ElsewhereSettled ==
    ASSUME NEW e, Elsewhere(e), Settled(e)
    PROVE  Settled(e)'
<1>1. row'[e] = row[e] /\ content'[e] = content[e]
  BY DEF Elsewhere
<1> QED
  BY <1>1, ElsewhereKeeps DEF Settled

\* ... and whoever works on it still knows what it knew.
LEMMA ElsewhereUnderway ==
    ASSUME NEW q, Elsewhere(q.doc), Underway(q)
    PROVE  Underway(q)'
<1>1. PICK e : e = q.doc
  OBVIOUS
<1>2. /\ row'[e] = row[e] /\ content'[e] = content[e]
      /\ Live(e)' <=> Live(e)
      /\ OpenReviews(e)' = OpenReviews(e)
      /\ Unborn(e) => Unborn(e)'
      /\ Approved(e) => Approved(e)'
      /\ InReview(e) => InReview(e)'
      /\ Settled(e) => Settled(e)'
  BY <1>1, ElsewhereKeeps, ElsewhereSettled DEF Elsewhere
<1>3. Free(e) => Free(e)'
  BY <1>2 DEF Free
<1> QED
  BY <1>1, <1>2, <1>3 DEF Underway, canEditContent

\* A step of one request on one document keeps the invariant, when it leaves
\* the document settled or itself knowing what it left.
LEMMA OneStep ==
    ASSUME TypeOK, IsolatedInv, NEW r \in Reqs, NEW d \in Docs, NEW n,
           req'[r] = n, \A p \in Reqs \ {r} : req'[p] = req[p],
           \A e \in Docs \ {d} : Elsewhere(e),
           (req[r].pc # "idle" /\ req[r].doc = d) \/ (req[r].pc = "idle" /\ Quiet(d)),
           row'[d].status = "Absent" => ~row'[d].deleted,
           (n = Idle /\ Settled(d)') \/ (n.pc # "idle" /\ n.doc = d /\ Underway(n)')
    PROVE  IsolatedInv'
<1>0. /\ Idle.pc = "idle" /\ Idle.doc = NoDoc
      /\ NoDoc \notin Docs
      /\ \A p \in Reqs : req[p].pc # "idle" => req[p].doc \in Docs
      /\ \A p \in Reqs : req[p].pc = "idle" => req[p].doc = NoDoc
  BY WorkflowAssumption DEF Idle, TypeOK, IsolatedInv, OneAtATime
<1>1. \A p \in Reqs \ {r} : req[p].doc # d
  BY <1>0 DEF IsolatedInv, OneAtATime, Quiet
<1>2. OneAtATime'
  <2>1. \A p \in Reqs : req'[p].pc = "idle" => req'[p].doc = NoDoc
    BY <1>0
  <2>2. ASSUME NEW p \in Reqs, NEW s \in Reqs, req'[p].pc # "idle", req'[s].doc = req'[p].doc
        PROVE  s = p
    <3>1. CASE p = r
      BY <1>0, <1>1, <2>2, <3>1
    <3>2. CASE p # r /\ s = r
      BY <1>0, <1>1, <2>2, <3>2
    <3>3. CASE p # r /\ s # r
      BY <2>2, <3>3 DEF IsolatedInv, OneAtATime
    <3> QED
      BY <3>1, <3>2, <3>3
  <2> QED
    BY <2>1, <2>2 DEF OneAtATime
<1>3. \A e \in Docs : row'[e].status = "Absent" => ~row'[e].deleted
  BY DEF Elsewhere, IsolatedInv
<1>4. ASSUME NEW e \in Docs, Quiet(e)'
      PROVE  Settled(e)'
  <2>1. CASE e = d
    BY <1>4, <2>1 DEF Quiet
  <2>2. CASE e # d
    <3>1. Quiet(e)
      BY <1>0, <1>4, <2>2 DEF Quiet
    <3> QED
      BY <2>2, <3>1, ElsewhereSettled DEF IsolatedInv
  <2> QED
    BY <2>1, <2>2
<1>5. ASSUME NEW p \in Reqs, req'[p].pc # "idle"
      PROVE  Underway(req[p])'
  <2>1. CASE p = r
    BY <1>0, <1>5, <2>1 DEF Underway
  <2>2. CASE p # r
    <3>1. PICK q : q = req[p]
      OBVIOUS
    <3>2. q.pc # "idle" /\ q.doc \in Docs \ {d} /\ Underway(q)
      BY <1>0, <1>1, <1>5, <2>2, <3>1 DEF IsolatedInv
    <3>3. Underway(q)'
      BY <3>2, ElsewhereUnderway
    <3> QED
      BY <2>2, <3>1, <3>3 DEF Underway
  <2> QED
    BY <2>1, <2>2
<1> QED
  BY <1>2, <1>3, <1>4, <1>5 DEF IsolatedInv

\* With no fault to spend, no request is cut short and no task is lost.
LEMMA NothingFails ==
    ASSUME MaxFaults = 0, TypeOK
    PROVE  /\ ~Fault
           /\ \A r \in Reqs : ~Abort(r)
           /\ \A type, d : Publish(type, d) =>
                queue' = [q \in Queues |-> Append(queue[q], [type |-> type, doc |-> d])]
<1>1. ~Fault
  BY DEF Fault, TypeOK
<1>2. ASSUME NEW type, NEW d, Publish(type, d)
      PROVE  queue' = [q \in Queues |-> Append(queue[q], [type |-> type, doc |-> d])]
  <2>1. PICK ok \in SUBSET Queues :
          /\ queue' = [q \in Queues |->
                          IF q \in ok
                          THEN Append(queue[q], [type |-> type, doc |-> d])
                          ELSE queue[q]]
          /\ ok = Queues
    BY <1>1, <1>2 DEF Publish
  <2> QED
    BY <2>1
<1> QED
  BY <1>1, <1>2 DEF Abort

\* A request that leaves the stores alone changes nothing anywhere.
LEMMA StoresKept ==
    ASSUME UNCHANGED <<row, content, review, submitted>>, NEW d
    PROVE  Elsewhere(d)
BY DEF Elsewhere

\* A request begins on a document that is settled, and nobody joins it.
LEMMA BeginAlone ==
    ASSUME ~Overlap, TypeOK, IsolatedInv, NEW r \in Reqs, NEW n \in ReqType, Begin(r, n),
           n.doc \in Docs
    PROVE  /\ req'[r] = n
           /\ \A p \in Reqs \ {r} : req'[p] = req[p]
           /\ req[r].pc = "idle" /\ Quiet(n.doc)
           /\ Settled(n.doc)
BY DEF Begin, TypeOK, IsolatedInv

\* What a request knows once it has read its document and begun: it has not
\* written to the stores yet.
LEMMA BeginKeeps ==
    ASSUME ~Overlap, TypeOK, IsolatedInv, NEW r \in Reqs, NEW n \in ReqType, Begin(r, n),
           n.doc \in Docs, n.pc # "idle",
           UNCHANGED <<row, content, review, submitted>>,
           Settled(n.doc) => Underway(n)
    PROVE  IsolatedInv'
<1>1. PICK d \in Docs : d = n.doc
  OBVIOUS
<1>2. /\ req'[r] = n
      /\ \A p \in Reqs \ {r} : req'[p] = req[p]
      /\ req[r].pc = "idle" /\ Quiet(d)
      /\ Settled(d)
  BY <1>1, BeginAlone
<1>3. \A e : Elsewhere(e)
  BY StoresKept
<1>4. Underway(n)'
  BY <1>1, <1>2, <1>3, ElsewhereUnderway
<1>5. row'[d].status = "Absent" => ~row'[d].deleted
  BY DEF IsolatedInv
<1> QED
  BY <1>1, <1>2, <1>3, <1>4, <1>5, OneStep

LEMMA UploadKeeps ==
    ASSUME ~Overlap, TypeOK, IsolatedInv, StoredInv, NEW r \in Reqs, NEW d \in Docs,
           UploadFile(r, d)
    PROVE  IsolatedInv'
<1>1. PICK c \in Contents :
          Begin(r, [Idle EXCEPT !.pc = "createContent", !.doc = d, !.text = c])
  BY DEF UploadFile
<1>2. PICK n : n = [Idle EXCEPT !.pc = "createContent", !.doc = d, !.text = c]
  OBVIOUS
<1>3. n \in ReqType /\ n.pc = "createContent" /\ n.doc = d
  BY <1>2 DEF Idle, ReqType, PC, Result
<1>4. Unborn(d)
  <2>1. row[d].status = "Absent"
    BY DEF UploadFile, StoredInv, Stored
  <2>2. ASSUME NEW v \in Reviews, review[v].doc = d
        PROVE  FALSE
    BY <2>2, WorkflowAssumption DEF UploadFile, StoredInv, Stored
  <2> QED
    BY <2>1, <2>2 DEF Unborn
<1>5. Underway(n)
  BY <1>3, <1>4 DEF Underway
<1>6. UNCHANGED <<row, content, review, submitted>>
  BY DEF UploadFile
<1> QED
  BY <1>1, <1>2, <1>3, <1>5, <1>6, BeginKeeps

LEMMA UpdateKeeps ==
    ASSUME ~Overlap, TypeOK, IsolatedInv, NEW r \in Reqs, NEW d \in Docs, ReadForUpdate(r, d)
    PROVE  IsolatedInv'
<1>1. PICK c \in Contents \cup {NoContent} :
          Begin(r, [Idle EXCEPT !.pc = IF c = NoContent THEN "saveEdit" ELSE "writeContent",
                                !.doc = d, !.text = c,
                                !.before = row[d].status, !.status = "Draft"])
  BY DEF ReadForUpdate
<1>2. PICK n : n = [Idle EXCEPT !.pc = IF c = NoContent THEN "saveEdit" ELSE "writeContent",
                                !.doc = d, !.text = c,
                                !.before = row[d].status, !.status = "Draft"]
  OBVIOUS
<1>3. n \in ReqType /\ n.pc \in {"writeContent", "saveEdit"} /\ n.doc = d /\ n.status = "Draft"
  BY <1>2 DEF Idle, ReqType, PC, Result, TypeOK, RowType, Status
<1>4. Live(d) /\ canEditContent(row[d].status)
  BY DEF ReadForUpdate
<1>5. ASSUME Settled(d)
      PROVE  Underway(n)
  <2>1. Free(d)
    BY <1>4, <1>5 DEF Free, Settled, Live, canEditContent
  <2> QED
    BY <1>3, <1>4, <2>1 DEF Underway
<1>6. UNCHANGED <<row, content, review, submitted>>
  BY DEF ReadForUpdate, stores
<1> QED
  BY <1>1, <1>2, <1>3, <1>5, <1>6, BeginKeeps

LEMMA RetireReadKeeps ==
    ASSUME ~Overlap, TypeOK, IsolatedInv, NEW r \in Reqs, NEW d \in Docs,
           ReadForArchive(r, d) \/ ReadForDraft(r, d)
    PROVE  IsolatedInv'
<1>1. PICK s \in {"Archived", "Draft"} :
          Begin(r, [Idle EXCEPT !.pc = "retire", !.doc = d,
                                !.before = row[d].status, !.status = s])
  BY DEF ReadForArchive, ReadForDraft
<1>2. PICK n : n = [Idle EXCEPT !.pc = "retire", !.doc = d,
                                !.before = row[d].status, !.status = s]
  OBVIOUS
<1>3. n \in ReqType /\ n.pc = "retire" /\ n.doc = d /\ n.status = s
  BY <1>2 DEF Idle, ReqType, PC, Result, TypeOK, RowType, Status
<1>4. Live(d) /\ row[d].status = "Published"
  BY DEF ReadForArchive, ReadForDraft, canArchive
<1>5. ASSUME Settled(d)
      PROVE  Underway(n)
  <2>1. Free(d)
    BY <1>4, <1>5 DEF Free, Settled, Live
  <2> QED
    BY <1>3, <1>4, <2>1 DEF Underway
<1>6. UNCHANGED <<row, content, review, submitted>>
  BY DEF ReadForArchive, ReadForDraft, stores
<1> QED
  BY <1>1, <1>2, <1>3, <1>5, <1>6, BeginKeeps

LEMMA RemoveReadKeeps ==
    ASSUME ~Overlap, TypeOK, IsolatedInv, NEW r \in Reqs, NEW d \in Docs, ReadForRemove(r, d)
    PROVE  IsolatedInv'
<1>1. PICK n : n = [Idle EXCEPT
                      !.pc = IF row[d].status = "Published" THEN "dropTask" ELSE "markDeleted",
                      !.doc = d, !.before = row[d].status, !.status = row[d].status]
  OBVIOUS
<1>2. /\ n \in ReqType /\ n.pc \in {"dropTask", "markDeleted"} /\ n.doc = d
      /\ n.status = row[d].status
  BY <1>1 DEF Idle, ReqType, PC, Result, TypeOK, RowType, Status
<1>3. Live(d) /\ Begin(r, n)
  BY <1>1 DEF ReadForRemove
<1>4. Settled(d) => Underway(n)
  BY <1>2, <1>3 DEF Underway
<1>5. UNCHANGED <<row, content, review, submitted>>
  BY DEF ReadForRemove, stores
<1> QED
  BY <1>2, <1>3, <1>4, <1>5, BeginKeeps

LEMMA SubmitReadKeeps ==
    ASSUME ~Overlap, TypeOK, IsolatedInv, NEW r \in Reqs, NEW d \in Docs, ReadForSubmit(r, d)
    PROVE  IsolatedInv'
<1>1. PICK n : n = [Idle EXCEPT !.pc = "checkPending", !.doc = d,
                                !.before = row[d].status, !.status = "PendingReview"]
  OBVIOUS
<1>2. /\ n \in ReqType /\ n.pc = "checkPending" /\ n.doc = d
      /\ n.status = "PendingReview"
  BY <1>1 DEF Idle, ReqType, PC, Result, TypeOK, RowType, Status
<1>3. Live(d) /\ row[d].status \in {"Draft", "Published"} /\ Begin(r, n)
  BY <1>1 DEF ReadForSubmit
<1>4. Settled(d) => Underway(n)
  BY <1>2, <1>3 DEF Underway
<1>5. UNCHANGED <<row, content, review, submitted>>
  BY DEF ReadForSubmit, stores
<1> QED
  BY <1>2, <1>3, <1>4, <1>5, BeginKeeps

LEMMA ReviewReadKeeps ==
    ASSUME ~Overlap, TypeOK, IsolatedInv, NEW r \in Reqs, NEW v \in Reviews,
           NEW result \in {"Approved", "Rejected"}, ReadReview(r, v, result)
    PROVE  IsolatedInv'
<1>1. PICK n : n = [Idle EXCEPT !.pc = "saveResult", !.doc = review[v].doc,
                                !.review = v, !.result = result]
  OBVIOUS
<1>2. PICK d \in Docs : d = review[v].doc /\ v \in OpenReviews(d)
  BY DEF ReadReview, OpenReviews, TypeOK, ReviewType
<1>3. /\ n \in ReqType /\ n.pc = "saveResult" /\ n.doc = d
      /\ n.review = v /\ n.result = result
  BY <1>1, <1>2 DEF Idle, ReqType, PC, Result
<1>4. Begin(r, n)
  BY <1>1 DEF ReadReview
<1>5. Settled(d) => Underway(n)
  BY <1>2, <1>3 DEF Underway
<1>6. UNCHANGED <<row, content, review, submitted>>
  BY DEF ReadReview, stores
<1> QED
  BY <1>3, <1>4, <1>5, <1>6, BeginKeeps

LEMMA StartKeeps ==
    ASSUME ~Overlap, TypeOK, IsolatedInv, StoredInv, NEW r \in Reqs, Start(r)
    PROVE  IsolatedInv'
BY UploadKeeps, UpdateKeeps, RetireReadKeeps, RemoveReadKeeps, SubmitReadKeeps, ReviewReadKeeps
   DEF Start, ReadForApprove, ReadForReject

-----------------------------------------------------------------------------
\* A request in flight works on a document of its own, and knows about it.
LEMMA InFlight ==
    ASSUME TypeOK, IsolatedInv, NEW r \in Reqs, req[r].pc # "idle"
    PROVE  /\ req[r] \in ReqType /\ req[r].doc \in Docs
           /\ Underway(req[r])
           /\ row[req[r].doc] \in RowType /\ content[req[r].doc] \in ContentType
           /\ row[req[r].doc].status = "Absent" => ~row[req[r].doc].deleted
BY DEF TypeOK, IsolatedInv

\* A step that saves the row of d alone.
LEMMA RowSaved ==
    ASSUME TypeOK, NEW d \in Docs, NEW s, NEW b, SaveRow(d, s, b),
           UNCHANGED <<content, review, submitted>>
    PROVE  /\ row'[d].status = s /\ row'[d].deleted = b
           /\ content'[d] = content[d]
           /\ Live(d)' <=> s # "Absent" /\ ~b
           /\ OpenReviews(d)' = OpenReviews(d)
           /\ Approved(d) => Approved(d)'
           /\ InReview(d) => InReview(d)'
           /\ \A e \in Docs \ {d} : Elsewhere(e)
<1>1. row' = [row EXCEPT ![d] = [status |-> s, deleted |-> b]] /\ row \in [Docs -> RowType]
  BY DEF SaveRow, TypeOK
<1>2. row'[d].status = s /\ row'[d].deleted = b
  BY <1>1
<1>3. OpenReviews(d)' = OpenReviews(d)
  BY DEF OpenReviews
<1>4. Approved(d) => Approved(d)'
  BY DEF Approved
<1>5. InReview(d) => InReview(d)'
  BY <1>3 DEF InReview
<1>6. \A e \in Docs \ {d} : Elsewhere(e)
  BY <1>1 DEF Elsewhere
<1>7. Live(d)' <=> s # "Absent" /\ ~b
  BY <1>2 DEF Live
<1> QED
  BY <1>2, <1>3, <1>4, <1>5, <1>6, <1>7

\* A step of a request in flight keeps the invariant when it touches no other
\* document, and either settles its own or goes on knowing what it left.
LEMMA StepOn ==
    ASSUME TypeOK, IsolatedInv, NEW r \in Reqs, req[r].pc # "idle", NEW d \in Docs,
           d = req[r].doc, Step(r),
           \A e \in Docs \ {d} : Elsewhere(e),
           row'[d].status = "Absent" => ~row'[d].deleted,
           NEW n, \/ n = Idle /\ Return(r) /\ Settled(d)'
                  \/ \E pc \in PC \ {"idle"} :
                        n = [req[r] EXCEPT !.pc = pc] /\ Goto(r, pc) /\ Underway(n)'
    PROVE  IsolatedInv'
<1>1. req \in [Reqs -> ReqType] /\ req[r] \in ReqType
  BY DEF TypeOK
<1>2. \A p \in Reqs \ {r} : req'[p] = req[p]
  BY OneRequestMoves
<1>3. req'[r] = n
  BY <1>1 DEF Return, Goto
<1>4. \/ n = Idle /\ Settled(d)'
      \/ n.pc # "idle" /\ n.doc = d /\ Underway(n)'
  BY <1>1 DEF ReqType
<1> QED
  BY <1>2, <1>3, <1>4, OneStep

LEMMA CreateContentKeeps ==
    ASSUME TypeOK, IsolatedInv, NEW r \in Reqs, CreateContent(r)
    PROVE  IsolatedInv'
<1>0. req[r].pc = "createContent"
  BY DEF CreateContent, At
<1>1. PICK q \in ReqType : q = req[r] /\ q.pc = "createContent" /\ Underway(q) /\ q.doc \in Docs
  BY <1>0, InFlight
<1>2. PICK d \in Docs : d = q.doc
  BY <1>1
<1>3. PICK n : n = [q EXCEPT !.pc = "createRow"]
  OBVIOUS
<1>4. n.pc = "createRow" /\ n.doc = d
  BY <1>1, <1>2, <1>3 DEF ReqType
<1>5. /\ content' = [content EXCEPT ![d] = [text |-> q.text, deleted |-> FALSE]]
      /\ content \in [Docs -> ContentType]
      /\ UNCHANGED <<row, review, submitted>>
  BY <1>1, <1>2 DEF CreateContent, TypeOK
<1>6. \A e \in Docs \ {d} : Elsewhere(e)
  BY <1>5 DEF Elsewhere
<1>7. Unborn(d)'
  BY <1>1, <1>2, <1>5 DEF Underway, Unborn
<1>8. ~content'[d].deleted
  BY <1>5
<1>9. Underway(n)'
  BY <1>4, <1>7, <1>8 DEF Underway
<1>10. Goto(r, "createRow") /\ Step(r) /\ "createRow" \in PC \ {"idle"}
  BY DEF CreateContent, Step, PC
<1>11. row'[d].status = "Absent" => ~row'[d].deleted
  BY <1>5 DEF IsolatedInv
<1> QED
  BY <1>0, <1>1, <1>2, <1>3, <1>6, <1>9, <1>10, <1>11, StepOn

LEMMA CreateRowKeeps ==
    ASSUME TypeOK, IsolatedInv, NEW r \in Reqs, CreateRow(r)
    PROVE  IsolatedInv'
<1>0. req[r].pc = "createRow"
  BY DEF CreateRow, At
<1>1. PICK q \in ReqType : q = req[r] /\ q.pc = "createRow" /\ Underway(q) /\ q.doc \in Docs
  BY <1>0, InFlight
<1>2. PICK d \in Docs : d = q.doc
  BY <1>1
<1>3. /\ row'[d].status = "Draft" /\ row'[d].deleted = FALSE
      /\ content'[d] = content[d]
      /\ OpenReviews(d)' = OpenReviews(d)
      /\ \A e \in Docs \ {d} : Elsewhere(e)
  BY <1>1, <1>2, RowSaved, ZenonT(40) DEF CreateRow
<1>4. OpenReviews(d) = {} /\ content[d].deleted = FALSE
  BY <1>1, <1>2 DEF Underway, Unborn, OpenReviews, TypeOK, ContentType
<1>5. Settled(d)'
  BY <1>3, <1>4 DEF Settled
<1>6. Return(r) /\ Step(r)
  BY DEF CreateRow, Step
<1> QED
  BY <1>0, <1>1, <1>2, <1>3, <1>5, <1>6, StepOn

LEMMA WriteContentKeeps ==
    ASSUME TypeOK, IsolatedInv, NEW r \in Reqs, WriteContent(r)
    PROVE  IsolatedInv'
<1>0. req[r].pc = "writeContent"
  BY DEF WriteContent, At
<1>1. PICK q \in ReqType : q = req[r] /\ q.pc = "writeContent" /\ Underway(q) /\ q.doc \in Docs
  BY <1>0, InFlight
<1>2. PICK d \in Docs : d = q.doc
  BY <1>1
<1>3. PICK n : n = [q EXCEPT !.pc = "saveEdit"]
  OBVIOUS
<1>4. n.pc = "saveEdit" /\ n.doc = d /\ n.status = q.status
  BY <1>1, <1>2, <1>3 DEF ReqType
<1>5. Free(d) /\ canEditContent(row[d].status) /\ q.status = "Draft"
  BY <1>1, <1>2 DEF Underway
<1>6. /\ content' = [content EXCEPT ![d].text = q.text]
      /\ content \in [Docs -> ContentType]
      /\ UNCHANGED <<row, review, submitted>>
  BY <1>1, <1>2, <1>5 DEF WriteContent, TypeOK, Free
<1>7. \A e \in Docs \ {d} : Elsewhere(e)
  BY <1>6 DEF Elsewhere
<1>8. Free(d)'
  <2>1. content'[d].deleted = content[d].deleted
    BY <1>6 DEF ContentType
  <2>2. OpenReviews(d)' = OpenReviews(d)
    BY <1>6 DEF OpenReviews
  <2> QED
    BY <1>5, <1>6, <2>1, <2>2 DEF Free, Live
<1>9. Underway(n)'
  BY <1>4, <1>5, <1>6, <1>8 DEF Underway, canEditContent
<1>10. Goto(r, "saveEdit") /\ Step(r) /\ "saveEdit" \in PC \ {"idle"}
  BY DEF WriteContent, Step, PC
<1>11. row'[d].status = "Absent" => ~row'[d].deleted
  BY <1>6 DEF IsolatedInv
<1> QED
  BY <1>0, <1>1, <1>2, <1>3, <1>7, <1>9, <1>10, <1>11, StepOn

\* The save that takes a document back to Draft or retires it.
LEMMA SettledAfterSave ==
    ASSUME TypeOK, NEW d \in Docs, Free(d), NEW s \in {"Draft", "Archived"},
           SaveRow(d, s, FALSE), UNCHANGED <<content, review, submitted>>
    PROVE  /\ Settled(d)'
           /\ row'[d].status = s
           /\ \A e \in Docs \ {d} : Elsewhere(e)
<1>1. /\ row'[d].status = s /\ row'[d].deleted = FALSE
      /\ content'[d] = content[d]
      /\ OpenReviews(d)' = OpenReviews(d)
      /\ \A e \in Docs \ {d} : Elsewhere(e)
  BY RowSaved
<1>2. content[d].deleted = FALSE /\ OpenReviews(d) = {}
  BY DEF Free, TypeOK, ContentType
<1>3. Settled(d)'
  BY <1>1, <1>2 DEF Settled
<1> QED
  BY <1>1, <1>3

LEMMA SaveEditKeeps ==
    ASSUME TypeOK, IsolatedInv, NEW r \in Reqs, SaveEdit(r)
    PROVE  IsolatedInv'
<1>0. req[r].pc = "saveEdit"
  BY DEF SaveEdit, At
<1>1. PICK q \in ReqType : q = req[r] /\ q.pc = "saveEdit" /\ Underway(q) /\ q.doc \in Docs
  BY <1>0, InFlight
<1>2. PICK d \in Docs : d = q.doc
  BY <1>1
<1>3. Free(d) /\ q.status = "Draft"
  BY <1>1, <1>2 DEF Underway
<1>4. /\ Settled(d)' /\ row'[d].status = "Draft"
      /\ \A e \in Docs \ {d} : Elsewhere(e)
  BY <1>1, <1>2, <1>3, SettledAfterSave DEF SaveEdit
<1>5. PICK n : n = [q EXCEPT !.pc = "unpublish"]
  OBVIOUS
<1>6. n.pc = "unpublish" /\ n.doc = d
  BY <1>1, <1>2, <1>5 DEF ReqType
<1>7. Underway(n)'
  BY <1>4, <1>6 DEF Underway
<1>8. (Return(r) \/ Goto(r, "unpublish")) /\ Step(r) /\ "unpublish" \in PC \ {"idle"}
  BY DEF SaveEdit, Step, PC
<1>9. CASE Return(r)
  BY <1>0, <1>1, <1>2, <1>4, <1>8, <1>9, StepOn
<1>10. CASE Goto(r, "unpublish")
  BY <1>0, <1>1, <1>2, <1>4, <1>5, <1>7, <1>8, <1>10, StepOn
<1> QED
  BY <1>8, <1>9, <1>10

LEMMA RetireKeeps ==
    ASSUME TypeOK, IsolatedInv, NEW r \in Reqs, Retire(r)
    PROVE  IsolatedInv'
<1>0. req[r].pc = "retire"
  BY DEF Retire, At
<1>1. PICK q \in ReqType : q = req[r] /\ q.pc = "retire" /\ Underway(q) /\ q.doc \in Docs
  BY <1>0, InFlight
<1>2. PICK d \in Docs : d = q.doc
  BY <1>1
<1>3. Free(d) /\ q.status \in {"Archived", "Draft"}
  BY <1>1, <1>2 DEF Underway
<1>4. /\ Settled(d)' /\ row'[d].status = q.status
      /\ \A e \in Docs \ {d} : Elsewhere(e)
  BY <1>1, <1>2, <1>3, SettledAfterSave DEF Retire
<1>5. PICK n : n = [q EXCEPT !.pc = "unpublish"]
  OBVIOUS
<1>6. n.pc = "unpublish" /\ n.doc = d
  BY <1>1, <1>2, <1>5 DEF ReqType
<1>7. Underway(n)'
  BY <1>3, <1>4, <1>6 DEF Underway
<1>8. Goto(r, "unpublish") /\ Step(r) /\ "unpublish" \in PC \ {"idle"}
  BY DEF Retire, Step, PC
<1>9. row'[d].status = "Absent" => ~row'[d].deleted
  BY <1>3, <1>4
<1> QED
  BY <1>0, <1>1, <1>2, <1>4, <1>5, <1>7, <1>8, <1>9, StepOn

\* A step that only moves on, with what it knew.
LEMMA MovesOn ==
    ASSUME TypeOK, IsolatedInv, NEW r \in Reqs, req[r].pc # "idle", Step(r),
           UNCHANGED <<row, content, review, submitted>>,
           NEW pc \in PC \ {"idle"}, Goto(r, pc),
           Underway([req[r] EXCEPT !.pc = pc])
    PROVE  IsolatedInv'
<1>1. PICK n : n = [req[r] EXCEPT !.pc = pc]
  OBVIOUS
<1>2. PICK d \in Docs : d = req[r].doc
  BY InFlight
<1>3. \A e : Elsewhere(e)
  BY StoresKept
<1>4. Underway(n)'
  BY <1>1, <1>3, ElsewhereUnderway
<1>5. row'[d].status = "Absent" => ~row'[d].deleted
  BY DEF IsolatedInv
<1> QED
  BY <1>1, <1>2, <1>3, <1>4, <1>5, StepOn

\* A step that only returns from a document it knows to be settled.
LEMMA Returns ==
    ASSUME TypeOK, IsolatedInv, NEW r \in Reqs, req[r].pc # "idle", Step(r),
           UNCHANGED <<row, content, review, submitted>>,
           Return(r), Settled(req[r].doc)
    PROVE  IsolatedInv'
<1>1. PICK d \in Docs : d = req[r].doc
  BY InFlight
<1>2. \A e : Elsewhere(e)
  BY StoresKept
<1>3. Settled(d)'
  BY <1>1, <1>2, ElsewhereSettled
<1>4. row'[d].status = "Absent" => ~row'[d].deleted
  BY DEF IsolatedInv
<1> QED
  BY <1>1, <1>2, <1>3, <1>4, StepOn

\* A last step that only publishes tasks leaves its document settled.
LEMMA AnnouncedLast ==
    ASSUME TypeOK, IsolatedInv, NEW r \in Reqs, Unpublish(r) \/ AfterApproval(r)
    PROVE  IsolatedInv'
<1>0. req[r].pc \in {"unpublish", "publish"}
  BY DEF Unpublish, AfterApproval, At
<1>1. Underway(req[r])
  BY <1>0, InFlight
<1>2. Settled(req[r].doc)
  BY <1>0, <1>1 DEF Underway
<1>3. UNCHANGED <<row, content, review, submitted>> /\ Return(r) /\ Step(r)
  BY DEF Unpublish, AfterApproval, Step, stores
<1> QED
  BY <1>0, <1>2, <1>3, Returns

LEMMA AnnounceRemovalKeeps ==
    ASSUME TypeOK, IsolatedInv, NEW r \in Reqs, AnnounceRemoval(r)
    PROVE  IsolatedInv'
<1>0. req[r].pc = "dropTask"
  BY DEF AnnounceRemoval, At
<1>1. req[r] \in ReqType /\ Underway(req[r])
  BY <1>0, InFlight
<1>2. PICK n : n = [req[r] EXCEPT !.pc = "markDeleted"]
  OBVIOUS
<1>3. n.pc = "markDeleted" /\ n.doc = req[r].doc /\ n.status = req[r].status
  BY <1>1, <1>2 DEF ReqType
<1>4. Underway(n)
  BY <1>0, <1>1, <1>3 DEF Underway
<1>5. /\ UNCHANGED <<row, content, review, submitted>>
      /\ Goto(r, "markDeleted") /\ Step(r) /\ "markDeleted" \in PC \ {"idle"}
  BY DEF AnnounceRemoval, Step, stores, PC
<1> QED
  BY <1>0, <1>2, <1>4, <1>5, MovesOn

LEMMA MarkDeletedKeeps ==
    ASSUME TypeOK, IsolatedInv, NEW r \in Reqs, MarkDeleted(r)
    PROVE  IsolatedInv'
<1>0. req[r].pc = "markDeleted"
  BY DEF MarkDeleted, At
<1>1. PICK q \in ReqType : q = req[r] /\ q.pc = "markDeleted" /\ Underway(q) /\ q.doc \in Docs
  BY <1>0, InFlight
<1>2. PICK d \in Docs : d = q.doc
  BY <1>1
<1>3. q.status # "Absent"
  BY <1>1, <1>2 DEF Underway, Live
<1>4. /\ row'[d].status = q.status /\ row'[d].deleted = TRUE
      /\ \A e \in Docs \ {d} : Elsewhere(e)
  <2>1. SaveRow(d, q.status, TRUE) /\ UNCHANGED <<content, review, submitted>>
    BY <1>1, <1>2 DEF MarkDeleted
  <2> QED
    BY <2>1, RowSaved
<1>5. PICK n : n = [q EXCEPT !.pc = "deleteContent"]
  OBVIOUS
<1>6. n.pc = "deleteContent" /\ n.doc = d
  BY <1>1, <1>2, <1>5 DEF ReqType
<1>7. Underway(n)'
  BY <1>3, <1>4, <1>6 DEF Underway
<1>8. Goto(r, "deleteContent") /\ Step(r) /\ "deleteContent" \in PC \ {"idle"}
  BY DEF MarkDeleted, Step, PC
<1>9. row'[d].status = "Absent" => ~row'[d].deleted
  BY <1>3, <1>4
<1> QED
  BY <1>0, <1>1, <1>2, <1>4, <1>5, <1>7, <1>8, <1>9, StepOn

LEMMA DeleteContentKeeps ==
    ASSUME TypeOK, IsolatedInv, NEW r \in Reqs, DeleteContent(r)
    PROVE  IsolatedInv'
<1>0. req[r].pc = "deleteContent"
  BY DEF DeleteContent, At
<1>1. PICK q \in ReqType : q = req[r] /\ q.pc = "deleteContent" /\ Underway(q) /\ q.doc \in Docs
  BY <1>0, InFlight
<1>2. PICK d \in Docs : d = q.doc
  BY <1>1
<1>3. row[d].status # "Absent" /\ row[d].deleted = TRUE
  BY <1>1, <1>2 DEF Underway, TypeOK, RowType
<1>4. /\ content' = [content EXCEPT ![d].deleted = TRUE]
      /\ content \in [Docs -> ContentType]
      /\ UNCHANGED <<row, review, submitted>>
  BY <1>1, <1>2 DEF DeleteContent, TypeOK
<1>5. \A e \in Docs \ {d} : Elsewhere(e)
  BY <1>4 DEF Elsewhere
<1>6. content'[d].deleted = TRUE
  BY <1>4 DEF ContentType
<1>7. Settled(d)'
  BY <1>3, <1>4, <1>6 DEF Settled, Live
<1>8. Return(r) /\ Step(r)
  BY DEF DeleteContent, Step
<1>9. row'[d].status = "Absent" => ~row'[d].deleted
  BY <1>3, <1>4
<1> QED
  BY <1>0, <1>1, <1>2, <1>5, <1>7, <1>8, <1>9, StepOn

LEMMA CheckPendingKeeps ==
    ASSUME TypeOK, IsolatedInv, NEW r \in Reqs, CheckPending(r)
    PROVE  IsolatedInv'
<1>0. req[r].pc = "checkPending"
  BY DEF CheckPending, At
<1>1. req[r] \in ReqType /\ Underway(req[r])
  BY <1>0, InFlight
<1>2. PICK n : n = [req[r] EXCEPT !.pc = "openReview"]
  OBVIOUS
<1>3. n.pc = "openReview" /\ n.doc = req[r].doc /\ n.status = req[r].status
  BY <1>1, <1>2 DEF ReqType
<1>4. Underway(n)
  BY <1>0, <1>1, <1>3 DEF Underway
<1>5. /\ UNCHANGED <<row, content, review, submitted>>
      /\ Goto(r, "openReview") \/ Return(r)
      /\ Step(r) /\ "openReview" \in PC \ {"idle"}
  BY DEF CheckPending, Step, stores, PC
<1>6. Settled(req[r].doc)
  BY <1>0, <1>1 DEF Underway
<1>7. CASE Goto(r, "openReview")
  BY <1>0, <1>2, <1>4, <1>5, <1>7, MovesOn
<1>8. CASE Return(r)
  BY <1>0, <1>5, <1>6, <1>8, Returns
<1> QED
  BY <1>5, <1>7, <1>8

LEMMA OpenReviewKeeps ==
    ASSUME TypeOK, IsolatedInv, NEW r \in Reqs, OpenReview(r)
    PROVE  IsolatedInv'
<1>0. req[r].pc = "openReview"
  BY DEF OpenReview, At
<1>1. PICK q \in ReqType : q = req[r] /\ q.pc = "openReview" /\ Underway(q) /\ q.doc \in Docs
  BY <1>0, InFlight
<1>2. PICK d \in Docs : d = q.doc
  BY <1>1
<1>3. PICK v \in Reviews :
        /\ review[v].doc = NoDoc
        /\ review' = [review EXCEPT ![v] = [doc |-> d, result |-> "Pending"]]
        /\ submitted' = [submitted EXCEPT ![v] = content[d].text]
        /\ UNCHANGED <<row, content>>
  BY <1>1, <1>2 DEF OpenReview, FreeReviews
<1>4. /\ Settled(d) /\ Live(d) /\ row[d].status \in {"Draft", "Published"}
      /\ q.status = "PendingReview"
  BY <1>1, <1>2 DEF Underway
<1>5. OpenReviews(d) = {} /\ ~content[d].deleted
  BY <1>4 DEF Settled, Live
<1>6. review \in [Reviews -> ReviewType] /\ submitted \in [Reviews -> Contents \cup {NoContent}]
  BY DEF TypeOK
<1>7. OpenReviews(d)' = {v}
  <2>1. \A w \in Reviews : review'[w] = IF w = v THEN [doc |-> d, result |-> "Pending"] ELSE review[w]
    BY <1>3, <1>6
  <2> QED
    BY <1>5, <2>1 DEF OpenReviews
<1>8. InReview(d)'
  BY <1>3, <1>6, <1>7 DEF InReview
<1>9. ASSUME NEW e \in Docs \ {d}
      PROVE  Elsewhere(e)
  <2>1. NoDoc # e
    BY WorkflowAssumption
  <2>2. \A w \in Reviews \ {v} : review'[w] = review[w] /\ submitted'[w] = submitted[w]
    BY <1>3, <1>6
  <2>3. review'[v].doc = d
    BY <1>3, <1>6
  <2> QED
    BY <1>3, <2>1, <2>2, <2>3 DEF Elsewhere
<1>10. PICK n : n = [q EXCEPT !.pc = "savePending"]
  OBVIOUS
<1>11. n.pc = "savePending" /\ n.doc = d /\ n.status = q.status
  BY <1>1, <1>2, <1>10 DEF ReqType
<1>12. Live(d)'
  BY <1>3, <1>4 DEF Live
<1>13. Underway(n)'
  BY <1>3, <1>4, <1>5, <1>8, <1>11, <1>12 DEF Underway
<1>14. Goto(r, "savePending") /\ Step(r) /\ "savePending" \in PC \ {"idle"}
  BY DEF OpenReview, Step, PC
<1>15. row'[d].status = "Absent" => ~row'[d].deleted
  BY <1>3 DEF IsolatedInv
<1> QED
  BY <1>0, <1>1, <1>2, <1>9, <1>10, <1>13, <1>14, <1>15, StepOn

LEMMA SavePendingKeeps ==
    ASSUME TypeOK, IsolatedInv, NEW r \in Reqs, SavePending(r)
    PROVE  IsolatedInv'
<1>0. req[r].pc = "savePending"
  BY DEF SavePending, At
<1>1. PICK q \in ReqType : q = req[r] /\ q.pc = "savePending" /\ Underway(q) /\ q.doc \in Docs
  BY <1>0, InFlight
<1>2. PICK d \in Docs : d = q.doc
  BY <1>1
<1>3. q.status = "PendingReview" /\ content[d].deleted = FALSE /\ InReview(d)
  BY <1>1, <1>2 DEF Underway, TypeOK, ContentType
<1>4. /\ row'[d].status = "PendingReview" /\ row'[d].deleted = FALSE
      /\ content'[d] = content[d]
      /\ InReview(d)'
      /\ \A e \in Docs \ {d} : Elsewhere(e)
  BY <1>1, <1>2, <1>3, RowSaved DEF SavePending
<1>5. Settled(d)'
  BY <1>3, <1>4 DEF Settled
<1>6. PICK n : n = [q EXCEPT !.pc = "unpublish"]
  OBVIOUS
<1>7. n.pc = "unpublish" /\ n.doc = d
  BY <1>1, <1>2, <1>6 DEF ReqType
<1>8. Underway(n)'
  BY <1>4, <1>5, <1>7 DEF Underway
<1>9. (Return(r) \/ Goto(r, "unpublish")) /\ Step(r) /\ "unpublish" \in PC \ {"idle"}
  BY DEF SavePending, Step, PC
<1>10. CASE Return(r)
  BY <1>0, <1>1, <1>2, <1>4, <1>5, <1>9, <1>10, StepOn
<1>11. CASE Goto(r, "unpublish")
  BY <1>0, <1>1, <1>2, <1>4, <1>6, <1>8, <1>9, <1>11, StepOn
<1> QED
  BY <1>9, <1>10, <1>11

LEMMA SaveResultKeeps ==
    ASSUME TypeOK, IsolatedInv, NEW r \in Reqs, SaveResult(r)
    PROVE  IsolatedInv'
<1>0. req[r].pc = "saveResult"
  BY DEF SaveResult, At
<1>1. PICK q \in ReqType : q = req[r] /\ q.pc = "saveResult" /\ Underway(q) /\ q.doc \in Docs
  BY <1>0, InFlight
<1>2. PICK d \in Docs : d = q.doc
  BY <1>1
<1>3. Settled(d) /\ q.review \in OpenReviews(d) /\ q.result \in {"Approved", "Rejected"}
  BY <1>1, <1>2 DEF Underway
<1>4. PICK v \in Reviews : v = q.review /\ review[v].doc = d /\ review[v].result = "Pending"
  BY <1>3 DEF OpenReviews
<1>5. /\ review' = [review EXCEPT ![v].result = q.result]
      /\ UNCHANGED <<row, content, submitted>>
      /\ review \in [Reviews -> ReviewType]
  BY <1>1, <1>4 DEF SaveResult, TypeOK
<1>6. review'[v].doc = d /\ review'[v].result = q.result
  BY <1>4, <1>5 DEF ReviewType
<1>7. \A w \in Reviews \ {v} : review'[w] = review[w]
  BY <1>5
<1>8. ASSUME Live(d)
      PROVE  /\ row[d].status = "PendingReview"
             /\ OpenReviews(d)' = {}
             /\ q.result = "Approved" => Approved(d)'
  <2>1. row[d].status = "PendingReview" /\ InReview(d)
    BY <1>3, <1>8 DEF Settled
  <2>2. OpenReviews(d) = {v} /\ submitted[v] = content[d].text
    BY <1>3, <1>4, <2>1 DEF InReview
  <2>3. \A w \in Reviews : review'[w].doc = d => review'[w].result # "Pending"
    BY <1>3, <1>6, <1>7, <2>2 DEF OpenReviews
  <2>4. OpenReviews(d)' = {}
    BY <2>3 DEF OpenReviews
  <2>5. q.result = "Approved" => Approved(d)'
    BY <1>5, <1>6, <2>2 DEF Approved
  <2> QED
    BY <2>1, <2>4, <2>5
<1>9. \A e \in Docs \ {d} : Elsewhere(e)
  BY <1>4, <1>5, <1>6, <1>7 DEF Elsewhere
<1>10. PICK n : n = [q EXCEPT !.pc = "findDoc"]
  OBVIOUS
<1>11. n.pc = "findDoc" /\ n.doc = d /\ n.result = q.result
  BY <1>1, <1>2, <1>10 DEF ReqType
<1>12. Live(d)' <=> Live(d)
  BY <1>5 DEF Live
<1>13. row'[d] = row[d] /\ content'[d] = content[d]
  BY <1>5
<1>14. Underway(n)'
  BY <1>3, <1>8, <1>11, <1>12, <1>13 DEF Underway, Settled
<1>15. Goto(r, "findDoc") /\ Step(r) /\ "findDoc" \in PC \ {"idle"}
  BY DEF SaveResult, Step, PC
<1>16. row'[d].status = "Absent" => ~row'[d].deleted
  BY <1>5 DEF IsolatedInv
<1> QED
  BY <1>0, <1>1, <1>2, <1>9, <1>10, <1>14, <1>15, <1>16, StepOn

LEMMA FindDocKeeps ==
    ASSUME TypeOK, IsolatedInv, NEW r \in Reqs, FindDoc(r)
    PROVE  IsolatedInv'
<1>0. req[r].pc = "findDoc"
  BY DEF FindDoc, At
<1>1. req[r] \in ReqType /\ Underway(req[r])
  BY <1>0, InFlight
<1>2. PICK n : n = [req[r] EXCEPT !.pc = "saveDecision"]
  OBVIOUS
<1>3. n.pc = "saveDecision" /\ n.doc = req[r].doc /\ n.result = req[r].result
  BY <1>1, <1>2 DEF ReqType
<1>4. UNCHANGED <<row, content, review, submitted>> /\ Step(r)
  BY DEF FindDoc, Step, stores
<1>5. CASE Live(req[r].doc)
  <2>1. Underway(n)
    BY <1>0, <1>1, <1>3, <1>5 DEF Underway
  <2>2. Goto(r, "saveDecision") /\ "saveDecision" \in PC \ {"idle"}
    BY <1>5 DEF FindDoc, PC
  <2> QED
    BY <1>0, <1>2, <1>4, <2>1, <2>2, MovesOn
<1>6. CASE ~Live(req[r].doc)
  <2>1. Settled(req[r].doc)
    BY <1>0, <1>1, <1>6 DEF Underway, Settled
  <2>2. Return(r)
    BY <1>6 DEF FindDoc
  <2> QED
    BY <1>0, <1>4, <2>1, <2>2, Returns
<1> QED
  BY <1>5, <1>6

LEMMA SaveDecisionKeeps ==
    ASSUME TypeOK, IsolatedInv, NEW r \in Reqs, SaveDecision(r)
    PROVE  IsolatedInv'
<1>0. req[r].pc = "saveDecision"
  BY DEF SaveDecision, At
<1>1. PICK q \in ReqType : q = req[r] /\ q.pc = "saveDecision" /\ Underway(q) /\ q.doc \in Docs
  BY <1>0, InFlight
<1>2. PICK d \in Docs : d = q.doc
  BY <1>1
<1>3. /\ Live(d) /\ OpenReviews(d) = {} /\ content[d].deleted = FALSE
      /\ q.result = "Approved" => Approved(d)
  BY <1>1, <1>2 DEF Underway, Live, TypeOK, ContentType
<1>4. Step(r) /\ UNCHANGED <<content, review, submitted>>
  BY DEF SaveDecision, Step
<1>5. CASE q.result = "Approved"
  <2>1. SaveRow(d, "Published", FALSE) /\ Goto(r, "publish")
    BY <1>1, <1>2, <1>5 DEF SaveDecision
  <2>2. /\ row'[d].status = "Published" /\ row'[d].deleted = FALSE
        /\ content'[d] = content[d]
        /\ Live(d)'
        /\ OpenReviews(d)' = OpenReviews(d)
        /\ Approved(d)'
        /\ \A e \in Docs \ {d} : Elsewhere(e)
    <3>1. "Published" # "Absent" /\ Approved(d)
      BY <1>3, <1>5
    <3>2. /\ row'[d].status = "Published" /\ row'[d].deleted = FALSE
          /\ content'[d] = content[d]
          /\ Live(d)' <=> "Published" # "Absent" /\ ~FALSE
          /\ OpenReviews(d)' = OpenReviews(d)
          /\ Approved(d) => Approved(d)'
          /\ \A e \in Docs \ {d} : Elsewhere(e)
      BY <1>4, <2>1, RowSaved
    <3> QED
      BY <3>1, <3>2
  <2>3. Settled(d)'
    BY <1>3, <2>2 DEF Settled
  <2>4. PICK n : n = [q EXCEPT !.pc = "publish"]
    OBVIOUS
  <2>5. n.pc = "publish" /\ n.doc = d
    BY <1>1, <1>2, <2>4 DEF ReqType
  <2>6. Underway(n)'
    BY <2>2, <2>3, <2>5 DEF Underway
  <2>7. "publish" \in PC \ {"idle"}
    BY DEF PC
  <2> QED
    BY <1>0, <1>1, <1>2, <1>4, <2>1, <2>2, <2>4, <2>6, <2>7, StepOn
<1>6. CASE q.result # "Approved"
  <2>1. SaveRow(d, "Draft", FALSE) /\ Return(r)
    BY <1>1, <1>2, <1>6 DEF SaveDecision
  <2>2. Free(d)
    BY <1>3 DEF Free
  <2>3. /\ Settled(d)' /\ row'[d].status = "Draft"
        /\ \A e \in Docs \ {d} : Elsewhere(e)
    BY <1>4, <2>1, <2>2, SettledAfterSave
  <2> QED
    BY <1>0, <1>1, <1>2, <1>4, <2>1, <2>3, StepOn
<1> QED
  BY <1>5, <1>6

\* Every step of every request keeps the invariant when they keep apart.
LEMMA IsolatedNext ==
    ASSUME ~Overlap, MaxFaults = 0
    PROVE  TypeOK /\ StoredInv /\ IsolatedInv /\ [Next]_workflowVars => IsolatedInv'
<1> SUFFICES ASSUME TypeOK, StoredInv, IsolatedInv, [Next]_workflowVars
             PROVE  IsolatedInv'
  OBVIOUS
<1>1. CASE UNCHANGED workflowVars
  <2>1. \A e : Elsewhere(e)
    BY <1>1, StoresKept DEF workflowVars
  <2>2. \A e \in Docs : Settled(e) => Settled(e)'
    BY <2>1, ElsewhereSettled
  <2>3. \A q : Underway(q) => Underway(q)'
    BY <2>1, ElsewhereUnderway
  <2>4. ASSUME NEW r \in Reqs, req'[r].pc # "idle"
        PROVE  Underway(req[r])'
    <3>1. PICK q : q = req[r] /\ q = req'[r] /\ Underway(q)
      BY <1>1, <2>4 DEF workflowVars, IsolatedInv
    <3>2. Underway(q)'
      BY <2>3, <3>1
    <3> QED
      BY <3>1, <3>2 DEF Underway
  <2>5. UNCHANGED <<row, req>>
    BY <1>1 DEF workflowVars
  <2> QED
    BY <2>2, <2>4, <2>5 DEF IsolatedInv, OneAtATime, Quiet
<1>2. CASE Next
  <2>1. PICK r \in Reqs : Start(r) \/ Step(r) \/ Abort(r)
    BY <1>2 DEF Next
  <2>2. CASE Start(r)
    BY <2>2, StartKeeps
  <2>3. CASE Step(r)
    BY <2>3, CreateContentKeeps, CreateRowKeeps, WriteContentKeeps, SaveEditKeeps, RetireKeeps,
       AnnouncedLast, AnnounceRemovalKeeps, MarkDeletedKeeps, DeleteContentKeeps,
       CheckPendingKeeps, OpenReviewKeeps, SavePendingKeeps, SaveResultKeeps, FindDocKeeps,
       SaveDecisionKeeps DEF Step
  <2>4. ~Abort(r)
    BY NothingFails
  <2> QED
    BY <2>1, <2>2, <2>3, <2>4
<1> QED
  BY <1>1, <1>2

LEMMA IsolatedAlways ==
    ASSUME ~Overlap, MaxFaults = 0
    PROVE  Spec => [](TypeOK /\ IsolatedInv)
<1>1. TypeOK /\ StoredInv /\ IsolatedInv /\ [Next]_workflowVars => IsolatedInv'
  BY IsolatedNext
<1> QED
  BY <1>1, TypeInit, TypeNext, StoredInit, StoredNext, IsolatedInit, PTL DEF Spec

\* When clients keep the requests on a document apart and none is cut short,
\* what is served as published is a body that a reviewer approved.
THEOREM PublishedIsApproved ==
    ASSUME ~Overlap, MaxFaults = 0
    PROVE  Spec => []PublishedContentWasApproved
<1>1. TypeOK /\ IsolatedInv => PublishedContentWasApproved
  BY DEF IsolatedInv, PublishedContentWasApproved, Settled, Approved
<1> QED
  BY <1>1, IsolatedAlways, PTL

\* Under the same conditions a live document is pending exactly while one
\* review of it is open: it can always be decided and leave that status.
THEOREM PendingMeansOneReview ==
    ASSUME ~Overlap, MaxFaults = 0
    PROVE  Spec => []PendingIffOneOpenReview
<1>1. TypeOK /\ IsolatedInv => PendingIffOneOpenReview
  BY DEF IsolatedInv, PendingIffOneOpenReview, Settled, InReview
<1> QED
  BY <1>1, IsolatedAlways, PTL

\* Under the same conditions a removal that is over has reached both stores.
THEOREM RemovalsReachBothStores ==
    ASSUME ~Overlap, MaxFaults = 0
    PROVE  Spec => []RemovedFromBothStores
<1>1. TypeOK /\ IsolatedInv => RemovedFromBothStores
  BY DEF IsolatedInv, RemovedFromBothStores, Settled
<1> QED
  BY <1>1, IsolatedAlways, PTL

-----------------------------------------------------------------------------
(***************************************************************************)
(* The refinement, step by step: under the same conditions the first       *)
(* states of the workflow map to the first states of DocumentLifecycle,    *)
(* and every step maps to one of its steps or changes nothing a client     *)
(* sees.  Each save of the row is one move of the status, IsolatedInv      *)
(* saying from which status it starts; a publication of tasks is Serve or  *)
(* Withdraw.                                                               *)
(***************************************************************************)

\* The status and the announcement of d as DocumentLifecycle sees them.
Seen(d) == IF row[d].deleted THEN "Deleted" ELSE row[d].status
Told(d) == \E q \in Queues : Announced(q, d)

LEMMA FirstSeen == Init => Lifecycle!LifecycleInit
<1> SUFFICES ASSUME Init
             PROVE  Lifecycle!LifecycleInit
  OBVIOUS
<1>1. \A d \in Docs : Seen(d) = "Absent"
  BY DEF Init, Seen
<1>2. \A d \in Docs : Told(d) = FALSE
  <2>1. \A q \in Queues : queue[q] = <<>>
    BY DEF Init
  <2>2. \A q \in Queues : DOMAIN queue[q] = {}
    BY <2>1
  <2>3. \A d \in Docs : ~Told(d)
    BY <2>2 DEF Told, Announced
  <2> QED
    BY <2>3 DEF Told
<1> QED
  BY <1>1, <1>2 DEF Lifecycle!LifecycleInit, Seen, Told

\* A save of the row of d is a move of its status.
LEMMA SaveIsMove ==
    ASSUME NEW d \in Docs, \A e \in Docs \ {d} : row'[e] = row[e], UNCHANGED queue,
           NEW from, NEW to, Seen(d) \in from, Seen(d)' = to
    PROVE  Lifecycle!Move(d, from, to)
<1>1. \A e \in Docs \ {d} : Seen(e)' = Seen(e)
  BY DEF Seen
<1>2. [e \in Docs |-> Seen(e)]' = [[e \in Docs |-> Seen(e)] EXCEPT ![d] = to]
  BY <1>1
<1>3. [e \in Docs |-> Seen(e)][d] \in from
  OBVIOUS
<1>4. [e \in Docs |-> Told(e)]' = [e \in Docs |-> Told(e)]
  BY DEF Told, Announced
<1> QED
  BY <1>2, <1>3, <1>4 DEF Lifecycle!Move, Seen, Told

\* A step that leaves rows and queues alone is not seen.
LEMMA Unseen ==
    ASSUME UNCHANGED <<row, queue>>
    PROVE  UNCHANGED Lifecycle!lifecycleVars
BY DEF Lifecycle!lifecycleVars, Announced

\* What an appended task does to what was announced last.
LEMMA LastAnnounced ==
    ASSUME TypeOK, NEW d \in Docs, NEW type \in {"INDEX", "DELETE"}, NEW q \in Queues,
           queue'[q] = Append(queue[q], [type |-> type, doc |-> d])
    PROVE  /\ Announced(q, d)' <=> type = "INDEX"
           /\ \A e \in Docs \ {d} : Announced(q, e)' <=> Announced(q, e)
<1>1. PICK s : s = queue[q]
  OBVIOUS
<1>2. PICK t : t = queue'[q]
  OBVIOUS
<1>3. PICK task : task = [type |-> type, doc |-> d]
  OBVIOUS
<1>4. s \in Seq(TaskType) /\ task \in TaskType /\ t = Append(s, task)
  BY <1>1, <1>2, <1>3 DEF TypeOK, TaskType
<1>5. /\ DOMAIN s = 1..Len(s) /\ DOMAIN t = 1..(Len(s) + 1) /\ Len(s) \in Nat
      /\ \A i \in DOMAIN s : t[i] = s[i]
      /\ t[Len(s) + 1] = task
  BY <1>4
<1>6. PICK n \in Nat : n = Len(s) + 1 /\ n \in DOMAIN t /\ (\A i \in DOMAIN t : i = n \/ i \in DOMAIN s)
                       /\ (\A i \in DOMAIN t : ~(i > n)) /\ (\A i \in DOMAIN s : n > i /\ i \in DOMAIN t)
  BY <1>5
<1>7. Announced(q, d)' <=> type = "INDEX"
  <2>1. Announced(q, d)' <=>
          \E i \in DOMAIN t : /\ t[i] = [type |-> "INDEX", doc |-> d]
                              /\ \A j \in DOMAIN t : j > i => t[j].doc # d
    BY <1>2 DEF Announced
  <2>2. t[n] = task /\ t[n].doc = d /\ t[n].type = type
    BY <1>3, <1>5, <1>6
  <2>3. ASSUME type = "INDEX"
        PROVE  Announced(q, d)'
    BY <1>3, <1>6, <2>1, <2>2, <2>3
  <2>4. ASSUME NEW i \in DOMAIN t, t[i] = [type |-> "INDEX", doc |-> d],
               \A j \in DOMAIN t : j > i => t[j].doc # d
        PROVE  type = "INDEX"
    <3>1. i = n
      BY <1>6, <2>2, <2>4
    <3> QED
      BY <2>2, <2>4, <3>1
  <2> QED
    BY <2>1, <2>3, <2>4
<1>8. ASSUME NEW e \in Docs \ {d}
      PROVE  Announced(q, e)' <=> Announced(q, e)
  <2>1. Announced(q, e)' <=>
          \E i \in DOMAIN t : /\ t[i] = [type |-> "INDEX", doc |-> e]
                              /\ \A j \in DOMAIN t : j > i => t[j].doc # e
    BY <1>2 DEF Announced
  <2>2. Announced(q, e) <=>
          \E i \in DOMAIN s : /\ s[i] = [type |-> "INDEX", doc |-> e]
                              /\ \A j \in DOMAIN s : j > i => s[j].doc # e
    BY <1>1 DEF Announced
  <2>3. t[n].doc = d /\ t[n].doc # e
    BY <1>3, <1>5, <1>6
  <2>4. ASSUME NEW i \in DOMAIN t, t[i] = [type |-> "INDEX", doc |-> e],
               \A j \in DOMAIN t : j > i => t[j].doc # e
        PROVE  Announced(q, e)
    <3>1. i \in DOMAIN s
      BY <1>6, <2>3, <2>4
    <3>2. \A j \in DOMAIN s : j > i => s[j].doc # e
      BY <1>5, <1>6, <2>4
    <3> QED
      BY <1>5, <2>2, <2>4, <3>1, <3>2
  <2>5. ASSUME NEW i \in DOMAIN s, s[i] = [type |-> "INDEX", doc |-> e],
               \A j \in DOMAIN s : j > i => s[j].doc # e
        PROVE  Announced(q, e)'
    <3>1. i \in DOMAIN t /\ t[i] = [type |-> "INDEX", doc |-> e]
      BY <1>5, <1>6, <2>5
    <3>2. \A j \in DOMAIN t : j > i => t[j].doc # e
      BY <1>5, <1>6, <2>3, <2>5
    <3> QED
      BY <2>1, <3>1, <3>2
  <2> QED
    BY <2>1, <2>2, <2>4, <2>5
<1> QED
  BY <1>7, <1>8

\* A publication on every queue tells the retrieval side about d alone.
LEMMA PublishTells ==
    ASSUME MaxFaults = 0, TypeOK, NEW d \in Docs, NEW type \in {"INDEX", "DELETE"},
           Publish(type, d)
    PROVE  /\ type = "INDEX" => (Queues # {} => Told(d)')
           /\ type = "DELETE" => ~Told(d)'
           /\ \A e \in Docs \ {d} : Told(e)' <=> Told(e)
<1>1. \A q \in Queues : queue'[q] = Append(queue[q], [type |-> type, doc |-> d])
  BY NothingFails
<1>2. \A q \in Queues : /\ Announced(q, d)' <=> type = "INDEX"
                        /\ \A e \in Docs \ {d} : Announced(q, e)' <=> Announced(q, e)
  BY <1>1, LastAnnounced
<1> QED
  BY <1>2 DEF Told

\* The publication after an approval is Serve; where there is no queue to tell,
\* nothing is seen.
LEMMA ApprovalIsSeen ==
    ASSUME MaxFaults = 0, TypeOK, IsolatedInv, NEW r \in Reqs, AfterApproval(r)
    PROVE  [Lifecycle!LifecycleNext]_(Lifecycle!lifecycleVars)
<1>0. req[r].pc = "publish"
  BY DEF AfterApproval, At
<1>1. PICK d \in Docs : d = req[r].doc /\ Live(d) /\ row[d].status = "Published"
  BY <1>0, InFlight DEF Underway
<1>2. Publish("INDEX", d) /\ UNCHANGED row
  BY <1>1 DEF AfterApproval, stores
<1>3. Seen(d) = "Published"
  BY <1>1 DEF Seen, Live
<1>4. [e \in Docs |-> Seen(e)]' = [e \in Docs |-> Seen(e)]
  BY <1>2 DEF Seen
<1>5. CASE Queues # {}
  <2>1. Told(d)' = TRUE /\ \A e \in Docs \ {d} : Told(e)' = Told(e)
    BY <1>2, <1>5, PublishTells DEF Told
  <2>2. [e \in Docs |-> Told(e)]' = [[e \in Docs |-> Told(e)] EXCEPT ![d] = TRUE]
    BY <2>1
  <2>3. Lifecycle!Serve(d)
    BY <1>3, <1>4, <2>2 DEF Lifecycle!Serve, Seen, Told
  <2> QED
    BY <2>3 DEF Lifecycle!LifecycleNext
<1>6. CASE Queues = {}
  <2>1. [e \in Docs |-> Told(e)]' = [e \in Docs |-> Told(e)]
    BY <1>6 DEF Told
  <2> QED
    BY <1>4, <2>1 DEF Lifecycle!lifecycleVars, Seen, Told
<1> QED
  BY <1>5, <1>6

\* The publication of a removal is Withdraw, or is not seen when the document
\* was not served.
LEMMA RemovalIsSeen ==
    ASSUME MaxFaults = 0, TypeOK, IsolatedInv, NEW r \in Reqs, Unpublish(r) \/ AnnounceRemoval(r)
    PROVE  [Lifecycle!LifecycleNext]_(Lifecycle!lifecycleVars)
<1>0. req[r].pc # "idle"
  BY DEF Unpublish, AnnounceRemoval, At
<1>1. PICK d \in Docs : d = req[r].doc
  BY <1>0, InFlight
<1>2. Publish("DELETE", d) /\ UNCHANGED row
  BY <1>1 DEF Unpublish, AnnounceRemoval, stores
<1>3. [e \in Docs |-> Seen(e)]' = [e \in Docs |-> Seen(e)]
  BY <1>2 DEF Seen
<1>4. Told(d)' = FALSE /\ \A e \in Docs \ {d} : Told(e)' = Told(e)
  BY <1>2, PublishTells DEF Told
<1>5. CASE Told(d)
  <2>1. [e \in Docs |-> Told(e)]' = [[e \in Docs |-> Told(e)] EXCEPT ![d] = FALSE]
    BY <1>4
  <2>2. Lifecycle!Withdraw(d)
    BY <1>3, <1>5, <2>1 DEF Lifecycle!Withdraw, Seen, Told
  <2> QED
    BY <2>2 DEF Lifecycle!LifecycleNext
<1>6. CASE ~Told(d)
  <2>1. Told(d)' = Told(d)
    BY <1>4, <1>6 DEF Told
  <2>2. [e \in Docs |-> Told(e)]' = [e \in Docs |-> Told(e)]
    BY <1>4, <2>1
  <2> QED
    BY <1>3, <2>2 DEF Lifecycle!lifecycleVars, Seen, Told
<1> QED
  BY <1>5, <1>6

\* A save of the row of one document changes no other.
LEMMA OneRowSaved ==
    ASSUME TypeOK, NEW d \in Docs, NEW s, NEW b, SaveRow(d, s, b)
    PROVE  /\ Seen(d)' = IF b THEN "Deleted" ELSE s
           /\ \A e \in Docs \ {d} : row'[e] = row[e]
BY DEF SaveRow, TypeOK, Seen

\* Every save of a row is a move the lifecycle allows.
LEMMA SavesAreSeen ==
    ASSUME TypeOK, IsolatedInv, NEW r \in Reqs,
           \/ CreateRow(r) \/ SaveEdit(r) \/ Retire(r) \/ MarkDeleted(r)
           \/ SavePending(r) \/ SaveDecision(r)
    PROVE  Lifecycle!LifecycleNext
<1>0. req[r].pc \in {"createRow", "saveEdit", "retire", "markDeleted", "savePending",
                     "saveDecision"}
  BY DEF CreateRow, SaveEdit, Retire, MarkDeleted, SavePending, SaveDecision, At
<1>1. PICK q \in ReqType : q = req[r] /\ q.pc = req[r].pc /\ Underway(q) /\ q.doc \in Docs
  BY <1>0, InFlight
<1>2. PICK d \in Docs : d = q.doc
  BY <1>1
<1>3. /\ UNCHANGED queue
      /\ row[d] \in RowType
      /\ row[d].status = "Absent" => ~row[d].deleted
  BY DEF CreateRow, SaveEdit, Retire, MarkDeleted, SavePending, SaveDecision, TypeOK, IsolatedInv
<1>4. ASSUME NEW from, NEW to, Seen(d) \in from, SaveRow(d, to, FALSE)
      PROVE  Lifecycle!Move(d, from, to)
  BY <1>3, <1>4, OneRowSaved, SaveIsMove
<1>5. CASE CreateRow(r)
  <2>1. q.pc = "createRow"
    BY <1>1, <1>5 DEF CreateRow, At
  <2>2. Seen(d) \in {"Absent"}
    BY <1>1, <1>2, <1>3, <2>1 DEF Underway, Unborn, Seen
  <2>3. SaveRow(d, "Draft", FALSE)
    BY <1>1, <1>2, <1>5 DEF CreateRow
  <2>4. PICK from : from = {"Absent"} /\ Seen(d) \in from
    BY <2>2
  <2>5. Seen(d) \in from
    BY <2>4
  <2>6. Lifecycle!Move(d, from, "Draft")
    BY <1>4, <2>3, <2>5
  <2> QED
    BY <2>4, <2>6 DEF Lifecycle!LifecycleNext, Lifecycle!Create
<1>6. CASE SaveEdit(r)
  <2>1. q.pc = "saveEdit"
    BY <1>1, <1>6 DEF SaveEdit, At
  <2>2. Seen(d) \in {"Draft", "Published", "Archived"} /\ q.status = "Draft"
    BY <1>1, <1>2, <2>1 DEF Underway, Free, Live, canEditContent, Seen
  <2>3. SaveRow(d, "Draft", FALSE)
    BY <1>1, <1>2, <1>6, <2>2 DEF SaveEdit
  <2>4. Lifecycle!Move(d, {"Draft", "Published", "Archived"}, "Draft")
    BY <1>4, <2>2, <2>3
  <2> QED
    BY <2>4 DEF Lifecycle!LifecycleNext, Lifecycle!Edit
<1>7. CASE Retire(r)
  <2>1. q.pc = "retire"
    BY <1>1, <1>7 DEF Retire, At
  <2>2. /\ Seen(d) \in {"Published"} /\ Seen(d) \in {"Draft", "Published", "Archived"}
        /\ q.status \in {"Archived", "Draft"}
    BY <1>1, <1>2, <2>1 DEF Underway, Free, Live, Seen
  <2>3. SaveRow(d, q.status, FALSE)
    BY <1>1, <1>2, <1>7 DEF Retire
  <2>4. CASE q.status = "Archived"
    <3>1. PICK from : from = {"Published"} /\ Seen(d) \in from
      BY <2>2
    <3>2. Seen(d) \in from
      BY <3>1
    <3>3. Lifecycle!Move(d, from, "Archived")
      BY <1>4, <2>3, <2>4, <3>2
    <3> QED
      BY <3>1, <3>3 DEF Lifecycle!LifecycleNext, Lifecycle!Archive
  <2>5. CASE q.status = "Draft"
    <3>1. Lifecycle!Move(d, {"Draft", "Published", "Archived"}, "Draft")
      BY <1>4, <2>2, <2>3, <2>5
    <3> QED
      BY <3>1 DEF Lifecycle!LifecycleNext, Lifecycle!Edit
  <2> QED
    BY <2>2, <2>4, <2>5
<1>8. CASE MarkDeleted(r)
  <2>1. q.pc = "markDeleted"
    BY <1>1, <1>8 DEF MarkDeleted, At
  <2>2. Seen(d) \in {"Draft", "Published", "Archived", "PendingReview"}
    BY <1>1, <1>2, <1>3, <2>1 DEF Underway, Live, Seen, RowType, Status
  <2>3. SaveRow(d, q.status, TRUE)
    BY <1>1, <1>2, <1>8 DEF MarkDeleted
  <2>4. Lifecycle!Move(d, {"Draft", "Published", "Archived", "PendingReview"}, "Deleted")
    <3>1. Seen(d)' = "Deleted" /\ \A e \in Docs \ {d} : row'[e] = row[e]
      BY <2>3, OneRowSaved
    <3> QED
      BY <1>3, <2>2, <3>1, SaveIsMove
  <2> QED
    BY <2>4 DEF Lifecycle!LifecycleNext, Lifecycle!Delete
<1>9. CASE SavePending(r)
  <2>1. q.pc = "savePending"
    BY <1>1, <1>9 DEF SavePending, At
  <2>2. Seen(d) \in {"Draft", "Published"} /\ q.status = "PendingReview"
    BY <1>1, <1>2, <2>1 DEF Underway, Live, Seen
  <2>3. SaveRow(d, "PendingReview", FALSE)
    BY <1>1, <1>2, <1>9, <2>2 DEF SavePending
  <2>4. PICK from : from = {"Draft", "Published"} /\ Seen(d) \in from
    BY <2>2
  <2>5. Seen(d) \in from
    BY <2>4
  <2>6. Lifecycle!Move(d, from, "PendingReview")
    BY <1>4, <2>3, <2>5
  <2> QED
    BY <2>4, <2>6 DEF Lifecycle!LifecycleNext, Lifecycle!Submit
<1>10. CASE SaveDecision(r)
  <2>1. q.pc = "saveDecision"
    BY <1>1, <1>10 DEF SaveDecision, At
  <2>2. Seen(d) \in {"PendingReview"}
    BY <1>1, <1>2, <2>1 DEF Underway, Live, Seen
  <2>3. SaveRow(d, "Published", FALSE) \/ SaveRow(d, "Draft", FALSE)
    BY <1>1, <1>2, <1>10 DEF SaveDecision
  <2>4. PICK from : from = {"PendingReview"} /\ Seen(d) \in from
    BY <2>2
  <2>5. Seen(d) \in from
    BY <2>4
  <2>6. Lifecycle!Move(d, from, "Published") \/ Lifecycle!Move(d, from, "Draft")
    BY <1>4, <2>3, <2>5
  <2> QED
    BY <2>4, <2>6 DEF Lifecycle!LifecycleNext, Lifecycle!Approve, Lifecycle!Reject
<1> QED
  BY <1>5, <1>6, <1>7, <1>8, <1>9, <1>10

\* Every step of the workflow is a step of the lifecycle, or is not seen.
LEMMA StepsAreSeen ==
    ASSUME MaxFaults = 0, TypeOK, IsolatedInv, [Next]_workflowVars
    PROVE  [Lifecycle!LifecycleNext]_(Lifecycle!lifecycleVars)
<1>1. CASE UNCHANGED <<row, queue>>
  BY <1>1, Unseen
<1>2. ASSUME NEW r \in Reqs, Step(r)
      PROVE  \/ UNCHANGED <<row, queue>>
             \/ [Lifecycle!LifecycleNext]_(Lifecycle!lifecycleVars)
  <2>1. CASE AfterApproval(r)
    BY <2>1, ApprovalIsSeen
  <2>2. CASE Unpublish(r) \/ AnnounceRemoval(r)
    BY <2>2, RemovalIsSeen
  <2>3. CASE \/ CreateRow(r) \/ SaveEdit(r) \/ Retire(r) \/ MarkDeleted(r)
             \/ SavePending(r) \/ SaveDecision(r)
    BY <2>3, SavesAreSeen
  <2>4. CASE \/ CreateContent(r) \/ WriteContent(r) \/ DeleteContent(r) \/ CheckPending(r)
             \/ OpenReview(r) \/ SaveResult(r) \/ FindDoc(r)
    BY <2>4 DEF CreateContent, WriteContent, DeleteContent, CheckPending, OpenReview,
       SaveResult, FindDoc, stores
  <2> QED
    BY <1>2, <2>1, <2>2, <2>3, <2>4 DEF Step
<1>3. ASSUME NEW r \in Reqs, Start(r)
      PROVE  UNCHANGED <<row, queue>>
  BY <1>3 DEF Start, UploadFile, ReadForUpdate, ReadForArchive, ReadForDraft, ReadForRemove,
     ReadForSubmit, ReadForApprove, ReadForReject, ReadReview, stores
<1>4. \A r \in Reqs : ~Abort(r)
  BY NothingFails
<1>5. UNCHANGED workflowVars => UNCHANGED <<row, queue>>
  BY DEF workflowVars
<1> QED
  BY <1>1, <1>2, <1>3, <1>4, <1>5 DEF Next

\* When clients keep the requests on a document apart and none is cut short,
\* the service does what DocumentLifecycle promises: the status moves as its
\* operations say, a document is offered to retrieval only while published,
\* and every other step is invisible.
THEOREM WorkflowImplementsLifecycle ==
    ASSUME ~Overlap, MaxFaults = 0
    PROVE  Spec => /\ Lifecycle!LifecycleInit
                   /\ [][Lifecycle!LifecycleNext]_(Lifecycle!lifecycleVars)
<1>1. TypeOK /\ IsolatedInv /\ [Next]_workflowVars
        => [Lifecycle!LifecycleNext]_(Lifecycle!lifecycleVars)
  BY StepsAreSeen
<1> QED
  BY <1>1, FirstSeen, IsolatedAlways, PTL DEF Spec
=============================================================================
