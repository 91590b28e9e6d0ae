------------------------- MODULE DocumentLifecycle -------------------------
(***************************************************************************)
(* What the document service promises to its callers, with every request   *)
(* taken as one indivisible step: the status a document is in, and whether *)
(* the retrieval side has been told to serve it.  DocumentWorkflow is the  *)
(* detailed specification; it is checked to implement this one when        *)
(* requests do not overlap and none is cut short.                          *)
(***************************************************************************)

CONSTANT Docs

VARIABLES
    status,     \* status[d]: the life of document d as a client sees it
    served      \* served[d]: the last task announced for d asked to index it

lifecycleVars == <<status, served>>

LifecycleInit ==
    /\ status = [d \in Docs |-> "Absent"]
    /\ served = [d \in Docs |-> FALSE]

\* One request moves one document from a status in `from` to the status `to`.
Move(d, from, to) ==
    /\ status[d] \in from
    /\ status' = [status EXCEPT ![d] = to]
    /\ UNCHANGED served

Create(d)  == Move(d, {"Absent"}, "Draft")
Edit(d)    == Move(d, {"Draft", "Published", "Archived"}, "Draft")
Submit(d)  == Move(d, {"Draft", "Published"}, "PendingReview")
Approve(d) == Move(d, {"PendingReview"}, "Published")
Reject(d)  == Move(d, {"PendingReview"}, "Draft")
Archive(d) == Move(d, {"Published"}, "Archived")
Delete(d)  == Move(d, {"Draft", "Published", "Archived", "PendingReview"}, "Deleted")

\* A document is offered to retrieval only while it is published.
Serve(d) ==
    /\ status[d] = "Published"
    /\ served' = [served EXCEPT ![d] = TRUE]
    /\ UNCHANGED status

\* It may be withdrawn at any time, and must be once it is not published.
Withdraw(d) ==
    /\ served[d]
    /\ served' = [served EXCEPT ![d] = FALSE]
    /\ UNCHANGED status

LifecycleNext ==
    \E d \in Docs :
        \/ Create(d) \/ Edit(d) \/ Submit(d) \/ Approve(d) \/ Reject(d)
        \/ Archive(d) \/ Delete(d) \/ Serve(d) \/ Withdraw(d)

LifecycleSpec ==
    /\ LifecycleInit
    /\ [][LifecycleNext]_lifecycleVars
    /\ \A d \in Docs :
        /\ WF_lifecycleVars(Serve(d))
        /\ WF_lifecycleVars(status[d] # "Published" /\ Withdraw(d))

=============================================================================
