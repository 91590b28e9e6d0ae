SPECIFICATION Spec
CONSTANTS
    Docs = {d1, d2}
    Reviews = {v1, v2}
    Contents = {c1, c2}
    Reqs = {r1, r2}
    Queues = {search}
    Overlap = FALSE
    MaxFaults = 0
    NoDoc = NoDoc
    NoReview = NoReview
    NoContent = NoContent
INVARIANTS
    PublishedContentWasApproved
    PendingIffOneOpenReview
    RemovedFromBothStores
PROPERTY
    ImplementsLifecycle
CHECK_DEADLOCK FALSE
