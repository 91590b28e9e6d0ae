SPECIFICATION Spec
CONSTANTS
    Docs = {d1}
    Reviews = {v1, v2}
    Contents = {c1}
    Reqs = {r1, r2}
    Queues = {search}
    Overlap = TRUE
    MaxFaults = 2
    NoDoc = NoDoc
    NoReview = NoReview
    NoContent = NoContent
SYMMETRY Symmetry
INVARIANTS
    TypeOK
    RowHasContent
    PublishedWasReviewed
    IndexTaskWasReviewed
CHECK_DEADLOCK FALSE
