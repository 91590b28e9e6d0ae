SPECIFICATION HubSpec
CONSTANTS
    Docs = {d1}
    Reviews = {v1, v2}
    Contents = {c1, c2}
    Reqs = {r1}
    Queues = {"search", "rag"}
    Jobs = {j1, j2}
    Overlap = FALSE
    Spaced = TRUE
    MaxFaults = 0
    NoDoc = NoDoc
    NoReview = NoReview
    NoContent = NoContent
    NotIndexed = NotIndexed
INVARIANTS
    SettledAgrees
PROPERTY
    EventuallyAgrees
CHECK_DEADLOCK FALSE
