SPECIFICATION HubSpec
CONSTANTS
    Docs = {d1}
    Reviews = {v1, v2}
    Contents = {c1, c2}
    Reqs = {r1}
    Queues = {"rag"}
    Jobs = {j1, j2}
    Overlap = TRUE
    Spaced = FALSE
    NotIndexed = NotIndexed
    MaxFaults = 2
    NoDoc = NoDoc
    NoReview = NoReview
    NoContent = NoContent
SYMMETRY Symmetry
INVARIANTS
    HubTypeOK
    IndexedWasReviewed
CHECK_DEADLOCK FALSE
