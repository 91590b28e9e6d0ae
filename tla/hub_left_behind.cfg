SPECIFICATION HubSpec
CONSTANTS
    Docs = {d1}
    Reviews = {v1, v2}
    Contents = {c1, c2}
    Reqs = {r1}
    Queues = {"rag"}
    Jobs = {j1, j2}
    Overlap = FALSE
    Spaced = FALSE
    NotIndexed = NotIndexed
    MaxFaults = 0
    NoDoc = NoDoc
    NoReview = NoReview
    NoContent = NoContent
INVARIANT
    NothingLeftBehind
CHECK_DEADLOCK FALSE
