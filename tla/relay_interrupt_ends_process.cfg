SPECIFICATION Spec
CONSTANTS
    Ids = {i1}
    Clients = {b1}
    Streams = {s1, s2}
    MaxChunks = 1
    Prompt = FALSE
    NoId = NoId
    NoClient = NoClient
    NoStream = NoStream
INVARIANT
    KeepsServing
CHECK_DEADLOCK FALSE
