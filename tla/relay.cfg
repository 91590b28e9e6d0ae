SPECIFICATION Spec
CONSTANTS
    Ids = {i1, i2}
    Clients = {b1, b2}
    Streams = {s1, s2}
    MaxChunks = 2
    Prompt = TRUE
    NoId = NoId
    NoClient = NoClient
    NoStream = NoStream
INVARIANTS
    TypeOK
    EveryTurnInOrder
    NoStrayConnection
    CompleteIsWhole
PROPERTY
    EndedTurnReleased
CHECK_DEADLOCK FALSE
