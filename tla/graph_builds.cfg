SPECIFICATION Spec
CONSTANTS
    Docs = {"d1", "d2"}
    Texts = {"short", "long", "blank"}
    Names = {"x", "y", "z"}
    Users = {"u1", "u2"}
    Jobs = {j1, j2}
    Chunking <- MCChunking
    Answer <- MCAnswer
    Author <- MCAuthor
    Tags <- MCTags
    Keywords <- MCKeywords
    Unrestricted = {"u2"}
    MaxEntities = 3
    MaxRelations = 2
    Limit = 2
    MaxEvents = 3
    MaxFaults = 1
    Null = Null
INVARIANTS
    TypeOK
    NothingDangles
    OrphansCleared
    GraphAgrees
    AnswersAreClosed
SYMMETRY Symmetry
CHECK_DEADLOCK FALSE
