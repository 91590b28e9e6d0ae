SPECIFICATION Spec
CONSTANTS
    Users = {u1, u2}
    Names = {n1}
    Calls = {c1, c2}
    MaxCodes = 1
    RoleCodes = {"ROLE_ADMIN", "ROLE_REVIEWER"}
    PermissionCodes = {"document:list", "system:user"}
    Reviewer = "ROLE_REVIEWER"
    Admin = "ROLE_ADMIN"
    DocumentList = "document:list"
    Undefined = "undefined"
    Members = {"m1"}
    Setters = {"s1", "s2"}
    TeamIds = {"t1", "t2", "t3"}
    Root = "0"
    Editors = {"e1"}
    Formats = {"txt", "md", "docx", "pdf", "pptx", "xlsx", "png", "exe"}
    Pages = 2
    Images = 2
    SlideNumbers = {1, 2, 10}
    Rows = 2
    Cols = 2
    Lengths = {0, 1, 2, 3, 4, 5, 6, 7}
    ChunkSizes = {1, 2, 3, 4}
    Overlaps = {0, 1, 2, 3, 4, 5}
    BatchSizes = {1, 2, 3}
    Chunks = {"a", "b", "c", "d"}
    HybridTopK = 20
    RrfC = 2
    Scores = {1, 9}
    MinScore = 4
    TopKs = {1, 2}
SYMMETRY Symmetry
INVARIANTS
    ServicesTypeOK
    ActivationByLink
    RequestsTakeEffect
    TreeIsFinite
    ParsedInOrder
    IndexedWhole
    SearchKeepsOrder
CHECK_DEADLOCK FALSE
