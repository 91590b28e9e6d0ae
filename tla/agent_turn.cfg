SPECIFICATION Spec
CONSTANTS
    Texts = {"a b", "a  b", "a  b ", "hello", "draw", "?", " ", ""}
    Questions = {"a b", "hello", "draw"}
    Written = {"a  b ", "?", " "}
    Trim <- MCTrim
    Squeeze <- MCSqueeze
    Blank = ""
    Greetings = {"hello"}
    Diagrams = {"draw"}
    Marks = {"?"}
    Results <- MCResults
    Calls = {c1, c2}
    MaxModelCalls = 3
    MaxToolCalls = 4
    MaxNumber = 2
    Null = Null
SYMMETRY Symmetry
INVARIANTS
    TypeOK
    BudgetsKept
    CitationsResolve
    ResponseHasEvidence
    RetryAsksAnew
PROPERTY
    CitedIsStored
CHECK_DEADLOCK FALSE
