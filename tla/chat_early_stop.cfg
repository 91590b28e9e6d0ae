SPECIFICATION Spec
CONSTANTS
    Sessions = {s1, s2}
    Turns = {t1, t2, t3}
    Ops = {o1}
    MaxWindow = 3
    MaxFaults = 1
    MaxRacing = 2
    EarlyStops = TRUE
    Null = Null
SYMMETRY Symmetry
INVARIANT
    EarlierTurnsKept
CHECK_DEADLOCK FALSE
