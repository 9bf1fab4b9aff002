SPECIFICATION Spec
CONSTANTS
    r1 = r1
    r2 = r2
    g1 = g1
    s1 = s1
    Row = {r1}
    Gid = {g1}
    Reader = {s1}
    MaxTxn = 3
    MaxLsn = 7
    MaxImage = 2
    MaxUpset = 2
    CutImages = TRUE
PROPERTIES AppliedSurvives
CHECK_DEADLOCK FALSE
