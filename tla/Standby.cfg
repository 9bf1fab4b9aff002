SPECIFICATION FairSpec
CONSTANTS
    r1 = r1
    r2 = r2
    g1 = g1
    s1 = s1
    Row = {r1}
    Gid = {g1}
    Reader = {s1}
    MaxTxn = 4
    MaxLsn = 6
    MaxImage = 2
    MaxUpset = 2
    CutImages = FALSE
INVARIANTS TypeOK Follows StampIsSpent
PROPERTIES CatchesUp ReadersUndisturbed
CHECK_DEADLOCK FALSE
