SPECIFICATION FairSpec
CONSTANTS
    r1 = r1
    g1 = g1
    Row = {r1}
    Gid = {g1}
    MaxTxn = 2
    MaxPrepared = 2
    MaxLsn = 7
    MaxUpset = 2
INVARIANTS TypeOK PreparedIsHeld OpensAgain
PROPERTIES KeepsPromises RecoversPrepared FinishersEnd
CHECK_DEADLOCK FALSE
