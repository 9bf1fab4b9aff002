SPECIFICATION Spec
CONSTANTS
    r1 = r1
    r2 = r2
    Row <- TwoRows
    MaxTxn = 2
    MaxOps = 1
    MaxSeq = 0
    MaxCkpt = 0
    MaxCrash = 1
    MaxLsn = 6
    MaxFault = 1
    SpillAt = 2
    PowerLoss = TRUE
    SpillFails = TRUE
    FlushFails = FALSE
    SyncFails = FALSE
SYMMETRY RowSymmetry
PROPERTIES RecoveryIsExact
CHECK_DEADLOCK FALSE
