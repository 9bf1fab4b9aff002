SPECIFICATION Spec
CONSTANTS
    r1 = r1
    r2 = r2
    Row <- TwoRows
    MaxTxn = 2
    MaxOps = 1
    MaxSeq = 1
    MaxCkpt = 1
    MaxCrash = 2
    MaxLsn = 6
    MaxFault = 0
    SpillAt = 2
    PowerLoss = TRUE
    SpillFails = FALSE
    FlushFails = FALSE
    SyncFails = FALSE
SYMMETRY RowSymmetry
INVARIANTS TypeOK PositionsClimb OpensAgain
PROPERTIES RecoveryIsExact NextvalNeverRepeats
CHECK_DEADLOCK FALSE
