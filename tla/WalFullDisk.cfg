SPECIFICATION FairSpec
CONSTANTS
    r1 = r1
    r2 = r2
    Row <- OneRow
    MaxTxn = 2
    MaxOps = 1
    MaxSeq = 1
    MaxCkpt = 1
    MaxCrash = 1
    MaxLsn = 4
    MaxFault = 1
    SpillAt = 2
    PowerLoss = FALSE
    SpillFails = TRUE
    FlushFails = TRUE
    SyncFails = TRUE
PROPERTIES FailStopIsExact StagedCommitsEnd
CHECK_DEADLOCK FALSE
