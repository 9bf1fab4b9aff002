SPECIFICATION FairSpec
CONSTANTS
    t1 = t1
    NoTable = NoTable
    Table = {t1}
    TableOf <- OneTable
    MaxRow = 1
    InitRows = {1}
    MaxTxn = 3
    Level = {"ReadCommitted"}
    MaxWrites = 2
    SaveName = {}
    LockModes = {TRUE, FALSE}
    MaxFresh = 1
    Purger = {"p"}
    Durable = TRUE
    CanYield = FALSE
INVARIANTS SnapshotReads LockedRowIsSettled LockedTableIsQuiet
PROPERTIES FirstUpdaterWins EndedTransactionsLetGo PurgeConverges
CHECK_DEADLOCK FALSE
