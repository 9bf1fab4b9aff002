SPECIFICATION Spec
CONSTANTS
    t1 = t1
    NoTable = NoTable
    Table = {t1}
    TableOf <- OneTable
    MaxRow = 2
    InitRows = {1}
    MaxTxn = 3
    Level = {"RepeatableRead"}
    MaxWrites = 2
    SaveName = {"s"}
    LockModes = {}
    MaxFresh = 0
    Purger = {"p"}
    Durable = TRUE
    CanYield = TRUE
INVARIANTS TypeOK SnapshotReads UncommittedOnTop EndedIsCommitted SkippedTableIsClean
PROPERTIES FirstUpdaterWins
CHECK_DEADLOCK FALSE
