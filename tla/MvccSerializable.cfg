SPECIFICATION Spec
CONSTANTS
    t1 = t1
    NoTable = NoTable
    Table = {t1}
    TableOf <- OneTable
    MaxRow = 2
    InitRows = {1, 2}
    MaxTxn = 4
    Level = {"Serializable", "ReadCommitted"}
    MaxWrites = 1
    SaveName = {}
    LockModes = {}
    MaxFresh = 0
    Purger = {}
    Durable = TRUE
    CanYield = FALSE
PROPERTIES SerializableRowReads
CHECK_DEADLOCK FALSE
