SPECIFICATION Spec
CONSTANTS
    c1 = c1
    k1 = k1
    k2 = k2
    Con <- OneCon
    Key <- TwoKeys
    Deferred <- OneCon
    WholeAfter = 1
    Value = {"a"}
    Cursor = {"c"}
    SaveName = {"s"}
    MaxRows = 2
    Budgets <- Mixes
SYMMETRY KeySymmetry
INVARIANTS TypeOK BrokenKeysAreOwed SettingsSettle CursorsSettle QueueFollowsTransaction
CHECK_DEADLOCK FALSE
