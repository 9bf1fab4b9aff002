CONSTANTS
    p1 = p1
    p2 = p2
    t1 = t1
    t2 = t2
    Page = {p1, p2}
    Thread = {t1, t2}
    Capacity = 1
    MaxWrite = 2
    MaxImage = 1
    MaxFree = 1
    MaxSpill = 2
SPECIFICATION Spec
INVARIANTS TypeOK ReadsAreCurrent DirtyCounted
PROPERTIES ImplementsPageMap
SYMMETRY Symmetry
