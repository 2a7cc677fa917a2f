SPECIFICATION MCSpec
CONSTANTS
    v1 = v1
    v2 = v2
    v3 = v3
    v4 = v4
    v5 = v5
    EMPTY = EMPTY
    Vars <- MCVars
    Optional <- MCOptional
    MaxAct = 2
SYMMETRY MCAlike
INVARIANTS
    HeapIndexed
    CopiesExact
    UndecidedQueued
    NothingDangles
PROPERTIES
    PickedIsMax
    CollectionIsMute
    WatchListsKept
CHECK_DEADLOCK FALSE
