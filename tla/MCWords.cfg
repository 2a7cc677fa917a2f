SPECIFICATION MCSpec
CONSTANTS
    WORD = 12
    PUSHDOWN = TRUE
    Clients <- MCClients
INVARIANTS
    
    KnownBitsHold
    CircuitsAreRight
CHECK_DEADLOCK FALSE
