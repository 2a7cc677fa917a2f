SPECIFICATION MCSpec
CONSTANTS
    AigInputs <- MCVariables
    TwoLevelSubst = TRUE
    SubstShareLimit = 9
    MAX_PASSES = 4
    Bits <- MCBits
    Clients <- MCClients
INVARIANTS
    RefsKeepTheirFunction
    CnfRight
CHECK_DEADLOCK FALSE
