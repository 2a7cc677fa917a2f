SPECIFICATION InprocSpec
CONSTANTS
    Vars <- MCVars
    InputClauses <- MCInputClauses
    SEARCH_POS_MIN_LEN = 9
    MaxSlots = 14
    DecisionLits <- MCDecisionLits
    LEVEL_BITS = 2
    CORE_ON = TRUE
    AssumptionLists <- MCAssumptionLists
    MaxCalls = 2
    RESTART_REUSE = TRUE
    AskAgain = FALSE
    Bank <- MCBank
    AugMax = 1
    AUG_RECYCLE = TRUE
    VIV_MAX_LBD = 6
INVARIANTS
    UipExists
    LearnedIsRight
    StoredFollow
    ProbingLeavesNothing
    UnsatIsRight
ACTION_CONSTRAINT
    InOrder
