SPECIFICATION Spec
CONSTANTS
    Vars <- MCVars
    InputClauses <- MCInputClauses
    SEARCH_POS_MIN_LEN = 4
    MaxSlots = 4
    DecisionLits <- MCDecisionLits
    LEVEL_BITS = 64
    CORE_ON = TRUE
    AssumptionLists <- MCAssumptionLists
    MaxCalls = 3
    RESTART_REUSE = TRUE
    AskAgain = TRUE
INVARIANTS
    HasModelIsModel
ACTION_CONSTRAINT
    OneFamily
