SPECIFICATION Spec
CONSTANTS
    Vars <- MCVars
    InputClauses <- MCInputClauses
    SEARCH_POS_MIN_LEN = 4
    MaxSlots = 4
    DecisionLits <- MCDecisionLits
    MaxDecisions = 4
    MaxLearnts = 1
INVARIANTS
    WatchListsMatch
    PropagationRight
    LevelsExact
    ReasonsOrdered
CHECK_DEADLOCK FALSE
