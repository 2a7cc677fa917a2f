SPECIFICATION MCSpec
CONSTANTS
    Vars <- MCVars
    Width = 2
    Clients <- MCClients
    Askers <- MCAskers
INVARIANTS
    AnswersRight
    HintHolds
    BankedIsModel
    EquationsKept
CHECK_DEADLOCK FALSE
