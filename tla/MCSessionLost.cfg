SPECIFICATION MCSpec
CONSTANTS
    Vars <- MCVars
    Width = 2
    Clients <- MCBoth
    Askers = {}
INVARIANT
    EquationsKept
CHECK_DEADLOCK FALSE
