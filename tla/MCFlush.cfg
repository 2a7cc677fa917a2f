SPECIFICATION MCSpec
INVARIANTS
    BatchKept
    SystemTold
    RowAnswersRight
    RowsPropagate
PROPERTIES
    PassesEnd
CHECK_DEADLOCK FALSE
