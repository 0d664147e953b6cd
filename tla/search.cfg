SPECIFICATION FairSpec
CONSTANTS
    FirstYear = 2095
    LastYear = 2104
    MaxYears = 7
    Exprs <- SearchExprs
    Starts <- SearchStarts
INVARIANTS TypeOK NothingSkipped
PROPERTIES MovesAway IsNextFire Terminates
CHECK_DEADLOCK FALSE
