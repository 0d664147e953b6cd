SPECIFICATION CallSpec
CONSTANTS
    FirstYear = 2020
    LastYear = 2028
    MaxYears = 2
    Exprs <- UnionLegs
    Starts <- CallStarts
    Calls <- UnionCalls
INVARIANTS CallTypeOK
PROPERTIES IsUnionFire CallTerminates
CHECK_DEADLOCK FALSE
