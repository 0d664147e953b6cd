SPECIFICATION CallSpec
CONSTANTS
    FirstYear = 2020
    LastYear = 2028
    MaxYears = 2
    Exprs <- NthLegs
    Starts <- CallStarts
    Calls <- NthCalls
INVARIANTS NoFieldDropped
CHECK_DEADLOCK FALSE
