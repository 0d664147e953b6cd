SPECIFICATION StrictSpec
CONSTANTS
    Asked <- HugeAsks
    Crcs = {0}
    I64Max = 3000
    StrictYears = {}
INVARIANT NeverPanics
CHECK_DEADLOCK FALSE
