SPECIFICATION StrictSpec
CONSTANTS
    Asked <- AllAsks
    Crcs <- SomeCrcs
    I64Max = 3000
    StrictYears <- GivenYears
INVARIANTS ExpandTypeOK AcceptsWellFormed NamesItsItems RejectsImpossible
CHECK_DEADLOCK FALSE
