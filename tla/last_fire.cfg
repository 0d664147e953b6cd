SPECIFICATION TailSpec
CONSTANTS
    Minute = 1
    ProbeLimit = 24
    Zones <- Springs
    Schedules <- SingleFires
    Nows <- MiddleDay
    Horizons = {60}
    GuardLimit = 4
INVARIANTS BadDateMeansNone
CHECK_DEADLOCK FALSE
