SPECIFICATION TailSpec
CONSTANTS
    Minute = 1
    ProbeLimit = 24
    Zones <- Springs
    Schedules <- EveryTick
    Nows <- MiddleDay
    Horizons = {60}
    GuardLimit = 2
INVARIANTS BadDateMeansNone
CHECK_DEADLOCK FALSE
