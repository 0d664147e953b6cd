SPECIFICATION TailSpec
CONSTANTS
    Minute = 1
    ProbeLimit = 24
    Zones <- HourZones
    Schedules <- TailSchedules
    Nows <- MiddleDay
    Horizons = {60}
    GuardLimit = 3
INVARIANTS TailTypeOK Progresses
PROPERTIES IsNextInstant
CHECK_DEADLOCK FALSE
