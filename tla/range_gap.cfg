SPECIFICATION ClientSpec
CONSTANTS
    Minute = 4
    Second = 2
    ProbeLimit = 24
    Zones <- ClientZones
    Schedules <- ClientSchedules
    Nows = {}
    Horizons = {240}
    GuardLimit = 4
    Counts = {0}
    Ranges <- GapRanges
    Tests = {}
INVARIANTS EndsAccepted
CHECK_DEADLOCK FALSE
