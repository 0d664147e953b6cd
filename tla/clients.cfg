SPECIFICATION ClientSpec
CONSTANTS
    Minute = 4
    Second = 2
    ProbeLimit = 24
    Zones <- ClientZones
    Schedules <- ClientSchedules
    Nows <- CallerNows
    Horizons = {40, 240}
    GuardLimit = 4
    Counts = {0, 3}
    Ranges <- UsualRanges
    Tests <- AnyTests
INVARIANTS CronTypeOK GaplessWalk CursorFollows WholeRange MatchesFires
PROPERTIES RoundTrip
CHECK_DEADLOCK FALSE
