------------------------------- MODULE MCClients -------------------------------
(***************************************************************************)
(* Instances of Clients for TLC.  A tick is a microsecond, two ticks are a *)
(* second and two seconds a minute; an hour has four minutes and a day six *)
(* hours.                                                                  *)
(***************************************************************************)
EXTENDS Clients

Hour == 4 * Minute
Day  == 6 * Hour

\* Fires of days 2 to 4.
Daily(H, M) == {d * Day + h * Hour + m * Minute : d \in 2..4, h \in H, m \in M}
EveryDay(H, M, star) == [fires |-> Daily(H, M), hour_star |-> star, secs |-> FALSE]

Change == 3 * Day + 2 * Hour
Spring == [first |-> 0, changes |-> {<<Change, Hour>>}]
Autumn == [first |-> Hour, changes |-> {<<Change, 0>>}]

ClientZones == {NoTz, Spring, Autumn}

ClientSchedules ==
    {EveryDay({2}, {1}, FALSE), EveryDay({1, 2, 3}, {0, 2}, FALSE), EveryDay(0..5, {1}, TRUE),
     [fires |-> {3 * Day + Hour, 3 * Day + 4 * Hour}, hour_star |-> FALSE, secs |-> FALSE],
     [fires |-> {3 * Day + 4 * Hour}, hour_star |-> FALSE, secs |-> FALSE],
     [fires |-> {3 * Day + 4 * Hour + Minute + Second}, hour_star |-> FALSE, secs |-> TRUE]}

CallerNows == {3 * Day + Hour + 2 * Minute, 3 * Day + 2 * Hour + Minute}

RangesOf(zones, ends) ==
    [zone : zones, from : ends, to : ends, exclude_ends : BOOLEAN]

\* Ends whose local time and its neighbours exist once, before and after the
\* change.
PlainEnds ==
    {Change - 2 * Hour + q * Minute : q \in {0, 1, 2, 16, 17, 20}}

\* Ends around the hour that is skipped: right after it, and away from it.
GapRanges == RangesOf({Spring}, {Change - 2 * Hour, Change, Change + 2 * Hour})

\* Those that are right, and those that are refused.
UsualRanges == RangesOf(ClientZones, PlainEnds) \cup GapRanges

\* Around fires of each kind, in microseconds, in any order.
AnyTests ==
    LET near(t) == (t - Minute) .. (t + 3 * Minute)
    IN  UNION {[from : near(t), to : near(t)] : t \in {3 * Day + 2 * Hour, 3 * Day + 4 * Hour}}

ASSUME RegularInstances == AllRegular
ASSUME PlainInstances == AllPlain

=============================================================================
