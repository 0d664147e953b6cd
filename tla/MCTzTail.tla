-------------------------------- MODULE MCTzTail --------------------------------
(***************************************************************************)
(* Instances of TzTail for TLC.  A day of six hours of four ticks; three   *)
(* days, and a change of offset in the middle one.                         *)
(***************************************************************************)
EXTENDS TzTail

Hour == 4
Day  == 6 * Hour

\* The local times of hours H and minutes M, every day.
Daily(H, M) == {d * Day + h * Hour + m : d \in 0..6, h \in H, m \in M}

AllHours   == 0..5
HourSets   == {{0}, {1}, {2}, {3}, {1, 2}, {2, 3}, {1, 4}, AllHours}
MinuteSets == {{0}, {1}, {3}, {0, 2}, {1, 2}, {0, 1, 2, 3}}

\* Forward by an hour at local hour 2 of day 3; back by an hour at local hour 3.
Spring == [first |-> 0, changes |-> {<<3 * Day + 2 * Hour, Hour>>}]
Autumn == [first |-> Hour, changes |-> {<<3 * Day + 2 * Hour, 0>>}]
\* East of Greenwich, and both changes within the days searched.
Both   == [first |-> 2 * Hour,
           changes |-> {<<3 * Day - 2 * Hour, 3 * Hour>>, <<4 * Day - Hour, 2 * Hour>>}]

HourZones == {NoTz, Spring, Autumn, Both}

DailySchedules ==
    {[fires |-> Daily(H, M), hour_star |-> H = AllHours] : H \in HourSets, M \in MinuteSets}

\* A single fire, as of an expression with a day, a month and a year.
SingleFires ==
    {[fires |-> {3 * Day + m}, hour_star |-> FALSE] : m \in 0 .. (Day - 1)}

TailSchedules == DailySchedules \cup SingleFires

MiddleDay == (3 * Day - Hour) .. (3 * Day + 5 * Hour)

Springs == {Spring}

\* Every tick of every hour.
EveryTick == {[fires |-> Daily(AllHours, 0..3), hour_star |-> TRUE]}

\* What the proofs assume of zones and schedules, of hours and their minutes.
ASSUME RegularInstances == Zones = HourZones => AllRegular

=============================================================================
