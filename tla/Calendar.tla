------------------------------- MODULE Calendar -------------------------------
(***************************************************************************)
(* The proleptic Gregorian calendar the search walks over.                 *)
(*                                                                         *)
(* It stands for chrono's NaiveDateTime, which the repository uses as an   *)
(* external library: a finite range of instants and their civil fields.    *)
(* A month is its index, counted from January of year 0; a day is its      *)
(* number, counted from 1 January of year 1; an instant is a day and a     *)
(* time of day.                                                            *)
(*                                                                         *)
(* FirstYear .. LastYear is the range chrono can represent (about 262,000  *)
(* years either way in the library; a few years in a TLC run).             *)
(***************************************************************************)
EXTENDS MonthLengths

CONSTANTS FirstYear, LastYear

ASSUME CalendarAssumption ==
    /\ FirstYear \in Int
    /\ LastYear \in Int
    /\ FirstYear <= LastYear

(***************************************************************************)
(* Months.                                                                 *)
(***************************************************************************)

MonthIndex(year, month) == 12 * year + month - 1

MonthYear(m)   == m \div 12
MonthNumber(m) == (m % 12) + 1
MonthLength(m) == last_day_of_month(MonthYear(m), MonthNumber(m))

FirstMonth == MonthIndex(FirstYear, 1)
LastMonth  == MonthIndex(LastYear, 12)
Months     == FirstMonth .. LastMonth

DaysBeforeYear(year) ==
    LET past == year - 1
    IN  365 * past + past \div 4 - past \div 100 + past \div 400

\* Days of the year before the month begins, from the table of month ends.
DaysBeforeMonth(year, month) ==
    <<0, 31, 59, 90, 120, 151, 181, 212, 243, 273, 304, 334>>[month]
      + (IF month > 2 /\ is_leap(year) THEN 1 ELSE 0)

\* The day number of the first of month m, in closed form.
MonthOrigin(m) ==
    DaysBeforeYear(MonthYear(m)) + DaysBeforeMonth(MonthYear(m), MonthNumber(m))

MonthStart == [m \in FirstMonth .. (LastMonth + 1) |-> MonthOrigin(m)]

(***************************************************************************)
(* Days.                                                                   *)
(***************************************************************************)

Days == MonthStart[FirstMonth] .. (MonthStart[LastMonth + 1] - 1)

MonthOf ==
    [t \in Days |->
        CHOOSE m \in Months : MonthStart[m] <= t /\ t < MonthStart[m + 1]]

YearOf(t)    == MonthYear(MonthOf[t])
MonthNoOf(t) == MonthNumber(MonthOf[t])
DomOf(t)     == t - MonthStart[MonthOf[t]] + 1

\* Days from Sunday; 1 January of year 1, day 0, is a Monday.
DowOf(t) == (t + 1) % 7

(***************************************************************************)
(* Instants.                                                               *)
(***************************************************************************)

Instants == [day : Days, h : 0..23, mi : 0..59, s : 0..59]

Before(a, b) ==
    \/ a.day < b.day
    \/ a.day = b.day /\ a.h < b.h
    \/ a.day = b.day /\ a.h = b.h /\ a.mi < b.mi
    \/ a.day = b.day /\ a.h = b.h /\ a.mi = b.mi /\ a.s < b.s

\* Adding a signed number of days, hours, minutes or seconds.  The sum may
\* lie on a day outside Days, where chrono's checked addition returns None.
AddDays(c, k)    == [c EXCEPT !.day = @ + k]
AddHours(c, k)   == AddDays([c EXCEPT !.h = (@ + k) % 24], (c.h + k) \div 24)
AddMinutes(c, k) == AddHours([c EXCEPT !.mi = (@ + k) % 60], (c.mi + k) \div 60)
AddSeconds(c, k) == AddMinutes([c EXCEPT !.s = (@ + k) % 60], (c.s + k) \div 60)

=============================================================================
