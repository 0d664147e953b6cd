------------------------------- MODULE StrictCheck -------------------------------
(***************************************************************************)
(* The strict checks: `check_strict` of src/expand.rs, an optional second  *)
(* look at what the parser has accepted.                                   *)
(***************************************************************************)
EXTENDS FieldMeaning, MonthLengths

CONSTANT StrictYears    \* the sets of years a caller may give

ASSUME StrictAssumption == \A years \in StrictYears : years \subseteq Nat

VARIABLES
    strict_year,    \* the years given
    verdict         \* "unchecked", "possible" or "impossible"

strictVars == <<expandVars, strict_year, verdict>>

YEAR_FIELD == 7

StrictInit == Init /\ strict_year = {} /\ verdict = "unchecked"

has_leap_year(given) ==
    LET years == expanded[YEAR_FIELD] IN
    IF given # {} THEN \E y \in given : is_leap(y)
    ELSE Columns = 7 => years = Star \/ years.nums = {} \/ \E y \in years.nums : is_leap(y)

\* Mutant of days_in_month: February has 28 days.
days_in_month_28(m, given) == DAYS[m]

days_in_month(m, given) == IF m = 2 /\ has_leap_year(given) THEN 29 ELSE DAYS[m]

\* A "*" or "l" alone, or no number at all, is not checked.
Unchecked ==
    LET days == expanded[DAY_FIELD]  months == expanded[MONTH_FIELD] IN
    \/ days = Star \/ days = [Empty EXCEPT !.last = TRUE] \/ months = Star
    \/ days.nums = {} \/ months.nums = {}

Impossible(given) ==
    /\ ~Unchecked
    /\ \A m \in expanded[MONTH_FIELD].nums, d \in expanded[DAY_FIELD].nums : d > days_in_month(m, given)

CheckStrict ==
    /\ outcome = "ok" /\ verdict = "unchecked"
    /\ strict_year' \in StrictYears
    /\ verdict' = IF Impossible(strict_year') THEN "impossible" ELSE "possible"
    /\ UNCHANGED expandVars

StrictNext ==
    \/ Next /\ UNCHANGED <<strict_year, verdict>>
    \/ CheckStrict

StrictSpec == StrictInit /\ [][StrictNext]_strictVars

(***************************************************************************)
(* Property.                                                               *)
(***************************************************************************)

\* Numbers, or "*" alone.
Plain(f) ==
    \/ expanded[f] = Star
    \/ ~(expanded[f].star \/ expanded[f].last) /\ expanded[f].nums # {}

YearsInPlay ==
    IF strict_year # {} THEN strict_year
    ELSE IF Columns = 7 THEN Matching(YEAR_FIELD)
    ELSE All(YEAR_FIELD)

\* Of plain fields, exactly those are rejected whose days are in none of their
\* months in any year in play, given by the caller or by the year field.
RejectsImpossible ==
    verdict # "unchecked"
      /\ Plain(DAY_FIELD) /\ Plain(MONTH_FIELD) /\ (Columns = 7 => Plain(YEAR_FIELD))
      /\ ~nearest_weekday
    => (verdict = "possible" <=>
            \E y \in YearsInPlay, m \in Matching(MONTH_FIELD), d \in Matching(DAY_FIELD) :
                d <= last_day_of_month(y, m))

=============================================================================
