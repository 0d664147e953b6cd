------------------------------- MODULE CalcSearch -------------------------------
(***************************************************************************)
(* The date search: `calc` of src/calc.rs, one action per proc_ block.     *)
(*                                                                         *)
(* A request asks for the first instant after, or before, an instant at    *)
(* which an expression fires.  The code keeps a cursor and loops: it       *)
(* leaves the loop with an error when the cursor is too many years away,   *)
(* otherwise tries the fields from the year down to the second; the first  *)
(* field the cursor does not satisfy moves the cursor to the nearest value *)
(* that might, resets everything below it and restarts the loop.  When no  *)
(* field moves the cursor it is the answer.  A step of this specification  *)
(* is one turn of the loop.                                                *)
(***************************************************************************)
EXTENDS SearchRequest, FiniteSetsExt

VARIABLES
    req,      \* the request: the arguments of calc
    cur,      \* unaware_time, the cursor
    outcome   \* "searching", "found" (cur is the answer) or an error

vars == <<req, cur, outcome>>

expr   == req.expr
isPrev == req.isPrev

(***************************************************************************)
(* The nearest-value helpers.                                              *)
(***************************************************************************)

\* get_next_nearest_diff: the nearest value not before x and not past the
\* range, otherwise the first value of the next round.
NextDiff(x, field, range) ==
    LET ahead == {n \in field.nums : x <= n /\ n <= range}
        first == IF field.nums = {} THEN range ELSE Min(field.nums)
    IN  IF ahead # {} THEN Min(ahead) - x
        ELSE IF field.last /\ x <= range THEN range - x
        ELSE first - x + range

\* get_prev_nearest_diff: range is the length of the round before.
PrevDiff(x, field, range) ==
    LET behind == {n \in field.nums : n <= x}
        round  == {n \in field.nums : n <= range}
    IN  IF behind # {} THEN Max(behind) - x
        ELSE IF field.last THEN -x
        ELSE IF round # {} THEN Max(round) - x - range
        ELSE -range

\* Mutant of NearestDiff: the direction is forgotten.
NearestDiff_Forwards(x, field, range) == NextDiff(x, field, range)

NearestDiff(x, field, range) ==
    IF isPrev THEN PrevDiff(x, field, range) ELSE NextDiff(x, field, range)

\* The values of a set that lie in the direction of travel, and the nearest.
Ahead(x, S)   == {n \in S : IF isPrev THEN n <= x ELSE x <= n}
Nearest(S)    == IF isPrev THEN Max(S) ELSE Min(S)

(***************************************************************************)
(* Days a month offers to W and to #.                                      *)
(***************************************************************************)

\* get_nearest_weekday, as a day of month m.
NearestWeekday(m, dom) ==
    LET last == MonthLength(m)
        day  == IF dom <= last THEN dom ELSE last
        dow  == DowOf(MonthStart[m] + day - 1)
    IN  IF dow \in 1..5 THEN day
        ELSE IF dow = 6 THEN (IF day > 1 THEN day - 1 ELSE day + 2)
        ELSE (IF day < last THEN day + 1 ELSE day - 2)

\* get_nth_weekday_of_month, the days of month m that fall on a weekday.
WeekdaysOf(m, dow) ==
    {d \in 1..MonthLength(m) : DowOf(MonthStart[m] + d - 1) = dow}

\* The n-th of those days, a set so that it may be missing.
NthOf(S, n) ==
    IF n = NTH_LAST
    THEN {d \in S : \A x \in S : x <= d}
    ELSE {d \in S : Cardinality({x \in S : x <= d}) = n}

(***************************************************************************)
(* How far each field wants to move the cursor; 0 when it is satisfied.    *)
(***************************************************************************)

month == MonthOf[cur.day]
dom   == DomOf(cur.day)

YearsAhead == Ahead(YearOf(cur.day), expr.year.nums)

YearDiff ==
    IF expr.year.star THEN 0 ELSE Nearest(YearsAhead) - YearOf(cur.day)

MonthDiff ==
    IF expr.month.star THEN 0
    ELSE NearestDiff(MonthNumber(month), expr.month, 12)

\* The day the month offers nearest to the cursor, otherwise out of the
\* month: to the first day of the next or the last day of the one before.
DayDiffTo(offered) ==
    LET ahead == Ahead(dom, offered)
    IN  IF ahead # {} THEN Nearest(ahead) - dom
        ELSE IF isPrev THEN -dom
        ELSE MonthLength(month) - dom + 1

NearestWeekdayDiff == DayDiffTo({NearestWeekday(month, d) : d \in expr.w})

\* Mutant of DayOfMonthDiff: going back, the length of the wrong month.
DayOfMonthDiff_ThisMonth ==
    IF expr.day.star \/ (expr.day.last /\ dom = MonthLength(month))
    THEN 0
    ELSE NearestDiff(dom, expr.day, MonthLength(month))

DayOfMonthDiff ==
    IF expr.day.star \/ (expr.day.last /\ dom = MonthLength(month))
    THEN 0
    ELSE NearestDiff(dom, expr.day,
                     IF isPrev THEN MonthLength(month - 1) ELSE MonthLength(month))

NthDiff == DayDiffTo(UNION {NthOf(WeekdaysOf(month, p[1]), p[2]) : p \in expr.nth})

DayOfWeekDiff ==
    IF expr.dow.star THEN 0 ELSE NearestDiff(DowOf(cur.day), expr.dow, 7)

HourDiff ==
    IF expr.hour.star THEN 0 ELSE NearestDiff(cur.h, expr.hour, 24)

MinuteDiff ==
    IF expr.minute.star THEN 0 ELSE NearestDiff(cur.mi, expr.minute, 60)

SecondDiff ==
    IF ~expr.secs \/ expr.second.star THEN 0 ELSE NearestDiff(cur.s, expr.second, 60)

DomDiff == IF expr.w # {} THEN NearestWeekdayDiff ELSE DayOfMonthDiff
DowDiff == IF expr.nth # {} THEN NthDiff ELSE DayOfWeekDiff

(***************************************************************************)
(* Initial state: one step off the start, then truncated.                  *)
(***************************************************************************)

\* calc knows no alternatives: it requires every field.
SearchRequests == {r \in Requests : ~r.expr.either}

CanStart(r) == FirstCandidate(r).day \in Days

StartCursor(r)  == IF CanStart(r) THEN FirstCandidate(r) ELSE r.at
StartOutcome(r) == IF CanStart(r) THEN "searching" ELSE "bad_type_range"

Init ==
    /\ req \in SearchRequests
    /\ cur = StartCursor(req)
    /\ outcome = StartOutcome(req)

(***************************************************************************)
(* One turn of the loop.                                                   *)
(***************************************************************************)

\* Mutant of WithinMaxYears: the last year of the search is left out.
WithinMaxYears_Short ==
    Distance(YearOf(FirstCandidate(req).day), YearOf(cur.day)) < MaxYears

\* The test at the head of the loop.
WithinMaxYears == WithinYears(req, YearOf(cur.day))

Fail(error) == outcome' = error /\ UNCHANGED <<req, cur>>

\* Move the cursor, or fail where chrono cannot represent the result.
MoveTo(c) ==
    IF c.day \in Days
    THEN cur' = c /\ UNCHANGED <<req, outcome>>
    ELSE Fail("bad_type_range")

\* Mutant of EdgeOfDay: going back, midnight of the day after as 24:00:00.
EdgeOfDay_Midnight24(t) ==
    IF isPrev THEN [day |-> t, h |-> 24, mi |-> 0, s |-> 0]
              ELSE [day |-> t, h |-> 0, mi |-> 0, s |-> 0]

\* The first or, going back, the last instant of a day.
EdgeOfDay(t) ==
    IF isPrev THEN [day |-> t, h |-> 23, mi |-> 59, s |-> 59]
              ELSE [day |-> t, h |-> 0, mi |-> 0, s |-> 0]

MoveToMonth(m) ==
    IF m \in Months
    THEN MoveTo(EdgeOfDay(IF isPrev THEN MonthStart[m + 1] - 1 ELSE MonthStart[m]))
    ELSE Fail("bad_type_range")

MoveByDays(diff) == MoveTo(EdgeOfDay(cur.day + diff))

GiveUp ==
    /\ outcome = "searching"
    /\ ~WithinMaxYears
    /\ Fail("bad_date")

Turn == outcome = "searching" /\ WithinMaxYears

NoYearLeft ==
    /\ Turn
    /\ ~expr.year.star /\ YearsAhead = {}
    /\ Fail("bad_date")

YearLeft == expr.year.star \/ YearsAhead # {}

\* Mutant of ProcYear: the jump is to this year's edge, not the next listed one's.
ProcYear_SameYear ==
    /\ Turn /\ YearLeft
    /\ YearDiff # 0
    /\ MoveToMonth(MonthIndex(YearOf(cur.day), IF isPrev THEN 12 ELSE 1))

ProcYear ==
    /\ Turn /\ YearLeft
    /\ YearDiff # 0
    /\ MoveToMonth(MonthIndex(YearOf(cur.day) + YearDiff, IF isPrev THEN 12 ELSE 1))

YearDone == Turn /\ YearLeft /\ YearDiff = 0

ProcMonth ==
    /\ YearDone
    /\ MonthDiff # 0
    /\ MoveToMonth(month + MonthDiff)

MonthDone == YearDone /\ MonthDiff = 0

ProcNearestWeekday ==
    /\ MonthDone
    /\ expr.w # {}
    /\ NearestWeekdayDiff # 0
    /\ MoveByDays(NearestWeekdayDiff)

ProcDayOfMonth ==
    /\ MonthDone
    /\ expr.w = {}
    /\ DayOfMonthDiff # 0
    /\ MoveByDays(DayOfMonthDiff)

DomDone == MonthDone /\ DomDiff = 0

ProcDayOfWeekNth ==
    /\ DomDone
    /\ expr.nth # {}
    /\ NthDiff # 0
    /\ MoveByDays(NthDiff)

ProcDayOfWeek ==
    /\ DomDone
    /\ expr.nth = {}
    /\ DayOfWeekDiff # 0
    /\ MoveByDays(DayOfWeekDiff)

DayDone == DomDone /\ DowDiff = 0

\* The last or first value of the fields below, by the direction of travel.
Edge == IF isPrev THEN 59 ELSE 0

ProcHour ==
    /\ DayDone
    /\ HourDiff # 0
    /\ MoveTo(AddHours([cur EXCEPT !.mi = Edge, !.s = Edge], HourDiff))

HourDone == DayDone /\ HourDiff = 0

ProcMinute ==
    /\ HourDone
    /\ MinuteDiff # 0
    /\ MoveTo(AddMinutes([cur EXCEPT !.s = Edge], MinuteDiff))

MinuteDone == HourDone /\ MinuteDiff = 0

ProcSecond ==
    /\ MinuteDone
    /\ SecondDiff # 0
    /\ MoveTo(AddSeconds(cur, SecondDiff))

\* Mutant of Found: the seconds of a five-field expression are kept.
Found_KeepsSeconds ==
    /\ MinuteDone
    /\ SecondDiff = 0
    /\ outcome' = "found"
    /\ UNCHANGED <<req, cur>>

Found ==
    /\ MinuteDone
    /\ SecondDiff = 0
    /\ cur' = IF expr.secs THEN cur ELSE [cur EXCEPT !.s = 0]
    /\ outcome' = "found"
    /\ UNCHANGED req

Next ==
    \/ GiveUp
    \/ NoYearLeft
    \/ ProcYear
    \/ ProcMonth
    \/ ProcNearestWeekday
    \/ ProcDayOfMonth
    \/ ProcDayOfWeekNth
    \/ ProcDayOfWeek
    \/ ProcHour
    \/ ProcMinute
    \/ ProcSecond
    \/ Found

Spec == Init /\ [][Next]_vars

\* calc is sequential code: as long as a turn is possible it is taken.
FairSpec == Spec /\ WF_vars(Next)

(***************************************************************************)
(* Properties.                                                             *)
(***************************************************************************)

\* Type invariant.
TypeOK ==
    /\ req \in SearchRequests
    /\ cur \in Instants
    /\ outcome \in {"searching", "found"} \cup Errors

\* The cursor never passes a fire: whatever jumps the search made, over short
\* months, leap days or years, no instant named by the expression lies
\* between the start and the cursor.
NothingSkipped == outcome \in {"searching", "found"} => NoneNearer(req, cur)

\* Every turn that moves the cursor moves it away from the start, so calc's
\* loop cannot revisit an instant.  (The last turn may drop the seconds of a
\* cursor of an expression without a second field.)
MovesAway ==
    [][outcome' = "searching" => Nearer(req, cur, cur')]_vars

\* calc returns.
Terminates == <>(outcome # "searching")

\* calc implements NextFire: it answers with the nearest fire, and with an
\* error only when the years it may look at hold none.
Reply ==
    CASE outcome = "searching" -> NoAnswer
      [] outcome = "found"     -> Fire(cur)
      [] OTHER                 -> Error(outcome)

Promise == INSTANCE NextFire WITH answer <- Reply

IsNextFire == Promise!Spec

=============================================================================
