------------------------------ MODULE CronMeaning ------------------------------
(***************************************************************************)
(* Expanded cron expressions and what they mean: the instants they name.   *)
(* Nothing here searches; the search of src/calc.rs is compared with it.   *)
(*                                                                         *)
(* A field is the parser's Vec<Expr>: either "*" (star), or the set of its *)
(* numbers, with a flag for the "l" of a day-of-month field.  The parser   *)
(* leaves a field sorted and without duplicates, "l" last, so a set loses  *)
(* nothing.  An expression carries besides its fields                      *)
(*   secs   - it has the sixth (second) field; without it it fires on      *)
(*            second 0.  An expression without a year field has year "*";  *)
(*   w      - the days of the month given with "W", empty without "W";     *)
(*   nth    - the pairs <<weekday, n>> given as weekday#n, where NTH_LAST   *)
(*            stands for #l;                                               *)
(*   either - the day of month and the day of week are alternatives (cron's *)
(*            union) instead of both being required.                       *)
(***************************************************************************)
EXTENDS Calendar

CONSTANTS Exprs \* the expressions under consideration

NTH_LAST == -1

Star == [star |-> TRUE, nums |-> {}, last |-> FALSE]

FieldOf(lo, hi) ==
    {Star} \cup [star : {FALSE}, nums : (SUBSET (lo..hi)) \ {{}}, last : {FALSE}]

DayField ==
    {Star} \cup {f \in [star : {FALSE}, nums : SUBSET (1..31), last : BOOLEAN] :
                    f.nums # {} \/ f.last}

\* What the parser can produce, with the ranges of its RANGES table.
Expanded ==
    [secs   : BOOLEAN,
     minute : FieldOf(0, 59),
     hour   : FieldOf(0, 23),
     day    : DayField,
     month  : FieldOf(1, 12),
     dow    : FieldOf(0, 6),
     second : FieldOf(0, 59),
     year   : FieldOf(1970, 2099),
     w      : SUBSET (1..31),
     nth    : SUBSET ((0..6) \X ({NTH_LAST} \cup 1..5)),
     either : BOOLEAN]

ASSUME ExprAssumption == Exprs \subseteq Expanded

\* chrono's calendar holds every year the parser accepts; a shorter calendar
\* is only used with expressions whose years it holds.
ASSUME YearsAssumption == \A e \in Exprs : e.year.nums \subseteq FirstYear .. LastYear

(***************************************************************************)
(* Days.                                                                   *)
(***************************************************************************)

YearMatches(e, t)  == e.year.star \/ YearOf(t) \in e.year.nums
MonthMatches(e, t) == e.month.star \/ MonthNoOf(t) \in e.month.nums

IsLastOfMonth(t) == DomOf(t) = MonthLength(MonthOf[t])

IsWorkday(t) == DowOf(t) \in 1..5

Distance(a, b) == IF a <= b THEN b - a ELSE a - b

\* The workday of its month closest to the given day of the month, a day
\* past the month's end counting as its last day.
IsNearestWorkday(t, dom) ==
    LET first  == MonthStart[MonthOf[t]]
        length == MonthLength(MonthOf[t])
        wanted == first + (IF dom <= length THEN dom ELSE length) - 1
    IN  /\ IsWorkday(t)
        /\ \A u \in first .. (first + length - 1) :
              IsWorkday(u) => Distance(t, wanted) <= Distance(u, wanted)

DomMatches(e, t) ==
    IF e.w # {}
    THEN \E dom \in e.w : IsNearestWorkday(t, dom)
    ELSE \/ e.day.star
         \/ DomOf(t) \in e.day.nums
         \/ e.day.last /\ IsLastOfMonth(t)

\* The n-th such weekday of a month falls in its n-th run of seven days, the
\* last one in its last seven days.
IsNth(t, n) ==
    IF n = NTH_LAST
    THEN DomOf(t) + 7 > MonthLength(MonthOf[t])
    ELSE DomOf(t) \in (7 * n - 6) .. (7 * n)

DowMatches(e, t) ==
    IF e.nth # {}
    THEN \E p \in e.nth : DowOf(t) = p[1] /\ IsNth(t, p[2])
    ELSE e.dow.star \/ DowOf(t) \in e.dow.nums

DayMatches(e, t) ==
    /\ YearMatches(e, t)
    /\ MonthMatches(e, t)
    /\ IF e.either THEN DomMatches(e, t) \/ DowMatches(e, t)
                   ELSE DomMatches(e, t) /\ DowMatches(e, t)

FireDays == [e \in Exprs |-> {t \in Days : DayMatches(e, t)}]

(***************************************************************************)
(* Times of day.                                                           *)
(***************************************************************************)

Hours(e)   == IF e.hour.star THEN 0..23 ELSE e.hour.nums
Minutes(e) == IF e.minute.star THEN 0..59 ELSE e.minute.nums
Seconds(e) == IF ~e.secs THEN {0} ELSE IF e.second.star THEN 0..59 ELSE e.second.nums

\* The instants at which expression e fires.
Fires(e, i) ==
    /\ i.day \in FireDays[e]
    /\ i.h \in Hours(e) /\ i.mi \in Minutes(e) /\ i.s \in Seconds(e)

\* The instants of day t at which e fires, when t is one of its days.
TimesOn(e, t) == [day : {t}, h : Hours(e), mi : Minutes(e), s : Seconds(e)]

=============================================================================
