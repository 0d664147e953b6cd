------------------------------ MODULE MCCalcSearch ------------------------------
(***************************************************************************)
(* Instances of CalcSearch for TLC: expressions and starts chosen around   *)
(* the places where jumps are delicate.                                    *)
(***************************************************************************)
EXTENDS CalcSearch

Nums(S)  == [star |-> FALSE, nums |-> S, last |-> FALSE]
LastDay  == [star |-> FALSE, nums |-> {}, last |-> TRUE]
Or(f, S) == [f EXCEPT !.nums = S]

\* "0 0 * * *", the base the others vary.
Midnight ==
    [secs |-> FALSE, minute |-> Nums({0}), hour |-> Nums({0}), day |-> Star,
     month |-> Star, dow |-> Star, second |-> Star, year |-> Star,
     w |-> {}, nth |-> {}, either |-> FALSE]

On(days)     == [Midnight EXCEPT !.day = days]
OnW(days)    == [On(Nums(days)) EXCEPT !.w = days]
OnNth(pairs) == [Midnight EXCEPT !.nth = pairs, !.dow = Nums({p[1] : p \in pairs})]

At(y, mo, d, h, mi, s) ==
    [day |-> MonthStart[MonthIndex(y, mo)] + d - 1, h |-> h, mi |-> mi, s |-> s]

(***************************************************************************)
(* Months of different length, a leap year between common ones.            *)
(***************************************************************************)

DayExprs ==
    {On(Nums(S)) : S \in {{1}, {28}, {29}, {30}, {31}, {5, 31}, {30, 31}}}
      \cup {On(LastDay), On(Or(LastDay, {15}))}
      \cup {OnW({d}) : d \in {1, 15, 31}}
      \cup {OnNth({<<0, 5>>}), OnNth({<<1, NTH_LAST>>}), OnNth({<<5, 1>>, <<2, 3>>})}
      \cup {[Midnight EXCEPT !.dow = Nums(S)] : S \in {{0}, {6}, {1, 4}}}
      \cup {[On(Nums({29})) EXCEPT !.month = Nums({2})],
            [On(Nums({31})) EXCEPT !.month = Nums({2, 4, 12})],
            [On(LastDay) EXCEPT !.month = Nums({2, 6})],
            [On(Nums({13})) EXCEPT !.dow = Nums({5})]}

DayStarts ==
    {At(2096, mo, d, 0, 0, 0) : mo \in {1, 2, 3, 5, 12}, d \in {1, 15, 28, 29}}
      \cup {At(2096, mo, 31, 23, 59, 59) : mo \in {1, 3, 12}}
      \cup {At(2095, 2, 28, 23, 59, 0), At(2097, 3, 1, 0, 0, 0)}

(***************************************************************************)
(* The clock: hours, minutes and seconds, with and without the second and  *)
(* year fields, searched from the last and first instants of an hour, a    *)
(* day and a year.                                                         *)
(***************************************************************************)

\* "m h * * *" and "m h * * * s y".
Unix(mi, h) == [Midnight EXCEPT !.minute = mi, !.hour = h]
Full(mi, h, s, y) ==
    [Unix(mi, h) EXCEPT !.secs = TRUE, !.second = s, !.year = y]

ClockExprs ==
    {Unix(mi, h) : mi \in {Star, Nums({0, 59}), Nums({30})},
                   h \in {Star, Nums({0}), Nums({5, 23})}}
      \cup {Full(Nums({0, 30}), h, s, Star) :
                h \in {Star, Nums({23})}, s \in {Star, Nums({0}), Nums({59}), Nums({15, 45})}}
      \cup {Full(mi, Nums({0, 12}), Nums({30}), Nums(y)) :
                mi \in {Star, Nums({1})}, y \in {{2096}, {2095, 2098}}}
      \cup {[Full(Nums({59}), Nums({23}), Nums({59}), Nums({2095, 2097}))
                EXCEPT !.month = Nums({1, 12}), !.day = LastDay]}

ClockStarts ==
    {At(2096, 6, 15, h, mi, s) : h \in {0, 12, 23}, mi \in {0, 30, 59}, s \in {0, 1, 59}}
      \cup {At(2096, 12, 31, 23, 59, s) : s \in {0, 29, 59}}
      \cup {At(2097, 1, 1, 0, 0, s) : s \in {0, 30}}
      \cup {At(2096, 2, 29, 23, 59, 59), At(2096, 3, 1, 0, 0, 0)}

(***************************************************************************)
(* Limits: the years a search may look at, the ends of the calendar, and   *)
(* the eight years around 2100, which is not a leap year.                  *)
(***************************************************************************)

LimitExprs ==
    {Midnight, Unix(Star, Star), On(Nums({31})), On(LastDay), OnW({31}),
     OnNth({<<0, 5>>}), OnNth({<<2, 5>>, <<0, 1>>}),
     [Midnight EXCEPT !.dow = Nums({6})],
     [On(Nums({29})) EXCEPT !.month = Nums({2})],
     [On(Nums({30})) EXCEPT !.month = Nums({2})],
     [On(Nums({31})) EXCEPT !.month = Nums({12})],
     [Midnight EXCEPT !.month = Nums({2})],
     Full(Nums({0}), Nums({0}), Nums({0}), Nums({2095, 2099})),
     Full(Nums({0}), Star, Nums({59}), Nums({2099})),
     Full(Nums({59}), Nums({23}), Nums({59}), Star)}

LimitStarts ==
    {At(2095, 1, 1, 0, 0, 0), At(2095, 1, 1, 0, 0, 59), At(2095, 1, 31, 12, 0, 0),
     At(2096, 2, 28, 23, 59, 59), At(2096, 2, 29, 0, 0, 0), At(2096, 3, 1, 0, 0, 0),
     At(2097, 1, 1, 0, 0, 0), At(2103, 12, 31, 23, 59, 59),
     At(2099, 12, 31, 23, 59, 59), At(2100, 1, 1, 0, 0, 0), At(2100, 3, 1, 0, 0, 0),
     At(2104, 2, 28, 23, 59, 59), At(2104, 2, 29, 0, 0, 0), At(2104, 3, 1, 0, 0, 0),
     At(2104, 11, 30, 12, 30, 0), At(2104, 12, 31, 23, 59, 0), At(2104, 12, 31, 23, 59, 59)}

SearchExprs  == DayExprs \cup ClockExprs \cup LimitExprs
SearchStarts == DayStarts \cup ClockStarts \cup LimitStarts

=============================================================================
