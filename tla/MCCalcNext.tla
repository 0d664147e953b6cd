------------------------------- MODULE MCCalcNext -------------------------------
(***************************************************************************)
(* Instances of CalcNext for TLC.                                          *)
(***************************************************************************)
EXTENDS CalcNext

Nums(S)  == [star |-> FALSE, nums |-> S, last |-> FALSE]
LastDay  == [star |-> FALSE, nums |-> {}, last |-> TRUE]

Midnight ==
    [secs |-> FALSE, minute |-> Nums({0}), hour |-> Nums({0}), day |-> Star,
     month |-> Star, dow |-> Star, second |-> Star, year |-> Star,
     w |-> {}, nth |-> {}, either |-> FALSE]

DayDow(day, dow) == [Midnight EXCEPT !.day = day, !.dow = dow]

At(y, mo, d, h, mi, s) ==
    [day |-> MonthStart[MonthIndex(y, mo)] + d - 1, h |-> h, mi |-> mi, s |-> s]

\* Two restricted day fields, a side that never fires, a single field.
CleanExprs ==
    {DayDow(Nums(S), Nums(T)) : S \in {{1}, {15}, {31}}, T \in {{0}, {1, 5}}}
      \cup {DayDow(LastDay, Nums({6})), DayDow(Star, Nums({3})), DayDow(Nums({30}), Star)}
      \cup {[DayDow(Nums({31}), Nums({0})) EXCEPT !.month = Nums({2})],
            [DayDow(Nums({30}), Nums({0})) EXCEPT !.month = Nums({2}), !.secs = TRUE,
                !.second = Nums({0}), !.year = Nums({2024})]}

WExprs == {[DayDow(Nums({d}), Nums({5})) EXCEPT !.w = {d}] : d \in {15, 31}}
NthExprs == {[DayDow(Nums({d}), Nums({5})) EXCEPT !.nth = {<<5, 2>>}] : d \in {10, 15}}

Legs(S) ==
    S \cup {[e EXCEPT !.dow = Star] : e \in S} \cup {[e EXCEPT !.day = Star] : e \in S}
      \cup {[e EXCEPT !.either = TRUE] : e \in S}

CleanLegs  == Legs(CleanExprs)
CarryExprs == WExprs \cup NthExprs
CarryLegs  == Legs(CarryExprs)

CallStarts ==
    {At(2024, mo, d, 0, 0, 0) : mo \in {1, 2, 6}, d \in {1, 15, 29}}
      \cup {At(2024, 2, 1, 12, 30, 30), At(2023, 12, 31, 23, 59, 59), At(2025, 3, 1, 0, 0, 0)}

CallsOf(S) ==
    [expr : S, starred : {FALSE}, day_or : {TRUE}, cron_bug : {FALSE},
     at : Starts, sub : {0}, isPrev : BOOLEAN]

\* Every combination of the options, for the plain expressions.
CleanCalls ==
    CallsOf(CleanExprs)
      \cup [expr : {DayDow(Nums({1, 2}), Nums({0, 2}))}, starred : BOOLEAN,
            day_or : BOOLEAN, cron_bug : BOOLEAN, at : Starts, sub : {0, 1},
            isPrev : BOOLEAN]

AllCleanLegs == CleanLegs \cup Legs({DayDow(Nums({1, 2}), Nums({0, 2}))})

CarryCalls == CallsOf(CarryExprs)

UnionLegs  == AllCleanLegs \cup CarryLegs
UnionCalls == CleanCalls \cup CarryCalls

NthLegs  == Legs(NthExprs)
NthCalls == CallsOf(NthExprs)

=============================================================================
