-------------------------------- MODULE MCExpand --------------------------------
(***************************************************************************)
(* Instances of the parser for TLC: one field or two are varied, the       *)
(* others are "*".                                                         *)
(***************************************************************************)
EXTENDS StrictCheck

None    == [kind |-> "none", n |-> 0]
LastV   == [kind |-> "last", n |-> 0]
WordV   == [kind |-> "word", n |-> 0]
Month(n)   == [kind |-> "month", n |-> n]
Weekday(n) == [kind |-> "weekday", n |-> n]
Huge    == I64Max + 1

One(v)         == [Numbered(0, NoNth) EXCEPT !.low = v]
N(n)           == One(NumV(n))
W(n)           == [N(n) EXCEPT !.form = "w"]
Every_(s)      == [One(None) EXCEPT !.form = "every", !.step = s]
From(a, s)     == [N(a) EXCEPT !.form = "from", !.step = s]
To(v, u, s)    == [One(v) EXCEPT !.form = "range", !.high = u, !.step = s]
Range_(a, b, s) == To(NumV(a), NumV(b), s)
Nth(item, n)   == [item EXCEPT !.nth = n]
Question       == [One(None) EXCEPT !.form = "?"]
Hash(k, s)     == [One(None) EXCEPT !.form = k, !.step = s]
HashIn(k, a, b, s) == [Range_(a, b, s) EXCEPT !.form = k]

Stars(n) == [i \in 1..n |-> <<StarItem>>]

Ask(fields) == [fields |-> fields, hash_id |-> FALSE, second_at_beginning |-> FALSE, from |-> NoStart]

With(n, f, field)            == Ask([Stars(n) EXCEPT ![f] = field])
Days(n, day, dow)            == Ask([Stars(n) EXCEPT ![3] = day, ![5] = dow])
DayMonth(day, month)         == Ask([Stars(5) EXCEPT ![3] = day, ![4] = month])

(***************************************************************************)
(* Single items.                                                           *)
(***************************************************************************)

Around(f) ==
    {Lowest(f), Lowest(f) + 1, Highest(f), Highest(f) + 1, Huge}
      \cup (IF Lowest(f) = 0 THEN {} ELSE {Lowest(f) - 1})

Words == {StarV, LastV, WordV, [kind |-> "negative", n |-> 0], Month(2), Weekday(5)}

Singles(f) ==
    {N(n) : n \in Around(f)} \cup {One(v) : v \in Words} \cup {W(15), W(0), W(Huge), Question, Hash("h", NoStep)}

Ends(f)  == {Lowest(f), Lowest(f) + 2, Highest(f) - 2, Highest(f)}
Steps(f) == {NoStep, 0, 2, 5, Highest(f) - Lowest(f), Highest(f) - Lowest(f) + 1, I64Max, Huge}

Steppings(f) ==
    {Range_(a, b, s) : a \in Ends(f), b \in Ends(f), s \in Steps(f)}
      \cup {From(a, s) : a \in Ends(f), s \in Steps(f) \ {NoStep}}
      \cup {Every_(s) : s \in Steps(f) \ {NoStep}}

OddRanges(f) ==
    {To(v, NumV(Highest(f)), NoStep) : v \in {LastV, WordV, Month(2), Weekday(1), NumV(Huge)}}
      \cup {To(NumV(Lowest(f) + 1), v, NoStep) : v \in {LastV, WordV, NumV(Highest(f) + 1), NumV(Huge)}}

SingleAsks ==
    {With(5, f, <<i>>) : f \in 1..5, i \in UNION {Singles(g) \cup OddRanges(g) : g \in 1..5}}
      \cup UNION {{With(5, f, <<i>>) : i \in Steppings(f)} : f \in 3..5}
      \cup {With(7, f, <<N(n)>>) : f \in 3..7, n \in {0, 1, 7, 1969, 1970, 2099, 2100}}
      \cup {With(6, f, <<N(n)>>) : f \in 3..6, n \in {0, 1, 7}}

\* Every step over a wrap, and the long fields.
WrapAsks ==
    {With(5, 2, <<Range_(a, b, s)>>) : a \in {20, 22, 23}, b \in {0, 3, 10}, s \in 1..13}
      \cup {With(5, 1, <<i>>) : i \in {Range_(50, 10, 15), Range_(50, 10, 5), Range_(0, 59, NoStep),
                                        Every_(15), From(59, 15), Range_(59, 59, 15)}}
      \cup {With(7, 7, <<i>>) : i \in {Range_(2096, 1975, 3), Every_(100), Range_(2020, 2030, 4)}}

(***************************************************************************)
(* Lists, "#", "l" and "?".                                                *)
(***************************************************************************)

DayItems == {N(3), N(31), One(StarV), One(LastV), W(15), One(WordV), Range_(2, 5, NoStep),
             Range_(30, 2, NoStep), Range_(4, 8, 2), From(28, 2), Every_(10), Question}
DowItems == {N(0), N(7), One(Weekday(5)), One(StarV), Nth(N(5), 2), Nth(N(3), NTH_LAST),
             Nth(To(Weekday(1), Weekday(5), NoStep), 3), Nth(N(3), 6), Nth(Range_(1, 3, NoStep), 2),
             Nth(One(Month(2)), 2), Nth(One(StarV), 2), Range_(5, 1, NoStep), Every_(2), Question,
             Nth(To(Weekday(0), Weekday(0), NoStep), 1), Nth(N(5), 0), Nth(From(1, 2), 2)}

FullDays == {<<Range_(1, 31, NoStep)>>, <<Range_(1, 30, NoStep), One(LastV)>>,
             <<Range_(1, 29, NoStep), N(31), One(LastV)>>, <<Every_(1)>>, <<One(StarV)>>, <<N(1)>>, <<Question>>}
FullDows == {<<Range_(0, 6, NoStep)>>, <<Range_(0, 5, NoStep), Nth(N(6), 2)>>,
             <<Range_(1, 7, NoStep)>>, <<One(StarV)>>, <<N(1)>>, <<Question>>,
             <<Nth(To(Weekday(0), Weekday(6), NoStep), 2)>>, <<Range_(0, 5, NoStep), Nth(N(5), 2)>>,
             <<Range_(0, 4, NoStep), Nth(N(4), NTH_LAST)>>}

ListAsks ==
    {With(5, 3, <<i, j>>) : i \in DayItems, j \in DayItems}
      \cup {With(5, 5, <<i, j>>) : i \in DowItems, j \in DowItems}
      \cup {With(5, 5, <<i>>) : i \in DowItems}
      \cup {With(5, 3, <<i>>) : i \in DowItems}
      \cup {With(5, 4, <<To(Month(11), Month(2), NoStep), i>>) : i \in {N(2), N(5), One(Month(3))}}
      \cup {With(5, 5, <<Nth(N(6), 1), Nth(N(n), 1), Nth(N(3), 1), Range_(6, 3, 2)>>) : n \in {1, 2}}
      \cup {Days(5, day, dow) : day \in FullDays, dow \in FullDows}
      \cup {Ask(Stars(n)) : n \in {4, 6, 7, 8}}

(***************************************************************************)
(* Hashes, starts, seconds first, and the strict checks.                   *)
(***************************************************************************)

Hashed(a) == [a EXCEPT !.hash_id = TRUE]

HashAsks ==
    {Hashed(With(5, f, <<i>>)) :
        f \in 1..5, i \in {Hash(k, s) : k \in {"h", "r"}, s \in {NoStep, 0, 1, 5, 40}}}
      \cup {Hashed(With(5, f, <<HashIn("h", a, b, s)>>)) :
               f \in {2, 3}, a \in {0, 1, 9}, b \in {9, 23, 40}, s \in {NoStep, 0, 1, 4, 30}}
      \cup {Hashed(With(5, 2, <<i>>)) :
               i \in {HashIn("r", 1, Huge, NoStep), HashIn("r", 2, 5, 2), HashIn("h", 0, I64Max, NoStep),
                      HashIn("h", 1, I64Max, NoStep), HashIn("h", 0, I64Max, I64Max), HashIn("h", 1, 9, I64Max),
                      HashIn("h", 1, 2, I64Max - 1), HashIn("r", I64Max - 1, I64Max, I64Max)}}
      \cup {Hashed(With(5, 2, <<Hash("h", NoStep), N(3)>>)), With(5, 2, <<Hash("r", 5)>>)}

Start == <<37, 13, 29, 11, 3, 5, 2024>>

StartAsks ==
    {[With(7, f, <<i>>) EXCEPT !.from = Start] :
        f \in 1..7, i \in {Every_(1), Every_(4), Every_(7), Every_(40), N(4), One(StarV)}}
      \cup {[With(7, f, <<i>>) EXCEPT !.from = Start] :
               f \in 2..4, i \in {Range_(2, 4, 3), Range_(8, 3, 2), From(12, 5), From(5, 2), Range_(1, 3, 20)}}

\* Starts outside the years of the field, ranges that a start turns into a wrap,
\* and every step of a day of the month.
YearStarts ==
    {[With(7, 7, <<i>>) EXCEPT !.from = [Start EXCEPT ![7] = year]] :
        year \in {-3, 1968, 1969, 2099, 2101, 2299, 2300},
        i \in {Every_(2), Every_(4), Every_(200), Range_(2000, 2010, 3), Range_(2000, 2010, 200),
                Range_(1, 5, 200), Range_(1, 1968, 4), From(2099, 2), From(2098, 2), From(2000, 200), HashIn("r", 1990, 2000, 3),
                Hash("r", NoStep), N(1969), Range_(2001, 1980, 7)}}
      \cup {[With(7, 7, <<i, j>>) EXCEPT !.from = [Start EXCEPT ![7] = year]] :
               year \in {1969, 2300}, i \in {N(1971), Range_(2000, 2010, 3)}, j \in {N(2100), Every_(2), Every_(200)}}
      \cup {[With(7, 3, <<Range_(a, b, s)>>) EXCEPT !.from = [Start EXCEPT ![3] = d]] :
               d \in {1, 20, 31}, a \in {1, 9}, b \in {1, 9, 20, 31}, s \in {NoStep, 2, 7, 19, 30, 31}}

\* From a Saturday: a step of the whole week, and a range that gets mixed.
SaturdayAsks ==
    {[With(7, 5, field) EXCEPT !.from = [Start EXCEPT ![5] = 6]] :
        field \in {<<Every_(s)>> : s \in 6..8}
                    \cup {<<Nth(N(1), 1), Nth(N(2), 1), Range_(1, 2, NoStep)>>,
                           <<Nth(N(6), 1), Every_(7)>>, <<Nth(To(Weekday(1), Weekday(3), NoStep), 2)>>}}

SecondsFirst ==
    {[With(n, f, <<N(7)>>) EXCEPT !.second_at_beginning = TRUE] : n \in 5..7, f \in 1..5}

StrictAsks ==
    {DayMonth(day, month) :
        day \in {<<N(31)>>, <<N(30)>>, <<N(29)>>, <<N(28), N(31)>>, <<Range_(30, 31, NoStep)>>, <<One(LastV)>>, <<W(31)>>},
        month \in {<<N(2)>>, <<N(4), N(2)>>, <<N(1)>>, <<Range_(1, 12, NoStep)>>, <<N(4), N(6)>>}}
      \cup {Ask([Stars(7) EXCEPT ![3] = <<N(29)>>, ![4] = <<N(2)>>, ![7] = years]) :
               years \in {<<N(2023)>>, <<N(2024)>>, <<Range_(2021, 2023, NoStep)>>, <<N(2023), N(2000)>>, <<One(StarV)>>}}

GivenYears == {{}, {2023}, {2100}, {2023, 2024}}

AllAsks ==
    SingleAsks \cup WrapAsks \cup ListAsks \cup HashAsks \cup StartAsks \cup YearStarts \cup SaturdayAsks \cup SecondsFirst \cup StrictAsks

SomeCrcs == {0, 1, 123456789, 2147483647}

\* Numbers that do not fit, alone and in a range.
HugeAsks == {With(5, 1, <<i>>) : i \in {N(Huge), Range_(1, Huge, NoStep), Range_(1, 5, Huge)}}

=============================================================================
