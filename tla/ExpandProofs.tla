------------------------------ MODULE ExpandProofs ------------------------------
(***************************************************************************)
(* The parser and the strict checks, for any expressions, hashes, starts   *)
(* and years: nothing out of range is in an expanded field and none is     *)
(* empty, what is well formed is accepted, what is accepted names what its *)
(* items name, and what is rejected as impossible is what no year has.     *)
(***************************************************************************)
EXTENDS StrictCheck, SequenceTheorems, FiniteSetTheorems, WellFoundedInduction, TLAPS

(***************************************************************************)
(* Fields.                                                                 *)
(***************************************************************************)

LEMMA FieldRange ==
    ASSUME NEW f \in 1..7
    PROVE  /\ Lowest(f) \in Nat /\ Highest(f) \in Nat /\ Lowest(f) < Highest(f)
           /\ Highest(f) <= 2099 /\ LEN_MEANS_ALL[f] \in Nat
  BY DEF Lowest, Highest, RANGES, LEN_MEANS_ALL

LEMMA FieldBounds ==
    \A f \in 1..7 : Lowest(f) \in Nat /\ Highest(f) \in Nat /\ Lowest(f) < Highest(f)
  BY FieldRange

LEMMA DayFields ==
    /\ Lowest(DAY_FIELD) = 1 /\ Highest(DAY_FIELD) = 31 /\ LEN_MEANS_ALL[DAY_FIELD] = 31
    /\ Lowest(DOW_FIELD) = 0 /\ Highest(DOW_FIELD) = 6 /\ LEN_MEANS_ALL[DOW_FIELD] = 7
    /\ Lowest(MONTH_FIELD) = 1 /\ Highest(MONTH_FIELD) = 12
    /\ Lowest(YEAR_FIELD) = 1970 /\ Highest(YEAR_FIELD) = 2099
    /\ DAY_FIELD = 3 /\ MONTH_FIELD = 4 /\ DOW_FIELD = 5 /\ YEAR_FIELD = 7
  BY DEF Lowest, Highest, RANGES, LEN_MEANS_ALL, DAY_FIELD, DOW_FIELD, MONTH_FIELD, YEAR_FIELD

ItemFields == [form : {"one", "w", "range", "from", "every", "h", "r", "?"},
               low : Values, high : Values, step : Nat \cup {NoStep},
               nth : Nat \cup {NTH_LAST, NoNth}]

LEMMA ItemTyped ==
    ASSUME NEW i \in Items
    PROVE  /\ i \in ItemFields /\ i.low.n \in Nat /\ i.high.n \in Nat
           /\ i.step \in Nat \cup {NoStep} /\ i.nth \in Nat \cup {NTH_LAST, NoNth}
           /\ i.form \in {"from", "every"} => i.step \in Nat
  BY DEF Items, ItemFields, Values, NoStep

LEMMA NumberedTyped ==
    ASSUME NEW n \in Nat, NEW nth \in Nat \cup {NTH_LAST, NoNth}
    PROVE  Numbered(n, nth) \in Items /\ Numbered(n, nth).form = "one"
  BY DEF Numbered, Items, NumV, Values, NoStep

LEMMA WrittenTyped ==
    ASSUME NEW n \in Int, NEW nth \in Nat \cup {NTH_LAST, NoNth}
    PROVE  Written(n, nth) \in Items /\ Written(n, nth).form = "one"
<1>1. Negative \in Items /\ Negative.form = "one"
  BY DEF Negative, Numbered, Items, NumV, Values, NoStep, NoNth
<1>2. n >= 0 => n \in Nat
  OBVIOUS
<1>. QED
  BY <1>1, <1>2, NumberedTyped DEF Written

\* The expression as it is worked on: a field per column, none without items.
LEMMA ExpressionsTyped ==
    ASSUME asked \in Asked, Columns \in 5..7
    PROVE  \A f \in 1..Columns : expressions[f] \in Seq(Items) \ {<<>>}
<1>1. PICK F : F = Seq(Items) \ {<<>>}
  OBVIOUS
<1>2. PICK s : s = asked.fields
  OBVIOUS
<1>3. s \in Seq(F) /\ Len(s) \in 5..7 /\ Columns = Len(s)
  BY <1>1, <1>2, ExpandAssumption DEF AskedType, Columns
<1>4. \A i \in 1..Len(s) : s[i] \in F
  BY <1>3
<1>5. CASE asked.second_at_beginning /\ Len(s) > 5
  <2>1. PICK a, b, c : a = SubSeq(s, 2, 6) /\ b = <<s[1]>> /\ c = SubSeq(s, 7, Len(s))
    OBVIOUS
  <2>2. a \in Seq(F) /\ Len(a) = 5
    BY <1>3, <1>5, <2>1
  <2>3. b \in Seq(F) /\ Len(b) = 1
    BY <1>3, <1>4, <1>5, <2>1
  <2>4. c \in Seq(F) /\ Len(c) = Len(s) - 6
    BY <1>3, <1>5, <2>1
  <2>5. PICK ab : ab = a \o b
    OBVIOUS
  <2>6. ab \in Seq(F) /\ Len(ab) = 6
    <3>1. ab \in Seq(F) /\ Len(ab) = Len(a) + Len(b)
      BY <2>2, <2>3, <2>5, ConcatProperties, Zenon
    <3>. QED
      BY <2>2, <2>3, <3>1
  <2>7. ab \o c \in Seq(F) /\ Len(ab \o c) = Len(s)
    <3>1. ab \o c \in Seq(F) /\ Len(ab \o c) = Len(ab) + Len(c)
      BY <2>4, <2>6, ConcatProperties, Zenon
    <3>. QED
      BY <1>3, <2>4, <2>6, <3>1
  <2>8. expressions = ab \o c
    BY <1>2, <1>5, <2>1, <2>5 DEF expressions, SECOND_FIELD
  <2>. QED
    BY <1>1, <1>3, <2>7, <2>8
<1>6. CASE ~ (asked.second_at_beginning /\ Len(s) > 5)
  BY <1>1, <1>2, <1>3, <1>4, <1>6 DEF expressions
<1>. QED
  BY <1>5, <1>6

(***************************************************************************)
(* Hashes.                                                                 *)
(***************************************************************************)

\* The bits a hash is shifted by, one more for each field.
LEMMA Shifts ==
    ASSUME NEW x \in 0..6
    PROVE  2^x \in Nat \ {0}
<1>1. 2^0 = 1 /\ 2^1 = 2 /\ 2^2 = 4 /\ 2^3 = 8 /\ 2^4 = 16 /\ 2^5 = 32 /\ 2^6 = 64
  OBVIOUS
<1>2. x = 0 \/ x = 1 \/ x = 2 \/ x = 3 \/ x = 4 \/ x = 5 \/ x = 6
  OBVIOUS
<1>3. 2^x \in {1, 2, 4, 8, 16, 32, 64}
  BY <1>1, <1>2, Zenon
<1>. QED
  BY <1>3

LEMMA HashDoRange ==
    ASSUME NEW c \in Nat, NEW f \in 1..7, NEW low \in Nat, NEW many \in Nat \ {0}
    PROVE  hash_do(c, f, low, many) \in low..(low + many - 1)
<1>1. PICK q : q = c \div (2^(f - 1))
  OBVIOUS
<1>2. q \in Nat
  <2>1. PICK x \in 0..6 : x = f - 1
    OBVIOUS
  <2>2. PICK p \in Nat \ {0} : p = 2^x
    BY Shifts
  <2>. QED
    BY <1>1, <2>1, <2>2
<1>3. q % many \in 0..(many - 1)
  BY <1>2
<1>. QED
  BY <1>1, <1>3 DEF hash_do

\* The ends of a hash that is not refused, and how many numbers it picks from.
LEMMA HashEnds ==
    ASSUME NEW e \in Items, e.form \in {"h", "r"}, e.step # 0,
           e.low.kind = "num" => e.low.n < e.high.n, NEW f \in 1..7
    PROVE  /\ HashLow(e, f) \in Nat /\ HashHigh(e, f) \in Nat /\ HashLow(e, f) < HashHigh(e, f)
           /\ e.step \in (Nat \ {0}) \cup {NoStep} /\ NoStep \notin Nat
<1>1. e.low.n \in Nat /\ e.high.n \in Nat /\ e.step \in Nat \cup {NoStep} /\ NoStep \notin Nat
  BY ItemTyped DEF NoStep
<1>2. Lowest(f) \in Nat /\ Highest(f) \in Nat /\ Lowest(f) < Highest(f)
  BY FieldBounds, Zenon
<1>3. CASE e.low.kind = "num"
  BY <1>1, <1>3 DEF HashLow, HashHigh
<1>4. CASE e.low.kind # "num"
  BY <1>1, <1>2, <1>4 DEF HashLow, HashHigh
<1>. QED
  BY <1>3, <1>4

\* A hash is replaced by a number of its range, by steps from one, or by what an
\* overflow makes of it.
LEMMA HashExpandTyped ==
    ASSUME NEW field \in Seq(Items), IsHash(field), ~HashRefused(field[1]),
           NEW c \in Nat, NEW f \in 1..7
    PROVE  hash_expand(c, f, field[1]) \in Items
<1>1. PICK e \in Items : e = field[1]
  <2>1. 1 \in 1..Len(field)
    BY DEF IsHash
  <2>2. field[1] \in Items
    BY <2>1
  <2>. QED
    BY <2>2
<1>2. /\ e.form \in {"h", "r"} /\ e.step # 0
      /\ e.low.kind = "num" => e.low.n < e.high.n
  BY <1>1, ItemTyped DEF IsHash, HashRefused
<1>3. e.step \in (Nat \ {0}) \cup {NoStep} /\ NoStep \notin Nat
  BY <1>2, HashEnds
<1>4. PICK low \in Nat, high \in Nat : low = HashLow(e, f) /\ high = HashHigh(e, f) /\ low < high
  <2>1. HashLow(e, f) \in Nat /\ HashHigh(e, f) \in Nat /\ HashLow(e, f) < HashHigh(e, f)
    BY <1>2, HashEnds
  <2>. QED
    BY <2>1
<1>5. PICK many \in Nat \ {0} :
         many = IF e.step = NoStep THEN high - low + 1
                ELSE IF HashOverflows(e, f) THEN e.step
                ELSE Least(e.step, high - low + 1)
  BY <1>3, <1>4 DEF Least
<1>6. PICK x \in Nat : x = hash_do(c, f, low, many)
  <2>1. hash_do(c, f, low, many) \in low..(low + many - 1)
    BY HashDoRange
  <2>. QED
    BY <2>1
<1>7. hash_expand(c, f, e) =
         IF x > I64Max THEN Negative
         ELSE IF e.step = NoStep \/ x = high THEN Numbered(x, NoNth)
         ELSE [e EXCEPT !.form = "range", !.low = NumV(x), !.high = NumV(high)]
  BY <1>4, <1>5, <1>6 DEF hash_expand
<1>8. Numbered(x, NoNth) \in Items /\ Negative \in Items
  <2>1. Written(-1, NoNth) \in Items /\ Written(-1, NoNth) = Negative
    BY WrittenTyped DEF Written
  <2>. QED
    BY <2>1, NumberedTyped
<1>9. [e EXCEPT !.form = "range", !.low = NumV(x), !.high = NumV(high)] \in Items
  <2>1. PICK g : g = [e EXCEPT !.form = "range", !.low = NumV(x), !.high = NumV(high)]
    OBVIOUS
  <2>2. e \in ItemFields
    BY ItemTyped
  <2>3. g \in ItemFields
    BY <2>1, <2>2 DEF ItemFields, NumV, Values
  <2>4. g.form = "range" /\ g.low.kind = "num" /\ g.high.kind = "num"
    BY <2>1, <2>2 DEF ItemFields, NumV
  <2>5. /\ g.form \in {"from", "every"} => g.step # NoStep
        /\ g.form = "one" => g.low.kind # "none"
        /\ g.form \in {"range", "from"} => g.low.kind \notin {"none", "negative"}
        /\ g.form = "range" => g.high.kind \notin {"none", "negative"}
        /\ g.form = "w" => g.low.kind = "num"
        /\ g.form \in {"h", "r"} => g.low.kind = g.high.kind /\ g.low.kind \in {"none", "num"}
        /\ g.form \in {"w", "h", "r", "?"} \/ g.low.kind = "negative" => g.nth = NoNth
    BY <2>4
  <2>6. g \in Items
    BY <2>3, <2>5 DEF Items, ItemFields
  <2>. QED
    BY <2>1, <2>6, Zenon
<1>. QED
  BY <1>1, <1>7, <1>8, <1>9

(***************************************************************************)
(* Ranges.                                                                 *)
(***************************************************************************)

\* Steps from one number to another.
LEMMA StepsTyped ==
    ASSUME NEW low \in Int, NEW high \in Int, NEW step \in Nat \ {0}
    PROVE  /\ num_range_step(low, high, step) \in Seq(Int)
           /\ low \in Nat => num_range_step(low, high, step) \in Seq(Nat)
           /\ low <= high => Len(num_range_step(low, high, step)) > 0
<1>1. CASE low > high
  BY <1>1 DEF num_range_step
<1>2. CASE low <= high
  <2>1. PICK k : k = (high - low) \div step + 1
    OBVIOUS
  <2>2. k \in Nat /\ k > 0
    BY <1>2, <2>1
  <2>3. num_range_step(low, high, step) = [i \in 1..k |-> low + (i - 1) * step]
    BY <1>2, <2>1 DEF num_range_step
  <2>4. ASSUME NEW i \in 1..k
        PROVE  low + (i - 1) * step \in Int /\ (low \in Nat => low + (i - 1) * step \in Nat)
    <3>1. PICK j \in Nat : j = i - 1
      BY <2>2
    <3>2. j * step \in Nat
      OBVIOUS
    <3>. QED
      BY <3>1, <3>2
  <2>. QED
    BY <2>2, <2>3, <2>4
<1>. QED
  BY <1>1, <1>2

\* A range that is expanded has a step, and starts within the top of its field
\* and not below 0, but for a year relative to a start out of its field.
LEMMA RangeStarts ==
    ASSUME asked \in Asked, field_index \in 1..7, NEW e \in Items,
           e.form \in {"range", "from", "every"}, RangeErrors(e) = {}
    PROVE  /\ StepOf(e) \in Nat \ {0}
           /\ low_v(e) \in Nat /\ low_v(e) <= Highest(field_index)
           /\ high_v(e) \in Nat /\ high_v(e) <= Highest(field_index)
           /\ low_final(e) \in Int
           /\ low_final(e) <= Highest(field_index) \/ LateStart(asked.from, field_index)
<1>1. Lowest(field_index) \in Nat /\ Highest(field_index) \in Nat /\ Lowest(field_index) < Highest(field_index)
  BY FieldRange
<1>2. e.low.n \in Nat /\ e.high.n \in Nat /\ e.step \in Nat \cup {NoStep} /\ NoStep \notin Nat
  BY ItemTyped DEF NoStep
<1>3. StepOf(e) # 0 /\ ~ (Largest(low_v(e), high_v(e)) > Highest(field_index))
  BY DEF RangeErrors
<1>4. StepOf(e) \in Nat \ {0}
  BY <1>2, <1>3 DEF StepOf
<1>5. RangeLow(e).n \in Nat /\ RangeHigh(e).n \in Nat
  BY <1>1, <1>2 DEF RangeLow, RangeHigh, NumV
<1>6. low_v(e) \in Nat /\ high_v(e) \in Nat
  BY <1>5 DEF low_v, high_v, value_alias
<1>7. low_v(e) <= Highest(field_index) /\ high_v(e) <= Highest(field_index)
  BY <1>1, <1>3, <1>6 DEF Largest
<1>8. CASE asked.from = NoStart \/ start_at_field_max(e)
  BY <1>4, <1>6, <1>7, <1>8 DEF low_final
<1>9. CASE ~ (asked.from = NoStart \/ start_at_field_max(e))
  <2>1. PICK start \in Int : start = asked.from[field_index]
    BY <1>9, ExpandAssumption DEF AskedType
  <2>2. PICK min \in Nat, max \in Nat, s \in Nat \ {0} :
           min = Lowest(field_index) /\ max = Highest(field_index) /\ s = StepOf(e) /\ min < max
    BY <1>1, <1>4
  <2>3. low_final(e) = min + Remainder(start - min, s)
    BY <1>9, <2>1, <2>2 DEF low_final, get_low_from_current_date_number
  <2>4. /\ Remainder(start - min, s) \in Int
        /\ start - min < 0 => Remainder(start - min, s) <= 0
        /\ start - min >= 0 => Remainder(start - min, s) <= start - min
    <3>1. PICK d \in Int : d = start - min
      OBVIOUS
    <3>2. CASE d < 0
      <4>1. PICK n \in Nat : n = -d
        BY <3>2
      <4>2. n % s \in Nat
        OBVIOUS
      <4>. QED
        BY <3>1, <3>2, <4>1, <4>2 DEF Remainder
    <3>3. CASE d >= 0
      <4>1. d % s \in Nat /\ d % s <= d
        BY <3>3
      <4>. QED
        BY <3>1, <3>3, <4>1 DEF Remainder
    <3>. QED
      BY <3>2, <3>3
  <2>5. min + Remainder(start - min, s) <= max \/ start > max
    <3>1. PICK r \in Int : /\ r = Remainder(start - min, s)
                           /\ start - min < 0 => r <= 0
                           /\ start - min >= 0 => r <= start - min
      BY <2>4
    <3>. QED
      BY <2>2, <3>1
  <2>. QED
    BY <1>4, <1>6, <1>7, <1>9, <2>1, <2>2, <2>3, <2>4, <2>5 DEF LateStart
<1>. QED
  BY <1>8, <1>9

LEMMA SkipTyped ==
    ASSUME NEW low \in Int, NEW step \in Nat \ {0}, field_index \in 1..7
    PROVE  to_skip(low, step) \in Nat
<1>1. Lowest(field_index) \in Nat /\ Highest(field_index) \in Nat
  BY FieldRange
<1>2. LastStep(low, Highest(field_index), step) \in Int
  <2>1. PICK q \in Int : q = (Highest(field_index) - low) \div step
    BY <1>1
  <2>2. q * step \in Int
    OBVIOUS
  <2>. QED
    BY <2>1, <2>2 DEF LastStep
<1>. QED
  BY <1>1, <1>2 DEF to_skip

\* Every range that passes the checks names a number, unless its start is late.
LEMMA RangeTyped ==
    ASSUME asked \in Asked, field_index \in 1..7, NEW e \in Items,
           e.form \in {"range", "from", "every"}, RangeErrors(e) = {}
    PROVE  /\ rng(e) \in Seq(Int) /\ Len(rng(e)) \in Nat
           /\ low_final(e) \in Nat => rng(e) \in Seq(Nat)
           /\ Len(rng(e)) > 0 \/ LateStart(asked.from, field_index)
<1>1. PICK step, low, high, min, max :
         /\ step = StepOf(e) /\ low = low_final(e) /\ high = high_v(e)
         /\ min = Lowest(field_index) /\ max = Highest(field_index)
  OBVIOUS
<1>. /\ step \in Nat \ {0} /\ low \in Int /\ high \in Nat /\ min \in Nat /\ max \in Nat
     /\ low <= max \/ LateStart(asked.from, field_index)
     /\ high <= max /\ min < max
  BY <1>1, RangeStarts, FieldRange
<1>2. PICK skip \in Nat : skip = to_skip(low, step)
  <2>1. to_skip(low, step) \in Nat
    BY SkipTyped
  <2>. QED
    BY <2>1
<1>3. rng(e) = IF start_at_field_max(e) THEN <<low>>
               ELSE IF low > high
               THEN num_range_step(low, max, step) \o num_range_step(min + skip, high, step)
               ELSE IF low = high THEN num_range_step(min, max, step)
               ELSE num_range_step(low, high, step)
  BY <1>1, <1>2 DEF rng
<1>4. PICK a, b, c, d :
         /\ a = num_range_step(low, max, step) /\ b = num_range_step(min + skip, high, step)
         /\ c = num_range_step(min, max, step) /\ d = num_range_step(low, high, step)
  OBVIOUS
<1>5. /\ a \in Seq(Int) /\ b \in Seq(Nat) /\ c \in Seq(Nat) /\ d \in Seq(Int)
      /\ low \in Nat => a \in Seq(Nat) /\ d \in Seq(Nat)
      /\ low <= max => Len(a) > 0
      /\ Len(c) > 0 /\ (low <= high => Len(d) > 0)
  <2>1. min + skip \in Nat /\ min <= max /\ max \in Int /\ high \in Int
    OBVIOUS
  <2>2. a \in Seq(Int) /\ (low \in Nat => a \in Seq(Nat)) /\ (low <= max => Len(a) > 0)
    BY <1>4, <2>1, StepsTyped
  <2>3. b \in Seq(Nat)
    BY <1>4, <2>1, StepsTyped
  <2>4. c \in Seq(Nat) /\ Len(c) > 0
    BY <1>4, <2>1, StepsTyped
  <2>5. d \in Seq(Int) /\ (low \in Nat => d \in Seq(Nat)) /\ (low <= high => Len(d) > 0)
    BY <1>4, <2>1, StepsTyped
  <2>. QED
    BY <2>2, <2>3, <2>4, <2>5
<1>6. \A S : a \in Seq(S) /\ b \in Seq(S) => a \o b \in Seq(S) /\ Len(a \o b) = Len(a) + Len(b)
  BY ConcatProperties, Zenon
<1>7. b \in Seq(Int) /\ c \in Seq(Int)
  BY <1>5
<1>8. /\ a \o b \in Seq(Int) /\ Len(a \o b) \in Nat
      /\ low \in Nat => a \o b \in Seq(Nat)
      /\ low <= max => Len(a \o b) > 0
  <2>1. a \o b \in Seq(Int) /\ Len(a \o b) = Len(a) + Len(b)
    BY <1>5, <1>6, <1>7
  <2>2. low \in Nat => a \o b \in Seq(Nat)
    BY <1>5, <1>6
  <2>3. Len(a) \in Nat /\ Len(b) \in Nat
    BY <1>5
  <2>. QED
    BY <1>5, <2>1, <2>2, <2>3
<1>9. <<low>> \in Seq(Int) /\ (low \in Nat => <<low>> \in Seq(Nat)) /\ Len(<<low>>) > 0
  OBVIOUS
<1>10. /\ rng(e) \in Seq(Int) /\ (low \in Nat => rng(e) \in Seq(Nat))
       /\ Len(rng(e)) > 0 \/ LateStart(asked.from, field_index)
  BY <1>3, <1>4, <1>5, <1>7, <1>8, <1>9
<1>. QED
  BY <1>1, <1>10

(***************************************************************************)
(* What is pushed.                                                         *)
(***************************************************************************)

\* A property of 0 that passes from a number to the next one holds of all
\* numbers: a set of counterexamples would have a least one.
LEMMA NoLeast ==
    ASSUME NEW Bad \in SUBSET Nat, 0 \notin Bad, \A n \in Nat : n + 1 \in Bad => n \in Bad
    PROVE  Bad = {}
<1>1. SUFFICES ASSUME Bad # {} PROVE FALSE
  OBVIOUS
<1>2. PICK m \in Bad : \A z \in Bad : ~ (<<z, m>> \in OpToRel(<, Nat))
  BY <1>1, NatLessThanWellFounded, WFMin
<1>3. m - 1 \in Nat /\ (m - 1) + 1 = m
  OBVIOUS
<1>4. m - 1 \in Bad
  BY <1>3
<1>5. <<m - 1, m>> \in OpToRel(<, Nat)
  BY <1>3 DEF OpToRel
<1>. QED
  BY <1>2, <1>4, <1>5

\* What is kept of a list, from its beginning.
Keeping(kept, items, i) ==
    IF i = 0 THEN <<>>
    ELSE IF items[i] \in seen THEN kept[i - 1] ELSE Append(kept[i - 1], items[i])

LEMMA KeptExists ==
    ASSUME NEW items
    PROVE  \A n \in Nat : \E kept : kept = [i \in 0..n |-> Keeping(kept, items, i)]
<1>. DEFINE Bad == {n \in Nat : ~ \E kept : kept = [i \in 0..n |-> Keeping(kept, items, i)]}
<1>1. 0 \notin Bad
  <2>1. PICK kept : kept = [i \in 0..0 |-> <<>>]
    OBVIOUS
  <2>2. kept = [i \in 0..0 |-> Keeping(kept, items, i)]
    BY <2>1 DEF Keeping
  <2>. QED
    BY <2>2
<1>2. ASSUME NEW n \in Nat, n \notin Bad PROVE n + 1 \notin Bad
  <2>1. PICK old : old = [i \in 0..n |-> Keeping(old, items, i)]
    BY <1>2
  <2>2. PICK kept : kept = [i \in 0..(n + 1) |-> IF i = n + 1 THEN Keeping(old, items, n + 1) ELSE old[i]]
    OBVIOUS
  <2>3. ASSUME NEW i \in 0..(n + 1) PROVE kept[i] = Keeping(kept, items, i)
    <3>1. CASE i = n + 1
      BY <2>2, <3>1 DEF Keeping
    <3>2. CASE i \in 0..n
      <4>1. \A j \in 0..n : kept[j] = old[j]
        BY <2>2
      <4>2. old[i] = Keeping(old, items, i) /\ kept[i] = old[i]
        BY <2>1, <3>2, <4>1
      <4>3. CASE i = 0
        BY <4>2, <4>3 DEF Keeping
      <4>4. CASE i # 0
        <5>1. i - 1 \in 0..n
          BY <3>2, <4>4
        <5>. QED
          BY <4>1, <4>2, <4>4, <5>1 DEF Keeping
      <4>. QED
        BY <4>3, <4>4
    <3>. QED
      BY <3>1, <3>2
  <2>4. kept = [i \in 0..(n + 1) |-> Keeping(kept, items, i)]
    BY <2>2, <2>3
  <2>. QED
    BY <2>4
<1>3. Bad = {}
  <2>1. Bad \in SUBSET Nat
    OBVIOUS
  <2>. HIDE DEF Bad
  <2>. QED
    BY <1>1, <1>2, <2>1, NoLeast
<1>. QED
  BY <1>3

LEMMA UnseenIsKept ==
    ASSUME NEW items \in Seq(Items)
    PROVE  \E kept : /\ kept = [i \in 0..Len(items) |-> Keeping(kept, items, i)]
                     /\ Unseen(items) = kept[Len(items)]
<1>1. PICK n \in Nat : n = Len(items)
  OBVIOUS
<1>2. \E kept : kept = [i \in 0..n |-> Keeping(kept, items, i)]
  BY KeptExists
<1>. DEFINE K == CHOOSE kept : kept = [i \in 0..n |-> Keeping(kept, items, i)]
<1>3. K = [i \in 0..n |-> Keeping(K, items, i)]
  BY <1>2, Zenon
<1>4. Unseen(items) = K[n]
  BY <1>1, Zenon DEF Unseen, Keeping
<1>. QED
  BY <1>1, <1>3, <1>4, Zenon

\* The items pushed are items of the list, and all of it, in its order, when
\* nothing was pushed before.
LEMMA UnseenTyped ==
    ASSUME NEW items \in Seq(Items)
    PROVE  /\ Unseen(items) \in Seq(Items)
           /\ seen = {} /\ Len(items) > 0 =>
                  /\ Len(Unseen(items)) > 0
                  /\ Unseen(items)[Len(Unseen(items))] = items[Len(items)]
<1>1. PICK kept : /\ kept = [i \in 0..Len(items) |-> Keeping(kept, items, i)]
                  /\ Unseen(items) = kept[Len(items)]
  BY UnseenIsKept
<1>2. \A i \in 0..Len(items) : kept[i] = Keeping(kept, items, i)
  BY <1>1
<1>. DEFINE Bad == {i \in Nat : i <= Len(items) /\ kept[i] \notin Seq(Items)}
<1>3. 0 \notin Bad
  <2>1. 0 \in 0..Len(items)
    OBVIOUS
  <2>2. kept[0] = Keeping(kept, items, 0)
    BY <1>2, <2>1
  <2>3. kept[0] = <<>>
    BY <2>2, Zenon DEF Keeping
  <2>4. <<>> \in Seq(Items)
    OBVIOUS
  <2>5. kept[0] \in Seq(Items)
    BY <2>3, <2>4, Zenon
  <2>. QED
    BY <2>5
<1>4. ASSUME NEW i \in Nat, i + 1 \in Bad PROVE i \in Bad
  <2>1. i + 1 \in 0..Len(items) /\ i \in 0..Len(items) /\ i + 1 \in 1..Len(items)
    BY <1>4
  <2>2. SUFFICES ASSUME kept[i] \in Seq(Items) PROVE FALSE
    BY <2>1
  <2>3. items[i + 1] \in Items
    BY <2>1
  <2>4. kept[i + 1] = Keeping(kept, items, i + 1)
    BY <1>2, <2>1
  <2>5. kept[i + 1] = kept[i] \/ kept[i + 1] = Append(kept[i], items[i + 1])
    <3>1. i + 1 # 0 /\ (i + 1) - 1 = i
      OBVIOUS
    <3>. QED
      BY <2>4, <3>1 DEF Keeping
  <2>6. PICK a, b, c : a = kept[i] /\ b = items[i + 1] /\ c = kept[i + 1]
    OBVIOUS
  <2>7. Append(a, b) \in Seq(Items)
    BY <2>2, <2>3, <2>6
  <2>8. c \in Seq(Items)
    BY <2>2, <2>5, <2>6, <2>7, Zenon
  <2>. QED
    BY <1>4, <2>6, <2>8
<1>5. Bad = {}
  <2>1. Bad \in SUBSET Nat
    OBVIOUS
  <2>. HIDE DEF Bad
  <2>. QED
    BY <1>3, <1>4, <2>1, NoLeast
<1>6. \A i \in 0..Len(items) : kept[i] \in Seq(Items)
  BY <1>5
<1>7. ASSUME seen = {}, Len(items) > 0
      PROVE  /\ Len(Unseen(items)) > 0
             /\ Unseen(items)[Len(Unseen(items))] = items[Len(items)]
  <2>1. PICK k \in Nat : k + 1 = Len(items)
    <3>1. Len(items) - 1 \in Nat /\ (Len(items) - 1) + 1 = Len(items)
      BY <1>7
    <3>. QED
      BY <3>1
  <2>2. k \in 0..Len(items) /\ k + 1 \in 0..Len(items) /\ k + 1 \in 1..Len(items) /\ k + 1 # 0 /\ (k + 1) - 1 = k
    BY <2>1
  <2>3. kept[k + 1] = Append(kept[k], items[k + 1])
    BY <1>2, <1>7, <2>2 DEF Keeping
  <2>4. kept[k] \in Seq(Items) /\ items[k + 1] \in Items
    BY <1>6, <2>2
  <2>5. PICK a, b : a = kept[k] /\ b = items[k + 1]
    OBVIOUS
  <2>6. /\ Len(Append(a, b)) = Len(a) + 1 /\ Append(a, b)[Len(a) + 1] = b /\ Len(a) \in Nat
    BY <2>4, <2>5
  <2>. QED
    BY <1>1, <2>1, <2>3, <2>5, <2>6
<1>. QED
  BY <1>1, <1>6, <1>7

(***************************************************************************)
(* The invariant.                                                          *)
(***************************************************************************)

Entry == [star : BOOLEAN, nums : SUBSET Nat, last : BOOLEAN]

OnlyDay(r) == \E d \in 1..31 : r = [Empty EXCEPT !.nums = {d}]

Typed ==
    /\ asked \in Asked /\ crc \in Nat
    /\ field_index \in 0..7 /\ open \in BOOLEAN
    /\ e_list \in Seq(Items) /\ seen \in SUBSET {i \in Items : i.form = "one"}
    /\ res \in Entry /\ expanded \in Seq(Entry) /\ nearest_weekday \in BOOLEAN

\* The fields are worked on in order, and there are five to seven.
InOrder ==
    /\ field_index > 0 => Columns \in 5..7 /\ field_index <= Columns
    /\ open => field_index > 0
    /\ Len(expanded) = field_index - (IF open THEN 1 ELSE 0)
    /\ outcome = "ok" => ~open /\ Columns \in 5..7 /\ field_index = Columns
    /\ outcome \in {"running", "ok", "bad_cron", "not_alpha", "unsupported", "other", "panic"}

\* What is done is in range, and what has no entry yet has items left: those of
\* the text, or numbers that a range has just pushed; but a late start may leave
\* a range without a number.
Filled ==
    /\ open => res = Empty \/ EntriesOf(res, field_index, asked.from)
    /\ \A f \in 1..Len(expanded) : EntriesOf(expanded[f], f, asked.from)
    /\ open /\ res = Empty /\ ~LateStart(asked.from, field_index) =>
          e_list # <<>> /\ (seen # {} => Top \in seen)

\* A "w" is alone in the field of days.
NearIsAlone ==
    nearest_weekday =>
        \/ Len(expanded) >= DAY_FIELD /\ OnlyDay(expanded[DAY_FIELD])
        \/ open /\ field_index = DAY_FIELD /\ e_list = <<>> /\ OnlyDay(res)

NthInRange == nth_weekday_of_month \subseteq All(DOW_FIELD) \X ({NTH_LAST} \cup 1..5)

ExpandInv == Typed /\ InOrder /\ Filled /\ NearIsAlone /\ NthInRange

LEMMA EmptyTyped ==
    Empty \in Entry /\ Star \in Entry
  BY DEF Empty, Star, Entry

LEMMA StarFills ==
    \A f \in 1..7 : \A from : EntriesOf(Star, f, from)
  BY DEF EntriesOf, Star

LEMMA ColumnsAreNumbers ==
    ASSUME asked \in Asked
    PROVE  Columns \in Nat
  BY ExpandAssumption DEF AskedType, Columns

LEMMA ExpandStarts ==
    ASSUME Init
    PROVE  ExpandInv
<1>1. Typed
  <2>1. crc \in Nat
    BY ExpandAssumption DEF Init
  <2>2. e_list = <<>> /\ expanded = <<>> /\ <<>> \in Seq(Items) /\ <<>> \in Seq(Entry)
    BY DEF Init
  <2>3. res = Empty
    BY DEF Init
  <2>4. res \in Entry
    BY <2>3, EmptyTyped, Zenon
  <2>5. /\ asked \in Asked /\ field_index = 0 /\ open = FALSE /\ seen = {}
        /\ nearest_weekday = FALSE
    BY Zenon DEF Init
  <2>6. field_index \in 0..7 /\ seen \in SUBSET {i \in Items : i.form = "one"}
    BY <2>5
  <2>7. open \in BOOLEAN /\ nearest_weekday \in BOOLEAN
    BY <2>5, Zenon
  <2>8. e_list \in Seq(Items) /\ expanded \in Seq(Entry)
    BY <2>2, Zenon
  <2>. QED
    BY <2>1, <2>4, <2>5, <2>6, <2>7, <2>8, Zenon DEF Typed
<1>2. InOrder
  <2>1. field_index = 0 /\ open = FALSE /\ expanded = <<>> /\ outcome = "running"
    BY Zenon DEF Init
  <2>2. Len(<<>>) = 0
    OBVIOUS
  <2>3. Len(expanded) = 0
    BY <2>1, <2>2, Zenon
  <2>4. ~open /\ field_index = 0 /\ outcome = "running"
    BY <2>1, Zenon
  <2>5. (IF open THEN 1 ELSE 0) = 0
    BY <2>4, Zenon
  <2>6. Len(expanded) = field_index - (IF open THEN 1 ELSE 0)
    <3>1. PICK l, k, o : l = Len(expanded) /\ k = field_index /\ o = (IF open THEN 1 ELSE 0)
      OBVIOUS
    <3>2. l = 0 /\ k = 0 /\ o = 0
      BY <2>3, <2>4, <2>5, <3>1, Zenon
    <3>3. l = k - o
      BY <3>2
    <3>. QED
      BY <3>1, <3>3, Zenon
  <2>7. field_index > 0 => Columns \in 5..7 /\ field_index <= Columns
    BY <2>4
  <2>8. open => field_index > 0
    BY <2>4, Zenon
  <2>9. /\ outcome = "ok" => ~open /\ Columns \in 5..7 /\ field_index = Columns
        /\ outcome \in {"running", "ok", "bad_cron", "not_alpha", "unsupported", "other", "panic"}
    BY <2>4
  <2>. QED
    BY <2>6, <2>7, <2>8, <2>9, Zenon DEF InOrder
<1>3. Filled
  BY DEF Init, Filled
<1>4. NearIsAlone
  BY DEF Init, NearIsAlone
<1>5. NthInRange
  BY DEF Init, NthInRange
<1>. QED
  BY <1>1, <1>2, <1>3, <1>4, <1>5 DEF ExpandInv

\* A refusal changes nothing else.
LEMMA RefuseStep ==
    ASSUME ExpandInv, outcome = "running", NEW errors, Refuse(errors),
           errors \subseteq {"bad_cron", "not_alpha", "unsupported", "other", "panic"}
    PROVE  ExpandInv'
<1>1. /\ asked' = asked /\ crc' = crc /\ field_index' = field_index /\ open' = open
      /\ e_list' = e_list /\ res' = res /\ seen' = seen /\ expanded' = expanded
      /\ nth_weekday_of_month' = nth_weekday_of_month /\ nearest_weekday' = nearest_weekday
      /\ outcome' \in {"bad_cron", "not_alpha", "unsupported", "other", "panic"}
  BY DEF Refuse, fieldVars, resultVars
<1>2. Typed'
  BY <1>1 DEF ExpandInv, Typed
<1>3. InOrder'
  BY <1>1 DEF ExpandInv, InOrder, Columns
<1>4. Filled'
  BY <1>1 DEF ExpandInv, Filled, Top
<1>5. NearIsAlone'
  BY <1>1 DEF ExpandInv, NearIsAlone
<1>6. NthInRange'
  BY <1>1 DEF ExpandInv, NthInRange
<1>. QED
  BY <1>2, <1>3, <1>4, <1>5, <1>6 DEF ExpandInv

\* A field is opened with its items, the number a hash names, or "*" for "?".
LEMMA OpenStep ==
    ASSUME ExpandInv, OpenField
    PROVE  ExpandInv'
<1>1. PICK f : f = field_index + 1
  OBVIOUS
<1>2. PICK field : field = expressions[f]
  OBVIOUS
<1>3. /\ outcome = "running" /\ open = FALSE /\ Columns \in 5..7 /\ field_index < Columns
      /\ asked' = asked /\ crc' = crc /\ field_index' = f /\ open' = TRUE
      /\ res' = Empty /\ seen' = {} /\ expanded' = expanded
      /\ nth_weekday_of_month' = nth_weekday_of_month /\ nearest_weekday' = nearest_weekday
      /\ outcome' = outcome
  BY <1>1 DEF OpenField, resultVars, ExpandInv, Typed
<1>4. field_index \in 0..7 /\ f \in 1..Columns /\ f \in 1..7 /\ asked \in Asked
  BY <1>1, <1>3 DEF ExpandInv, Typed
<1>5. field \in Seq(Items) /\ field # <<>>
  BY <1>2, <1>3, <1>4, ExpressionsTyped
<1>6. e_list' \in Seq(Items) /\ e_list' # <<>>
  <2>1. CASE IsHash(field)
    <3>1. PICK c : c \in Drawn(field[1]) /\ e_list' = <<hash_expand(c, f, field[1])>>
      BY <1>1, <1>2, <2>1 DEF OpenField
    <3>2. c \in Nat
      BY <3>1, ExpandAssumption DEF Drawn, ExpandInv, Typed
    <3>3. ~HashRefused(field[1])
      BY <1>1, <1>2, <2>1 DEF OpenField
    <3>4. hash_expand(c, f, field[1]) \in Items
      BY <1>4, <1>5, <2>1, <3>2, <3>3, HashExpandTyped
    <3>. QED
      BY <3>1, <3>4
  <2>2. CASE ~IsHash(field)
    <3>1. e_list' = IF HasQuestion(field) THEN <<StarItem>> ELSE field
      BY <1>1, <1>2, <2>2 DEF OpenField
    <3>2. StarItem \in Items
      BY DEF StarItem, Numbered, NumV, StarV, Items, Values, NoStep, NoNth
    <3>3. <<StarItem>> \in Seq(Items) /\ <<StarItem>> # <<>>
      BY <3>2
    <3>. QED
      BY <1>5, <3>1, <3>3
  <2>. QED
    BY <2>1, <2>2
<1>7. Typed'
  BY <1>3, <1>4, <1>6, EmptyTyped DEF ExpandInv, Typed
<1>8. InOrder'
  BY <1>1, <1>3, <1>4 DEF ExpandInv, InOrder, Columns
<1>9. Filled'
  BY <1>3, <1>6 DEF ExpandInv, Filled
<1>10. NearIsAlone'
  BY <1>3 DEF ExpandInv, NearIsAlone
<1>11. NthInRange'
  BY <1>3 DEF ExpandInv, NthInRange
<1>. QED
  BY <1>7, <1>8, <1>9, <1>10, <1>11 DEF ExpandInv

\* What is popped is an item, and the rest of the stack are items.
LEMMA PopTyped ==
    ASSUME ExpandInv, Popping
    PROVE  /\ Top \in Items /\ Rest \in Seq(Items) /\ Len(e_list) \in Nat \ {0}
           /\ Len(Rest) = Len(e_list) - 1
           /\ field_index \in 1..7 /\ field_index <= Columns /\ Columns \in 5..7
           /\ asked \in Asked
<1>1. PICK s : s = e_list
  OBVIOUS
<1>2. s \in Seq(Items) /\ s # <<>>
  BY <1>1 DEF Popping, ExpandInv, Typed
<1>3. Len(s) \in Nat \ {0} /\ s[Len(s)] \in Items
  <2>1. Len(s) \in Nat /\ Len(s) # 0
    BY <1>2, EmptySeq
  <2>2. Len(s) \in 1..Len(s)
    BY <2>1
  <2>3. s[Len(s)] \in Items
    BY <1>2, <2>2, ElementOfSeq, Zenon
  <2>. QED
    BY <2>1, <2>3
<1>4. SubSeq(s, 1, Len(s) - 1) \in Seq(Items) /\ Len(SubSeq(s, 1, Len(s) - 1)) = Len(s) - 1
  <2>1. PICK n : n = Len(s) - 1
    OBVIOUS
  <2>2. n \in Nat /\ n <= Len(s)
    BY <1>3, <2>1
  <2>3. SubSeq(s, 1, n) \in Seq(Items)
    BY <1>2, <2>2
  <2>4. Len(SubSeq(s, 1, n)) = n
    BY <1>2, <2>2
  <2>. QED
    BY <2>1, <2>3, <2>4
<1>. QED
  BY <1>1, <1>3, <1>4 DEF Popping, ExpandInv, Typed, InOrder, Top, Rest

LEMMA NearestStep ==
    ASSUME ExpandInv, PopNearestWeekday
    PROVE  ExpandInv'
<1>1. /\ Popping /\ ~Garbled(Top) /\ Top.form = "w" /\ Top.low.n \in 1..31 /\ Rest = <<>>
      /\ res = Empty /\ nearest_weekday' = TRUE /\ res' = [res EXCEPT !.nums = {Top.low.n}]
      /\ e_list' = Rest /\ asked' = asked /\ crc' = crc /\ field_index' = field_index
      /\ open' = open /\ seen' = seen /\ expanded' = expanded
      /\ nth_weekday_of_month' = nth_weekday_of_month /\ outcome' = outcome
  BY DEF PopNearestWeekday
<1>2. /\ Top \in Items /\ Rest \in Seq(Items) /\ field_index \in 1..7
      /\ outcome = "running" /\ open /\ open = TRUE
  BY <1>1, PopTyped DEF Popping, ExpandInv, Typed
<1>3. field_index = DAY_FIELD
  BY <1>1 DEF Garbled
<1>4. PICK d \in 1..31 : res' = [Empty EXCEPT !.nums = {d}]
  BY <1>1
<1>5. res' \in Entry /\ EntriesOf(res', DAY_FIELD, asked.from)
  <2>1. res'.nums = {d} /\ res'.star = FALSE /\ res'.last = FALSE
    BY <1>4 DEF Empty
  <2>2. {d} \in SUBSET Nat
    OBVIOUS
  <2>3. [Empty EXCEPT !.nums = {d}] \in Entry
    BY <2>2, EmptyTyped DEF Entry
  <2>4. res' \in Entry
    BY <1>4, <2>3, Zenon
  <2>. QED
    BY <2>1, <2>4, DayFields DEF EntriesOf, All
<1>6. res' # Empty
  BY <1>4 DEF Empty
<1>7. Typed'
  BY <1>1, <1>2, <1>5 DEF ExpandInv, Typed
<1>8. InOrder'
  BY <1>1, <1>2 DEF ExpandInv, InOrder, Columns
<1>9. Filled'
  BY <1>1, <1>3, <1>5, <1>6 DEF ExpandInv, Filled
<1>10. NearIsAlone'
  BY <1>1, <1>2, <1>3, <1>4 DEF NearIsAlone, OnlyDay
<1>11. NthInRange'
  BY <1>1 DEF ExpandInv, NthInRange
<1>. QED
  BY <1>7, <1>8, <1>9, <1>10, <1>11 DEF ExpandInv

\* A range is replaced by its numbers; if there is no entry yet, no range was
\* replaced before, and all of them are pushed.
LEMMA RangeStep ==
    ASSUME ExpandInv, PopRange
    PROVE  ExpandInv'
<1>1. PICK e : e = Top
  OBVIOUS
<1>2. /\ PopsRange /\ Popping /\ RangeErrors(e) = {} /\ e.form \in {"range", "from", "every"}
      /\ e_list' = Rest \o Unseen(Pushed(e)) /\ seen' = seen \cup {Pushed(e)[i] : i \in 1..Len(rng(e))}
      /\ asked' = asked /\ crc' = crc /\ field_index' = field_index /\ open' = open
      /\ res' = res /\ expanded' = expanded
      /\ nth_weekday_of_month' = nth_weekday_of_month /\ nearest_weekday' = nearest_weekday
      /\ outcome' = outcome
  BY <1>1 DEF PopRange, PopsRange, resultVars
<1>3. /\ e \in Items /\ Rest \in Seq(Items) /\ field_index \in 1..7 /\ asked \in Asked
      /\ outcome = "running" /\ open /\ open = TRUE /\ e_list # <<>>
  BY <1>1, <1>2, PopTyped DEF Popping, ExpandInv, Typed
<1>4. PICK r \in Seq(Int) : /\ r = rng(e) /\ Len(r) \in Nat
                            /\ Len(r) > 0 \/ LateStart(asked.from, field_index)
  BY <1>2, <1>3, RangeTyped
<1>5. PICK p : p = Pushed(e)
  OBVIOUS
<1>6. /\ p \in Seq(Items) /\ Len(p) = Len(r)
      /\ \A i \in 1..Len(r) : p[i] \in Items /\ p[i].form = "one"
  <2>1. p = [i \in 1..Len(r) |-> Written(r[i], e.nth)]
    BY <1>4, <1>5 DEF Pushed
  <2>2. e.nth \in Nat \cup {NTH_LAST, NoNth}
    BY <1>3, ItemTyped
  <2>3. ASSUME NEW i \in 1..Len(r)
        PROVE  Written(r[i], e.nth) \in Items /\ Written(r[i], e.nth).form = "one"
    <3>1. r[i] \in Int
      BY <1>4, <2>3
    <3>. QED
      BY <2>2, <3>1, WrittenTyped
  <2>. QED
    BY <1>4, <2>1, <2>3
<1>7. PICK u : u = Unseen(p)
  OBVIOUS
<1>8. /\ u \in Seq(Items)
      /\ seen = {} /\ Len(p) > 0 => Len(u) > 0 /\ u[Len(u)] = p[Len(p)]
  BY <1>6, <1>7, UnseenTyped
<1>9. e_list' = Rest \o u /\ seen' = seen \cup {p[i] : i \in 1..Len(r)}
  BY <1>2, <1>4, <1>5, <1>7
<1>10. e_list' \in Seq(Items) /\ Len(e_list') = Len(Rest) + Len(u)
  BY <1>3, <1>8, <1>9, ConcatProperties, Zenon
<1>11. seen' \in SUBSET {i \in Items : i.form = "one"}
  BY <1>6, <1>9 DEF ExpandInv, Typed
<1>12. Typed'
  BY <1>2, <1>10, <1>11 DEF ExpandInv, Typed
<1>13. InOrder'
  BY <1>2 DEF ExpandInv, InOrder, Columns
<1>14. ASSUME res = Empty, ~LateStart(asked.from, field_index)
       PROVE  e_list' # <<>> /\ Top' \in seen'
  <2>1. seen = {}
    <3>1. SUFFICES ASSUME seen # {} PROVE FALSE
      OBVIOUS
    <3>2. e \in seen
      BY <1>1, <1>3, <1>14, <3>1 DEF ExpandInv, Filled
    <3>3. e.form = "one"
      BY <3>2 DEF ExpandInv, Typed
    <3>. QED
      BY <1>2, <3>3
  <2>2. Len(u) \in Nat /\ Len(u) > 0 /\ u[Len(u)] = p[Len(p)] /\ Len(Rest) \in Nat
    BY <1>3, <1>4, <1>6, <1>8, <1>14, <2>1
  <2>3. Len(e_list') > 0 /\ Len(e_list') = Len(Rest) + Len(u)
    BY <1>10, <2>2
  <2>4. e_list'[Len(Rest) + Len(u)] = u[Len(u)]
    <3>1. PICK k, l : k = Len(Rest) /\ l = Len(u)
      OBVIOUS
    <3>2. k + l \in 1..(k + l) /\ k + l > k /\ (k + l) - k = l
      BY <2>2, <3>1
    <3>3. (Rest \o u)[k + l] = u[(k + l) - k]
      BY <1>3, <1>8, <2>2, <3>1, <3>2
    <3>. QED
      BY <1>9, <3>1, <3>2, <3>3
  <2>5. Top' = p[Len(p)]
    BY <2>2, <2>3, <2>4 DEF Top
  <2>6. p[Len(p)] \in seen'
    BY <1>4, <1>6, <1>9, <1>14
  <2>7. e_list' # <<>>
    BY <2>3
  <2>. QED
    BY <2>5, <2>6, <2>7
<1>15. Filled'
  BY <1>2, <1>14 DEF ExpandInv, Filled
<1>16. NearIsAlone'
  BY <1>2, <1>3 DEF ExpandInv, NearIsAlone
<1>17. NthInRange'
  BY <1>2 DEF ExpandInv, NthInRange
<1>. QED
  BY <1>12, <1>13, <1>15, <1>16, <1>17 DEF ExpandInv

\* A value that passes the checks is an entry within its field.
LEMMA ValueStep ==
    ASSUME ExpandInv, PopValue
    PROVE  ExpandInv'
<1>1. PICK e : e = Top
  OBVIOUS
<1>2. PICK v : v = e.low
  OBVIOUS
<1>3. /\ PopsValue /\ Popping /\ ~Garbled(e) /\ ~BadNth(e) /\ e.form = "one" /\ ValueErrors(v) = {}
      /\ res' = Adding(res, v) /\ e_list' = Rest
      /\ nth_weekday_of_month' =
            IF field_index = DOW_FIELD /\ e.nth # NoNth
            THEN nth_weekday_of_month \cup {<<value_alias(v.n, field_index), e.nth>>}
            ELSE nth_weekday_of_month
      /\ asked' = asked /\ crc' = crc /\ field_index' = field_index /\ open' = open
      /\ seen' = seen /\ expanded' = expanded /\ nearest_weekday' = nearest_weekday
      /\ outcome' = outcome
  BY <1>1, <1>2 DEF PopValue, PopsValue
<1>4. /\ e \in Items /\ Rest \in Seq(Items) /\ field_index \in 1..7
      /\ outcome = "running" /\ open /\ open = TRUE /\ e_list # <<>> /\ res \in Entry
  BY <1>1, <1>3, PopTyped DEF Popping, ExpandInv, Typed
<1>5. v \in Values /\ v.n \in Nat /\ e.nth \in Nat \cup {NTH_LAST, NoNth}
  BY <1>2, <1>4, ItemTyped DEF ItemFields
<1>6. /\ v.kind \in {"num", "month", "weekday", "star", "last", "word", "negative", "none"}
      /\ v.kind # "negative" /\ (v.kind = "star" \/ Known(v, field_index))
      /\ v.kind \notin {"star", "last"} =>
            value_alias(v.n, field_index) \in Lowest(field_index)..Highest(field_index)
  BY <1>3, <1>5 DEF ValueErrors, Values
<1>7. PICK n : n = value_alias(v.n, field_index)
  OBVIOUS
<1>8. n \in Nat /\ (v.kind \notin {"star", "last"} => n \in All(field_index))
  BY <1>5, <1>6, <1>7 DEF value_alias, All
<1>9. v.kind = "last" => field_index = DAY_FIELD
  BY <1>6 DEF Known
<1>10. res' \in Entry /\ EntriesOf(res', field_index, asked.from) /\ res' # Empty
  <2>1. res = Empty \/ EntriesOf(res, field_index, asked.from)
    BY <1>4 DEF ExpandInv, Filled
  <2>2. res.nums \subseteq All(field_index) /\ (res.last => field_index = DAY_FIELD)
    BY <2>1 DEF EntriesOf, Empty
  <2>3. CASE v.kind = "star"
    <3>1. res' = [res EXCEPT !.star = TRUE]
      BY <1>3, <2>3, Zenon DEF Adding
    <3>. QED
      BY <1>4, <2>2, <3>1 DEF EntriesOf, Entry, Empty
  <2>4. CASE v.kind = "last"
    <3>1. res' = [res EXCEPT !.last = TRUE]
      BY <1>3, <2>4 DEF Adding
    <3>. QED
      BY <1>4, <1>9, <2>2, <2>4, <3>1 DEF EntriesOf, Entry, Empty
  <2>5. CASE v.kind \notin {"star", "last"}
    <3>1. res' = [res EXCEPT !.nums = res.nums \cup {n}]
      BY <1>3, <1>7, <2>5 DEF Adding
    <3>. QED
      BY <1>4, <1>8, <2>2, <2>5, <3>1 DEF EntriesOf, Entry, Empty
  <2>. QED
    BY <2>3, <2>4, <2>5
<1>12. Typed'
  BY <1>3, <1>4, <1>10 DEF ExpandInv, Typed
<1>13. InOrder'
  BY <1>3 DEF ExpandInv, InOrder, Columns
<1>14. Filled'
  BY <1>3, <1>10 DEF ExpandInv, Filled
<1>15. NearIsAlone'
  BY <1>3, <1>4 DEF ExpandInv, NearIsAlone
<1>16. NthInRange'
  <2>1. CASE field_index = DOW_FIELD /\ e.nth # NoNth
    <3>1. special_dow_match(e)
      BY <1>3, <2>1 DEF Garbled
    <3>2. e.nth \in {NTH_LAST} \cup 1..5
      BY <1>3, <1>5, <2>1, <3>1 DEF BadNth
    <3>3. v.kind \notin {"star", "last"}
      <4>1. CASE e.nth = NTH_LAST
        BY <1>2, <3>1, <4>1 DEF special_dow_match
      <4>2. CASE e.nth # NTH_LAST
        <5>1. he_valid(e)
          BY <3>1, <4>2 DEF special_dow_match
        <5>2. v.kind # "star"
          BY <1>2, <1>3, <5>1 DEF he_valid
        <5>3. v.kind # "last"
          BY <1>9, <2>1, DayFields
        <5>. QED
          BY <5>2, <5>3
      <4>. QED
        BY <4>1, <4>2
    <3>4. n \in All(DOW_FIELD)
      BY <1>8, <2>1, <3>3
    <3>. QED
      BY <1>3, <1>7, <2>1, <3>2, <3>4 DEF ExpandInv, NthInRange
  <2>2. CASE ~ (field_index = DOW_FIELD /\ e.nth # NoNth)
    BY <1>3, <2>2 DEF ExpandInv, NthInRange
  <2>. QED
    BY <2>1, <2>2
<1>. QED
  BY <1>12, <1>13, <1>14, <1>15, <1>16 DEF ExpandInv

\* A field closes with its entries, or with "*" for all of them; the one day of
\* a "w" is not all of them.
LEMMA CloseStep ==
    ASSUME ExpandInv, CloseField
    PROVE  ExpandInv'
<1>1. PICK all \in BOOLEAN : all <=> (Entries(res) = LEN_MEANS_ALL[field_index] /\ ~skip_collapse)
  OBVIOUS
<1>2. PICK r : r = IF all THEN Star ELSE res
  OBVIOUS
<1>3. /\ outcome = "running" /\ open /\ open = TRUE /\ e_list = <<>>
      /\ expanded' = Append(expanded, r) /\ open' = FALSE
      /\ asked' = asked /\ crc' = crc /\ field_index' = field_index
      /\ e_list' = e_list /\ res' = res /\ seen' = seen
      /\ nth_weekday_of_month' = nth_weekday_of_month /\ nearest_weekday' = nearest_weekday
      /\ outcome' = outcome
  BY <1>1, <1>2 DEF CloseField, ExpandInv, Typed
<1>4. /\ field_index \in 1..7 /\ res \in Entry /\ expanded \in Seq(Entry)
      /\ Len(expanded) = field_index - 1 /\ EntriesOf(res, field_index, asked.from)
  <2>1. res = Empty => EntriesOf(res, field_index, asked.from)
    BY <1>3 DEF ExpandInv, Filled, EntriesOf, Empty
  <2>. QED
    BY <1>3, <2>1 DEF ExpandInv, Typed, InOrder, Filled
<1>5. r \in Entry /\ EntriesOf(r, field_index, asked.from)
  BY <1>2, <1>4, EmptyTyped, StarFills
<1>6. /\ expanded' \in Seq(Entry) /\ Len(expanded') = field_index
      /\ \A f \in 1..(field_index - 1) : expanded'[f] = expanded[f]
      /\ expanded'[field_index] = r
  <2>1. PICK k \in Nat : k = Len(expanded) /\ field_index = k + 1 /\ field_index - 1 = k
    BY <1>4
  <2>2. /\ Append(expanded, r) \in Seq(Entry) /\ Len(Append(expanded, r)) = k + 1
        /\ \A f \in 1..k : Append(expanded, r)[f] = expanded[f]
        /\ Append(expanded, r)[k + 1] = r
    BY <1>4, <1>5, <2>1, AppendProperties
  <2>. QED
    BY <1>3, <2>1, <2>2
<1>7. Typed'
  BY <1>3, <1>6 DEF ExpandInv, Typed
<1>8. InOrder'
  BY <1>3, <1>6 DEF ExpandInv, InOrder, Columns
<1>9. Filled'
  <2>1. ASSUME NEW f \in 1..Len(expanded') PROVE EntriesOf(expanded'[f], f, asked.from)
    <3>1. CASE f = field_index
      BY <1>5, <1>6, <3>1
    <3>2. CASE f # field_index
      <4>1. f \in 1..(field_index - 1) /\ f \in 1..Len(expanded)
        BY <1>4, <1>6, <3>2
      <4>. QED
        BY <1>6, <4>1 DEF ExpandInv, Filled
    <3>. QED
      BY <3>1, <3>2
  <2>. QED
    BY <1>3, <2>1 DEF Filled
<1>10. NearIsAlone'
  <2>1. SUFFICES ASSUME nearest_weekday PROVE NearIsAlone'
    BY <1>3 DEF NearIsAlone
  <2>2. CASE Len(expanded) >= DAY_FIELD /\ OnlyDay(expanded[DAY_FIELD])
    <3>1. DAY_FIELD \in 1..(field_index - 1) /\ Len(expanded') >= DAY_FIELD
      BY <1>4, <1>6, <2>2, DayFields
    <3>2. expanded'[DAY_FIELD] = expanded[DAY_FIELD]
      BY <1>6, <3>1
    <3>. QED
      BY <2>2, <3>1, <3>2 DEF NearIsAlone
  <2>3. CASE field_index = DAY_FIELD /\ OnlyDay(res)
    <3>1. PICK d \in 1..31 : res = [Empty EXCEPT !.nums = {d}]
      BY <2>3 DEF OnlyDay
    <3>2. res.nums = {d} /\ res.star = FALSE /\ res.last = FALSE
      BY <3>1 DEF Empty
    <3>3. Cardinality(res.nums) = 1
      BY <3>2, FS_Singleton, Zenon
    <3>4. Entries(res) = 1
      <4>1. ~res.star /\ ~res.last
        BY <3>2, Zenon
      <4>2. (IF res.star THEN 1 ELSE 0) = 0 /\ (IF res.last THEN 1 ELSE 0) = 0
        BY <4>1, Zenon
      <4>3. PICK c, a, b : /\ c = Cardinality(res.nums)
                           /\ a = (IF res.star THEN 1 ELSE 0) /\ b = (IF res.last THEN 1 ELSE 0)
        OBVIOUS
      <4>4. Entries(res) = c + a + b
        BY <4>3, Zenon DEF Entries
      <4>5. c = 1 /\ a = 0 /\ b = 0
        BY <3>3, <4>2, <4>3, Zenon
      <4>6. c + a + b = 1
        BY <4>5
      <4>. QED
        BY <4>4, <4>6, Zenon
    <3>5. Entries(res) # LEN_MEANS_ALL[field_index]
      BY <2>3, <3>4, DayFields
    <3>6. ~all
      BY <1>1, <3>5, Zenon
    <3>7. r = res
      BY <1>2, <3>6, Zenon
    <3>. QED
      BY <1>6, <2>3, <3>7, DayFields DEF NearIsAlone
  <2>. QED
    BY <2>1, <2>2, <2>3 DEF ExpandInv, NearIsAlone
<1>11. NthInRange'
  BY <1>3 DEF ExpandInv, NthInRange
<1>. QED
  BY <1>7, <1>8, <1>9, <1>10, <1>11 DEF ExpandInv

LEMMA FinishStep ==
    ASSUME ExpandInv, Finish
    PROVE  ExpandInv'
<1>1. /\ ~open /\ Columns \in 5..7 /\ field_index = Columns /\ outcome' = "ok"
      /\ asked' = asked /\ crc' = crc /\ field_index' = field_index /\ open' = open
      /\ e_list' = e_list /\ res' = res /\ seen' = seen /\ expanded' = expanded
      /\ nth_weekday_of_month' = nth_weekday_of_month /\ nearest_weekday' = nearest_weekday
  BY DEF Finish, AllClosed, fieldVars, resultVars
<1>2. Typed'
  BY <1>1 DEF ExpandInv, Typed
<1>3. InOrder'
  BY <1>1 DEF ExpandInv, InOrder, Columns
<1>4. Filled'
  BY <1>1 DEF ExpandInv, Filled
<1>5. NearIsAlone'
  BY <1>1 DEF ExpandInv, NearIsAlone
<1>6. NthInRange'
  BY <1>1 DEF ExpandInv, NthInRange
<1>. QED
  BY <1>2, <1>3, <1>4, <1>5, <1>6 DEF ExpandInv

LEMMA ExpandStep ==
    ASSUME ExpandInv, Next
    PROVE  ExpandInv'
<1>1. CASE RefuseColumns
  <2>. QED
    BY <1>1, RefuseStep DEF RefuseColumns
<1>2. CASE OpenField
  BY <1>2, OpenStep
<1>3. CASE RefuseField
  <2>. QED
    BY <1>3, RefuseStep DEF RefuseField
<1>4. CASE RefuseText
  <2>1. outcome = "running" /\ (Refuse({"not_alpha"}) \/ Refuse({"bad_cron"}))
    BY <1>4 DEF RefuseText, Popping
  <2>. QED
    BY <2>1, RefuseStep
<1>5. CASE PopNearestWeekday
  BY <1>5, NearestStep
<1>6. CASE RefuseNearestWeekday
  <2>. QED
    BY <1>6, RefuseStep DEF RefuseNearestWeekday, Popping
<1>7. CASE PopRange
  BY <1>7, RangeStep
<1>8. CASE RefuseRange
  <2>1. outcome = "running" /\ (Refuse(RangeErrors(Top)) \/ Refuse({"panic", "bad_cron"}))
    BY <1>8 DEF RefuseRange, PopsRange, Popping
  <2>2. RangeErrors(Top) \subseteq {"bad_cron", "not_alpha", "unsupported", "other", "panic"}
    BY DEF RangeErrors
  <2>. QED
    BY <2>1, <2>2, RefuseStep
<1>9. CASE PopValue
  BY <1>9, ValueStep
<1>10. CASE RefuseValue
  <2>1. outcome = "running" /\ Refuse(ValueErrors(Top.low))
    BY <1>10 DEF RefuseValue, PopsValue, Popping
  <2>2. ValueErrors(Top.low) \subseteq {"bad_cron", "not_alpha", "unsupported", "other", "panic"}
    BY DEF ValueErrors
  <2>. QED
    BY <2>1, <2>2, RefuseStep
<1>11. CASE CloseField
  BY <1>11, CloseStep
<1>12. CASE RefuseMixed
  <2>. QED
    BY <1>12, RefuseStep DEF RefuseMixed, AllClosed
<1>13. CASE Finish
  BY <1>13, FinishStep
<1>14. CASE PanicField
  <2>. QED
    BY <1>14, RefuseStep DEF PanicField
<1>. QED
  BY <1>1, <1>2, <1>3, <1>4, <1>5, <1>6, <1>7, <1>8, <1>9, <1>10, <1>11, <1>12, <1>13, <1>14 DEF Next

(***************************************************************************)
(* The strict checks.                                                      *)
(***************************************************************************)

\* What a verdict was given on has not changed since.
VerdictHolds ==
    /\ verdict \in {"unchecked", "possible", "impossible"}
    /\ verdict # "unchecked" =>
          /\ outcome = "ok" /\ strict_year \in StrictYears
          /\ verdict = IF Impossible(strict_year) THEN "impossible" ELSE "possible"

StrictInv == ExpandInv /\ VerdictHolds

LEMMA StrictStep ==
    ASSUME StrictInv, StrictNext
    PROVE  StrictInv'
<1>1. CASE Next /\ UNCHANGED <<strict_year, verdict>>
  <2>1. ExpandInv'
    BY <1>1, ExpandStep DEF StrictInv
  <2>2. outcome = "running"
    BY <1>1 DEF Next, RefuseColumns, OpenField, RefuseField, PanicField, RefuseText, PopNearestWeekday,
                RefuseNearestWeekday, PopRange, RefuseRange, PopValue, RefuseValue, CloseField,
                RefuseMixed, Finish, Popping, PopsRange, PopsValue, AllClosed
  <2>3. verdict = "unchecked"
    BY <2>2 DEF StrictInv, VerdictHolds
  <2>. QED
    BY <1>1, <2>1, <2>3 DEF StrictInv, VerdictHolds
<1>2. CASE CheckStrict
  <2>1. /\ asked' = asked /\ crc' = crc /\ field_index' = field_index /\ open' = open
        /\ e_list' = e_list /\ res' = res /\ seen' = seen /\ expanded' = expanded
        /\ nth_weekday_of_month' = nth_weekday_of_month /\ nearest_weekday' = nearest_weekday
        /\ outcome' = outcome /\ outcome = "ok" /\ strict_year' \in StrictYears
        /\ verdict' = IF Impossible(strict_year') THEN "impossible" ELSE "possible"
    BY <1>2 DEF CheckStrict, expandVars, fieldVars, resultVars
  <2>2. ExpandInv'
    BY <2>1 DEF StrictInv, ExpandInv, Typed, InOrder, Filled, NearIsAlone, NthInRange, Top, Columns
  <2>3. PICK given : given = strict_year'
    OBVIOUS
  <2>4. Impossible(given)' <=> Impossible(given)
    BY <2>1 DEF Impossible, Unchecked, days_in_month, has_leap_year, Columns
  <2>. QED
    BY <2>1, <2>2, <2>3, <2>4 DEF StrictInv, VerdictHolds
<1>. QED
  BY <1>1, <1>2 DEF StrictNext

LEMMA StrictStutters ==
    ASSUME StrictInv, UNCHANGED strictVars
    PROVE  StrictInv'
<1>1. /\ asked' = asked /\ crc' = crc /\ field_index' = field_index /\ open' = open
      /\ e_list' = e_list /\ res' = res /\ seen' = seen /\ expanded' = expanded
      /\ nth_weekday_of_month' = nth_weekday_of_month /\ nearest_weekday' = nearest_weekday
      /\ outcome' = outcome /\ strict_year' = strict_year /\ verdict' = verdict
  BY DEF strictVars, expandVars, fieldVars, resultVars
<1>2. ExpandInv'
  BY <1>1 DEF StrictInv, ExpandInv, Typed, InOrder, Filled, NearIsAlone, NthInRange, Top, Columns
<1>3. VerdictHolds'
  <2>1. PICK given : given = strict_year
    OBVIOUS
  <2>2. Impossible(given)' <=> Impossible(given)
    BY <1>1 DEF Impossible, Unchecked, days_in_month, has_leap_year, Columns
  <2>. QED
    BY <1>1, <2>1, <2>2 DEF StrictInv, VerdictHolds
<1>. QED
  BY <1>2, <1>3 DEF StrictInv

\* Months of the table, and February's leap day.
LEMMA MonthDays ==
    ASSUME NEW m \in 1..12, NEW y \in Nat
    PROVE  /\ m # 2 => last_day_of_month(y, m) = DAYS[m]
           /\ m = 2 => last_day_of_month(y, m) = IF is_leap(y) THEN 29 ELSE 28
           /\ DAYS[m] \in 28..31 /\ DAYS[1] = 31 /\ DAYS[2] = 28
<1>1. DAYS[m] \in 28..31 /\ DAYS[1] = 31 /\ DAYS[2] = 28
  BY DEF DAYS
<1>2. PICK k : k = IF m = 2 /\ is_leap(y) THEN 1 ELSE 0
  OBVIOUS
<1>3. last_day_of_month(y, m) = DAYS[m] + k
  BY <1>2, Zenon DEF last_day_of_month
<1>4. CASE m # 2
  <2>1. k = 0
    BY <1>2, <1>4, Zenon
  <2>. QED
    BY <1>1, <1>3, <1>4, <2>1
<1>5. CASE m = 2 /\ is_leap(y)
  <2>1. k = 1
    BY <1>2, <1>5, Zenon
  <2>. QED
    BY <1>1, <1>3, <1>5, <2>1
<1>6. CASE m = 2 /\ ~is_leap(y)
  <2>1. k = 0
    BY <1>2, <1>6, Zenon
  <2>. QED
    BY <1>1, <1>3, <1>6, <2>1
<1>. QED
  BY <1>1, <1>4, <1>5, <1>6

LEMMA LeapYear2000 ==
    is_leap(2000) /\ 2000 \in All(YEAR_FIELD)
<1>1. 2000 % 400 = 0
  OBVIOUS
<1>. QED
  BY <1>1, DayFields DEF is_leap, All

\* A plain field that is not "*" has numbers.
LEMMA PlainHasNumbers ==
    ASSUME ExpandInv, outcome = "ok", NEW f \in 1..7, f <= Columns, Plain(f), expanded[f] # Star
    PROVE  /\ ~expanded[f].star /\ ~expanded[f].last /\ expanded[f].nums # {}
           /\ expanded[f].nums \subseteq All(f) /\ Matching(f) = expanded[f].nums
<1>1. f \in 1..Len(expanded)
  BY DEF ExpandInv, Typed, InOrder
<1>2. EntriesOf(expanded[f], f, asked.from)
  BY <1>1 DEF ExpandInv, Filled
<1>3. ~expanded[f].star /\ ~expanded[f].last /\ expanded[f].nums # {}
  BY Zenon DEF Plain
<1>4. expanded[f].nums # {} /\ expanded[f].nums \subseteq All(f)
  BY <1>2, <1>3, Zenon DEF EntriesOf
<1>5. Matching(f) = expanded[f].nums
  BY <1>3, Zenon DEF Matching
<1>. QED
  BY <1>3, <1>4, <1>5

LEMMA StarMatchesAll ==
    ASSUME NEW f, expanded[f] = Star
    PROVE  Matching(f) = All(f) /\ expanded[f].star /\ expanded[f].nums = {}
<1>1. Star.star = TRUE /\ Star.nums = {}
  BY DEF Star
<1>. QED
  BY <1>1, Zenon DEF Matching

\* There is a year in play, and the checks know whether a leap year is.
LEMMA LeapYearInPlay ==
    ASSUME ExpandInv, outcome = "ok", strict_year \in StrictYears,
           Columns = 7 => Plain(YEAR_FIELD)
    PROVE  /\ YearsInPlay \subseteq Nat /\ YearsInPlay # {}
           /\ has_leap_year(strict_year) <=> \E y \in YearsInPlay : is_leap(y)
<1>1. CASE strict_year # {}
  <2>1. YearsInPlay = strict_year
    BY <1>1, Zenon DEF YearsInPlay
  <2>2. has_leap_year(strict_year) <=> \E y \in strict_year : is_leap(y)
    BY <1>1, Zenon DEF has_leap_year
  <2>. QED
    BY <1>1, <2>1, <2>2, StrictAssumption
<1>2. CASE strict_year = {} /\ Columns # 7
  <2>1. YearsInPlay = All(YEAR_FIELD)
    BY <1>2, Zenon DEF YearsInPlay
  <2>2. has_leap_year(strict_year)
    BY <1>2, Zenon DEF has_leap_year
  <2>3. All(YEAR_FIELD) \subseteq Nat
    BY DayFields DEF All
  <2>. QED
    BY <2>1, <2>2, <2>3, LeapYear2000
<1>3. CASE strict_year = {} /\ Columns = 7
  <2>1. YearsInPlay = Matching(YEAR_FIELD)
    BY <1>3, Zenon DEF YearsInPlay
  <2>2. /\ has_leap_year(strict_year) <=>
             \/ expanded[YEAR_FIELD] = Star \/ expanded[YEAR_FIELD].nums = {}
             \/ \E y \in expanded[YEAR_FIELD].nums : is_leap(y)
    BY <1>3, Zenon DEF has_leap_year
  <2>3. All(YEAR_FIELD) \subseteq Nat /\ YEAR_FIELD \in 1..7 /\ YEAR_FIELD <= Columns
    BY <1>3, DayFields DEF All
  <2>4. CASE expanded[YEAR_FIELD] = Star
    <3>1. Matching(YEAR_FIELD) = All(YEAR_FIELD)
      BY <2>4, StarMatchesAll, Zenon
    <3>. QED
      BY <2>1, <2>2, <2>3, <2>4, <3>1, LeapYear2000
  <2>5. CASE expanded[YEAR_FIELD] # Star
    <3>1. /\ expanded[YEAR_FIELD].nums # {} /\ expanded[YEAR_FIELD].nums \subseteq All(YEAR_FIELD)
          /\ Matching(YEAR_FIELD) = expanded[YEAR_FIELD].nums
      BY <1>3, <2>3, <2>5, PlainHasNumbers, Zenon
    <3>. QED
      BY <2>1, <2>2, <2>3, <2>5, <3>1, Zenon
  <2>. QED
    BY <2>4, <2>5
<1>. QED
  BY <1>1, <1>2, <1>3

\* The strict checks decide whether any of the days exists.
LEMMA ChecksDecide ==
    ASSUME ExpandInv, outcome = "ok", strict_year \in StrictYears,
           Plain(DAY_FIELD), Plain(MONTH_FIELD), Columns = 7 => Plain(YEAR_FIELD)
    PROVE  ~Impossible(strict_year) <=>
              \E y \in YearsInPlay, m \in Matching(MONTH_FIELD), d \in Matching(DAY_FIELD) :
                  d <= last_day_of_month(y, m)
<1>1. PICK Y, D, M : Y = YearsInPlay /\ D = Matching(DAY_FIELD) /\ M = Matching(MONTH_FIELD)
  OBVIOUS
<1>2. /\ Y \subseteq Nat /\ Y # {}
      /\ has_leap_year(strict_year) <=> \E y \in Y : is_leap(y)
  BY <1>1, LeapYearInPlay
<1>3. /\ DAY_FIELD \in 1..7 /\ MONTH_FIELD \in 1..7 /\ DAY_FIELD <= Columns /\ MONTH_FIELD <= Columns
      /\ All(DAY_FIELD) = 1..31 /\ All(MONTH_FIELD) = 1..12
  BY DayFields DEF All, ExpandInv, InOrder
<1>4. /\ expanded[DAY_FIELD] # Star =>
           /\ ~expanded[DAY_FIELD].last /\ expanded[DAY_FIELD].nums # {}
           /\ D = expanded[DAY_FIELD].nums /\ D \subseteq 1..31
      /\ expanded[MONTH_FIELD] # Star =>
           /\ expanded[MONTH_FIELD].nums # {}
           /\ M = expanded[MONTH_FIELD].nums /\ M \subseteq 1..12
  BY <1>1, <1>3, PlainHasNumbers, Zenon
<1>5. /\ expanded[DAY_FIELD] = Star => D = 1..31
      /\ expanded[MONTH_FIELD] = Star => M = 1..12
  BY <1>1, <1>3, StarMatchesAll, Zenon
<1>6. D \subseteq 1..31 /\ D # {} /\ M \subseteq 1..12 /\ M # {}
  BY <1>4, <1>5
<1>7. CASE expanded[DAY_FIELD] = Star \/ expanded[MONTH_FIELD] = Star
  <2>1. ~Impossible(strict_year)
    BY <1>7, Zenon DEF Impossible, Unchecked
  <2>2. PICK y \in Y : TRUE
    BY <1>2
  <2>3. CASE expanded[DAY_FIELD] = Star
    <3>1. 1 \in D
      BY <1>5, <2>3
    <3>2. PICK m \in M : m \in 1..12
      BY <1>6
    <3>3. 1 <= last_day_of_month(y, m)
      BY <1>2, <2>2, <3>2, MonthDays
    <3>. QED
      BY <1>1, <2>1, <2>2, <3>1, <3>2, <3>3
  <2>4. CASE expanded[MONTH_FIELD] = Star
    <3>1. 1 \in M /\ 1 \in 1..12
      BY <1>5, <2>4
    <3>2. PICK d \in D : d \in 1..31
      BY <1>6
    <3>3. last_day_of_month(y, 1) = 31
      BY <1>2, <2>2, <3>1, MonthDays
    <3>4. d <= last_day_of_month(y, 1)
      BY <3>2, <3>3
    <3>. QED
      BY <1>1, <2>1, <2>2, <3>1, <3>2, <3>4
  <2>. QED
    BY <1>7, <2>3, <2>4
<1>8. CASE expanded[DAY_FIELD] # Star /\ expanded[MONTH_FIELD] # Star
  <2>1. ~Unchecked
    <3>1. [Empty EXCEPT !.last = TRUE].last = TRUE
      BY DEF Empty
    <3>2. expanded[DAY_FIELD] # [Empty EXCEPT !.last = TRUE]
      BY <1>4, <1>8, <3>1, Zenon
    <3>. QED
      BY <1>4, <1>8, <3>2, Zenon DEF Unchecked
  <2>2. Impossible(strict_year) <=> \A m \in M, d \in D : d > days_in_month(m, strict_year)
    BY <1>4, <1>8, <2>1, Zenon DEF Impossible
  <2>3. ASSUME NEW m \in M
        PROVE  /\ days_in_month(m, strict_year) \in Nat
               /\ \A y \in Y : /\ last_day_of_month(y, m) \in Nat
                               /\ last_day_of_month(y, m) <= days_in_month(m, strict_year)
               /\ \E y \in Y : last_day_of_month(y, m) = days_in_month(m, strict_year)
    <3>1. m \in 1..12 /\ DAYS[m] \in 28..31 /\ DAYS[2] = 28
      BY <1>2, <1>6, MonthDays
    <3>2. CASE m # 2
      <4>1. days_in_month(m, strict_year) = DAYS[m]
        BY <3>2, Zenon DEF days_in_month
      <4>2. \A y \in Y : last_day_of_month(y, m) = DAYS[m]
        BY <1>2, <3>1, <3>2, MonthDays
      <4>3. PICK y \in Y : last_day_of_month(y, m) = DAYS[m]
        BY <1>2, <4>2, Zenon
      <4>4. PICK k \in Nat : k = DAYS[m]
        BY <3>1
      <4>. QED
        BY <4>1, <4>2, <4>3, <4>4
    <3>3. CASE m = 2 /\ has_leap_year(strict_year)
      <4>1. days_in_month(m, strict_year) = 29
        BY <3>3, Zenon DEF days_in_month
      <4>2. \A y \in Y : last_day_of_month(y, m) = IF is_leap(y) THEN 29 ELSE 28
        BY <1>2, <3>1, <3>3, MonthDays
      <4>3. PICK y \in Y : is_leap(y)
        BY <1>2, <3>3
      <4>4. last_day_of_month(y, m) = 29
        BY <4>2, <4>3, Zenon
      <4>5. \A z \in Y : last_day_of_month(z, m) = 29 \/ last_day_of_month(z, m) = 28
        BY <4>2, Zenon
      <4>. QED
        BY <4>1, <4>3, <4>4, <4>5
    <3>4. CASE m = 2 /\ ~has_leap_year(strict_year)
      <4>1. days_in_month(m, strict_year) = 28
        BY <3>1, <3>4, Zenon DEF days_in_month
      <4>2. \A y \in Y : last_day_of_month(y, m) = IF is_leap(y) THEN 29 ELSE 28
        BY <1>2, <3>1, <3>4, MonthDays
      <4>3. \A y \in Y : last_day_of_month(y, m) = 28
        BY <1>2, <3>4, <4>2, Zenon
      <4>4. PICK y \in Y : last_day_of_month(y, m) = 28
        BY <1>2, <4>3, Zenon
      <4>. QED
        BY <4>1, <4>3, <4>4
    <3>. QED
      BY <3>2, <3>3, <3>4
  <2>4. ASSUME NEW y \in Y, NEW m \in M, NEW d \in D, d <= last_day_of_month(y, m)
        PROVE  ~Impossible(strict_year)
    <3>1. d \in Nat /\ d <= days_in_month(m, strict_year)
      BY <1>6, <2>3, <2>4
    <3>2. ~ (d > days_in_month(m, strict_year))
      BY <2>3, <3>1
    <3>. QED
      BY <2>2, <3>2
  <2>5. ASSUME ~Impossible(strict_year)
        PROVE  \E y \in Y, m \in M, d \in D : d <= last_day_of_month(y, m)
    <3>1. PICK m \in M, d \in D : ~ (d > days_in_month(m, strict_year))
      BY <2>2, <2>5
    <3>2. d \in Nat /\ d <= days_in_month(m, strict_year)
      BY <1>6, <2>3, <3>1
    <3>. QED
      BY <2>3, <3>2
  <2>. QED
    BY <1>1, <2>4, <2>5
<1>. QED
  BY <1>7, <1>8

(***************************************************************************)
(* What the items mean.  The entries of a field and what is left on its     *)
(* stack name together what its items name.                                *)
(***************************************************************************)

\* What is on a list.
On(s) == {s[i] : i \in 1..Len(s)}

\* Whether the code's step is one longer over a wrap.
Reading(e, f) ==
    IF LastStep(RangeFrom(e, f), Highest(f), StepOf(e)) + StepOf(e) > Highest(f) + 1
    THEN 1 ELSE 0

\* The values an item names, as the code reads a wrap.
Meant(e, f) == Named(e, Reading(e, f), f)

MeantBy(S, f) == UNION {Meant(e, f) : e \in S}

NthBy(S, f) == UNION {Named(e, 0, f) \X {e.nth} : e \in {d \in S : d.nth # NoNth}}

LastBy(S, f) == \E e \in S : e.form = "one" /\ IsLast(e.low, f)
NearBy(S)    == \E e \in S : e.form = "w"
StarBy(S)    == \E e \in S : e.form = "one" /\ e.low.kind = "star"

\* The values entries stand for.
Of(r, f) == IF r.star THEN All(f) ELSE r.nums

\* What ranges have pushed is still on the stack or an entry.
Kept(S, r, sn, nths, f) ==
    \A s \in sn : \E m \in All(f), k \in {NoNth, NTH_LAST} \cup 1..5 :
        /\ s = Numbered(m, k) /\ (k # NoNth => f = DOW_FIELD)
        /\ s \in S \/ (m \in r.nums /\ (k # NoNth => <<m, k>> \in nths))

\* Steps through the start that begin in the field, and below its top but for a
\* range.
Steady(e, f) ==
    asked.from # NoStart =>
        /\ ~ (e.form \in {"every", "from"} /\ Every(StepOf(e), f) \subseteq {Highest(f)})
        /\ ~ (e.form = "range" /\ Every(StepOf(e), f) = {})
        /\ ~EarlyStep(e, f)

\* What is pushed for steps that begin before the field.
EarlyNumber(e, f) ==
    e.form = "one" /\ e.nth = NoNth /\ e.low.kind \in {"num", "negative"} /\ e.low.n <= I64Max

\* A field under work: entries and stack together are what its items name.
Working(S, r, sn, nths, near, f) ==
    LET field == expressions[f] IN
    /\ \A e \in S : WellFormedItem(e, f) \/ (StartsEarly(f) /\ EarlyNumber(e, f))
    /\ \A e \in S : EarlyStep(e, f) => StartsEarly(f)
    /\ f = DAY_FIELD => (near \/ NearBy(S) <=> NearBy(On(field)))
    /\ r.star \/ StarBy(S) => HasStar(field) \/ HasQuestion(field)
    /\ r.last \/ LastBy(S, f) <=> HasLast(field, f)
    /\ ~Relative(f) =>
          /\ IF IsHash(field) THEN Of(r, f) \cup MeantBy(S, f) \in HashNames(field[1], f)
             ELSE Of(r, f) \cup MeantBy(S, f) = MeantBy(On(field), f)
          /\ f = DOW_FIELD => nths \cup NthBy(S, f) = NthNamed(field, f)
          /\ Kept(S, r, sn, nths, f)
          /\ \A e \in S : Steady(e, f)

\* A field that is done.
Told(r, nths, near, f) ==
    LET field == expressions[f] IN
    /\ f = DAY_FIELD => (near <=> NearBy(On(field)))
    /\ ~Relative(f) =>
          /\ ~Overcounted(f) =>
                /\ Of(r, f) \in FieldNames(field, f)
                /\ r.last => HasLast(field, f)
                /\ HasLast(field, f) => r.last \/ Of(r, f) = All(f)
          /\ f = DOW_FIELD =>
                /\ nths = NthNamed(field, f)
                /\ ~IsHash(field) =>
                      /\ r.nums \subseteq MeantBy(On(field), f)
                      /\ \/ HasStar(field) \/ HasQuestion(field) \/ r = Star
                         \/ ~r.star /\ r.nums = MeantBy(On(field), f)

\* A "w" is alone; before the field of days no "w" was met, and before that of
\* weekdays no "#".
Follows ==
    /\ \A f \in 1..Len(expanded) : Told(expanded[f], nth_weekday_of_month, nearest_weekday, f)
    /\ open =>
          /\ Working(On(e_list), res, seen, nth_weekday_of_month, nearest_weekday, field_index)
          /\ NearBy(On(e_list)) => Len(e_list) = 1 /\ res = Empty
    /\ field_index < DAY_FIELD => ~nearest_weekday
    /\ field_index < DOW_FIELD => nth_weekday_of_month = {}

\* A well-formed expression is followed, and refused for mixed weekdays or for
\* years before the first alone.
Meaning ==
    WellFormed =>
        /\ Follows
        /\ \/ outcome \in {"running", "ok"}
           \/ outcome = "unsupported" /\ Relative(DOW_FIELD)
           \/ outcome = "bad_cron" /\ Columns = 7 /\ StartsEarly(7)

(***************************************************************************)
(* Steps.                                                                  *)
(***************************************************************************)

\* Division by a step and multiples of it.
LEMMA Quotient ==
    ASSUME NEW n \in Nat \ {0}, NEW x \in Int
    PROVE  x \div n \in Int /\ x % n \in 0..(n - 1) /\ x = n * (x \div n) + (x % n)
  OBVIOUS

\* The remainder is the one with a quotient.
LEMMA RemainderIs ==
    ASSUME NEW n \in Nat \ {0}, NEW x \in Int, NEW q \in Int, NEW r \in 0..(n - 1), x = n * q + r
    PROVE  x % n = r
  OBVIOUS

\* Multiples of a step, in order.
LEMMA Multiples ==
    ASSUME NEW n \in Nat \ {0}, NEW p \in Int, NEW q \in Int
    PROVE  /\ n * p \in Int /\ n * (p - q) = n * p - n * q /\ n * (p + q) = n * p + n * q
           /\ p < q => n * p + n <= n * q
           /\ p <= q => n * p <= n * q
  OBVIOUS

\* Whole steps on or back leave the remainder as it is.
LEMMA SameRemainder ==
    ASSUME NEW n \in Nat \ {0}, NEW x \in Int, NEW q \in Int
    PROVE  (x + n * q) % n = x % n
<1>1. PICK a \in Int, r \in 0..(n - 1) : x = n * a + r /\ r = x % n
  BY Quotient
<1>2. n * (a + q) = n * a + n * q /\ n * a \in Int /\ n * q \in Int
  BY Multiples
<1>3. x + n * q = n * (a + q) + r /\ x + n * q \in Int /\ a + q \in Int
  BY <1>1, <1>2
<1>. QED
  BY <1>1, <1>3, RemainderIs

\* Whole steps that are more than one step back go no way back.
LEMMA NoStepBack ==
    ASSUME NEW n \in Nat \ {0}, NEW x \in Int, x + n > 0, x % n = 0
    PROVE  x >= 0
<1>1. PICK q \in Int : x = n * q
  <2>1. x = n * (x \div n) + 0 /\ x \div n \in Int
    BY Quotient
  <2>2. n * (x \div n) \in Int
    BY <2>1, Multiples
  <2>. QED
    BY <2>1, <2>2
<1>2. SUFFICES ASSUME q < 0 PROVE FALSE
  <2>1. q >= 0 => n * 0 <= n * q
    BY Multiples
  <2>. QED
    BY <1>1, <2>1
<1>3. n * q + n <= n * 0 /\ n * q \in Int
  BY <1>2, Multiples
<1>. QED
  BY <1>1, <1>3

\* The steps of a range are its numbers a whole number of steps from its start.
LEMMA StepsNamed ==
    ASSUME NEW low \in Int, NEW high \in Int, NEW step \in Nat \ {0}
    PROVE  On(num_range_step(low, high, step)) = Stepped(low, low, high, step)
<1>1. CASE low > high
  <2>1. num_range_step(low, high, step) = <<>>
    BY <1>1 DEF num_range_step
  <2>2. Len(<<>>) = 0
    OBVIOUS
  <2>3. On(<<>>) = {}
    BY <2>2 DEF On
  <2>4. Stepped(low, low, high, step) = {}
    BY <1>1 DEF Stepped
  <2>. QED
    BY <2>1, <2>3, <2>4
<1>2. CASE low <= high
  <2>1. PICK k \in Nat, r \in 0..(step - 1) : k = (high - low) \div step /\ high - low = step * k + r
    <3>1. PICK q \in Int, r \in 0..(step - 1) : q = (high - low) \div step /\ high - low = step * q + r
      BY Quotient
    <3>2. q >= 0
      <4>1. q < 0 => step * q + step <= step * 0
        BY Multiples
      <4>2. step * q \in Int
        BY Multiples
      <4>. QED
        BY <1>2, <3>1, <4>1, <4>2
    <3>. QED
      BY <3>1, <3>2
  <2>2. num_range_step(low, high, step) = [i \in 1..(k + 1) |-> low + (i - 1) * step]
    BY <1>2, <2>1 DEF num_range_step
  <2>3. On(num_range_step(low, high, step)) = {low + (i - 1) * step : i \in 1..(k + 1)}
    <3>1. PICK s : s = [i \in 1..(k + 1) |-> low + (i - 1) * step]
      OBVIOUS
    <3>2. Len(s) = k + 1
      BY <3>1
    <3>3. On(s) = {s[i] : i \in 1..(k + 1)}
      BY <3>2, Zenon DEF On
    <3>4. \A i \in 1..(k + 1) : s[i] = low + (i - 1) * step
      BY <3>1, Zenon
    <3>5. On(s) = {low + (i - 1) * step : i \in 1..(k + 1)}
      BY <3>3, <3>4
    <3>. QED
      BY <2>2, <3>1, <3>5, Zenon
  <2>4. ASSUME NEW i \in 1..(k + 1)
        PROVE  low + (i - 1) * step \in Stepped(low, low, high, step)
    <3>1. PICK j \in Nat : j = i - 1 /\ j <= k
      OBVIOUS
    <3>2. step * j \in Int /\ step * k \in Int /\ step * j <= step * k /\ step * 0 <= step * j
      BY <3>1, Multiples
    <3>3. j * step = step * j
      OBVIOUS
    <3>4. PICK x \in Int : x = step * j
      BY <3>2
    <3>5. low + x \in low..high
      BY <2>1, <3>2, <3>4
    <3>6. x % step = 0
      <4>1. x = step * j + 0 /\ 0 \in 0..(step - 1)
        BY <3>4
      <4>. QED
        BY <3>1, <4>1, RemainderIs
    <3>7. (low + x) - low = x /\ low + x >= low
      BY <3>5
    <3>. QED
      BY <3>1, <3>3, <3>4, <3>5, <3>6, <3>7 DEF Stepped
  <2>5. ASSUME NEW v \in Stepped(low, low, high, step)
        PROVE  \E i \in 1..(k + 1) : v = low + (i - 1) * step
    <3>1. v \in low..high /\ (v - low) % step = 0
      BY DEF Stepped
    <3>2. PICK q \in Int : v - low = step * q
      <4>1. PICK x \in Int : x = v - low /\ x % step = 0
        BY <3>1
      <4>2. x = step * (x \div step) + 0 /\ x \div step \in Int
        BY <4>1, Quotient
      <4>3. PICK q \in Int : q = x \div step
        BY <4>2
      <4>4. x = step * q
        BY <4>2, <4>3, Multiples
      <4>. QED
        BY <4>1, <4>3, <4>4
    <3>3. q >= 0
      <4>1. q < 0 => step * q + step <= step * 0
        BY Multiples
      <4>2. step * q \in Int
        BY Multiples
      <4>. QED
        BY <3>1, <3>2, <4>1, <4>2
    <3>4. q <= k
      <4>1. k < q => step * k + step <= step * q
        BY Multiples
      <4>2. step * q \in Int /\ step * k \in Int
        BY Multiples
      <4>. QED
        BY <2>1, <3>1, <3>2, <4>1, <4>2
    <3>5. q + 1 \in 1..(k + 1) /\ (q + 1) - 1 = q /\ q * step = step * q /\ step * q \in Int
      BY <3>3, <3>4, Multiples
    <3>6. v = low + q * step
      BY <3>1, <3>2, <3>5
    <3>. QED
      BY <3>5, <3>6
  <2>. QED
    BY <2>3, <2>4, <2>5
<1>. QED
  BY <1>1, <1>2

\* The steps of a range begin where it begins, or there are none.
LEMMA FirstStep ==
    ASSUME NEW low \in Nat, NEW high \in Nat, NEW step \in Nat \ {0},
           NEW E, E = Stepped(low, low, high, step)
    PROVE  /\ low <= high => low \in E /\ low = FirstOf(E)
           /\ low > high => E = {}
           /\ low = high => E = {high}
<1>1. ASSUME NEW v \in E PROVE v \in Int /\ v >= low /\ v <= high
  BY DEF Stepped
<1>2. low <= high => low \in E
  <2>1. (low - low) % step = 0
    OBVIOUS
  <2>. QED
    BY <2>1 DEF Stepped
<1>3. ASSUME low <= high PROVE low = FirstOf(E)
  <2>1. low \in E /\ \A u \in E : low <= u
    BY <1>1, <1>2, <1>3
  <2>2. ASSUME NEW v \in E, \A u \in E : v <= u PROVE v = low
    <3>1. v <= low /\ v >= low /\ v \in Int
      BY <1>1, <2>1, <2>2
    <3>. QED
      BY <3>1
  <2>. QED
    BY <2>1, <2>2 DEF FirstOf
<1>4. low > high => E = {}
  BY <1>1
<1>5. ASSUME low = high PROVE E = {high}
  <2>1. \A v \in E : v = high
    BY <1>1, <1>5
  <2>. QED
    BY <1>2, <1>5, <2>1
<1>. QED
  BY <1>2, <1>3, <1>4, <1>5

\* The last step of a range.
LEMMA LastStepIs ==
    ASSUME NEW low \in Int, NEW high \in Int, NEW step \in Nat \ {0}, low <= high
    PROVE  /\ LastStep(low, high, step) \in low..high
           /\ (LastStep(low, high, step) - low) % step = 0
           /\ LastStep(low, high, step) + step > high
<1>1. PICK q \in Int, r \in 0..(step - 1) : q = (high - low) \div step /\ high - low = step * q + r
  BY Quotient
<1>2. q >= 0
  <2>1. q < 0 => step * q + step <= step * 0
    BY Multiples
  <2>2. step * q \in Int
    BY Multiples
  <2>. QED
    BY <1>1, <2>1, <2>2
<1>3. step * q \in Int /\ step * 0 <= step * q /\ q * step = step * q
  BY <1>2, Multiples
<1>4. PICK x \in Int : x = step * q
  BY <1>3
<1>5. LastStep(low, high, step) = low + x
  BY <1>1, <1>3, <1>4 DEF LastStep
<1>6. x % step = 0
  <2>1. x = step * q + 0 /\ 0 \in 0..(step - 1)
    BY <1>4
  <2>. QED
    BY <1>1, <2>1, RemainderIs
<1>7. (low + x) - low = x
  OBVIOUS
<1>. QED
  BY <1>1, <1>3, <1>4, <1>5, <1>6, <1>7

\* What is on two lists.
LEMMA OnConcat ==
    ASSUME NEW S, NEW a \in Seq(S), NEW b \in Seq(S)
    PROVE  On(a \o b) = On(a) \cup On(b)
<1>1. PICK k \in Nat, l \in Nat : k = Len(a) /\ l = Len(b)
  OBVIOUS
<1>2. PICK c : c = a \o b
  OBVIOUS
<1>3. /\ Len(c) = k + l
      /\ \A i \in 1..k : c[i] = a[i]
      /\ \A i \in 1..l : c[k + i] = b[i]
  <2>1. Len(a \o b) = Len(a) + Len(b) /\ \A i \in 1..(Len(a) + Len(b)) :
           (a \o b)[i] = IF i <= Len(a) THEN a[i] ELSE b[i - Len(a)]
    BY ConcatProperties, Zenon
  <2>2. Len(c) = k + l /\ \A i \in 1..(k + l) : c[i] = IF i <= k THEN a[i] ELSE b[i - k]
    BY <1>1, <1>2, <2>1, Zenon
  <2>3. ASSUME NEW i \in 1..k PROVE c[i] = a[i]
    BY <2>2
  <2>4. ASSUME NEW i \in 1..l PROVE c[k + i] = b[i]
    <3>1. k + i \in 1..(k + l) /\ ~ (k + i <= k) /\ (k + i) - k = i
      OBVIOUS
    <3>. QED
      BY <2>2, <3>1
  <2>. QED
    BY <2>2, <2>3, <2>4
<1>4. ASSUME NEW x \in On(c) PROVE x \in On(a) \cup On(b)
  <2>1. PICK i \in 1..(k + l) : x = c[i]
    BY <1>3 DEF On
  <2>2. CASE i <= k
    BY <1>1, <1>3, <2>1, <2>2 DEF On
  <2>3. CASE i > k
    <3>1. i - k \in 1..l /\ k + (i - k) = i
      BY <2>3
    <3>. QED
      BY <1>1, <1>3, <2>1, <3>1 DEF On
  <2>. QED
    BY <2>2, <2>3
<1>5. ASSUME NEW x \in On(a) PROVE x \in On(c)
  <2>1. PICK i \in 1..k : x = a[i]
    BY <1>1 DEF On
  <2>2. i \in 1..(k + l)
    OBVIOUS
  <2>. QED
    BY <1>3, <2>1, <2>2 DEF On
<1>6. ASSUME NEW x \in On(b) PROVE x \in On(c)
  <2>1. PICK i \in 1..l : x = b[i]
    BY <1>1 DEF On
  <2>2. k + i \in 1..(k + l)
    OBVIOUS
  <2>. QED
    BY <1>3, <2>1, <2>2 DEF On
<1>. QED
  BY <1>2, <1>4, <1>5, <1>6

\* A range over the end of a field: where the code goes on after the wrap is
\* where the step leads, or one value further.
LEMMA WrapNamed ==
    ASSUME field_index \in 1..7, NEW low \in Nat, NEW high \in Nat, NEW step \in Nat \ {0},
           low > high, low <= Highest(field_index), NEW longer,
           longer = IF LastStep(low, Highest(field_index), step) + step > Highest(field_index) + 1
                    THEN 1 ELSE 0
    PROVE  On(num_range_step(low, Highest(field_index), step)
                \o num_range_step(Lowest(field_index) + to_skip(low, step), high, step))
              = Wrapped(low, high, step, longer, field_index)
<1>1. PICK min \in Nat, max \in Nat : min = Lowest(field_index) /\ max = Highest(field_index)
  BY FieldRange
<1>2. PICK last \in low..max : /\ last = LastStep(low, max, step)
                               /\ (last - low) % step = 0 /\ last + step > max
  <2>1. low \in Int /\ max \in Int /\ low <= max
    BY <1>1
  <2>. QED
    BY <2>1, LastStepIs
<1>3. PICK top : top = Stepped(low, low, max, step)
  OBVIOUS
<1>4. (CHOOSE v \in top : \A u \in top : u <= v) = last
  <2>1. ASSUME NEW u \in top PROVE u \in low..max /\ (u - low) % step = 0
    BY <1>3 DEF Stepped
  <2>2. last \in top
    BY <1>2, <1>3 DEF Stepped
  <2>3. ASSUME NEW u \in top PROVE u <= last
    <3>1. SUFFICES ASSUME u > last PROVE FALSE
      BY <1>2, <2>1
    <3>2. PICK a \in Int : a = last - low /\ a % step = 0
      BY <1>2
    <3>3. PICK b \in Int : b = u - low /\ b % step = 0
      BY <2>1
    <3>4. PICK p \in Int : p = a \div step /\ a = step * p + 0
      BY <3>2, Quotient
    <3>5. PICK q \in Int : q = b \div step /\ b = step * q + 0
      BY <3>3, Quotient
    <3>6. p < q => step * p + step <= step * q
      BY Multiples
    <3>7. q <= p => step * q <= step * p
      BY Multiples
    <3>8. step * p \in Int /\ step * q \in Int
      BY Multiples
    <3>9. PICK x \in Int, y \in Int : x = step * p /\ y = step * q
      BY <3>8
    <3>10. x = a /\ y = b
      BY <3>4, <3>5, <3>9
    <3>11. a < b /\ b < a + step
      BY <1>2, <2>1, <3>1, <3>2, <3>3
    <3>12. (p < q => x + step <= y) /\ (q <= p => y <= x)
      BY <3>6, <3>7, <3>9, Zenon
    <3>. QED
      BY <3>10, <3>11, <3>12
  <2>4. ASSUME NEW v \in top, \A u \in top : u <= v PROVE v = last
    BY <2>1, <2>2, <2>3, <2>4
  <2>. QED
    BY <2>2, <2>3, <2>4
<1>5. PICK skip \in Nat : /\ skip = to_skip(low, step)
                          /\ skip = IF last + step > max + 1 THEN step - (max - last) ELSE 0
  <2>1. last - min + step > max - min + 1 <=> last + step > max + 1
    OBVIOUS
  <2>2. max - last < step
    BY <1>2
  <2>3. to_skip(low, step) = IF last - min + step > max - min + 1 /\ max - last < step
                             THEN step - (max - last) ELSE 0
    BY <1>1, <1>2 DEF to_skip
  <2>4. to_skip(low, step) = IF last + step > max + 1 THEN step - (max - last) ELSE 0
    BY <2>1, <2>2, <2>3
  <2>5. to_skip(low, step) \in Nat
    BY SkipTyped
  <2>. QED
    BY <2>4, <2>5
<1>6. PICK a, b : a = num_range_step(low, max, step) /\ b = num_range_step(min + skip, high, step)
  OBVIOUS
<1>7. /\ a \in Seq(Nat) /\ b \in Seq(Nat) /\ On(a) = top
      /\ On(b) = Stepped(min + skip, min + skip, high, step)
  <2>1. min + skip \in Nat /\ Nat \subseteq Int
    OBVIOUS
  <2>2. a \in Seq(Nat) /\ On(a) = top
    BY <1>3, <1>6, <2>1, StepsTyped, StepsNamed
  <2>3. b \in Seq(Nat) /\ On(b) = Stepped(min + skip, min + skip, high, step)
    BY <1>6, <2>1, StepsTyped, StepsNamed
  <2>. QED
    BY <2>2, <2>3
<1>8. ASSUME NEW v \in min..high
      PROVE  (v - min) + (max + 1 - last) - longer = (v - (min + skip)) + step
  <2>0. longer = IF last + step > max + 1 THEN 1 ELSE 0
    BY <1>1, <1>2, Zenon
  <2>1. CASE last + step > max + 1
    <3>1. longer = 1 /\ skip = step - (max - last)
      BY <1>5, <2>0, <2>1
    <3>. QED
      BY <3>1
  <2>2. CASE ~ (last + step > max + 1)
    <3>1. longer = 0 /\ skip = 0 /\ last + step = max + 1
      BY <1>2, <1>5, <2>0, <2>2
    <3>. QED
      BY <3>1
  <2>. QED
    BY <2>1, <2>2
<1>9. ASSUME NEW v \in Int
      PROVE  v \in Stepped(min + skip, min + skip, high, step) <=>
                /\ v \in min..high
                /\ (v - min) + (max + 1 - last) - longer > 0
                /\ ((v - min) + (max + 1 - last) - longer) % step = 0
  <2>1. PICK d \in Int : d = v - (min + skip)
    OBVIOUS
  <2>2. (d + step) % step = d % step
    <3>1. PICK q \in Int : q = 1
      OBVIOUS
    <3>2. PICK y \in Int : y = step * q
      BY <3>1
    <3>3. y = step
      BY <3>1, <3>2
    <3>4. (d + y) % step = d % step
      BY <3>2, SameRemainder
    <3>. QED
      BY <3>3, <3>4
  <2>3. d + step > 0 /\ d % step = 0 => d >= 0
    BY NoStepBack
  <2>4. v \in Stepped(min + skip, min + skip, high, step) <=>
           v \in (min + skip)..high /\ d % step = 0
    BY <2>1 DEF Stepped
  <2>5. CASE v \in min..high
    <3>1. (v - min) + (max + 1 - last) - longer = d + step
      BY <1>8, <2>1, <2>5
    <3>2. v \in (min + skip)..high <=> d >= 0
      BY <2>1, <2>5
    <3>. QED
      BY <2>2, <2>3, <2>4, <2>5, <3>1, <3>2
  <2>6. CASE v \notin min..high
    <3>1. v \notin (min + skip)..high
      BY <2>6
    <3>. QED
      BY <2>4, <2>6, <3>1
  <2>. QED
    BY <2>5, <2>6
<1>10. Wrapped(low, high, step, longer, field_index) =
          top \cup {v \in min..high : /\ (v - min) + (max + 1 - last) - longer > 0
                                      /\ ((v - min) + (max + 1 - last) - longer) % step = 0}
  <2>1. PICK l : l = (CHOOSE v \in top : \A u \in top : u <= v)
    OBVIOUS
  <2>2. Wrapped(low, high, step, longer, field_index) =
          top \cup {v \in min..high : /\ (v - min) + (max + 1 - l) - longer > 0
                                      /\ ((v - min) + (max + 1 - l) - longer) % step = 0}
    BY <1>1, <1>3, <2>1, Zenon DEF Wrapped
  <2>3. l = last
    BY <1>4, <2>1, Zenon
  <2>. QED
    BY <2>2, <2>3, Zenon
<1>11. On(b) = {v \in min..high : /\ (v - min) + (max + 1 - last) - longer > 0
                                  /\ ((v - min) + (max + 1 - last) - longer) % step = 0}
  <2>1. \A v \in On(b) : v \in Int
    BY <1>7 DEF Stepped
  <2>2. \A v \in min..high : v \in Int
    OBVIOUS
  <2>. QED
    BY <1>7, <1>9, <2>1, <2>2
<1>12. On(a \o b) = top \cup On(b)
  BY <1>7, OnConcat
<1>. QED
  BY <1>1, <1>5, <1>6, <1>10, <1>11, <1>12, Zenon

(***************************************************************************)
(* Well-formed items.                                                      *)
(***************************************************************************)

\* A value of a field passes the checks, and has a number there.
LEMMA ValueFits ==
    ASSUME NEW v \in Values, NEW f \in 1..7, IsValue(v, f)
    PROVE  /\ Known(v, f) /\ v.kind \in {"num", "month", "weekday"} /\ Fits(v) /\ v.n <= I64Max
           /\ value_alias(v.n, f) \in All(f)
           /\ value_alias(v.n, f) \in Nat
           /\ value_alias(v.n, f) <= Highest(f)
           /\ ~IsLast(v, f)
<1>1. v.n \in Nat /\ Lowest(f) \in Nat /\ Highest(f) <= 2099 /\ Highest(f) \in Nat
  BY FieldRange DEF Values
<1>2. value_alias(v.n, f) \in Lowest(f)..Highest(f)
  BY DEF IsValue, All
<1>3. v.n <= 2099
  BY <1>1, <1>2 DEF value_alias
<1>4. Known(v, f) /\ v.kind # "last"
  BY DEF IsValue
<1>5. v.kind \in {"num", "month", "weekday"}
  BY <1>4 DEF Known
<1>. QED
  BY <1>1, <1>2, <1>3, <1>4, <1>5, ExpandAssumption DEF Fits, IsLast, All

\* A number of a field is its own alias there.
LEMMA OwnAlias ==
    ASSUME NEW f \in 1..7, NEW n \in All(f)
    PROVE  value_alias(n, f) = n
<1>1. f = DAY_FIELD => n # 0
  BY DayFields DEF All
<1>2. f = DOW_FIELD => n # 7
  BY DayFields DEF All
<1>. QED
  BY <1>1, <1>2 DEF value_alias

\* The ends of a well-formed range and its step.
LEMMA RangeEnds ==
    ASSUME asked \in Asked, field_index \in 1..7, NEW e \in Items,
           e.form \in {"range", "from", "every"}, WellFormedItem(e, field_index)
    PROVE  /\ low_v(e) \in All(field_index) /\ high_v(e) \in All(field_index)
           /\ StepOf(e) \in Nat \ {0} /\ StepOf(e) + Highest(field_index) <= I64Max
           /\ e.form = "every" => low_v(e) = Lowest(field_index) /\ e.step = StepOf(e)
           /\ e.form = "from" => /\ low_v(e) = value_alias(e.low.n, field_index) /\ e.step = StepOf(e)
                                 /\ ~IsLast(e.low, field_index)
           /\ e.form \in {"from", "every"} => high_v(e) = Highest(field_index)
           /\ e.form = "range" =>
                 /\ low_v(e) = value_alias(e.low.n, field_index) /\ ~IsLast(e.low, field_index)
                 /\ high_v(e) = IF IsLast(e.high, field_index) THEN 31
                                ELSE value_alias(e.high.n, field_index)
           /\ RangeErrors(e) = {}
<1>. PICK f \in 1..7 : f = field_index
  OBVIOUS
<1>1. /\ Lowest(f) \in Nat /\ Highest(f) \in Nat /\ Lowest(f) < Highest(f) /\ Highest(f) <= 2099
      /\ Lowest(f) \in All(f) /\ Highest(f) \in All(f)
  BY FieldRange DEF All
<1>2. e.low \in Values /\ e.high \in Values /\ e.step \in Nat \cup {NoStep} /\ NoStep \notin Nat
  BY ItemTyped DEF ItemFields, NoStep
<1>3. StepFine(e, f)
  BY DEF WellFormedItem
<1>4. /\ StepOf(e) \in Nat \ {0} /\ StepOf(e) + Highest(f) <= I64Max
      /\ e.form \in {"from", "every"} => e.step = StepOf(e)
  <2>1. I64Max \in Nat /\ I64Max > 2099
    BY ExpandAssumption
  <2>2. CASE e.step = NoStep
    <3>1. StepOf(e) = 1
      BY <2>2 DEF StepOf
    <3>2. e.form \notin {"from", "every"}
      BY <1>2, <2>2, ItemTyped
    <3>. QED
      BY <1>1, <2>1, <3>1, <3>2
  <2>3. CASE e.step # NoStep
    <3>1. StepOf(e) = e.step /\ e.step \in 1..(I64Max - Highest(f))
      BY <1>3, <2>3 DEF StepOf, StepFine
    <3>. QED
      BY <1>1, <2>1, <3>1
  <2>. QED
    BY <2>2, <2>3
<1>5. /\ RangeLow(e) = (IF e.form = "every" THEN NumV(Lowest(f)) ELSE e.low)
      /\ RangeHigh(e) = (IF e.form # "range" THEN NumV(Highest(f))
                         ELSE IF f = DAY_FIELD /\ e.high.kind = "last" THEN NumV(31) ELSE e.high)
  BY Zenon DEF RangeLow, RangeHigh
<1>6. ASSUME NEW n \in All(f)
      PROVE  /\ Known(NumV(n), f) /\ Fits(NumV(n)) /\ NumV(n).kind = "num" /\ NumV(n).n = n
             /\ value_alias(n, f) = n
  <2>1. n \in Nat /\ n <= 2099 /\ I64Max \in Nat /\ I64Max > 2099
    BY <1>1, ExpandAssumption DEF All
  <2>2. NumV(n).kind = "num" /\ NumV(n).n = n
    BY DEF NumV
  <2>. QED
    BY <2>1, <2>2, OwnAlias DEF Known, Fits
<1>7. /\ Known(RangeLow(e), f) /\ Fits(RangeLow(e)) /\ RangeLow(e).kind # "last"
      /\ low_v(e) \in All(f)
      /\ e.form = "every" => low_v(e) = Lowest(f)
      /\ e.form # "every" => low_v(e) = value_alias(e.low.n, f) /\ ~IsLast(e.low, f)
  <2>1. CASE e.form = "every"
    <3>1. RangeLow(e) = NumV(Lowest(f))
      BY <1>5, <2>1
    <3>. QED
      BY <1>1, <1>6, <2>1, <3>1 DEF low_v
  <2>2. CASE e.form # "every"
    <3>1. IsValue(e.low, f) /\ RangeLow(e) = e.low
      BY <1>5, <2>2 DEF WellFormedItem
    <3>. QED
      BY <1>2, <2>2, <3>1, ValueFits DEF low_v
  <2>. QED
    BY <2>1, <2>2
<1>8. /\ Known(RangeHigh(e), f) /\ Fits(RangeHigh(e)) /\ high_v(e) \in All(f)
      /\ e.form # "range" => high_v(e) = Highest(f)
      /\ e.form = "range" => high_v(e) = IF IsLast(e.high, f) THEN 31 ELSE value_alias(e.high.n, f)
  <2>1. CASE e.form # "range"
    <3>1. RangeHigh(e) = NumV(Highest(f))
      BY <1>5, <2>1
    <3>. QED
      BY <1>1, <1>6, <2>1, <3>1 DEF high_v
  <2>2. CASE e.form = "range" /\ IsLast(e.high, f)
    <3>1. RangeHigh(e) = NumV(31) /\ f = DAY_FIELD
      BY <1>5, <2>2 DEF IsLast
    <3>2. 31 \in All(f)
      BY <3>1, DayFields DEF All
    <3>. QED
      BY <1>6, <2>2, <3>1, <3>2 DEF high_v
  <2>3. CASE e.form = "range" /\ ~IsLast(e.high, f)
    <3>1. IsValue(e.high, f) /\ RangeHigh(e) = e.high
      BY <1>5, <2>3 DEF IsLast, WellFormedItem
    <3>. QED
      BY <1>2, <2>3, <3>1, ValueFits DEF high_v
  <2>. QED
    BY <2>1, <2>2, <2>3
<1>9. RangeErrors(e) = {}
  <2>1. Largest(low_v(e), high_v(e)) <= Highest(f) /\ Largest(low_v(e), high_v(e)) \in Int
    BY <1>1, <1>7, <1>8 DEF Largest, All
  <2>2. ~ (Largest(low_v(e), high_v(e)) > Highest(f))
    BY <1>1, <2>1
  <2>3. ~ (StepOf(e) > I64Max) /\ StepOf(e) # 0
    BY <1>1, <1>4, ExpandAssumption
  <2>. QED
    BY <1>7, <1>8, <2>2, <2>3 DEF RangeErrors
<1>. QED
  BY <1>4, <1>7, <1>8, <1>9

\* Relative to a start that no step begins before, steps begin with the first
\* that goes through it.
LEMMA StartSteps ==
    ASSUME asked \in Asked, NEW f \in 1..7, asked.from # NoStart, NEW e \in Items,
           e.form \in {"range", "from", "every"}, ~EarlyStep(e, f),
           StepOf(e) \in Nat \ {0}, NEW low, low = get_low_from_current_date_number(f, StepOf(e))
    PROVE  /\ low \in Nat /\ Lowest(f) <= low
           /\ Every(StepOf(e), f) = Stepped(low, low, Highest(f), StepOf(e))
<1>1. PICK min \in Nat, max \in Nat, s \in Nat \ {0} : min = Lowest(f) /\ max = Highest(f) /\ s = StepOf(e)
  BY FieldRange
<1>2. PICK start \in Int : start = asked.from[f]
  BY ExpandAssumption DEF AskedType
<1>3. PICK d \in Int : d = start - min
  OBVIOUS
<1>4. Remainder(d, s) = d % s
  <2>1. CASE d >= 0
    BY <2>1 DEF Remainder
  <2>2. CASE d < 0
    <3>1. d % s = 0
      BY <1>1, <1>2, <1>3, <2>2 DEF EarlyStep
    <3>2. PICK q \in Int : q = d \div s /\ d = s * q + 0
      BY <3>1, Quotient
    <3>3. PICK n \in Int : n = -d
      OBVIOUS
    <3>4. n = s * (0 - q) + 0
      <4>1. s * (0 - q) = s * 0 - s * q /\ s * q \in Int /\ s * 0 = 0
        BY Multiples
      <4>. QED
        BY <3>2, <3>3, <4>1
    <3>5. n % s = 0
      BY <3>4, RemainderIs
    <3>. QED
      BY <2>2, <3>1, <3>3, <3>5 DEF Remainder
  <2>. QED
    BY <2>1, <2>2
<1>5. PICK y \in Int, r \in 0..(s - 1) : d = y + r /\ low = min + r /\ \E q \in Int : y = s * q
  <2>1. PICK q \in Int, r \in 0..(s - 1) : d = s * q + r /\ r = d % s
    BY Quotient
  <2>2. PICK y \in Int : y = s * q
    BY Multiples
  <2>3. low = min + r
    BY <1>1, <1>2, <1>3, <1>4, <2>1 DEF get_low_from_current_date_number
  <2>. QED
    BY <2>1, <2>2, <2>3
<1>6. low \in Nat /\ min <= low
  BY <1>5
<1>7. ASSUME NEW v \in min..max
      PROVE  /\ (v - start) % s = (v - low) % s
             /\ (v - low) % s = 0 => v >= low
  <2>1. PICK x \in Int, z \in Int : x = v - low /\ z = v - start
    BY <1>6
  <2>2. (z + y) % s = z % s
    BY <1>5, SameRemainder
  <2>3. z + y = x /\ x + s > 0
    BY <1>3, <1>5, <2>1
  <2>4. x % s = 0 => x >= 0
    BY <2>3, NoStepBack
  <2>. QED
    BY <1>6, <2>1, <2>2, <2>3, <2>4
<1>8. Every(s, f) = {v \in min..max : (v - start) % s = 0}
  BY <1>1, <1>2, Zenon DEF Every, All
<1>9. ASSUME NEW v
      PROVE  v \in Stepped(low, low, max, s) <=> v \in {u \in min..max : (u - start) % s = 0}
  BY <1>6, <1>7 DEF Stepped
<1>10. Stepped(low, low, max, s) = {v \in min..max : (v - start) % s = 0}
  BY <1>9
<1>. QED
  BY <1>1, <1>6, <1>8, <1>10

\* The last step of a well-formed range and one more still fit.
LEMMA NoOverflow ==
    ASSUME asked \in Asked, field_index \in 1..7, NEW e \in Items,
           e.form \in {"range", "from", "every"}, WellFormedItem(e, field_index)
    PROVE  ~Overflows(e)
<1>1. PICK step, low, high, min, max :
         /\ step = StepOf(e) /\ low = low_final(e) /\ high = high_v(e)
         /\ min = Lowest(field_index) /\ max = Highest(field_index)
  OBVIOUS
<1>2. /\ step \in Nat \ {0} /\ low \in Int /\ high \in Nat /\ min \in Nat /\ max \in Nat
      /\ high <= max /\ min < max /\ step + max <= I64Max
  BY <1>1, RangeEnds, RangeStarts, FieldRange
<1>3. PICK from \in Int, to \in Int : /\ from = IF low = high \/ low > max THEN min ELSE low
                                      /\ to = IF low < high \/ low > max THEN high ELSE max
  BY <1>2
<1>4. to <= max
  BY <1>2, <1>3
<1>5. ASSUME from <= to PROVE ~ (LastStep(from, to, step) + step > I64Max)
  <2>1. PICK last \in from..to : last = LastStep(from, to, step)
    BY <1>2, <1>5, LastStepIs
  <2>. QED
    BY <1>2, <1>4, <2>1, ExpandAssumption
<1>. QED
  BY <1>1, <1>3, <1>5 DEF Overflows

\* The numbers a range is replaced by are the values it names.
LEMMA RangeNamed ==
    ASSUME asked \in Asked, field_index \in 1..7, NEW e \in Items,
           e.form \in {"range", "from", "every"}, WellFormedItem(e, field_index),
           Steady(e, field_index)
    PROVE  On(rng(e)) = Meant(e, field_index)
<1>. PICK f \in 1..7 : f = field_index
  OBVIOUS
<1>1. PICK step, low, high, min, max :
         /\ step = StepOf(e) /\ low = low_final(e) /\ high = high_v(e)
         /\ min = Lowest(f) /\ max = Highest(f)
  OBVIOUS
<1>2. /\ step \in Nat \ {0} /\ high \in Nat /\ min \in Nat /\ max \in Nat
      /\ high <= max /\ min < max /\ min <= high /\ low_v(e) \in min..max
      /\ asked.from = NoStart \/ start_at_field_max(e) => low = low_v(e)
  BY <1>1, RangeEnds, RangeStarts, FieldRange DEF All, low_final
<1>3. rng(e) = IF start_at_field_max(e) THEN <<low>>
               ELSE IF low > high
               THEN num_range_step(low, max, step) \o num_range_step(min + to_skip(low, step), high, step)
               ELSE IF low = high THEN num_range_step(min, max, step)
               ELSE num_range_step(low, high, step)
  BY <1>1 DEF rng
<1>7. ASSUME asked.from # NoStart, ~start_at_field_max(e)
      PROVE  /\ low \in Nat /\ min <= low /\ Every(step, f) = Stepped(low, low, max, step)
             /\ e.form \in {"every", "from"} => low < max
             /\ e.form = "range" => low <= max /\ RangeFrom(e, f) = low
  <2>1. /\ ~EarlyStep(e, f)
        /\ e.form \in {"every", "from"} => ~ (Every(step, f) \subseteq {max})
        /\ e.form = "range" => Every(step, f) # {}
    BY <1>1, <1>7 DEF Steady
  <2>2. low = get_low_from_current_date_number(f, step)
    BY <1>1, <1>7 DEF low_final
  <2>3. low \in Nat /\ min <= low /\ Every(step, f) = Stepped(low, low, max, step)
    BY <1>1, <1>2, <1>7, <2>1, <2>2, StartSteps
  <2>4. PICK E : E = Every(step, f)
    OBVIOUS
  <2>5. /\ low <= max => low = FirstOf(E)
        /\ low > max => E = {}
        /\ low = max => E = {max}
    BY <1>2, <2>3, <2>4, FirstStep
  <2>6. RangeFrom(e, f) = FirstOf(E)
    BY <1>1, <1>7, <2>4, Zenon DEF RangeFrom
  <2>7. e.form \in {"every", "from"} => low < max
    BY <1>2, <2>1, <2>3, <2>4, <2>5
  <2>8. e.form = "range" => low <= max
    BY <1>2, <2>1, <2>3, <2>4, <2>5
  <2>. QED
    BY <2>3, <2>5, <2>6, <2>7, <2>8
<1>8. ASSUME asked.from # NoStart, ~start_at_field_max(e), high = max, e.form \in {"every", "from"}
      PROVE  On(rng(e)) = Every(step, f)
  <2>1. low \in Nat /\ low < max /\ Every(step, f) = Stepped(low, low, max, step)
    BY <1>7, <1>8
  <2>2. rng(e) = num_range_step(low, max, step)
    BY <1>2, <1>3, <1>8, <2>1
  <2>. QED
    BY <1>2, <2>1, <2>2, StepsNamed
<1>4. CASE e.form = "every"
  <2>1. high = max /\ low_v(e) = min /\ e.step = step /\ ~start_at_field_max(e)
    BY <1>1, <1>4, RangeEnds DEF start_at_field_max
  <2>2. Meant(e, f) = Every(step, f)
    <3>1. e.form = "every" /\ e.form # "one" /\ e.form # "w" /\ e.form # "range" /\ e.form # "from"
      BY <1>4
    <3>. QED
      BY <2>1, <3>1, Zenon DEF Meant, Named
  <2>3. CASE asked.from = NoStart
    <3>1. low = min
      BY <1>2, <2>1, <2>3
    <3>2. rng(e) = num_range_step(min, max, step)
      BY <1>2, <1>3, <2>1, <3>1
    <3>3. On(rng(e)) = Stepped(min, min, max, step)
      BY <1>2, <3>2, StepsNamed
    <3>4. Every(step, f) = {v \in min..max : (v - min) % step = 0}
      BY <1>1, <2>3, Zenon DEF Every, All
    <3>5. Stepped(min, min, max, step) = {v \in min..max : (v - min) % step = 0}
      BY <1>2 DEF Stepped
    <3>. QED
      BY <2>2, <3>3, <3>4, <3>5
  <2>4. CASE asked.from # NoStart
    BY <1>4, <1>8, <2>1, <2>2, <2>4
  <2>. QED
    BY <2>3, <2>4
<1>5. CASE e.form = "from"
  <2>1. high = max /\ low_v(e) = NumberOf(e.low, f) /\ e.step = step
    BY <1>1, <1>5, RangeEnds DEF NumberOf
  <2>2. Meant(e, f) = IF asked.from = NoStart \/ low_v(e) = max
                      THEN Stepped(low_v(e), min, max, step) ELSE Every(step, f)
    <3>1. e.form = "from" /\ e.form # "one" /\ e.form # "w" /\ e.form # "range"
      BY <1>5
    <3>. QED
      BY <1>1, <2>1, <3>1, Zenon DEF Meant, Named
  <2>3. CASE asked.from = NoStart \/ low_v(e) = max
    <3>1. low = low_v(e) /\ low \in min..max /\ low \in Nat
      BY <1>1, <1>2, <1>5, <2>1, <2>3 DEF start_at_field_max
    <3>2. Stepped(low, min, max, step) = Stepped(low, low, max, step)
      BY <1>2, <3>1 DEF Stepped
    <3>3. CASE low = max
      <4>1. rng(e) = <<low>>
        BY <1>1, <1>3, <1>5, <2>1, <3>1, <3>3 DEF start_at_field_max
      <4>2. On(<<low>>) = {low}
        <5>1. Len(<<low>>) = 1 /\ <<low>>[1] = low
          OBVIOUS
        <5>. QED
          BY <5>1 DEF On
      <4>3. Stepped(low, low, max, step) = {low}
        BY <1>2, <3>1, <3>3, FirstStep
      <4>. QED
        BY <2>2, <2>3, <3>1, <3>2, <4>1, <4>2, <4>3
    <3>4. CASE low # max
      <4>1. rng(e) = num_range_step(low, max, step)
        BY <1>1, <1>2, <1>3, <2>1, <3>1, <3>4 DEF start_at_field_max
      <4>. QED
        BY <1>2, <2>2, <2>3, <3>1, <3>2, <4>1, StepsNamed
    <3>. QED
      BY <3>3, <3>4
  <2>4. CASE ~ (asked.from = NoStart \/ low_v(e) = max)
    <3>1. ~start_at_field_max(e)
      BY <1>1, <2>1, <2>4 DEF start_at_field_max
    <3>. QED
      BY <1>5, <1>8, <2>1, <2>2, <2>4, <3>1
  <2>. QED
    BY <2>3, <2>4
<1>6. CASE e.form = "range"
  <2>1. low_v(e) = NumberOf(e.low, f) /\ high = NumberOf(e.high, f) /\ ~start_at_field_max(e)
    BY <1>1, <1>6, RangeEnds DEF start_at_field_max, NumberOf
  <2>2. low = RangeFrom(e, f) /\ low \in Nat /\ low <= max
    <3>1. CASE asked.from = NoStart
      <4>1. RangeFrom(e, f) = NumberOf(e.low, f)
        BY <3>1, Zenon DEF RangeFrom
      <4>. QED
        BY <1>2, <2>1, <3>1, <4>1
    <3>2. CASE asked.from # NoStart
      BY <1>6, <1>7, <2>1, <3>2
    <3>. QED
      BY <3>1, <3>2
  <2>3. PICK longer : longer = Reading(e, f)
    OBVIOUS
  <2>4. Meant(e, f) = Ranged(low, high, step, longer, f)
    <3>1. e.form = "range" /\ e.form # "one" /\ e.form # "w"
      BY <1>6
    <3>. QED
      BY <1>1, <2>1, <2>2, <2>3, <3>1, Zenon DEF Meant, Named
  <2>5. CASE low = high
    <3>1. rng(e) = num_range_step(min, max, step)
      BY <1>2, <1>3, <2>1, <2>2, <2>5
    <3>2. Ranged(low, high, step, longer, f) = Stepped(min, min, max, step)
      BY <1>1, <2>5, Zenon DEF Ranged
    <3>. QED
      BY <1>2, <2>2, <2>4, <3>1, <3>2, StepsNamed
  <2>6. CASE low < high
    <3>1. rng(e) = num_range_step(low, high, step)
      BY <1>2, <1>3, <2>1, <2>2, <2>6
    <3>2. Ranged(low, high, step, longer, f) = Stepped(low, low, high, step)
      BY <1>2, <2>2, <2>6 DEF Ranged
    <3>. QED
      BY <1>2, <2>2, <2>4, <3>1, <3>2, StepsNamed
  <2>7. CASE low > high
    <3>1. rng(e) = num_range_step(low, max, step) \o num_range_step(min + to_skip(low, step), high, step)
      BY <1>3, <2>1, <2>7
    <3>2. Ranged(low, high, step, longer, f) = Wrapped(low, high, step, longer, f)
      BY <1>2, <2>2, <2>7 DEF Ranged
    <3>3. longer = IF LastStep(low, max, step) + step > max + 1 THEN 1 ELSE 0
      BY <1>1, <2>2, <2>3 DEF Reading
    <3>. QED
      BY <1>1, <1>2, <2>2, <2>4, <2>7, <3>1, <3>2, <3>3, WrapNamed
  <2>. QED
    BY <1>2, <2>2, <2>5, <2>6, <2>7
<1>. QED
  BY <1>4, <1>5, <1>6

(***************************************************************************)
(* What is on the stack.                                                   *)
(***************************************************************************)

LEMMA OnEmpty == On(<<>>) = {}
<1>1. Len(<<>>) = 0
  OBVIOUS
<1>. QED
  BY <1>1 DEF On

LEMMA OnOne ==
    ASSUME NEW e
    PROVE  On(<<e>>) = {e}
<1>1. Len(<<e>>) = 1 /\ <<e>>[1] = e
  OBVIOUS
<1>. QED
  BY <1>1 DEF On

LEMMA OnAppend ==
    ASSUME NEW S, NEW s \in Seq(S), NEW x \in S
    PROVE  On(Append(s, x)) = On(s) \cup {x}
<1>1. PICK k \in Nat : k = Len(s)
  OBVIOUS
<1>2. PICK c : c = Append(s, x)
  OBVIOUS
<1>3. Len(c) = k + 1 /\ (\A i \in 1..k : c[i] = s[i]) /\ c[k + 1] = x
  BY <1>1, <1>2, AppendProperties
<1>4. ASSUME NEW y \in On(c) PROVE y \in On(s) \cup {x}
  <2>1. PICK i \in 1..(k + 1) : y = c[i]
    BY <1>3 DEF On
  <2>2. i \in 1..k \/ i = k + 1
    OBVIOUS
  <2>. QED
    BY <1>1, <1>3, <2>1, <2>2 DEF On
<1>5. ASSUME NEW y \in On(s) PROVE y \in On(c)
  <2>1. PICK i \in 1..k : y = s[i]
    BY <1>1 DEF On
  <2>2. i \in 1..(k + 1)
    OBVIOUS
  <2>. QED
    BY <1>3, <2>1, <2>2 DEF On
<1>6. x \in On(c)
  <2>1. k + 1 \in 1..(k + 1)
    OBVIOUS
  <2>. QED
    BY <1>3, <2>1 DEF On
<1>. QED
  BY <1>2, <1>4, <1>5, <1>6

\* The stack is its top and the rest.
LEMMA OnPop ==
    ASSUME ExpandInv, Popping
    PROVE  On(e_list) = On(Rest) \cup {Top} /\ On(e_list) \subseteq Items
<1>1. PICK s \in Seq(Items) : s = e_list
  BY DEF ExpandInv, Typed
<1>2. PICK n \in Nat : n = Len(s) - 1 /\ Len(s) = n + 1
  <2>1. Len(s) \in Nat \ {0}
    BY <1>1, PopTyped
  <2>. QED
    BY <2>1
<1>3. PICK r : r = SubSeq(s, 1, n)
  OBVIOUS
<1>4. r \in Seq(Items) /\ Len(r) = n /\ \A i \in 1..n : r[i] = s[i]
  <2>1. n <= Len(s)
    BY <1>2
  <2>2. r \in Seq(Items) /\ Len(r) = n
    BY <1>2, <1>3, <2>1
  <2>3. ASSUME NEW i \in 1..n PROVE r[i] = s[i]
    BY <1>2, <1>3, <2>1
  <2>. QED
    BY <2>2, <2>3
<1>5. Rest = r /\ Top = s[n + 1]
  BY <1>1, <1>2, <1>3 DEF Rest, Top
<1>6. ASSUME NEW y \in On(s) PROVE y \in On(r) \cup {s[n + 1]}
  <2>1. PICK i \in 1..(n + 1) : y = s[i]
    BY <1>2 DEF On
  <2>2. i \in 1..n \/ i = n + 1
    OBVIOUS
  <2>. QED
    BY <1>4, <2>1, <2>2 DEF On
<1>7. ASSUME NEW y \in On(r) PROVE y \in On(s)
  <2>1. PICK i \in 1..n : y = r[i]
    BY <1>4 DEF On
  <2>2. i \in 1..(n + 1)
    OBVIOUS
  <2>. QED
    BY <1>2, <1>4, <2>1, <2>2 DEF On
<1>8. s[n + 1] \in On(s)
  <2>1. n + 1 \in 1..(n + 1)
    OBVIOUS
  <2>. QED
    BY <1>2, <2>1 DEF On
<1>9. On(s) \subseteq Items
  BY <1>1 DEF On
<1>. QED
  BY <1>1, <1>5, <1>6, <1>7, <1>8, <1>9

\* All but what was pushed before is pushed.
LEMMA UnseenNamed ==
    ASSUME NEW items \in Seq(Items)
    PROVE  On(Unseen(items)) = On(items) \ seen
<1>1. PICK kept : /\ kept = [i \in 0..Len(items) |-> Keeping(kept, items, i)]
                  /\ Unseen(items) = kept[Len(items)]
  BY UnseenIsKept
<1>2. \A i \in 0..Len(items) : kept[i] = Keeping(kept, items, i)
  BY <1>1
<1>. DEFINE Before(i) == {items[j] : j \in 1..i}
            Right(i) == kept[i] \in Seq(Items) /\ On(kept[i]) = Before(i) \ seen
            Bad == {i \in Nat : i <= Len(items) /\ ~Right(i)}
<1>3. 0 \notin Bad
  <2>1. 0 \in 0..Len(items)
    OBVIOUS
  <2>2. kept[0] = Keeping(kept, items, 0)
    BY <1>2, <2>1
  <2>3. kept[0] = <<>>
    BY <2>2, Zenon DEF Keeping
  <2>4. <<>> \in Seq(Items)
    OBVIOUS
  <2>5. Before(0) = {}
    OBVIOUS
  <2>6. kept[0] \in Seq(Items) /\ On(kept[0]) = {}
    BY <2>3, <2>4, OnEmpty, Zenon
  <2>. HIDE DEF Before
  <2>. QED
    BY <2>5, <2>6
<1>4. ASSUME NEW i \in Nat, i + 1 \in Bad PROVE i \in Bad
  <2>1. i + 1 \in 0..Len(items) /\ i \in 0..Len(items) /\ i + 1 \in 1..Len(items)
    BY <1>4
  <2>2. SUFFICES ASSUME Right(i) PROVE FALSE
    BY <2>1
  <2>3. items[i + 1] \in Items
    BY <2>1
  <2>4. kept[i + 1] = Keeping(kept, items, i + 1)
    BY <1>2, <2>1
  <2>5. kept[i + 1] = IF items[i + 1] \in seen THEN kept[i] ELSE Append(kept[i], items[i + 1])
    <3>1. i + 1 # 0 /\ (i + 1) - 1 = i
      OBVIOUS
    <3>. QED
      BY <2>4, <3>1 DEF Keeping
  <2>6. PICK a, b, c : a = kept[i] /\ b = items[i + 1] /\ c = kept[i + 1]
    OBVIOUS
  <2>7. a \in Seq(Items) /\ b \in Items
    BY <2>2, <2>3, <2>6
  <2>8. Append(a, b) \in Seq(Items) /\ On(Append(a, b)) = On(a) \cup {b}
    BY <2>7, OnAppend
  <2>9. Before(i + 1) = Before(i) \cup {b}
    <3>1. \A j : j \in 1..(i + 1) <=> j \in 1..i \/ j = i + 1
      OBVIOUS
    <3>. QED
      BY <2>6, <3>1
  <2>10. c = IF b \in seen THEN a ELSE Append(a, b)
    BY <2>5, <2>6, Zenon
  <2>11. On(a) = Before(i) \ seen
    BY <2>2, <2>6
  <2>12. c \in Seq(Items)
    BY <2>7, <2>8, <2>10, Zenon
  <2>13. On(c) = Before(i + 1) \ seen
    <3>. HIDE DEF Before
    <3>1. CASE b \in seen
      <4>1. c = a
        BY <2>10, <3>1
      <4>. QED
        BY <2>9, <2>11, <3>1, <4>1
    <3>2. CASE b \notin seen
      <4>1. c = Append(a, b)
        BY <2>10, <3>2
      <4>. QED
        BY <2>8, <2>9, <2>11, <3>2, <4>1
    <3>. QED
      BY <3>1, <3>2
  <2>14. Right(i + 1)
    BY <2>6, <2>12, <2>13, Zenon
  <2>. QED
    BY <1>4, <2>14
<1>5. Bad = {}
  <2>1. Bad \in SUBSET Nat
    OBVIOUS
  <2>. HIDE DEF Bad
  <2>. QED
    BY <1>3, <1>4, <2>1, NoLeast
<1>6. Right(Len(items))
  <2>. HIDE DEF Right
  <2>. QED
    BY <1>5
<1>. QED
  BY <1>1, <1>6, Zenon DEF On

\* The items a range pushes.
LEMMA PushedNamed ==
    ASSUME NEW e, rng(e) \in Seq(Int)
    PROVE  On(Pushed(e)) = {Written(n, e.nth) : n \in On(rng(e))}
<1>1. PICK r \in Seq(Int) : r = rng(e)
  OBVIOUS
<1>2. PICK k \in Nat : k = Len(r)
  OBVIOUS
<1>3. PICK p : p = Pushed(e)
  OBVIOUS
<1>4. p = [i \in 1..k |-> Written(r[i], e.nth)]
  BY <1>1, <1>2, <1>3 DEF Pushed
<1>5. Len(p) = k /\ \A i \in 1..k : p[i] = Written(r[i], e.nth)
  BY <1>4
<1>6. On(p) = {p[i] : i \in 1..k} /\ On(r) = {r[i] : i \in 1..k}
  BY <1>2, <1>5, Zenon DEF On
<1>7. {p[i] : i \in 1..k} = {Written(n, e.nth) : n \in {r[i] : i \in 1..k}}
  BY <1>5
<1>. QED
  BY <1>1, <1>3, <1>6, <1>7, Zenon

(***************************************************************************)
(* What was asked stays the same.                                          *)
(***************************************************************************)

LEMMA SameTexts ==
    ASSUME asked' = asked
    PROVE  /\ Columns' = Columns /\ expressions' = expressions
           /\ \A n, f : value_alias(n, f)' = value_alias(n, f)
<1>1. Columns' = Columns
  BY DEF Columns
<1>2. expressions' = expressions
  BY Zenon DEF expressions
<1>3. ASSUME NEW n, NEW f PROVE value_alias(n, f)' = value_alias(n, f)
  BY <1>1, Zenon DEF value_alias
<1>. QED
  BY <1>1, <1>2, <1>3

LEMMA SameNames ==
    ASSUME asked' = asked
    PROVE  /\ \A e, l, f : Named(e, l, f)' = Named(e, l, f)
           /\ \A e, f : Reading(e, f)' = Reading(e, f)
           /\ \A step, f : Every(step, f)' = Every(step, f)
<1>1. \A n, f : value_alias(n, f)' = value_alias(n, f)
  BY SameTexts
<1>2. ASSUME NEW step, NEW f PROVE Every(step, f)' = Every(step, f)
  BY Zenon DEF Every
<1>3. ASSUME NEW v, NEW f PROVE NumberOf(v, f)' = NumberOf(v, f)
  BY <1>1, Zenon DEF NumberOf
<1>4. ASSUME NEW e, NEW f PROVE RangeFrom(e, f)' = RangeFrom(e, f)
  BY <1>2, <1>3, Zenon DEF RangeFrom
<1>5. ASSUME NEW e, NEW l, NEW f PROVE Named(e, l, f)' = Named(e, l, f)
  BY <1>2, <1>3, <1>4, Zenon DEF Named
<1>6. ASSUME NEW e, NEW f PROVE Reading(e, f)' = Reading(e, f)
  BY <1>4, Zenon DEF Reading
<1>. QED
  BY <1>2, <1>5, <1>6

LEMMA SameSets ==
    ASSUME asked' = asked
    PROVE  /\ \A S, f : MeantBy(S, f)' = MeantBy(S, f) /\ NthBy(S, f)' = NthBy(S, f)
           /\ \A s, f : /\ FieldNames(s, f)' = FieldNames(s, f) /\ NthNamed(s, f)' = NthNamed(s, f)
                        /\ \A r : PlainNamed(s, r, f)' = PlainNamed(s, r, f)
<1>1. /\ \A e, l, f : Named(e, l, f)' = Named(e, l, f)
      /\ \A e, f : Meant(e, f)' = Meant(e, f)
  <2>1. ASSUME NEW e, NEW f PROVE Meant(e, f)' = Meant(e, f)
    BY SameNames, Zenon DEF Meant
  <2>. QED
    BY <2>1, SameNames
<1>2. ASSUME NEW S, NEW f PROVE MeantBy(S, f)' = MeantBy(S, f)
  BY <1>1 DEF MeantBy
<1>3. ASSUME NEW S, NEW f PROVE NthBy(S, f)' = NthBy(S, f)
  BY <1>1 DEF NthBy
<1>4. ASSUME NEW s, NEW f PROVE FieldNames(s, f)' = FieldNames(s, f)
  <2>. DEFINE After(longer) == UNION {Named(s[i], longer[i], f)' : i \in 1..Len(s)}
              Before(longer) == UNION {Named(s[i], longer[i], f) : i \in 1..Len(s)}
  <2>1. \A longer : After(longer) = Before(longer)
    BY <1>1, Zenon
  <2>2. {After(longer) : longer \in Readings(s)} = {Before(longer) : longer \in Readings(s)}
    <3>. HIDE DEF After, Before
    <3>. QED
      BY <2>1
  <2>. QED
    BY <2>2, Zenon DEF FieldNames
<1>5. ASSUME NEW s, NEW f PROVE NthNamed(s, f)' = NthNamed(s, f)
  BY <1>1, Zenon DEF NthNamed
<1>6. ASSUME NEW s, NEW f, NEW r PROVE PlainNamed(s, r, f)' = PlainNamed(s, r, f)
  BY <1>1, Zenon DEF PlainNamed
<1>. QED
  BY <1>2, <1>3, <1>4, <1>5, <1>6

LEMMA SameForms ==
    ASSUME asked' = asked
    PROVE  /\ \A e, f : WellFormedItem(e, f)' <=> WellFormedItem(e, f)
           /\ WellFormed' <=> WellFormed
           /\ \A e, f : EarlyStep(e, f)' <=> EarlyStep(e, f)
           /\ \A f : StartsEarly(f)' <=> StartsEarly(f)
           /\ \A f : Relative(f)' <=> Relative(f)
           /\ \A f : Overcounted(f)' <=> Overcounted(f)
           /\ \A e, f : Steady(e, f)' <=> Steady(e, f)
<1>1. /\ Columns' = Columns /\ expressions' = expressions
      /\ \A n, f : value_alias(n, f)' = value_alias(n, f)
  BY SameTexts
<1>2. ASSUME NEW v, NEW f PROVE IsValue(v, f)' <=> IsValue(v, f)
  BY <1>1, Zenon DEF IsValue
<1>3. ASSUME NEW e, NEW f PROVE WellFormedItem(e, f)' <=> WellFormedItem(e, f)
  BY <1>2, Zenon DEF WellFormedItem
<1>4. ASSUME NEW s, NEW f PROVE WellFormedField(s, f)' <=> WellFormedField(s, f)
  <2>1. \A e : WellFormedHash(e, f)' <=> WellFormedHash(e, f)
    BY Zenon DEF WellFormedHash
  <2>. QED
    BY <1>3, <2>1, Zenon DEF WellFormedField
<1>5. WellMixed' <=> WellMixed
  BY <1>1, SameSets, Zenon DEF WellMixed
<1>6. WellFormed' <=> WellFormed
  BY <1>1, <1>4, <1>5, Zenon DEF WellFormed
<1>10. ASSUME NEW e, NEW f PROVE EarlyStep(e, f)' <=> EarlyStep(e, f)
  BY Zenon DEF EarlyStep
<1>11. ASSUME NEW f PROVE StartsEarly(f)' <=> StartsEarly(f)
  BY <1>1, <1>10, Zenon DEF StartsEarly
<1>7. ASSUME NEW f PROVE Relative(f)' <=> Relative(f)
  BY <1>1, <1>11, SameNames, Zenon DEF Relative
<1>8. ASSUME NEW f PROVE Overcounted(f)' <=> Overcounted(f)
  BY <1>1, SameSets, Zenon DEF Overcounted
<1>9. ASSUME NEW e, NEW f PROVE Steady(e, f)' <=> Steady(e, f)
  BY <1>10, SameNames, Zenon DEF Steady
<1>. QED
  BY <1>3, <1>6, <1>7, <1>8, <1>9, <1>10, <1>11

LEMMA SameMeaning ==
    ASSUME asked' = asked
    PROVE  /\ \A S, r, sn, nths, near, f :
                 Working(S, r, sn, nths, near, f)' <=> Working(S, r, sn, nths, near, f)
           /\ \A r, nths, near, f : Told(r, nths, near, f)' <=> Told(r, nths, near, f)
<1>1. ASSUME NEW S, NEW r, NEW sn, NEW nths, NEW near, NEW f
      PROVE  Working(S, r, sn, nths, near, f)' <=> Working(S, r, sn, nths, near, f)
  BY SameTexts, SameSets, SameForms, Zenon DEF Working
<1>2. ASSUME NEW r, NEW nths, NEW near, NEW f
      PROVE  Told(r, nths, near, f)' <=> Told(r, nths, near, f)
  BY SameTexts, SameSets, SameForms, Zenon DEF Told
<1>. QED
  BY <1>1, <1>2

(***************************************************************************)
(* What items mean.                                                        *)
(***************************************************************************)

LEMMA NumberedIs ==
    ASSUME NEW n, NEW k
    PROVE  LET e == Numbered(n, k) IN
           /\ e.form = "one" /\ e.low.kind = "num" /\ e.low.n = n /\ e.nth = k /\ e.step = NoStep
  BY DEF Numbered, NumV

\* A single value names itself, "*" the whole field and "l" no number.
LEMMA MeantValue ==
    ASSUME NEW e, e.form = "one", NEW f
    PROVE  /\ e.low.kind = "star" => Meant(e, f) = All(f)
           /\ e.low.kind = "last" => Meant(e, f) = {}
           /\ e.low.kind \notin {"star", "last"} => /\ Meant(e, f) = {value_alias(e.low.n, f)}
                                                    /\ Named(e, 0, f) = {value_alias(e.low.n, f)}
<1>1. ASSUME NEW l
      PROVE  /\ e.low.kind = "star" => Named(e, l, f) = All(f)
             /\ e.low.kind = "last" => Named(e, l, f) = {}
             /\ e.low.kind \notin {"star", "last"} => Named(e, l, f) = {value_alias(e.low.n, f)}
  <2>1. CASE e.low.kind = "star"
    <3>1. e.low.kind # "last"
      BY <2>1
    <3>2. e.low.kind \in {"star", "last"}
      BY <2>1
    <3>. QED
      BY <2>1, <3>1, <3>2, Zenon DEF Named
  <2>2. CASE e.low.kind = "last"
    <3>1. e.low.kind # "star"
      BY <2>2
    <3>2. e.low.kind \in {"star", "last"}
      BY <2>2
    <3>. QED
      BY <2>2, <3>1, <3>2, Zenon DEF Named
  <2>3. CASE e.low.kind \notin {"star", "last"}
    <3>1. e.low.kind # "star" /\ e.low.kind # "last" /\ ~IsLast(e.low, f)
      BY <2>3 DEF IsLast
    <3>2. Named(e, l, f) = {NumberOf(e.low, f)}
      BY <2>3, <3>1, Zenon DEF Named
    <3>. QED
      BY <3>1, <3>2, Zenon DEF NumberOf
  <2>. QED
    BY <2>1, <2>2, <2>3
<1>. QED
  BY <1>1, Zenon DEF Meant

\* A number that was pushed names itself.
LEMMA MeantNumber ==
    ASSUME NEW f \in 1..7, NEW n \in All(f), NEW k
    PROVE  Meant(Numbered(n, k), f) = {n} /\ Named(Numbered(n, k), 0, f) = {n}
<1>1. PICK e : e = Numbered(n, k)
  OBVIOUS
<1>2. e.form = "one" /\ e.low.kind = "num" /\ e.low.n = n
  BY <1>1, NumberedIs
<1>3. e.low.kind \notin {"star", "last"}
  BY <1>2
<1>. QED
  BY <1>1, <1>2, <1>3, MeantValue, OwnAlias

\* A number that was pushed is well formed.
LEMMA NumberWellFormed ==
    ASSUME NEW f \in 1..7, NEW n \in All(f), NEW k,
           k # NoNth => f = DOW_FIELD /\ k \in {NTH_LAST} \cup 1..5
    PROVE  WellFormedItem(Numbered(n, k), f)
<1>1. PICK e : e = Numbered(n, k)
  OBVIOUS
<1>2. e.form = "one" /\ e.low.kind = "num" /\ e.low.n = n /\ e.nth = k
  BY <1>1, NumberedIs
<1>3. IsValue(e.low, f)
  BY <1>2, OwnAlias DEF IsValue, Known
<1>4. NthFine(e, f)
  BY <1>2 DEF NthFine, he_valid
<1>5. WellFormedItem(e, f)
  BY <1>2, <1>3, <1>4 DEF WellFormedItem
<1>. QED
  BY <1>1, <1>5

\* A well-formed weekday#n is a weekday or a range of them without a step,
\* which a wrap does not lengthen.
LEMMA MeantNth ==
    ASSUME asked \in Asked, NEW e \in Items, NEW f \in 1..7, WellFormedItem(e, f), e.nth # NoNth
    PROVE  /\ f = DOW_FIELD /\ e.nth \in {NTH_LAST} \cup 1..5
           /\ e.form \in {"one", "range"}
           /\ e.form = "one" => e.low.kind \notin {"star", "last"}
           /\ Named(e, 0, f) = Meant(e, f)
<1>1. f = DOW_FIELD /\ e.nth \in {NTH_LAST} \cup 1..5
  BY DEF WellFormedItem, NthFine
<1>2. \/ he_valid(e)
      \/ e.form = "one" /\ e.low.kind = "num"
  BY DEF WellFormedItem, NthFine
<1>3. e.form = "one" \/ (e.form = "range" /\ e.step = NoStep)
  BY <1>2 DEF he_valid
<1>4. CASE e.form = "one"
  <2>1. e.low.kind # "star"
    BY <1>2, <1>4 DEF he_valid
  <2>2. e.low.kind # "last"
    <3>1. SUFFICES ASSUME e.low.kind = "last" PROVE FALSE
      OBVIOUS
    <3>2. f # DAY_FIELD
      BY <1>1, DayFields
    <3>3. IsLast(e.low, f) \/ IsValue(e.low, f)
      BY <1>4, <2>1 DEF WellFormedItem
    <3>. QED
      BY <3>1, <3>2, <3>3 DEF IsLast, IsValue
  <2>. QED
    BY <1>1, <1>4, <2>1, <2>2, MeantValue
<1>5. CASE e.form = "range" /\ e.step = NoStep
  <2>1. IsValue(e.low, f)
    BY <1>5 DEF WellFormedItem
  <2>2. e.low \in Values
    BY ItemTyped DEF ItemFields
  <2>4. StepOf(e) = 1
    BY <1>5 DEF StepOf
  <2>3. PICK low \in Int, max \in Nat : low = RangeFrom(e, f) /\ max = Highest(f) /\ low <= max
    <3>1. CASE asked.from = NoStart
      <4>1. RangeFrom(e, f) = value_alias(e.low.n, f)
        BY <2>1, <2>2, <3>1, ValueFits DEF RangeFrom, NumberOf
      <4>. QED
        BY <2>1, <2>2, <4>1, ValueFits, FieldRange
    <3>2. CASE asked.from # NoStart
      <4>1. PICK min \in Nat, max \in Nat : min = Lowest(f) /\ max = Highest(f) /\ min < max
        BY FieldRange
      <4>6. PICK start \in Int : start = asked.from[f]
        BY <3>2, ExpandAssumption DEF AskedType
      <4>2. Every(1, f) = {v \in min..max : (v - start) % 1 = 0}
        BY <3>2, <4>1, <4>6, Zenon DEF Every, All
      <4>3. Every(1, f) = min..max
        <5>1. \A v \in min..max : (v - start) % 1 = 0
          OBVIOUS
        <5>. QED
          BY <4>2, <5>1
      <4>4. PICK low \in min..max : low = FirstOf(min..max)
        <5>1. min \in min..max /\ \A u \in min..max : min <= u
          BY <4>1
        <5>. QED
          BY <5>1 DEF FirstOf
      <4>5. RangeFrom(e, f) = low
        BY <2>4, <3>2, <4>3, <4>4, Zenon DEF RangeFrom
      <4>. QED
        BY <4>1, <4>4, <4>5
    <3>. QED
      BY <3>1, <3>2
  <2>5. LastStep(low, max, 1) \in low..max /\ LastStep(low, max, 1) + 1 > max
    BY <2>3, LastStepIs
  <2>6. ~ (LastStep(low, max, 1) + 1 > max + 1)
    BY <2>5
  <2>7. Reading(e, f) = 0
    BY <2>3, <2>4, <2>6 DEF Reading
  <2>. QED
    BY <1>1, <1>5, <2>7 DEF Meant
<1>. QED
  BY <1>3, <1>4, <1>5

\* What two sets of items name.
LEMMA ByUnion ==
    ASSUME NEW f
    PROVE  /\ \A S, T : MeantBy(S \cup T, f) = MeantBy(S, f) \cup MeantBy(T, f)
           /\ \A S, T : NthBy(S \cup T, f) = NthBy(S, f) \cup NthBy(T, f)
<1>1. ASSUME NEW S, NEW T PROVE MeantBy(S \cup T, f) = MeantBy(S, f) \cup MeantBy(T, f)
  BY DEF MeantBy
<1>2. ASSUME NEW S, NEW T PROVE NthBy(S \cup T, f) = NthBy(S, f) \cup NthBy(T, f)
  BY DEF NthBy
<1>. QED
  BY <1>1, <1>2

LEMMA ByOne ==
    ASSUME NEW e, NEW f
    PROVE  /\ MeantBy({e}, f) = Meant(e, f)
           /\ e.nth = NoNth => NthBy({e}, f) = {}
           /\ e.nth # NoNth => NthBy({e}, f) = Named(e, 0, f) \X {e.nth}
<1>1. MeantBy({e}, f) = Meant(e, f)
  BY DEF MeantBy
<1>2. e.nth = NoNth => NthBy({e}, f) = {}
  BY DEF NthBy
<1>3. e.nth # NoNth => NthBy({e}, f) = Named(e, 0, f) \X {e.nth}
  <2>1. SUFFICES ASSUME e.nth # NoNth PROVE NthBy({e}, f) = Named(e, 0, f) \X {e.nth}
    OBVIOUS
  <2>2. {d \in {e} : d.nth # NoNth} = {e}
    BY <2>1
  <2>. QED
    BY <2>2, Zenon DEF NthBy
<1>. QED
  BY <1>1, <1>2, <1>3

LEMMA ByNone ==
    ASSUME NEW f
    PROVE  MeantBy({}, f) = {} /\ NthBy({}, f) = {}
  BY DEF MeantBy, NthBy

\* A list of items and the set of them.
LEMMA ByList ==
    ASSUME NEW s, NEW f
    PROVE  /\ NthNamed(s, f) = NthBy(On(s), f)
           /\ HasLast(s, f) <=> LastBy(On(s), f)
           /\ (\E i \in 1..Len(s) : s[i].form = "w") <=> NearBy(On(s))
           /\ MeantBy(On(s), f) = UNION {Meant(s[i], f) : i \in 1..Len(s)}
<1>1. NthNamed(s, f) = NthBy(On(s), f)
  BY DEF NthNamed, NthBy, On
<1>2. HasLast(s, f) <=> LastBy(On(s), f)
  BY DEF HasLast, LastBy, On
<1>3. (\E i \in 1..Len(s) : s[i].form = "w") <=> NearBy(On(s))
  BY DEF NearBy, On
<1>4. MeantBy(On(s), f) = UNION {Meant(s[i], f) : i \in 1..Len(s)}
  BY DEF MeantBy, On
<1>. QED
  BY <1>1, <1>2, <1>3, <1>4

(***************************************************************************)
(* Each step keeps what is named.                                          *)
(***************************************************************************)

\* Only years begin before their field: a start is in all other fields.
LEMMA EarlyIsYear ==
    ASSUME asked \in Asked, NEW f \in 1..7
    PROVE  /\ \A e : EarlyStep(e, f) => f = 7 /\ ~LateStart(asked.from, f)
           /\ StartsEarly(f) => f = 7 /\ Relative(f)
<1>1. ASSUME NEW e, EarlyStep(e, f) PROVE f = 7 /\ ~LateStart(asked.from, f) /\ asked.from # NoStart
  <2>1. asked.from # NoStart /\ asked.from[f] < Lowest(f)
    BY <1>1 DEF EarlyStep
  <2>2. PICK start \in Int : start = asked.from[f]
    BY <2>1, ExpandAssumption DEF AskedType
  <2>3. PICK min \in Nat, max \in Nat : min = Lowest(f) /\ max = Highest(f) /\ min < max
    BY FieldRange
  <2>4. f \in 1..6 => start \in min..max
    BY <2>1, <2>2, <2>3, ExpandAssumption
  <2>5. f = 7
    BY <2>1, <2>2, <2>3, <2>4
  <2>6. ~LateStart(asked.from, f)
    BY <2>1, <2>2, <2>3 DEF LateStart
  <2>. QED
    BY <2>1, <2>5, <2>6
<1>2. StartsEarly(f) => f = 7 /\ Relative(f)
  <2>1. SUFFICES ASSUME StartsEarly(f) PROVE f = 7 /\ Relative(f)
    OBVIOUS
  <2>2. PICK i \in 1..Len(expressions[f]) : EarlyStep(expressions[f][i], f)
    BY <2>1 DEF StartsEarly
  <2>. QED
    BY <1>1, <2>1, <2>2, Zenon DEF Relative
<1>. QED
  BY <1>1, <1>2

\* The field under work, while the text is well formed.
LEMMA AtWork ==
    ASSUME ExpandInv, WellFormed, Follows, Popping
    PROVE  /\ field_index \in 1..7 /\ asked \in Asked /\ res \in Entry /\ res.nums \subseteq All(field_index)
           /\ Top \in Items /\ On(e_list) = On(Rest) \cup {Top} /\ On(e_list) \subseteq Items
           /\ WellFormedItem(Top, field_index) \/ (StartsEarly(field_index) /\ EarlyNumber(Top, field_index))
           /\ Working(On(Rest) \cup {Top}, res, seen, nth_weekday_of_month, nearest_weekday, field_index)
<1>1. open /\ field_index \in 1..7 /\ asked \in Asked /\ Top \in Items
  BY PopTyped DEF Popping
<1>2. On(e_list) = On(Rest) \cup {Top} /\ On(e_list) \subseteq Items
  BY OnPop
<1>3. Working(On(e_list), res, seen, nth_weekday_of_month, nearest_weekday, field_index)
  BY <1>1, Zenon DEF Follows
<1>4. \A e \in On(e_list) :
         WellFormedItem(e, field_index) \/ (StartsEarly(field_index) /\ EarlyNumber(e, field_index))
  BY <1>3, Zenon DEF Working
<1>5. WellFormedItem(Top, field_index) \/ (StartsEarly(field_index) /\ EarlyNumber(Top, field_index))
  BY <1>2, <1>4
<1>6. res \in Entry /\ res.nums \subseteq All(field_index)
  <2>1. res = Empty \/ EntriesOf(res, field_index, asked.from)
    BY <1>1 DEF ExpandInv, Filled
  <2>2. Empty.nums = {}
    BY DEF Empty
  <2>. QED
    BY <2>1, <2>2 DEF EntriesOf, ExpandInv, Typed
<1>. QED
  BY <1>1, <1>2, <1>3, <1>5, <1>6, Zenon

\* An entry stands for what its item named.
LEMMA ValueWorks ==
    ASSUME ExpandInv, WellFormed, Follows, PopValue
    PROVE  Working(On(Rest), res', seen, nth_weekday_of_month', nearest_weekday, field_index)
<1>. PICK f \in 1..7 : f = field_index
  BY AtWork DEF PopValue, PopsValue
<1>1. PICK e, v, n : e = Top /\ v = e.low /\ n = value_alias(v.n, f)
  OBVIOUS
<1>2. PICK S, T, r, r2, nths, nths2 :
         /\ T = On(Rest) /\ S = T \cup {e} /\ r = res /\ r2 = res'
         /\ nths = nth_weekday_of_month /\ nths2 = nth_weekday_of_month'
  OBVIOUS
<1>3. /\ Popping /\ e.form = "one" /\ ValueErrors(v) = {} /\ r2 = Adding(r, v)
      /\ nths2 = IF f = DOW_FIELD /\ e.nth # NoNth THEN nths \cup {<<n, e.nth>>} ELSE nths
  BY <1>1, <1>2 DEF PopValue, PopsValue
<1>4. /\ r \in Entry /\ r.nums \subseteq All(f) /\ e \in Items /\ S \subseteq Items
      /\ WellFormedItem(e, f) \/ EarlyNumber(e, f)
      /\ Working(S, r, seen, nths, nearest_weekday, f) /\ asked \in Asked
  BY <1>1, <1>2, <1>3, AtWork
<1>5. /\ v.kind = "last" => f = DAY_FIELD
      /\ v.kind \notin {"star", "last"} => n \in All(f)
  BY <1>1, <1>3 DEF ValueErrors, Known, All
<1>6. /\ v.kind = "star" => r2.star /\ r2.nums = r.nums /\ (r2.last <=> r.last)
      /\ v.kind = "last" => (r2.star <=> r.star) /\ r2.nums = r.nums /\ r2.last
      /\ v.kind \notin {"star", "last"} =>
            (r2.star <=> r.star) /\ r2.nums = r.nums \cup {n} /\ (r2.last <=> r.last)
  <2>1. CASE v.kind = "star"
    <3>1. r2 = [r EXCEPT !.star = TRUE] /\ v.kind # "last"
      BY <1>3, <2>1, Zenon DEF Adding
    <3>2. r2.star = TRUE /\ r2.nums = r.nums /\ r2.last = r.last
      BY <1>4, <3>1 DEF Entry
    <3>. QED
      BY <2>1, <3>1, <3>2, Zenon
  <2>2. CASE v.kind = "last"
    <3>1. v.kind # "star"
      BY <2>2
    <3>2. r2 = [r EXCEPT !.last = TRUE]
      BY <1>3, <2>2, <3>1, Zenon DEF Adding
    <3>3. r2.last = TRUE /\ r2.nums = r.nums /\ r2.star = r.star
      BY <1>4, <3>2 DEF Entry
    <3>. QED
      BY <2>2, <3>1, <3>3, Zenon
  <2>3. CASE v.kind \notin {"star", "last"}
    <3>1. v.kind # "star" /\ v.kind # "last"
      BY <2>3
    <3>2. r2 = [r EXCEPT !.nums = r.nums \cup {n}]
      BY <1>1, <1>3, <3>1, Zenon DEF Adding
    <3>3. r2.nums = r.nums \cup {n} /\ r2.star = r.star /\ r2.last = r.last
      BY <1>4, <3>2 DEF Entry
    <3>. QED
      BY <3>1, <3>3, Zenon
  <2>. QED
    BY <2>1, <2>2, <2>3
<1>7. Of(r2, f) = Of(r, f) \cup Meant(e, f)
  <2>1. CASE v.kind = "star"
    <3>1. Meant(e, f) = All(f) /\ r2.star
      BY <1>1, <1>3, <1>6, <2>1, MeantValue
    <3>2. Of(r, f) \subseteq All(f)
      BY <1>4, Zenon DEF Of
    <3>3. Of(r2, f) = All(f)
      BY <3>1, Zenon DEF Of
    <3>. QED
      BY <3>1, <3>2, <3>3
  <2>2. CASE v.kind = "last"
    <3>1. Meant(e, f) = {} /\ (r2.star <=> r.star) /\ r2.nums = r.nums
      BY <1>1, <1>3, <1>6, <2>2, MeantValue
    <3>2. Of(r2, f) = Of(r, f)
      BY <3>1, Zenon DEF Of
    <3>. QED
      BY <3>1, <3>2
  <2>3. CASE v.kind \notin {"star", "last"}
    <3>1. Meant(e, f) = {n} /\ (r2.star <=> r.star) /\ r2.nums = r.nums \cup {n} /\ n \in All(f)
      BY <1>1, <1>3, <1>5, <1>6, <2>3, MeantValue
    <3>2. CASE r.star
      <4>1. Of(r2, f) = All(f) /\ Of(r, f) = All(f)
        BY <3>1, <3>2, Zenon DEF Of
      <4>. QED
        BY <3>1, <4>1
    <3>3. CASE ~r.star
      <4>1. Of(r2, f) = r2.nums /\ Of(r, f) = r.nums
        BY <3>1, <3>3, Zenon DEF Of
      <4>. QED
        BY <3>1, <4>1
    <3>. QED
      BY <3>2, <3>3
  <2>. QED
    BY <2>1, <2>2, <2>3
<1>8. Of(r2, f) \cup MeantBy(T, f) = Of(r, f) \cup MeantBy(S, f)
  <2>1. MeantBy(S, f) = MeantBy(T, f) \cup Meant(e, f)
    <3>1. MeantBy(T \cup {e}, f) = MeantBy(T, f) \cup MeantBy({e}, f)
      BY ByUnion, Zenon
    <3>. QED
      BY <1>2, <3>1, ByOne, Zenon
  <2>. QED
    BY <1>7, <2>1
<1>18. NthBy(S, f) = NthBy(T, f) \cup NthBy({e}, f)
  <2>1. NthBy(T \cup {e}, f) = NthBy(T, f) \cup NthBy({e}, f)
    BY ByUnion, Zenon
  <2>. QED
    BY <1>2, <2>1, Zenon
<1>9. e.nth # NoNth =>
         /\ f = DOW_FIELD /\ Named(e, 0, f) = {n} /\ v.kind \notin {"star", "last"}
  <2>1. e.nth # NoNth => WellFormedItem(e, f)
    BY <1>4 DEF EarlyNumber
  <2>. QED
    BY <1>1, <1>3, <1>4, <2>1, MeantNth, MeantValue
<1>10. nths2 \cup NthBy(T, f) = nths \cup NthBy(S, f)
  <2>1. CASE e.nth = NoNth
    <3>1. NthBy({e}, f) = {} /\ nths2 = nths
      BY <1>3, <2>1, ByOne
    <3>. QED
      BY <1>18, <3>1
  <2>2. CASE e.nth # NoNth
    <3>1. NthBy({e}, f) = {n} \X {e.nth} /\ nths2 = nths \cup {<<n, e.nth>>}
      BY <1>3, <1>9, <2>2, ByOne
    <3>2. {n} \X {e.nth} = {<<n, e.nth>>}
      OBVIOUS
    <3>. QED
      BY <1>18, <3>1, <3>2
  <2>. QED
    BY <2>1, <2>2
<1>11. ASSUME ~Relative(f) PROVE Kept(T, r2, seen, nths2, f)
  <2>1. Kept(S, r, seen, nths, f)
    BY <1>4, <1>11, Zenon DEF Working
  <2>2. r.nums \subseteq r2.nums /\ nths \subseteq nths2
    BY <1>3, <1>6
  <2>3. ASSUME NEW s \in seen
        PROVE  \E m \in All(f), k \in {NoNth, NTH_LAST} \cup 1..5 :
                  /\ s = Numbered(m, k) /\ (k # NoNth => f = DOW_FIELD)
                  /\ s \in T \/ (m \in r2.nums /\ (k # NoNth => <<m, k>> \in nths2))
    <3>1. PICK m \in All(f), k \in {NoNth, NTH_LAST} \cup 1..5 :
             /\ s = Numbered(m, k) /\ (k # NoNth => f = DOW_FIELD)
             /\ s \in S \/ (m \in r.nums /\ (k # NoNth => <<m, k>> \in nths))
      BY <2>1, <2>3, Zenon DEF Kept
    <3>2. CASE s = e
      <4>1. v.kind = "num" /\ v.n = m /\ e.nth = k
        <5>1. e = Numbered(m, k)
          BY <3>1, <3>2
        <5>2. e.low.kind = "num" /\ e.low.n = m /\ e.nth = k
          BY <5>1, NumberedIs
        <5>. QED
          BY <1>1, <5>2
      <4>2. n = m
        BY <1>1, <4>1, OwnAlias
      <4>3. m \in r2.nums
        BY <1>6, <4>1, <4>2
      <4>4. k # NoNth => <<m, k>> \in nths2
        BY <1>3, <3>1, <4>1, <4>2
      <4>. QED
        BY <3>1, <4>3, <4>4
    <3>3. CASE s # e
      <4>1. s \in T \/ (m \in r2.nums /\ (k # NoNth => <<m, k>> \in nths2))
        BY <1>2, <2>2, <3>1, <3>3
      <4>. QED
        BY <3>1, <4>1
    <3>. QED
      BY <3>2, <3>3
  <2>. QED
    BY <2>3, Zenon DEF Kept
<1>12. /\ \A d \in T : WellFormedItem(d, f) \/ (StartsEarly(f) /\ EarlyNumber(d, f))
       /\ \A d \in T : EarlyStep(d, f) => StartsEarly(f)
  BY <1>2, <1>4, Zenon DEF Working
<1>13. f = DAY_FIELD => (nearest_weekday \/ NearBy(T) <=> NearBy(On(expressions[f])))
  <2>1. NearBy(S) <=> NearBy(T)
    BY <1>2, <1>3 DEF NearBy
  <2>. QED
    BY <1>4, <2>1, Zenon DEF Working
<1>14. r2.star \/ StarBy(T) => HasStar(expressions[f]) \/ HasQuestion(expressions[f])
  <2>1. r2.star \/ StarBy(T) => r.star \/ StarBy(S)
    BY <1>1, <1>2, <1>3, <1>6 DEF StarBy
  <2>. QED
    BY <1>4, <2>1, Zenon DEF Working
<1>15. r2.last \/ LastBy(T, f) <=> HasLast(expressions[f], f)
  <2>1. LastBy(S, f) <=> LastBy(T, f) \/ v.kind = "last"
    BY <1>1, <1>2, <1>3, <1>5 DEF LastBy, IsLast
  <2>2. r2.last \/ LastBy(T, f) <=> r.last \/ LastBy(S, f)
    BY <1>6, <2>1
  <2>. QED
    BY <1>4, <2>2, Zenon DEF Working
<1>16. ~Relative(f) =>
          /\ IF IsHash(expressions[f]) THEN Of(r2, f) \cup MeantBy(T, f) \in HashNames(expressions[f][1], f)
             ELSE Of(r2, f) \cup MeantBy(T, f) = MeantBy(On(expressions[f]), f)
          /\ f = DOW_FIELD => nths2 \cup NthBy(T, f) = NthNamed(expressions[f], f)
          /\ \A d \in T : Steady(d, f)
  <2>1. \A d \in T : d \in S
    BY <1>2
  <2>. QED
    BY <1>4, <1>8, <1>10, <2>1, Zenon DEF Working
<1>17. Working(T, r2, seen, nths2, nearest_weekday, f)
  BY <1>11, <1>12, <1>13, <1>14, <1>15, <1>16, Zenon DEF Working
<1>. QED
  BY <1>2, <1>17

\* A range pushes values of its field only, relative to a start too, unless it
\* begins before the field.
LEMMA RangeInField ==
    ASSUME asked \in Asked, field_index \in 1..7, NEW e \in Items,
           e.form \in {"range", "from", "every"}, WellFormedItem(e, field_index)
    PROVE  /\ rng(e) \in Seq(Int) /\ Len(rng(e)) \in Nat
           /\ \A n \in On(rng(e)) : n \in Int /\ n <= Highest(field_index)
           /\ ~EarlyStep(e, field_index) => On(rng(e)) \subseteq All(field_index)
<1>. PICK f \in 1..7 : f = field_index
  OBVIOUS
<1>1. PICK step, low, high, min, max :
         /\ step = StepOf(e) /\ low = low_final(e) /\ high = high_v(e)
         /\ min = Lowest(f) /\ max = Highest(f)
  OBVIOUS
<1>2. /\ step \in Nat \ {0} /\ low \in Int /\ high \in Int /\ min \in Nat /\ max \in Nat
      /\ high <= max /\ min < max /\ min <= high /\ low_v(e) \in min..max
      /\ start_at_field_max(e) => low = low_v(e)
  BY <1>1, RangeEnds, RangeStarts, FieldRange DEF All, low_final
<1>3. ~EarlyStep(e, f) => min <= low
  <2>1. CASE asked.from = NoStart \/ start_at_field_max(e)
    BY <1>1, <1>2, <2>1 DEF low_final
  <2>2. CASE ~ (asked.from = NoStart \/ start_at_field_max(e))
    <3>1. low = get_low_from_current_date_number(f, step)
      BY <1>1, <2>2 DEF low_final
    <3>. QED
      BY <1>1, <1>2, <2>2, <3>1, StartSteps
  <2>. QED
    BY <2>1, <2>2
<1>4. PICK skip \in Nat : skip = to_skip(low, step)
  BY <1>2, SkipTyped
<1>5. rng(e) = IF start_at_field_max(e) THEN <<low>>
               ELSE IF low > high
               THEN num_range_step(low, max, step) \o num_range_step(min + skip, high, step)
               ELSE IF low = high THEN num_range_step(min, max, step)
               ELSE num_range_step(low, high, step)
  BY <1>1, <1>4 DEF rng
<1>6. PICK least \in Int : least = IF min <= low THEN min ELSE low
  BY <1>2
<1>7. ASSUME NEW a \in Int, NEW b \in Int, least <= a, b <= max
      PROVE  num_range_step(a, b, step) \in Seq(Int) /\ On(num_range_step(a, b, step)) \subseteq least..max
  <2>1. On(num_range_step(a, b, step)) = Stepped(a, a, b, step)
    BY <1>2, StepsNamed
  <2>2. Stepped(a, a, b, step) \subseteq a..b
    BY DEF Stepped
  <2>3. a..b \subseteq least..max
    BY <1>2, <1>7
  <2>. QED
    BY <1>2, <2>1, <2>2, <2>3, StepsTyped
<1>8. start_at_field_max(e) => On(<<low>>) \subseteq least..max
  BY <1>2, <1>6, OnOne
<1>9. On(num_range_step(low, max, step) \o num_range_step(min + skip, high, step)) \subseteq least..max
  <2>1. PICK a, b : a = num_range_step(low, max, step) /\ b = num_range_step(min + skip, high, step)
    OBVIOUS
  <2>2. a \in Seq(Int) /\ On(a) \subseteq least..max
    <3>1. least <= low /\ max \in Int
      BY <1>2, <1>6
    <3>. QED
      BY <1>2, <1>7, <2>1, <3>1
  <2>3. b \in Seq(Int) /\ On(b) \subseteq least..max
    <3>1. min + skip \in Int /\ least <= min + skip
      BY <1>2, <1>6
    <3>. QED
      BY <1>2, <1>7, <2>1, <3>1
  <2>4. On(a \o b) = On(a) \cup On(b)
    BY <2>2, <2>3, OnConcat
  <2>. QED
    BY <2>1, <2>2, <2>3, <2>4
<1>10. /\ On(num_range_step(min, max, step)) \subseteq least..max
       /\ On(num_range_step(low, high, step)) \subseteq least..max
  <2>1. least <= min /\ least <= low /\ min \in Int /\ max \in Int
    BY <1>2, <1>6
  <2>. QED
    BY <1>2, <1>7, <2>1
<1>11. On(rng(e)) \subseteq least..max
  BY <1>5, <1>8, <1>9, <1>10
<1>12. ~EarlyStep(e, f) => least = min
  BY <1>3, <1>6
<1>. QED
  BY <1>1, <1>2, <1>11, <1>12, RangeEnds, RangeTyped DEF All

\* The numbers pushed for a range stand for it; what was pushed before and is
\* not pushed again is on the stack or an entry.
LEMMA RangeWorks ==
    ASSUME ExpandInv, WellFormed, Follows, PopRange
    PROVE  /\ Working(On(e_list'), res, seen', nth_weekday_of_month, nearest_weekday, field_index)
           /\ NearBy(On(e_list')) => NearBy(On(Rest))
<1>. PICK f \in 1..7 : f = field_index
  BY AtWork DEF PopRange, PopsRange
<1>1. PICK e, p : e = Top /\ p = Pushed(e)
  OBVIOUS
<1>2. PICK S, T, r, nths, N, P :
         /\ T = On(Rest) /\ S = T \cup {e} /\ r = res
         /\ nths = nth_weekday_of_month /\ N = On(rng(e)) /\ P = On(p)
  OBVIOUS
<1>3. /\ Popping /\ e.form \in {"range", "from", "every"} /\ e_list' = Rest \o Unseen(p)
      /\ seen' = seen \cup {p[i] : i \in 1..Len(rng(e))}
  BY <1>1 DEF PopRange, PopsRange
<1>4. /\ r \in Entry /\ r.nums \subseteq All(f) /\ e \in Items /\ S \subseteq Items
      /\ WellFormedItem(e, f) /\ Working(S, r, seen, nths, nearest_weekday, f) /\ asked \in Asked
  BY <1>1, <1>2, <1>3, AtWork DEF EarlyNumber
<1>5. /\ rng(e) \in Seq(Int) /\ Len(rng(e)) \in Nat
      /\ \A n \in N : n \in Int /\ n <= Highest(f)
      /\ ~StartsEarly(f) => N \subseteq All(f)
  <2>1. EarlyStep(e, f) => StartsEarly(f)
    BY <1>2, <1>4, Zenon DEF Working
  <2>. QED
    BY <1>2, <1>3, <1>4, <2>1, RangeInField
<1>6. PICK k : k = e.nth
  OBVIOUS
<1>7. P = {Written(n, k) : n \in N}
  BY <1>1, <1>2, <1>5, <1>6, PushedNamed
<1>8. k # NoNth => f = DOW_FIELD /\ k \in {NTH_LAST} \cup 1..5 /\ Named(e, 0, f) = Meant(e, f)
  BY <1>4, <1>6, MeantNth
<1>9. k \in Nat \cup {NTH_LAST, NoNth}
  BY <1>4, <1>6, ItemTyped
<1>20. ASSUME ~StartsEarly(f)
       PROVE  /\ P = {Numbered(n, k) : n \in N}
              /\ \A n \in N : n \in All(f) /\ Numbered(n, k) \in Items
  <2>1. All(f) \subseteq Nat
    <3>1. PICK min \in Nat, max \in Nat : min = Lowest(f) /\ max = Highest(f)
      BY FieldRange
    <3>. QED
      BY <3>1 DEF All
  <2>2. \A n \in N : n \in All(f) /\ n \in Nat
    BY <1>5, <1>20, <2>1
  <2>3. \A n \in N : Written(n, k) = Numbered(n, k)
    BY <2>2 DEF Written
  <2>. QED
    BY <1>7, <1>9, <2>2, <2>3, NumberedTyped
<1>10. p \in Seq(Items) /\ Len(p) = Len(rng(e))
  <2>1. PICK l \in Nat, q \in Seq(Int) : l = Len(q) /\ q = rng(e)
    BY <1>5
  <2>2. p = [i \in 1..l |-> Written(q[i], k)]
    BY <1>1, <1>6, <2>1 DEF Pushed
  <2>3. ASSUME NEW i \in 1..l PROVE Written(q[i], k) \in Items
    <3>1. q[i] \in Int
      BY <2>1
    <3>. QED
      BY <1>9, <3>1, WrittenTyped
  <2>. QED
    BY <2>1, <2>2, <2>3
<1>11. On(e_list') = T \cup (P \ seen)
  <2>1. Unseen(p) \in Seq(Items) /\ On(Unseen(p)) = P \ seen
    BY <1>2, <1>10, UnseenTyped, UnseenNamed
  <2>2. Rest \in Seq(Items)
    BY <1>3, PopTyped
  <2>. QED
    BY <1>2, <1>3, <2>1, <2>2, OnConcat
<1>12. seen' = seen \cup P
  BY <1>2, <1>3, <1>10 DEF On
<1>13. PICK S2 : S2 = T \cup (P \ seen)
  OBVIOUS
<1>14. /\ \A d \in P : d.form = "one" /\ d.low.kind \notin {"star", "last"}
       /\ \A d \in P : WellFormedItem(d, f) \/ (StartsEarly(f) /\ EarlyNumber(d, f))
  <2>1. CASE ~StartsEarly(f)
    <3>1. ASSUME NEW n \in N
          PROVE  LET d == Numbered(n, k) IN d.form = "one" /\ d.low.kind = "num" /\ WellFormedItem(d, f)
      BY <1>8, <1>20, <2>1, NumberedIs, NumberWellFormed
    <3>. QED
      BY <1>20, <2>1, <3>1
  <2>2. CASE StartsEarly(f)
    <3>1. k = NoNth
      BY <1>4, <1>8, <2>2, EarlyIsYear, DayFields
    <3>2. PICK max \in Nat : max = Highest(f) /\ max <= I64Max /\ 0 <= I64Max
      BY FieldRange, ExpandAssumption
    <3>3. ASSUME NEW n \in N PROVE EarlyNumber(Written(n, k), f)
      <4>1. n \in Int /\ n <= max
        BY <1>5, <3>2
      <4>2. CASE n < 0
        <5>1. Written(n, k) = Negative
          BY <4>2 DEF Written
        <5>2. Negative.form = "one" /\ Negative.nth = NoNth /\ Negative.low.kind = "negative" /\ Negative.low.n = 0
          BY DEF Negative, Numbered
        <5>. QED
          BY <3>2, <5>1, <5>2 DEF EarlyNumber
      <4>3. CASE n >= 0
        <5>1. Written(n, k) = Numbered(n, k) /\ n <= I64Max
          BY <3>2, <4>1, <4>3, ExpandAssumption DEF Written
        <5>. QED
          BY <3>1, <5>1, NumberedIs DEF EarlyNumber
      <4>. QED
        BY <4>1, <4>2, <4>3
    <3>4. \A d \in P : EarlyNumber(d, f)
      BY <1>7, <3>3
    <3>5. \A d \in P : d.form = "one" /\ d.low.kind \in {"num", "negative"}
      BY <3>4 DEF EarlyNumber
    <3>6. \A d \in P : d.form = "one" /\ d.low.kind \notin {"star", "last"}
      BY <3>5
    <3>. QED
      BY <2>2, <3>4, <3>6, Zenon
  <2>. QED
    BY <2>1, <2>2
<1>15. /\ \A d \in S2 : WellFormedItem(d, f) \/ (StartsEarly(f) /\ EarlyNumber(d, f))
       /\ \A d \in S2 : EarlyStep(d, f) => StartsEarly(f)
  <2>1. /\ \A d \in S : WellFormedItem(d, f) \/ (StartsEarly(f) /\ EarlyNumber(d, f))
        /\ \A d \in S : EarlyStep(d, f) => StartsEarly(f)
    BY <1>4, Zenon DEF Working
  <2>2. \A d \in P : ~EarlyStep(d, f)
    BY <1>14 DEF EarlyStep
  <2>3. \A d \in P : WellFormedItem(d, f) \/ (StartsEarly(f) /\ EarlyNumber(d, f))
    BY <1>14, Zenon
  <2>4. \A d \in S2 : d \in S \/ d \in P
    BY <1>2, <1>13
  <2>. QED
    BY <2>1, <2>2, <2>3, <2>4, Zenon
<1>16. (NearBy(S) <=> NearBy(S2)) /\ (LastBy(S, f) <=> LastBy(S2, f)) /\ (StarBy(S) <=> StarBy(S2))
  <2>1. NearBy(S) <=> NearBy(S2)
    BY <1>2, <1>3, <1>13, <1>14 DEF NearBy
  <2>2. LastBy(S, f) <=> LastBy(S2, f)
    BY <1>2, <1>3, <1>13, <1>14 DEF LastBy, IsLast
  <2>3. StarBy(S) <=> StarBy(S2)
    BY <1>2, <1>3, <1>13, <1>14 DEF StarBy
  <2>. QED
    BY <2>1, <2>2, <2>3
<1>17. ASSUME ~Relative(f)
       PROVE  /\ Of(r, f) \cup MeantBy(S2, f) = Of(r, f) \cup MeantBy(S, f)
              /\ f = DOW_FIELD => nths \cup NthBy(S2, f) = nths \cup NthBy(S, f)
              /\ Kept(S2, r, seen \cup P, nths, f)
              /\ \A d \in S2 : Steady(d, f)
  <2>0. ~StartsEarly(f)
    BY <1>4, <1>17, EarlyIsYear
  <2>10. P = {Numbered(n, k) : n \in N}
    BY <1>20, <2>0
  <2>11. \A n \in N : n \in All(f)
    BY <1>20, <2>0
  <2>1. Kept(S, r, seen, nths, f) /\ \A d \in S : Steady(d, f)
    BY <1>4, <1>17, Zenon DEF Working
  <2>2. N = Meant(e, f)
    <3>1. Steady(e, f)
      BY <1>2, <2>1
    <3>. QED
      BY <1>2, <1>3, <1>4, <3>1, RangeNamed
  <2>3. MeantBy(P, f) = N
    <3>1. \A n \in N : Meant(Numbered(n, k), f) = {n}
      BY <2>11, MeantNumber
    <3>2. MeantBy(P, f) = UNION {Meant(Numbered(n, k), f) : n \in N}
      BY <2>10 DEF MeantBy
    <3>3. UNION {Meant(Numbered(n, k), f) : n \in N} = UNION {{n} : n \in N}
      BY <3>1
    <3>. QED
      BY <3>2, <3>3
  <2>4. NthBy(P, f) = NthBy({e}, f)
    <3>1. \A d \in P : d.nth = k
      BY <2>10, NumberedIs
    <3>2. CASE k = NoNth
      <4>1. NthBy(P, f) = {}
        BY <3>1, <3>2 DEF NthBy
      <4>. QED
        BY <1>6, <3>2, <4>1, ByOne
    <3>3. CASE k # NoNth
      <4>1. NthBy({e}, f) = N \X {k}
        BY <1>6, <1>8, <2>2, <3>3, ByOne
      <4>2. NthBy(P, f) = UNION {{n} \X {k} : n \in N}
        <5>1. {d \in P : d.nth # NoNth} = P
          BY <3>1, <3>3
        <5>2. \A n \in N : Named(Numbered(n, k), 0, f) \X {Numbered(n, k).nth} = {n} \X {k}
          BY <2>11, MeantNumber, NumberedIs
        <5>3. NthBy(P, f) = UNION {Named(d, 0, f) \X {d.nth} : d \in P}
          BY <5>1, Zenon DEF NthBy
        <5>4. {Named(d, 0, f) \X {d.nth} : d \in P}
                 = {Named(Numbered(n, k), 0, f) \X {Numbered(n, k).nth} : n \in N}
          BY <2>10
        <5>5. {Named(Numbered(n, k), 0, f) \X {Numbered(n, k).nth} : n \in N} = {{n} \X {k} : n \in N}
          BY <5>2
        <5>. QED
          BY <5>3, <5>4, <5>5
      <4>3. UNION {{n} \X {k} : n \in N} = N \X {k}
        OBVIOUS
      <4>. QED
        BY <4>1, <4>2, <4>3
    <3>. QED
      BY <3>2, <3>3
  <2>5. ASSUME NEW n \in N, Numbered(n, k) \in seen
        PROVE  \/ Numbered(n, k) \in T
               \/ n \in r.nums /\ (k # NoNth => <<n, k>> \in nths)
    <3>1. PICK m \in All(f), j \in {NoNth, NTH_LAST} \cup 1..5 :
             /\ Numbered(n, k) = Numbered(m, j)
             /\ Numbered(n, k) \in S \/ (m \in r.nums /\ (j # NoNth => <<m, j>> \in nths))
      BY <2>1, <2>5, Zenon DEF Kept
    <3>2. m = n /\ j = k
      BY <3>1, NumberedIs
    <3>3. Numbered(n, k) # e
      BY <1>3, NumberedIs
    <3>4. Numbered(n, k) \in S \/ (n \in r.nums /\ (k # NoNth => <<n, k>> \in nths))
      BY <3>1, <3>2, Zenon
    <3>5. Numbered(n, k) \in S => Numbered(n, k) \in T
      BY <1>2, <3>3
    <3>. QED
      BY <3>4, <3>5
  <2>6. Of(r, f) \cup MeantBy(S2, f) = Of(r, f) \cup MeantBy(S, f)
    <3>1. MeantBy(S, f) = MeantBy(T, f) \cup N
      <4>1. MeantBy(T \cup {e}, f) = MeantBy(T, f) \cup MeantBy({e}, f)
        BY ByUnion, Zenon
      <4>. QED
        BY <1>2, <2>2, <4>1, ByOne, Zenon
    <3>2. MeantBy(S2, f) = MeantBy(T, f) \cup MeantBy(P \ seen, f)
      BY <1>13, ByUnion, Zenon
    <3>3. MeantBy(P \ seen, f) \subseteq N
      BY <2>3 DEF MeantBy
    <3>4. ASSUME NEW n \in N PROVE n \in Of(r, f) \cup MeantBy(S2, f)
      <4>1. CASE Numbered(n, k) \notin seen
        <5>1. Numbered(n, k) \in S2
          BY <2>10, <1>13, <4>1
        <5>. QED
          BY <2>11, <5>1, MeantNumber DEF MeantBy
      <4>2. CASE Numbered(n, k) \in T
        <5>1. Numbered(n, k) \in S2
          BY <1>13, <4>2
        <5>. QED
          BY <2>11, <5>1, MeantNumber DEF MeantBy
      <4>3. CASE n \in r.nums
        <5>1. r.nums \subseteq Of(r, f)
          BY <1>4, Zenon DEF Of
        <5>. QED
          BY <4>3, <5>1
      <4>. QED
        BY <2>5, <4>1, <4>2, <4>3
    <3>. QED
      BY <3>1, <3>2, <3>3, <3>4
  <2>7. f = DOW_FIELD => nths \cup NthBy(S2, f) = nths \cup NthBy(S, f)
    <3>1. NthBy(S, f) = NthBy(T, f) \cup NthBy(P, f)
      <4>1. NthBy(T \cup {e}, f) = NthBy(T, f) \cup NthBy({e}, f)
        BY ByUnion, Zenon
      <4>. QED
        BY <1>2, <2>4, <4>1, Zenon
    <3>2. NthBy(S2, f) = NthBy(T, f) \cup NthBy(P \ seen, f)
      BY <1>13, ByUnion, Zenon
    <3>3. NthBy(P, f) = NthBy(P \ seen, f) \cup NthBy(P \cap seen, f)
      <4>1. P = (P \ seen) \cup (P \cap seen)
        OBVIOUS
      <4>. QED
        BY <4>1, ByUnion, Zenon
    <3>4. NthBy(P \cap seen, f) \subseteq nths \cup NthBy(T, f)
      <4>1. ASSUME NEW x \in NthBy(P \cap seen, f) PROVE x \in nths \cup NthBy(T, f)
        <5>1. PICK d \in P \cap seen : d.nth # NoNth /\ x \in Named(d, 0, f) \X {d.nth}
          BY <4>1 DEF NthBy
        <5>2. PICK n \in N : d = Numbered(n, k)
          BY <2>10
        <5>3. Named(d, 0, f) = {n} /\ d.nth = k
          BY <2>11, <5>2, MeantNumber, NumberedIs
        <5>4. k # NoNth /\ x = <<n, k>>
          BY <5>1, <5>3
        <5>5. CASE d \in T
          BY <5>1, <5>5 DEF NthBy
        <5>. QED
          BY <2>5, <5>1, <5>2, <5>4, <5>5
      <4>. QED
        BY <4>1
    <3>. QED
      BY <3>1, <3>2, <3>3, <3>4
  <2>8. Kept(S2, r, seen \cup P, nths, f)
    <3>1. ASSUME NEW s \in seen \cup P
          PROVE  \E m \in All(f), j \in {NoNth, NTH_LAST} \cup 1..5 :
                    /\ s = Numbered(m, j) /\ (j # NoNth => f = DOW_FIELD)
                    /\ s \in S2 \/ (m \in r.nums /\ (j # NoNth => <<m, j>> \in nths))
      <4>1. CASE s \in seen
        <5>1. PICK m \in All(f), j \in {NoNth, NTH_LAST} \cup 1..5 :
                 /\ s = Numbered(m, j) /\ (j # NoNth => f = DOW_FIELD)
                 /\ s \in S \/ (m \in r.nums /\ (j # NoNth => <<m, j>> \in nths))
          BY <2>1, <4>1, Zenon DEF Kept
        <5>2. s # e
          BY <1>3, <5>1, NumberedIs
        <5>. QED
          BY <1>2, <1>13, <5>1, <5>2
      <4>2. CASE s \notin seen
        <5>1. s \in P /\ s \in S2
          BY <1>13, <3>1, <4>2
        <5>2. PICK n \in N : s = Numbered(n, k)
          BY <2>10, <5>1
        <5>3. n \in All(f) /\ k \in {NoNth, NTH_LAST} \cup 1..5
          BY <1>8, <2>11
        <5>. QED
          BY <1>8, <5>1, <5>2, <5>3
      <4>. QED
        BY <4>1, <4>2
    <3>. QED
      BY <3>1, Zenon DEF Kept
  <2>9. \A d \in S2 : Steady(d, f)
    <3>1. \A d \in P : d.form = "one"
      BY <2>10, NumberedIs
    <3>2. \A d \in P : Steady(d, f)
      BY <3>1 DEF Steady, EarlyStep
    <3>. QED
      BY <1>2, <1>13, <2>1, <3>2
  <2>. QED
    BY <2>6, <2>7, <2>8, <2>9
<1>18. Working(S2, r, seen \cup P, nths, nearest_weekday, f)
  BY <1>4, <1>15, <1>16, <1>17, Zenon DEF Working
<1>19. NearBy(S2) => NearBy(T)
  BY <1>13, <1>14 DEF NearBy
<1>. QED
  BY <1>2, <1>11, <1>12, <1>13, <1>18, <1>19, Zenon

\* The number or the steps a hash is replaced by are what it may name.
LEMMA HashNamed ==
    ASSUME NEW e \in Items, NEW f \in 1..7, NEW c \in Nat, e.form \in {"h", "r"},
           WellFormedHash(e, f), NEW h, h = hash_expand(c, f, e)
    PROVE  /\ WellFormedItem(h, f) /\ (EarlyStep(h, f) => EarlyStep(e, f))
           /\ asked.from = NoStart => Meant(h, f) \in HashNames(e, f)
           /\ h.nth = NoNth /\ h.form \in {"one", "range"} /\ h.low.kind = "num"
<1>1. /\ e.low \in Values /\ e.high \in Values /\ e.step \in Nat \cup {NoStep} /\ NoStep \notin Nat
      /\ e \in ItemFields
  BY ItemTyped DEF ItemFields, NoStep
<1>2. e.nth = NoNth /\ StepFine(e, f)
  BY DEF Items, WellFormedHash
<1>3. PICK min \in Nat, max \in Nat :
         min = Lowest(f) /\ max = Highest(f) /\ max <= 2099 /\ I64Max \in Nat /\ I64Max > 2099
  BY FieldRange, ExpandAssumption
<1>4. PICK low \in min..max, high \in min..max : low = HashLow(e, f) /\ high = HashHigh(e, f) /\ low < high
  <2>1. HashLow(e, f) \in All(f) /\ HashHigh(e, f) \in All(f) /\ HashLow(e, f) < HashHigh(e, f)
    BY DEF WellFormedHash
  <2>. QED
    BY <1>3, <2>1 DEF All
<1>5. e.step # 0
  BY DEF WellFormedHash
<1>6. PICK top \in low..high : top = IF e.step = NoStep THEN high ELSE Least(low + e.step - 1, high)
  BY <1>1, <1>3, <1>4, <1>5 DEF Least
<1>13. ~HashOverflows(e, f)
  BY <1>1, <1>2, <1>3, <1>4, <1>5 DEF HashOverflows, StepFine
<1>7. PICK x \in low..top : x = hash_do(c, f, low, top - low + 1)
  <2>1. low \in Nat /\ top - low + 1 \in Nat \ {0}
    BY <1>3, <1>4, <1>6
  <2>2. hash_do(c, f, low, top - low + 1) \in low..(low + (top - low + 1) - 1)
    BY <2>1, HashDoRange
  <2>3. low + (top - low + 1) - 1 = top
    BY <1>4, <1>6
  <2>. QED
    BY <2>2, <2>3
<1>8. /\ x \in All(f) /\ high \in All(f) /\ x <= high /\ x \in low..high /\ x \in Nat /\ high \in Nat
      /\ ~ (x > I64Max)
  BY <1>3, <1>4, <1>6, <1>7 DEF All
<1>9. h = IF e.step = NoStep \/ x = high THEN Numbered(x, NoNth)
          ELSE [e EXCEPT !.form = "range", !.low = NumV(x), !.high = NumV(high)]
  <2>1. top - low + 1 = IF e.step = NoStep THEN high - low + 1 ELSE Least(e.step, high - low + 1)
    BY <1>1, <1>3, <1>4, <1>5, <1>6 DEF Least
  <2>2. x = hash_do(c, f, low, IF e.step = NoStep THEN high - low + 1
                               ELSE IF HashOverflows(e, f) THEN e.step ELSE Least(e.step, high - low + 1))
    BY <1>7, <1>13, <2>1, Zenon
  <2>. QED
    BY <1>4, <1>8, <2>2, Zenon DEF hash_expand
<1>10. HashNames(e, f) = IF e.step = NoStep THEN {{y} : y \in low..high}
                         ELSE {Stepped(y, low, high, e.step) : y \in low..top}
  <2>1. CASE e.step = NoStep
    BY <1>4, <2>1, Zenon DEF HashNames
  <2>2. CASE e.step # NoStep
    <3>1. top = Least(low + e.step - 1, high)
      BY <1>6, <2>2
    <3>. QED
      BY <1>4, <2>2, <3>1, Zenon DEF HashNames
  <2>. QED
    BY <2>1, <2>2
<1>11. CASE e.step = NoStep \/ x = high
  <2>1. h = Numbered(x, NoNth)
    BY <1>9, <1>11
  <2>2. /\ WellFormedItem(h, f) /\ Meant(h, f) = {x} /\ ~EarlyStep(h, f)
        /\ h.nth = NoNth /\ h.form = "one" /\ h.low.kind = "num"
    BY <1>8, <2>1, NumberWellFormed, MeantNumber, NumberedIs DEF EarlyStep
  <2>3. {x} \in HashNames(e, f)
    <3>1. CASE e.step = NoStep
      BY <1>8, <1>10, <3>1
    <3>2. CASE e.step # NoStep
      <4>1. x = high /\ e.step \in Nat \ {0}
        BY <1>1, <1>5, <1>11, <3>2
      <4>2. Stepped(x, low, high, e.step) = {x}
        <5>1. 0 % e.step = 0
          BY <4>1
        <5>2. ASSUME NEW v PROVE v \in Stepped(x, low, high, e.step) <=> v = x
          BY <1>8, <4>1, <5>1 DEF Stepped
        <5>. QED
          BY <5>2
      <4>. QED
        BY <1>7, <1>10, <3>2, <4>2
    <3>. QED
      BY <3>1, <3>2
  <2>. QED
    BY <2>2, <2>3
<1>12. CASE ~ (e.step = NoStep \/ x = high)
  <2>1. h = [e EXCEPT !.form = "range", !.low = NumV(x), !.high = NumV(high)]
    BY <1>9, <1>12
  <2>2. /\ h.form = "range" /\ h.low = NumV(x) /\ h.high = NumV(high)
        /\ h.step = e.step /\ h.nth = NoNth
    BY <1>1, <1>2, <2>1 DEF ItemFields
  <2>3. \A y : NumV(y).kind = "num" /\ NumV(y).n = y
    BY DEF NumV
  <2>4. e.step \in Nat \ {0} /\ x < high
    BY <1>1, <1>5, <1>8, <1>12
  <2>5. WellFormedItem(h, f)
    <3>1. IsValue(h.low, f) /\ IsValue(h.high, f)
      BY <1>8, <2>2, <2>3, OwnAlias DEF IsValue, Known
    <3>2. StepFine(h, f)
      BY <1>2, <2>2 DEF StepFine
    <3>3. NthFine(h, f)
      BY <2>2 DEF NthFine
    <3>. QED
      BY <2>2, <3>1, <3>2, <3>3 DEF WellFormedItem
  <2>6. ASSUME asked.from = NoStart PROVE Meant(h, f) = Stepped(x, low, high, e.step)
    <3>1. value_alias(h.low.n, f) = x /\ value_alias(h.high.n, f) = high
      BY <1>8, <2>2, <2>3, OwnAlias
    <3>2. RangeFrom(h, f) = x /\ NumberOf(h.high, f) = high
      BY <2>2, <2>3, <2>6, <3>1 DEF IsLast, NumberOf, RangeFrom
    <3>3. StepOf(h) = e.step
      BY <1>12, <2>2 DEF StepOf
    <3>4. h.form = "range" /\ h.form # "one" /\ h.form # "w"
      BY <2>2
    <3>5. Meant(h, f) = Ranged(x, high, e.step, Reading(h, f), f)
      BY <3>1, <3>2, <3>3, <3>4, Zenon DEF Meant, Named
    <3>6. Ranged(x, high, e.step, Reading(h, f), f) = Stepped(x, x, high, e.step)
      BY <1>8, <2>4 DEF Ranged
    <3>7. Stepped(x, x, high, e.step) = Stepped(x, low, high, e.step)
      BY <1>3, <1>4, <1>8 DEF Stepped
    <3>. QED
      BY <3>5, <3>6, <3>7
  <2>7. Stepped(x, low, high, e.step) \in HashNames(e, f)
    BY <1>7, <1>10, <1>12
  <2>8. EarlyStep(h, f) => EarlyStep(e, f)
    BY <2>2 DEF EarlyStep, StepOf
  <2>. QED
    BY <2>2, <2>3, <2>5, <2>6, <2>7, <2>8
<1>. QED
  BY <1>11, <1>12

LEMMA OnSingle ==
    ASSUME NEW s, Len(s) = 1
    PROVE  On(s) = {s[1]}
  BY DEF On

\* A well-formed field is a hash, a "?" or a list of well-formed items.
LEMMA FieldForms ==
    ASSUME asked \in Asked, WellFormed, NEW f \in 1..Columns, NEW field, field = expressions[f]
    PROVE  /\ f \in 1..7 /\ field \in Seq(Items) /\ field # <<>> /\ On(field) \subseteq Items
           /\ Len(field) = 1 => field[1] \in Items /\ On(field) = {field[1]}
           /\ IsHash(field) =>
                 /\ Len(field) = 1 /\ field[1].form \in {"h", "r"} /\ field[1].step <= I64Max
                 /\ WellFormedHash(field[1], f)
           /\ ~IsHash(field) /\ HasQuestion(field) =>
                 Len(field) = 1 /\ field[1].form = "?" /\ f \in {DAY_FIELD, DOW_FIELD}
           /\ ~IsHash(field) /\ ~HasQuestion(field) =>
                 /\ \A e \in On(field) : WellFormedItem(e, f)
                 /\ NearBy(On(field)) => Len(field) = 1
<1>1. Columns \in 5..7 /\ WellFormedField(field, f)
  BY DEF WellFormed
<1>2. f \in 1..7 /\ field \in Seq(Items) /\ field # <<>>
  BY <1>1, ExpressionsTyped
<1>3. On(field) \subseteq Items
  BY <1>2 DEF On
<1>4. ASSUME Len(field) = 1 PROVE field[1] \in Items /\ On(field) = {field[1]}
  BY <1>3, <1>4, OnSingle
<1>5. ASSUME NEW i \in 1..Len(field), WellFormedItem(field[i], f)
      PROVE  field[i].form \notin {"h", "r", "?"}
  BY <1>5 DEF WellFormedItem
<1>6. ASSUME IsHash(field)
      PROVE  /\ Len(field) = 1 /\ field[1].form \in {"h", "r"} /\ field[1].step <= I64Max
             /\ WellFormedHash(field[1], f)
  <2>1. Len(field) = 1 /\ field[1].form \in {"h", "r"} /\ field[1].step <= I64Max
    BY <1>6 DEF IsHash
  <2>2. ~ WellFormedItem(field[1], f) /\ field[1].form # "?"
    <3>1. 1 \in 1..Len(field)
      BY <2>1
    <3>. QED
      BY <1>5, <2>1, <3>1
  <2>3. WellFormedHash(field[1], f)
    <3>1. 1 \in 1..Len(field)
      BY <2>1
    <3>. QED
      BY <1>1, <2>2, <3>1, Zenon DEF WellFormedField
  <2>. QED
    BY <2>1, <2>3
<1>7. ASSUME ~IsHash(field), HasQuestion(field)
      PROVE  Len(field) = 1 /\ field[1].form = "?" /\ f \in {DAY_FIELD, DOW_FIELD}
  <2>1. PICK i \in 1..Len(field) : field[i].form = "?"
    BY <1>7 DEF HasQuestion
  <2>2. ~ WellFormedItem(field[i], f)
    BY <1>5, <2>1
  <2>. QED
    BY <1>1, <1>7, <2>2, Zenon DEF WellFormedField
<1>8. ASSUME ~IsHash(field), ~HasQuestion(field)
      PROVE  /\ \A e \in On(field) : WellFormedItem(e, f)
             /\ NearBy(On(field)) => Len(field) = 1
  <2>1. ~ (Len(field) = 1 /\ field[1].form = "?")
    <3>1. SUFFICES ASSUME Len(field) = 1, field[1].form = "?" PROVE FALSE
      OBVIOUS
    <3>2. 1 \in 1..Len(field)
      BY <3>1
    <3>. QED
      BY <1>8, <3>1, <3>2 DEF HasQuestion
  <2>2. /\ \A i \in 1..Len(field) : WellFormedItem(field[i], f)
        /\ (\E i \in 1..Len(field) : field[i].form = "w") => Len(field) = 1
    BY <1>1, <1>8, <2>1, Zenon DEF WellFormedField
  <2>3. \A e \in On(field) : WellFormedItem(e, f)
    BY <2>2 DEF On
  <2>. QED
    BY <2>2, <2>3, ByList
<1>. QED
  BY <1>2, <1>3, <1>4, <1>6, <1>7, <1>8

\* A field that is opened: its items, or what is worked on instead of a hash
\* or a "?".
LEMMA OpenWorks ==
    ASSUME ExpandInv, WellFormed, Follows, OpenField
    PROVE  /\ Working(On(e_list'), Empty, {}, nth_weekday_of_month, nearest_weekday, field_index + 1)
           /\ NearBy(On(e_list')) => Len(e_list') = 1
<1>1. PICK f, field, s : f = field_index + 1 /\ field = expressions[f] /\ s = e_list'
  OBVIOUS
<1>2. /\ asked \in Asked /\ crc \in Nat /\ field_index \in 0..7 /\ Columns \in 5..7 /\ field_index < Columns
      /\ IF IsHash(field)
         THEN ~HashRefused(field[1]) /\ \E c \in Drawn(field[1]) : s = <<hash_expand(c, f, field[1])>>
         ELSE ~QuestionRefused(field, f) /\ s = IF HasQuestion(field) THEN <<StarItem>> ELSE field
  <2>1. Columns \in 5..7 /\ field_index < Columns
    BY DEF OpenField
  <2>2. IF IsHash(field)
         THEN ~HashRefused(field[1]) /\ \E c \in Drawn(field[1]) : s = <<hash_expand(c, f, field[1])>>
         ELSE ~QuestionRefused(field, f) /\ s = IF HasQuestion(field) THEN <<StarItem>> ELSE field
    BY <1>1, Zenon DEF OpenField
  <2>. QED
    BY <2>1, <2>2 DEF ExpandInv, Typed
<1>3. f \in 1..Columns
  BY <1>1, <1>2
<1>4. /\ f \in 1..7 /\ field \in Seq(Items) /\ On(field) \subseteq Items
      /\ Len(field) = 1 => field[1] \in Items /\ On(field) = {field[1]}
      /\ IsHash(field) =>
            /\ Len(field) = 1 /\ field[1].form \in {"h", "r"} /\ field[1].step <= I64Max
            /\ WellFormedHash(field[1], f)
      /\ ~IsHash(field) /\ HasQuestion(field) =>
            Len(field) = 1 /\ field[1].form = "?" /\ f \in {DAY_FIELD, DOW_FIELD}
      /\ ~IsHash(field) /\ ~HasQuestion(field) =>
            /\ \A e \in On(field) : WellFormedItem(e, f)
            /\ NearBy(On(field)) => Len(field) = 1
  BY <1>1, <1>2, <1>3, FieldForms
<1>5. /\ f = DAY_FIELD => ~nearest_weekday
      /\ f = DOW_FIELD => nth_weekday_of_month = {}
  <2>1. field_index < f
    BY <1>1, <1>2
  <2>. QED
    BY <2>1 DEF Follows
<1>6. ~Empty.star /\ ~Empty.last /\ Of(Empty, f) = {}
  <2>1. Empty.star = FALSE /\ Empty.last = FALSE /\ Empty.nums = {}
    BY DEF Empty
  <2>. QED
    BY <2>1, Zenon DEF Of
<1>7. \A S : Kept(S, Empty, {}, nth_weekday_of_month, f)
  BY DEF Kept
<1>8. /\ \A e \in On(field) : EarlyStep(e, f) => StartsEarly(f)
      /\ ~Relative(f) =>
            /\ IsHash(field) => asked.from = NoStart
            /\ \A e \in On(field) : Steady(e, f)
  <2>0. ASSUME NEW e \in On(field), EarlyStep(e, f) PROVE StartsEarly(f)
    <3>1. PICK i \in 1..Len(field) : e = field[i]
      BY DEF On
    <3>. QED
      BY <1>1, <2>0, <3>1 DEF StartsEarly
  <2>1. ASSUME asked.from # NoStart, ~Relative(f)
        PROVE  ~IsHash(field) /\ \A e \in On(field) : Steady(e, f)
    <3>1. ASSUME NEW i \in 1..Len(field)
          PROVE  field[i].form \notin {"h", "r"} /\ Steady(field[i], f)
      <4>1. PICK e : e = field[i]
        OBVIOUS
      <4>2. ~StartsEarly(f)
        BY <2>1, Zenon DEF Relative
      <4>3. /\ e.form \notin {"h", "r"}
            /\ ~ (e.form \in {"every", "from"} /\ Every(StepOf(e), f) \subseteq {Highest(f)})
            /\ ~ (e.form = "range" /\ Every(StepOf(e), f) = {})
        BY <1>1, <2>1, <4>1, Zenon DEF Relative
      <4>4. ~EarlyStep(e, f)
        BY <1>1, <4>1, <4>2, Zenon DEF StartsEarly
      <4>. QED
        BY <4>1, <4>3, <4>4, Zenon DEF Steady
    <3>2. ~IsHash(field)
      <4>1. SUFFICES ASSUME IsHash(field) PROVE FALSE
        OBVIOUS
      <4>2. Len(field) = 1 /\ field[1].form \in {"h", "r"}
        BY <1>4, <4>1, Zenon
      <4>3. 1 \in 1..Len(field)
        BY <4>2
      <4>. QED
        BY <3>1, <4>2, <4>3
    <3>3. \A e \in On(field) : Steady(e, f)
      BY <3>1 DEF On
    <3>. QED
      BY <3>2, <3>3
  <2>2. asked.from = NoStart => \A e : Steady(e, f)
    BY DEF Steady
  <2>. QED
    BY <2>0, <2>1, <2>2
<1>9. CASE IsHash(field)
  <2>0. PICK c \in Nat : s = <<hash_expand(c, f, field[1])>>
    <3>1. Drawn(field[1]) \subseteq Nat
      BY <1>2, ExpandAssumption DEF Drawn
    <3>. QED
      BY <1>2, <1>9, <3>1
  <2>1. PICK h : h = hash_expand(c, f, field[1]) /\ s = <<h>>
    BY <2>0
  <2>2. /\ WellFormedItem(h, f) /\ (EarlyStep(h, f) => EarlyStep(field[1], f))
        /\ asked.from = NoStart => Meant(h, f) \in HashNames(field[1], f)
        /\ h.nth = NoNth /\ h.form \in {"one", "range"} /\ h.low.kind = "num"
    BY <1>4, <1>9, <2>1, HashNamed
  <2>3. On(s) = {h} /\ On(field) = {field[1]} /\ field[1] \in Items /\ field[1].form \in {"h", "r"}
    BY <1>4, <1>9, <2>1, OnOne
  <2>4. ~NearBy(On(s)) /\ ~NearBy(On(field)) /\ ~StarBy(On(s))
    BY <2>2, <2>3 DEF NearBy, StarBy
  <2>5. ~LastBy(On(s), f) /\ ~HasLast(field, f)
    BY <2>2, <2>3, ByList DEF LastBy, IsLast
  <2>6. MeantBy(On(s), f) = Meant(h, f) /\ NthBy(On(s), f) = {}
    BY <2>2, <2>3, ByOne
  <2>7. NthNamed(field, f) = {}
    <3>1. field[1].nth = NoNth
      BY <2>3 DEF Items
    <3>2. NthBy({field[1]}, f) = {}
      BY <3>1, ByOne
    <3>. QED
      BY <2>3, <3>2, ByList, Zenon
  <2>8. ~Relative(f) => \A e \in On(s) : Steady(e, f)
    BY <1>8, <1>9 DEF Steady
  <2>9. ~Relative(f) => Of(Empty, f) \cup MeantBy(On(s), f) \in HashNames(field[1], f)
    BY <1>6, <1>8, <1>9, <2>2, <2>6
  <2>10. f = DOW_FIELD => nth_weekday_of_month \cup NthBy(On(s), f) = NthNamed(field, f)
    BY <1>5, <2>6, <2>7
  <2>11. /\ \A e \in On(s) : WellFormedItem(e, f)
         /\ \A e \in On(s) : EarlyStep(e, f) => StartsEarly(f)
    BY <1>8, <2>2, <2>3
  <2>12. Working(On(s), Empty, {}, nth_weekday_of_month, nearest_weekday, f)
    BY <1>1, <1>5, <1>6, <1>7, <1>9, <2>4, <2>5, <2>8, <2>9, <2>10, <2>11, Zenon DEF Working
  <2>. QED
    BY <1>1, <2>4, <2>12, Zenon
<1>10. CASE ~IsHash(field) /\ HasQuestion(field)
  <2>1. s = <<StarItem>>
    BY <1>2, <1>10
  <2>2. /\ StarItem.form = "one" /\ StarItem.low.kind = "star" /\ StarItem.nth = NoNth
    BY DEF StarItem, Numbered, StarV
  <2>3. On(s) = {StarItem} /\ On(field) = {field[1]} /\ field[1] \in Items /\ field[1].form = "?"
    BY <1>4, <1>10, <2>1, OnOne
  <2>4. WellFormedItem(StarItem, f)
    BY <2>2 DEF WellFormedItem, NthFine
  <2>5. ~NearBy(On(s)) /\ ~NearBy(On(field))
    BY <2>2, <2>3 DEF NearBy
  <2>6. ~LastBy(On(s), f) /\ ~HasLast(field, f)
    BY <2>2, <2>3, ByList DEF LastBy, IsLast
  <2>7. MeantBy(On(s), f) = All(f) /\ NthBy(On(s), f) = {}
    <3>1. MeantBy({StarItem}, f) = All(f) /\ NthBy({StarItem}, f) = {}
      BY <2>2, ByOne, MeantValue
    <3>. QED
      BY <2>3, <3>1, Zenon
  <2>8. MeantBy(On(field), f) = All(f) /\ NthNamed(field, f) = {}
    <3>1. field[1].nth = NoNth
      BY <2>3 DEF Items
    <3>2. Meant(field[1], f) = All(f)
      <4>1. PICK d : d = field[1]
        OBVIOUS
      <4>2. d.form = "?" /\ d.form # "one" /\ d.form # "w" /\ d.form # "range" /\ d.form # "from" /\ d.form # "every"
        BY <2>3, <4>1
      <4>. QED
        BY <4>1, <4>2, Zenon DEF Meant, Named
    <3>3. MeantBy({field[1]}, f) = All(f) /\ NthBy({field[1]}, f) = {}
      BY <3>1, <3>2, ByOne
    <3>. QED
      BY <2>3, <3>3, ByList, Zenon
  <2>9. \A e \in On(s) : Steady(e, f) /\ WellFormedItem(e, f) /\ ~EarlyStep(e, f)
    BY <2>2, <2>3, <2>4 DEF Steady, EarlyStep
  <2>10. Of(Empty, f) \cup MeantBy(On(s), f) = MeantBy(On(field), f)
    BY <1>6, <2>7, <2>8
  <2>11. f = DOW_FIELD => nth_weekday_of_month \cup NthBy(On(s), f) = NthNamed(field, f)
    BY <1>5, <2>7, <2>8
  <2>12. Working(On(s), Empty, {}, nth_weekday_of_month, nearest_weekday, f)
    BY <1>1, <1>5, <1>6, <1>7, <1>10, <2>5, <2>6, <2>9, <2>10, <2>11, Zenon DEF Working
  <2>. QED
    BY <1>1, <2>5, <2>12, Zenon
<1>11. CASE ~IsHash(field) /\ ~HasQuestion(field)
  <2>1. s = field
    BY <1>2, <1>11
  <2>2. StarBy(On(s)) => HasStar(field)
    BY <2>1 DEF StarBy, HasStar, On
  <2>3. LastBy(On(s), f) <=> HasLast(field, f)
    BY <2>1, ByList
  <2>4. Of(Empty, f) \cup MeantBy(On(s), f) = MeantBy(On(field), f)
    BY <1>6, <2>1
  <2>5. f = DOW_FIELD => nth_weekday_of_month \cup NthBy(On(s), f) = NthNamed(field, f)
    BY <1>5, <2>1, ByList
  <2>6. Working(On(s), Empty, {}, nth_weekday_of_month, nearest_weekday, f)
    BY <1>1, <1>4, <1>5, <1>6, <1>7, <1>8, <1>11, <2>1, <2>2, <2>3, <2>4, <2>5, Zenon DEF Working
  <2>. QED
    BY <1>1, <1>4, <1>11, <2>1, <2>6, Zenon
<1>. QED
  BY <1>9, <1>10, <1>11

\* A "w" is all of its field.
LEMMA NearestWorks ==
    ASSUME ExpandInv, WellFormed, Follows, PopNearestWeekday
    PROVE  /\ field_index = DAY_FIELD
           /\ Working(On(Rest), res', seen, nth_weekday_of_month, TRUE, DAY_FIELD)
<1>1. PICK e, f, field, r2, n, S :
         /\ e = Top /\ f = field_index /\ field = expressions[f] /\ r2 = res' /\ n = e.low.n
         /\ S = On(Rest) \cup {e}
  OBVIOUS
<1>2. /\ Popping /\ ~Garbled(e) /\ e.form = "w" /\ Rest = <<>> /\ res = Empty
      /\ r2 = [Empty EXCEPT !.nums = {n}]
  BY <1>1 DEF PopNearestWeekday
<1>3. f = DAY_FIELD /\ f \in 1..7
  BY <1>1, <1>2, DayFields DEF Garbled
<1>4. Working(S, Empty, seen, nth_weekday_of_month, nearest_weekday, f)
  BY <1>1, <1>2, AtWork, Zenon
<1>5. On(Rest) = {} /\ S = {e}
  BY <1>1, <1>2, OnEmpty
<1>6. /\ Empty.star = FALSE /\ Empty.last = FALSE /\ Empty.nums = {}
      /\ r2.star = FALSE /\ r2.last = FALSE /\ r2.nums = {n}
  BY <1>2 DEF Empty
<1>7. Of(Empty, f) = {} /\ Of(r2, f) = {n}
  BY <1>6, Zenon DEF Of
<1>8. /\ Meant(e, f) = {n} /\ MeantBy(S, f) = {n} /\ MeantBy({}, f) = {}
  <2>1. Meant(e, f) = {n}
    <3>1. e.form # "one"
      BY <1>2
    <3>. QED
      BY <1>1, <1>2, <3>1, Zenon DEF Meant, Named
  <2>. QED
    BY <1>5, <2>1, ByOne, ByNone, Zenon
<1>9. NearBy(S) /\ ~LastBy(S, f) /\ ~StarBy({}) /\ ~LastBy({}, f)
  BY <1>2, <1>5 DEF NearBy, LastBy, StarBy
<1>10. f # DOW_FIELD
  BY <1>3, DayFields
<1>11. NearBy(On(field)) /\ ~HasLast(field, f)
  BY <1>1, <1>3, <1>4, <1>6, <1>9, Zenon DEF Working
<1>12. ~Relative(f) =>
          IF IsHash(field) THEN Of(r2, f) \cup MeantBy({}, f) \in HashNames(field[1], f)
          ELSE Of(r2, f) \cup MeantBy({}, f) = MeantBy(On(field), f)
  <2>1. Of(r2, f) \cup MeantBy({}, f) = Of(Empty, f) \cup MeantBy(S, f)
    BY <1>7, <1>8
  <2>. QED
    BY <1>1, <1>4, <2>1, Zenon DEF Working
<1>13. ASSUME ~Relative(f) PROVE Kept({}, r2, seen, nth_weekday_of_month, f)
  <2>1. Kept(S, Empty, seen, nth_weekday_of_month, f)
    BY <1>4, <1>13, Zenon DEF Working
  <2>2. ASSUME NEW s \in seen PROVE FALSE
    <3>1. PICK m, k : s = Numbered(m, k) /\ (s \in S \/ m \in Empty.nums)
      BY <2>1, <2>2, Zenon DEF Kept
    <3>2. s.form = "one"
      BY <3>1, NumberedIs
    <3>. QED
      BY <1>2, <1>5, <1>6, <3>1, <3>2
  <2>. QED
    BY <2>2, Zenon DEF Kept
<1>14. Working({}, r2, seen, nth_weekday_of_month, TRUE, f)
  <2>1. /\ \A d \in {} : WellFormedItem(d, f) \/ (StartsEarly(f) /\ EarlyNumber(d, f))
        /\ \A d \in {} : EarlyStep(d, f) => StartsEarly(f)
        /\ \A d \in {} : Steady(d, f)
    OBVIOUS
  <2>. QED
    BY <1>1, <1>6, <1>9, <1>10, <1>11, <1>12, <1>13, <2>1, Zenon DEF Working
<1>. QED
  BY <1>1, <1>3, <1>5, <1>14, Zenon

(***************************************************************************)
(* Closing.                                                                *)
(***************************************************************************)

\* The number of values of a field.
LEMMA FullCount ==
    ASSUME NEW f \in 1..7
    PROVE  IsFiniteSet(All(f)) /\ Cardinality(All(f)) = LEN_MEANS_ALL[f]
<1>1. PICK min \in Nat, max \in Nat : min = Lowest(f) /\ max = Highest(f) /\ min < max
  BY FieldRange
<1>2. IsFiniteSet(min..max) /\ Cardinality(min..max) = max - min + 1
  BY <1>1, FS_Interval
<1>3. Highest(f) - Lowest(f) + 1 = LEN_MEANS_ALL[f]
  BY DEF Lowest, Highest, RANGES, LEN_MEANS_ALL
<1>. QED
  BY <1>1, <1>2, <1>3, Zenon DEF All

\* As many entries as a field has values are all of them, or thirty days and "l".
LEMMA FullList ==
    ASSUME NEW f \in 1..7, NEW r \in Entry, r.nums \subseteq All(f), ~r.star
    PROVE  /\ Entries(r) = LEN_MEANS_ALL[f] /\ ~r.last => r.nums = All(f)
           /\ Entries(r) = LEN_MEANS_ALL[f] /\ r.last /\ f = DAY_FIELD => Cardinality(r.nums) = 30
           /\ r.nums = All(f) /\ ~r.last => Entries(r) = LEN_MEANS_ALL[f]
<1>1. PICK k : k = Cardinality(r.nums)
  OBVIOUS
<1>2. IsFiniteSet(All(f)) /\ Cardinality(All(f)) = LEN_MEANS_ALL[f] /\ LEN_MEANS_ALL[f] \in Nat
  BY FullCount, FieldRange
<1>3. k \in Nat
  BY <1>1, <1>2, FS_Subset, FS_CardinalityType
<1>4. LEN_MEANS_ALL[f] = k => r.nums = All(f)
  BY <1>1, <1>2, FS_Subset
<1>5. Entries(r) = k + 0 + (IF r.last THEN 1 ELSE 0)
  BY <1>1, Zenon DEF Entries
<1>6. CASE r.last
  <2>1. Entries(r) = k + 0 + 1
    BY <1>5, <1>6, Zenon
  <2>. QED
    BY <1>1, <1>3, <1>6, <2>1, DayFields
<1>7. CASE ~r.last
  <2>1. Entries(r) = k + 0 + 0
    BY <1>5, <1>7, Zenon
  <2>2. Entries(r) = k
    BY <1>3, <2>1
  <2>3. r.nums = All(f) => k = LEN_MEANS_ALL[f]
    BY <1>1, <1>2, Zenon
  <2>. QED
    BY <1>4, <1>7, <2>2, <2>3, Zenon
<1>. QED
  BY <1>6, <1>7

\* The code's reading of each range is one of the readings of a field.
LEMMA MeantIsNamed ==
    ASSUME NEW s, NEW f, ~IsHash(s)
    PROVE  MeantBy(On(s), f) \in FieldNames(s, f)
<1>1. PICK longer : longer = [i \in 1..Len(s) |-> Reading(s[i], f)]
  OBVIOUS
<1>2. longer \in Readings(s) /\ \A i \in 1..Len(s) : longer[i] = Reading(s[i], f)
  BY <1>1 DEF Readings, Reading
<1>3. UNION {Named(s[i], longer[i], f) : i \in 1..Len(s)} = UNION {Meant(s[i], f) : i \in 1..Len(s)}
  <2>1. \A i \in 1..Len(s) : Named(s[i], longer[i], f) = Meant(s[i], f)
    BY <1>2, Zenon DEF Meant
  <2>. QED
    BY <2>1
<1>4. UNION {Named(s[i], longer[i], f) : i \in 1..Len(s)} \in FieldNames(s, f)
  BY <1>2, Zenon DEF FieldNames
<1>. QED
  BY <1>3, <1>4, ByList, Zenon

\* A field that closes tells what its items name, as a list or as "*".
LEMMA CloseTold ==
    ASSUME ExpandInv, WellFormed, Follows, open, e_list = <<>>, NEW r2,
           r2 = IF Entries(res) = LEN_MEANS_ALL[field_index] /\ ~skip_collapse THEN Star ELSE res
    PROVE  Told(r2, nth_weekday_of_month, nearest_weekday, field_index)
<1>. PICK f \in 1..7 : f = field_index
  BY DEF ExpandInv, Typed, InOrder
<1>1. PICK field, r, nths, near :
         /\ f = field_index /\ field = expressions[f] /\ r = res
         /\ nths = nth_weekday_of_month /\ near = nearest_weekday
  OBVIOUS
<1>2. r \in Entry /\ r.nums \subseteq All(f) /\ (r.last => f = DAY_FIELD)
  <2>1. res = Empty \/ EntriesOf(res, f, asked.from)
    BY <1>1 DEF ExpandInv, Filled
  <2>2. Empty.nums = {} /\ Empty.last = FALSE
    BY DEF Empty
  <2>. QED
    BY <1>1, <2>1, <2>2 DEF EntriesOf, ExpandInv, Typed
<1>3. Working({}, r, seen, nths, near, f)
  <2>1. Working(On(e_list), res, seen, nth_weekday_of_month, nearest_weekday, field_index)
    BY Zenon DEF Follows
  <2>2. On(e_list) = {}
    BY OnEmpty
  <2>. QED
    BY <1>1, <2>1, <2>2, Zenon
<1>4. /\ MeantBy({}, f) = {} /\ NthBy({}, f) = {}
      /\ ~NearBy({}) /\ ~StarBy({}) /\ ~LastBy({}, f)
  BY ByNone DEF NearBy, StarBy, LastBy
<1>5. /\ f = DAY_FIELD => (near <=> NearBy(On(field)))
      /\ r.star => HasStar(field) \/ HasQuestion(field)
      /\ r.last <=> HasLast(field, f)
  BY <1>1, <1>3, <1>4, Zenon DEF Working
<1>6. Star.star = TRUE /\ Star.last = FALSE /\ Star.nums = {} /\ Of(Star, f) = All(f)
  <2>1. Star.star = TRUE /\ Star.last = FALSE /\ Star.nums = {}
    BY DEF Star
  <2>. QED
    BY <2>1, Zenon DEF Of
<1>7. /\ r.star => Of(r, f) = All(f)
      /\ ~r.star => Of(r, f) = r.nums
  BY Zenon DEF Of
<1>8. ASSUME ~Relative(f)
      PROVE  /\ Of(r, f) \in FieldNames(field, f)
             /\ ~IsHash(field) => Of(r, f) = MeantBy(On(field), f)
             /\ f = DOW_FIELD => nths = NthNamed(field, f)
  <2>1. /\ IsHash(field) => Of(r, f) \cup {} \in HashNames(field[1], f)
        /\ ~IsHash(field) => Of(r, f) \cup {} = MeantBy(On(field), f)
        /\ f = DOW_FIELD => nths \cup {} = NthNamed(field, f)
    BY <1>1, <1>3, <1>4, <1>8, Zenon DEF Working
  <2>2. /\ IsHash(field) => Of(r, f) \in HashNames(field[1], f)
        /\ ~IsHash(field) => Of(r, f) = MeantBy(On(field), f)
        /\ f = DOW_FIELD => nths = NthNamed(field, f)
    BY <2>1
  <2>3. IsHash(field) => FieldNames(field, f) = HashNames(field[1], f)
    BY Zenon DEF FieldNames
  <2>. QED
    BY <2>2, <2>3, MeantIsNamed, Zenon
<1>9. CASE r2 = r
  <2>1. ASSUME ~Relative(f), f = DOW_FIELD, ~IsHash(field)
        PROVE  /\ r.nums \subseteq MeantBy(On(field), f)
               /\ \/ HasStar(field) \/ HasQuestion(field) \/ r = Star
                  \/ ~r.star /\ r.nums = MeantBy(On(field), f)
    BY <1>2, <1>5, <1>7, <1>8, <2>1
  <2>. QED
    BY <1>1, <1>5, <1>8, <1>9, <2>1, Zenon DEF Told
<1>10. CASE r2 = Star /\ Entries(r) = LEN_MEANS_ALL[f]
  <2>1. ASSUME ~Relative(f), ~Overcounted(f) PROVE Of(r, f) = All(f)
    <3>1. CASE r.star
      BY <1>7, <3>1
    <3>2. CASE ~r.star /\ ~r.last
      BY <1>2, <1>7, <1>10, <3>2, FullList
    <3>3. CASE ~r.star /\ r.last
      <4>1. Cardinality(r.nums) = 30 /\ HasLast(field, f)
        BY <1>2, <1>5, <1>10, <3>3, FullList
      <4>2. r.nums \in FieldNames(field, f)
        BY <1>7, <1>8, <2>1, <3>3
      <4>. QED
        BY <1>1, <2>1, <4>1, <4>2, Zenon DEF Overcounted
    <3>. QED
      BY <3>1, <3>2, <3>3
  <2>2. {} \subseteq MeantBy(On(field), f)
    OBVIOUS
  <2>. QED
    BY <1>1, <1>5, <1>6, <1>8, <1>10, <2>1, <2>2, Zenon DEF Told
<1>. QED
  BY <1>1, <1>9, <1>10

(***************************************************************************)
(* Refusals.                                                               *)
(***************************************************************************)

\* No well-formed field is refused when it is opened.
LEMMA FieldsPass ==
    ASSUME ExpandInv, WellFormed
    PROVE  ~RefuseColumns /\ ~RefuseField /\ ~PanicField
<1>1. ~RefuseColumns
  BY DEF RefuseColumns, WellFormed
<1>2. ASSUME RefuseField PROVE FALSE
  <2>1. PICK f, field : f = field_index + 1 /\ field = expressions[f]
    OBVIOUS
  <2>2. /\ Columns \in 5..7 /\ field_index < Columns
        /\ IF IsHash(field) THEN HashRefused(field[1]) ELSE QuestionRefused(field, f)
    <3>1. Columns \in 5..7 /\ field_index < Columns
      BY <1>2 DEF RefuseField
    <3>2. IF IsHash(field) THEN HashRefused(field[1]) ELSE QuestionRefused(field, f)
      BY <1>2, <2>1, Zenon DEF RefuseField
    <3>. QED
      BY <3>1, <3>2
  <2>3. f \in 1..Columns /\ asked \in Asked
    BY <2>1, <2>2 DEF ExpandInv, Typed
  <2>4. CASE IsHash(field)
    <3>1. WellFormedHash(field[1], f) /\ field[1] \in Items /\ HashRefused(field[1])
      BY <2>1, <2>2, <2>3, <2>4, FieldForms
    <3>2. PICK e \in Items : e = field[1] /\ WellFormedHash(e, f) /\ HashRefused(e)
      BY <3>1
    <3>3. e.low.n \in Nat /\ e.high.n \in Nat
      BY ItemTyped
    <3>4. e.low.kind = "num" => e.low.n < e.high.n
      BY <3>2 DEF WellFormedHash, HashLow, HashHigh
    <3>5. e.step # 0 /\ (e.form = "h" => asked.hash_id)
      BY <3>2 DEF WellFormedHash
    <3>. QED
      BY <3>2, <3>3, <3>4, <3>5 DEF HashRefused
  <2>5. CASE ~IsHash(field)
    <3>1. QuestionRefused(field, f)
      BY <2>2, <2>5
    <3>2. HasQuestion(field) /\ ~ (Len(field) = 1 /\ f \in {DAY_FIELD, DOW_FIELD})
      BY <3>1 DEF QuestionRefused
    <3>. QED
      BY <2>1, <2>3, <2>5, <3>2, FieldForms
  <2>. QED
    BY <2>4, <2>5
<1>3. ASSUME PanicField PROVE FALSE
  <2>1. PICK f, field : f = field_index + 1 /\ field = expressions[f]
    OBVIOUS
  <2>2. Columns \in 5..7 /\ field_index < Columns /\ IsHash(field) /\ HashOverflows(field[1], f)
    <3>1. Columns \in 5..7 /\ field_index < Columns
      BY <1>3 DEF PanicField
    <3>2. IsHash(field) /\ HashOverflows(field[1], f)
      BY <1>3, <2>1, Zenon DEF PanicField
    <3>. QED
      BY <3>1, <3>2
  <2>3. f \in 1..Columns /\ asked \in Asked
    BY <2>1, <2>2 DEF ExpandInv, Typed
  <2>4. f \in 1..7 /\ field[1] \in Items /\ WellFormedHash(field[1], f)
    BY <2>1, <2>2, <2>3, FieldForms
  <2>5. PICK e \in Items : e = field[1] /\ WellFormedHash(e, f) /\ HashOverflows(e, f)
    BY <2>2, <2>4
  <2>6. PICK low, high, max :
           low = HashLow(e, f) /\ high = HashHigh(e, f) /\ max = Highest(f)
    OBVIOUS
  <2>7. /\ Lowest(f) \in Nat /\ max \in Nat /\ max <= 2099
        /\ low \in Lowest(f)..max /\ high \in Lowest(f)..max
        /\ e.step \in {NoStep} \cup 1..(I64Max - max) /\ I64Max \in Nat /\ I64Max > 2099
    BY <2>4, <2>5, <2>6, FieldRange, ExpandAssumption DEF WellFormedHash, StepFine, All
  <2>8. IF e.step = NoStep THEN high - low + 1 > I64Max ELSE low + e.step > I64Max
    BY <2>5, <2>6, Zenon DEF HashOverflows
  <2>. QED
    BY <2>7, <2>8
<1>. QED
  BY <1>1, <1>2, <1>3

\* No well-formed item is refused when it is popped; but a year that steps
\* have laid before the first may be.
LEMMA ItemsPass ==
    ASSUME ExpandInv, WellFormed, Follows
    PROVE  /\ ~RefuseText /\ ~RefuseNearestWeekday /\ ~RefuseRange
           /\ RefuseValue => outcome' = "bad_cron" /\ Columns = 7 /\ StartsEarly(7)
<1>1. SUFFICES ASSUME Popping
               PROVE  /\ ~RefuseText /\ ~RefuseNearestWeekday /\ ~RefuseRange
                      /\ RefuseValue => outcome' = "bad_cron" /\ Columns = 7 /\ StartsEarly(7)
  BY DEF RefuseText, RefuseNearestWeekday, RefuseRange, RefuseValue, PopsRange, PopsValue
<1>2. PICK f \in 1..7, e \in Items : /\ f = field_index /\ e = Top /\ asked \in Asked
                                     /\ On(e_list) = On(Rest) \cup {e}
                                     /\ WellFormedItem(e, f) \/ (StartsEarly(f) /\ EarlyNumber(e, f))
  BY <1>1, AtWork
<1>. DEFINE Early == StartsEarly(f) /\ EarlyNumber(e, f)
<1>early. Early => e.form = "one" /\ e.nth = NoNth /\ e.low.kind \in {"num", "negative"} /\ e.low.n <= I64Max
  BY DEF EarlyNumber
<1>3. e.low \in Values /\ e.nth \in Nat \cup {NTH_LAST, NoNth} /\ NTH_LAST \notin Nat /\ NoNth \notin Nat
  BY ItemTyped DEF ItemFields, NTH_LAST, NoNth
<1>4. e.form = "w" => f = DAY_FIELD /\ e.low.n \in 1..31 /\ e.low.n <= I64Max
  <2>1. All(DAY_FIELD) = 1..31 /\ I64Max \in Nat /\ I64Max > 2099
    BY DayFields, ExpandAssumption DEF All
  <2>. QED
    BY <1>2, <1>early, <2>1 DEF WellFormedItem
<1>5. NthFine(e, f)
  BY <1>2, <1>early DEF WellFormedItem, NthFine
<1>6. ~Garbled(e) /\ ~BadNth(e)
  <2>1. e.nth # NoNth => special_dow_match(e)
    BY <1>2, <1>3, <1>5 DEF NthFine, special_dow_match
  <2>2. e.form \notin {"h", "r", "?"}
    BY <1>2, <1>early DEF WellFormedItem
  <2>3. ~Garbled(e)
    <3>1. I64Max \in Nat
      BY ExpandAssumption
    <3>2. e.form = "w" => field_index = DAY_FIELD /\ ~ (e.low.n > I64Max)
      BY <1>2, <1>4, <3>1
    <3>. QED
      BY <2>1, <2>2, <3>2 DEF Garbled
  <2>4. ~BadNth(e)
    BY <1>3, <1>5 DEF NthFine, BadNth
  <2>. QED
    BY <2>3, <2>4
<1>7. ~RefuseText
  BY <1>2, <1>6 DEF RefuseText
<1>8. ASSUME RefuseNearestWeekday PROVE FALSE
  <2>1. e.form = "w" /\ ~ (e.low.n \in 1..31 /\ Rest = <<>> /\ res = Empty)
    BY <1>2, <1>8 DEF RefuseNearestWeekday
  <2>2. Len(e_list) = 1 /\ res = Empty
    <3>1. NearBy(On(e_list))
      BY <1>2, <2>1 DEF NearBy
    <3>. QED
      BY <1>1, <3>1 DEF Popping, Follows
  <2>3. Rest = <<>>
    <3>1. PICK s : s = Rest
      OBVIOUS
    <3>2. s \in Seq(Items) /\ Len(s) = 0
      BY <1>1, <2>2, <3>1, PopTyped
    <3>3. s = <<>>
      BY <3>2, EmptySeq
    <3>. QED
      BY <3>1, <3>3
  <2>. QED
    BY <1>4, <2>1, <2>2, <2>3
<1>9. ~RefuseRange
  <2>1. ASSUME e.form \in {"range", "from", "every"} PROVE RangeErrors(e) = {} /\ ~Overflows(e)
    BY <1>2, <1>early, <2>1, RangeEnds, NoOverflow
  <2>. QED
    BY <1>2, <2>1 DEF RefuseRange, PopsRange
<1>10. ASSUME RefuseValue PROVE outcome' = "bad_cron" /\ Columns = 7 /\ StartsEarly(7)
  <2>1. e.form = "one" /\ ValueErrors(e.low) # {} /\ outcome' \in ValueErrors(e.low)
    BY <1>2, <1>10 DEF RefuseValue, PopsValue, Refuse
  <2>2. ~WellFormedItem(e, f)
    <3>1. SUFFICES ASSUME WellFormedItem(e, f) PROVE ValueErrors(e.low) = {}
      BY <2>1
    <3>2. e.low.kind = "star" \/ IsLast(e.low, f) \/ IsValue(e.low, f)
      BY <2>1, <3>1 DEF WellFormedItem
    <3>3. CASE e.low.kind = "star"
      BY <3>3 DEF ValueErrors
    <3>4. CASE IsLast(e.low, f)
      BY <1>2, <3>4 DEF ValueErrors, IsLast, Known
    <3>5. CASE IsValue(e.low, f)
      <4>1. /\ Known(e.low, f) /\ e.low.kind \in {"num", "month", "weekday"} /\ e.low.n <= I64Max
            /\ value_alias(e.low.n, f) \in All(f)
        BY <1>3, <3>5, ValueFits
      <4>2. ~ (e.low.n > I64Max)
        BY <1>3, <4>1, ExpandAssumption DEF Values
      <4>. QED
        BY <1>2, <4>1, <4>2 DEF ValueErrors, All
    <3>. QED
      BY <3>2, <3>3, <3>4, <3>5
  <2>3. Early
    BY <1>2, <2>2
  <2>4. ValueErrors(e.low) \subseteq {"bad_cron"}
    <3>1. e.low.kind \in {"num", "negative"} /\ ~ (e.low.n > I64Max)
      BY <1>3, <1>early, <2>3, ExpandAssumption DEF Values
    <3>. QED
      BY <3>1 DEF ValueErrors, Known
  <2>5. f = 7 /\ StartsEarly(7)
    BY <1>2, <2>3, EarlyIsYear
  <2>6. Columns = 7
    BY <1>2, <2>5 DEF ExpandInv, InOrder
  <2>. QED
    BY <2>1, <2>4, <2>5, <2>6
<1>. QED
  BY <1>7, <1>8, <1>9, <1>10

\* What a list of items names are the plain values and those with a "#".
LEMMA PlainAndNth ==
    ASSUME asked \in Asked, NEW s \in Seq(Items), NEW f \in 1..7, \A e \in On(s) : WellFormedItem(e, f),
           NEW longer, longer = [i \in 1..Len(s) |-> Reading(s[i], f)]
    PROVE  MeantBy(On(s), f) = PlainNamed(s, longer, f) \cup {p[1] : p \in NthNamed(s, f)}
<1>1. PICK N, P, Q : /\ N = {p[1] : p \in NthNamed(s, f)} /\ P = PlainNamed(s, longer, f)
                     /\ Q = MeantBy(On(s), f)
  OBVIOUS
<1>2. ASSUME NEW i \in 1..Len(s)
      PROVE  /\ s[i] \in Items /\ s[i] \in On(s) /\ WellFormedItem(s[i], f)
             /\ Named(s[i], longer[i], f) = Meant(s[i], f)
  <2>1. s[i] \in Items /\ s[i] \in On(s)
    BY DEF On
  <2>2. longer[i] = Reading(s[i], f)
    OBVIOUS
  <2>. QED
    BY <2>1, <2>2, Zenon DEF Meant
<1>3. ASSUME NEW x \in Q PROVE x \in P \cup N
  <2>1. PICK i \in 1..Len(s) : x \in Meant(s[i], f)
    BY <1>1, <1>3 DEF MeantBy, On
  <2>2. CASE s[i].nth = NoNth
    <3>1. x \in Named(s[i], longer[i], f)
      BY <1>2, <2>1
    <3>2. x \in PlainNamed(s, longer, f)
      BY <2>2, <3>1 DEF PlainNamed
    <3>. QED
      BY <1>1, <3>2
  <2>3. CASE s[i].nth # NoNth
    <3>1. x \in Named(s[i], 0, f)
      BY <1>2, <2>1, <2>3, MeantNth
    <3>2. <<x, s[i].nth>> \in NthNamed(s, f)
      BY <2>3, <3>1 DEF NthNamed
    <3>3. <<x, s[i].nth>>[1] = x
      OBVIOUS
    <3>4. x \in {p[1] : p \in NthNamed(s, f)}
      BY <3>2, <3>3
    <3>. QED
      BY <1>1, <3>4
  <2>. QED
    BY <2>2, <2>3
<1>4. ASSUME NEW x \in P PROVE x \in Q
  <2>1. PICK i \in 1..Len(s) : x \in Named(s[i], longer[i], f)
    BY <1>1, <1>4 DEF PlainNamed
  <2>. QED
    BY <1>1, <1>2, <2>1 DEF MeantBy
<1>5. ASSUME NEW x \in N PROVE x \in Q
  <2>1. PICK p \in NthNamed(s, f) : x = p[1]
    BY <1>1, <1>5
  <2>2. PICK i \in 1..Len(s) : s[i].nth # NoNth /\ p \in Named(s[i], 0, f) \X {s[i].nth}
    BY <2>1 DEF NthNamed
  <2>3. x \in Named(s[i], 0, f)
    BY <2>1, <2>2
  <2>4. x \in Meant(s[i], f)
    BY <1>2, <2>2, <2>3, MeantNth
  <2>. QED
    BY <1>1, <1>2, <2>4 DEF MeantBy
<1>. QED
  BY <1>1, <1>3, <1>4, <1>5

\* Weekdays of a well-formed expression only mix relative to a start.
LEMMA MixedIsRelative ==
    ASSUME ExpandInv, WellFormed, Follows, AllClosed, Mixed
    PROVE  Relative(DOW_FIELD)
<1>1. SUFFICES ASSUME ~Relative(DOW_FIELD) PROVE FALSE
  OBVIOUS
<1>2. PICK f, field, r : f = DOW_FIELD /\ field = expressions[f] /\ r = expanded[f]
  OBVIOUS
<1>3. /\ f \in 1..Columns /\ f \in 1..7 /\ f \in 1..Len(expanded) /\ asked \in Asked
      /\ r \in Entry /\ EntriesOf(r, f, asked.from) /\ f # DAY_FIELD
  <2>1. /\ Columns \in 5..7 /\ Len(expanded) = Columns /\ asked \in Asked
    BY DEF AllClosed, ExpandInv, Typed, InOrder
  <2>2. f = 5 /\ f # DAY_FIELD
    BY <1>2, DayFields
  <2>3. PICK s \in Seq(Entry) : s = expanded
    BY DEF ExpandInv, Typed
  <2>4. f \in 1..Len(s)
    BY <2>1, <2>2, <2>3
  <2>5. s[f] \in Entry
    BY <2>4
  <2>. QED
    BY <1>2, <2>1, <2>2, <2>3, <2>4, <2>5 DEF ExpandInv, Filled
<1>4. Told(r, nth_weekday_of_month, nearest_weekday, f)
  BY <1>2, <1>3, Zenon DEF Follows
<1>5. PICK N : N = {p[1] : p \in nth_weekday_of_month}
  OBVIOUS
<1>6. N # {} /\ r.nums \ N # {} /\ Entries(r) # LEN_MEANS_ALL[f]
  <2>1. nth_weekday_of_month # {} /\ r.nums \ N # {} /\ Entries(r) # LEN_MEANS_ALL[f]
    BY <1>2, <1>5, Zenon DEF Mixed
  <2>. QED
    BY <1>5, <2>1
<1>7. nth_weekday_of_month = NthNamed(field, f)
  BY <1>1, <1>2, <1>4, Zenon DEF Told
<1>8. /\ field \in Seq(Items) /\ On(field) \subseteq Items
      /\ Len(field) = 1 => field[1] \in Items /\ On(field) = {field[1]}
      /\ IsHash(field) => Len(field) = 1 /\ field[1].form \in {"h", "r"}
      /\ ~IsHash(field) /\ HasQuestion(field) => Len(field) = 1 /\ field[1].form = "?"
      /\ ~IsHash(field) /\ ~HasQuestion(field) => \A e \in On(field) : WellFormedItem(e, f)
  BY <1>2, <1>3, FieldForms
<1>9. ~ (Len(field) = 1 /\ field[1].form \in {"h", "r", "?"})
  <2>1. SUFFICES ASSUME Len(field) = 1, field[1].form \in {"h", "r", "?"} PROVE FALSE
    OBVIOUS
  <2>2. field[1].nth = NoNth
    BY <1>8, <2>1 DEF Items
  <2>3. NthBy({field[1]}, f) = {}
    BY <2>2, ByOne
  <2>4. NthNamed(field, f) = {}
    BY <1>8, <2>1, <2>3, ByList, Zenon
  <2>. QED
    BY <1>5, <1>6, <1>7, <2>4
<1>10. ~IsHash(field) /\ ~HasQuestion(field) /\ \A e \in On(field) : WellFormedItem(e, f)
  BY <1>8, <1>9
<1>11. PICK longer : longer = [i \in 1..Len(field) |-> Reading(field[i], f)]
  OBVIOUS
<1>12. PICK plain, M : plain = PlainNamed(field, longer, f) /\ M = MeantBy(On(field), f)
  OBVIOUS
<1>13. M = plain \cup N
  BY <1>3, <1>5, <1>7, <1>8, <1>10, <1>11, <1>12, PlainAndNth
<1>14. plain \subseteq N \/ (~HasStar(field) /\ plain \cup N = All(f))
  <2>1. WellMixed
    BY DEF WellFormed
  <2>2. longer \in Readings(field)
    BY <1>11 DEF Readings, Reading
  <2>3. N = {p[1] : p \in NthNamed(field, f)}
    BY <1>5, <1>7
  <2>. QED
    BY <1>2, <1>6, <1>12, <2>1, <2>2, <2>3, Zenon DEF WellMixed
<1>15. /\ r.nums \subseteq M
       /\ HasStar(field) \/ r = Star \/ (~r.star /\ r.nums = M)
  BY <1>1, <1>2, <1>4, <1>10, <1>12, Zenon DEF Told
<1>16. CASE plain \subseteq N
  BY <1>6, <1>13, <1>15, <1>16
<1>17. CASE ~HasStar(field) /\ plain \cup N = All(f)
  <2>1. Star.nums = {}
    BY DEF Star
  <2>2. ~r.star /\ r.nums = All(f)
    BY <1>6, <1>13, <1>15, <1>17, <2>1
  <2>3. ~r.last
    BY <1>3 DEF EntriesOf
  <2>4. Entries(r) = LEN_MEANS_ALL[f]
    BY <1>3, <2>2, <2>3, FullList
  <2>. QED
    BY <1>6, <2>4
<1>. QED
  BY <1>14, <1>16, <1>17

(***************************************************************************)
(* The steps together.                                                     *)
(***************************************************************************)

\* What was asked stays, so what is meant may be said after the step.
LEMMA FollowsLater ==
    ASSUME asked' = asked,
           \A f \in 1..Len(expanded') : Told(expanded'[f], nth_weekday_of_month', nearest_weekday', f),
           open' =>
              /\ Working(On(e_list'), res', seen', nth_weekday_of_month', nearest_weekday', field_index')
              /\ NearBy(On(e_list')) => Len(e_list') = 1 /\ res' = Empty,
           field_index' < DAY_FIELD => ~nearest_weekday',
           field_index' < DOW_FIELD => nth_weekday_of_month' = {}
    PROVE  Follows'
<1>1. \A f \in 1..Len(expanded') : Told(expanded[f], nth_weekday_of_month, nearest_weekday, f)'
  BY SameMeaning, Zenon
<1>2. open' =>
         Working(On(e_list), res, seen, nth_weekday_of_month, nearest_weekday, field_index)'
  BY SameMeaning, Zenon
<1>. QED
  BY <1>1, <1>2, Zenon DEF Follows

\* What a field that is done tells is not changed by a later one.
LEMMA ToldStill ==
    ASSUME NEW r, NEW nths, NEW nths2, NEW near, NEW near2, NEW f, Told(r, nths, near, f),
           f = DAY_FIELD => near2 = near, f = DOW_FIELD => nths2 = nths
    PROVE  Told(r, nths2, near2, f)
<1>1. CASE f = DAY_FIELD
  <2>1. f # DOW_FIELD
    BY <1>1, DayFields
  <2>2. Told(r, nths, near2, f)
    BY <1>1, Zenon
  <2>. QED
    BY <2>1, <2>2, Zenon DEF Told
<1>2. CASE f # DAY_FIELD
  BY <1>2, Zenon DEF Told
<1>. QED
  BY <1>1, <1>2

\* A "w" has nothing below it.
LEMMA RestHasNoNear ==
    ASSUME ExpandInv, Follows, Popping
    PROVE  ~NearBy(On(Rest))
<1>1. SUFFICES ASSUME NearBy(On(Rest)) PROVE FALSE
  OBVIOUS
<1>2. NearBy(On(e_list))
  BY <1>1, OnPop DEF NearBy
<1>3. Len(e_list) = 1
  BY <1>2 DEF Popping, Follows
<1>4. PICK s : s = Rest
  OBVIOUS
<1>5. s \in Seq(Items) /\ Len(s) = 0
  BY <1>3, <1>4, PopTyped
<1>6. s = <<>>
  BY <1>5, EmptySeq
<1>. QED
  BY <1>1, <1>4, <1>6, OnEmpty DEF NearBy

LEMMA FollowsOpen ==
    ASSUME ExpandInv, WellFormed, Follows, OpenField
    PROVE  Follows'
<1>1. /\ asked' = asked /\ expanded' = expanded /\ nth_weekday_of_month' = nth_weekday_of_month
      /\ nearest_weekday' = nearest_weekday /\ field_index' = field_index + 1
      /\ res' = Empty /\ seen' = {}
  BY DEF OpenField, resultVars
<1>2. field_index < field_index + 1 /\ field_index \in Nat
  BY DEF ExpandInv, Typed
<1>3. /\ field_index' < DAY_FIELD => ~nearest_weekday'
      /\ field_index' < DOW_FIELD => nth_weekday_of_month' = {}
  BY <1>1, <1>2, DayFields DEF Follows
<1>4. \A f \in 1..Len(expanded') : Told(expanded'[f], nth_weekday_of_month', nearest_weekday', f)
  BY <1>1, Zenon DEF Follows
<1>5. /\ Working(On(e_list'), res', seen', nth_weekday_of_month', nearest_weekday', field_index')
      /\ NearBy(On(e_list')) => Len(e_list') = 1 /\ res' = Empty
  BY <1>1, OpenWorks, Zenon
<1>. QED
  BY <1>1, <1>3, <1>4, <1>5, FollowsLater

LEMMA FollowsPop ==
    ASSUME ExpandInv, WellFormed, Follows, PopNearestWeekday \/ PopRange \/ PopValue
    PROVE  Follows'
<1>1. /\ Popping /\ asked' = asked /\ expanded' = expanded /\ field_index' = field_index
      /\ field_index \in 1..7 /\ Len(expanded) = field_index - 1
  <2>1. Popping /\ asked' = asked /\ expanded' = expanded /\ field_index' = field_index /\ open
    BY DEF PopNearestWeekday, PopRange, PopsRange, PopValue, PopsValue, Popping, resultVars
  <2>2. field_index \in 1..7
    BY <2>1, PopTyped
  <2>3. Len(expanded) = field_index - 1
    BY <2>1, <2>2 DEF ExpandInv, InOrder
  <2>. QED
    BY <2>1, <2>2, <2>3
<1>2. /\ field_index # DAY_FIELD => nearest_weekday' = nearest_weekday
      /\ field_index # DOW_FIELD => nth_weekday_of_month' = nth_weekday_of_month
  <2>1. CASE PopNearestWeekday
    BY <2>1, NearestWorks DEF PopNearestWeekday
  <2>2. CASE PopRange
    BY <2>2 DEF PopRange, resultVars
  <2>3. CASE PopValue
    BY <2>3 DEF PopValue
  <2>. QED
    BY <2>1, <2>2, <2>3
<1>3. \A f \in 1..Len(expanded') : Told(expanded'[f], nth_weekday_of_month', nearest_weekday', f)
  <2>1. ASSUME NEW f \in 1..Len(expanded)
        PROVE  Told(expanded[f], nth_weekday_of_month', nearest_weekday', f)
    <3>1. Told(expanded[f], nth_weekday_of_month, nearest_weekday, f)
      BY DEF Follows
    <3>2. f # field_index
      BY <1>1
    <3>3. /\ f = DAY_FIELD => nearest_weekday' = nearest_weekday
          /\ f = DOW_FIELD => nth_weekday_of_month' = nth_weekday_of_month
      BY <1>2, <3>2
    <3>. QED
      BY <3>1, <3>3, ToldStill
  <2>. QED
    BY <1>1, <2>1
<1>4. /\ field_index' < DAY_FIELD => ~nearest_weekday'
      /\ field_index' < DOW_FIELD => nth_weekday_of_month' = {}
  <2>1. field_index < DAY_FIELD => field_index # DAY_FIELD
    BY <1>1, DayFields
  <2>2. field_index < DOW_FIELD => field_index # DOW_FIELD
    BY <1>1, DayFields
  <2>. QED
    BY <1>1, <1>2, <2>1, <2>2 DEF Follows
<1>5. /\ Working(On(e_list'), res', seen', nth_weekday_of_month', nearest_weekday', field_index')
      /\ ~NearBy(On(e_list'))
  <2>1. ~NearBy(On(Rest))
    BY <1>1, RestHasNoNear
  <2>2. CASE PopNearestWeekday
    <3>1. /\ e_list' = Rest /\ seen' = seen /\ nth_weekday_of_month' = nth_weekday_of_month
          /\ nearest_weekday' = TRUE
      BY <2>2 DEF PopNearestWeekday
    <3>2. /\ field_index = DAY_FIELD
          /\ Working(On(Rest), res', seen, nth_weekday_of_month, TRUE, DAY_FIELD)
      BY <2>2, NearestWorks
    <3>. QED
      BY <1>1, <2>1, <3>1, <3>2, Zenon
  <2>3. CASE PopRange
    <3>1. /\ res' = res /\ nth_weekday_of_month' = nth_weekday_of_month
          /\ nearest_weekday' = nearest_weekday
      BY <2>3 DEF PopRange, resultVars
    <3>. QED
      BY <1>1, <2>1, <2>3, <3>1, RangeWorks, Zenon
  <2>4. CASE PopValue
    <3>1. e_list' = Rest /\ seen' = seen /\ nearest_weekday' = nearest_weekday
      BY <2>4 DEF PopValue
    <3>. QED
      BY <1>1, <2>1, <2>4, <3>1, ValueWorks, Zenon
  <2>. QED
    BY <2>2, <2>3, <2>4
<1>. QED
  BY <1>1, <1>3, <1>4, <1>5, FollowsLater

LEMMA FollowsClose ==
    ASSUME ExpandInv, WellFormed, Follows, CloseField
    PROVE  Follows'
<1>1. PICK r2 : r2 = IF Entries(res) = LEN_MEANS_ALL[field_index] /\ ~skip_collapse THEN Star ELSE res
  OBVIOUS
<1>2. /\ open /\ e_list = <<>> /\ expanded' = Append(expanded, r2) /\ ~open'
      /\ asked' = asked /\ field_index' = field_index /\ nth_weekday_of_month' = nth_weekday_of_month
      /\ nearest_weekday' = nearest_weekday
  BY <1>1 DEF CloseField
<1>3. PICK n \in Nat : n = Len(expanded) /\ field_index = n + 1
  <2>1. field_index \in 1..7 /\ Len(expanded) = field_index - 1
    BY <1>2 DEF ExpandInv, Typed, InOrder
  <2>. QED
    BY <2>1
<1>4. /\ Len(expanded') = n + 1 /\ expanded'[n + 1] = r2
      /\ \A f \in 1..n : expanded'[f] = expanded[f]
  <2>1. PICK s \in Seq(Entry) : s = expanded /\ Len(s) = n
    BY <1>3 DEF ExpandInv, Typed
  <2>2. PICK t : t = Append(s, r2)
    OBVIOUS
  <2>3. r2 \in Entry
    BY <1>1, EmptyTyped, Zenon DEF ExpandInv, Typed
  <2>4. Len(t) = n + 1 /\ t[n + 1] = r2 /\ \A f \in 1..n : t[f] = s[f]
    BY <2>1, <2>2, <2>3, AppendProperties
  <2>. QED
    BY <1>2, <2>1, <2>2, <2>4
<1>5. \A f \in 1..Len(expanded') : Told(expanded'[f], nth_weekday_of_month', nearest_weekday', f)
  <2>1. ASSUME NEW f \in 1..(n + 1)
        PROVE  Told(expanded'[f], nth_weekday_of_month, nearest_weekday, f)
    <3>1. CASE f = n + 1
      BY <1>1, <1>2, <1>3, <1>4, <3>1, CloseTold
    <3>2. CASE f \in 1..n
      BY <1>3, <1>4, <3>2 DEF Follows
    <3>. QED
      BY <3>1, <3>2
  <2>. QED
    BY <1>2, <1>4, <2>1
<1>6. /\ field_index' < DAY_FIELD => ~nearest_weekday'
      /\ field_index' < DOW_FIELD => nth_weekday_of_month' = {}
  BY <1>2 DEF Follows
<1>. QED
  BY <1>2, <1>5, <1>6, FollowsLater

\* Where only the outcome changes, or nothing.
LEMMA MeaningStays ==
    ASSUME Follows, asked' = asked, field_index' = field_index, open' = open, e_list' = e_list,
           res' = res, seen' = seen, expanded' = expanded,
           nth_weekday_of_month' = nth_weekday_of_month, nearest_weekday' = nearest_weekday
    PROVE  Follows'
<1>1. /\ \A f \in 1..Len(expanded') : Told(expanded'[f], nth_weekday_of_month', nearest_weekday', f)
      /\ open' =>
            /\ Working(On(e_list'), res', seen', nth_weekday_of_month', nearest_weekday', field_index')
            /\ NearBy(On(e_list')) => Len(e_list') = 1 /\ res' = Empty
      /\ field_index' < DAY_FIELD => ~nearest_weekday'
      /\ field_index' < DOW_FIELD => nth_weekday_of_month' = {}
  BY Zenon DEF Follows
<1>. QED
  BY <1>1, FollowsLater

LEMMA MeaningStarts ==
    ASSUME Init
    PROVE  Meaning
<1>1. /\ field_index = 0 /\ open = FALSE /\ expanded = <<>> /\ nth_weekday_of_month = {}
      /\ nearest_weekday = FALSE /\ outcome = "running"
  BY DEF Init
<1>2. Len(expanded) = 0
  BY <1>1
<1>3. Follows
  BY <1>1, <1>2 DEF Follows
<1>. QED
  BY <1>1, <1>3 DEF Meaning

LEMMA MeaningStep ==
    ASSUME ExpandInv, Meaning, Next
    PROVE  Meaning'
<1>1. asked' = asked /\ outcome = "running"
  BY DEF Next, RefuseColumns, OpenField, RefuseField, PanicField, RefuseText, PopNearestWeekday,
         RefuseNearestWeekday, PopRange, RefuseRange, PopValue, RefuseValue, CloseField,
         RefuseMixed, Finish, Popping, PopsRange, PopsValue, AllClosed, Refuse
<1>2. SUFFICES ASSUME WellFormed
               PROVE  /\ Follows'
                      /\ \/ outcome' \in {"running", "ok"}
                         \/ outcome' = "unsupported" /\ Relative(DOW_FIELD)
                         \/ outcome' = "bad_cron" /\ Columns = 7 /\ StartsEarly(7)
  BY <1>1, SameForms, SameTexts, Zenon DEF Meaning
<1>3. Follows
  BY <1>2 DEF Meaning
<1>4. CASE OpenField
  BY <1>1, <1>2, <1>3, <1>4, FollowsOpen DEF OpenField
<1>5. CASE PopNearestWeekday \/ PopRange \/ PopValue
  <2>1. outcome' = outcome
    BY <1>5 DEF PopNearestWeekday, PopRange, PopValue
  <2>. QED
    BY <1>1, <1>2, <1>3, <1>5, <2>1, FollowsPop
<1>6. CASE CloseField
  BY <1>1, <1>2, <1>3, <1>6, FollowsClose DEF CloseField
<1>7. CASE RefuseMixed
  <2>1. AllClosed /\ Mixed /\ Refuse({"unsupported"})
    BY <1>7 DEF RefuseMixed
  <2>2. Relative(DOW_FIELD)
    BY <1>2, <1>3, <2>1, MixedIsRelative
  <2>3. outcome' = "unsupported"
    BY <2>1 DEF Refuse
  <2>4. Follows'
    BY <1>3, <2>1, MeaningStays DEF Refuse, fieldVars, resultVars
  <2>. QED
    BY <2>2, <2>3, <2>4
<1>8. CASE Finish
  <2>1. outcome' = "ok"
    BY <1>8 DEF Finish
  <2>2. Follows'
    BY <1>3, <1>8, MeaningStays DEF Finish, fieldVars, resultVars
  <2>. QED
    BY <2>1, <2>2
<1>9. CASE RefuseValue
  <2>1. outcome' = "bad_cron" /\ Columns = 7 /\ StartsEarly(7)
    BY <1>2, <1>3, <1>9, ItemsPass
  <2>2. Follows'
    BY <1>3, <1>9, MeaningStays DEF RefuseValue, Refuse, fieldVars, resultVars
  <2>. QED
    BY <2>1, <2>2
<1>10. ~ (RefuseColumns \/ RefuseField \/ PanicField \/ RefuseText \/ RefuseNearestWeekday \/ RefuseRange)
  BY <1>2, <1>3, FieldsPass, ItemsPass
<1>. QED
  BY <1>4, <1>5, <1>6, <1>7, <1>8, <1>9, <1>10, Zenon DEF Next

(***************************************************************************)
(* The theorems.                                                           *)
(***************************************************************************)

LEMMA StrictInvariant ==
    StrictSpec => []StrictInv
<1>1. ASSUME StrictInit PROVE StrictInv
  BY <1>1, ExpandStarts DEF StrictInit, StrictInv, VerdictHolds
<1>2. StrictInv /\ [StrictNext]_strictVars => StrictInv'
  BY StrictStep, StrictStutters
<1>. QED
  BY <1>1, <1>2, PTL DEF StrictSpec

LEMMA MeaningInvariant ==
    StrictSpec => [](StrictInv /\ Meaning)
<1>1. ASSUME StrictInit PROVE Meaning
  BY <1>1, MeaningStarts DEF StrictInit
<1>2. ASSUME StrictInv, Meaning, [StrictNext]_strictVars PROVE Meaning'
  <2>1. CASE Next
    BY <1>2, <2>1, MeaningStep DEF StrictInv
  <2>2. CASE UNCHANGED expandVars
    <3>1. /\ asked' = asked /\ field_index' = field_index /\ open' = open
          /\ e_list' = e_list /\ res' = res /\ seen' = seen /\ expanded' = expanded
          /\ nth_weekday_of_month' = nth_weekday_of_month /\ nearest_weekday' = nearest_weekday
          /\ outcome' = outcome
      BY <2>2 DEF expandVars, fieldVars, resultVars
    <3>2. Follows => Follows'
      BY <3>1, MeaningStays
    <3>. QED
      BY <1>2, <3>1, <3>2, SameForms, SameTexts, Zenon DEF Meaning
  <2>3. Next \/ UNCHANGED expandVars
    BY <1>2 DEF StrictNext, CheckStrict, strictVars
  <2>. QED
    BY <2>1, <2>2, <2>3
<1>. QED
  BY <1>1, <1>2, StrictInvariant, PTL DEF StrictSpec

\* Nothing out of range is in an expanded field, none is empty and a "w" is
\* alone, whatever items `expand` pops and in whatever order.
THEOREM ExpandTypeCorrect ==
    StrictSpec => []ExpandTypeOK
<1>1. StrictInv => ExpandTypeOK
  BY DEF StrictInv, ExpandInv, Typed, InOrder, Filled, NearIsAlone, NthInRange, OnlyDay, ExpandTypeOK
<1>. QED
  BY <1>1, StrictInvariant, PTL

\* `check_strict` rejects plain fields exactly when none of the days is in any
\* of the months in any of the years, given by the caller or by the year field.
THEOREM RejectsTheImpossible ==
    StrictSpec => []RejectsImpossible
<1>1. StrictInv => RejectsImpossible
  <2>1. SUFFICES ASSUME StrictInv, verdict # "unchecked", Plain(DAY_FIELD), Plain(MONTH_FIELD),
                        Columns = 7 => Plain(YEAR_FIELD)
                 PROVE  verdict = "possible" <=>
                           \E y \in YearsInPlay, m \in Matching(MONTH_FIELD), d \in Matching(DAY_FIELD) :
                               d <= last_day_of_month(y, m)
    BY DEF RejectsImpossible
  <2>2. /\ ExpandInv /\ outcome = "ok" /\ strict_year \in StrictYears
        /\ verdict = IF Impossible(strict_year) THEN "impossible" ELSE "possible"
    BY <2>1 DEF StrictInv, VerdictHolds
  <2>3. verdict = "possible" <=> ~Impossible(strict_year)
    BY <2>2
  <2>. QED
    BY <2>1, <2>2, <2>3, ChecksDecide
<1>. QED
  BY <1>1, StrictInvariant, PTL

\* No well-formed expression is refused, whatever its items, their order and
\* the hash, and whatever the start it is relative to, with two exceptions: there
\* its weekdays may get mixed, and a step through a start before the first year,
\* and not on it, may begin at a year that does not exist.
THEOREM AcceptsTheWellFormed ==
    StrictSpec => []AcceptsWellFormed
<1>1. Meaning => AcceptsWellFormed
  BY DEF Meaning, AcceptsWellFormed
<1>. QED
  BY <1>1, MeaningInvariant, PTL

\* An accepted field names what its items name, as a list or as "*".
THEOREM NamesTheItems ==
    StrictSpec => []NamesItsItems
<1>1. StrictInv /\ Meaning => NamesItsItems
  <2>1. SUFFICES ASSUME ExpandInv, Follows, outcome = "ok", WellFormed PROVE NamesItsItems
    BY DEF StrictInv, Meaning, NamesItsItems
  <2>2. Len(expanded) = Columns /\ Columns \in 5..7 /\ DAY_FIELD \in 1..Columns /\ DOW_FIELD \in 1..Columns
    BY <2>1, DayFields DEF ExpandInv, Typed, InOrder
  <2>3. \A f \in 1..Columns : Told(expanded[f], nth_weekday_of_month, nearest_weekday, f)
    BY <2>1, <2>2 DEF Follows
  <2>4. \A f : Of(expanded[f], f) = Matching(f)
    BY Zenon DEF Of, Matching
  <2>5. \A f \in 1..Columns : ~Relative(f) /\ ~Overcounted(f) =>
           /\ Matching(f) \in FieldNames(expressions[f], f)
           /\ expanded[f].last => HasLast(expressions[f], f)
           /\ HasLast(expressions[f], f) => expanded[f].last \/ Matching(f) = All(f)
    BY <2>3, <2>4, Zenon DEF Told
  <2>6. ~Relative(DOW_FIELD) => nth_weekday_of_month = NthNamed(expressions[DOW_FIELD], DOW_FIELD)
    BY <2>2, <2>3, Zenon DEF Told
  <2>7. nearest_weekday <=>
           \E i \in 1..Len(expressions[DAY_FIELD]) : expressions[DAY_FIELD][i].form = "w"
    <3>1. nearest_weekday <=> NearBy(On(expressions[DAY_FIELD]))
      BY <2>2, <2>3, Zenon DEF Told
    <3>. QED
      BY <3>1, ByList
  <2>. QED
    BY <2>1, <2>5, <2>6, <2>7, Zenon DEF NamesItsItems
<1>. QED
  BY <1>1, MeaningInvariant, PTL

=============================================================================
