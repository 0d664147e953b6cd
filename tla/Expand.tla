--------------------------------- MODULE Expand ---------------------------------
(***************************************************************************)
(* The parser: `expand` of src/expand.rs.                                  *)
(*                                                                         *)
(* A field of an expression is a list of items.  The code splits it into a *)
(* stack of texts and pops them: a range, a step or a weekday#n range is   *)
(* replaced by its numbers, which are pushed again, and anything else is   *)
(* an entry of the expanded field.  The characters are abstracted to items *)
(* of a form, with values that are numbers, names or neither.  Fields are  *)
(* numbered from 1 here, and from 0 in the code.                           *)
(***************************************************************************)
EXTENDS Integers, Sequences, FiniteSets

CONSTANTS
    Asked,     \* what is to be expanded
    Crcs,      \* the hash of the hash_id and the random numbers: 0 .. 2^32 - 1
    I64Max     \* 2^63 - 1

RANGES == << <<0, 59>>, <<0, 23>>, <<1, 31>>, <<1, 12>>, <<0, 6>>, <<0, 59>>, <<1970, 2099>> >>

LEN_MEANS_ALL == <<60, 24, 31, 12, 7, 60, 130>>

DAY_FIELD   == 3
MONTH_FIELD == 4
DOW_FIELD   == 5
SECOND_FIELD == 6

Lowest(f)  == RANGES[f][1]
Highest(f) == RANGES[f][2]

(***************************************************************************)
(* Texts.                                                                  *)
(***************************************************************************)

\* A name stands for its number: that of a month or of a weekday.
Values ==
    [kind : {"num", "month", "weekday"}, n : Nat]
      \cup [kind : {"star", "last", "word", "negative", "none"}, n : {0}]

NumV(n) == [kind |-> "num", n |-> n]
StarV   == [kind |-> "star", n |-> 0]

NTH_LAST == -1    \* of "l5"
NoNth    == -2    \* no "#"
NoStep   == -1    \* no "/"

\* "a", "aw", "a-b/s", "a/s", "*/s", "h(a-b)/s", "r(a-b)/s" and "?"; nth is the
\* n of "a#n" and "a-b#n".  Other texts with a "#" are words.
Items ==
    {i \in [form : {"one", "w", "range", "from", "every", "h", "r", "?"},
            low : Values, high : Values, step : Nat \cup {NoStep},
            nth : Nat \cup {NTH_LAST, NoNth}] :
        /\ i.form \in {"from", "every"} => i.step # NoStep
        /\ i.form = "one" => i.low.kind # "none"
        /\ i.form \in {"range", "from"} => i.low.kind \notin {"none", "negative"}
        /\ i.form = "range" => i.high.kind \notin {"none", "negative"}
        /\ i.form = "w" => i.low.kind = "num"
        /\ i.form \in {"h", "r"} => i.low.kind = i.high.kind /\ i.low.kind \in {"none", "num"}
        /\ i.form \in {"w", "h", "r", "?"} \/ i.low.kind = "negative" => i.nth = NoNth}

Numbered(n, nth) ==
    [form |-> "one", low |-> NumV(n), high |-> [kind |-> "none", n |-> 0],
     step |-> NoStep, nth |-> nth]

Negative == [Numbered(0, NoNth) EXCEPT !.low = [kind |-> "negative", n |-> 0]]

\* A number as a text; it is known by its "-" when it is negative.
Written(n, nth) == IF n < 0 THEN Negative ELSE Numbered(n, nth)

\* from: the fields of the start an expression is relative to, or none.
NoStart == <<>>

AskedType ==
    [fields : Seq(Seq(Items) \ {<<>>}), hash_id : BOOLEAN, second_at_beginning : BOOLEAN,
     from : {NoStart} \cup [1..7 -> Int]]

ASSUME ExpandAssumption ==
    /\ I64Max \in Nat /\ I64Max > 2099
    /\ Crcs \subseteq Nat
    /\ \A a \in Asked :
          /\ a \in AskedType
          /\ a.from # NoStart => \A f \in 1..6 : a.from[f] \in Lowest(f)..Highest(f)

VARIABLES
    asked,         \* what is expanded
    crc,           \* the hash of its hash_id
    field_index,   \* the field under work
    open,          \* whether it is being worked on
    e_list,        \* its stack
    res,           \* its entries so far
    seen,          \* the numbers its ranges have pushed
    expanded,      \* the fields done
    nth_weekday_of_month,
    nearest_weekday,
    outcome        \* "running", "ok", or how it fails

fieldVars  == <<field_index, open, e_list, res, seen>>
resultVars == <<expanded, nth_weekday_of_month, nearest_weekday>>
expandVars == <<asked, crc, fieldVars, resultVars, outcome>>

\* The seconds may be the first of the fields.
expressions ==
    IF asked.second_at_beginning /\ Len(asked.fields) > 5
    THEN SubSeq(asked.fields, 2, SECOND_FIELD) \o <<asked.fields[1]>>
           \o SubSeq(asked.fields, SECOND_FIELD + 1, Len(asked.fields))
    ELSE asked.fields

Columns == Len(asked.fields)

Empty == [star |-> FALSE, nums |-> {}, last |-> FALSE]
Star  == [star |-> TRUE, nums |-> {}, last |-> FALSE]

Init ==
    /\ asked \in Asked
    /\ crc \in (IF asked.hash_id THEN Crcs ELSE {0})
    /\ field_index = 0
    /\ open = FALSE
    /\ e_list = <<>>
    /\ res = Empty
    /\ seen = {}
    /\ expanded = <<>>
    /\ nth_weekday_of_month = {}
    /\ nearest_weekday = FALSE
    /\ outcome = "running"

Refuse(errors) ==
    /\ outcome' \in errors
    /\ UNCHANGED <<asked, crc, fieldVars, resultVars>>

(***************************************************************************)
(* Opening a field.                                                        *)
(***************************************************************************)

\* A parse of digits that do not fit fails.
Fits(v) == v.kind = "num" => v.n <= I64Max

\* h or r is the whole field.
IsHash(field) ==
    /\ Len(field) = 1
    /\ field[1].form \in {"h", "r"}
    /\ Fits(field[1].low) /\ Fits(field[1].high) /\ field[1].step <= I64Max

HashLow(item, f)  == IF item.low.kind = "num" THEN item.low.n ELSE Lowest(f)
HashHigh(item, f) == IF item.low.kind = "num" THEN item.high.n ELSE Highest(f)

HashRefused(item) ==
    \/ item.form = "h" /\ ~asked.hash_id
    \/ item.low.kind = "num" /\ item.low.n >= item.high.n
    \/ item.step = 0

\* Bits of the hash pick one of so many numbers.
hash_do(c, f, low, many) == low + ((c \div (2^(f - 1))) % many)

Least(m, n) == IF m <= n THEN m ELSE n

\* The length of the range, or its low end and the step, does not fit.
HashOverflows(item, f) ==
    IF item.step = NoStep THEN HashHigh(item, f) - HashLow(item, f) + 1 > I64Max
    ELSE HashLow(item, f) + item.step > I64Max

\* The first of the steps is picked, and they go on to the end of the range.  A
\* build that wraps comes back to the step after two overflows, and to a
\* negative number after a third.
hash_expand(c, f, item) ==
    LET low  == HashLow(item, f)
        high == HashHigh(item, f)
        many == IF item.step = NoStep THEN high - low + 1
                ELSE IF HashOverflows(item, f) THEN item.step
                ELSE Least(item.step, high - low + 1)
        x    == hash_do(c, f, low, many)
    IN  IF x > I64Max THEN Negative
        ELSE IF item.step = NoStep \/ x = high THEN Numbered(x, NoNth)
        ELSE [item EXCEPT !.form = "range", !.low = NumV(x), !.high = NumV(high)]

Drawn(item) == IF item.form = "h" THEN {crc} ELSE Crcs

\* "?" is allowed for "*" on its own, in the fields of days.
HasQuestion(field) == \E i \in 1..Len(field) : field[i].form = "?"

QuestionRefused(field, f) ==
    HasQuestion(field) /\ (Len(field) # 1 \/ f \notin {DAY_FIELD, DOW_FIELD})

StarItem == [Numbered(0, NoNth) EXCEPT !.low = StarV]

RefuseColumns ==
    /\ outcome = "running" /\ field_index = 0 /\ Columns \notin 5..7
    /\ Refuse({"bad_cron"})

OpenField ==
    LET f == field_index + 1  field == expressions[f] IN
    /\ outcome = "running" /\ ~open /\ Columns \in 5..7 /\ field_index < Columns
    /\ IF IsHash(field)
       THEN /\ ~HashRefused(field[1])
            /\ \E c \in Drawn(field[1]) : e_list' = <<hash_expand(c, f, field[1])>>
       ELSE /\ ~QuestionRefused(field, f)
            /\ e_list' = IF HasQuestion(field) THEN <<StarItem>> ELSE field
    /\ field_index' = f
    /\ open' = TRUE
    /\ res' = Empty
    /\ seen' = {}
    /\ UNCHANGED <<asked, crc, resultVars, outcome>>

RefuseField ==
    LET f == field_index + 1  field == expressions[f] IN
    /\ outcome = "running" /\ ~open /\ Columns \in 5..7 /\ field_index < Columns
    /\ IF IsHash(field) THEN HashRefused(field[1]) ELSE QuestionRefused(field, f)
    /\ Refuse({"bad_cron"})

\* A build that checks for overflows panics, another opens the field.
PanicField ==
    LET f == field_index + 1  field == expressions[f] IN
    /\ outcome = "running" /\ ~open /\ Columns \in 5..7 /\ field_index < Columns
    /\ IsHash(field) /\ ~HashRefused(field[1]) /\ HashOverflows(field[1], f)
    /\ Refuse({"panic"})

(***************************************************************************)
(* The item on top of the stack.                                           *)
(***************************************************************************)

Top  == e_list[Len(e_list)]
Rest == SubSeq(e_list, 1, Len(e_list) - 1)

Popping == outcome = "running" /\ open /\ e_list # <<>>

\* The weekday of "weekday#n": a word, or a range of names.
he_valid(e) ==
    \/ e.form = "one" /\ e.low.kind \in {"num", "month", "weekday", "last", "word"}
    \/ /\ e.form = "range" /\ e.step = NoStep
       /\ e.low.kind = e.high.kind /\ e.low.kind \in {"month", "weekday"}

special_dow_match(e) ==
    /\ field_index = DOW_FIELD
    /\ IF e.nth = NTH_LAST THEN e.form = "one" /\ e.low.kind = "num" ELSE he_valid(e)

BadNth(e) == e.nth \in Nat /\ e.nth \notin 1..5 /\ special_dow_match(e)

\* Texts no rule applies to: a "#" or "w" or "h" out of place.
Garbled(e) ==
    \/ e.nth # NoNth /\ ~special_dow_match(e)
    \/ e.form = "w" /\ (field_index # DAY_FIELD \/ e.low.n > I64Max)
    \/ e.form \in {"h", "r", "?"}

RefuseText ==
    /\ Popping
    /\ IF Garbled(Top) THEN Refuse({"not_alpha"}) ELSE BadNth(Top) /\ Refuse({"bad_cron"})

\* Mutant of PopNearestWeekday: a "w" may stand in a list.
PopNearestWeekday_Listed ==
    /\ Popping /\ ~Garbled(Top) /\ Top.form = "w"
    /\ Top.low.n \in 1..31
    /\ nearest_weekday' = TRUE
    /\ res' = [res EXCEPT !.nums = @ \cup {Top.low.n}]
    /\ e_list' = Rest
    /\ UNCHANGED <<asked, crc, field_index, open, seen, expanded, nth_weekday_of_month, outcome>>

PopNearestWeekday ==
    /\ Popping /\ ~Garbled(Top) /\ Top.form = "w"
    /\ Top.low.n \in 1..31 /\ Rest = <<>> /\ res = Empty
    /\ nearest_weekday' = TRUE
    /\ res' = [res EXCEPT !.nums = {Top.low.n}]
    /\ e_list' = Rest
    /\ UNCHANGED <<asked, crc, field_index, open, seen, expanded, nth_weekday_of_month, outcome>>

RefuseNearestWeekday ==
    /\ Popping /\ ~Garbled(Top) /\ Top.form = "w"
    /\ ~(Top.low.n \in 1..31 /\ Rest = <<>> /\ res = Empty)
    /\ Refuse({"bad_cron"})

\* A name is known in the field it belongs to.
Known(v, f) ==
    \/ v.kind = "num"
    \/ v.kind = "last" /\ f = DAY_FIELD
    \/ v.kind = "month" /\ f = MONTH_FIELD
    \/ v.kind = "weekday" /\ f = DOW_FIELD

\* Day and month 0 are 1 and weekday 7 is 0, but not in every length of expression.
value_alias(n, f) ==
    IF f = DAY_FIELD /\ Columns = 6 /\ n = 0 THEN 1
    ELSE IF f = DOW_FIELD /\ Columns = 5 /\ n = 7 THEN 0
    ELSE n

(***************************************************************************)
(* Ranges.                                                                 *)
(***************************************************************************)

PopsRange == Popping /\ ~Garbled(Top) /\ ~BadNth(Top) /\ Top.form \in {"range", "from", "every"}

RangeLow(e) == IF e.form = "every" THEN NumV(Lowest(field_index)) ELSE e.low

RangeHigh(e) ==
    IF e.form # "range" THEN NumV(Highest(field_index))
    ELSE IF field_index = DAY_FIELD /\ e.high.kind = "last" THEN NumV(31)
    ELSE e.high

StepOf(e) == IF e.step = NoStep THEN 1 ELSE e.step

Largest(m, n) == IF m <= n THEN n ELSE m

low_v(e)  == value_alias(RangeLow(e).n, field_index)
high_v(e) == value_alias(RangeHigh(e).n, field_index)

\* The checks before a range is expanded, in their order; the digits of a step
\* or an end are parsed with `expect`.
RangeErrors(e) ==
    LET low == RangeLow(e)  high == RangeHigh(e)  step == StepOf(e) IN
    IF ~Known(low, field_index) \/ ~Known(high, field_index) THEN {"not_alpha"}
    ELSE IF step > I64Max THEN {"panic"}
    ELSE IF step = 0 \/ low.kind = "last" THEN {"bad_cron"}
    ELSE IF ~Fits(low) \/ ~Fits(high) THEN {"panic"}
    ELSE IF Largest(low_v(e), high_v(e)) > Highest(field_index) THEN {"bad_cron"}
    ELSE {}

\* "59/15" is 59 alone, and "59-59/15" the whole field.
start_at_field_max(e) == e.form = "from" /\ low_v(e) = high_v(e)

\* The remainder has the sign of the number that is divided.
Remainder(m, n) == IF m < 0 THEN -((-m) % n) ELSE m % n

\* Relative to a start, the steps are laid so that the start is on one of them.
get_low_from_current_date_number(f, step) ==
    Lowest(f) + Remainder(asked.from[f] - Lowest(f), step)

low_final(e) ==
    IF asked.from = NoStart \/ start_at_field_max(e) THEN low_v(e)
    ELSE get_low_from_current_date_number(field_index, StepOf(e))

num_range_step(low, high, step) ==
    IF low > high THEN <<>>
    ELSE [i \in 1..((high - low) \div step + 1) |-> low + (i - 1) * step]

LastStep(low, high, step) == low + ((high - low) \div step) * step

\* The values to leave out after the wrap, so that the step is kept.
to_skip(low, step) ==
    LET last == LastStep(low, Highest(field_index), step)
        whole_len == Highest(field_index) - Lowest(field_index) + 1
    IN  IF /\ low <= Highest(field_index)
           /\ last - Lowest(field_index) + step > whole_len
           /\ Highest(field_index) - last < step
        THEN step - (Highest(field_index) - last)
        ELSE 0

\* Mutant of rng: the part after the wrap begins at the bottom of the field.
rng_NoSkip(e) ==
    LET low == low_final(e)  high == high_v(e)  step == StepOf(e)
        min == Lowest(field_index)  max == Highest(field_index)
    IN  IF start_at_field_max(e) THEN <<low>>
        ELSE IF low > high
        THEN num_range_step(low, max, step) \o num_range_step(min, high, step)
        ELSE IF low = high THEN num_range_step(min, max, step)
        ELSE num_range_step(low, high, step)

rng(e) ==
    LET low == low_final(e)  high == high_v(e)  step == StepOf(e)
        min == Lowest(field_index)  max == Highest(field_index)
    IN  IF start_at_field_max(e) THEN <<low>>
        ELSE IF low > high
        THEN num_range_step(low, max, step) \o num_range_step(min + to_skip(low, step), high, step)
        ELSE IF low = high THEN num_range_step(min, max, step)
        ELSE num_range_step(low, high, step)

\* The loop of num_range_step adds the step once more before it stops; it goes
\* furthest in the part before the wrap, if there is one.
Overflows(e) ==
    LET low == low_final(e)  high == high_v(e)  late == low > Highest(field_index)
        from == IF low = high \/ late THEN Lowest(field_index) ELSE low
        to == IF low < high \/ late THEN high ELSE Highest(field_index)
    IN  /\ ~start_at_field_max(e) /\ from <= to
        /\ LastStep(from, to, StepOf(e)) + StepOf(e) > I64Max

\* The nth of a range stays with each of its numbers.
Pushed(e) == [i \in 1..Len(rng(e)) |-> Written(rng(e)[i], e.nth)]

\* Numbers a range has pushed before are not pushed again.
Unseen(items) ==
    LET kept[i \in 0..Len(items)] ==
            IF i = 0 THEN <<>>
            ELSE IF items[i] \in seen THEN kept[i - 1] ELSE Append(kept[i - 1], items[i])
    IN  kept[Len(items)]

PopRange ==
    /\ PopsRange /\ RangeErrors(Top) = {} /\ ~Overflows(Top)
    /\ e_list' = Rest \o Unseen(Pushed(Top))
    /\ seen' = seen \cup {Pushed(Top)[i] : i \in 1..Len(rng(Top))}
    /\ UNCHANGED <<asked, crc, field_index, open, res, resultVars, outcome>>

\* An overflow is a panic in a debug build; in a release build it wraps to a
\* negative number, which is refused when it is popped.
RefuseRange ==
    /\ PopsRange
    /\ IF RangeErrors(Top) # {} THEN Refuse(RangeErrors(Top))
       ELSE Overflows(Top) /\ Refuse({"panic", "bad_cron"})

(***************************************************************************)
(* Single values.                                                          *)
(***************************************************************************)

PopsValue == Popping /\ ~Garbled(Top) /\ ~BadNth(Top) /\ Top.form = "one"

ValueErrors(v) ==
    IF v.kind = "negative" THEN {"bad_cron"}
    ELSE IF v.kind # "star" /\ ~Known(v, field_index) THEN {"not_alpha"}
    ELSE IF v.kind \in {"star", "last"} THEN {}
    ELSE IF v.n > I64Max THEN {"other"}
    ELSE IF value_alias(v.n, field_index) \notin Lowest(field_index)..Highest(field_index) THEN {"bad_cron"}
    ELSE {}

Adding(entries, v) ==
    CASE v.kind = "star" -> [entries EXCEPT !.star = TRUE]
      [] v.kind = "last" -> [entries EXCEPT !.last = TRUE]
      [] OTHER -> [entries EXCEPT !.nums = @ \cup {value_alias(v.n, field_index)}]

PopValue ==
    /\ PopsValue /\ ValueErrors(Top.low) = {}
    /\ res' = Adding(res, Top.low)
    /\ nth_weekday_of_month' =
          IF field_index = DOW_FIELD /\ Top.nth # NoNth
          THEN nth_weekday_of_month \cup {<<value_alias(Top.low.n, field_index), Top.nth>>}
          ELSE nth_weekday_of_month
    /\ e_list' = Rest
    /\ UNCHANGED <<asked, crc, field_index, open, seen, expanded, nearest_weekday, outcome>>

RefuseValue ==
    /\ PopsValue /\ ValueErrors(Top.low) # {}
    /\ Refuse(ValueErrors(Top.low))

(***************************************************************************)
(* Closing a field, and the end.                                           *)
(***************************************************************************)

Entries(f) == Cardinality(f.nums) + (IF f.star THEN 1 ELSE 0) + (IF f.last THEN 1 ELSE 0)

HasStar(field) ==
    \E i \in 1..Len(field) :
        \/ field[i].form = "every"
        \/ field[i].form \in {"one", "range", "from"} /\ "star" \in {field[i].low.kind, field[i].high.kind}

\* A full list of days is kept as a list when the other field of days has no
\* "*": whether the two are alternatives depends on it.
skip_collapse ==
    \/ field_index = DAY_FIELD /\ ~HasStar(expressions[DOW_FIELD])
    \/ field_index = DOW_FIELD /\ ~HasStar(expressions[DAY_FIELD])

CloseField ==
    /\ outcome = "running" /\ open /\ e_list = <<>>
    /\ expanded' = Append(expanded, IF Entries(res) = LEN_MEANS_ALL[field_index] /\ ~skip_collapse
                                    THEN Star ELSE res)
    /\ open' = FALSE
    /\ UNCHANGED <<asked, crc, field_index, e_list, res, seen,
                   nth_weekday_of_month, nearest_weekday, outcome>>

\* Mutant of Mixed: all seven weekdays are not spared.
Mixed_Seven ==
    /\ nth_weekday_of_month # {}
    /\ expanded[DOW_FIELD].nums \ {p[1] : p \in nth_weekday_of_month} # {}

\* Weekdays with and without "#" do not mix, unless all seven are listed.
Mixed ==
    LET dow == expanded[DOW_FIELD]
    IN  /\ nth_weekday_of_month # {}
        /\ dow.nums \ {p[1] : p \in nth_weekday_of_month} # {}
        /\ Entries(dow) # LEN_MEANS_ALL[DOW_FIELD]

AllClosed == outcome = "running" /\ ~open /\ Columns \in 5..7 /\ field_index = Columns

RefuseMixed == AllClosed /\ Mixed /\ Refuse({"unsupported"})

Finish ==
    /\ AllClosed /\ ~Mixed
    /\ outcome' = "ok"
    /\ UNCHANGED <<asked, crc, fieldVars, resultVars>>

Next ==
    \/ RefuseColumns
    \/ OpenField
    \/ RefuseField
    \/ PanicField
    \/ RefuseText
    \/ PopNearestWeekday
    \/ RefuseNearestWeekday
    \/ PopRange
    \/ RefuseRange
    \/ PopValue
    \/ RefuseValue
    \/ CloseField
    \/ RefuseMixed
    \/ Finish

Spec == Init /\ [][Next]_expandVars

=============================================================================
