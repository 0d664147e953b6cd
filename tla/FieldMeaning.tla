------------------------------ MODULE FieldMeaning ------------------------------
(***************************************************************************)
(* What the items of a cron field mean, without a stack: which texts are   *)
(* well formed, and which values they name.  The parser of Expand is       *)
(* compared with it.                                                       *)
(***************************************************************************)
EXTENDS Expand

All(f) == Lowest(f)..Highest(f)

(***************************************************************************)
(* Well-formed expressions.                                                *)
(***************************************************************************)

IsValue(v, f) == Known(v, f) /\ v.kind # "last" /\ value_alias(v.n, f) \in All(f)
IsLast(v, f)  == v.kind = "last" /\ f = DAY_FIELD

\* A step whose addition fits, or none.
StepFine(e, f) == e.step \in {NoStep} \cup 1..(I64Max - Highest(f))

NthFine(e, f) ==
    \/ e.nth = NoNth
    \/ f = DOW_FIELD /\ e.nth \in 1..5 /\ he_valid(e)
    \/ f = DOW_FIELD /\ e.nth = NTH_LAST /\ e.form = "one" /\ e.low.kind = "num"

WellFormedItem(e, f) ==
    /\ NthFine(e, f)
    /\ CASE e.form = "one"   -> (e.low.kind = "star" /\ e.nth = NoNth)
                                  \/ IsLast(e.low, f) \/ IsValue(e.low, f)
         [] e.form = "w"     -> f = DAY_FIELD /\ e.low.n \in All(f)
         [] e.form = "range" -> StepFine(e, f) /\ IsValue(e.low, f)
                                  /\ (IsLast(e.high, f) \/ IsValue(e.high, f))
         [] e.form = "from"  -> StepFine(e, f) /\ IsValue(e.low, f)
         [] e.form = "every" -> StepFine(e, f)
         [] OTHER            -> FALSE

WellFormedHash(e, f) ==
    /\ e.form = "h" => asked.hash_id
    /\ e.step # 0 /\ StepFine(e, f)
    /\ HashLow(e, f) \in All(f) /\ HashHigh(e, f) \in All(f) /\ HashLow(e, f) < HashHigh(e, f)

WellFormedField(field, f) ==
    \/ IsHash(field) /\ WellFormedHash(field[1], f)
    \/ Len(field) = 1 /\ field[1].form = "?" /\ f \in {DAY_FIELD, DOW_FIELD}
    \/ /\ \A i \in 1..Len(field) : WellFormedItem(field[i], f)
       /\ (\E i \in 1..Len(field) : field[i].form = "w") => Len(field) = 1

(***************************************************************************)
(* The values an item names.                                               *)
(***************************************************************************)

Stepped(from, low, high, step) == {v \in low..high : v >= from /\ (v - from) % step = 0}

\* Over the end of a field and on from its beginning.  The step is counted on
\* over the wrap, or is one longer there: croniter skips one value too many.
Wrapped(low, high, step, longer, f) ==
    LET top  == Stepped(low, low, Highest(f), step)
        last == CHOOSE v \in top : \A u \in top : u <= v
        AfterLast(v) == (v - Lowest(f)) + (Highest(f) + 1 - last) - longer
    IN  top \cup {v \in Lowest(f)..high : AfterLast(v) > 0 /\ AfterLast(v) % step = 0}

\* Two equal ends are the whole field.
Ranged(low, high, step, longer, f) ==
    IF low = high THEN Stepped(Lowest(f), Lowest(f), Highest(f), step)
    ELSE IF low < high THEN Stepped(low, low, high, step)
    ELSE Wrapped(low, high, step, longer, f)

\* "*/s" is counted from the bottom of the field, or through the start.
Every(step, f) ==
    {v \in All(f) : (v - (IF asked.from = NoStart THEN Lowest(f) ELSE asked.from[f])) % step = 0}

NumberOf(v, f) == IF IsLast(v, f) THEN 31 ELSE value_alias(v.n, f)

FirstOf(S) == CHOOSE v \in S : \A u \in S : v <= u

\* Relative to a start, the low end of a range gives way to the first value that
\* is whole steps from the start (src/docs/DEFECTS.md, #252); "a/s" is then "*/s",
\* but at the top of the field a stands for itself.
RangeFrom(e, f) ==
    IF asked.from = NoStart THEN NumberOf(e.low, f)
    ELSE FirstOf(Every(StepOf(e), f))

Named(e, longer, f) ==
    CASE e.form = "one" /\ e.low.kind = "star" -> All(f)
      [] e.form = "one" /\ e.low.kind = "last" -> {}
      [] e.form = "one" /\ e.low.kind \notin {"star", "last"} -> {NumberOf(e.low, f)}
      [] e.form = "w"     -> {e.low.n}
      [] e.form = "range" -> Ranged(RangeFrom(e, f), NumberOf(e.high, f), StepOf(e), longer, f)
      [] e.form = "from"  -> IF asked.from = NoStart \/ NumberOf(e.low, f) = Highest(f)
                             THEN Stepped(NumberOf(e.low, f), Lowest(f), Highest(f), e.step)
                             ELSE Every(e.step, f)
      [] e.form = "every" -> Every(e.step, f)
      [] e.form = "?"     -> All(f)

\* A hash names one number of its range, or the steps from one of the first.
HashNames(e, f) ==
    LET low == HashLow(e, f)  high == HashHigh(e, f) IN
    IF e.step = NoStep THEN {{x} : x \in low..high}
    ELSE {Stepped(x, low, high, e.step) : x \in low..Least(low + e.step - 1, high)}

Readings(field) == [1..Len(field) -> {0, 1}]

\* The sets of values a field may be taken to name.
FieldNames(field, f) ==
    IF IsHash(field) THEN HashNames(field[1], f)
    ELSE {UNION {Named(field[i], longer[i], f) : i \in 1..Len(field)} : longer \in Readings(field)}

HasLast(field, f) == \E i \in 1..Len(field) : field[i].form = "one" /\ IsLast(field[i].low, f)

NthNamed(field, f) ==
    UNION {Named(field[i], 0, f) \X {field[i].nth} : i \in {j \in 1..Len(field) : field[j].nth # NoNth}}

PlainNamed(field, longer, f) ==
    UNION {Named(field[i], longer[i], f) : i \in {j \in 1..Len(field) : field[j].nth = NoNth}}

\* Weekdays with and without "#" are not mixed, or make up all seven, however
\* the field is read.
WellMixed ==
    LET field == expressions[DOW_FIELD]
        nth   == {p[1] : p \in NthNamed(field, DOW_FIELD)}
    IN  \/ nth = {}
        \/ \A longer \in Readings(field) :
              LET plain == PlainNamed(field, longer, DOW_FIELD) IN
              plain \subseteq nth \/ (~HasStar(field) /\ plain \cup nth = All(DOW_FIELD))

WellFormed ==
    /\ Columns \in 5..7
    /\ \A f \in 1..Columns : WellFormedField(expressions[f], f)
    /\ WellMixed

(***************************************************************************)
(* Properties.                                                             *)
(***************************************************************************)

\* A start after the last year: a step may go from it over the whole field.
LateStart(from, f) == from # NoStart /\ from[f] > Highest(f)

EntriesOf(r, f, from) ==
    /\ r.nums \subseteq All(f)
    /\ r.last => f = DAY_FIELD
    /\ r.star \/ r.last \/ r.nums # {} \/ LateStart(from, f)

\* Type invariant.  Nothing out of range is in an expanded field and none is
\* empty, whatever the text: what the search takes for granted.  Only the years
\* relative to a start after 2099 may be none at all.
ExpandTypeOK ==
    /\ field_index \in 0..7
    /\ open => res = Empty \/ EntriesOf(res, field_index, asked.from)
    /\ Len(expanded) = field_index - (IF open THEN 1 ELSE 0)
    /\ \A f \in 1..Len(expanded) : EntriesOf(expanded[f], f, asked.from)
    /\ nth_weekday_of_month \subseteq All(DOW_FIELD) \X ({NTH_LAST} \cup 1..5)
    /\ nearest_weekday /\ Len(expanded) >= DAY_FIELD =>
          \E d \in 1..31 : expanded[DAY_FIELD] = [Empty EXCEPT !.nums = {d}]
    /\ outcome \in {"running", "ok", "bad_cron", "not_alpha", "unsupported", "other", "panic"}

Matching(f) == IF expanded[f].star THEN All(f) ELSE expanded[f].nums

\* Steps that miss a start before the field's first value by a remainder: the
\* code begins them before the field, and refuses what it has begun.
EarlyStep(e, f) ==
    /\ asked.from # NoStart /\ asked.from[f] < Lowest(f)
    /\ e.form \in {"range", "from", "every", "h", "r"}
    /\ (asked.from[f] - Lowest(f)) % StepOf(e) # 0

StartsEarly(f) == \E i \in 1..Len(expressions[f]) : EarlyStep(expressions[f][i], f)

\* Relative to a start, what is said of a field leaves out hashes, and steps that
\* meet the field at its top alone or nowhere: the code begins them at the bottom.
Relative(f) ==
    /\ asked.from # NoStart
    /\ \/ StartsEarly(f)
       \/ \E i \in 1..Len(expressions[f]) :
             LET e == expressions[f][i] IN
             \/ e.form \in {"h", "r"}
             \/ e.form \in {"every", "from"} /\ Every(StepOf(e), f) \subseteq {Highest(f)}
             \/ e.form = "range" /\ Every(StepOf(e), f) = {}

\* No well-formed expression is refused, in whatever order its items come off
\* the stack.  Relative to a start two are: weekdays that get mixed only there,
\* and years stepped from a start before 1970 that is not on the first of them.
AcceptsWellFormed ==
    outcome \notin {"running", "ok"} =>
        \/ ~WellFormed
        \/ outcome = "unsupported" /\ Relative(DOW_FIELD)
        \/ outcome = "bad_cron" /\ Columns = 7 /\ StartsEarly(7)

\* Thirty days and "l" are taken for all days of the month.
Overcounted(f) ==
    HasLast(expressions[f], f) /\ \E names \in FieldNames(expressions[f], f) : Cardinality(names) = 30

\* An accepted field names what its items name: a step goes on over a wrap and
\* through the start, a range that a start has turned into a wrap or a whole
\* field goes all the way, a hash stays in its range, a list is the union of its
\* items, and a full list and "*" are the same.
NamesItsItems ==
    (outcome = "ok" /\ WellFormed) =>
        /\ \A f \in 1..Columns : ~Relative(f) /\ ~Overcounted(f) =>
              /\ Matching(f) \in FieldNames(expressions[f], f)
              /\ expanded[f].last => HasLast(expressions[f], f)
              /\ HasLast(expressions[f], f) => expanded[f].last \/ Matching(f) = All(f)
        /\ ~Relative(DOW_FIELD) => nth_weekday_of_month = NthNamed(expressions[DOW_FIELD], DOW_FIELD)
        /\ nearest_weekday <=> \E i \in 1..Len(expressions[DAY_FIELD]) : expressions[DAY_FIELD][i].form = "w"

\* Parsing never panics (src/README.md: the three parses of digits that only_int
\* let through are not reachable by any input).
NeverPanics == outcome # "panic"

=============================================================================
