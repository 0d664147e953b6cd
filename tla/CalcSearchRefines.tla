---------------------------- MODULE CalcSearchRefines ----------------------------
(***************************************************************************)
(* The date search implements NextFire.                                    *)
(*                                                                         *)
(* CalcSearchProofs shows that no fire is passed.  Here are the three      *)
(* facts that turn this into the whole promise: when every field is        *)
(* satisfied the cursor is a fire; the search gives up only when nothing   *)
(* is in scope; and it runs off the calendar only from its last, or first, *)
(* year.                                                                   *)
(***************************************************************************)
EXTENDS CalcSearchProofs

(***************************************************************************)
(* A distance of zero: the field is satisfied.                             *)
(***************************************************************************)

\* get_next_nearest_diff returns 0 for a value of the field only, or for the
\* end of the round with "l".
LEMMA NextZero ==
    ASSUME NEW range \in Nat, NEW x \in Nat, x <= range, NEW f, f.nums \in SUBSET Nat,
           x < range \/ 0 \notin f.nums,
           range # 0,
           NextDiff(x, f, range) = 0
    PROVE  x \in f.nums \/ (f.last /\ x = range)
<1>. DEFINE ahead == {n \in f.nums : x <= n /\ n <= range}
<1>1. CASE ahead # {}
  <2>1. ahead \in SUBSET Nat
    OBVIOUS
  <2>2. Min(ahead) \in ahead
    <3> HIDE DEF ahead
    <3>. QED BY <1>1, <2>1, MinIsLeast
  <2>3. PICK a \in Nat : a = Min(ahead) /\ a \in f.nums
    BY <2>1, <2>2
  <2>4. NextDiff(x, f, range) = a - x
    BY <1>1, <2>3 DEF NextDiff
  <2>5. a = x
    BY <2>3, <2>4
  <2>. QED
    BY <2>3, <2>5
<1>2. CASE ahead = {} /\ f.last
  BY <1>2 DEF NextDiff
<1>3. CASE ahead = {} /\ ~f.last /\ f.nums = {}
  <2>1. NextDiff(x, f, range) = range - x + range
    BY <1>3 DEF NextDiff
  <2>2. range - x + range # 0
    OBVIOUS
  <2>. QED
    BY <2>1, <2>2
<1>4. CASE ahead = {} /\ ~f.last /\ f.nums # {}
  <2>1. PICK a \in Nat : a = Min(f.nums) /\ a \in f.nums
    BY <1>4, MinIsLeast
  <2>2. NextDiff(x, f, range) = a - x + range
    BY <1>4, <2>1 DEF NextDiff
  <2>3. a - x + range # 0
    BY <2>1
  <2>. QED
    BY <2>2, <2>3
<1>. QED
  BY <1>1, <1>2, <1>3, <1>4

\* get_prev_nearest_diff returns 0 for a value of the field only, save for
\* the value 0 whose round before ends in a value of the field.
LEMMA PrevZero ==
    ASSUME NEW range \in Nat, NEW x \in Nat, NEW f, f.nums \in SUBSET Nat,
           x # 0 \/ (~f.last /\ range \notin f.nums),
           range # 0,
           PrevDiff(x, f, range) = 0
    PROVE  x \in f.nums
<1>. DEFINE behind == {n \in f.nums : n <= x}
            round  == {n \in f.nums : n <= range}
<1>0. behind \in SUBSET (0..x) /\ round \in SUBSET (0..range)
  OBVIOUS
<1>1. CASE behind # {}
  <2>1. Max(behind) \in behind
    <3> HIDE DEF behind
    <3>. QED BY <1>0, <1>1, MaxIsGreatest
  <2>2. PICK a \in Nat : a = Max(behind) /\ a \in f.nums
    BY <2>1
  <2>3. PrevDiff(x, f, range) = a - x
    BY <1>1, <2>2 DEF PrevDiff
  <2>4. a = x
    BY <2>2, <2>3
  <2>. QED
    BY <2>2, <2>4
<1>2. CASE behind = {} /\ f.last
  <2>1. PrevDiff(x, f, range) = -x
    BY <1>2 DEF PrevDiff
  <2>2. x # 0
    BY <1>2
  <2>3. -x # 0
    BY <2>2
  <2>. QED
    BY <2>1, <2>3
<1>3. CASE behind = {} /\ ~f.last /\ round # {}
  <2>1. Max(round) \in round
    <3> HIDE DEF round
    <3>. QED BY <1>0, <1>3, MaxIsGreatest
  <2>2. PICK a \in Nat : a = Max(round) /\ a <= range /\ a \in f.nums
    BY <2>1
  <2>3. PrevDiff(x, f, range) = a - x - range
    BY <1>3, <2>2 DEF PrevDiff
  <2>4. a = range /\ x = 0
    BY <2>2, <2>3
  <2>. QED
    BY <2>2, <2>4
<1>4. CASE behind = {} /\ ~f.last /\ round = {}
  <2>1. PrevDiff(x, f, range) = -range
    BY <1>4 DEF PrevDiff
  <2>2. -range # 0
    OBVIOUS
  <2>. QED
    BY <2>1, <2>2
<1>. QED
  BY <1>1, <1>2, <1>3, <1>4

\* The fields but the day of the month have no "l", and list something
\* unless they are "*".
LEMMA PlainFields ==
    ASSUME NEW e \in Exprs
    PROVE  /\ ~e.minute.last /\ ~e.hour.last /\ ~e.month.last /\ ~e.dow.last /\ ~e.second.last
           /\ ~e.minute.star => e.minute.nums # {}
           /\ ~e.hour.star => e.hour.nums # {}
           /\ ~e.month.star => e.month.nums # {}
           /\ ~e.dow.star => e.dow.nums # {}
           /\ ~e.second.star => e.second.nums # {}
           /\ ~e.day.star => e.day.last \/ e.day.nums # {}
<1>1. e \in Expanded
  BY ExprAssumption
<1>2. ASSUME NEW lo, NEW hi, NEW f \in FieldOf(lo, hi)
      PROVE  ~f.last /\ (~f.star => f.nums # {})
  <2>1. CASE f = Star
    BY <2>1 DEF Star
  <2>2. CASE f \in [star : {FALSE}, nums : (SUBSET (lo..hi)) \ {{}}, last : {FALSE}]
    <3>1. f.nums \in (SUBSET (lo..hi)) \ {{}} /\ f.last \in {FALSE}
      BY <2>2
    <3>. QED
      BY <3>1
  <2>. QED
    BY <2>1, <2>2 DEF FieldOf
<1>3. ASSUME NEW f \in DayField
      PROVE  ~f.star => f.last \/ f.nums # {}
  <2>1. CASE f = Star
    BY <2>1 DEF Star
  <2>2. CASE f \in {g \in [star : {FALSE}, nums : SUBSET (1..31), last : BOOLEAN] :
                        g.nums # {} \/ g.last}
    BY <2>2
  <2>. QED
    BY <2>1, <2>2 DEF DayField
<1>. QED
  BY <1>1, <1>2, <1>3 DEF Expanded

\* A field that goes round is satisfied when its distance is 0.
LEMMA RoundZero ==
    ASSUME NEW N \in {7, 12, 24, 60}, NEW o \in {0, 1}, NEW x \in o .. (N - 1 + o),
           N = 12 <=> o = 1,
           NEW f, f.nums \in SUBSET (o .. (N - 1 + o)), ~f.last,
           isPrev \in BOOLEAN,
           NearestDiff(x, f, N) = 0
    PROVE  x \in f.nums
<1>1. /\ N \in Nat /\ N # 0 /\ x \in Nat /\ x <= N /\ f.nums \in SUBSET Nat
      /\ x < N \/ o = 1
  <2>1. N \in Nat /\ N # 0 /\ x \in Int /\ 0 <= x /\ x <= N /\ (x < N \/ o = 1)
    OBVIOUS
  <2>2. \A n \in o .. (N - 1 + o) : n \in Nat
    OBVIOUS
  <2>. QED
    BY <2>1, <2>2
<1>2. CASE ~isPrev
  <2>1. NextDiff(x, f, N) = 0
    BY <1>2 DEF NearestDiff
  <2>2. x < N \/ 0 \notin f.nums
    <3>1. o = 1 => 0 \notin o .. (N - 1 + o)
      OBVIOUS
    <3>. QED
      BY <1>1, <3>1
  <2>. QED
    BY <1>1, <2>1, <2>2, NextZero
<1>3. CASE isPrev
  <2>1. PrevDiff(x, f, N) = 0
    BY <1>3 DEF NearestDiff
  <2>2. x # 0 \/ N \notin f.nums
    <3>1. o = 0 => N \notin o .. (N - 1 + o)
      OBVIOUS
    <3>2. o = 1 => x # 0
      OBVIOUS
    <3>. QED
      BY <3>1, <3>2
  <2>. QED
    BY <1>1, <2>1, <2>2, PrevZero
<1>. QED
  BY <1>2, <1>3

\* The same for minutes and seconds.
LEMMA MinuteZero ==
    ASSUME NEW x \in 0..59, NEW f, f.nums \in SUBSET (0..59), ~f.last,
           isPrev \in BOOLEAN,
           NearestDiff(x, f, 60) = 0
    PROVE  x \in f.nums
<1>1. 0 .. (60 - 1 + 0) = 0..59
  OBVIOUS
<1>. QED
  BY <1>1, RoundZero

(***************************************************************************)
(* Every field satisfied: the cursor is a fire.                            *)
(***************************************************************************)

\* A day the month offers is reached when there is no way left to it.
LEMMA OfferedZero ==
    ASSUME cur.day \in Days, isPrev \in BOOLEAN, NEW offered,
           \A d \in offered : d \in 1 .. MonthLength(month),
           DayDiffTo(offered) = 0
    PROVE  dom \in offered
<1>1. PICK x \in 1..31, L \in 28..31 : x = dom /\ L = MonthLength(month) /\ x <= L
  BY DayParts DEF dom, month
<1>2. \A d \in offered : d \in Nat /\ d <= L
  <2>1. \A d \in 1..L : d \in Nat /\ d <= L
    OBVIOUS
  <2>. QED
    BY <1>1, <2>1
<1>3. CASE Ahead(x, offered) # {}
  <2>1. PICK z \in Int : z = Nearest(Ahead(x, offered)) /\ z \in offered
    <3>1. L \in Nat /\ x \in Int
      OBVIOUS
    <3>. QED
      BY <1>2, <1>3, <3>1, NearestAhead
  <2>2. z - x = 0
    BY <1>1, <1>3, <2>1 DEF DayDiffTo
  <2>. QED
    BY <1>1, <2>1, <2>2
<1>4. CASE Ahead(x, offered) = {}
  <2>1. DayDiffTo(offered) = IF isPrev THEN -x ELSE L - x + 1
    BY <1>1, <1>4 DEF DayDiffTo
  <2>2. -x # 0 /\ L - x + 1 # 0
    BY <1>1
  <2>. QED
    BY <2>1, <2>2
<1>. QED
  BY <1>3, <1>4

\* The day get_nearest_weekday computes is the workday nearest to d.
LEMMA WorkdayNearest ==
    ASSUME NEW u \in Days, NEW d \in 1..31, DomOf(u) = NearestWeekday(MonthOf[u], d)
    PROVE  IsNearestWorkday(u, d)
<1>1. PICK j \in Int, m \in Int, v \in Int, n \in 1..31, len \in 28..31 :
              /\ j = u /\ m = MonthOf[u] /\ v = MonthStart[m] /\ n = DomOf(u)
              /\ len = MonthLength(m) /\ MonthStart[m + 1] = v + len
              /\ m \in FirstMonth .. (LastMonth + 1)
              /\ m + 1 \in FirstMonth .. (LastMonth + 1)
              /\ j = v + n - 1 /\ n <= len
  BY DayParts
<1>1a. j = v + n - 1 /\ n <= len
  BY <1>1
<1>2. PICK day \in 1..len : day = IF d <= len THEN d ELSE len
  OBVIOUS
<1>2a. 1 <= day /\ day <= len
  BY <1>2
<1>3. PICK w \in Int, r \in 0..6 : w = v + day - 1 /\ r = DowOf(w)
  <2>1. v + day - 1 \in Int
    OBVIOUS
  <2>. QED
    BY <2>1, AroundWeekend
<1>3a. w = v + day - 1
  BY <1>3
<1>4. n = IF r \in 1..5 THEN day
          ELSE IF r = 6 THEN (IF day > 1 THEN day - 1 ELSE day + 2)
          ELSE (IF day < len THEN day + 1 ELSE day - 2)
  BY <1>1, <1>2, <1>3 DEF NearestWeekday
<1>5. ASSUME DowOf(j) \in 1..5,
             \A x \in v .. (v + len - 1) :
                DowOf(x) \in 1..5 => Distance(j, w) <= Distance(x, w)
      PROVE  IsNearestWorkday(u, d)
  BY <1>1, <1>2, <1>3, <1>5 DEF IsNearestWorkday, IsWorkday
<1>6. CASE r \in 1..5
  <2>1. j = w
    BY <1>1a, <1>3a, <1>4, <1>6
  <2>2. ASSUME NEW x \in v .. (v + len - 1)
        PROVE  Distance(j, w) <= Distance(x, w)
    BY <2>1 DEF Distance
  <2>. QED
    BY <1>3, <1>5, <1>6, <2>1, <2>2
<1>7. CASE r = 6 /\ day > 1
  <2>1. j = w - 1
    BY <1>1a, <1>3a, <1>4, <1>7
  <2>2. DowOf(w - 1) = 5 /\ DowOf(w) = 6
    BY <1>3, <1>7, AroundWeekend
  <2>3. ASSUME NEW x \in v .. (v + len - 1), DowOf(x) \in 1..5
        PROVE  Distance(j, w) <= Distance(x, w)
    <3>1. x # w
      BY <2>2, <2>3
    <3>. QED
      BY <2>1, <3>1 DEF Distance
  <2>. QED
    BY <1>5, <2>1, <2>2, <2>3
<1>8. CASE r = 6 /\ ~ (day > 1)
  <2>1. j = w + 2 /\ w = v
    BY <1>1a, <1>2a, <1>3a, <1>4, <1>8
  <2>2. DowOf(w + 2) = 1 /\ DowOf(w + 1) = 0 /\ DowOf(w) = 6
    BY <1>3, <1>8, AroundWeekend
  <2>3. ASSUME NEW x \in v .. (v + len - 1), DowOf(x) \in 1..5
        PROVE  Distance(j, w) <= Distance(x, w)
    <3>1. x # w /\ x # w + 1
      BY <2>2, <2>3
    <3>. QED
      BY <2>1, <3>1 DEF Distance
  <2>. QED
    BY <1>5, <2>1, <2>2, <2>3
<1>9. CASE r = 0 /\ day < len
  <2>1. j = w + 1
    BY <1>1a, <1>3a, <1>4, <1>9
  <2>2. DowOf(w + 1) = 1 /\ DowOf(w) = 0
    BY <1>3, <1>9, AroundWeekend
  <2>3. ASSUME NEW x \in v .. (v + len - 1), DowOf(x) \in 1..5
        PROVE  Distance(j, w) <= Distance(x, w)
    <3>1. x # w
      BY <2>2, <2>3
    <3>. QED
      BY <2>1, <3>1 DEF Distance
  <2>. QED
    BY <1>5, <2>1, <2>2, <2>3
<1>10. CASE r = 0 /\ ~ (day < len)
  <2>1. j = w - 2 /\ w = v + len - 1
    BY <1>1a, <1>2a, <1>3a, <1>4, <1>10
  <2>2. DowOf(w - 2) = 5 /\ DowOf(w - 1) = 6 /\ DowOf(w) = 0
    BY <1>3, <1>10, AroundWeekend
  <2>3. ASSUME NEW x \in v .. (v + len - 1), DowOf(x) \in 1..5
        PROVE  Distance(j, w) <= Distance(x, w)
    <3>1. x # w /\ x # w - 1
      BY <2>2, <2>3
    <3>. QED
      BY <2>1, <3>1 DEF Distance
  <2>. QED
    BY <1>5, <2>1, <2>2, <2>3
<1>. QED
  BY <1>6, <1>7, <1>8, <1>9, <1>10

\* The n-th such weekday get_nth_weekday_of_month lists falls in the n-th run
\* of seven days, and the last one in the last seven.
LEMMA WeekdayNth ==
    ASSUME NEW u \in Days, NEW n \in {NTH_LAST} \cup 1..5, NEW w,
           DomOf(u) \in NthOf(WeekdaysOf(MonthOf[u], w), n)
    PROVE  DowOf(u) = w /\ IsNth(u, n)
<1>1. PICK j \in Int, m \in Int, v \in Int, d \in 1..31, len \in 28..31 :
              /\ j = u /\ m = MonthOf[u] /\ v = MonthStart[m] /\ d = DomOf(u)
              /\ len = MonthLength(m) /\ MonthStart[m + 1] = v + len
              /\ m \in FirstMonth .. (LastMonth + 1)
              /\ m + 1 \in FirstMonth .. (LastMonth + 1)
              /\ j = v + d - 1 /\ d <= len
  BY DayParts
<1>1a. j = v + d - 1 /\ d <= len /\ d \in 1..len /\ 1 <= d
  BY <1>1
<1>2. PICK S : S = WeekdaysOf(m, w) /\ d \in NthOf(S, n)
  BY <1>1
<1>3. d \in S /\ S = {x \in 1..len : DowOf(v + x - 1) = w}
  BY <1>1, <1>2 DEF NthOf, WeekdaysOf
<1>4. DowOf(v + d - 1) = w /\ DowOf(u) = w
  <2>1. DowOf(v + d - 1) = w
    BY <1>3
  <2>. QED
    BY <1>1, <1>1a, <2>1
<1>5. CASE n = NTH_LAST
  <2>1. \A x \in S : x <= d
    BY <1>2, <1>5 DEF NthOf
  <2>2. ASSUME d + 7 <= len PROVE FALSE
    <3>1. PICK y \in 1..len : y = d + 7
      BY <1>1a, <2>2
    <3>2. d - y = 7 * (-1)
      BY <3>1
    <3>3. DowOf(v + y - 1) = DowOf(v + d - 1)
      BY <3>2, WeeksApart
    <3>4. y \in S
      BY <1>3, <1>4, <3>3
    <3>. QED
      BY <2>1, <3>1, <3>4
  <2>3. d + 7 > len
    BY <2>2
  <2>. QED
    BY <1>1, <1>4, <1>5, <2>3 DEF IsNth
<1>6. CASE n # NTH_LAST
  <2>1. PICK k \in 1..5 : 7 * k - 6 <= d /\ d <= 7 * k
    <3>1. d <= 7 \/ (8 <= d /\ d <= 14) \/ (15 <= d /\ d <= 21) \/ (22 <= d /\ d <= 28) \/ 29 <= d
      BY <1>1a
    <3>. QED
      BY <1>1a, <3>1
  <2>2. Cardinality({x \in 1..len : DowOf(v + x - 1) = DowOf(v + d - 1) /\ x <= d}) = k
    BY <1>1a, <2>1, NthCount
  <2>3. {x \in S : x <= d} = {x \in 1..len : DowOf(v + x - 1) = DowOf(v + d - 1) /\ x <= d}
    BY <1>3, <1>4
  <2>4. Cardinality({x \in S : x <= d}) = n
    BY <1>2, <1>6 DEF NthOf
  <2>5. k = n
    BY <2>2, <2>3, <2>4
  <2>6. n # NTH_LAST /\ d \in (7 * n - 6) .. (7 * n)
    BY <1>6, <2>1, <2>5
  <2>. QED
    BY <1>1, <1>4, <2>6 DEF IsNth
<1>. QED
  BY <1>5, <1>6

\* The year of a day is a number, and later days have later years.
LEMMA YearIsInt ==
    ASSUME NEW t \in Days
    PROVE  /\ YearOf(t) \in Int
           /\ \A u \in Days : t <= u => YearOf(t) <= YearOf(u)
<1>1. PICK m \in Int : m = MonthOf[t]
  BY DayFields, MonthsAreNumbers
<1>2. \A x, y \in Int : x <= y => x \div 12 <= y \div 12
  OBVIOUS
<1>3. ASSUME NEW u \in Days, t <= u
      PROVE  YearOf(t) <= YearOf(u)
  <2>1. PICK n \in Int : n = MonthOf[u]
    BY DayFields, MonthsAreNumbers
  <2>2. m <= n
    BY <1>1, <1>3, <2>1, MonthOrder
  <2>. QED
    BY <1>1, <1>2, <2>1, <2>2 DEF YearOf, MonthYear
<1>. QED
  BY <1>1, <1>3 DEF YearOf, MonthYear

\* The years of an expression are bounded.
LEMMA YearsBounded ==
    ASSUME NEW e \in Exprs
    PROVE  \E b \in Nat : \A n \in e.year.nums : n \in Nat /\ n <= b
<1>1. e.year.nums \in SUBSET (1970..2099)
  BY ExprFields
<1>2. PICK b \in Nat : b = 2099
  OBVIOUS
<1>3. \A n \in 1970..2099 : n \in Nat /\ n <= b
  BY <1>2
<1>4. \A n \in e.year.nums : n \in Nat /\ n <= b
  BY <1>1, <1>3
<1>. QED
  BY <1>4

\* The years: the cursor's is listed, or is the nearest listed one's distance
\* away from it.
LEMMA YearMatched ==
    ASSUME Searching, YearLeft, YearDiff = 0
    PROVE  YearMatches(expr, cur.day)
<1>1. /\ expr \in Exprs /\ cur.day \in Days /\ isPrev \in BOOLEAN
  BY SearchingParts
<1>2. CASE expr.year.star
  BY <1>2 DEF YearMatches
<1>3. CASE ~expr.year.star
  <2>1. PICK y \in Int : y = YearOf(cur.day)
    BY <1>1, YearIsInt
  <2>2. \E b \in Nat : \A n \in expr.year.nums : n \in Nat /\ n <= b
    BY <1>1, YearsBounded
  <2>3. YearsAhead = Ahead(y, expr.year.nums) /\ Ahead(y, expr.year.nums) # {}
    BY <1>3, <2>1 DEF YearsAhead, YearLeft
  <2>4. PICK z \in Int : z = Nearest(YearsAhead) /\ z \in expr.year.nums
    BY <1>1, <2>1, <2>2, <2>3, NearestAhead
  <2>5. z - y = 0
    BY <1>3, <2>1, <2>4 DEF YearDiff
  <2>6. z = y
    BY <2>5
  <2>. QED
    BY <2>1, <2>4, <2>6 DEF YearMatches
<1>. QED
  BY <1>2, <1>3

\* The month is listed.
LEMMA MonthMatched ==
    ASSUME Searching, MonthDiff = 0
    PROVE  MonthMatches(expr, cur.day)
<1>1. /\ expr \in Exprs /\ cur.day \in Days /\ isPrev \in BOOLEAN
  BY SearchingParts
<1>2. CASE expr.month.star
  BY <1>2 DEF MonthMatches
<1>3. CASE ~expr.month.star
  <2>1. PICK x \in 1..12 : x = MonthNoOf(cur.day)
    BY <1>1, DayFields
  <2>2. NearestDiff(x, expr.month, 12) = 0
    BY <1>3, <2>1 DEF MonthDiff, MonthNoOf, month
  <2>3. expr.month.nums \in SUBSET (1..12) /\ ~expr.month.last
    BY <1>1, ExprFields, PlainFields
  <2>4. 1 .. (12 - 1 + 1) = 1..12
    OBVIOUS
  <2>5. x \in expr.month.nums
    BY <1>1, <2>2, <2>3, <2>4, RoundZero
  <2>. QED
    BY <2>1, <2>5 DEF MonthMatches
<1>. QED
  BY <1>2, <1>3

\* The day of the month is one of the W days, or is listed, or is the last.
LEMMA DomMatched ==
    ASSUME Searching, DomDiff = 0
    PROVE  DomMatches(expr, cur.day)
<1>1. /\ expr \in Exprs /\ cur.day \in Days /\ isPrev \in BOOLEAN
  BY SearchingParts
<1>2. CASE expr.w # {}
  <2>. DEFINE offered == {NearestWeekday(month, d) : d \in expr.w}
  <2>1. DayDiffTo(offered) = 0
    BY <1>2 DEF DomDiff, NearestWeekdayDiff
  <2>2. \A d \in expr.w : d \in 1..31
    BY <1>1, ExprFields
  <2>3. month \in Months /\ month = MonthOf[cur.day] /\ dom = DomOf(cur.day)
    BY <1>1, DayFields DEF month, dom
  <2>4. \A d \in offered : d \in 1 .. MonthLength(month)
    BY <2>2, <2>3, NearestWeekdayRange
  <2>5. dom \in offered
    <3>. HIDE DEF offered
    <3>. QED
      BY <1>1, <2>1, <2>4, OfferedZero
  <2>6. PICK d \in expr.w : dom = NearestWeekday(month, d)
    BY <2>5
  <2>7. IsNearestWorkday(cur.day, d)
    BY <1>1, <2>2, <2>3, <2>6, WorkdayNearest
  <2>. QED
    BY <1>2, <2>7 DEF DomMatches
<1>3. CASE expr.w = {} /\ (expr.day.star \/ (expr.day.last /\ dom = MonthLength(month)))
  BY <1>3 DEF DomMatches, IsLastOfMonth, dom, month
<1>4. CASE expr.w = {} /\ ~ (expr.day.star \/ (expr.day.last /\ dom = MonthLength(month)))
  <2>1. PICK x \in 1..31, L \in 28..31 : x = DomOf(cur.day) /\ L = MonthLength(month) /\ x <= L
                                          /\ x = dom
    BY <1>1, DayParts DEF month, dom
  <2>2. PICK P \in 28..31 : P = MonthLength(month - 1)
    <3>1. month \in Int
      BY <1>1, DayFields, MonthsAreNumbers DEF month
    <3>. QED
      BY <3>1, MonthLengthRange
  <2>3. NearestDiff(x, expr.day, IF isPrev THEN P ELSE L) = 0
    BY <1>4, <2>1, <2>2 DEF DomDiff, DayOfMonthDiff
  <2>4. expr.day.nums \in SUBSET (1..31) /\ expr.day.nums \in SUBSET Nat /\ 0 \notin expr.day.nums
    <3>1. expr.day.nums \in SUBSET (1..31)
      BY <1>1, ExprFields
    <3>2. \A n \in 1..31 : n \in Nat /\ n # 0
      OBVIOUS
    <3>. QED
      BY <3>1, <3>2
  <2>5. x \in Nat /\ x # 0 /\ L \in Nat /\ L # 0 /\ P \in Nat /\ P # 0
    OBVIOUS
  <2>6. x \in expr.day.nums \/ (expr.day.last /\ x = L)
    <3>1. CASE isPrev
      <4>1. PrevDiff(x, expr.day, P) = 0
        BY <2>3, <3>1 DEF NearestDiff
      <4>. QED
        BY <2>4, <2>5, <4>1, PrevZero
    <3>2. CASE ~isPrev
      <4>1. NextDiff(x, expr.day, L) = 0
        BY <2>3, <3>2 DEF NearestDiff
      <4>. QED
        BY <2>1, <2>4, <2>5, <4>1, NextZero
    <3>. QED
      BY <1>1, <3>1, <3>2
  <2>. QED
    BY <1>4, <2>1, <2>6 DEF DomMatches
<1>. QED
  BY <1>2, <1>3, <1>4

\* The weekday is listed, or the day is one of the weekday#n days.
LEMMA DowMatched ==
    ASSUME Searching, DowDiff = 0
    PROVE  DowMatches(expr, cur.day)
<1>1. /\ expr \in Exprs /\ cur.day \in Days /\ isPrev \in BOOLEAN
  BY SearchingParts
<1>2. CASE expr.nth # {}
  <2>. DEFINE offered == UNION {NthOf(WeekdaysOf(month, p[1]), p[2]) : p \in expr.nth}
  <2>1. DayDiffTo(offered) = 0
    BY <1>2 DEF DowDiff, NthDiff
  <2>2. \A p \in expr.nth : p[2] \in {NTH_LAST} \cup 1..5
    BY <1>1, ExprFields
  <2>3. month = MonthOf[cur.day] /\ dom = DomOf(cur.day)
    BY DEF month, dom
  <2>4. \A d \in offered : d \in 1 .. MonthLength(month)
    BY DEF NthOf, WeekdaysOf
  <2>5. dom \in offered
    <3>. HIDE DEF offered
    <3>. QED
      BY <1>1, <2>1, <2>4, OfferedZero
  <2>6. PICK p \in expr.nth : dom \in NthOf(WeekdaysOf(month, p[1]), p[2])
    BY <2>5
  <2>7. DowOf(cur.day) = p[1] /\ IsNth(cur.day, p[2])
    BY <1>1, <2>2, <2>3, <2>6, WeekdayNth
  <2>. QED
    BY <1>2, <2>7 DEF DowMatches
<1>3. CASE expr.nth = {} /\ expr.dow.star
  BY <1>3 DEF DowMatches
<1>4. CASE expr.nth = {} /\ ~expr.dow.star
  <2>1. PICK x \in 0..6 : x = DowOf(cur.day)
    BY <1>1, DayFields
  <2>2. NearestDiff(x, expr.dow, 7) = 0
    BY <1>4, <2>1 DEF DowDiff, DayOfWeekDiff
  <2>3. expr.dow.nums \in SUBSET (0..6) /\ ~expr.dow.last
    BY <1>1, ExprFields, PlainFields
  <2>4. 0 .. (7 - 1 + 0) = 0..6
    OBVIOUS
  <2>5. x \in expr.dow.nums
    BY <1>1, <2>2, <2>3, <2>4, RoundZero
  <2>. QED
    BY <1>4, <2>1, <2>5 DEF DowMatches
<1>. QED
  BY <1>2, <1>3, <1>4

\* The clock fields are listed.
LEMMA ClockMatched ==
    ASSUME Searching, HourDiff = 0, MinuteDiff = 0, SecondDiff = 0
    PROVE  /\ cur.h \in Hours(expr)
           /\ cur.mi \in Minutes(expr)
           /\ expr.secs => cur.s \in Seconds(expr)
<1>1. /\ expr \in Exprs /\ isPrev \in BOOLEAN /\ cur \in Moments
  BY SearchingParts
<1>2. PICK h \in 0..23, mi \in 0..59, s \in 0..59 : h = cur.h /\ mi = cur.mi /\ s = cur.s
  BY <1>1, StampIsInt
<1>3. /\ expr.minute.nums \in SUBSET (0..59) /\ ~expr.minute.last
      /\ expr.hour.nums \in SUBSET (0..23) /\ ~expr.hour.last
      /\ expr.second.nums \in SUBSET (0..59) /\ ~expr.second.last
  BY <1>1, ExprFields, PlainFields
<1>4. 0 .. (24 - 1 + 0) = 0..23
  OBVIOUS
<1>5. h \in Hours(expr)
  <2>1. CASE ~expr.hour.star
    <3>1. NearestDiff(h, expr.hour, 24) = 0
      BY <1>2, <2>1 DEF HourDiff
    <3>2. h \in expr.hour.nums
      BY <1>1, <1>3, <1>4, <3>1, RoundZero
    <3>. QED
      BY <2>1, <3>2 DEF Hours
  <2>2. CASE expr.hour.star
    BY <2>2 DEF Hours
  <2>. QED
    BY <2>1, <2>2
<1>6. mi \in Minutes(expr)
  <2>1. CASE ~expr.minute.star
    <3>1. NearestDiff(mi, expr.minute, 60) = 0
      BY <1>2, <2>1 DEF MinuteDiff
    <3>2. mi \in expr.minute.nums
      BY <1>1, <1>3, <3>1, MinuteZero
    <3>. QED
      BY <2>1, <3>2 DEF Minutes
  <2>2. CASE expr.minute.star
    BY <2>2 DEF Minutes
  <2>. QED
    BY <2>1, <2>2
<1>7. ASSUME expr.secs PROVE s \in Seconds(expr)
  <2>1. CASE ~expr.second.star
    <3>1. NearestDiff(s, expr.second, 60) = 0
      BY <1>2, <1>7, <2>1 DEF SecondDiff
    <3>2. s \in expr.second.nums
      BY <1>1, <1>3, <3>1, MinuteZero
    <3>. QED
      BY <1>7, <2>1, <3>2 DEF Seconds
  <2>2. CASE expr.second.star
    BY <1>7, <2>2 DEF Seconds
  <2>. QED
    BY <2>1, <2>2
<1>. QED
  BY <1>2, <1>5, <1>6, <1>7

\* The last turn of the loop leaves the cursor on a fire.
LEMMA FoundIsFire ==
    ASSUME Searching, Found
    PROVE  cur' \in Instants /\ Fires(expr, cur') /\ cur'.day = cur.day
<1>1. /\ expr \in Exprs /\ cur \in Instants /\ cur \in Moments /\ cur.day \in Days /\ ~expr.either
  BY SearchingParts
<1>2. /\ YearLeft /\ YearDiff = 0 /\ MonthDiff = 0 /\ DomDiff = 0 /\ DowDiff = 0
      /\ HourDiff = 0 /\ MinuteDiff = 0 /\ SecondDiff = 0
      /\ cur' = IF expr.secs THEN cur ELSE [cur EXCEPT !.s = 0]
  BY Zenon DEF Found, MinuteDone, HourDone, DayDone, DomDone, MonthDone, YearDone
<1>3. DayMatches(expr, cur.day)
  BY <1>1, <1>2, YearMatched, MonthMatched, DomMatched, DowMatched DEF DayMatches
<1>4. cur.day \in FireDays[expr]
  BY <1>1, <1>3 DEF FireDays
<1>5. /\ cur.h \in Hours(expr) /\ cur.mi \in Minutes(expr)
      /\ expr.secs => cur.s \in Seconds(expr)
  BY <1>2, ClockMatched
<1>6. CASE expr.secs
  BY <1>1, <1>2, <1>4, <1>5, <1>6 DEF Fires
<1>7. CASE ~expr.secs
  <2>1. PICK d \in Int, h \in 0..23, mi \in 0..59, s \in 0..59 :
              cur = [day |-> d, h |-> h, mi |-> mi, s |-> s]
    BY <1>1, MomentParts
  <2>2. cur' = [day |-> d, h |-> h, mi |-> mi, s |-> 0]
    BY <1>2, <1>7, <2>1
  <2>3. cur' \in Instants
    BY <1>1, <2>1, <2>2 DEF Instants
  <2>4. 0 \in Seconds(expr)
    BY <1>7 DEF Seconds
  <2>. QED
    BY <1>4, <1>5, <2>1, <2>2, <2>3, <2>4 DEF Fires
<1>. QED
  BY <1>6, <1>7

(***************************************************************************)
(* Off the calendar only from its edge.                                    *)
(***************************************************************************)

\* The cursor is in the last year of the calendar or, going back, the first.
AtEdge == YearOf(cur.day) = IF isPrev THEN FirstYear ELSE LastYear

\* The months of a year, and the years of the calendar.
LEMMA YearMonths ==
    ASSUME NEW t \in Days
    PROVE  \E y \in Int, m \in Int :
              /\ y = YearOf(t) /\ m = MonthOf[t] /\ m \in Months
              /\ 12 * y <= m /\ m < 12 * y + 12
              /\ FirstYear <= y /\ y <= LastYear
              /\ FirstMonth = 12 * FirstYear /\ LastMonth = 12 * LastYear + 11
<1>1. PICK m \in Int : m = MonthOf[t] /\ m \in Months
  BY DayFields, MonthsAreNumbers
<1>2. PICK y \in Int : y = m \div 12 /\ 12 * y <= m /\ m < 12 * y + 12
  <2>1. m \div 12 \in Int /\ 12 * (m \div 12) <= m /\ m < 12 * (m \div 12) + 12
    OBVIOUS
  <2>. QED
    BY <2>1
<1>3. PICK a \in Int, b \in Int : a = FirstYear /\ b = LastYear
  BY CalendarAssumption
<1>4. FirstMonth = 12 * a /\ LastMonth = 12 * b + 11
  BY <1>3 DEF FirstMonth, LastMonth, MonthIndex
<1>5. 12 * a <= m /\ m <= 12 * b + 11
  BY <1>1, <1>4 DEF Months
<1>6. a <= y /\ y <= b
  BY <1>2, <1>5
<1>. QED
  BY <1>1, <1>2, <1>3, <1>4, <1>6 DEF YearOf, MonthYear

\* Two months from the cursor the calendar has not ended, unless the cursor
\* is in its last year.
LEMMA ShortMove ==
    ASSUME cur.day \in Days, isPrev \in BOOLEAN, NEW t \in Int, t \notin Days,
           IF isPrev THEN cur.day - 62 <= t /\ t <= cur.day
                     ELSE cur.day <= t /\ t <= cur.day + 62
    PROVE  AtEdge
<1>1. PICK y \in Int, m \in Int, a \in Int, b \in Int :
              /\ y = YearOf(cur.day) /\ m = MonthOf[cur.day] /\ m \in Months
              /\ 12 * y <= m /\ m < 12 * y + 12
              /\ a <= y /\ y <= b /\ a = FirstYear /\ b = LastYear
              /\ FirstMonth = 12 * a /\ LastMonth = 12 * b + 11
  BY YearMonths, CalendarAssumption
<1>2. PICK i \in Int, v \in Int, L \in 28..31 :
              /\ i = cur.day /\ v = MonthStart[m] /\ MonthStart[m + 1] = v + L
              /\ v <= i /\ i < v + L
  <2>1. PICK i \in Int, k \in Int, v \in Int, n \in 1..31, L \in 28..31 :
              /\ i = cur.day /\ k = MonthOf[cur.day] /\ v = MonthStart[k] /\ n = DomOf(cur.day)
              /\ L = MonthLength(k) /\ MonthStart[k + 1] = v + L
              /\ k \in FirstMonth .. (LastMonth + 1)
              /\ k + 1 \in FirstMonth .. (LastMonth + 1)
              /\ i = v + n - 1 /\ n <= L
    BY DayParts
  <2>1a. i = v + n - 1 /\ n <= L
    BY <2>1
  <2>2. v <= i /\ i < v + L
    BY <2>1a
  <2>. QED
    BY <1>1, <2>1, <2>2
<1>3. PICK first \in Int, end \in Int :
              /\ first = MonthStart[FirstMonth] /\ end = MonthStart[LastMonth + 1]
              /\ Days = first .. (end - 1)
  <2>1. FirstMonth \in FirstMonth .. (LastMonth + 1) /\ LastMonth + 1 \in FirstMonth .. (LastMonth + 1)
    BY MonthsAreNumbers
  <2>. QED
    BY <2>1, MonthStartNext DEF Days
<1>4. CASE ~isPrev
  <2>1. ASSUME y # b PROVE FALSE
    <3>1. PICK p \in Int, q \in Int, r \in Int, z \in Int :
             p = m + 1 /\ q = m + 2 /\ r = m + 3 /\ z = m + 4
      OBVIOUS
    <3>2. p \in Months /\ q \in Months /\ r \in Months /\ z <= LastMonth + 1
          /\ p + 1 = q /\ q + 1 = r /\ r + 1 = z
      BY <1>1, <2>1, <3>1 DEF Months
    <3>3. PICK P \in Int, Q \in Int, R \in Int, Z \in Int :
             /\ P = MonthStart[p] /\ Q = MonthStart[q] /\ R = MonthStart[r] /\ Z = MonthStart[z]
             /\ P + 28 <= Q /\ Q + 28 <= R /\ R + 28 <= Z
      <4>1. PICK A \in 28..31 :
               /\ MonthStart[p] \in Int /\ MonthStart[q] \in Int
               /\ MonthStart[q] = MonthStart[p] + A
        BY <3>2, MonthStartNext
      <4>2. PICK B \in 28..31 :
               /\ MonthStart[q] \in Int /\ MonthStart[r] \in Int
               /\ MonthStart[r] = MonthStart[q] + B
        BY <3>2, MonthStartNext
      <4>3. PICK C \in 28..31 :
               /\ MonthStart[r] \in Int /\ MonthStart[z] \in Int
               /\ MonthStart[z] = MonthStart[r] + C
        BY <3>2, MonthStartNext
      <4>4. PICK P \in Int, Q \in Int, R \in Int, Z \in Int :
               /\ P = MonthStart[p] /\ Q = MonthStart[q] /\ R = MonthStart[r] /\ Z = MonthStart[z]
               /\ Q = P + A /\ R = Q + B /\ Z = R + C
        BY <4>1, <4>2, <4>3
      <4>5. P + 28 <= Q /\ Q + 28 <= R /\ R + 28 <= Z
        BY <4>4
      <4>. QED
        BY <1>2, <4>4, <4>5
    <3>4. P = v + L
      BY <1>2, <3>1, <3>3
    <3>5. Z <= end
      <4>1. z = LastMonth + 1 \/ z < LastMonth + 1
        BY <1>1, <3>1, <3>2
      <4>2. z \in FirstMonth .. (LastMonth + 1) /\ LastMonth + 1 \in FirstMonth .. (LastMonth + 1)
        BY <1>1, <3>1, <3>2
      <4>3. z < LastMonth + 1 => MonthStart[z] < MonthStart[LastMonth + 1]
        BY <4>2, MonthsOrdered
      <4>. QED
        BY <1>3, <3>3, <4>1, <4>3
    <3>6. first <= i
      BY <1>2, <1>3
    <3>7. i <= t /\ t <= i + 62
      BY <1>2, <1>4
    <3>8. first <= t /\ t <= end - 1
      BY <1>2, <3>3, <3>4, <3>5, <3>6, <3>7
    <3>. QED
      BY <1>3, <3>8
  <2>. QED
    BY <1>1, <1>4, <2>1 DEF AtEdge
<1>5. CASE isPrev
  <2>1. ASSUME y # a PROVE FALSE
    <3>1. PICK p \in Int, q \in Int, r \in Int :
             p = m - 3 /\ q = m - 2 /\ r = m - 1
      OBVIOUS
    <3>2. p \in Months /\ q \in Months /\ r \in Months /\ FirstMonth <= p
          /\ p + 1 = q /\ q + 1 = r /\ r + 1 = m
      BY <1>1, <2>1, <3>1 DEF Months
    <3>3. PICK P \in Int, Q \in Int, R \in Int :
             /\ P = MonthStart[p] /\ Q = MonthStart[q] /\ R = MonthStart[r]
             /\ P + 28 <= Q /\ Q + 28 <= R /\ R + 28 <= v
      <4>1. PICK A \in 28..31 :
               /\ MonthStart[p] \in Int /\ MonthStart[q] \in Int
               /\ MonthStart[q] = MonthStart[p] + A
        BY <3>2, MonthStartNext
      <4>2. PICK B \in 28..31 :
               /\ MonthStart[q] \in Int /\ MonthStart[r] \in Int
               /\ MonthStart[r] = MonthStart[q] + B
        BY <3>2, MonthStartNext
      <4>3. PICK C \in 28..31 :
               /\ MonthStart[r] \in Int /\ MonthStart[m] \in Int
               /\ MonthStart[m] = MonthStart[r] + C
        BY <3>2, MonthStartNext
      <4>4. PICK P \in Int, Q \in Int, R \in Int, Z \in Int :
               /\ P = MonthStart[p] /\ Q = MonthStart[q] /\ R = MonthStart[r] /\ Z = MonthStart[m]
               /\ Q = P + A /\ R = Q + B /\ Z = R + C
        BY <4>1, <4>2, <4>3
      <4>5. P + 28 <= Q /\ Q + 28 <= R /\ R + 28 <= Z
        BY <4>4
      <4>. QED
        BY <1>2, <4>4, <4>5
    <3>5. first <= P
      <4>1. p = FirstMonth \/ FirstMonth < p
        BY <1>1, <3>1, <3>2
      <4>2. p \in FirstMonth .. (LastMonth + 1) /\ FirstMonth \in FirstMonth .. (LastMonth + 1)
        BY <3>2, MonthStartNext, MonthsAreNumbers
      <4>3. FirstMonth < p => MonthStart[FirstMonth] < MonthStart[p]
        BY <4>2, MonthsOrdered
      <4>. QED
        BY <1>3, <3>3, <4>1, <4>3
    <3>6. i <= end - 1
      BY <1>2, <1>3
    <3>7. i - 62 <= t /\ t <= i
      BY <1>2, <1>5
    <3>8. first <= t /\ t <= end - 1
      BY <1>2, <3>3, <3>5, <3>6, <3>7
    <3>. QED
      BY <1>3, <3>8
  <2>. QED
    BY <1>1, <1>5, <2>1 DEF AtEdge
<1>. QED
  BY <1>4, <1>5

\* A field that goes round moves to its first value of the next round at the
\* furthest, or its last value of the one before.
LEMMA RoundShort ==
    ASSUME NEW N \in {7, 12, 24, 60}, NEW o \in {0, 1}, NEW x \in o .. (N - 1 + o),
           NEW f, f.nums \in SUBSET (o .. (N - 1 + o)), f.nums # {},
           isPrev \in BOOLEAN
    PROVE  \E k \in Nat :
              /\ NearestDiff(x, f, N) = IF isPrev THEN -k ELSE k
              /\ IF isPrev THEN o - N <= x - k ELSE x + k <= N + N - 1 + o
<1>1. /\ N \in Nat /\ x \in Nat /\ x \in 0..N /\ f.nums \in SUBSET Nat
  <2>1. N \in Nat /\ x \in Int /\ 0 <= x /\ x <= N
    OBVIOUS
  <2>2. \A n \in o .. (N - 1 + o) : n \in Nat
    OBVIOUS
  <2>. QED
    BY <2>1, <2>2
<1>2. PICK y \in o .. (N - 1 + o) : y \in f.nums
  OBVIOUS
<1>3. CASE ~isPrev
  <2>1. PICK k \in Nat :
           /\ NextDiff(x, f, N) = k
           /\ \A n \in f.nums : x + k <= N + n
    BY <1>1, NextGap
  <2>2. x + k <= N + y
    BY <1>2, <2>1
  <2>3. x + k <= N + N - 1 + o
    BY <1>1, <2>2
  <2>. QED
    BY <1>3, <2>1, <2>3 DEF NearestDiff
<1>4. CASE isPrev
  <2>1. PICK k \in Nat :
           /\ PrevDiff(x, f, N) = -k
           /\ \A n \in f.nums : N < n \/ n <= x - k + N
    BY <1>1, PrevGap
  <2>2. N < y \/ y <= x - k + N
    BY <1>2, <2>1
  <2>3. o - N <= x - k
    BY <1>1, <2>2
  <2>. QED
    BY <1>4, <2>1, <2>3 DEF NearestDiff
<1>. QED
  BY <1>3, <1>4

\* The same for the fields as they are.
LEMMA MonthShort ==
    ASSUME NEW x \in 1..12, NEW f, f.nums \in SUBSET (1..12), f.nums # {}, isPrev \in BOOLEAN
    PROVE  \E k \in Nat :
              /\ NearestDiff(x, f, 12) = IF isPrev THEN -k ELSE k
              /\ IF isPrev THEN -11 <= x - k ELSE x + k <= 24
<1>1. 1 .. (12 - 1 + 1) = 1..12
  OBVIOUS
<1>2. PICK k \in Nat :
              /\ NearestDiff(x, f, 12) = IF isPrev THEN -k ELSE k
              /\ IF isPrev THEN 1 - 12 <= x - k ELSE x + k <= 12 + 12 - 1 + 1
  BY <1>1, RoundShort
<1>. QED
  BY <1>2

\* A weekday is at most two weeks away.
LEMMA WeekdayShort ==
    ASSUME NEW x \in 0..6, NEW f, f.nums \in SUBSET (0..6), f.nums # {}, isPrev \in BOOLEAN
    PROVE  \E k \in Nat :
              /\ NearestDiff(x, f, 7) = IF isPrev THEN -k ELSE k
              /\ k <= 14
<1>1. 0 .. (7 - 1 + 0) = 0..6
  OBVIOUS
<1>2. PICK k \in Nat :
              /\ NearestDiff(x, f, 7) = IF isPrev THEN -k ELSE k
              /\ IF isPrev THEN 0 - 7 <= x - k ELSE x + k <= 7 + 7 - 1 + 0
  BY <1>1, RoundShort
<1>3. k <= 14
  BY <1>2
<1>. QED
  BY <1>2, <1>3

\* An hour is at most two days away.
LEMMA HourShort ==
    ASSUME NEW x \in 0..23, NEW f, f.nums \in SUBSET (0..23), f.nums # {}, isPrev \in BOOLEAN
    PROVE  \E k \in Nat :
              /\ NearestDiff(x, f, 24) = IF isPrev THEN -k ELSE k
              /\ k <= 48
<1>1. 0 .. (24 - 1 + 0) = 0..23
  OBVIOUS
<1>2. PICK k \in Nat :
              /\ NearestDiff(x, f, 24) = IF isPrev THEN -k ELSE k
              /\ IF isPrev THEN 0 - 24 <= x - k ELSE x + k <= 24 + 24 - 1 + 0
  BY <1>1, RoundShort
<1>3. k <= 48
  BY <1>2
<1>. QED
  BY <1>2, <1>3

\* A minute or a second is at most two rounds away.
LEMMA MinuteShort ==
    ASSUME NEW x \in 0..59, NEW f, f.nums \in SUBSET (0..59), f.nums # {}, isPrev \in BOOLEAN
    PROVE  \E k \in Nat :
              /\ NearestDiff(x, f, 60) = IF isPrev THEN -k ELSE k
              /\ k <= 120
<1>1. 0 .. (60 - 1 + 0) = 0..59
  OBVIOUS
<1>2. PICK k \in Nat :
              /\ NearestDiff(x, f, 60) = IF isPrev THEN -k ELSE k
              /\ IF isPrev THEN 0 - 60 <= x - k ELSE x + k <= 60 + 60 - 1 + 0
  BY <1>1, RoundShort
<1>3. k <= 120
  BY <1>2
<1>. QED
  BY <1>2, <1>3

\* A move to a day off the calendar, two months away at most, is one from
\* the edge.
LEMMA DayMoveEdge ==
    ASSUME Searching, NEW t \in Int, MoveTo(EdgeOfDay(t)),
           outcome' = "bad_type_range",
           IF isPrev THEN cur.day - 62 <= t /\ t <= cur.day
                     ELSE cur.day <= t /\ t <= cur.day + 62
    PROVE  AtEdge
<1>1. cur.day \in Days /\ isPrev \in BOOLEAN
  BY SearchingParts
<1>2. EdgeOfDay(t).day = t
  BY DEF EdgeOfDay
<1>3. t \notin Days
  BY <1>2 DEF Searching, MoveTo
<1>. QED
  BY <1>1, <1>3, ShortMove

\* The same for a move of the clock fields.
LEMMA ClockMoveEdge ==
    ASSUME Searching, NEW c \in Moments, MoveTo(c), outcome' = "bad_type_range",
           IF isPrev THEN cur.day - 62 <= c.day /\ c.day <= cur.day
                     ELSE cur.day <= c.day /\ c.day <= cur.day + 62
    PROVE  AtEdge
<1>1. cur.day \in Days /\ isPrev \in BOOLEAN
  BY SearchingParts
<1>2. PICK t \in Int : t = c.day
  BY StampIsInt
<1>3. t \notin Days
  BY <1>2 DEF Searching, MoveTo
<1>. QED
  BY <1>1, <1>2, <1>3, ShortMove

\* A move to a month of the calendar does not fail.
LEMMA MonthMoveStays ==
    ASSUME Searching, NEW m \in Months, MoveToMonth(m)
    PROVE  outcome' = "searching"
<1>1. isPrev \in BOOLEAN
  BY SearchingParts
<1>2. PICK v \in Int, L \in 28..31, a \in Int, b \in Int :
         /\ v = MonthStart[m] /\ MonthStart[m + 1] = v + L
         /\ a = MonthStart[FirstMonth] /\ b = MonthStart[LastMonth + 1]
         /\ a <= v /\ v + L <= b
  <2>1. /\ m \in Int /\ FirstMonth \in Int /\ LastMonth \in Int
        /\ FirstMonth <= m /\ m <= LastMonth
        /\ FirstMonth \in FirstMonth .. (LastMonth + 1)
        /\ LastMonth + 1 \in FirstMonth .. (LastMonth + 1)
    BY MonthsAreNumbers
  <2>2. PICK v \in Int, L \in 28..31, w \in Int :
           /\ v = MonthStart[m] /\ w = MonthStart[m + 1] /\ w = v + L
           /\ m \in FirstMonth .. (LastMonth + 1)
           /\ m + 1 \in FirstMonth .. (LastMonth + 1)
    BY MonthStartNext
  <2>3. PICK a \in Int, b \in Int :
           a = MonthStart[FirstMonth] /\ b = MonthStart[LastMonth + 1]
    BY <2>1, MonthStartNext
  <2>4. a <= v
    <3>1. FirstMonth = m \/ FirstMonth < m
      BY <2>1
    <3>2. FirstMonth < m => MonthStart[FirstMonth] < MonthStart[m]
      BY <2>1, <2>2, MonthsOrdered
    <3>. QED
      BY <2>2, <2>3, <3>1, <3>2
  <2>5. w <= b
    <3>1. PICK p \in Int, e \in Int : p = m + 1 /\ e = LastMonth + 1 /\ p <= e
      BY <2>1
    <3>2. p \in FirstMonth .. (LastMonth + 1) /\ e \in FirstMonth .. (LastMonth + 1)
          /\ w = MonthStart[p] /\ b = MonthStart[e]
      BY <2>1, <2>2, <2>3, <3>1
    <3>3. p < e => MonthStart[p] < MonthStart[e]
      BY <3>2, MonthsOrdered
    <3>4. p = e \/ p < e
      BY <3>1
    <3>. QED
      BY <3>2, <3>3, <3>4
  <2>. QED
    BY <2>2, <2>3, <2>4, <2>5
<1>3. PICK t : t = IF isPrev THEN MonthStart[m + 1] - 1 ELSE MonthStart[m]
  OBVIOUS
<1>4. MoveTo(EdgeOfDay(t))
  BY <1>3, Zenon DEF MoveToMonth
<1>5. t \in Days
  <2>1. Days = a .. (b - 1)
    BY <1>2 DEF Days
  <2>2. v \in a .. (b - 1) /\ v + L - 1 \in a .. (b - 1)
    <3>1. a <= v /\ v + L <= b
      BY <1>2
    <3>. QED
      BY <3>1
  <2>3. t = IF isPrev THEN v + L - 1 ELSE v
    BY <1>2, <1>3
  <2>. QED
    BY <2>1, <2>2, <2>3
<1>6. EdgeOfDay(t).day = t
  BY DEF EdgeOfDay
<1>. QED
  BY <1>4, <1>5, <1>6 DEF MoveTo, Searching

\* proc_year never leaves the calendar: the years listed are on it.
LEMMA YearEdge ==
    ASSUME Searching, ProcYear
    PROVE  outcome' = "searching"
<1>1. /\ expr \in Exprs /\ cur.day \in Days /\ isPrev \in BOOLEAN
  BY SearchingParts
<1>2. /\ ~expr.year.star /\ YearsAhead # {}
      /\ YearDiff = Nearest(YearsAhead) - YearOf(cur.day)
      /\ MoveToMonth(MonthIndex(YearOf(cur.day) + YearDiff, IF isPrev THEN 12 ELSE 1))
  BY DEF ProcYear, YearLeft, YearDiff
<1>3. PICK y \in Int : y = YearOf(cur.day)
  BY <1>1, YearIsInt
<1>4. \E b \in Nat : \A n \in expr.year.nums : n \in Nat /\ n <= b
  BY <1>1, YearsBounded
<1>5. PICK z \in Int : z = Nearest(YearsAhead) /\ z \in expr.year.nums
  <2>1. YearsAhead = Ahead(y, expr.year.nums) /\ Ahead(y, expr.year.nums) # {}
    BY <1>2, <1>3 DEF YearsAhead
  <2>. QED
    BY <1>1, <1>3, <1>4, <2>1, NearestAhead
<1>6. YearOf(cur.day) + YearDiff = z
  BY <1>2, <1>3, <1>5
<1>7. PICK a \in Int, b \in Int : a = FirstYear /\ b = LastYear /\ a <= z /\ z <= b
  <2>1. z \in FirstYear .. LastYear
    BY <1>1, <1>5, YearsAssumption
  <2>. QED
    BY <2>1, CalendarAssumption
<1>8. PICK k \in Int : k = 12 * z + (IF isPrev THEN 11 ELSE 0) /\ 12 * z <= k /\ k <= 12 * z + 11
  <2>1. 12 * z + 11 \in Int /\ 12 * z + 0 \in Int
    OBVIOUS
  <2>. QED
    BY <1>1, <2>1
<1>9. MonthIndex(z, IF isPrev THEN 12 ELSE 1) = k
  BY <1>1, <1>8 DEF MonthIndex
<1>10. k \in Months
  <2>1. FirstMonth = 12 * a /\ LastMonth = 12 * b + 11
    BY <1>7 DEF FirstMonth, LastMonth, MonthIndex
  <2>2. 12 * a <= k /\ k <= 12 * b + 11
    BY <1>7, <1>8
  <2>. QED
    BY <2>1, <2>2 DEF Months
<1>. QED
  BY <1>2, <1>6, <1>9, <1>10, MonthMoveStays

\* proc_month stays within the year after the cursor's, or before.
LEMMA MonthEdge ==
    ASSUME Searching, ProcMonth, outcome' = "bad_type_range"
    PROVE  AtEdge
<1>1. /\ expr \in Exprs /\ cur.day \in Days /\ isPrev \in BOOLEAN
  BY SearchingParts
<1>2. PICK y \in Int, m \in Int, a \in Int, b \in Int :
              /\ y = YearOf(cur.day) /\ m = MonthOf[cur.day] /\ m \in Months
              /\ 12 * y <= m /\ m < 12 * y + 12
              /\ a <= y /\ y <= b /\ a = FirstYear /\ b = LastYear
              /\ FirstMonth = 12 * a /\ LastMonth = 12 * b + 11
  BY <1>1, YearMonths, CalendarAssumption
<1>3. PICK x \in 1..12 : x = MonthNumber(month) /\ m = month /\ m = 12 * y + x - 1
  <2>1. PICK q \in Int, x \in 1..12 : q = m \div 12 /\ x = (m % 12) + 1 /\ m = 12 * q + x - 1
    <3>1. m \div 12 \in Int /\ (m % 12) + 1 \in 1..12
          /\ m = 12 * (m \div 12) + ((m % 12) + 1) - 1
      OBVIOUS
    <3>. QED
      BY <3>1
  <2>2. m = 12 * q + x - 1 /\ 12 * y <= m /\ m < 12 * y + 12
    BY <1>2, <2>1
  <2>3. q = y
    BY <2>2
  <2>4. month = m /\ MonthNumber(month) = x
    BY <1>2, <2>1 DEF month, MonthNumber
  <2>. QED
    BY <2>2, <2>3, <2>4
<1>4. /\ ~expr.month.star
      /\ MonthDiff = NearestDiff(x, expr.month, 12)
      /\ MoveToMonth(m + MonthDiff)
  BY <1>3 DEF ProcMonth, MonthDiff
<1>5. expr.month.nums \in SUBSET (1..12) /\ expr.month.nums # {}
  BY <1>1, <1>4, ExprFields, PlainFields
<1>6. PICK k \in Nat :
              /\ MonthDiff = IF isPrev THEN -k ELSE k
              /\ IF isPrev THEN -11 <= x - k ELSE x + k <= 24
  BY <1>1, <1>4, <1>5, MonthShort
<1>7. PICK t \in Int : t = m + MonthDiff /\ t = IF isPrev THEN m - k ELSE m + k
  <2>1. m + k \in Int /\ m - k \in Int /\ m + (-k) = m - k
    OBVIOUS
  <2>. QED
    BY <1>1, <1>6, <2>1
<1>8. t \notin Months
  BY <1>4, <1>7, MonthMoveStays
<1>9. CASE ~isPrev
  <2>1. ASSUME y # b PROVE FALSE
    <3>1. t = m + k /\ x + k <= 24
      BY <1>6, <1>7, <1>9
    <3>2. a <= y /\ y <= b /\ m = 12 * y + x - 1
      BY <1>2, <1>3
    <3>3. 12 * a <= t /\ t <= 12 * b + 11
      BY <2>1, <3>1, <3>2
    <3>. QED
      BY <1>2, <1>8, <3>3 DEF Months
  <2>. QED
    BY <1>2, <1>9, <2>1 DEF AtEdge
<1>10. CASE isPrev
  <2>1. ASSUME y # a PROVE FALSE
    <3>1. t = m - k /\ -11 <= x - k
      BY <1>6, <1>7, <1>10
    <3>2. a <= y /\ y <= b /\ m = 12 * y + x - 1
      BY <1>2, <1>3
    <3>3. 12 * a <= t /\ t <= 12 * b + 11
      BY <2>1, <3>1, <3>2
    <3>. QED
      BY <1>2, <1>8, <3>3 DEF Months
  <2>. QED
    BY <1>2, <1>10, <2>1 DEF AtEdge
<1>. QED
  BY <1>1, <1>9, <1>10

\* proc_day_of_month and its blocks for W, weekday#n and weekdays stay within
\* two months of the cursor.
LEMMA OfferedEdge ==
    ASSUME Searching, NEW offered,
           \A d \in offered : d \in 1 .. MonthLength(month),
           MoveByDays(DayDiffTo(offered)), outcome' = "bad_type_range"
    PROVE  AtEdge
<1>1. /\ cur.day \in Days /\ isPrev \in BOOLEAN
  BY SearchingParts
<1>2. PICK i \in Int, x \in 1..31, L \in 28..31 :
              i = cur.day /\ x = dom /\ L = MonthLength(month) /\ x <= L
  BY <1>1, DayParts DEF dom, month
<1>2a. 1 <= x /\ x <= L /\ L <= 31
  BY <1>2
<1>3. \A d \in offered : d \in Nat /\ 1 <= d /\ d <= L
  <2>1. \A d \in 1..L : d \in Nat /\ 1 <= d /\ d <= L
    OBVIOUS
  <2>. QED
    BY <1>2, <2>1
<1>4. PICK k \in Int :
         /\ k = DayDiffTo(offered)
         /\ IF isPrev THEN -62 <= k /\ k <= 0 ELSE 0 <= k /\ k <= 62
  <2>1. CASE Ahead(x, offered) # {}
    <3>1. PICK z \in Int :
             /\ z = Nearest(Ahead(x, offered)) /\ z \in offered
             /\ IF isPrev THEN z <= x ELSE x <= z
      <4>1. L \in Nat /\ x \in Int
        OBVIOUS
      <4>. QED
        BY <1>1, <1>3, <2>1, <4>1, NearestAhead
    <3>2. z - x = DayDiffTo(offered) /\ 1 <= z /\ z <= L
      BY <1>2, <1>3, <2>1, <3>1 DEF DayDiffTo
    <3>3. PICK k \in Int : k = z - x
      OBVIOUS
    <3>4. IF isPrev THEN -62 <= k /\ k <= 0 ELSE 0 <= k /\ k <= 62
      BY <1>2a, <3>1, <3>2, <3>3
    <3>. QED
      BY <3>2, <3>3, <3>4
  <2>2. CASE Ahead(x, offered) = {}
    <3>1. DayDiffTo(offered) = IF isPrev THEN -x ELSE L - x + 1
      BY <1>2, <2>2 DEF DayDiffTo
    <3>2. -x \in Int /\ -62 <= -x /\ -x <= 0 /\ L - x + 1 \in Int /\ 0 <= L - x + 1 /\ L - x + 1 <= 62
      BY <1>2a
    <3>. QED
      BY <3>1, <3>2
  <2>. QED
    BY <2>1, <2>2
<1>5. PICK t \in Int : t = i + k
  OBVIOUS
<1>6. MoveTo(EdgeOfDay(t))
  BY <1>2, <1>4, <1>5 DEF MoveByDays
<1>7. IF isPrev THEN i - 62 <= t /\ t <= i ELSE i <= t /\ t <= i + 62
  BY <1>4, <1>5
<1>. QED
  BY <1>2, <1>6, <1>7, DayMoveEdge

\* proc_day_of_month_nearest_weekday.
LEMMA NearestWeekdayEdge ==
    ASSUME Searching, ProcNearestWeekday, outcome' = "bad_type_range"
    PROVE  AtEdge
<1>. DEFINE offered == {NearestWeekday(month, d) : d \in expr.w}
<1>1. /\ expr \in Exprs /\ cur.day \in Days
  BY SearchingParts
<1>2. MoveByDays(DayDiffTo(offered))
  BY DEF ProcNearestWeekday, NearestWeekdayDiff
<1>3. (\A d \in expr.w : d \in 1..31) /\ month \in Months
  BY <1>1, ExprFields, DayFields DEF month
<1>4. \A d \in offered : d \in 1 .. MonthLength(month)
  BY <1>3, NearestWeekdayRange
<1>. HIDE DEF offered
<1>. QED
  BY <1>2, <1>4, OfferedEdge

\* proc_day_of_week_nth.
LEMMA NthEdge ==
    ASSUME Searching, ProcDayOfWeekNth, outcome' = "bad_type_range"
    PROVE  AtEdge
<1>. DEFINE offered == UNION {NthOf(WeekdaysOf(month, p[1]), p[2]) : p \in expr.nth}
<1>1. MoveByDays(DayDiffTo(offered))
  BY DEF ProcDayOfWeekNth, NthDiff
<1>2. \A d \in offered : d \in 1 .. MonthLength(month)
  BY DEF NthOf, WeekdaysOf
<1>. HIDE DEF offered
<1>. QED
  BY <1>1, <1>2, OfferedEdge

\* proc_day_of_month.
LEMMA DayOfMonthEdge ==
    ASSUME Searching, ProcDayOfMonth, outcome' = "bad_type_range"
    PROVE  AtEdge
<1>1. /\ expr \in Exprs /\ cur.day \in Days /\ isPrev \in BOOLEAN
  BY SearchingParts
<1>2. PICK i \in Int, x \in 1..31, L \in 28..31 :
              i = cur.day /\ x = dom /\ L = MonthLength(month) /\ x <= L
  BY <1>1, DayParts DEF dom, month
<1>3. PICK P \in 28..31 : P = MonthLength(month - 1)
  <2>1. month \in Int
    BY <1>1, DayFields, MonthsAreNumbers DEF month
  <2>. QED
    BY <2>1, MonthLengthRange
<1>4. /\ ~expr.day.star
      /\ DayOfMonthDiff = NearestDiff(x, expr.day, IF isPrev THEN P ELSE L)
      /\ MoveByDays(DayOfMonthDiff)
  BY <1>2, <1>3 DEF ProcDayOfMonth, DayOfMonthDiff
<1>5. /\ \A n \in expr.day.nums : n \in 1..31
      /\ expr.day.nums \in SUBSET Nat
      /\ expr.day.last \/ expr.day.nums # {}
  <2>1. expr.day.nums \in SUBSET (1..31) /\ (expr.day.last \/ expr.day.nums # {})
    BY <1>1, <1>4, ExprFields, PlainFields
  <2>2. \A n \in 1..31 : n \in Nat
    OBVIOUS
  <2>. QED
    BY <2>1, <2>2
<1>6. x \in Nat /\ P \in Nat /\ L \in Nat /\ x \in 0..L /\ x <= 31 /\ P <= 31 /\ L <= 31
  BY <1>2
<1>7. PICK k \in Nat : k <= 62 /\ DayOfMonthDiff = IF isPrev THEN -k ELSE k
  <2>1. CASE isPrev
    <3>1. PICK k \in Nat : PrevDiff(x, expr.day, P) = -k /\ k <= x + P
      BY <1>5, <1>6, PrevGap
    <3>2. k <= 62
      BY <1>6, <3>1
    <3>. QED
      BY <1>4, <2>1, <3>1, <3>2 DEF NearestDiff
  <2>2. CASE ~isPrev
    <3>1. PICK k \in Nat :
             /\ NextDiff(x, expr.day, L) = k
             /\ expr.day.last => x + k <= L
             /\ \A n \in expr.day.nums : x + k <= L + n
      BY <1>5, <1>6, NextGap
    <3>2. k <= 62
      <4>1. CASE expr.day.last
        BY <1>6, <3>1, <4>1
      <4>2. CASE expr.day.nums # {}
        <5>1. PICK n \in 1..31 : n \in expr.day.nums
          BY <1>5, <4>2
        <5>2. x + k <= L + n
          BY <3>1, <5>1
        <5>. QED
          BY <1>6, <5>2
      <4>. QED
        BY <1>5, <4>1, <4>2
    <3>. QED
      BY <1>4, <2>2, <3>1, <3>2 DEF NearestDiff
  <2>. QED
    BY <1>1, <2>1, <2>2
<1>8. PICK t \in Int : t = IF isPrev THEN i - k ELSE i + k
  <2>1. i - k \in Int /\ i + k \in Int
    OBVIOUS
  <2>. QED
    BY <1>1, <2>1
<1>9. MoveTo(EdgeOfDay(t))
  <2>1. i + (-k) = i - k
    OBVIOUS
  <2>2. cur.day + DayOfMonthDiff = t
    BY <1>1, <1>2, <1>7, <1>8, <2>1
  <2>. QED
    BY <1>4, <2>2 DEF MoveByDays
<1>10. IF isPrev THEN i - 62 <= t /\ t <= i ELSE i <= t /\ t <= i + 62
  BY <1>7, <1>8
<1>. QED
  BY <1>2, <1>9, <1>10, DayMoveEdge

\* proc_day_of_week.
LEMMA DayOfWeekEdge ==
    ASSUME Searching, ProcDayOfWeek, outcome' = "bad_type_range"
    PROVE  AtEdge
<1>1. /\ expr \in Exprs /\ cur.day \in Days /\ isPrev \in BOOLEAN
  BY SearchingParts
<1>2. PICK i \in Int, x \in 0..6 : i = cur.day /\ x = DowOf(cur.day)
  BY <1>1, DayFields
<1>3. /\ ~expr.dow.star
      /\ DayOfWeekDiff = NearestDiff(x, expr.dow, 7)
      /\ MoveByDays(DayOfWeekDiff)
  BY <1>2 DEF ProcDayOfWeek, DayOfWeekDiff
<1>4. expr.dow.nums \in SUBSET (0..6) /\ expr.dow.nums # {}
  BY <1>1, <1>3, ExprFields, PlainFields
<1>5. PICK k \in Nat : k <= 14 /\ DayOfWeekDiff = IF isPrev THEN -k ELSE k
  BY <1>1, <1>3, <1>4, WeekdayShort
<1>6. PICK t \in Int : t = IF isPrev THEN i - k ELSE i + k
  <2>1. i - k \in Int /\ i + k \in Int
    OBVIOUS
  <2>. QED
    BY <1>1, <2>1
<1>7. MoveTo(EdgeOfDay(t))
  <2>1. i + (-k) = i - k
    OBVIOUS
  <2>2. cur.day + DayOfWeekDiff = t
    BY <1>1, <1>2, <1>5, <1>6, <2>1
  <2>. QED
    BY <1>3, <2>2 DEF MoveByDays
<1>8. IF isPrev THEN i - 62 <= t /\ t <= i ELSE i <= t /\ t <= i + 62
  BY <1>5, <1>6
<1>. QED
  BY <1>2, <1>7, <1>8, DayMoveEdge

\* Two moments two rounds of a clock field apart are days apart at most.
LEMMA StampsNear ==
    ASSUME NEW a \in Moments, NEW b \in Moments
    PROVE  /\ HourStamp(a) <= HourStamp(b) /\ HourStamp(b) <= HourStamp(a) + 48
                 => a.day <= b.day /\ b.day <= a.day + 3
           /\ MinuteStamp(a) <= MinuteStamp(b) /\ MinuteStamp(b) <= MinuteStamp(a) + 120
                 => HourStamp(a) <= HourStamp(b) /\ HourStamp(b) <= HourStamp(a) + 48
           /\ Stamp(a) <= Stamp(b) /\ Stamp(b) <= Stamp(a) + 120
                 => MinuteStamp(a) <= MinuteStamp(b) /\ MinuteStamp(b) <= MinuteStamp(a) + 120
<1>1. PICK d \in Int, h \in 0..23, mi \in 0..59, s \in 0..59 :
              d = a.day /\ h = a.h /\ mi = a.mi /\ s = a.s
  BY StampIsInt
<1>2. PICK e \in Int, g \in 0..23, ni \in 0..59, z \in 0..59 :
              e = b.day /\ g = b.h /\ ni = b.mi /\ z = b.s
  BY StampIsInt
<1>3. PICK x \in Int, y \in Int : x = HourStamp(a) /\ y = HourStamp(b)
                                  /\ x = 24 * d + h /\ y = 24 * e + g
  BY <1>1, <1>2 DEF HourStamp
<1>4. PICK u \in Int, v \in Int : u = MinuteStamp(a) /\ v = MinuteStamp(b)
                                  /\ u = 60 * x + mi /\ v = 60 * y + ni
  BY <1>1, <1>2, <1>3 DEF MinuteStamp
<1>5. PICK p \in Int, q \in Int : p = Stamp(a) /\ q = Stamp(b)
                                  /\ p = 60 * u + s /\ q = 60 * v + z
  BY <1>1, <1>2, <1>4 DEF Stamp
<1>6. x <= y /\ y <= x + 48 => d <= e /\ e <= d + 3
  BY <1>3
<1>7. u <= v /\ v <= u + 120 => x <= y /\ y <= x + 48
  BY <1>4
<1>8. p <= q /\ q <= p + 120 => u <= v /\ v <= u + 120
  BY <1>5
<1>. QED
  BY <1>1, <1>2, <1>3, <1>4, <1>5, <1>6, <1>7, <1>8

\* The two ends of a move of a clock field: hours, minutes or seconds.
LEMMA ClockDays ==
    ASSUME NEW b \in Moments, NEW c \in Moments, NEW k \in Nat, isPrev \in BOOLEAN,
           NEW D, D = (IF isPrev THEN -k ELSE k),
           \/ k <= 48 /\ HourStamp(c) = HourStamp(b) + D
           \/ k <= 120 /\ MinuteStamp(c) = MinuteStamp(b) + D
           \/ k <= 120 /\ Stamp(c) = Stamp(b) + D
    PROVE  IF isPrev THEN b.day - 62 <= c.day /\ c.day <= b.day
                     ELSE b.day <= c.day /\ c.day <= b.day + 62
<1>1. PICK d \in Int, e \in Int : d = b.day /\ e = c.day
  BY StampIsInt
<1>2. PICK x \in Int, y \in Int, u \in Int, v \in Int, p \in Int, q \in Int :
         /\ x = HourStamp(b) /\ y = HourStamp(c)
         /\ u = MinuteStamp(b) /\ v = MinuteStamp(c)
         /\ p = Stamp(b) /\ q = Stamp(c)
  BY StampIsInt
<1>3. CASE isPrev
  <2>1. \/ y <= x /\ x <= y + 48
        \/ v <= u /\ u <= v + 120
        \/ q <= p /\ p <= q + 120
    BY <1>2, <1>3
  <2>2. e <= d /\ d <= e + 3
    BY <1>1, <1>2, <2>1, StampsNear
  <2>3. d - 62 <= e /\ e <= d
    BY <2>2
  <2>. QED
    BY <1>1, <1>3, <2>3
<1>4. CASE ~isPrev
  <2>1. \/ x <= y /\ y <= x + 48
        \/ u <= v /\ v <= u + 120
        \/ p <= q /\ q <= p + 120
    BY <1>2, <1>4
  <2>2. d <= e /\ e <= d + 3
    BY <1>1, <1>2, <2>1, StampsNear
  <2>3. d <= e /\ e <= d + 62
    BY <2>2
  <2>. QED
    BY <1>1, <1>4, <2>3
<1>. QED
  BY <1>3, <1>4

\* proc_hour, proc_minute and proc_second stay within days of the cursor.
LEMMA HourEdge ==
    ASSUME Searching, ProcHour, outcome' = "bad_type_range"
    PROVE  AtEdge
<1>1. /\ expr \in Exprs /\ cur \in Moments /\ isPrev \in BOOLEAN
  BY SearchingParts
<1>2. PICK b : b = [cur EXCEPT !.mi = Edge, !.s = Edge]
  OBVIOUS
<1>3. /\ ~expr.hour.star
      /\ HourDiff = NearestDiff(cur.h, expr.hour, 24)
      /\ MoveTo(AddHours(b, HourDiff))
  BY <1>2, Zenon DEF ProcHour, HourDiff
<1>4. b \in Moments /\ b.day = cur.day
  <2>1. PICK d \in Int, h \in 0..23, mi \in 0..59, s \in 0..59 :
              cur = [day |-> d, h |-> h, mi |-> mi, s |-> s]
    BY <1>1, MomentParts
  <2>2. PICK z \in 0..59 : z = Edge
    BY DEF Edge
  <2>3. b = [day |-> d, h |-> h, mi |-> z, s |-> z]
    BY <1>2, <2>1, <2>2
  <2>. QED
    BY <2>1, <2>2, <2>3 DEF Moments
<1>5. expr.hour.nums \in SUBSET (0..23) /\ expr.hour.nums # {} /\ cur.h \in 0..23
  BY <1>1, <1>3, ExprFields, PlainFields, StampIsInt
<1>6. PICK k \in Nat : HourDiff = (IF isPrev THEN -k ELSE k) /\ k <= 48
  <2>1. PICK x \in 0..23 : x = cur.h
    BY <1>5
  <2>. QED
    BY <1>1, <1>3, <1>5, <2>1, HourShort
<1>7. PICK D \in Int : D = HourDiff /\ D = (IF isPrev THEN -k ELSE k)
  BY <1>1, <1>6
<1>8. PICK c \in Moments : c = AddHours(b, D) /\ HourStamp(c) = HourStamp(b) + D
  BY <1>4, AddHoursStamp
<1>9. MoveTo(c)
  BY <1>3, <1>7, <1>8
<1>10. IF isPrev THEN b.day - 62 <= c.day /\ c.day <= b.day
                 ELSE b.day <= c.day /\ c.day <= b.day + 62
  BY <1>1, <1>4, <1>6, <1>7, <1>8, ClockDays
<1>. QED
  BY <1>4, <1>9, <1>10, ClockMoveEdge

\* proc_minute.
LEMMA MinuteEdge ==
    ASSUME Searching, ProcMinute, outcome' = "bad_type_range"
    PROVE  AtEdge
<1>1. /\ expr \in Exprs /\ cur \in Moments /\ isPrev \in BOOLEAN
  BY SearchingParts
<1>2. PICK b : b = [cur EXCEPT !.s = Edge]
  OBVIOUS
<1>3. /\ ~expr.minute.star
      /\ MinuteDiff = NearestDiff(cur.mi, expr.minute, 60)
      /\ MoveTo(AddMinutes(b, MinuteDiff))
  BY <1>2, Zenon DEF ProcMinute, MinuteDiff
<1>4. b \in Moments /\ b.day = cur.day
  BY <1>1, <1>2 DEF Moments, Edge
<1>5. expr.minute.nums \in SUBSET (0..59) /\ expr.minute.nums # {} /\ cur.mi \in 0..59
  BY <1>1, <1>3, ExprFields, PlainFields, StampIsInt
<1>6. PICK k \in Nat : MinuteDiff = (IF isPrev THEN -k ELSE k) /\ k <= 120
  <2>1. PICK x \in 0..59 : x = cur.mi
    BY <1>5
  <2>. QED
    BY <1>1, <1>3, <1>5, <2>1, MinuteShort
<1>7. PICK D \in Int : D = MinuteDiff /\ D = (IF isPrev THEN -k ELSE k)
  BY <1>1, <1>6
<1>8. PICK c \in Moments : c = AddMinutes(b, D) /\ MinuteStamp(c) = MinuteStamp(b) + D
  BY <1>4, AddMinutesStamp
<1>9. MoveTo(c)
  BY <1>3, <1>7, <1>8
<1>10. IF isPrev THEN b.day - 62 <= c.day /\ c.day <= b.day
                 ELSE b.day <= c.day /\ c.day <= b.day + 62
  BY <1>1, <1>4, <1>6, <1>7, <1>8, ClockDays
<1>. QED
  BY <1>4, <1>9, <1>10, ClockMoveEdge

\* proc_second.
LEMMA SecondEdge ==
    ASSUME Searching, ProcSecond, outcome' = "bad_type_range"
    PROVE  AtEdge
<1>1. /\ expr \in Exprs /\ cur \in Moments /\ isPrev \in BOOLEAN
  BY SearchingParts
<1>2. PICK b \in Moments : b = cur
  BY <1>1
<1>3. /\ ~expr.second.star
      /\ SecondDiff = NearestDiff(cur.s, expr.second, 60)
      /\ MoveTo(AddSeconds(b, SecondDiff))
  BY <1>2, Zenon DEF ProcSecond, SecondDiff
<1>5. expr.second.nums \in SUBSET (0..59) /\ expr.second.nums # {} /\ cur.s \in 0..59
  BY <1>1, <1>3, ExprFields, PlainFields, StampIsInt
<1>6. PICK k \in Nat : SecondDiff = (IF isPrev THEN -k ELSE k) /\ k <= 120
  <2>1. PICK x \in 0..59 : x = cur.s
    BY <1>5
  <2>. QED
    BY <1>1, <1>3, <1>5, <2>1, MinuteShort
<1>7. PICK D \in Int : D = SecondDiff /\ D = (IF isPrev THEN -k ELSE k)
  BY <1>1, <1>6
<1>8. PICK c \in Moments : c = AddSeconds(b, D) /\ Stamp(c) = Stamp(b) + D
  BY AddSecondsStamp
<1>9. MoveTo(c)
  BY <1>3, <1>7, <1>8
<1>10. IF isPrev THEN b.day - 62 <= c.day /\ c.day <= b.day
                 ELSE b.day <= c.day /\ c.day <= b.day + 62
  BY <1>1, <1>6, <1>7, <1>8, ClockDays
<1>. QED
  BY <1>2, <1>9, <1>10, ClockMoveEdge

\* A turn runs off the calendar only from its edge, and within the years of
\* the search.
LEMMA TurnEdge ==
    ASSUME Searching, Next, outcome' = "bad_type_range"
    PROVE  AtEdge /\ WithinMaxYears
<1>1. ~GiveUp /\ ~NoYearLeft /\ ~Found
  BY DEF GiveUp, NoYearLeft, Found, Fail
<1>2. ~ProcYear
  BY YearEdge
<1>3. AtEdge
  BY <1>1, <1>2, MonthEdge, NearestWeekdayEdge, DayOfMonthEdge, NthEdge,
     DayOfWeekEdge, HourEdge, MinuteEdge, SecondEdge DEF Next
<1>4. WithinMaxYears
  BY <1>1, <1>2 DEF Next, ProcMonth, ProcNearestWeekday, ProcDayOfMonth,
     ProcDayOfWeekNth, ProcDayOfWeek, ProcHour, ProcMinute, ProcSecond,
     MinuteDone, HourDone, DayDone, DomDone, MonthDone, YearDone, Turn
<1>. QED
  BY <1>3, <1>4

(***************************************************************************)
(* What the cursor says of the answer.                                     *)
(***************************************************************************)

\* A search under way stands at or past its first candidate.
Beyond ==
    outcome = "searching" =>
        /\ FirstCandidate(req) \in Instants
        /\ ~ Nearer(req, cur, FirstCandidate(req))

\* calc starts on the first candidate.
LEMMA BeyondInit ==
    ASSUME Init
    PROVE  Beyond
<1>1. /\ req \in Requests /\ cur = StartCursor(req) /\ outcome = StartOutcome(req)
  BY DEF Init, SearchRequests
<1>2. CASE CanStart(req)
  <2>1. PICK c \in Moments : c = FirstCandidate(req)
    BY <1>1, FirstCandidateMoment
  <2>2. c \in Instants /\ cur = c
    BY <1>1, <1>2, <2>1, InstantsAreMoments DEF CanStart, StartCursor
  <2>3. PICK a \in Int : a = Stamp(c)
    BY <2>1, StampIsInt
  <2>4. ~ Before(c, c)
    BY <2>1, <2>3, StampOrder
  <2>. QED
    BY <2>1, <2>2, <2>4 DEF Beyond, Nearer
<1>3. CASE ~CanStart(req)
  BY <1>1, <1>3 DEF Beyond, StartOutcome
<1>. QED
  BY <1>2, <1>3

\* And every turn moves it on.
LEMMA BeyondStep ==
    ASSUME Searching, Beyond, StepOK, req' = req
    PROVE  Beyond'
<1>1. SUFFICES ASSUME outcome' = "searching"
               PROVE  ~ Nearer(req, cur', FirstCandidate(req))
  BY DEF Beyond, Searching
<1>2. /\ cur \in Moments /\ cur' \in Moments /\ FirstCandidate(req) \in Moments
      /\ isPrev \in BOOLEAN
  <2>1. cur' \in Instants
    BY DEF StepOK, TypeOK
  <2>. QED
    BY <2>1, SearchingParts, InstantIsMoment, FirstCandidateMoment
<1>3. Nearer(req, cur, cur') /\ ~ Nearer(req, cur, FirstCandidate(req))
  BY <1>1 DEF StepOK, Beyond, Searching
<1>4. PICK a \in Int, b \in Int, z \in Int :
          a = Stamp(cur) /\ b = Stamp(cur') /\ z = Stamp(FirstCandidate(req))
  BY <1>2, StampIsInt
<1>5. CASE isPrev
  <2>1. b < a /\ ~ (z < a)
    BY <1>2, <1>3, <1>4, <1>5, StampOrder DEF Nearer, isPrev
  <2>2. ~ (z < b)
    BY <2>1
  <2>. QED
    BY <1>2, <1>4, <1>5, <2>2, StampOrder DEF Nearer, isPrev
<1>6. CASE ~isPrev
  <2>1. a < b /\ ~ (a < z)
    BY <1>2, <1>3, <1>4, <1>6, StampOrder DEF Nearer, isPrev
  <2>2. ~ (b < z)
    BY <2>1
  <2>. QED
    BY <1>2, <1>4, <1>6, <2>2, StampOrder DEF Nearer, isPrev
<1>. QED
  BY <1>2, <1>5, <1>6

\* From the first candidate on, the cursor without its seconds, if the
\* expression has none, is strictly on the asked side of the start.
LEMMA AheadOfStart ==
    ASSUME NEW r \in Requests, NEW c \in Moments,
           ~ Nearer(r, c, FirstCandidate(r)),
           NEW i, i = IF r.expr.secs THEN c ELSE [c EXCEPT !.s = 0]
    PROVE  IsAhead(r, i)
<1>1. /\ r.at \in Moments /\ r.sub \in {0, 1} /\ r.isPrev \in BOOLEAN /\ r.expr.secs \in BOOLEAN
  BY RequestParts
<1>2. PICK g \in Moments : g = FirstCandidate(r)
  BY FirstCandidateMoment
<1>3. PICK a \in Int, b \in Int, p \in Int, x \in Int, u \in Int, v \in Int :
         /\ a = Stamp(r.at) /\ b = MinuteStamp(r.at) /\ p = Stamp(c) /\ x = MinuteStamp(c)
         /\ u = Stamp(g) /\ v = MinuteStamp(g)
  BY <1>1, <1>2, StampIsInt
<1>4. i \in Moments /\ MinuteStamp(i) = x /\ Stamp(i) <= p
  <2>1. CASE r.expr.secs
    BY <1>3, <2>1
  <2>2. CASE ~r.expr.secs
    BY <1>3, <2>2, Truncated
  <2>. QED
    BY <1>1, <2>1, <2>2
<1>5. PICK z \in Int : z = Stamp(i)
  BY <1>4, StampIsInt
<1>6. CASE r.isPrev
  <2>1. PICK k \in {-1, 0} : k = r.sub - 1
    BY <1>1
  <2>2. PICK m \in Moments : m = AddSeconds(r.at, k) /\ Stamp(m) = a + k
    <3>1. k \in Int
      OBVIOUS
    <3>. QED
      BY <1>1, <1>3, <3>1, AddSecondsStamp
  <2>3. g = IF r.expr.secs THEN m ELSE [m EXCEPT !.s = 0]
    BY <1>2, <1>6, <2>1, <2>2, Zenon DEF FirstCandidate
  <2>4. u <= a + k
    <3>1. CASE r.expr.secs
      BY <1>3, <2>2, <2>3, <3>1
    <3>2. CASE ~r.expr.secs
      BY <1>3, <2>2, <2>3, <3>2, Truncated
    <3>. QED
      BY <1>1, <3>1, <3>2
  <2>5. ~ (u < p)
    BY <1>2, <1>3, <1>6, StampOrder DEF Nearer
  <2>6. z <= a + k
    BY <1>4, <1>5, <2>4, <2>5
  <2>7. CASE k = -1
    <3>1. z < a
      BY <2>6, <2>7
    <3>. QED
      BY <1>1, <1>3, <1>4, <1>5, <1>6, <3>1, StampOrder DEF IsAhead
  <2>8. CASE k = 0
    <3>1. r.sub = 1
      BY <1>1, <2>1, <2>8
    <3>2. z < a \/ z = a
      BY <2>6, <2>8
    <3>. QED
      BY <1>1, <1>3, <1>4, <1>5, <1>6, <3>1, <3>2, StampOrder DEF IsAhead
  <2>. QED
    BY <2>7, <2>8
<1>7. CASE ~r.isPrev /\ r.expr.secs
  <2>1. u = a + 1
    <3>1. g = AddSeconds(r.at, 1)
      BY <1>2, <1>7, Zenon DEF FirstCandidate
    <3>. QED
      BY <1>1, <1>3, <3>1, AddSecondsStamp
  <2>2. ~ (p < u)
    BY <1>2, <1>3, <1>7, StampOrder DEF Nearer
  <2>3. i = c
    BY <1>7
  <2>4. a < p
    BY <2>1, <2>2
  <2>. QED
    BY <1>1, <1>3, <1>7, <2>3, <2>4, StampOrder DEF IsAhead
<1>8. CASE ~r.isPrev /\ ~r.expr.secs
  <2>1. PICK m \in Moments : m = AddMinutes(r.at, 1) /\ MinuteStamp(m) = b + 1
    <3>1. PICK k \in Int : k = 1
      OBVIOUS
    <3>2. AddMinutes(r.at, k) \in Moments /\ MinuteStamp(AddMinutes(r.at, k)) = b + k
      BY <1>1, <1>3, AddMinutesStamp
    <3>. QED
      BY <3>1, <3>2
  <2>2. g = [m EXCEPT !.s = 0]
    BY <1>2, <1>8, <2>1, Zenon DEF FirstCandidate
  <2>3. v = b + 1
    BY <1>3, <2>1, <2>2, Truncated
  <2>4. ~ (x < v)
    BY <1>2, <1>3, <1>8, StampLevels DEF Nearer
  <2>5. b < x
    BY <2>3, <2>4
  <2>. QED
    BY <1>1, <1>3, <1>4, <1>8, <2>5, StampLevels DEF IsAhead
<1>. QED
  BY <1>1, <1>6, <1>7, <1>8

\* Going towards i from k the years do not turn back.
LEMMA YearsTowards ==
    ASSUME NEW r \in Requests, NEW i \in Instants, NEW k \in Instants, ~ Nearer(r, i, k)
    PROVE  /\ YearOf(i.day) \in Int /\ YearOf(k.day) \in Int
           /\ IF r.isPrev THEN YearOf(i.day) <= YearOf(k.day) ELSE YearOf(k.day) <= YearOf(i.day)
<1>1. i.day \in Days /\ k.day \in Days /\ r.isPrev \in BOOLEAN
  BY RequestParts DEF Instants
<1>2. PICK d \in Int, e \in Int : d = i.day /\ e = k.day
  BY InstantIsMoment, StampIsInt
<1>3. CASE r.isPrev
  <2>1. ~ (e < d)
    BY <1>2, <1>3 DEF Nearer, Before
  <2>2. d <= e
    BY <2>1
  <2>. QED
    BY <1>1, <1>2, <1>3, <2>2, YearIsInt
<1>4. CASE ~r.isPrev
  <2>1. ~ (d < e)
    BY <1>2, <1>4 DEF Nearer, Before
  <2>2. e <= d
    BY <2>1
  <2>. QED
    BY <1>1, <1>2, <1>4, <2>2, YearIsInt
<1>. QED
  BY <1>1, <1>3, <1>4

(***************************************************************************)
(* The answers.                                                            *)
(***************************************************************************)

\* A fire that calc finds is the answer asked for.
LEMMA FoundAnswers ==
    ASSUME Searching, Beyond, Found, StepOK
    PROVE  Fire(cur') \in FireAnswers(req)
<1>1. req \in Requests /\ cur \in Moments /\ req' = req /\ outcome' = "found"
  BY SearchingParts DEF Found
<1>2. cur' \in Instants /\ Fires(req.expr, cur') /\ cur'.day = cur.day
  BY FoundIsFire DEF expr
<1>3. IsAhead(req, cur')
  <2>1. cur' = IF req.expr.secs THEN cur ELSE [cur EXCEPT !.s = 0]
    BY DEF Found, expr
  <2>2. ~ Nearer(req, cur, FirstCandidate(req))
    BY DEF Searching, Beyond
  <2>. QED
    BY <1>1, <2>1, <2>2, AheadOfStart
<1>4. WithinYears(req, YearOf(cur'.day))
  BY <1>2, Zenon DEF Found, MinuteDone, HourDone, DayDone, DomDone, MonthDone, YearDone,
     Turn, WithinMaxYears
<1>5. NoneNearer(req, cur')
  BY <1>1 DEF StepOK, NothingSkipped
<1>6. PICK i : i = cur'
  OBVIOUS
<1>7. /\ Fire(i) \in [kind : {"fire"}, at : SUBSET Instants] /\ i \in Fire(i).at
  BY <1>2, <1>6 DEF Fire
<1>. QED
  BY <1>2, <1>3, <1>4, <1>5, <1>6, <1>7 DEF FireAnswers

\* Out of the years it may look at, calc has seen them all.
LEMMA GiveUpAnswers ==
    ASSUME Searching, Beyond, GiveUp
    PROVE  NoneInScope(req)
<1>1. /\ req \in Requests /\ expr \in Exprs /\ isPrev \in BOOLEAN /\ cur \in Instants
      /\ \A f \in Instants : Fires(expr, f) /\ IsAhead(req, f) => ~ Nearer(req, f, cur)
  BY SearchingParts
<1>2. PICK g \in Instants : g = FirstCandidate(req) /\ ~ Nearer(req, cur, g)
  BY DEF Beyond, Searching
<1>3. PICK a, b : a = YearOf(g.day) /\ b = YearOf(cur.day)
  OBVIOUS
<1>4. /\ a \in Int /\ b \in Int
      /\ IF isPrev THEN b <= a ELSE a <= b
  BY <1>1, <1>2, <1>3, YearsTowards DEF isPrev
<1>5. ~ (Distance(a, b) <= MaxYears)
  BY <1>2, <1>3 DEF GiveUp, WithinMaxYears, WithinYears
<1>6. ASSUME NEW t \in FireDays[req.expr], WithinYears(req, YearOf(t)),
             NEW f \in TimesOn(req.expr, t), IsAhead(req, f)
      PROVE  FALSE
  <2>1. f \in Instants /\ Fires(expr, f) /\ f.day = t
    BY <1>1, <1>6, FireIsInstant DEF expr
  <2>2. ~ Nearer(req, f, cur)
    BY <1>1, <1>6, <2>1
  <2>3. PICK c : c = YearOf(t)
    OBVIOUS
  <2>4. /\ c \in Int
        /\ IF isPrev THEN c <= b ELSE b <= c
    BY <1>1, <1>3, <2>1, <2>2, <2>3, YearsTowards DEF isPrev
  <2>5. Distance(a, c) <= MaxYears
    BY <1>2, <1>3, <1>6, <2>3 DEF WithinYears
  <2>6. PICK n \in Nat : n = MaxYears
    BY RequestAssumption
  <2>7. CASE isPrev
    <3>1. b <= a /\ c <= b
      BY <1>4, <2>4, <2>7
    <3>2. ~ (a - b <= n)
      BY <1>4, <1>5, <2>6, <3>1 DEF Distance
    <3>3. a - c <= n
      BY <1>4, <2>4, <2>5, <2>6, <3>1 DEF Distance
    <3>. QED
      BY <1>4, <2>4, <3>1, <3>2, <3>3
  <2>8. CASE ~isPrev
    <3>1. a <= b /\ b <= c
      BY <1>4, <2>4, <2>8
    <3>2. ~ (b - a <= n)
      BY <1>4, <1>5, <2>6, <3>1 DEF Distance
    <3>3. c - a <= n
      BY <1>4, <2>4, <2>5, <2>6, <3>1 DEF Distance
    <3>. QED
      BY <1>4, <2>4, <3>1, <3>2, <3>3
  <2>. QED
    BY <1>1, <2>7, <2>8
<1>. QED
  BY <1>6 DEF NoneInScope

\* No listed year lies ahead of the cursor, so no fire does.
LEMMA NoYearAnswers ==
    ASSUME Searching, NoYearLeft
    PROVE  NoneInScope(req)
<1>1. /\ req \in Requests /\ expr \in Exprs /\ isPrev \in BOOLEAN /\ cur \in Instants
      /\ \A f \in Instants : Fires(expr, f) /\ IsAhead(req, f) => ~ Nearer(req, f, cur)
  BY SearchingParts
<1>2. /\ ~expr.year.star
      /\ \A n \in expr.year.nums : ~ (IF isPrev THEN n <= YearOf(cur.day) ELSE YearOf(cur.day) <= n)
  BY DEF NoYearLeft, YearsAhead, Ahead
<1>3. ASSUME NEW t \in FireDays[req.expr], NEW f \in TimesOn(req.expr, t), IsAhead(req, f)
      PROVE  FALSE
  <2>1. f \in Instants /\ Fires(expr, f) /\ f.day = t /\ t \in FireDays[expr]
    BY <1>1, <1>3, FireIsInstant DEF expr
  <2>2. YearOf(t) \in expr.year.nums
    BY <1>1, <1>2, <2>1 DEF FireDays, DayMatches, YearMatches
  <2>3. ~ Nearer(req, f, cur)
    BY <1>1, <1>3, <2>1
  <2>4. IF isPrev THEN YearOf(t) <= YearOf(cur.day) ELSE YearOf(cur.day) <= YearOf(t)
    BY <1>1, <2>1, <2>3, YearsTowards DEF isPrev
  <2>. QED
    BY <1>2, <2>2, <2>4
<1>. QED
  BY <1>3 DEF NoneInScope

\* A search that runs off the calendar has left no fire behind, and its years
\* reach the calendar's end.
LEMMA EdgeAnswers ==
    ASSUME Searching, Beyond, Next, StepOK, outcome' = "bad_type_range"
    PROVE  NoneInScope(req) /\ ReachesEdge(req)
<1>1. req \in Requests /\ expr \in Exprs /\ isPrev \in BOOLEAN /\ cur \in Instants
  BY SearchingParts
<1>2. NoneInScope(req)
  <2>1. \A f \in Instants : Fires(req.expr, f) => ~ IsAhead(req, f)
    BY DEF StepOK, NothingLeft, expr
  <2>2. req.expr \in Exprs
    BY <1>1 DEF expr
  <2>. QED
    BY <2>1, <2>2, FireIsInstant DEF NoneInScope
<1>3. PICK g \in Instants : g = FirstCandidate(req) /\ ~ Nearer(req, cur, g)
  BY DEF Beyond, Searching
<1>4. PICK a, b : a = YearOf(g.day) /\ b = YearOf(cur.day)
  OBVIOUS
<1>5. /\ a \in Int /\ b \in Int
      /\ IF isPrev THEN b <= a ELSE a <= b
  BY <1>1, <1>3, <1>4, YearsTowards DEF isPrev
<1>6. /\ b = IF isPrev THEN FirstYear ELSE LastYear
      /\ Distance(a, b) <= MaxYears
  BY <1>3, <1>4, TurnEdge DEF AtEdge, WithinMaxYears, WithinYears
<1>7. PICK n \in Nat : n = MaxYears
  BY RequestAssumption
<1>8. CASE isPrev
  <2>1. a - b <= n
    BY <1>5, <1>6, <1>7, <1>8 DEF Distance
  <2>2. a - n <= b
    BY <1>5, <2>1
  <2>. QED
    BY <1>2, <1>3, <1>4, <1>6, <1>7, <1>8, <2>2 DEF ReachesEdge, isPrev
<1>9. CASE ~isPrev
  <2>1. b - a <= n
    BY <1>5, <1>6, <1>7, <1>9 DEF Distance
  <2>2. a + n >= b
    BY <1>5, <2>1
  <2>. QED
    BY <1>2, <1>3, <1>4, <1>6, <1>7, <1>9, <2>2 DEF ReachesEdge, isPrev
<1>. QED
  BY <1>1, <1>8, <1>9

(***************************************************************************)
(* The refinement.                                                         *)
(***************************************************************************)

\* No turn changes the request, and only two end with bad_date.
LEMMA TurnKinds ==
    ASSUME Next
    PROVE  /\ outcome = "searching" /\ req' = req
           /\ outcome' \in {"searching", "found"} \cup Errors
           /\ outcome' = "found" => Found
           /\ outcome' = "bad_date" => GiveUp \/ NoYearLeft
<1>1. outcome = "searching"
  BY Zenon DEF Next, GiveUp, NoYearLeft, ProcYear, ProcMonth,
         ProcNearestWeekday, ProcDayOfMonth, ProcDayOfWeekNth, ProcDayOfWeek,
         ProcHour, ProcMinute, ProcSecond, Found, HourDone, MinuteDone,
         DayDone, DomDone, MonthDone, YearDone, Turn
<1>2. ASSUME NEW c, MoveTo(c)
      PROVE  req' = req /\ outcome' \in {"searching", "bad_type_range"}
  BY <1>1, <1>2 DEF MoveTo, Fail
<1>3. ASSUME NEW m, MoveToMonth(m)
      PROVE  req' = req /\ outcome' \in {"searching", "bad_type_range"}
  BY <1>2, <1>3 DEF MoveToMonth, Fail
<1>4. CASE ~GiveUp /\ ~NoYearLeft /\ ~Found
  BY <1>2, <1>3, <1>4, <1>1 DEF Next, ProcYear, ProcMonth, ProcNearestWeekday,
     ProcDayOfMonth, ProcDayOfWeekNth, ProcDayOfWeek, ProcHour, ProcMinute,
     ProcSecond, MoveByDays, Errors
<1>5. CASE GiveUp \/ NoYearLeft
  BY <1>1, <1>5 DEF GiveUp, NoYearLeft, Fail, Errors
<1>6. CASE Found
  BY <1>1, <1>6 DEF Found
<1>. QED
  BY <1>4, <1>5, <1>6

\* A turn that ends with an error may do so.
LEMMA ErrorReply ==
    ASSUME Searching, Beyond, Next, StepOK, outcome' \in Errors
    PROVE  Error(outcome') \in ErrorAnswers(req)
<1>1. NoneInScope(req)
  BY TurnKinds, GiveUpAnswers, NoYearAnswers, EdgeAnswers DEF Errors
<1>2. outcome' = "bad_type_range" => ReachesEdge(req)
  BY EdgeAnswers
<1>3. PICK e \in Errors : e = outcome'
  OBVIOUS
<1>4. Error(e) \in [kind : Errors, at : {{}}] /\ Error(e).kind = e
  BY DEF Error
<1>. QED
  BY <1>1, <1>2, <1>3, <1>4 DEF ErrorAnswers

\* calc starts with no reply, or with the refusal of a start whose first
\* candidate is off the calendar.
LEMMA InitRefines ==
    ASSUME Init
    PROVE  Promise!Init
<1>1. req \in Requests /\ outcome = StartOutcome(req)
  BY DEF Init, SearchRequests
<1>2. CASE CanStart(req)
  <2>1. outcome = "searching"
    BY <1>1, <1>2 DEF StartOutcome
  <2>2. Reply = NoAnswer
    BY <2>1 DEF Reply
  <2>. QED
    BY <1>1, <2>2 DEF Promise!Init
<1>3. CASE ~CanStart(req)
  <2>1. outcome = "bad_type_range" /\ FirstCandidate(req).day \notin Days
    BY <1>1, <1>3 DEF StartOutcome, CanStart
  <2>2. Reply = Error("bad_type_range")
    BY <2>1 DEF Reply
  <2>3. Error("bad_type_range") \in ErrorAnswers(req)
    BY <2>1 DEF ErrorAnswers, Error, Errors, ReachesEdge
  <2>. QED
    BY <1>1, <2>2, <2>3 DEF Promise!Init, Answers
<1>. QED
  BY <1>2, <1>3

\* A turn is a stutter of the promise until it ends the search with an answer.
LEMMA TurnRefines ==
    ASSUME Inv, Beyond, Next
    PROVE  [Promise!Reply]_(Promise!vars)
<1>1. /\ Searching /\ StepOK /\ req' = req /\ outcome = "searching"
      /\ outcome' \in {"searching", "found"} \cup Errors
  BY TurnKinds, TurnOK DEF Inv, Searching
<1>2. Reply = NoAnswer
  BY <1>1 DEF Reply
<1>3. CASE outcome' = "searching"
  <2>1. Reply' = NoAnswer
    BY <1>3 DEF Reply
  <2>. QED
    BY <1>1, <1>2, <2>1 DEF Promise!vars
<1>4. CASE outcome' = "found"
  <2>1. Reply' = Fire(cur')
    BY <1>4 DEF Reply
  <2>2. Fire(cur') \in FireAnswers(req)
    BY <1>1, <1>4, TurnKinds, FoundAnswers
  <2>. QED
    BY <1>1, <1>2, <2>1, <2>2 DEF Promise!Reply, Answers
<1>5. CASE outcome' \in Errors
  <2>1. Reply' = Error(outcome')
    BY <1>5 DEF Reply, Errors
  <2>2. Error(outcome') \in ErrorAnswers(req)
    BY <1>1, <1>5, ErrorReply
  <2>. QED
    BY <1>1, <1>2, <2>1, <2>2 DEF Promise!Reply, Answers
<1>. QED
  BY <1>1, <1>3, <1>4, <1>5

\* calc implements what NextFire promises of it: whatever the expressions,
\* the starts, the bound on the years and the range of the calendar, the one
\* answer to a request is the fire nearest to its start, and calc fails with
\* an error only when the years it may look at hold no fire, with
\* bad_type_range only when those years reach the calendar's end.
THEOREM ImplementsNextFire == Spec => IsNextFire
<1>1. Init => Promise!Init /\ Beyond
  BY InitRefines, BeyondInit
<1>2. Inv /\ Beyond /\ [Next]_vars => Beyond'
  <2>1. ASSUME Inv, Beyond, Next PROVE Beyond'
    BY <2>1, TurnKinds, TurnOK, BeyondStep DEF Inv, Searching
  <2>2. ASSUME Beyond, UNCHANGED vars PROVE Beyond'
    BY <2>2 DEF Beyond, vars
  <2>. QED
    BY <2>1, <2>2
<1>3. Inv /\ Beyond /\ [Next]_vars => [Promise!Reply]_(Promise!vars)
  <2>1. ASSUME UNCHANGED vars PROVE UNCHANGED Promise!vars
    BY <2>1 DEF vars, Promise!vars, Reply
  <2>. QED
    BY <2>1, TurnRefines
<1>. QED
  BY <1>1, <1>2, <1>3, Invariance, PTL DEF Spec, IsNextFire, Promise!Spec

=============================================================================
