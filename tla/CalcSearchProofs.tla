---------------------------- MODULE CalcSearchProofs ----------------------------
(***************************************************************************)
(* The date search: each turn of the loop passes no fire and moves away    *)
(* from the start (a lemma per proc_ block), so does the first candidate,  *)
(* and the theorems rest on them.  Everything here holds for every         *)
(* calendar range, every set of expressions and starts, every year bound.  *)
(***************************************************************************)
EXTENDS CalcSearch, CalendarProofs, FiniteSetTheorems


(***************************************************************************)
(* The nearest-value helpers.  A gap is a distance k such that no value of *)
(* the field lies on the way.                                              *)
(***************************************************************************)

\* get_next_nearest_diff: the values from x up to x + k, in this round of
\* the field and in the next one, are not in the field.
LEMMA NextGap ==
    ASSUME NEW range \in Nat, NEW x \in 0..range, NEW f, f.nums \in SUBSET Nat
    PROVE  \E k \in Nat :
              /\ NextDiff(x, f, range) = k
              /\ f.last => x + k <= range
              /\ \A n \in f.nums : /\ n < x \/ x + k <= n \/ range < n
                                   /\ x + k <= range + n
<1>. DEFINE ahead == {n \in f.nums : x <= n /\ n <= range}
<1>0. x \in Nat /\ x <= range
  OBVIOUS
<1>1. CASE ahead # {}
  <2>1. ahead \in SUBSET Nat
    OBVIOUS
  <2>2. Min(ahead) \in ahead /\ \A y \in ahead : Min(ahead) <= y
    <3> HIDE DEF ahead
    <3>. QED BY <1>1, <2>1, MinIsLeast
  <2>3. PICK a \in Nat : a = Min(ahead) /\ a \in ahead
    BY <2>1, <2>2
  <2>4. PICK k \in Nat : k = a - x
    BY <1>0, <2>3
  <2>5. NextDiff(x, f, range) = k
    BY <1>1, <2>3, <2>4 DEF NextDiff
  <2>6. x + k <= range
    BY <1>0, <2>3, <2>4
  <2>7. ASSUME NEW n \in f.nums
        PROVE  (n < x \/ x + k <= n \/ range < n) /\ x + k <= range + n
    <3>1. n \in Nat
      OBVIOUS
    <3>2. n \in ahead => a <= n
      BY <2>2, <2>3
    <3>. QED
      BY <1>0, <2>4, <2>6, <3>1, <3>2
  <2>. QED
    BY <2>5, <2>6, <2>7
<1>2. CASE ahead = {} /\ f.last
  <2>1. PICK k \in Nat : k = range - x
    BY <1>0
  <2>2. NextDiff(x, f, range) = k
    BY <1>0, <1>2, <2>1 DEF NextDiff
  <2>3. ASSUME NEW n \in f.nums
        PROVE  (n < x \/ x + k <= n \/ range < n) /\ x + k <= range + n
    <3>1. n \in Nat /\ n \notin ahead
      BY <1>2
    <3>. QED
      BY <1>0, <2>1, <3>1
  <2>. QED
    BY <1>0, <2>1, <2>2, <2>3
<1>3. CASE ahead = {} /\ ~f.last /\ f.nums = {}
  <2>1. PICK k \in Nat : k = range - x + range
    <3>1. PICK j \in Nat : j = range - x
      BY <1>0
    <3>2. j + range \in Nat
      OBVIOUS
    <3>. QED
      BY <3>1, <3>2
  <2>2. NextDiff(x, f, range) = k
    BY <1>3, <2>1 DEF NextDiff
  <2>. QED
    BY <1>3, <2>2
<1>4. CASE ahead = {} /\ ~f.last /\ f.nums # {}
  <2>1. PICK a \in Nat : a = Min(f.nums) /\ \A n \in f.nums : a <= n
    BY <1>4, MinIsLeast
  <2>2. PICK k \in Nat : k = a - x + range
    BY <1>0, <2>1
  <2>3. NextDiff(x, f, range) = k
    BY <1>4, <2>1, <2>2 DEF NextDiff
  <2>4. ASSUME NEW n \in f.nums
        PROVE  (n < x \/ x + k <= n \/ range < n) /\ x + k <= range + n
    <3>1. n \in Nat /\ n \notin ahead /\ a <= n
      BY <1>4, <2>1
    <3>. QED
      BY <1>0, <2>2, <3>1
  <2>. QED
    BY <1>4, <2>3, <2>4
<1>. QED
  BY <1>1, <1>2, <1>3, <1>4

\* get_prev_nearest_diff: likewise from x down to x - k and, past the start
\* of the round, in the round of length range before it.
LEMMA PrevGap ==
    ASSUME NEW range \in Nat, NEW x \in Nat, NEW f, f.nums \in SUBSET Nat
    PROVE  \E k \in Nat :
              /\ PrevDiff(x, f, range) = -k
              /\ k <= x + range
              /\ f.last => k <= x
              /\ \A n \in f.nums : /\ x < n \/ n <= x - k
                                   /\ range < n \/ n <= x - k + range
<1>. DEFINE behind == {n \in f.nums : n <= x}
            round  == {n \in f.nums : n <= range}
<1>0. behind \in SUBSET (0..x) /\ round \in SUBSET (0..range)
  OBVIOUS
<1>1. CASE behind # {}
  <2>1. Max(behind) \in behind /\ \A y \in behind : y <= Max(behind)
    <3> HIDE DEF behind
    <3>. QED BY <1>0, <1>1, MaxIsGreatest
  <2>2. PICK a \in Nat : a = Max(behind) /\ a <= x /\ \A y \in behind : y <= a
    BY <2>1
  <2>3. PICK k \in Nat : k = x - a
    <3>1. a <= x
      BY <2>2
    <3>. HIDE DEF behind, round
    <3>. QED
      BY <3>1
  <2>4. PrevDiff(x, f, range) = -k
    <3>1. a - x = -k
      BY <2>3
    <3>. QED
      BY <1>1, <2>2, <3>1 DEF PrevDiff
  <2>5. ASSUME NEW n \in f.nums
        PROVE  (x < n \/ n <= x - k) /\ (range < n \/ n <= x - k + range)
    <3>1. n \in Nat /\ (n <= x => n <= a)
      BY <2>2
    <3>. QED
      BY <2>3, <2>2, <3>1
  <2>6. k <= x + range /\ k <= x
    BY <2>3
  <2>. HIDE DEF behind, round
  <2>. QED
    BY <2>4, <2>5, <2>6
<1>2. CASE behind = {} /\ f.last
  <2>1. PrevDiff(x, f, range) = -x
    BY <1>2 DEF PrevDiff
  <2>2. ASSUME NEW n \in f.nums
        PROVE  (x < n \/ n <= x - x) /\ (range < n \/ n <= x - x + range)
    <3>1. n \in Nat /\ ~ (n <= x)
      BY <1>2
    <3>. QED
      BY <3>1
  <2>. QED
    BY <2>1, <2>2
<1>3. CASE behind = {} /\ ~f.last /\ round # {}
  <2>1. Max(round) \in round /\ \A y \in round : y <= Max(round)
    <3> HIDE DEF round
    <3>. QED BY <1>0, <1>3, MaxIsGreatest
  <2>2. PICK a \in Nat : a = Max(round) /\ a <= range /\ \A y \in round : y <= a
    BY <2>1
  <2>3. PICK k \in Nat : k = x + range - a
    <3>1. a <= range
      BY <2>2
    <3>. HIDE DEF behind, round
    <3>. QED
      BY <3>1
  <2>4. PrevDiff(x, f, range) = -k
    <3>1. a - x - range = -k
      BY <2>3
    <3>. QED
      BY <1>3, <2>2, <3>1 DEF PrevDiff
  <2>5. ASSUME NEW n \in f.nums
        PROVE  (x < n \/ n <= x - k) /\ (range < n \/ n <= x - k + range)
    <3>1. n \in Nat /\ ~ (n <= x) /\ (n <= range => n <= a)
      BY <1>3, <2>2
    <3>. QED
      BY <2>3, <2>2, <3>1
  <2>6. k <= x + range
    BY <2>3
  <2>. HIDE DEF behind, round
  <2>. QED
    BY <1>3, <2>4, <2>5, <2>6
<1>4. CASE behind = {} /\ ~f.last /\ round = {}
  <2>1. PrevDiff(x, f, range) = -range
    BY <1>4 DEF PrevDiff
  <2>2. ASSUME NEW n \in f.nums
        PROVE  (x < n \/ n <= x - range) /\ (range < n \/ n <= x - range + range)
    <3>1. n \in Nat /\ ~ (n <= x) /\ ~ (n <= range)
      BY <1>4
    <3>. QED
      BY <3>1
  <2>. QED
    BY <1>4, <2>1, <2>2
<1>. QED
  BY <1>1, <1>2, <1>3, <1>4

\* A field that goes round, its values o .. N - 1 + o with N of them to a
\* round.  Whatever round D it is in, a value of the field is not passed.
LEMMA RoundGap ==
    ASSUME NEW N \in {7, 12, 24, 60}, NEW o \in {0, 1}, NEW x \in o .. (N - 1 + o),
           NEW f, f.nums \in SUBSET (o .. (N - 1 + o))
    PROVE  /\ \E k \in Nat :
                 /\ NextDiff(x, f, N) = k
                 /\ \A n \in f.nums, D \in Int :
                       ~ (0 <= N * D + n - x /\ N * D + n - x < k)
           /\ \E k \in Nat :
                 /\ PrevDiff(x, f, N) = -k
                 /\ \A n \in f.nums, D \in Int :
                       ~ (-k < N * D + n - x /\ N * D + n - x <= 0)
<1>1. /\ N \in Nat /\ x \in Nat /\ x \in 0..N /\ f.nums \in SUBSET Nat
  <2>1. N \in Nat /\ x \in Int /\ 0 <= x /\ x <= N
    OBVIOUS
  <2>2. \A n \in f.nums : n \in o .. (N - 1 + o)
    OBVIOUS
  <2>3. \A n \in o .. (N - 1 + o) : n \in Nat
    OBVIOUS
  <2>. QED
    BY <2>1, <2>2, <2>3
<1>2. \E k \in Nat :
        /\ NextDiff(x, f, N) = k
        /\ \A n \in f.nums, D \in Int :
              ~ (0 <= N * D + n - x /\ N * D + n - x < k)
  <2>1. PICK k \in Nat :
              /\ NextDiff(x, f, N) = k
              /\ \A n \in f.nums : /\ n < x \/ x + k <= n \/ N < n
                                   /\ x + k <= N + n
    BY <1>1, NextGap
  <2>2. ASSUME NEW n \in f.nums, NEW D \in Int,
               0 <= N * D + n - x, N * D + n - x < k
        PROVE  FALSE
    <3>1. PICK m \in o .. (N - 1 + o) : m = n
      OBVIOUS
    <3>2. (m < x \/ x + k <= m \/ N < m) /\ x + k <= N + m
      BY <2>1, <3>1
    <3>3. 0 <= N * D + m - x /\ N * D + m - x < k
      BY <2>2, <3>1
    <3>4. CASE N = 7 BY <3>2, <3>3, <3>4
    <3>5. CASE N = 12 BY <3>2, <3>3, <3>5
    <3>6. CASE N = 24 BY <3>2, <3>3, <3>6
    <3>7. CASE N = 60 BY <3>2, <3>3, <3>7
    <3>. QED
      BY <3>4, <3>5, <3>6, <3>7
  <2>. QED
    BY <2>1, <2>2
<1>3. \E k \in Nat :
        /\ PrevDiff(x, f, N) = -k
        /\ \A n \in f.nums, D \in Int :
              ~ (-k < N * D + n - x /\ N * D + n - x <= 0)
  <2>1. PICK k \in Nat :
              /\ PrevDiff(x, f, N) = -k
              /\ k <= x + N
              /\ \A n \in f.nums : /\ x < n \/ n <= x - k
                                   /\ N < n \/ n <= x - k + N
    BY <1>1, PrevGap
  <2>2. ASSUME NEW n \in f.nums, NEW D \in Int,
               -k < N * D + n - x, N * D + n - x <= 0
        PROVE  FALSE
    <3>1. PICK m \in o .. (N - 1 + o) : m = n
      OBVIOUS
    <3>2. (x < m \/ m <= x - k) /\ (N < m \/ m <= x - k + N)
      BY <2>1, <3>1
    <3>3. -k < N * D + m - x /\ N * D + m - x <= 0
      BY <2>2, <3>1
    <3>4. CASE N = 7 BY <2>1, <3>2, <3>3, <3>4
    <3>5. CASE N = 12 BY <2>1, <3>2, <3>3, <3>5
    <3>6. CASE N = 24 BY <2>1, <3>2, <3>3, <3>6
    <3>7. CASE N = 60 BY <2>1, <3>2, <3>3, <3>7
    <3>. QED
      BY <3>4, <3>5, <3>6, <3>7
  <2>. QED
    BY <2>1, <2>2
<1>. QED
  BY <1>2, <1>3

\* The same for the fields as they are: months, weekdays, hours, and
\* minutes or seconds.
LEMMA MonthGap ==
    ASSUME NEW x \in 1..12, NEW f, f.nums \in SUBSET (1..12)
    PROVE  /\ \E k \in Nat :
                 /\ NextDiff(x, f, 12) = k
                 /\ \A n \in f.nums, D \in Int :
                       ~ (0 <= 12 * D + n - x /\ 12 * D + n - x < k)
           /\ \E k \in Nat :
                 /\ PrevDiff(x, f, 12) = -k
                 /\ \A n \in f.nums, D \in Int :
                       ~ (-k < 12 * D + n - x /\ 12 * D + n - x <= 0)
<1>1. 1 .. (12 - 1 + 1) = 1..12
  OBVIOUS
<1>. QED
  BY <1>1, RoundGap

\* The weekdays, 0 to 6.
LEMMA WeekdayGap ==
    ASSUME NEW x \in 0..6, NEW f, f.nums \in SUBSET (0..6)
    PROVE  /\ \E k \in Nat :
                 /\ NextDiff(x, f, 7) = k
                 /\ \A n \in f.nums, D \in Int :
                       ~ (0 <= 7 * D + n - x /\ 7 * D + n - x < k)
           /\ \E k \in Nat :
                 /\ PrevDiff(x, f, 7) = -k
                 /\ \A n \in f.nums, D \in Int :
                       ~ (-k < 7 * D + n - x /\ 7 * D + n - x <= 0)
<1>1. 0 .. (7 - 1 + 0) = 0..6
  OBVIOUS
<1>. QED
  BY <1>1, RoundGap

\* The hours, 0 to 23.
LEMMA HourGap ==
    ASSUME NEW x \in 0..23, NEW f, f.nums \in SUBSET (0..23)
    PROVE  /\ \E k \in Nat :
                 /\ NextDiff(x, f, 24) = k
                 /\ \A n \in f.nums, D \in Int :
                       ~ (0 <= 24 * D + n - x /\ 24 * D + n - x < k)
           /\ \E k \in Nat :
                 /\ PrevDiff(x, f, 24) = -k
                 /\ \A n \in f.nums, D \in Int :
                       ~ (-k < 24 * D + n - x /\ 24 * D + n - x <= 0)
<1>1. 0 .. (24 - 1 + 0) = 0..23
  OBVIOUS
<1>. QED
  BY <1>1, RoundGap

\* The minutes or the seconds, 0 to 59.
LEMMA MinuteGap ==
    ASSUME NEW x \in 0..59, NEW f, f.nums \in SUBSET (0..59)
    PROVE  /\ \E k \in Nat :
                 /\ NextDiff(x, f, 60) = k
                 /\ \A n \in f.nums, D \in Int :
                       ~ (0 <= 60 * D + n - x /\ 60 * D + n - x < k)
           /\ \E k \in Nat :
                 /\ PrevDiff(x, f, 60) = -k
                 /\ \A n \in f.nums, D \in Int :
                       ~ (-k < 60 * D + n - x /\ 60 * D + n - x <= 0)
<1>1. 0 .. (60 - 1 + 0) = 0..59
  OBVIOUS
<1>. QED
  BY <1>1, RoundGap

(***************************************************************************)
(* Expressions and requests.                                               *)
(***************************************************************************)

\* The fields of an expression hold what the parser's ranges allow.
LEMMA ExprFields ==
    ASSUME NEW e \in Exprs
    PROVE  /\ e.secs \in BOOLEAN
           /\ e.minute.nums \in SUBSET (0..59)
           /\ e.hour.nums \in SUBSET (0..23)
           /\ e.second.nums \in SUBSET (0..59)
           /\ e.day.nums \in SUBSET (1..31)
           /\ e.month.nums \in SUBSET (1..12)
           /\ e.dow.nums \in SUBSET (0..6)
           /\ e.year.nums \in SUBSET (1970..2099)
           /\ e.w \in SUBSET (1..31)
           /\ e.nth \in SUBSET ((0..6) \X ({NTH_LAST} \cup 1..5))
<1>1. e \in Expanded
  BY ExprAssumption
<1>2. ASSUME NEW lo, NEW hi, NEW f \in FieldOf(lo, hi)
      PROVE  f.nums \in SUBSET (lo..hi)
  <2>1. CASE f = Star
    BY <2>1 DEF Star
  <2>2. CASE f \in [star : {FALSE}, nums : (SUBSET (lo..hi)) \ {{}}, last : {FALSE}]
    <3>1. f.nums \in (SUBSET (lo..hi)) \ {{}}
      BY <2>2
    <3>. QED
      BY <3>1
  <2>. QED
    BY <2>1, <2>2 DEF FieldOf
<1>3. ASSUME NEW f \in DayField
      PROVE  f.nums \in SUBSET (1..31)
  <2>1. CASE f = Star
    BY <2>1 DEF Star
  <2>2. CASE f \in [star : {FALSE}, nums : SUBSET (1..31), last : BOOLEAN]
    BY <2>2
  <2>. QED
    BY <2>1, <2>2 DEF DayField
<1>. QED
  BY <1>1, <1>2, <1>3 DEF Expanded

\* The parts of a request have their types.
LEMMA RequestParts ==
    ASSUME NEW r \in Requests
    PROVE  /\ r.expr \in Exprs /\ r.at \in Instants /\ r.at \in Moments
           /\ r.sub \in {0, 1} /\ r.isPrev \in BOOLEAN
           /\ r.expr.secs \in BOOLEAN
<1>1. r.expr \in Exprs /\ r.at \in Starts /\ r.sub \in {0, 1} /\ r.isPrev \in BOOLEAN
  BY DEF Requests
<1>. QED
  BY <1>1, RequestAssumption, ExprFields, InstantIsMoment

\* The hours, minutes and seconds an expression names exist.
LEMMA ClockFields ==
    ASSUME NEW e \in Exprs
    PROVE  Hours(e) \subseteq 0..23 /\ Minutes(e) \subseteq 0..59 /\ Seconds(e) \subseteq 0..59
  BY ExprFields DEF Hours, Minutes, Seconds

\* The times a schedule names on one of its days are fires of it.
LEMMA FireIsInstant ==
    ASSUME NEW e \in Exprs, NEW t \in FireDays[e], NEW f \in TimesOn(e, t)
    PROVE  f \in Instants /\ Fires(e, f) /\ f.day = t /\ t \in Days
<1>1. t \in Days
  BY DEF FireDays
<1>2. f.day = t /\ f.h \in Hours(e) /\ f.mi \in Minutes(e) /\ f.s \in Seconds(e)
  BY DEF TimesOn
<1>3. f \in Instants
  BY <1>1, <1>2, ClockFields DEF TimesOn, Instants
<1>. QED
  BY <1>1, <1>2, <1>3 DEF Fires

\* NoneNearer, without the days it looks at: no fire at all is ahead of the
\* start and nearer than i.
LEMMA NoneNearerMeans ==
    ASSUME NEW r \in Requests, NEW i \in Instants
    PROVE  NoneNearer(r, i) <=>
              \A f \in Instants : Fires(r.expr, f) /\ IsAhead(r, f) => ~ Nearer(r, f, i)
<1>0. r.expr \in Exprs /\ r.at \in Instants
  BY RequestParts
<1>1. ASSUME NoneNearer(r, i), NEW f \in Instants, Fires(r.expr, f), IsAhead(r, f), Nearer(r, f, i)
      PROVE  FALSE
  <2>1. f.day \in FireDays[r.expr]
    BY <1>1 DEF Fires
  <2>2. f \in TimesOn(r.expr, f.day)
    BY <1>1 DEF Fires, TimesOn, Instants
  <2>3. PICK d \in Int, p \in Int, q \in Int : d = f.day /\ p = r.at.day /\ q = i.day
    BY <1>0, InstantIsMoment, StampIsInt
  <2>4. f.day \in DaysTowards(r, i)
    <3>1. CASE r.isPrev
      <4>1. f.day <= r.at.day /\ i.day <= f.day
        BY <1>1, <2>3, <3>1 DEF IsAhead, Nearer, Before
      <4>. QED
        BY <2>3, <3>1, <4>1 DEF DaysTowards
    <3>2. CASE ~r.isPrev
      <4>1. r.at.day <= f.day /\ f.day <= i.day
        BY <1>1, <2>3, <3>2 DEF IsAhead, Nearer, Before
      <4>. QED
        BY <2>3, <3>2, <4>1 DEF DaysTowards
    <3>. QED
      BY <3>1, <3>2
  <2>. QED
    BY <1>1, <2>1, <2>2, <2>4 DEF NoneNearer
<1>2. ASSUME \A f \in Instants : Fires(r.expr, f) /\ IsAhead(r, f) => ~ Nearer(r, f, i)
      PROVE  NoneNearer(r, i)
  BY <1>0, <1>2, FireIsInstant DEF NoneNearer
<1>. QED
  BY <1>1, <1>2

\* The first candidate is a moment, though perhaps off the calendar.
LEMMA FirstCandidateMoment ==
    ASSUME NEW r \in Requests
    PROVE  FirstCandidate(r) \in Moments
<1>. DEFINE moved == IF r.isPrev THEN AddSeconds(r.at, r.sub - 1)
                     ELSE IF r.expr.secs THEN AddSeconds(r.at, 1)
                     ELSE AddMinutes(r.at, 1)
<1>1. r.at \in Moments /\ r.sub - 1 \in Int /\ 1 \in Int
  BY RequestParts
<1>2. moved \in Moments
  BY <1>1, AddSecondsStamp, AddMinutesStamp
<1>3. [moved EXCEPT !.s = 0] \in Moments
  <2>1. \A m \in Moments : [m EXCEPT !.s = 0] \in Moments
    BY DEF Moments
  <2> HIDE DEF moved
  <2>. QED
    BY <1>2, <2>1
<1>4. FirstCandidate(r) = IF r.expr.secs THEN moved ELSE [moved EXCEPT !.s = 0]
  BY DEF FirstCandidate
<1>. QED
  BY <1>2, <1>3, <1>4

(***************************************************************************)
(* What a step has to show.                                                *)
(***************************************************************************)

\* No fire at all lies ahead of the start.
NothingLeft == \A f \in Instants : Fires(expr, f) => ~ IsAhead(req, f)

\* After the step the invariant holds, a move was a move away, and a move off
\* the calendar left no fire behind.
StepOK ==
    /\ TypeOK'
    /\ NothingSkipped'
    /\ outcome' = "searching" => Nearer(req, cur, cur')
    /\ outcome' = "bad_type_range" => NothingLeft

Searching == TypeOK /\ NothingSkipped /\ outcome = "searching"

\* What is known of a search under way, its invariant in full.
LEMMA SearchingParts ==
    ASSUME Searching
    PROVE  /\ req \in Requests /\ ~expr.either /\ expr \in Exprs /\ isPrev \in BOOLEAN
           /\ cur \in Instants /\ cur \in Moments /\ cur.day \in Days
           /\ \A f \in Instants : Fires(expr, f) /\ IsAhead(req, f) => ~ Nearer(req, f, cur)
<1>1. req \in Requests /\ ~req.expr.either /\ cur \in Instants
  BY DEF Searching, TypeOK, SearchRequests
<1>2. NoneNearer(req, cur)
  BY DEF Searching, NothingSkipped
<1>. QED
  BY <1>1, <1>2, RequestParts, NoneNearerMeans, InstantIsMoment DEF expr, isPrev

\* A step that fails with bad_date leaves nothing to show here, and one that
\* runs off the calendar only that there was nothing left to find.
LEMMA FailStep ==
    ASSUME Searching, NEW error \in Errors, Fail(error),
           error = "bad_type_range" => NothingLeft
    PROVE  StepOK
<1>1. outcome' = error /\ outcome' \in Errors /\ req' = req /\ cur' = cur
  BY DEF Fail
<1>2. TypeOK'
  BY <1>1 DEF Searching, TypeOK
<1>. QED
  BY <1>1, <1>2 DEF StepOK, NothingSkipped, Errors

\* What lies off the calendar is past every day of it.
LEMMA OffCalendar ==
    ASSUME NEW t \in Days, NEW u \in Int, u \notin Days, NEW v \in Days
    PROVE  /\ t <= u => v < u
           /\ u <= t => u < v
<1>1. PICK a \in Int, b \in Int : Days = a..b
  BY MonthsAreNumbers, MonthStartNext DEF Days
<1>. QED
  BY <1>1

\* A step that moves the cursor has to move it away from the start, and past
\* no fire.
LEMMA MoveStep ==
    ASSUME Searching, NEW c \in Moments, MoveTo(c),
           Nearer(req, cur, c),
           \A f \in Instants :
              Fires(expr, f) /\ Nearer(req, f, c) => Nearer(req, f, cur)
    PROVE  StepOK
<1>1. CASE c.day \in Days
  <2>1. c \in Instants
    BY <1>1, InstantsAreMoments
  <2>2. cur' = c /\ req' = req /\ outcome' = outcome
    BY <1>1 DEF MoveTo
  <2>3. req \in Requests /\ \A f \in Instants :
              Fires(req.expr, f) /\ IsAhead(req, f) => ~ Nearer(req, f, cur)
    BY SearchingParts DEF expr
  <2>4. NoneNearer(req, c)
    BY <2>1, <2>3, NoneNearerMeans DEF expr
  <2>5. TypeOK'
    BY <2>1, <2>2 DEF Searching, TypeOK
  <2>6. NothingSkipped'
    BY <2>2, <2>4 DEF NothingSkipped
  <2>. QED
    BY <2>2, <2>5, <2>6 DEF StepOK, Searching
<1>2. CASE c.day \notin Days
  <2>1. Fail("bad_type_range")
    BY <1>2 DEF MoveTo
  <2>2. ASSUME NEW f \in Instants, Fires(expr, f), IsAhead(req, f)
        PROVE  FALSE
    <3>1. ~ Nearer(req, f, cur)
      BY <2>2, SearchingParts
    <3>2. /\ cur.day \in Days /\ cur.day \in Int /\ isPrev \in BOOLEAN
          /\ f.day \in Days /\ f.day \in Int /\ c.day \in Int
      BY SearchingParts, InstantIsMoment, StampIsInt
    <3>3. CASE isPrev
      <4>1. c.day <= cur.day
        BY <3>2, <3>3 DEF Nearer, Before, isPrev
      <4>2. c.day < f.day
        BY <1>2, <3>2, <4>1, OffCalendar
      <4>. QED
        BY <2>2, <3>1, <3>3, <4>2 DEF Nearer, Before, isPrev
    <3>4. CASE ~isPrev
      <4>1. cur.day <= c.day
        BY <3>2, <3>4 DEF Nearer, Before, isPrev
      <4>2. f.day < c.day
        BY <1>2, <3>2, <4>1, OffCalendar
      <4>. QED
        BY <2>2, <3>1, <3>4, <4>2 DEF Nearer, Before, isPrev
    <3>. QED
      BY <3>2, <3>3, <3>4
  <2>. QED
    BY <2>1, <2>2, FailStep DEF Errors, NothingLeft
<1>. QED
  BY <1>1, <1>2

(***************************************************************************)
(* The jumps of the clock fields.                                          *)
(***************************************************************************)

\* proc_hour, forwards: the move is to a later moment, and no moment with a value of the field is passed.
LEMMA HourJumpNext ==
    ASSUME NEW i \in Moments, NEW b \in Moments, NEW F, F.nums \in SUBSET (0..23),
           HourStamp(b) = HourStamp(i), b.mi = 0, b.s = 0,
           NextDiff(i.h, F, 24) # 0
    PROVE  LET c == AddHours(b, NextDiff(i.h, F, 24))
           IN  /\ c \in Moments
               /\ Before(i, c)
               /\ \A f \in Moments : f.h \in F.nums /\ Before(f, c) => Before(f, i)
<1>1. PICK x \in 0..23 : x = i.h
  BY StampIsInt
<1>2. PICK k \in Nat :
              /\ NextDiff(x, F, 24) = k
              /\ \A n \in F.nums, D \in Int : ~ (0 <= 24 * D + n - x /\ 24 * D + n - x < k)
  BY HourGap
<1>2a. PICK g \in Int : g = k
  OBVIOUS
<1>3. PICK c : c = AddHours(b, g)
  OBVIOUS
<1>4. c \in Moments /\ c.mi = 0 /\ c.s = 0 /\ HourStamp(c) = HourStamp(b) + g
  BY <1>2a, <1>3, AddHoursStamp
<1>5. PICK p \in Int : p = HourStamp(i) /\ p = HourStamp(b)
  BY StampIsInt
<1>6. Before(i, c)
  <2>1. k > 0
    BY <1>1, <1>2
  <2>. QED
    BY <1>2a, <1>3, <1>4, <1>5, <2>1, StampLevels
<1>7. ASSUME NEW f \in Moments, f.h \in F.nums, Before(f, c)
      PROVE  Before(f, i)
  <2>1. PICK d \in Int, e \in Int, n \in 0..23 : d = f.day /\ e = i.day /\ n = f.h
    BY StampIsInt
  <2>2. HourStamp(f) = 24 * d + n /\ p = 24 * e + x
    BY <1>1, <1>5, <2>1 DEF HourStamp
  <2>3. HourStamp(f) < HourStamp(c)
    BY <1>4, <1>7, StampLevels
  <2>4. (24 * d + n) < (24 * e + x) + k
    BY <1>2a, <1>3, <1>4, <1>5, <2>2, <2>3
  <2>5. PICK D \in Int : D = d - e
    OBVIOUS
  <2>6. ~ (0 <= 24 * D + n - x /\ 24 * D + n - x < k)
    BY <1>2, <1>7, <2>1
  <2>7. 24 * d + n < 24 * e + x
    BY <2>4, <2>5, <2>6
  <2>8. HourStamp(f) < HourStamp(i)
    BY <1>5, <2>2, <2>7
  <2>. QED
    BY <2>8, StampLevels
<1>. QED
  BY <1>1, <1>2, <1>2a, <1>3, <1>4, <1>6, <1>7

\* proc_hour, backwards: the move is to an earlier moment, and no moment with a value of the field is passed.
LEMMA HourJumpPrev ==
    ASSUME NEW i \in Moments, NEW b \in Moments, NEW F, F.nums \in SUBSET (0..23),
           HourStamp(b) = HourStamp(i), b.mi = 59, b.s = 59,
           PrevDiff(i.h, F, 24) # 0
    PROVE  LET c == AddHours(b, PrevDiff(i.h, F, 24))
           IN  /\ c \in Moments
               /\ Before(c, i)
               /\ \A f \in Moments : f.h \in F.nums /\ Before(c, f) => Before(i, f)
<1>1. PICK x \in 0..23 : x = i.h
  BY StampIsInt
<1>2. PICK k \in Nat :
              /\ PrevDiff(x, F, 24) = -k
              /\ \A n \in F.nums, D \in Int : ~ (-k < 24 * D + n - x /\ 24 * D + n - x <= 0)
  BY HourGap
<1>2a. PICK g \in Int : g = -k
  OBVIOUS
<1>3. PICK c : c = AddHours(b, g)
  OBVIOUS
<1>4. c \in Moments /\ c.mi = 59 /\ c.s = 59 /\ HourStamp(c) = HourStamp(b) + g
  BY <1>2a, <1>3, AddHoursStamp
<1>5. PICK p \in Int : p = HourStamp(i) /\ p = HourStamp(b)
  BY StampIsInt
<1>6. Before(c, i)
  <2>1. k > 0
    BY <1>1, <1>2
  <2>. QED
    BY <1>2a, <1>3, <1>4, <1>5, <2>1, StampLevels
<1>7. ASSUME NEW f \in Moments, f.h \in F.nums, Before(c, f)
      PROVE  Before(i, f)
  <2>1. PICK d \in Int, e \in Int, n \in 0..23 : d = f.day /\ e = i.day /\ n = f.h
    BY StampIsInt
  <2>2. HourStamp(f) = 24 * d + n /\ p = 24 * e + x
    BY <1>1, <1>5, <2>1 DEF HourStamp
  <2>3. HourStamp(c) < HourStamp(f)
    BY <1>4, <1>7, StampLevels
  <2>4. (24 * e + x) - k < (24 * d + n)
    BY <1>2a, <1>3, <1>4, <1>5, <2>2, <2>3
  <2>5. PICK D \in Int : D = d - e
    OBVIOUS
  <2>6. ~ (-k < 24 * D + n - x /\ 24 * D + n - x <= 0)
    BY <1>2, <1>7, <2>1
  <2>7. 24 * e + x < 24 * d + n
    BY <2>4, <2>5, <2>6
  <2>8. HourStamp(i) < HourStamp(f)
    BY <1>5, <2>2, <2>7
  <2>. QED
    BY <2>8, StampLevels
<1>. QED
  BY <1>1, <1>2, <1>2a, <1>3, <1>4, <1>6, <1>7

\* proc_minute, forwards: the move is to a later moment, and no moment with a value of the field is passed.
LEMMA MinuteJumpNext ==
    ASSUME NEW i \in Moments, NEW b \in Moments, NEW F, F.nums \in SUBSET (0..59),
           MinuteStamp(b) = MinuteStamp(i), b.s = 0,
           NextDiff(i.mi, F, 60) # 0
    PROVE  LET c == AddMinutes(b, NextDiff(i.mi, F, 60))
           IN  /\ c \in Moments
               /\ Before(i, c)
               /\ \A f \in Moments : f.mi \in F.nums /\ Before(f, c) => Before(f, i)
<1>1. PICK x \in 0..59 : x = i.mi
  BY StampIsInt
<1>2. PICK k \in Nat :
              /\ NextDiff(x, F, 60) = k
              /\ \A n \in F.nums, D \in Int : ~ (0 <= 60 * D + n - x /\ 60 * D + n - x < k)
  BY MinuteGap
<1>2a. PICK g \in Int : g = k
  OBVIOUS
<1>3. PICK c : c = AddMinutes(b, g)
  OBVIOUS
<1>4. c \in Moments /\ c.s = 0 /\ MinuteStamp(c) = MinuteStamp(b) + g
  BY <1>2a, <1>3, AddMinutesStamp
<1>5. PICK p \in Int : p = MinuteStamp(i) /\ p = MinuteStamp(b)
  BY StampIsInt
<1>6. Before(i, c)
  <2>1. k > 0
    BY <1>1, <1>2
  <2>. QED
    BY <1>2a, <1>3, <1>4, <1>5, <2>1, StampLevels
<1>7. ASSUME NEW f \in Moments, f.mi \in F.nums, Before(f, c)
      PROVE  Before(f, i)
  <2>1. PICK d \in Int, e \in Int, n \in 0..59 : d = HourStamp(f) /\ e = HourStamp(i) /\ n = f.mi
    BY StampIsInt
  <2>2. MinuteStamp(f) = 60 * d + n /\ p = 60 * e + x
    BY <1>1, <1>5, <2>1 DEF MinuteStamp
  <2>3. MinuteStamp(f) < MinuteStamp(c)
    BY <1>4, <1>7, StampLevels
  <2>4. (60 * d + n) < (60 * e + x) + k
    BY <1>2a, <1>3, <1>4, <1>5, <2>2, <2>3
  <2>5. PICK D \in Int : D = d - e
    OBVIOUS
  <2>6. ~ (0 <= 60 * D + n - x /\ 60 * D + n - x < k)
    BY <1>2, <1>7, <2>1
  <2>7. 60 * d + n < 60 * e + x
    BY <2>4, <2>5, <2>6
  <2>8. MinuteStamp(f) < MinuteStamp(i)
    BY <1>5, <2>2, <2>7
  <2>. QED
    BY <2>8, StampLevels
<1>. QED
  BY <1>1, <1>2, <1>2a, <1>3, <1>4, <1>6, <1>7

\* proc_minute, backwards: the move is to an earlier moment, and no moment with a value of the field is passed.
LEMMA MinuteJumpPrev ==
    ASSUME NEW i \in Moments, NEW b \in Moments, NEW F, F.nums \in SUBSET (0..59),
           MinuteStamp(b) = MinuteStamp(i), b.s = 59,
           PrevDiff(i.mi, F, 60) # 0
    PROVE  LET c == AddMinutes(b, PrevDiff(i.mi, F, 60))
           IN  /\ c \in Moments
               /\ Before(c, i)
               /\ \A f \in Moments : f.mi \in F.nums /\ Before(c, f) => Before(i, f)
<1>1. PICK x \in 0..59 : x = i.mi
  BY StampIsInt
<1>2. PICK k \in Nat :
              /\ PrevDiff(x, F, 60) = -k
              /\ \A n \in F.nums, D \in Int : ~ (-k < 60 * D + n - x /\ 60 * D + n - x <= 0)
  BY MinuteGap
<1>2a. PICK g \in Int : g = -k
  OBVIOUS
<1>3. PICK c : c = AddMinutes(b, g)
  OBVIOUS
<1>4. c \in Moments /\ c.s = 59 /\ MinuteStamp(c) = MinuteStamp(b) + g
  BY <1>2a, <1>3, AddMinutesStamp
<1>5. PICK p \in Int : p = MinuteStamp(i) /\ p = MinuteStamp(b)
  BY StampIsInt
<1>6. Before(c, i)
  <2>1. k > 0
    BY <1>1, <1>2
  <2>. QED
    BY <1>2a, <1>3, <1>4, <1>5, <2>1, StampLevels
<1>7. ASSUME NEW f \in Moments, f.mi \in F.nums, Before(c, f)
      PROVE  Before(i, f)
  <2>1. PICK d \in Int, e \in Int, n \in 0..59 : d = HourStamp(f) /\ e = HourStamp(i) /\ n = f.mi
    BY StampIsInt
  <2>2. MinuteStamp(f) = 60 * d + n /\ p = 60 * e + x
    BY <1>1, <1>5, <2>1 DEF MinuteStamp
  <2>3. MinuteStamp(c) < MinuteStamp(f)
    BY <1>4, <1>7, StampLevels
  <2>4. (60 * e + x) - k < (60 * d + n)
    BY <1>2a, <1>3, <1>4, <1>5, <2>2, <2>3
  <2>5. PICK D \in Int : D = d - e
    OBVIOUS
  <2>6. ~ (-k < 60 * D + n - x /\ 60 * D + n - x <= 0)
    BY <1>2, <1>7, <2>1
  <2>7. 60 * e + x < 60 * d + n
    BY <2>4, <2>5, <2>6
  <2>8. MinuteStamp(i) < MinuteStamp(f)
    BY <1>5, <2>2, <2>7
  <2>. QED
    BY <2>8, StampLevels
<1>. QED
  BY <1>1, <1>2, <1>2a, <1>3, <1>4, <1>6, <1>7

\* proc_second, forwards: the move is to a later moment, and no moment with a value of the field is passed.
LEMMA SecondJumpNext ==
    ASSUME NEW i \in Moments, NEW b \in Moments, NEW F, F.nums \in SUBSET (0..59),
           Stamp(b) = Stamp(i),
           NextDiff(i.s, F, 60) # 0
    PROVE  LET c == AddSeconds(b, NextDiff(i.s, F, 60))
           IN  /\ c \in Moments
               /\ Before(i, c)
               /\ \A f \in Moments : f.s \in F.nums /\ Before(f, c) => Before(f, i)
<1>1. PICK x \in 0..59 : x = i.s
  BY StampIsInt
<1>2. PICK k \in Nat :
              /\ NextDiff(x, F, 60) = k
              /\ \A n \in F.nums, D \in Int : ~ (0 <= 60 * D + n - x /\ 60 * D + n - x < k)
  BY MinuteGap
<1>2a. PICK g \in Int : g = k
  OBVIOUS
<1>3. PICK c : c = AddSeconds(b, g)
  OBVIOUS
<1>4. c \in Moments /\ Stamp(c) = Stamp(b) + g
  BY <1>2a, <1>3, AddSecondsStamp
<1>5. PICK p \in Int : p = Stamp(i) /\ p = Stamp(b)
  BY StampIsInt
<1>6. Before(i, c)
  <2>1. k > 0
    BY <1>1, <1>2
  <2>. QED
    BY <1>2a, <1>3, <1>4, <1>5, <2>1, StampOrder
<1>7. ASSUME NEW f \in Moments, f.s \in F.nums, Before(f, c)
      PROVE  Before(f, i)
  <2>1. PICK d \in Int, e \in Int, n \in 0..59 : d = MinuteStamp(f) /\ e = MinuteStamp(i) /\ n = f.s
    BY StampIsInt
  <2>2. Stamp(f) = 60 * d + n /\ p = 60 * e + x
    BY <1>1, <1>5, <2>1 DEF Stamp
  <2>3. Stamp(f) < Stamp(c)
    BY <1>4, <1>7, StampOrder
  <2>4. (60 * d + n) < (60 * e + x) + k
    BY <1>2a, <1>3, <1>4, <1>5, <2>2, <2>3
  <2>5. PICK D \in Int : D = d - e
    OBVIOUS
  <2>6. ~ (0 <= 60 * D + n - x /\ 60 * D + n - x < k)
    BY <1>2, <1>7, <2>1
  <2>7. 60 * d + n < 60 * e + x
    BY <2>4, <2>5, <2>6
  <2>8. Stamp(f) < Stamp(i)
    BY <1>5, <2>2, <2>7
  <2>. QED
    BY <2>8, StampOrder
<1>. QED
  BY <1>1, <1>2, <1>2a, <1>3, <1>4, <1>6, <1>7

\* proc_second, backwards: the move is to an earlier moment, and no moment with a value of the field is passed.
LEMMA SecondJumpPrev ==
    ASSUME NEW i \in Moments, NEW b \in Moments, NEW F, F.nums \in SUBSET (0..59),
           Stamp(b) = Stamp(i),
           PrevDiff(i.s, F, 60) # 0
    PROVE  LET c == AddSeconds(b, PrevDiff(i.s, F, 60))
           IN  /\ c \in Moments
               /\ Before(c, i)
               /\ \A f \in Moments : f.s \in F.nums /\ Before(c, f) => Before(i, f)
<1>1. PICK x \in 0..59 : x = i.s
  BY StampIsInt
<1>2. PICK k \in Nat :
              /\ PrevDiff(x, F, 60) = -k
              /\ \A n \in F.nums, D \in Int : ~ (-k < 60 * D + n - x /\ 60 * D + n - x <= 0)
  BY MinuteGap
<1>2a. PICK g \in Int : g = -k
  OBVIOUS
<1>3. PICK c : c = AddSeconds(b, g)
  OBVIOUS
<1>4. c \in Moments /\ Stamp(c) = Stamp(b) + g
  BY <1>2a, <1>3, AddSecondsStamp
<1>5. PICK p \in Int : p = Stamp(i) /\ p = Stamp(b)
  BY StampIsInt
<1>6. Before(c, i)
  <2>1. k > 0
    BY <1>1, <1>2
  <2>. QED
    BY <1>2a, <1>3, <1>4, <1>5, <2>1, StampOrder
<1>7. ASSUME NEW f \in Moments, f.s \in F.nums, Before(c, f)
      PROVE  Before(i, f)
  <2>1. PICK d \in Int, e \in Int, n \in 0..59 : d = MinuteStamp(f) /\ e = MinuteStamp(i) /\ n = f.s
    BY StampIsInt
  <2>2. Stamp(f) = 60 * d + n /\ p = 60 * e + x
    BY <1>1, <1>5, <2>1 DEF Stamp
  <2>3. Stamp(c) < Stamp(f)
    BY <1>4, <1>7, StampOrder
  <2>4. (60 * e + x) - k < (60 * d + n)
    BY <1>2a, <1>3, <1>4, <1>5, <2>2, <2>3
  <2>5. PICK D \in Int : D = d - e
    OBVIOUS
  <2>6. ~ (-k < 60 * D + n - x /\ 60 * D + n - x <= 0)
    BY <1>2, <1>7, <2>1
  <2>7. 60 * e + x < 60 * d + n
    BY <2>4, <2>5, <2>6
  <2>8. Stamp(i) < Stamp(f)
    BY <1>5, <2>2, <2>7
  <2>. QED
    BY <2>8, StampOrder
<1>. QED
  BY <1>1, <1>2, <1>2a, <1>3, <1>4, <1>6, <1>7

(***************************************************************************)
(* The turns of the clock fields.                                          *)
(***************************************************************************)

\* proc_hour passes no fire and moves away.
LEMMA HourStep ==
    ASSUME Searching, ProcHour
    PROVE  StepOK
<1>1. /\ expr \in Exprs /\ cur \in Moments /\ isPrev \in BOOLEAN
  BY SearchingParts
<1>2. PICK b : b = [cur EXCEPT !.mi = Edge, !.s = Edge]
  OBVIOUS
<1>3. PICK c : c = AddHours(b, HourDiff)
  OBVIOUS
<1>4. /\ ~expr.hour.star
      /\ HourDiff = NearestDiff(cur.h, expr.hour, 24)
      /\ HourDiff # 0
      /\ MoveTo(c)
  BY <1>2, <1>3, Zenon DEF ProcHour, HourDiff
<1>5. b \in Moments /\ HourStamp(b) = HourStamp(cur) /\ b.mi = Edge /\ b.s = Edge
  <2>1. PICK d \in Int, h \in 0..23, mi \in 0..59, s \in 0..59 :
              cur = [day |-> d, h |-> h, mi |-> mi, s |-> s]
    BY <1>1, MomentParts
  <2>2. PICK z \in 0..59 : z = Edge
    BY DEF Edge
  <2>3. b = [day |-> d, h |-> h, mi |-> z, s |-> z]
    BY <1>2, <2>1, <2>2
  <2>. QED
    BY <2>1, <2>2, <2>3 DEF Moments, HourStamp
<1>6. expr.hour.nums \in SUBSET (0..23)
  BY <1>1, ExprFields
<1>7. /\ c \in Moments
      /\ Nearer(req, cur, c)
      /\ \A f \in Moments :
            f.h \in expr.hour.nums /\ Nearer(req, f, c) => Nearer(req, f, cur)
  <2>1. CASE ~isPrev
    <3>1. HourDiff = NextDiff(cur.h, expr.hour, 24) /\ b.mi = 0 /\ b.s = 0
      BY <1>4, <1>5, <2>1 DEF NearestDiff, Edge
    <3>. QED
      BY <1>1, <1>3, <1>4, <1>5, <1>6, <2>1, <3>1, HourJumpNext DEF Nearer, isPrev
  <2>2. CASE isPrev
    <3>1. HourDiff = PrevDiff(cur.h, expr.hour, 24) /\ b.mi = 59 /\ b.s = 59
      BY <1>4, <1>5, <2>2 DEF NearestDiff, Edge
    <3>. QED
      BY <1>1, <1>3, <1>4, <1>5, <1>6, <2>2, <3>1, HourJumpPrev DEF Nearer, isPrev
  <2>. QED
    BY <1>1, <2>1, <2>2
<1>8. ASSUME NEW f \in Instants, Fires(expr, f)
      PROVE  f \in Moments /\ f.h \in expr.hour.nums
  BY <1>4, <1>8, InstantIsMoment DEF Fires, Hours
<1>. QED
  BY <1>4, <1>7, <1>8, MoveStep

\* proc_minute passes no fire and moves away.
LEMMA MinuteStep ==
    ASSUME Searching, ProcMinute
    PROVE  StepOK
<1>1. /\ expr \in Exprs /\ cur \in Moments /\ isPrev \in BOOLEAN
  BY SearchingParts
<1>2. PICK b : b = [cur EXCEPT !.s = Edge]
  OBVIOUS
<1>3. PICK c : c = AddMinutes(b, MinuteDiff)
  OBVIOUS
<1>4. /\ ~expr.minute.star
      /\ MinuteDiff = NearestDiff(cur.mi, expr.minute, 60)
      /\ MinuteDiff # 0
      /\ MoveTo(c)
  BY <1>2, <1>3, Zenon DEF ProcMinute, MinuteDiff
<1>5. b \in Moments /\ MinuteStamp(b) = MinuteStamp(cur) /\ b.s = Edge
  <2>1. PICK d \in Int, h \in 0..23, mi \in 0..59, s \in 0..59 :
              cur = [day |-> d, h |-> h, mi |-> mi, s |-> s]
    BY <1>1, MomentParts
  <2>2. PICK z \in 0..59 : z = Edge
    BY DEF Edge
  <2>3. b = [day |-> d, h |-> h, mi |-> mi, s |-> z]
    BY <1>2, <2>1, <2>2
  <2>. QED
    BY <2>1, <2>2, <2>3 DEF Moments, HourStamp, MinuteStamp
<1>6. expr.minute.nums \in SUBSET (0..59)
  BY <1>1, ExprFields
<1>7. /\ c \in Moments
      /\ Nearer(req, cur, c)
      /\ \A f \in Moments :
            f.mi \in expr.minute.nums /\ Nearer(req, f, c) => Nearer(req, f, cur)
  <2>1. CASE ~isPrev
    <3>1. MinuteDiff = NextDiff(cur.mi, expr.minute, 60) /\ b.s = 0
      BY <1>4, <1>5, <2>1 DEF NearestDiff, Edge
    <3>. QED
      BY <1>1, <1>3, <1>4, <1>5, <1>6, <2>1, <3>1, MinuteJumpNext DEF Nearer, isPrev
  <2>2. CASE isPrev
    <3>1. MinuteDiff = PrevDiff(cur.mi, expr.minute, 60) /\ b.s = 59
      BY <1>4, <1>5, <2>2 DEF NearestDiff, Edge
    <3>. QED
      BY <1>1, <1>3, <1>4, <1>5, <1>6, <2>2, <3>1, MinuteJumpPrev DEF Nearer, isPrev
  <2>. QED
    BY <1>1, <2>1, <2>2
<1>8. ASSUME NEW f \in Instants, Fires(expr, f)
      PROVE  f \in Moments /\ f.mi \in expr.minute.nums
  BY <1>4, <1>8, InstantIsMoment DEF Fires, Minutes
<1>. QED
  BY <1>4, <1>7, <1>8, MoveStep

\* proc_second passes no fire and moves away.
LEMMA SecondStep ==
    ASSUME Searching, ProcSecond
    PROVE  StepOK
<1>1. /\ expr \in Exprs /\ cur \in Moments /\ isPrev \in BOOLEAN
  BY SearchingParts
<1>2. PICK b : b = cur
  OBVIOUS
<1>3. PICK c : c = AddSeconds(b, SecondDiff)
  OBVIOUS
<1>4. /\ expr.secs /\ ~expr.second.star
      /\ SecondDiff = NearestDiff(cur.s, expr.second, 60)
      /\ SecondDiff # 0
      /\ MoveTo(c)
  BY <1>2, <1>3, Zenon DEF ProcSecond, SecondDiff
<1>5. b \in Moments /\ Stamp(b) = Stamp(cur)
  BY <1>1, <1>2
<1>6. expr.second.nums \in SUBSET (0..59)
  BY <1>1, ExprFields
<1>7. /\ c \in Moments
      /\ Nearer(req, cur, c)
      /\ \A f \in Moments :
            f.s \in expr.second.nums /\ Nearer(req, f, c) => Nearer(req, f, cur)
  <2>1. CASE ~isPrev
    <3>1. SecondDiff = NextDiff(cur.s, expr.second, 60)
      BY <1>4, <1>5, <2>1 DEF NearestDiff
    <3>. QED
      BY <1>1, <1>3, <1>4, <1>5, <1>6, <2>1, <3>1, SecondJumpNext DEF Nearer, isPrev
  <2>2. CASE isPrev
    <3>1. SecondDiff = PrevDiff(cur.s, expr.second, 60)
      BY <1>4, <1>5, <2>2 DEF NearestDiff
    <3>. QED
      BY <1>1, <1>3, <1>4, <1>5, <1>6, <2>2, <3>1, SecondJumpPrev DEF Nearer, isPrev
  <2>. QED
    BY <1>1, <2>1, <2>2
<1>8. ASSUME NEW f \in Instants, Fires(expr, f)
      PROVE  f \in Moments /\ f.s \in expr.second.nums
  BY <1>4, <1>8, InstantIsMoment DEF Fires, Seconds
<1>. QED
  BY <1>4, <1>7, <1>8, MoveStep

(***************************************************************************)
(* The turns of the fields of the day.                                     *)
(***************************************************************************)

\* The days from the cursor to t, t excluded.
OnTheWay(t, u) ==
    IF isPrev THEN t < u /\ u <= cur.day ELSE cur.day <= u /\ u < t

\* A move to the edge of another day passes no fire when none of the days on
\* the way matches.
LEMMA DayStep ==
    ASSUME Searching, NEW t \in Int, MoveTo(EdgeOfDay(t)),
           IF isPrev THEN t < cur.day ELSE cur.day < t,
           \A u \in Days : OnTheWay(t, u) => ~ DayMatches(expr, u)
    PROVE  StepOK
<1>1. /\ expr \in Exprs /\ cur \in Moments /\ isPrev \in BOOLEAN
  BY SearchingParts
<1>2. PICK c : c = EdgeOfDay(t)
  OBVIOUS
<1>3. /\ isPrev => c = [day |-> t, h |-> 23, mi |-> 59, s |-> 59]
      /\ ~isPrev => c = [day |-> t, h |-> 0, mi |-> 0, s |-> 0]
  BY <1>2 DEF EdgeOfDay
<1>4. c \in Moments
  BY <1>1, <1>3 DEF Moments
<1>5. PICK x \in Int : x = cur.day
  BY <1>1, StampIsInt
<1>6. Nearer(req, cur, c)
  <2>1. CASE isPrev
    BY <1>3, <2>1 DEF Nearer, Before, isPrev
  <2>2. CASE ~isPrev
    BY <1>3, <2>2 DEF Nearer, Before, isPrev
  <2>. QED
    BY <1>1, <2>1, <2>2
<1>7. ASSUME NEW f \in Instants, Fires(expr, f), Nearer(req, f, c)
      PROVE  Nearer(req, f, cur)
  <2>1. f.day \in Days /\ DayMatches(expr, f.day)
    BY <1>1, <1>7 DEF Fires, FireDays
  <2>2. f \in Moments
    BY InstantIsMoment
  <2>3. PICK d \in Int, h \in 0..23, mi \in 0..59, s \in 0..59 :
              f = [day |-> d, h |-> h, mi |-> mi, s |-> s]
    BY <2>2, MomentParts
  <2>4. ~ OnTheWay(t, d)
    BY <2>1, <2>3
  <2>5. CASE isPrev
    <3>1. t < d
      BY <1>3, <1>7, <2>3, <2>5 DEF Nearer, Before, isPrev
    <3>2. x < d
      BY <1>5, <2>4, <2>5, <3>1 DEF OnTheWay
    <3>. QED
      BY <1>5, <2>3, <2>5, <3>2 DEF Nearer, Before, isPrev
  <2>6. CASE ~isPrev
    <3>1. d < t
      BY <1>3, <1>7, <2>3, <2>6 DEF Nearer, Before, isPrev
    <3>2. d < x
      BY <1>5, <2>4, <2>6, <3>1 DEF OnTheWay
    <3>. QED
      BY <1>5, <2>3, <2>6, <3>2 DEF Nearer, Before, isPrev
  <2>. QED
    BY <1>1, <2>5, <2>6
<1>. QED
  BY <1>2, <1>4, <1>6, <1>7, MoveStep

\* The months from the cursor's to m, m excluded.
MonthOnTheWay(m, u) ==
    IF isPrev THEN m < MonthOf[u] /\ MonthOf[u] <= month
              ELSE month <= MonthOf[u] /\ MonthOf[u] < m

\* A move to another month passes no fire when no day of the months on the
\* way matches.
LEMMA MonthStep ==
    ASSUME Searching, NEW m \in Int, MoveToMonth(m),
           IF isPrev THEN m < month ELSE month < m,
           \A u \in Days : MonthOnTheWay(m, u) => ~ DayMatches(expr, u)
    PROVE  StepOK
<1>1. /\ cur.day \in Days /\ isPrev \in BOOLEAN
  BY SearchingParts
<1>2. CASE m \notin Months
  <2>1. Fail("bad_type_range")
    BY <1>2 DEF MoveToMonth
  <2>2. ASSUME NEW f \in Instants, Fires(expr, f), IsAhead(req, f)
        PROVE  FALSE
    <3>1. ~ Nearer(req, f, cur) /\ expr \in Exprs
      BY <2>2, SearchingParts
    <3>2. /\ f.day \in Days /\ DayMatches(expr, f.day)
      BY <2>2, <3>1 DEF Fires, FireDays
    <3>3. PICK d \in Int, j \in Int, x \in Int, k \in Int :
             /\ d = f.day /\ j = MonthOf[f.day] /\ x = cur.day /\ k = month
             /\ j \in Months /\ k \in Months /\ k = MonthOf[cur.day]
      BY <1>1, <3>2, DayFields, MonthsAreNumbers DEF month
    <3>4. PICK a \in Int, b \in Int : Months = a..b
      BY MonthsAreNumbers
    <3>5. CASE isPrev
      <4>1. d <= x
        BY <3>1, <3>3, <3>5 DEF Nearer, Before, isPrev
      <4>2. j <= k
        BY <1>1, <3>2, <3>3, <4>1, MonthOrder
      <4>3. m < j
        BY <1>2, <3>3, <3>4, <3>5
      <4>. QED
        BY <3>2, <3>3, <3>5, <4>2, <4>3 DEF MonthOnTheWay
    <3>6. CASE ~isPrev
      <4>1. x <= d
        BY <3>1, <3>3, <3>6 DEF Nearer, Before, isPrev
      <4>2. k <= j
        BY <1>1, <3>2, <3>3, <4>1, MonthOrder
      <4>3. j < m
        BY <1>2, <3>3, <3>4, <3>6
      <4>. QED
        BY <3>2, <3>3, <3>6, <4>2, <4>3 DEF MonthOnTheWay
    <3>. QED
      BY <1>1, <3>5, <3>6
  <2>. QED
    BY <2>1, <2>2, FailStep DEF Errors, NothingLeft
<1>3. CASE m \in Months /\ isPrev
  <2>1. /\ m + 1 \in FirstMonth .. (LastMonth + 1) /\ MonthStart[m + 1] \in Int
    BY <1>3, MonthStartNext
  <2>2. PICK t \in Int : t = MonthStart[m + 1] - 1
    BY <2>1
  <2>3. MoveTo(EdgeOfDay(t))
    BY <1>3, <2>2 DEF MoveToMonth
  <2>4. ASSUME NEW u \in Days
        PROVE  u <= t <=> MonthOf[u] <= m
    <3>1. u < MonthStart[m + 1] <=> MonthOf[u] < m + 1
      BY <2>1, MonthBound
    <3>2. u \in Int /\ MonthOf[u] \in Int
      BY DayFields, MonthsAreNumbers
    <3>. QED
      BY <2>1, <2>2, <3>1, <3>2
  <2>5. cur.day \in Int /\ month \in Int /\ month = MonthOf[cur.day]
    BY <1>1, DayFields, MonthsAreNumbers DEF month
  <2>6. t < cur.day
    BY <1>1, <1>3, <2>4, <2>5
  <2>7. ASSUME NEW u \in Days, OnTheWay(t, u)
        PROVE  ~ DayMatches(expr, u)
    <3>1. u \in Int /\ MonthOf[u] \in Int
      BY DayFields, MonthsAreNumbers
    <3>2. m < MonthOf[u]
      BY <1>3, <2>4, <2>7, <3>1 DEF OnTheWay
    <3>3. MonthOf[u] <= month
      BY <1>1, <1>3, <2>5, <2>7, MonthOrder DEF OnTheWay
    <3>. QED
      BY <1>3, <3>2, <3>3 DEF MonthOnTheWay
  <2>. QED
    BY <1>3, <2>3, <2>6, <2>7, DayStep
<1>4. CASE m \in Months /\ ~isPrev
  <2>1. /\ m \in FirstMonth .. (LastMonth + 1) /\ MonthStart[m] \in Int
    BY <1>4, MonthStartNext
  <2>2. PICK t \in Int : t = MonthStart[m]
    BY <2>1
  <2>3. MoveTo(EdgeOfDay(t))
    BY <1>4, <2>2 DEF MoveToMonth
  <2>4. \A u \in Days : u < t <=> MonthOf[u] < m
    BY <2>1, <2>2, MonthBound
  <2>5. cur.day \in Int /\ month \in Int /\ month = MonthOf[cur.day]
    BY <1>1, DayFields, MonthsAreNumbers DEF month
  <2>6. cur.day < t
    BY <1>1, <1>4, <2>4, <2>5
  <2>7. ASSUME NEW u \in Days, OnTheWay(t, u)
        PROVE  ~ DayMatches(expr, u)
    <3>1. MonthOf[u] < m
      BY <1>4, <2>4, <2>7 DEF OnTheWay
    <3>2. month <= MonthOf[u]
      BY <1>1, <1>4, <2>5, <2>7, MonthOrder DEF OnTheWay
    <3>. QED
      BY <1>4, <3>1, <3>2 DEF MonthOnTheWay
  <2>. QED
    BY <1>4, <2>3, <2>6, <2>7, DayStep
<1>. QED
  BY <1>1, <1>2, <1>3, <1>4

\* The nearest value of a set on the asked side of x: none is nearer.
LEMMA NearestAhead ==
    ASSUME isPrev \in BOOLEAN, NEW b \in Nat, NEW x \in Int,
           NEW S, \A n \in S : n \in Nat /\ n <= b, Ahead(x, S) # {}
    PROVE  \E z \in Int :
              /\ z = Nearest(Ahead(x, S))
              /\ z \in S
              /\ IF isPrev THEN z <= x ELSE x <= z
              /\ \A n \in S :
                    IF isPrev THEN ~ (z < n /\ n <= x) ELSE ~ (x <= n /\ n < z)
<1>1. PICK A : A = Ahead(x, S)
  OBVIOUS
<1>2. A \in SUBSET (0..b) /\ A \in SUBSET Nat /\ A # {}
  <2>1. \A n \in A : n \in S
    BY <1>1 DEF Ahead
  <2>2. \A n \in S : n \in 0..b /\ n \in Nat
    <3>1. \A n \in Nat : n <= b => n \in 0..b
      OBVIOUS
    <3>. QED
      BY <3>1
  <2>. QED
    BY <1>1, <2>1, <2>2
<1>3. CASE isPrev
  <2>1. Max(A) \in A /\ \A n \in A : n <= Max(A)
    BY <1>2, MaxIsGreatest
  <2>2. PICK z \in Nat : z = Max(A)
    BY <1>2, <2>1
  <2>3. z = Nearest(A)
    BY <1>3, <2>2 DEF Nearest
  <2>4. z \in S /\ z <= x
    BY <1>1, <1>3, <2>1, <2>2 DEF Ahead
  <2>5. ASSUME NEW n \in S PROVE ~ (z < n /\ n <= x)
    <3>1. PICK v \in Nat : v = n
      OBVIOUS
    <3>2. v <= x => v <= z
      BY <1>1, <1>3, <2>1, <2>2, <3>1 DEF Ahead
    <3>. QED
      BY <3>1, <3>2
  <2>. QED
    BY <1>1, <1>3, <2>3, <2>4, <2>5
<1>4. CASE ~isPrev
  <2>1. Min(A) \in A /\ \A n \in A : Min(A) <= n
    BY <1>2, MinIsLeast
  <2>2. PICK z \in Nat : z = Min(A)
    BY <1>2, <2>1
  <2>3. z = Nearest(A)
    BY <1>4, <2>2 DEF Nearest
  <2>4. z \in S /\ x <= z
    BY <1>1, <1>4, <2>1, <2>2 DEF Ahead
  <2>5. ASSUME NEW n \in S PROVE ~ (x <= n /\ n < z)
    <3>1. PICK v \in Nat : v = n
      OBVIOUS
    <3>2. x <= v => z <= v
      BY <1>1, <1>4, <2>1, <2>2, <3>1 DEF Ahead
    <3>. QED
      BY <3>1, <3>2
  <2>. QED
    BY <1>1, <1>4, <2>3, <2>4, <2>5
<1>. QED
  BY <1>3, <1>4

\* proc_year passes no fire: the years skipped are not listed.
LEMMA YearStep ==
    ASSUME Searching, ProcYear
    PROVE  StepOK
<1>1. /\ expr \in Exprs /\ cur.day \in Days /\ isPrev \in BOOLEAN
  BY SearchingParts
<1>2. PICK y \in Int, m \in Int : y = YearOf(cur.day) /\ m = month /\ 12 * y <= m /\ m < 12 * y + 12
  <2>1. PICK m \in Int : m = MonthOf[cur.day]
    BY <1>1, DayFields, MonthsAreNumbers
  <2>2. m \div 12 \in Int /\ 12 * (m \div 12) <= m /\ m < 12 * (m \div 12) + 12
    OBVIOUS
  <2>. QED
    BY <2>1, <2>2 DEF month, YearOf, MonthYear
<1>3. /\ ~expr.year.star /\ YearsAhead # {}
      /\ YearDiff = Nearest(YearsAhead) - YearOf(cur.day) /\ YearDiff # 0
      /\ MoveToMonth(MonthIndex(YearOf(cur.day) + YearDiff, IF isPrev THEN 12 ELSE 1))
  BY DEF ProcYear, YearLeft, YearDiff
<1>4. PICK b \in Nat : \A n \in expr.year.nums : n \in Nat /\ n <= b
  <2>1. expr.year.nums \in SUBSET (1970..2099)
    BY <1>1, ExprFields
  <2>2. PICK b \in Nat : b = 2099
    OBVIOUS
  <2>3. \A n \in 1970..2099 : n \in Nat /\ n <= b
    BY <2>2
  <2>4. \A n \in expr.year.nums : n \in Nat /\ n <= b
    BY <2>1, <2>3
  <2>. QED
    BY <2>4
<1>5. PICK z \in Int :
              /\ z = Nearest(YearsAhead)
              /\ IF isPrev THEN z <= y ELSE y <= z
              /\ \A n \in expr.year.nums :
                    IF isPrev THEN ~ (z < n /\ n <= y) ELSE ~ (y <= n /\ n < z)
  <2>1. YearsAhead = Ahead(y, expr.year.nums)
    BY <1>2 DEF YearsAhead
  <2>2. Ahead(y, expr.year.nums) # {}
    BY <1>3, <2>1
  <2>. QED
    BY <1>1, <1>4, <2>1, <2>2, NearestAhead
<1>6. z # y /\ (IF isPrev THEN z <= y ELSE y <= z) /\ YearOf(cur.day) + YearDiff = z
  BY <1>2, <1>3, <1>5
<1>7. PICK k \in Int : k = 12 * z + (IF isPrev THEN 11 ELSE 0)
  OBVIOUS
<1>8. MoveToMonth(k)
  <2>1. MonthIndex(z, IF isPrev THEN 12 ELSE 1) = k
    BY <1>1, <1>7 DEF MonthIndex
  <2>. QED
    BY <1>3, <1>6, <2>1
<1>9. IF isPrev THEN k < month ELSE month < k
  BY <1>1, <1>2, <1>6, <1>7
<1>10. ASSUME NEW u \in Days, MonthOnTheWay(k, u)
       PROVE  ~ DayMatches(expr, u)
  <2>1. PICK j \in Int, v \in Int : j = MonthOf[u] /\ v = YearOf(u) /\ 12 * v <= j /\ j < 12 * v + 12
    <3>1. PICK j \in Int : j = MonthOf[u]
      BY DayFields, MonthsAreNumbers
    <3>2. j \div 12 \in Int /\ 12 * (j \div 12) <= j /\ j < 12 * (j \div 12) + 12
      OBVIOUS
    <3>. QED
      BY <3>1, <3>2 DEF YearOf, MonthYear
  <2>2. IF isPrev THEN z < v /\ v <= y ELSE y <= v /\ v < z
    <3>1. CASE isPrev
      <4>1. k < j /\ j <= m
        BY <1>2, <1>10, <2>1, <3>1 DEF MonthOnTheWay
      <4>2. k = 12 * z + 11
        BY <1>7, <3>1
      <4>. QED
        BY <1>2, <2>1, <3>1, <4>1, <4>2
    <3>2. CASE ~isPrev
      <4>1. m <= j /\ j < k
        BY <1>2, <1>10, <2>1, <3>2 DEF MonthOnTheWay
      <4>2. k = 12 * z
        BY <1>7, <3>2
      <4>. QED
        BY <1>2, <2>1, <3>2, <4>1, <4>2
    <3>. QED
      BY <1>1, <3>1, <3>2
  <2>3. v \notin expr.year.nums
    BY <1>1, <1>5, <2>2
  <2>. QED
    BY <1>3, <2>1, <2>3 DEF DayMatches, YearMatches
<1>. QED
  BY <1>8, <1>9, <1>10, MonthStep

\* proc_month passes no fire: the months skipped are not listed.
LEMMA MonthFieldStep ==
    ASSUME Searching, ProcMonth
    PROVE  StepOK
<1>1. /\ expr \in Exprs /\ cur.day \in Days /\ isPrev \in BOOLEAN
  BY SearchingParts
<1>2. ASSUME NEW u \in Days
      PROVE  \E j \in Int, q \in Int, x \in 1..12 :
                j = MonthOf[u] /\ x = MonthNoOf(u) /\ j = 12 * q + x - 1
  <2>1. PICK j \in Int : j = MonthOf[u]
    BY DayFields, MonthsAreNumbers
  <2>2. j \div 12 \in Int /\ (j % 12) + 1 \in 1..12 /\ j = 12 * (j \div 12) + ((j % 12) + 1) - 1
    OBVIOUS
  <2>. QED
    BY <2>1, <2>2 DEF MonthNoOf, MonthNumber
<1>3. PICK m \in Int, q \in Int, x \in 1..12 :
              m = month /\ x = MonthNoOf(cur.day) /\ m = 12 * q + x - 1
  BY <1>1, <1>2 DEF month
<1>4. /\ ~expr.month.star
      /\ MonthDiff = NearestDiff(x, expr.month, 12) /\ MonthDiff # 0
      /\ MoveToMonth(m + MonthDiff)
  BY <1>3 DEF ProcMonth, MonthDiff, MonthNoOf, month
<1>5. expr.month.nums \in SUBSET (1..12)
  BY <1>1, ExprFields
<1>6. CASE isPrev
  <2>1. PICK k \in Nat :
              /\ PrevDiff(x, expr.month, 12) = -k
              /\ \A n \in expr.month.nums, D \in Int :
                    ~ (-k < 12 * D + n - x /\ 12 * D + n - x <= 0)
    BY <1>5, MonthGap
  <2>2. PICK t \in Int : t = m - k /\ t = m + MonthDiff /\ t < m
    <3>1. MonthDiff = -k
      BY <1>4, <1>6, <2>1 DEF NearestDiff
    <3>2. m - k = m + (-k) /\ m - k \in Int
      OBVIOUS
    <3>3. k # 0
      BY <1>4, <3>1
    <3>. QED
      BY <3>1, <3>2, <3>3
  <2>3. ASSUME NEW u \in Days, MonthOnTheWay(t, u)
        PROVE  ~ DayMatches(expr, u)
    <3>1. PICK j \in Int, p \in Int, n \in 1..12 :
                j = MonthOf[u] /\ n = MonthNoOf(u) /\ j = 12 * p + n - 1
      BY <1>2
    <3>2. t < j /\ j <= m
      BY <1>3, <1>6, <2>3, <3>1 DEF MonthOnTheWay
    <3>3. PICK D \in Int : D = p - q
      OBVIOUS
    <3>4. -k < 12 * D + n - x /\ 12 * D + n - x <= 0
      BY <1>3, <2>2, <3>1, <3>2, <3>3
    <3>5. n \notin expr.month.nums
      BY <2>1, <3>4
    <3>. QED
      BY <1>4, <3>1, <3>5 DEF DayMatches, MonthMatches
  <2>. QED
    BY <1>3, <1>4, <1>6, <2>2, <2>3, MonthStep
<1>7. CASE ~isPrev
  <2>1. PICK k \in Nat :
              /\ NextDiff(x, expr.month, 12) = k
              /\ \A n \in expr.month.nums, D \in Int :
                    ~ (0 <= 12 * D + n - x /\ 12 * D + n - x < k)
    BY <1>5, MonthGap
  <2>2. PICK t \in Int : t = m + k /\ t = m + MonthDiff /\ m < t
    <3>1. MonthDiff = k
      BY <1>4, <1>7, <2>1 DEF NearestDiff
    <3>2. k # 0
      BY <1>4, <3>1
    <3>. QED
      BY <3>1, <3>2
  <2>3. ASSUME NEW u \in Days, MonthOnTheWay(t, u)
        PROVE  ~ DayMatches(expr, u)
    <3>1. PICK j \in Int, p \in Int, n \in 1..12 :
                j = MonthOf[u] /\ n = MonthNoOf(u) /\ j = 12 * p + n - 1
      BY <1>2
    <3>2. m <= j /\ j < t
      BY <1>3, <1>7, <2>3, <3>1 DEF MonthOnTheWay
    <3>3. PICK D \in Int : D = p - q
      OBVIOUS
    <3>4. 0 <= 12 * D + n - x /\ 12 * D + n - x < k
      BY <1>3, <2>2, <3>1, <3>2, <3>3
    <3>5. n \notin expr.month.nums
      BY <2>1, <3>4
    <3>. QED
      BY <1>4, <3>1, <3>5 DEF DayMatches, MonthMatches
  <2>. QED
    BY <1>3, <1>4, <1>7, <2>2, <2>3, MonthStep
<1>. QED
  BY <1>1, <1>6, <1>7

\* proc_day_of_week passes no fire: the weekdays skipped are not listed.
LEMMA WeekdayStep ==
    ASSUME Searching, ProcDayOfWeek
    PROVE  StepOK
<1>1. /\ expr \in Exprs /\ cur.day \in Days /\ isPrev \in BOOLEAN /\ ~expr.either
  BY SearchingParts
<1>2. ASSUME NEW u \in Days
      PROVE  \E j \in Int, q \in Int, x \in 0..6 : j = u /\ x = DowOf(u) /\ j = 7 * q + x - 1
  <2>1. PICK j \in Int : j = u
    BY DayFields
  <2>2. (j + 1) \div 7 \in Int /\ (j + 1) % 7 \in 0..6 /\ j = 7 * ((j + 1) \div 7) + ((j + 1) % 7) - 1
    OBVIOUS
  <2>. QED
    BY <2>1, <2>2 DEF DowOf
<1>3. PICK m \in Int, q \in Int, x \in 0..6 :
              m = cur.day /\ x = DowOf(cur.day) /\ m = 7 * q + x - 1
  BY <1>1, <1>2
<1>4. /\ ~expr.dow.star /\ expr.nth = {}
      /\ DayOfWeekDiff = NearestDiff(x, expr.dow, 7) /\ DayOfWeekDiff # 0
      /\ MoveTo(EdgeOfDay(m + DayOfWeekDiff))
  BY <1>3 DEF ProcDayOfWeek, DayOfWeekDiff, MoveByDays
<1>5. expr.dow.nums \in SUBSET (0..6)
  BY <1>1, ExprFields
<1>6. CASE isPrev
  <2>1. PICK k \in Nat :
              /\ PrevDiff(x, expr.dow, 7) = -k
              /\ \A n \in expr.dow.nums, D \in Int :
                    ~ (-k < 7 * D + n - x /\ 7 * D + n - x <= 0)
    BY <1>5, WeekdayGap
  <2>2. PICK t \in Int : t = m - k /\ t = m + DayOfWeekDiff /\ t < m
    <3>1. DayOfWeekDiff = -k
      BY <1>4, <1>6, <2>1 DEF NearestDiff
    <3>2. m - k = m + (-k) /\ m - k \in Int
      OBVIOUS
    <3>3. k # 0
      BY <1>4, <3>1
    <3>. QED
      BY <3>1, <3>2, <3>3
  <2>3. ASSUME NEW u \in Days, OnTheWay(t, u)
        PROVE  ~ DayMatches(expr, u)
    <3>1. PICK j \in Int, p \in Int, n \in 0..6 : j = u /\ n = DowOf(u) /\ j = 7 * p + n - 1
      BY <1>2
    <3>2. t < j /\ j <= m
      BY <1>3, <1>6, <2>3, <3>1 DEF OnTheWay
    <3>3. PICK D \in Int : D = p - q
      OBVIOUS
    <3>4. -k < 7 * D + n - x /\ 7 * D + n - x <= 0
      BY <1>3, <2>2, <3>1, <3>2, <3>3
    <3>5. n \notin expr.dow.nums
      BY <2>1, <3>4
    <3>. QED
      BY <1>1, <1>4, <3>1, <3>5 DEF DayMatches, DowMatches
  <2>. QED
    BY <1>3, <1>4, <1>6, <2>2, <2>3, DayStep
<1>7. CASE ~isPrev
  <2>1. PICK k \in Nat :
              /\ NextDiff(x, expr.dow, 7) = k
              /\ \A n \in expr.dow.nums, D \in Int :
                    ~ (0 <= 7 * D + n - x /\ 7 * D + n - x < k)
    BY <1>5, WeekdayGap
  <2>2. PICK t \in Int : t = m + k /\ t = m + DayOfWeekDiff /\ m < t
    <3>1. DayOfWeekDiff = k
      BY <1>4, <1>7, <2>1 DEF NearestDiff
    <3>2. k # 0
      BY <1>4, <3>1
    <3>. QED
      BY <3>1, <3>2
  <2>3. ASSUME NEW u \in Days, OnTheWay(t, u)
        PROVE  ~ DayMatches(expr, u)
    <3>1. PICK j \in Int, p \in Int, n \in 0..6 : j = u /\ n = DowOf(u) /\ j = 7 * p + n - 1
      BY <1>2
    <3>2. m <= j /\ j < t
      BY <1>3, <1>7, <2>3, <3>1 DEF OnTheWay
    <3>3. PICK D \in Int : D = p - q
      OBVIOUS
    <3>4. 0 <= 7 * D + n - x /\ 7 * D + n - x < k
      BY <1>3, <2>2, <3>1, <3>2, <3>3
    <3>5. n \notin expr.dow.nums
      BY <2>1, <3>4
    <3>. QED
      BY <1>1, <1>4, <3>1, <3>5 DEF DayMatches, DowMatches
  <2>. QED
    BY <1>3, <1>4, <1>7, <2>2, <2>3, DayStep
<1>. QED
  BY <1>1, <1>6, <1>7

\* A day and its month in numbers: month k begins on day v and has len days,
\* the n-th of which is u.
LEMMA DayParts ==
    ASSUME NEW u \in Days
    PROVE  \E j \in Int, k \in Int, v \in Int, n \in 1..31, len \in 28..31 :
              /\ j = u /\ k = MonthOf[u] /\ v = MonthStart[k] /\ n = DomOf(u)
              /\ len = MonthLength(k) /\ MonthStart[k + 1] = v + len
              /\ k \in FirstMonth .. (LastMonth + 1)
              /\ k + 1 \in FirstMonth .. (LastMonth + 1)
              /\ j = v + n - 1 /\ n <= len
<1>1. PICK j \in Int, k \in Int : j = u /\ k = MonthOf[u] /\ k \in Months
  BY DayFields, MonthsAreNumbers
<1>2. PICK v \in Int, len \in 28..31 :
              /\ v = MonthStart[k] /\ len = MonthLength(k) /\ MonthStart[k + 1] = v + len
              /\ k \in FirstMonth .. (LastMonth + 1)
              /\ k + 1 \in FirstMonth .. (LastMonth + 1)
  BY <1>1, MonthStartNext
<1>3. v <= j /\ j < v + len
  BY <1>1, <1>2, MonthOfDay
<1>4. PICK n \in 1..31 : n = j - v + 1
  BY <1>3
<1>5. n = DomOf(u) /\ j = v + n - 1 /\ n <= len
  BY <1>1, <1>2, <1>3, <1>4 DEF DomOf
<1>. QED
  BY <1>1, <1>2, <1>5

\* proc_day_of_month passes no fire, over the end of the month and, when
\* that month lacks the day, over the next one.
LEMMA DayOfMonthStep ==
    ASSUME Searching, ProcDayOfMonth
    PROVE  StepOK
<1>1. /\ expr \in Exprs /\ cur.day \in Days /\ isPrev \in BOOLEAN /\ ~expr.either
  BY SearchingParts
<1>2. PICK i \in Int, m \in Int, s \in Int, x \in 1..31, L \in 28..31 :
              /\ i = cur.day /\ m = MonthOf[cur.day] /\ s = MonthStart[m] /\ x = DomOf(cur.day)
              /\ L = MonthLength(m) /\ MonthStart[m + 1] = s + L
              /\ m \in FirstMonth .. (LastMonth + 1)
              /\ m + 1 \in FirstMonth .. (LastMonth + 1)
              /\ i = s + x - 1 /\ x <= L
  BY <1>1, DayParts
<1>2a. i = s + x - 1 /\ x <= L
  BY <1>2
<1>3. month = m /\ dom = x
  BY <1>2 DEF month, dom
<1>4. PICK P \in 28..31 : P = MonthLength(m - 1)
  BY MonthLengthRange
<1>5. /\ expr.w = {} /\ ~expr.day.star
      /\ ~ (expr.day.last /\ x = L)
      /\ DayOfMonthDiff = NearestDiff(x, expr.day, IF isPrev THEN P ELSE L)
      /\ DayOfMonthDiff # 0
      /\ MoveTo(EdgeOfDay(i + DayOfMonthDiff))
  BY <1>2, <1>3, <1>4 DEF ProcDayOfMonth, DayOfMonthDiff, MoveByDays
<1>6. expr.day.nums \in SUBSET (1..31) /\ expr.day.nums \in SUBSET Nat
  <2>1. expr.day.nums \in SUBSET (1..31)
    BY <1>1, ExprFields
  <2>2. \A n \in 1..31 : n \in Nat
    OBVIOUS
  <2>. QED
    BY <2>1, <2>2
<1>7. ASSUME NEW u \in Days, DayMatches(expr, u)
      PROVE  DomOf(u) \in expr.day.nums \/ (expr.day.last /\ DomOf(u) = MonthLength(MonthOf[u]))
  BY <1>1, <1>5, <1>7 DEF DayMatches, DomMatches, IsLastOfMonth
<1>8. CASE isPrev
  <2>1. PICK k \in Nat :
              /\ PrevDiff(x, expr.day, P) = -k
              /\ k <= x + P
              /\ expr.day.last => k <= x
              /\ \A n \in expr.day.nums : /\ x < n \/ n <= x - k
                                          /\ P < n \/ n <= x - k + P
    <3>1. x \in Nat /\ P \in Nat
      OBVIOUS
    <3>. QED
      BY <1>6, <3>1, PrevGap
  <2>2. PICK t \in Int : t = i - k /\ t = i + DayOfMonthDiff /\ t < i
    <3>1. DayOfMonthDiff = -k
      BY <1>5, <1>8, <2>1 DEF NearestDiff
    <3>2. i - k = i + (-k) /\ i - k \in Int
      OBVIOUS
    <3>3. k # 0
      BY <1>5, <3>1
    <3>. QED
      BY <3>1, <3>2, <3>3
  <2>2a. t = i - k
    BY <2>2
  <2>3. ASSUME NEW u \in Days, OnTheWay(t, u), DayMatches(expr, u)
        PROVE  FALSE
    <3>1. PICK j \in Int, l \in Int, v \in Int, n \in 1..31, len \in 28..31 :
              /\ j = u /\ l = MonthOf[u] /\ v = MonthStart[l] /\ n = DomOf(u)
              /\ len = MonthLength(l) /\ MonthStart[l + 1] = v + len
              /\ l \in FirstMonth .. (LastMonth + 1)
              /\ j = v + n - 1 /\ n <= len
      BY DayParts
    <3>1a. j = v + n - 1 /\ n <= len
      BY <3>1
    <3>2. t < j /\ j <= i
      BY <1>2, <1>8, <2>3, <3>1 DEF OnTheWay
    <3>3. n \in expr.day.nums \/ (expr.day.last /\ n = len)
      BY <1>7, <2>3, <3>1
    <3>4. CASE l = m
      <4>1. v = s /\ len = L
        BY <1>2, <3>1, <3>4
      <4>2. n <= x /\ x - k < n
        BY <1>2a, <2>2a, <3>1a, <3>2, <4>1
      <4>3. n \notin expr.day.nums
        BY <2>1, <4>2
      <4>4. n = L => x = L
        BY <1>2a, <4>2
      <4>. QED
        BY <1>5, <3>3, <4>1, <4>3, <4>4
    <3>5. CASE l # m
      <4>1. l < m
        <5>1. l <= m
          BY <1>1, <1>2, <3>1, <3>2, MonthOrder
        <5>. QED
          BY <3>5, <5>1
      <4>2. j < s
        BY <1>2, <3>1, <4>1, MonthBound
      <4>3. ~expr.day.last
        <5>1. ~ (k <= x)
          BY <1>2a, <2>2a, <3>2, <4>2
        <5>. QED
          BY <2>1, <5>1
      <4>4. PICK h \in Int : h = m - 1
        OBVIOUS
      <4>5. h \in Months
        <5>1. PICK a \in Int, b \in Int : a = FirstMonth /\ b = LastMonth
          BY MonthsAreNumbers
        <5>2. l \in a .. (b + 1) /\ m \in a .. (b + 1)
          BY <1>2, <3>1, <5>1
        <5>3. h \in a..b
          BY <4>1, <4>4, <5>2
        <5>. QED
          BY <5>1, <5>3, MonthsAreNumbers
      <4>6. h \in FirstMonth .. (LastMonth + 1) /\ MonthStart[h] \in Int
            /\ MonthStart[h + 1] = MonthStart[h] + P
        BY <1>4, <4>4, <4>5, MonthStartNext
      <4>7. PICK g \in Int : g = MonthStart[h] /\ s = g + P
        <5>1. h + 1 = m
          BY <4>4
        <5>. QED
          BY <1>2, <4>6, <5>1
      <4>8. ~ (j < g)
        BY <1>2a, <2>1, <2>2a, <3>2, <4>7
      <4>9. ~ (l < h)
        BY <3>1, <4>6, <4>7, <4>8, MonthBound
      <4>10. l = h
        BY <4>1, <4>4, <4>9
      <4>11. v = g /\ len = P
        BY <1>4, <3>1, <4>4, <4>7, <4>10
      <4>12. n <= P /\ x - k + P < n
        BY <1>2a, <2>2a, <3>1a, <3>2, <4>7, <4>11
      <4>. QED
        BY <2>1, <3>3, <4>3, <4>12
    <3>. QED
      BY <3>4, <3>5
  <2>. QED
    BY <1>2, <1>5, <1>8, <2>2, <2>3, DayStep
<1>9. CASE ~isPrev
  <2>1. PICK k \in Nat :
              /\ NextDiff(x, expr.day, L) = k
              /\ expr.day.last => x + k <= L
              /\ \A n \in expr.day.nums : /\ n < x \/ x + k <= n \/ L < n
                                          /\ x + k <= L + n
    <3>1. x \in 0..L /\ L \in Nat
      BY <1>2a
    <3>. QED
      BY <1>6, <3>1, NextGap
  <2>2. PICK t \in Int : t = i + k /\ t = i + DayOfMonthDiff /\ i < t
    <3>1. DayOfMonthDiff = k
      BY <1>5, <1>9, <2>1 DEF NearestDiff
    <3>2. k # 0
      BY <1>5, <3>1
    <3>. QED
      BY <3>1, <3>2
  <2>2a. t = i + k
    BY <2>2
  <2>3. ASSUME NEW u \in Days, OnTheWay(t, u), DayMatches(expr, u)
        PROVE  FALSE
    <3>1. PICK j \in Int, l \in Int, v \in Int, n \in 1..31, len \in 28..31 :
              /\ j = u /\ l = MonthOf[u] /\ v = MonthStart[l] /\ n = DomOf(u)
              /\ len = MonthLength(l) /\ MonthStart[l + 1] = v + len
              /\ l \in FirstMonth .. (LastMonth + 1)
              /\ j = v + n - 1 /\ n <= len
      BY DayParts
    <3>1a. j = v + n - 1 /\ n <= len
      BY <3>1
    <3>2. i <= j /\ j < t
      BY <1>2, <1>9, <2>3, <3>1 DEF OnTheWay
    <3>3. n \in expr.day.nums \/ (expr.day.last /\ n = len)
      BY <1>7, <2>3, <3>1
    <3>4. CASE l = m
      <4>1. v = s /\ len = L
        BY <1>2, <3>1, <3>4
      <4>2. x <= n /\ n < x + k /\ n <= L
        BY <1>2a, <2>2a, <3>1a, <3>2, <4>1
      <4>3. n \notin expr.day.nums
        BY <2>1, <4>2
      <4>4. ~ (expr.day.last /\ n = L)
        BY <2>1, <4>2
      <4>. QED
        BY <3>3, <4>1, <4>3, <4>4
    <3>5. CASE l # m
      <4>1. m < l
        <5>1. m <= l
          BY <1>1, <1>2, <3>1, <3>2, MonthOrder
        <5>. QED
          BY <3>5, <5>1
      <4>2. s + L <= v
        <5>1. m + 1 = l \/ m + 1 < l
          BY <4>1
        <5>2. m + 1 < l => MonthStart[m + 1] < MonthStart[l]
          BY <1>2, <3>1, MonthsOrdered
        <5>3. PICK y \in Int : y = s + L
          OBVIOUS
        <5>4. y = MonthStart[m + 1] /\ v = MonthStart[l]
          BY <1>2, <3>1, <5>3
        <5>5. y <= v
          BY <5>1, <5>2, <5>4
        <5>. QED
          BY <5>3, <5>5
      <4>3. n < x + k - L
        BY <1>2a, <2>2a, <3>1a, <3>2, <4>2
      <4>4. n \notin expr.day.nums
        <5>1. n \in expr.day.nums => x + k <= L + n
          BY <2>1
        <5>. QED
          BY <4>3, <5>1
      <4>5. ~expr.day.last
        BY <2>1, <4>3
      <4>. QED
        BY <3>3, <4>4, <4>5
    <3>. QED
      BY <3>4, <3>5
  <2>. QED
    BY <1>2, <1>5, <1>9, <2>2, <2>3, DayStep
<1>. QED
  BY <1>1, <1>8, <1>9

\* A move to the nearest of the days a month offers, or out of the month,
\* passes no fire when every fire in the month is on a day offered.
LEMMA OfferedStep ==
    ASSUME Searching, NEW offered,
           \A d \in offered : d \in 1 .. MonthLength(month),
           DayDiffTo(offered) # 0,
           MoveByDays(DayDiffTo(offered)),
           \A u \in Days :
              MonthOf[u] = month /\ DayMatches(expr, u) => DomOf(u) \in offered
    PROVE  StepOK
<1>1. /\ expr \in Exprs /\ cur.day \in Days /\ isPrev \in BOOLEAN
  BY SearchingParts
<1>2. PICK i \in Int, m \in Int, s \in Int, x \in 1..31, L \in 28..31 :
              /\ i = cur.day /\ m = MonthOf[cur.day] /\ s = MonthStart[m] /\ x = DomOf(cur.day)
              /\ L = MonthLength(m) /\ MonthStart[m + 1] = s + L
              /\ m \in FirstMonth .. (LastMonth + 1)
              /\ m + 1 \in FirstMonth .. (LastMonth + 1)
              /\ i = s + x - 1 /\ x <= L
  BY <1>1, DayParts
<1>3. month = m /\ dom = x
  BY <1>2 DEF month, dom
<1>4. i = s + x - 1 /\ x <= L
  BY <1>2
<1>5. PICK diff : diff = DayDiffTo(offered) /\ diff # 0 /\ MoveTo(EdgeOfDay(i + diff))
  BY <1>2 DEF MoveByDays
<1>6. \A d \in offered : d \in Nat /\ 1 <= d /\ d <= L
  <2>1. \A d \in 1..L : d \in Nat /\ 1 <= d /\ d <= L
    OBVIOUS
  <2>. QED
    BY <1>2, <1>3, <2>1
<1>7. ASSUME NEW u \in Days
      PROVE  \E j \in Int, n \in 1..31 :
                /\ j = u /\ n = DomOf(u)
                /\ s <= j /\ j < s + L => MonthOf[u] = m /\ j = s + n - 1
  <2>1. PICK j \in Int, l \in Int, v \in Int, n \in 1..31 :
              j = u /\ l = MonthOf[u] /\ v = MonthStart[l] /\ n = DomOf(u) /\ j = v + n - 1
    BY DayParts
  <2>2. ASSUME s <= j, j < s + L PROVE l = m
    <3>1. ~ (l < m)
      <4>1. ~ (j < s)
        BY <2>2
      <4>. QED
        BY <1>2, <2>1, <4>1, MonthBound
    <3>2. l < m + 1
      <4>1. PICK y \in Int : y = s + L
        OBVIOUS
      <4>2. j < y /\ y = MonthStart[m + 1]
        BY <1>2, <2>2, <4>1
      <4>. QED
        BY <1>2, <2>1, <4>2, MonthBound
    <3>. QED
      BY <3>1, <3>2
  <2>. QED
    BY <1>2, <2>1, <2>2
<1>8. CASE Ahead(x, offered) # {}
  <2>1. L \in Nat /\ x \in Int
    OBVIOUS
  <2>2. PICK z \in Int :
              /\ z = Nearest(Ahead(x, offered)) /\ z \in offered
              /\ IF isPrev THEN z <= x ELSE x <= z
              /\ \A n \in offered :
                    IF isPrev THEN ~ (z < n /\ n <= x) ELSE ~ (x <= n /\ n < z)
    BY <1>1, <1>6, <1>8, <2>1, NearestAhead
  <2>3. diff = z - x /\ 1 <= z /\ z <= L
    BY <1>3, <1>5, <1>6, <1>8, <2>2 DEF DayDiffTo
  <2>4. PICK t \in Int : t = i + diff /\ t = s + z - 1
    <3>1. i + (z - x) = s + z - 1 /\ s + z - 1 \in Int
      BY <1>4
    <3>. QED
      BY <2>3, <3>1
  <2>5. IF isPrev THEN t < i ELSE i < t
    <3>1. z # x
      BY <1>5, <2>3
    <3>. QED
      BY <1>4, <2>2, <2>4, <3>1
  <2>6. ASSUME NEW u \in Days, OnTheWay(t, u)
        PROVE  ~ DayMatches(expr, u)
    <3>1. PICK j \in Int, n \in 1..31 :
                /\ j = u /\ n = DomOf(u)
                /\ s <= j /\ j < s + L => MonthOf[u] = m /\ j = s + n - 1
      BY <1>7
    <3>2. CASE isPrev
      <4>1. t < j /\ j <= i
        BY <1>2, <2>6, <3>1, <3>2 DEF OnTheWay
      <4>2. s <= j /\ j < s + L
        BY <1>4, <2>3, <2>4, <4>1
      <4>3. z < n /\ n <= x
        <5>1. j = s + n - 1
          BY <3>1, <4>2
        <5>. QED
          BY <1>4, <2>4, <4>1, <5>1
      <4>. QED
        BY <1>3, <2>2, <3>1, <3>2, <4>2, <4>3
    <3>3. CASE ~isPrev
      <4>1. i <= j /\ j < t
        BY <1>2, <2>6, <3>1, <3>3 DEF OnTheWay
      <4>2. s <= j /\ j < s + L
        BY <1>4, <2>3, <2>4, <4>1
      <4>3. x <= n /\ n < z
        <5>1. j = s + n - 1
          BY <3>1, <4>2
        <5>. QED
          BY <1>4, <2>4, <4>1, <5>1
      <4>. QED
        BY <1>3, <2>2, <3>1, <3>3, <4>2, <4>3
    <3>. QED
      BY <1>1, <3>2, <3>3
  <2>7. MoveTo(EdgeOfDay(t))
    BY <1>5, <2>4
  <2>. QED
    BY <1>1, <1>2, <2>5, <2>6, <2>7, DayStep
<1>9. CASE Ahead(x, offered) = {}
  <2>1. PICK t \in Int : t = i + diff /\ t = (IF isPrev THEN s - 1 ELSE s + L)
    <3>1. CASE isPrev
      <4>1. diff = -x
        BY <1>3, <1>5, <1>9, <3>1 DEF DayDiffTo
      <4>2. i + (-x) = s - 1 /\ s - 1 \in Int
        BY <1>4
      <4>. QED
        BY <3>1, <4>1, <4>2
    <3>2. CASE ~isPrev
      <4>1. diff = L - x + 1
        BY <1>2, <1>3, <1>5, <1>9, <3>2 DEF DayDiffTo
      <4>2. i + (L - x + 1) = s + L /\ s + L \in Int
        BY <1>4
      <4>. QED
        BY <3>2, <4>1, <4>2
    <3>. QED
      BY <1>1, <3>1, <3>2
  <2>2. IF isPrev THEN t < i ELSE i < t
    BY <1>4, <2>1
  <2>3. ASSUME NEW u \in Days, OnTheWay(t, u)
        PROVE  ~ DayMatches(expr, u)
    <3>1. PICK j \in Int, n \in 1..31 :
                /\ j = u /\ n = DomOf(u)
                /\ s <= j /\ j < s + L => MonthOf[u] = m /\ j = s + n - 1
      BY <1>7
    <3>2. CASE isPrev
      <4>1. t < j /\ j <= i /\ t = s - 1
        BY <1>2, <2>1, <2>3, <3>1, <3>2 DEF OnTheWay
      <4>2. s <= j /\ j < s + L
        BY <1>4, <4>1
      <4>3. n <= x
        <5>1. j = s + n - 1
          BY <3>1, <4>2
        <5>. QED
          BY <1>4, <4>1, <5>1
      <4>4. n \notin offered
        BY <1>9, <3>2, <4>3 DEF Ahead
      <4>. QED
        BY <1>3, <3>1, <4>2, <4>4
    <3>3. CASE ~isPrev
      <4>1. i <= j /\ j < t /\ t = s + L
        BY <1>2, <2>1, <2>3, <3>1, <3>3 DEF OnTheWay
      <4>2. s <= j /\ j < s + L
        BY <1>4, <4>1
      <4>3. x <= n
        <5>1. j = s + n - 1
          BY <3>1, <4>2
        <5>. QED
          BY <1>4, <4>1, <5>1
      <4>4. n \notin offered
        BY <1>9, <3>3, <4>3 DEF Ahead
      <4>. QED
        BY <1>3, <3>1, <4>2, <4>4
    <3>. QED
      BY <1>1, <3>2, <3>3
  <2>4. MoveTo(EdgeOfDay(t))
    BY <1>5, <2>1
  <2>. QED
    BY <1>1, <1>2, <2>2, <2>3, <2>4, DayStep
<1>. QED
  BY <1>8, <1>9


(***************************************************************************)
(* W: the workday nearest to a day of the month.                           *)
(***************************************************************************)

\* The days around a Saturday and around a Sunday.
LEMMA AroundWeekend ==
    ASSUME NEW t \in Int
    PROVE  /\ DowOf(t) \in 0..6
           /\ DowOf(t) = 6 => DowOf(t - 1) = 5 /\ DowOf(t + 1) = 0 /\ DowOf(t + 2) = 1
           /\ DowOf(t) = 0 => DowOf(t - 1) = 6 /\ DowOf(t - 2) = 5 /\ DowOf(t + 1) = 1
  BY DEF DowOf

\* get_nearest_weekday stays in the month.
LEMMA NearestWeekdayRange ==
    ASSUME NEW m \in Months, NEW d \in 1..31
    PROVE  NearestWeekday(m, d) \in 1 .. MonthLength(m)
<1>1. PICK len \in 28..31, v \in Int : len = MonthLength(m) /\ v = MonthStart[m]
  BY MonthStartNext
<1>2. PICK day \in 1..len : day = IF d <= len THEN d ELSE len
  OBVIOUS
<1>2a. 1 <= day /\ day <= len
  BY <1>2
<1>3. PICK w \in Int, r \in 0..6 : w = v + day - 1 /\ r = DowOf(w)
  <2>1. v + day - 1 \in Int
    OBVIOUS
  <2>. QED
    BY <2>1, AroundWeekend
<1>4. NearestWeekday(m, d) =
         IF r \in 1..5 THEN day
         ELSE IF r = 6 THEN (IF day > 1 THEN day - 1 ELSE day + 2)
         ELSE (IF day < len THEN day + 1 ELSE day - 2)
  BY <1>1, <1>2, <1>3 DEF NearestWeekday
<1>5. /\ day \in 1..len /\ day + 2 \in Int /\ day - 2 \in Int
      /\ day > 1 => day - 1 \in 1..len
      /\ ~ (day > 1) => day + 2 \in 1..len
      /\ day < len => day + 1 \in 1..len
      /\ ~ (day < len) => day - 2 \in 1..len
  BY <1>2a
<1>6. NearestWeekday(m, d) \in 1..len
  BY <1>4, <1>5, Zenon
<1>7. 1..len = 1 .. MonthLength(m)
  BY <1>1
<1>. QED
  BY <1>6, <1>7, Zenon

\* A day that is the workday of its month nearest to d is the one
\* get_nearest_weekday computes.
LEMMA NearestWorkday ==
    ASSUME NEW u \in Days, NEW d \in 1..31, IsNearestWorkday(u, d)
    PROVE  DomOf(u) = NearestWeekday(MonthOf[u], d)
<1>1. PICK j \in Int, m \in Int, v \in Int, n \in 1..31, len \in 28..31 :
              /\ j = u /\ m = MonthOf[u] /\ v = MonthStart[m] /\ n = DomOf(u)
              /\ len = MonthLength(m) /\ MonthStart[m + 1] = v + len
              /\ m \in FirstMonth .. (LastMonth + 1)
              /\ m + 1 \in FirstMonth .. (LastMonth + 1)
              /\ j = v + n - 1 /\ n <= len
  BY DayParts
<1>1a. j = v + n - 1 /\ n <= len
  BY <1>1
<1>2. PICK day \in 1..len : day = IF d <= len THEN d ELSE len
  OBVIOUS
<1>2a. 1 <= day /\ day <= len
  BY <1>2
<1>3. PICK w \in Int, r \in 0..6 : w = v + day - 1 /\ r = DowOf(w)
  <2>1. v + day - 1 \in Int
    OBVIOUS
  <2>. QED
    BY <2>1, AroundWeekend
<1>3a. w = v + day - 1
  BY <1>3
<1>4. NearestWeekday(m, d) =
         IF r \in 1..5 THEN day
         ELSE IF r = 6 THEN (IF day > 1 THEN day - 1 ELSE day + 2)
         ELSE (IF day < len THEN day + 1 ELSE day - 2)
  BY <1>1, <1>2, <1>3 DEF NearestWeekday
<1>5. /\ DowOf(j) \in 1..5
      /\ \A x \in v .. (v + len - 1) :
            DowOf(x) \in 1..5 => Distance(j, w) <= Distance(x, w)
  BY <1>1, <1>2, <1>3 DEF IsNearestWorkday, IsWorkday
<1>6. CASE r \in 1..5
  <2>1. w \in v .. (v + len - 1)
    BY <1>2a, <1>3a
  <2>2. Distance(j, w) <= Distance(w, w)
    BY <1>3, <1>5, <1>6, <2>1
  <2>3. j = w
    BY <2>2 DEF Distance
  <2>4. n = day
    BY <1>1a, <1>3a, <2>3
  <2>. QED
    BY <1>1, <1>4, <1>6, <2>4
<1>7. CASE r = 6 /\ day > 1
  <2>1. w - 1 \in v .. (v + len - 1) /\ DowOf(w - 1) = 5 /\ DowOf(w) = 6 /\ DowOf(w + 1) = 0
    BY <1>2a, <1>3, <1>3a, <1>7, AroundWeekend
  <2>2. Distance(j, w) <= Distance(w - 1, w)
    BY <1>5, <2>1
  <2>3. j = w - 1 \/ j = w \/ j = w + 1
    BY <2>2 DEF Distance
  <2>4. j = w - 1
    BY <1>5, <2>1, <2>3
  <2>5. n = day - 1
    BY <1>1a, <1>3a, <2>4
  <2>. QED
    BY <1>1, <1>4, <1>7, <2>5
<1>8. CASE r = 6 /\ ~ (day > 1)
  <2>1. day = 1
    BY <1>2a, <1>8
  <2>2. w + 2 \in v .. (v + len - 1) /\ w = v
    BY <1>3a, <2>1
  <2>3. DowOf(w + 2) = 1 /\ DowOf(w) = 6 /\ DowOf(w + 1) = 0
    BY <1>3, <1>8, AroundWeekend
  <2>4. Distance(j, w) <= Distance(w + 2, w)
    BY <1>5, <2>2, <2>3
  <2>5. j = w \/ j = w + 1 \/ j = w + 2
    BY <1>1a, <2>2, <2>4 DEF Distance
  <2>6. j = w + 2
    BY <1>5, <2>3, <2>5
  <2>7. n = day + 2
    BY <1>1a, <1>3a, <2>6
  <2>. QED
    BY <1>1, <1>4, <1>8, <2>7
<1>9. CASE r = 0 /\ day < len
  <2>1. w + 1 \in v .. (v + len - 1) /\ DowOf(w + 1) = 1 /\ DowOf(w) = 0 /\ DowOf(w - 1) = 6
    BY <1>2a, <1>3, <1>3a, <1>9, AroundWeekend
  <2>2. Distance(j, w) <= Distance(w + 1, w)
    BY <1>5, <2>1
  <2>3. j = w - 1 \/ j = w \/ j = w + 1
    BY <2>2 DEF Distance
  <2>4. j = w + 1
    BY <1>5, <2>1, <2>3
  <2>5. n = day + 1
    BY <1>1a, <1>3a, <2>4
  <2>. QED
    BY <1>1, <1>4, <1>9, <2>5
<1>10. CASE r = 0 /\ ~ (day < len)
  <2>1. day = len
    BY <1>2a, <1>10
  <2>2. w - 2 \in v .. (v + len - 1) /\ w = v + len - 1
    BY <1>3a, <2>1
  <2>3. DowOf(w - 2) = 5 /\ DowOf(w - 1) = 6 /\ DowOf(w) = 0
    BY <1>3, <1>10, AroundWeekend
  <2>4. Distance(j, w) <= Distance(w - 2, w)
    BY <1>5, <2>2, <2>3
  <2>5. j = w \/ j = w - 1 \/ j = w - 2
    BY <1>1a, <2>2, <2>4 DEF Distance
  <2>6. j = w - 2
    BY <1>5, <2>3, <2>5
  <2>7. n = day - 2
    BY <1>1a, <1>3a, <2>6
  <2>. QED
    BY <1>1, <1>4, <1>10, <2>7
<1>. QED
  BY <1>6, <1>7, <1>8, <1>9, <1>10

\* proc_day_of_month_nearest_weekday passes no fire.
LEMMA NearestWeekdayStep ==
    ASSUME Searching, ProcNearestWeekday
    PROVE  StepOK
<1>. DEFINE offered == {NearestWeekday(month, d) : d \in expr.w}
<1>1. /\ expr \in Exprs /\ cur.day \in Days /\ ~expr.either
  BY SearchingParts
<1>2. /\ expr.w # {} /\ DayDiffTo(offered) # 0 /\ MoveByDays(DayDiffTo(offered))
  BY DEF ProcNearestWeekday, NearestWeekdayDiff
<1>3. \A d \in expr.w : d \in 1..31
  BY <1>1, ExprFields
<1>4. month \in Months
  BY <1>1, DayFields DEF month
<1>5. \A d \in offered : d \in 1 .. MonthLength(month)
  BY <1>3, <1>4, NearestWeekdayRange
<1>6. ASSUME NEW u \in Days, MonthOf[u] = month, DayMatches(expr, u)
      PROVE  DomOf(u) \in offered
  <2>1. PICK d \in expr.w : IsNearestWorkday(u, d)
    BY <1>1, <1>2, <1>6 DEF DayMatches, DomMatches
  <2>2. DomOf(u) = NearestWeekday(month, d)
    BY <1>3, <1>6, <2>1, NearestWorkday
  <2>. QED
    BY <2>2
<1>. HIDE DEF offered
<1>. QED
  BY <1>2, <1>5, <1>6, OfferedStep

(***************************************************************************)
(* weekday#n: the n-th such weekday of a month.                            *)
(***************************************************************************)

\* Two days of a month fall on the same weekday exactly when they are whole
\* weeks apart.
LEMMA WeeksApart ==
    ASSUME NEW v \in Int, NEW d \in Int, NEW x \in Int
    PROVE  DowOf(v + x - 1) = DowOf(v + d - 1) <=> \E q \in Int : d - x = 7 * q
<1>1. PICK a \in Int, r \in 0..6 : (v + d - 1) + 1 = 7 * a + r /\ r = DowOf(v + d - 1)
  BY DEF DowOf
<1>2. PICK b \in Int, p \in 0..6 : (v + x - 1) + 1 = 7 * b + p /\ p = DowOf(v + x - 1)
  BY DEF DowOf
<1>3. v + d = 7 * a + r /\ v + x = 7 * b + p
  BY <1>1, <1>2
<1>4. ASSUME p = r PROVE \E q \in Int : d - x = 7 * q
  <2>1. PICK q \in Int : q = a - b
    OBVIOUS
  <2>2. d - x = 7 * q
    BY <1>3, <1>4, <2>1
  <2>. QED
    BY <2>2
<1>5. ASSUME NEW q \in Int, d - x = 7 * q PROVE p = r
  BY <1>3, <1>5
<1>. QED
  BY <1>1, <1>2, <1>4, <1>5

\* A day in the n-th run of seven days of a month is preceded by n - 1 days
\* on the same weekday.
LEMMA NthCount ==
    ASSUME NEW v \in Int, NEW len \in 28..31, NEW d \in 1..len, NEW n \in 1..5,
           7 * n - 6 <= d, d <= 7 * n
    PROVE  Cardinality({x \in 1..len : DowOf(v + x - 1) = DowOf(v + d - 1) /\ x <= d}) = n
<1>. DEFINE T == {x \in 1..len : DowOf(v + x - 1) = DowOf(v + d - 1) /\ x <= d}
            g == [k \in 1..n |-> d - 7 * (n - k)]
<1>0. 1 <= d /\ d <= len /\ n \in Nat
  OBVIOUS
<1>1. ASSUME NEW k \in 1..n
      PROVE  g[k] \in T
  <2>1. PICK x \in Int : x = d - 7 * (n - k) /\ x = g[k]
    OBVIOUS
  <2>2. 1 <= x /\ x <= d /\ x \in 1..len
    BY <1>0, <2>1
  <2>3. PICK q \in Int : q = n - k
    OBVIOUS
  <2>4. d - x = 7 * q
    BY <2>1, <2>3
  <2>5. DowOf(v + x - 1) = DowOf(v + d - 1)
    BY <2>4, WeeksApart
  <2>. QED
    BY <2>1, <2>2, <2>5
<1>2. ASSUME NEW x \in T
      PROVE  \E k \in 1..n : g[k] = x
  <2>1. PICK y \in Int : y = x /\ 1 <= y /\ y <= d
    OBVIOUS
  <2>2. PICK q \in Int : d - y = 7 * q
    <3>1. DowOf(v + y - 1) = DowOf(v + d - 1)
      BY <2>1
    <3>. HIDE DEF T
    <3>. QED
      BY <3>1, WeeksApart
  <2>3. PICK k \in Int : k = n - q
    OBVIOUS
  <2>4. k \in 1..n
    BY <2>1, <2>2, <2>3
  <2>5. d - 7 * (n - k) = y
    BY <2>2, <2>3
  <2>. QED
    BY <2>1, <2>4, <2>5
<1>3. ASSUME NEW k \in 1..n, NEW l \in 1..n, g[k] = g[l]
      PROVE  k = l
  BY <1>3
<1>4. g \in [1..n -> T]
  <2>. HIDE DEF T
  <2>. QED
    BY <1>1
<1>5. g \in Bijection(1..n, T)
  <2>. HIDE DEF g, T
  <2>. QED
    BY <1>2, <1>3, <1>4 DEF Bijection, Injection, Surjection, IsInjective
<1>6. Cardinality(T) = n
  <2>. HIDE DEF g, T
  <2>. QED
    BY <1>0, <1>5, FS_CountingElements DEF ExistsBijection
<1>. QED
  BY <1>6

\* A day that falls on a weekday and in that weekday's n-th run is the one
\* get_nth_weekday_of_month lists as its n-th, and #l is its last.
LEMMA NthWeekday ==
    ASSUME NEW u \in Days, NEW n \in {NTH_LAST} \cup 1..5, IsNth(u, n)
    PROVE  DomOf(u) \in NthOf(WeekdaysOf(MonthOf[u], DowOf(u)), n)
<1>1. PICK j \in Int, m \in Int, v \in Int, d \in 1..31, len \in 28..31 :
              /\ j = u /\ m = MonthOf[u] /\ v = MonthStart[m] /\ d = DomOf(u)
              /\ len = MonthLength(m) /\ MonthStart[m + 1] = v + len
              /\ m \in FirstMonth .. (LastMonth + 1)
              /\ m + 1 \in FirstMonth .. (LastMonth + 1)
              /\ j = v + d - 1 /\ d <= len
  BY DayParts
<1>1a. j = v + d - 1 /\ d <= len /\ d \in 1..len
  BY <1>1
<1>2. PICK S : S = {x \in 1..len : DowOf(v + x - 1) = DowOf(v + d - 1)}
  OBVIOUS
<1>3. S = WeekdaysOf(m, DowOf(u)) /\ d \in S
  <2>1. DowOf(u) = DowOf(v + d - 1)
    BY <1>1, <1>1a
  <2>. QED
    BY <1>1, <1>1a, <1>2, <2>1 DEF WeekdaysOf
<1>4. CASE n = NTH_LAST
  <2>1. d + 7 > len
    BY <1>1, <1>4 DEF IsNth
  <2>2. ASSUME NEW x \in S
        PROVE  x <= d
    <3>1. PICK y \in Int : y = x /\ 1 <= y /\ y <= len /\ DowOf(v + y - 1) = DowOf(v + d - 1)
      BY <1>2
    <3>2. PICK q \in Int : d - y = 7 * q
      BY <3>1, WeeksApart
    <3>3. y <= d
      BY <2>1, <3>1, <3>2
    <3>. QED
      BY <3>1, <3>3
  <2>3. d \in NthOf(S, NTH_LAST)
    BY <1>3, <2>2 DEF NthOf
  <2>. QED
    BY <1>1, <1>3, <1>4, <2>3
<1>5. CASE n # NTH_LAST
  <2>1. n \in 1..5 /\ 7 * n - 6 <= d /\ d <= 7 * n
    <3>1. n \in 1..5 /\ d \in (7 * n - 6) .. (7 * n)
      BY <1>1, <1>5 DEF IsNth
    <3>. QED
      BY <3>1
  <2>2. Cardinality({x \in 1..len : DowOf(v + x - 1) = DowOf(v + d - 1) /\ x <= d}) = n
    BY <1>1a, <2>1, NthCount
  <2>3. {x \in S : x <= d} = {x \in 1..len : DowOf(v + x - 1) = DowOf(v + d - 1) /\ x <= d}
    BY <1>2
  <2>4. Cardinality({x \in S : x <= d}) = n
    BY <2>2, <2>3
  <2>5. d \in NthOf(S, n)
    BY <1>3, <1>5, <2>4 DEF NthOf
  <2>. QED
    BY <1>1, <1>3, <2>5
<1>. QED
  BY <1>4, <1>5

\* proc_day_of_week_nth passes no fire.
LEMMA NthStep ==
    ASSUME Searching, ProcDayOfWeekNth
    PROVE  StepOK
<1>. DEFINE offered == UNION {NthOf(WeekdaysOf(month, p[1]), p[2]) : p \in expr.nth}
<1>1. /\ expr \in Exprs /\ cur.day \in Days /\ ~expr.either
  BY SearchingParts
<1>2. /\ expr.nth # {} /\ DayDiffTo(offered) # 0 /\ MoveByDays(DayDiffTo(offered))
  BY DEF ProcDayOfWeekNth, NthDiff
<1>3. \A p \in expr.nth : p[2] \in {NTH_LAST} \cup 1..5
  BY <1>1, ExprFields
<1>5. \A d \in offered : d \in 1 .. MonthLength(month)
  BY DEF NthOf, WeekdaysOf
<1>6. ASSUME NEW u \in Days, MonthOf[u] = month, DayMatches(expr, u)
      PROVE  DomOf(u) \in offered
  <2>1. PICK p \in expr.nth : DowOf(u) = p[1] /\ IsNth(u, p[2])
    BY <1>1, <1>2, <1>6 DEF DayMatches, DowMatches
  <2>2. DomOf(u) \in NthOf(WeekdaysOf(month, p[1]), p[2])
    BY <1>3, <1>6, <2>1, NthWeekday
  <2>. QED
    BY <2>2
<1>. HIDE DEF offered
<1>. QED
  BY <1>2, <1>5, <1>6, OfferedStep

(***************************************************************************)
(* Seconds of an expression without a second field.                        *)
(***************************************************************************)

\* Dropping the seconds stays in the minute.
LEMMA Truncated ==
    ASSUME NEW c \in Moments
    PROVE  LET d == [c EXCEPT !.s = 0]
           IN  /\ d \in Moments /\ d.s = 0 /\ d.day = c.day
               /\ MinuteStamp(d) = MinuteStamp(c)
               /\ Stamp(d) <= Stamp(c)
<1>1. PICK t \in Int, h \in 0..23, mi \in 0..59, s \in 0..59 :
              c = [day |-> t, h |-> h, mi |-> mi, s |-> s]
  BY MomentParts
<1>2. PICK d : d = [c EXCEPT !.s = 0]
  OBVIOUS
<1>3. d = [day |-> t, h |-> h, mi |-> mi, s |-> 0]
  BY <1>1, <1>2
<1>4. d \in Moments
  BY <1>3 DEF Moments
<1>5. MinuteStamp(d) = MinuteStamp(c)
  BY <1>1, <1>3 DEF MinuteStamp, HourStamp
<1>6. Stamp(d) <= Stamp(c)
  <2>1. PICK p \in Int : p = MinuteStamp(d) /\ p = MinuteStamp(c)
    BY <1>4, <1>5, StampIsInt
  <2>2. Stamp(d) = 60 * p + 0 /\ Stamp(c) = 60 * p + s
    BY <1>1, <1>3, <2>1 DEF Stamp
  <2>3. 60 * p + 0 <= 60 * p + s
    OBVIOUS
  <2>. QED
    BY <2>2, <2>3
<1>. QED
  BY <1>1, <1>2, <1>3, <1>4, <1>5, <1>6

\* Without a second field the fires are on whole minutes.
LEMMA WholeMinutes ==
    ASSUME NEW e \in Exprs, ~e.secs, NEW f, Fires(e, f)
    PROVE  f.s = 0
  BY DEF Fires, Seconds

\* Dropping the seconds of the cursor passes no fire, in either direction.
LEMMA FoundStep ==
    ASSUME Searching, Found
    PROVE  StepOK
<1>1. /\ expr \in Exprs /\ isPrev \in BOOLEAN /\ req \in Requests /\ ~expr.either
      /\ cur \in Instants /\ cur \in Moments /\ cur.day \in Days
      /\ \A f \in Instants : Fires(expr, f) /\ IsAhead(req, f) => ~ Nearer(req, f, cur)
  BY SearchingParts
<1>2. outcome' = "found" /\ req' = req
  BY DEF Found
<1>3. PICK c \in Instants :
         /\ cur' = c
         /\ \A f \in Instants : Fires(expr, f) /\ Nearer(req, f, c) => Nearer(req, f, cur)
  <2>1. CASE expr.secs
    BY <1>1, <2>1 DEF Found
  <2>2. CASE ~expr.secs
    <3>1. PICK c \in Moments :
              /\ c = [cur EXCEPT !.s = 0] /\ c.s = 0 /\ c.day = cur.day
              /\ MinuteStamp(c) = MinuteStamp(cur) /\ Stamp(c) <= Stamp(cur)
      BY <1>1, Truncated
    <3>2. cur' = c /\ c \in Instants
      BY <1>1, <2>2, <3>1, InstantsAreMoments DEF Found
    <3>3. ASSUME NEW f \in Instants, Fires(expr, f), Nearer(req, f, c)
          PROVE  Nearer(req, f, cur)
      <4>1. f \in Moments /\ f.s = 0
        BY <1>1, <2>2, <3>3, WholeMinutes, InstantIsMoment
      <4>2. PICK p \in Int, q \in Int, a \in Int, b \in Int, z \in Int :
                /\ p = MinuteStamp(c) /\ q = MinuteStamp(f)
                /\ a = Stamp(c) /\ b = Stamp(cur) /\ z = Stamp(f)
        BY <1>1, <4>1, StampIsInt
      <4>3. CASE isPrev
        <5>1. Before(c, f)
          BY <3>3, <4>3 DEF Nearer, isPrev
        <5>2. MinuteStamp(c) < MinuteStamp(f)
          BY <4>1, <5>1, StampLevels
        <5>3. MinuteStamp(cur) < MinuteStamp(f)
          BY <3>1, <5>2
        <5>4. Before(cur, f)
          BY <1>1, <4>1, <5>3, StampLevels
        <5>. QED
          BY <4>3, <5>4 DEF Nearer, isPrev
      <4>4. CASE ~isPrev
        <5>1. Before(f, c)
          BY <3>3, <4>4 DEF Nearer, isPrev
        <5>2. z < a /\ a <= b
          BY <3>1, <4>1, <4>2, <5>1, StampOrder
        <5>3. z < b
          BY <5>2
        <5>4. Before(f, cur)
          BY <1>1, <4>1, <4>2, <5>3, StampOrder
        <5>. QED
          BY <4>4, <5>4 DEF Nearer, isPrev
      <4>. QED
        BY <1>1, <4>3, <4>4
    <3>. QED
      BY <3>2, <3>3
  <2>. QED
    BY <1>1, <2>1, <2>2
<1>4. NoneNearer(req, c)
  BY <1>1, <1>3, NoneNearerMeans DEF expr
<1>5. TypeOK'
  BY <1>2, <1>3 DEF Searching, TypeOK
<1>6. NothingSkipped'
  BY <1>2, <1>3, <1>4 DEF NothingSkipped
<1>. QED
  BY <1>2, <1>5, <1>6 DEF StepOK

(***************************************************************************)
(* The first state.                                                        *)
(***************************************************************************)

\* No fire ahead of the start is nearer than the first candidate, one step
\* off the start and truncated, on the calendar or off it.
LEMMA NoFireBeforeFirst ==
    ASSUME NEW r \in Requests, NEW f \in Instants, Fires(r.expr, f), IsAhead(r, f)
    PROVE  ~ Nearer(r, f, FirstCandidate(r))
<1>0. SUFFICES ASSUME Nearer(r, f, FirstCandidate(r))
               PROVE  FALSE
  OBVIOUS
<1>1. /\ r.expr \in Exprs /\ r.at \in Instants /\ r.at \in Moments
      /\ r.sub \in {0, 1} /\ r.isPrev \in BOOLEAN /\ r.expr.secs \in BOOLEAN
  BY RequestParts
<1>2. PICK c \in Moments : c = FirstCandidate(r)
  BY FirstCandidateMoment
<1>3. f \in Moments /\ (~r.expr.secs => f.s = 0)
  BY <1>1, <1>0, WholeMinutes, InstantIsMoment
<1>4. PICK z \in Int, y \in Int, a \in Int, b \in Int :
         z = Stamp(f) /\ y = MinuteStamp(f) /\ a = Stamp(r.at) /\ b = MinuteStamp(r.at)
  BY <1>1, <1>3, StampIsInt
<1>5. CASE r.isPrev
  <2>1. PICK k \in {-1, 0} : k = r.sub - 1
    BY <1>1
  <2>2. PICK m \in Moments : m = AddSeconds(r.at, k) /\ Stamp(m) = a + k
    <3>1. k \in Int
      OBVIOUS
    <3>. QED
      BY <1>1, <1>4, <3>1, AddSecondsStamp
  <2>3. c = IF r.expr.secs THEN m ELSE [m EXCEPT !.s = 0]
    BY <1>2, <1>5, <2>1, <2>2, Zenon DEF FirstCandidate
  <2>4. z <= a + k
    <3>1. CASE Before(f, r.at)
      <4>1. z < a
        BY <1>1, <1>3, <1>4, <3>1, StampOrder
      <4>. QED
        BY <4>1
    <3>2. CASE r.sub = 1 /\ f = r.at
      <4>1. k = 0 /\ z = a
        BY <1>4, <2>1, <3>2
      <4>. QED
        BY <4>1
    <3>. QED
      BY <1>0, <1>5, <3>1, <3>2 DEF IsAhead
  <2>5. ~ Before(m, f)
    BY <1>3, <1>4, <2>2, <2>4, StampOrder
  <2>6. Before(c, f)
    BY <1>0, <1>2, <1>5 DEF Nearer
  <2>7. CASE ~r.expr.secs
    <3>1. MinuteStamp(c) = MinuteStamp(m)
      BY <2>3, <2>7, Truncated
    <3>2. MinuteStamp(c) < MinuteStamp(f)
      BY <1>3, <2>6, <2>7, StampLevels
    <3>. QED
      BY <1>3, <2>5, <3>1, <3>2, StampLevels
  <2>. QED
    BY <2>3, <2>5, <2>6, <2>7
<1>6. CASE ~r.isPrev /\ r.expr.secs
  <2>1. Stamp(c) = a + 1
    <3>1. c = AddSeconds(r.at, 1)
      BY <1>2, <1>6, Zenon DEF FirstCandidate
    <3>. QED
      BY <1>1, <1>4, <3>1, AddSecondsStamp
  <2>2. Before(r.at, f) /\ Before(f, c)
    BY <1>0, <1>2, <1>6 DEF IsAhead, Nearer
  <2>3. a < z /\ z < a + 1
    BY <1>1, <1>3, <1>4, <2>1, <2>2, StampOrder
  <2>. QED
    BY <2>3
<1>7. CASE ~r.isPrev /\ ~r.expr.secs
  <2>1. PICK m \in Moments : m = AddMinutes(r.at, 1) /\ MinuteStamp(m) = b + 1
    <3>1. PICK k \in Int : k = 1
      OBVIOUS
    <3>2. AddMinutes(r.at, k) \in Moments /\ MinuteStamp(AddMinutes(r.at, k)) = b + k
      BY <1>1, <1>4, AddMinutesStamp
    <3>. QED
      BY <3>1, <3>2
  <2>2. c = [m EXCEPT !.s = 0]
    BY <1>2, <1>7, <2>1, Zenon DEF FirstCandidate
  <2>3. MinuteStamp(c) = b + 1 /\ c.s = 0
    BY <2>1, <2>2, Truncated
  <2>4. Before(r.at, f) /\ Before(f, c)
    BY <1>0, <1>2, <1>7 DEF IsAhead, Nearer
  <2>5. b < y
    BY <1>1, <1>3, <1>4, <1>7, <2>4, StampLevels
  <2>6. y < b + 1
    BY <1>3, <1>4, <2>3, <2>4, StampLevels
  <2>. QED
    BY <2>5, <2>6
<1>. QED
  BY <1>1, <1>5, <1>6, <1>7

\* So the cursor starts where it should: no fire lies between the start and
\* the first candidate.
LEMMA FirstCandidateSkipsNothing ==
    ASSUME NEW r \in Requests, FirstCandidate(r) \in Instants
    PROVE  NoneNearer(r, FirstCandidate(r))
  BY NoFireBeforeFirst, NoneNearerMeans

\* calc starts with the invariant.
LEMMA InitOK ==
    ASSUME Init
    PROVE  TypeOK /\ NothingSkipped
<1>1. /\ req \in SearchRequests /\ req \in Requests
      /\ cur = StartCursor(req) /\ outcome = StartOutcome(req)
  BY DEF Init, SearchRequests
<1>2. CASE CanStart(req)
  <2>1. FirstCandidate(req) \in Instants
    BY <1>1, <1>2, FirstCandidateMoment, InstantsAreMoments DEF CanStart
  <2>2. cur = FirstCandidate(req) /\ outcome = "searching"
    BY <1>1, <1>2 DEF StartCursor, StartOutcome
  <2>3. NoneNearer(req, cur)
    BY <1>1, <2>1, <2>2, FirstCandidateSkipsNothing
  <2>. QED
    BY <1>1, <2>1, <2>2, <2>3 DEF TypeOK, NothingSkipped
<1>3. CASE ~CanStart(req)
  <2>1. cur = req.at /\ outcome = "bad_type_range"
    BY <1>1, <1>3 DEF StartCursor, StartOutcome
  <2>2. cur \in Instants
    BY <1>1, <2>1, RequestParts
  <2>. QED
    BY <1>1, <2>1, <2>2 DEF TypeOK, NothingSkipped, Errors
<1>. QED
  BY <1>2, <1>3

(***************************************************************************)
(* The theorems.                                                           *)
(***************************************************************************)

\* The inductive invariant: NothingSkipped is inductive once the types are
\* known, because it says of every position of the cursor, not only of the
\* answer, that no fire has been passed.
Inv == TypeOK /\ NothingSkipped

\* Every turn of calc's loop keeps the invariant and, unless it is the last,
\* moves the cursor away from the start.
LEMMA TurnOK ==
    ASSUME Inv, Next
    PROVE  StepOK
<1>1. Searching
  BY DEF Inv, Searching, Next, GiveUp, NoYearLeft, ProcYear, ProcMonth,
         ProcNearestWeekday, ProcDayOfMonth, ProcDayOfWeekNth, ProcDayOfWeek,
         ProcHour, ProcMinute, ProcSecond, Found, HourDone, MinuteDone,
         DayDone, DomDone, MonthDone, YearDone, Turn
<1>2. CASE GiveUp
  BY <1>1, <1>2, FailStep DEF GiveUp, Errors
<1>3. CASE NoYearLeft
  BY <1>1, <1>3, FailStep DEF NoYearLeft, Errors
<1>4. CASE ProcYear
  BY <1>1, <1>4, YearStep
<1>5. CASE ProcMonth
  BY <1>1, <1>5, MonthFieldStep
<1>6. CASE ProcNearestWeekday
  BY <1>1, <1>6, NearestWeekdayStep
<1>7. CASE ProcDayOfMonth
  BY <1>1, <1>7, DayOfMonthStep
<1>8. CASE ProcDayOfWeekNth
  BY <1>1, <1>8, NthStep
<1>9. CASE ProcDayOfWeek
  BY <1>1, <1>9, WeekdayStep
<1>10. CASE ProcHour
  BY <1>1, <1>10, HourStep
<1>11. CASE ProcMinute
  BY <1>1, <1>11, MinuteStep
<1>12. CASE ProcSecond
  BY <1>1, <1>12, SecondStep
<1>13. CASE Found
  BY <1>1, <1>13, FoundStep
<1>. QED
  BY <1>2, <1>3, <1>4, <1>5, <1>6, <1>7, <1>8, <1>9, <1>10, <1>11, <1>12, <1>13
  DEF Next

\* The invariant of the search.
LEMMA Invariance == Spec => []Inv
<1>1. Init => Inv
  BY InitOK DEF Inv
<1>2. Inv /\ [Next]_vars => Inv'
  <2>1. ASSUME Inv, Next PROVE Inv'
    BY <2>1, TurnOK DEF StepOK, Inv
  <2>2. ASSUME Inv, UNCHANGED vars PROVE Inv'
    BY <2>2 DEF Inv, TypeOK, NothingSkipped, vars
  <2>. QED
    BY <2>1, <2>2
<1>. QED
  BY <1>1, <1>2, PTL DEF Spec

\* The cursor is always an instant chrono can represent, whatever the
\* expression, the start, the year bound and the range of the calendar.
THEOREM TypeCorrect == Spec => []TypeOK
<1>1. Inv => TypeOK
  BY DEF Inv
<1>. QED
  BY <1>1, Invariance, PTL

\* calc never passes a fire: the answer it finds is the nearest one.
THEOREM NothingIsSkipped == Spec => []NothingSkipped
<1>1. Inv => NothingSkipped
  BY DEF Inv
<1>. QED
  BY <1>1, Invariance, PTL

\* Every turn but the last moves the cursor strictly away from the start, so
\* calc never comes back to an instant it has left.
THEOREM AlwaysMovesAway == Spec => MovesAway
<1>1. Inv /\ [Next]_vars => [outcome' = "searching" => Nearer(req, cur, cur')]_vars
  BY TurnOK DEF StepOK
<1>. QED
  BY <1>1, Invariance, PTL DEF Spec, MovesAway

=============================================================================
