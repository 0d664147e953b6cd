----------------------------- MODULE CalendarProofs -----------------------------
(***************************************************************************)
(* Facts about the calendar: the months follow one another without gap or  *)
(* overlap, so every day of the range lies in exactly one month.           *)
(***************************************************************************)
EXTENDS Calendar, FiniteSetsExt, WellFoundedInduction, TLAPS

(***************************************************************************)
(* Least and greatest numbers.                                             *)
(***************************************************************************)

\* A non-empty set of naturals has a least element, and Min is it.
LEMMA MinIsLeast ==
    ASSUME NEW S \in SUBSET Nat, S # {}
    PROVE  Min(S) \in S /\ \A y \in S : Min(S) <= y
<1>1. \E x \in S : \A y \in S : x <= y
  <2>1. PICK x \in S : \A y \in S : ~ (<<y, x>> \in OpToRel(<, Nat))
    BY NatLessThanWellFounded, WFMin
  <2>2. ASSUME NEW y \in S PROVE x <= y
    <3>1. <<y, x>> \in Nat \X Nat
      OBVIOUS
    <3>2. ~ (y < x)
      BY <2>1, <3>1 DEF OpToRel
    <3>. QED
      BY <3>2
  <2>. QED
    BY <2>2
<1>. QED
  BY <1>1 DEF Min

\* A non-empty set of naturals with an upper bound has a greatest element,
\* and Max is it.
LEMMA MaxIsGreatest ==
    ASSUME NEW n \in Nat, NEW S \in SUBSET (0..n), S # {}
    PROVE  Max(S) \in S /\ \A y \in S : y <= Max(S)
<1>1. PICK M : M = {n - x : x \in S}
  OBVIOUS
<1>2. \A x \in S : x \in Int /\ 0 <= x /\ x <= n
  OBVIOUS
<1>3. M # {} /\ \A z \in M : \E x \in S : z = n - x
  BY <1>1
<1>4. M \in SUBSET Nat
  <2>1. ASSUME NEW z \in M PROVE z \in Nat
    BY <1>2, <1>3
  <2>. QED
    BY <2>1
<1>5. Min(M) \in M /\ \A y \in M : Min(M) <= y
  BY <1>3, <1>4, MinIsLeast
<1>6. PICK x \in S : Min(M) = n - x
  BY <1>3, <1>5
<1>7. ASSUME NEW y \in S PROVE x >= y
  <2>1. n - y \in M
    BY <1>1
  <2>2. Min(M) <= n - y
    BY <1>5, <2>1
  <2>3. n - x <= n - y
    BY <1>6, <2>2
  <2>. QED
    BY <1>2, <2>3
<1>8. \E z \in S : \A y \in S : z >= y
  BY <1>7
<1>9. Max(S) \in S /\ \A y \in S : Max(S) >= y
  BY <1>8 DEF Max
<1>. QED
  BY <1>2, <1>9

(***************************************************************************)
(* Months and years.                                                       *)
(***************************************************************************)

\* A month has 28 to 31 days.
LEMMA MonthLengthRange ==
    ASSUME NEW m \in Int
    PROVE  MonthLength(m) \in 28..31
<1>1. MonthNumber(m) \in 1..12
  BY DEF MonthNumber
<1>. QED
  BY <1>1, Z3 DEF MonthLength, last_day_of_month, DAYS

\* Twelve months to a year.
LEMMA MonthYearNext ==
    ASSUME NEW m \in Int
    PROVE  /\ MonthNumber(m) \in 1..12
           /\ MonthYear(m) \in Int
           /\ MonthNumber(m) < 12 =>
                 MonthYear(m + 1) = MonthYear(m) /\ MonthNumber(m + 1) = MonthNumber(m) + 1
           /\ MonthNumber(m) = 12 =>
                 MonthYear(m + 1) = MonthYear(m) + 1 /\ MonthNumber(m + 1) = 1
  BY DEF MonthNumber, MonthYear

\* A year is 365 days long, 366 when it is a leap year.
LEMMA YearLength ==
    ASSUME NEW y \in Int
    PROVE  DaysBeforeYear(y + 1) = DaysBeforeYear(y) + 365 + (IF is_leap(y) THEN 1 ELSE 0)
  BY DEF DaysBeforeYear, is_leap

\* The days before a year are a number.
LEMMA YearStart ==
    ASSUME NEW y \in Int
    PROVE  DaysBeforeYear(y) \in Int
  BY DEF DaysBeforeYear

\* Within a year the table of month ends adds up the lengths of the months.
LEMMA MonthEnds ==
    ASSUME NEW y \in Int, NEW k \in 1..12
    PROVE  /\ DaysBeforeMonth(y, k) \in Int
           /\ k < 12 => DaysBeforeMonth(y, k + 1) = DaysBeforeMonth(y, k) + last_day_of_month(y, k)
           /\ DaysBeforeMonth(y, 1) = 0
           /\ k = 12 => DaysBeforeMonth(y, k) + last_day_of_month(y, k)
                          = 365 + (IF is_leap(y) THEN 1 ELSE 0)
<1> USE DEF DaysBeforeMonth, last_day_of_month, DAYS
<1>. is_leap(y) \in BOOLEAN
  BY DEF is_leap
<1> HIDE DEF is_leap
<1>1. CASE k = 1 BY <1>1
<1>2. CASE k = 2 BY <1>2
<1>3. CASE k = 3 BY <1>3
<1>4. CASE k = 4 BY <1>4
<1>5. CASE k = 5 BY <1>5
<1>6. CASE k = 6 BY <1>6
<1>7. CASE k = 7 BY <1>7
<1>8. CASE k = 8 BY <1>8
<1>9. CASE k = 9 BY <1>9
<1>10. CASE k = 10 BY <1>10
<1>11. CASE k = 11 BY <1>11
<1>12. CASE k = 12 BY <1>12
<1>. QED
  BY <1>1, <1>2, <1>3, <1>4, <1>5, <1>6, <1>7, <1>8, <1>9, <1>10, <1>11, <1>12

\* A month begins where the one before it ends.
LEMMA MonthOriginNext ==
    ASSUME NEW m \in Int
    PROVE  /\ MonthOrigin(m) \in Int
           /\ MonthOrigin(m + 1) = MonthOrigin(m) + MonthLength(m)
<1> DEFINE y == MonthYear(m)
           k == MonthNumber(m)
<1>1. y \in Int /\ k \in 1..12
  BY MonthYearNext
<1>2. DaysBeforeYear(y) \in Int /\ DaysBeforeMonth(y, k) \in Int
  BY <1>1, YearStart, MonthEnds
<1>3. MonthOrigin(m) \in Int
  BY <1>2 DEF MonthOrigin
<1>4. last_day_of_month(y, k) \in Int
  BY MonthLengthRange DEF MonthLength
<1>5. CASE k < 12
  <2>1. MonthOrigin(m + 1) = DaysBeforeYear(y) + DaysBeforeMonth(y, k + 1)
    BY <1>5, MonthYearNext DEF MonthOrigin
  <2>2. DaysBeforeMonth(y, k + 1) = DaysBeforeMonth(y, k) + last_day_of_month(y, k)
    BY <1>1, <1>5, MonthEnds
  <2>. QED
    BY <1>2, <1>3, <1>4, <2>1, <2>2 DEF MonthOrigin, MonthLength
<1>6. CASE k = 12
  <2>1. MonthOrigin(m + 1) = DaysBeforeYear(y + 1) + DaysBeforeMonth(y + 1, 1)
    BY <1>6, MonthYearNext DEF MonthOrigin
  <2>2. DaysBeforeMonth(y + 1, 1) = 0
    BY <1>1, MonthEnds
  <2>3. DaysBeforeYear(y + 1) = DaysBeforeYear(y) + 365 + (IF is_leap(y) THEN 1 ELSE 0)
    BY <1>1, YearLength
  <2>4. DaysBeforeMonth(y, k) + last_day_of_month(y, k) = 365 + (IF is_leap(y) THEN 1 ELSE 0)
    BY <1>1, <1>6, MonthEnds
  <2>5. MonthOrigin(m) = DaysBeforeYear(y) + DaysBeforeMonth(y, k)
    BY DEF MonthOrigin
  <2>6. MonthLength(m) = last_day_of_month(y, k)
    BY DEF MonthLength
  <2> HIDE DEF y, k
  <2>. QED
    BY <1>2, <1>4, <1>3, <2>1, <2>2, <2>3, <2>4, <2>5, <2>6
<1>. QED
  BY <1>1, <1>3, <1>5, <1>6

\* The months of the range are consecutive numbers.
LEMMA MonthsAreNumbers ==
    /\ FirstMonth \in Int /\ LastMonth \in Int
    /\ FirstMonth <= LastMonth
    /\ Months = FirstMonth .. LastMonth
    /\ \A m \in Months : m \in Int /\ m + 1 \in Int
  BY CalendarAssumption DEF FirstMonth, LastMonth, MonthIndex, Months

\* The table of month starts follows MonthOriginNext.
LEMMA MonthStartNext ==
    /\ \A m \in FirstMonth .. (LastMonth + 1) : MonthStart[m] \in Int
    /\ \A m \in Months :
          /\ m \in FirstMonth .. (LastMonth + 1)
          /\ m + 1 \in FirstMonth .. (LastMonth + 1)
          /\ MonthStart[m + 1] = MonthStart[m] + MonthLength(m)
          /\ MonthLength(m) \in 28..31
<1>1. ASSUME NEW m \in FirstMonth .. (LastMonth + 1)
      PROVE  MonthStart[m] \in Int
  <2>1. m \in Int
    BY MonthsAreNumbers
  <2>. QED
    BY <2>1, MonthOriginNext DEF MonthStart
<1>2. ASSUME NEW m \in Months
      PROVE  /\ m \in FirstMonth .. (LastMonth + 1)
             /\ m + 1 \in FirstMonth .. (LastMonth + 1)
             /\ MonthStart[m + 1] = MonthStart[m] + MonthLength(m)
             /\ MonthLength(m) \in 28..31
  <2>1. /\ m \in Int
        /\ m \in FirstMonth .. (LastMonth + 1)
        /\ m + 1 \in FirstMonth .. (LastMonth + 1)
    BY MonthsAreNumbers
  <2>2. MonthStart[m] = MonthOrigin(m) /\ MonthStart[m + 1] = MonthOrigin(m + 1)
    BY <2>1 DEF MonthStart
  <2>. QED
    BY <2>1, <2>2, MonthOriginNext, MonthLengthRange
<1>. QED
  BY <1>1, <1>2

\* A later month starts later.  A least counterexample n after m would
\* have a month before it that is none.
LEMMA MonthsOrdered ==
    ASSUME NEW m \in FirstMonth .. (LastMonth + 1),
           NEW n \in FirstMonth .. (LastMonth + 1), m < n
    PROVE  MonthStart[m] < MonthStart[n]
<1>. DEFINE Bad == {d \in Nat : /\ m + d + 1 \in FirstMonth .. (LastMonth + 1)
                               /\ ~ (MonthStart[m] < MonthStart[m + d + 1])}
<1>1. FirstMonth \in Int /\ LastMonth \in Int /\ m \in Int /\ n \in Int
  BY MonthsAreNumbers
<1>2. ASSUME Bad # {} PROVE FALSE
  <2>1. Bad \in SUBSET Nat
    OBVIOUS
  <2>2. PICK d : d = Min(Bad)
    OBVIOUS
  <2>3. d \in Bad /\ \A x \in Bad : d <= x
    <3> HIDE DEF Bad
    <3>. QED BY <1>2, <2>1, <2>2, MinIsLeast
  <2>4. d \in Nat
    BY <2>3
  <2>5. m + d \in Months /\ (m + d) + 1 = m + d + 1
    BY <1>1, <2>3, MonthsAreNumbers
  <2>6. MonthStart[m + d] < MonthStart[m + d + 1]
    BY <2>5, MonthStartNext
  <2>7. CASE d = 0
    BY <1>1, <2>3, <2>6, <2>7
  <2>8. CASE d # 0
    <3>1. d - 1 \in Nat /\ m + (d - 1) + 1 = m + d
      BY <1>1, <2>4, <2>8
    <3>2. d - 1 \notin Bad
      BY <2>3, <2>4, <3>1
    <3>3. MonthStart[m] < MonthStart[m + d]
      BY <3>1, <3>2, <2>5, MonthStartNext
    <3>4. ~ (MonthStart[m] < MonthStart[m + d + 1])
      BY <2>3
    <3>5. MonthStart[m] \in Int /\ MonthStart[m + d] \in Int /\ MonthStart[m + d + 1] \in Int
      BY <2>3, <2>5, MonthStartNext
    <3>. QED
      BY <2>6, <3>3, <3>4, <3>5
  <2>. QED
    BY <2>7, <2>8
<1>3. n - m - 1 \in Nat /\ m + (n - m - 1) + 1 = n
  BY <1>1
<1>. QED
  BY <1>2, <1>3

\* Every day lies in its month.
LEMMA MonthOfDay ==
    ASSUME NEW t \in Days
    PROVE  /\ MonthOf[t] \in Months
           /\ MonthStart[MonthOf[t]] <= t
           /\ t < MonthStart[MonthOf[t] + 1]
<1>. DEFINE After == {d \in Nat : /\ FirstMonth + d \in Months
                                 /\ t < MonthStart[FirstMonth + d + 1]}
<1>1. /\ FirstMonth \in Int /\ LastMonth \in Int /\ FirstMonth <= LastMonth
      /\ t \in Int /\ MonthStart[FirstMonth] <= t /\ t < MonthStart[LastMonth + 1]
  <2>1. FirstMonth \in Int /\ LastMonth \in Int /\ FirstMonth <= LastMonth
    BY MonthsAreNumbers
  <2>2. MonthStart[FirstMonth] \in Int /\ MonthStart[LastMonth + 1] \in Int
    BY <2>1, MonthStartNext
  <2>. QED
    BY <2>1, <2>2 DEF Days
<1>2. LastMonth - FirstMonth \in After
  <2>1. /\ LastMonth - FirstMonth \in Nat
        /\ FirstMonth + (LastMonth - FirstMonth) = LastMonth
        /\ FirstMonth + (LastMonth - FirstMonth) + 1 = LastMonth + 1
    BY <1>1
  <2>2. LastMonth \in Months
    BY <1>1, MonthsAreNumbers
  <2>. QED
    BY <1>1, <2>1, <2>2
<1>3. After \in SUBSET Nat /\ After # {}
  BY <1>2
<1>4. PICK d : d = Min(After)
  OBVIOUS
<1>5. d \in After /\ \A x \in After : d <= x
  <2> HIDE DEF After
  <2>. QED BY <1>3, <1>4, MinIsLeast
<1>6. d \in Nat /\ FirstMonth + d \in Months
  BY <1>5
<1>7. MonthStart[FirstMonth + d] <= t
  <2>1. CASE d = 0
    BY <1>1, <2>1
  <2>2. CASE d # 0
    <3>1. /\ d - 1 \in Nat /\ FirstMonth + (d - 1) + 1 = FirstMonth + d
          /\ FirstMonth + (d - 1) \in Months
      BY <1>1, <1>6, <2>2, MonthsAreNumbers
    <3>2. d - 1 \notin After
      BY <1>5, <1>6, <3>1
    <3>3. ~ (t < MonthStart[FirstMonth + d])
      BY <3>1, <3>2
    <3>4. MonthStart[FirstMonth + d] \in Int
      BY <1>6, MonthStartNext
    <3>. QED
      BY <1>1, <3>3, <3>4
  <2>. QED
    BY <2>1, <2>2
<1>8. \E m \in Months : MonthStart[m] <= t /\ t < MonthStart[m + 1]
  BY <1>5, <1>6, <1>7
<1>. QED
  BY <1>8 DEF MonthOf

\* The month a day lies in is unique.
LEMMA OnlyMonthOfDay ==
    ASSUME NEW t \in Days, NEW m \in Months,
           MonthStart[m] <= t, t < MonthStart[m + 1]
    PROVE  MonthOf[t] = m
<1>. DEFINE k == MonthOf[t]
<1>1. k \in Months /\ MonthStart[k] <= t /\ t < MonthStart[k + 1]
  BY MonthOfDay
<1>2. /\ m \in Int /\ k \in Int
      /\ \A x \in {m, m + 1, k, k + 1} :
            x \in FirstMonth .. (LastMonth + 1) /\ MonthStart[x] \in Int
  BY <1>1, MonthStartNext, MonthsAreNumbers
<1>3. t \in Int
  BY MonthsAreNumbers, MonthStartNext DEF Days
<1>4. ~ (m + 1 < k) /\ m + 1 # k
  BY <1>1, <1>2, <1>3, MonthsOrdered
<1>5. ~ (k + 1 < m) /\ k + 1 # m
  BY <1>1, <1>2, <1>3, MonthsOrdered
<1>. QED
  BY <1>2, <1>4, <1>5

\* What the fields of a day of the range are.
LEMMA DayFields ==
    ASSUME NEW t \in Days
    PROVE  /\ t \in Int
           /\ MonthOf[t] \in Months
           /\ MonthLength(MonthOf[t]) \in 28..31
           /\ DomOf(t) \in 1 .. MonthLength(MonthOf[t])
           /\ MonthNoOf(t) \in 1..12
           /\ DowOf(t) \in 0..6
<1>1. t \in Int
  BY MonthsAreNumbers, MonthStartNext DEF Days
<1>2. MonthOf[t] \in Months /\ MonthStart[MonthOf[t]] <= t /\ t < MonthStart[MonthOf[t] + 1]
  BY MonthOfDay
<1>3. /\ MonthStart[MonthOf[t]] \in Int
      /\ MonthStart[MonthOf[t] + 1] = MonthStart[MonthOf[t]] + MonthLength(MonthOf[t])
      /\ MonthLength(MonthOf[t]) \in 28..31
  BY <1>2, MonthStartNext
<1>4. MonthNoOf(t) \in 1..12
  BY <1>2, MonthsAreNumbers, MonthYearNext DEF MonthNoOf
<1>5. DowOf(t) \in 0..6
  BY <1>1 DEF DowOf
<1>6. DomOf(t) \in 1 .. MonthLength(MonthOf[t])
  BY <1>1, <1>2, <1>3 DEF DomOf
<1>. QED
  BY <1>1, <1>2, <1>3, <1>4, <1>5, <1>6

\* Later days lie in later months, or in the same one.
LEMMA MonthOrder ==
    ASSUME NEW t \in Days, NEW u \in Days, t <= u
    PROVE  MonthOf[t] <= MonthOf[u]
<1>. DEFINE k == MonthOf[t]
            m == MonthOf[u]
<1>1. /\ k \in Months /\ MonthStart[k] <= t /\ t < MonthStart[k + 1]
      /\ m \in Months /\ MonthStart[m] <= u /\ u < MonthStart[m + 1]
  BY MonthOfDay
<1>2. t \in Int /\ u \in Int
  BY DayFields
<1>3. /\ k \in Int /\ m \in Int
      /\ k \in FirstMonth .. (LastMonth + 1) /\ MonthStart[k] \in Int
      /\ m + 1 \in FirstMonth .. (LastMonth + 1) /\ MonthStart[m + 1] \in Int
  BY <1>1, MonthStartNext, MonthsAreNumbers
<1>4. MonthStart[k] < MonthStart[m + 1]
  BY <1>1, <1>2, <1>3
<1>5. ~ (m + 1 < k) /\ m + 1 # k
  BY <1>3, <1>4, MonthsOrdered
<1>. QED
  BY <1>3, <1>5

\* The days before the first of a month lie in earlier months, the others do not.
LEMMA MonthBound ==
    ASSUME NEW u \in Days, NEW m \in FirstMonth .. (LastMonth + 1)
    PROVE  u < MonthStart[m] <=> MonthOf[u] < m
<1>. DEFINE k == MonthOf[u]
<1>1. k \in Months /\ MonthStart[k] <= u /\ u < MonthStart[k + 1]
  BY MonthOfDay
<1>2. u \in Int /\ m \in Int
  BY DayFields, MonthsAreNumbers
<1>3. /\ k \in Int
      /\ k \in FirstMonth .. (LastMonth + 1) /\ MonthStart[k] \in Int
      /\ k + 1 \in FirstMonth .. (LastMonth + 1) /\ MonthStart[k + 1] \in Int
      /\ MonthStart[m] \in Int
  BY <1>1, MonthStartNext, MonthsAreNumbers
<1>4. m < k => MonthStart[m] < MonthStart[k]
  BY <1>3, MonthsOrdered
<1>5. k + 1 < m => MonthStart[k + 1] < MonthStart[m]
  BY <1>3, MonthsOrdered
<1>6. CASE k < m
  <2>1. k + 1 = m \/ k + 1 < m
    BY <1>2, <1>3, <1>6
  <2>. QED
    BY <1>1, <1>2, <1>3, <1>5, <1>6, <2>1
<1>7. CASE ~ (k < m)
  <2>1. m = k \/ m < k
    BY <1>2, <1>3, <1>7
  <2>. QED
    BY <1>1, <1>2, <1>3, <1>4, <1>7, <2>1
<1>. QED
  BY <1>6, <1>7

(***************************************************************************)
(* Instants as numbers.  A moment is an instant whose day may lie outside  *)
(* the calendar, which is what an addition yields before it is checked.    *)
(***************************************************************************)

Moments == [day : Int, h : 0..23, mi : 0..59, s : 0..59]

HourStamp(c)   == 24 * c.day + c.h
MinuteStamp(c) == 60 * HourStamp(c) + c.mi
Stamp(c)       == 60 * MinuteStamp(c) + c.s

\* A moment is an instant when its day is on the calendar.
LEMMA InstantsAreMoments ==
    ASSUME NEW c \in Moments
    PROVE  c.day \in Days <=> c \in Instants
  BY DEF Moments, Instants

\* Every instant is a moment.
LEMMA InstantIsMoment ==
    ASSUME NEW c \in Instants
    PROVE  c \in Moments /\ c.day \in Days
<1>1. c.day \in Int
  BY DayFields DEF Instants
<1>. QED
  BY <1>1 DEF Moments, Instants

\* The four numbers of a moment.
LEMMA MomentParts ==
    ASSUME NEW c \in Moments
    PROVE  \E d \in Int, h \in 0..23, mi \in 0..59, s \in 0..59 :
              c = [day |-> d, h |-> h, mi |-> mi, s |-> s]
  BY DEF Moments

\* The stamps of a moment are integers.
LEMMA StampIsInt ==
    ASSUME NEW c \in Moments
    PROVE  /\ c.day \in Int /\ c.h \in 0..23 /\ c.mi \in 0..59 /\ c.s \in 0..59
           /\ HourStamp(c) \in Int
           /\ MinuteStamp(c) \in Int
           /\ Stamp(c) \in Int
<1>1. PICK d \in Int, h \in 0..23, mi \in 0..59, s \in 0..59 :
              c = [day |-> d, h |-> h, mi |-> mi, s |-> s]
  BY MomentParts
<1>2. PICK x \in Int : x = HourStamp(c)
  BY <1>1 DEF HourStamp
<1>3. PICK y \in Int : y = MinuteStamp(c)
  BY <1>1, <1>2 DEF MinuteStamp
<1>4. Stamp(c) \in Int
  BY <1>1, <1>3 DEF Stamp
<1>. QED
  BY <1>1, <1>2, <1>3, <1>4

\* Before is the order of the stamps, and a moment is determined by its stamp.
LEMMA StampOrder ==
    ASSUME NEW a \in Moments, NEW b \in Moments
    PROVE  /\ Before(a, b) <=> Stamp(a) < Stamp(b)
           /\ Stamp(a) = Stamp(b) => a = b
<1>1. PICK d \in Int, h \in 0..23, mi \in 0..59, s \in 0..59 :
              a = [day |-> d, h |-> h, mi |-> mi, s |-> s]
  BY MomentParts
<1>2. PICK e \in Int, g \in 0..23, ni \in 0..59, z \in 0..59 :
              b = [day |-> e, h |-> g, mi |-> ni, s |-> z]
  BY MomentParts
<1>3. PICK x \in Int : x = 24 * d + h
  OBVIOUS
<1>4. PICK y \in Int : y = 24 * e + g
  OBVIOUS
<1>5. PICK u \in Int : u = 60 * x + mi
  OBVIOUS
<1>6. PICK v \in Int : v = 60 * y + ni
  OBVIOUS
<1>7. Stamp(a) = 60 * u + s /\ Stamp(b) = 60 * v + z
  BY <1>1, <1>2, <1>3, <1>4, <1>5, <1>6 DEF Stamp, MinuteStamp, HourStamp
<1>8. /\ (60 * u + s < 60 * v + z) <=> (u < v \/ (u = v /\ s < z))
      /\ (60 * u + s = 60 * v + z) <=> (u = v /\ s = z)
  OBVIOUS
<1>9. /\ (u < v) <=> (x < y \/ (x = y /\ mi < ni))
      /\ (u = v) <=> (x = y /\ mi = ni)
  BY <1>5, <1>6
<1>10. /\ (x < y) <=> (d < e \/ (d = e /\ h < g))
       /\ (x = y) <=> (d = e /\ h = g)
  BY <1>3, <1>4
<1>. QED
  BY <1>1, <1>2, <1>7, <1>8, <1>9, <1>10 DEF Before

\* Quotient and remainder.
LEMMA DivMod ==
    ASSUME NEW x \in Int
    PROVE  /\ \E q \in Int, r \in 0..23 : x = 24 * q + r /\ q = x \div 24 /\ r = x % 24
           /\ \E q \in Int, r \in 0..59 : x = 60 * q + r /\ q = x \div 60 /\ r = x % 60
<1>1. x \div 24 \in Int /\ x % 24 \in 0..23 /\ x = 24 * (x \div 24) + (x % 24)
  OBVIOUS
<1>2. x \div 60 \in Int /\ x % 60 \in 0..59 /\ x = 60 * (x \div 60) + (x % 60)
  OBVIOUS
<1>. QED
  BY <1>1, <1>2

\* Adding hours, minutes or seconds adds to the stamp of the finest part
\* that changes and leaves the finer parts alone.
LEMMA AddHoursStamp ==
    ASSUME NEW c \in Moments, NEW k \in Int
    PROVE  /\ AddHours(c, k) \in Moments
           /\ AddHours(c, k).mi = c.mi /\ AddHours(c, k).s = c.s
           /\ HourStamp(AddHours(c, k)) = HourStamp(c) + k
<1>1. PICK d \in Int, h \in 0..23, mi \in 0..59, s \in 0..59 :
              c = [day |-> d, h |-> h, mi |-> mi, s |-> s]
  BY MomentParts
<1>2. PICK q \in Int, r \in 0..23 :
              h + k = 24 * q + r /\ q = (h + k) \div 24 /\ r = (h + k) % 24
  BY DivMod
<1>3. AddHours(c, k) = [day |-> d + q, h |-> r, mi |-> mi, s |-> s]
  <2>1. c.h + k = h + k
    BY <1>1
  <2>2. AddHours(c, k) = AddDays([c EXCEPT !.h = r], q)
    BY <1>2, <2>1, Zenon DEF AddHours
  <2>3. PICK b : b = [day |-> d, h |-> r, mi |-> mi, s |-> s]
    OBVIOUS
  <2>4. [c EXCEPT !.h = r] = b
    BY <1>1, <2>3
  <2>5. AddDays(b, q) = [day |-> d + q, h |-> r, mi |-> mi, s |-> s]
    BY <2>3 DEF AddDays
  <2>. QED
    BY <2>2, <2>4, <2>5
<1>4. AddHours(c, k) \in Moments
  BY <1>3 DEF Moments
<1>5. HourStamp(AddHours(c, k)) = 24 * (d + q) + r /\ HourStamp(c) = 24 * d + h
  BY <1>1, <1>3 DEF HourStamp
<1>. QED
  BY <1>1, <1>2, <1>3, <1>4, <1>5

\* Adding minutes adds to the minute stamp and keeps the second.
LEMMA AddMinutesStamp ==
    ASSUME NEW c \in Moments, NEW k \in Int
    PROVE  /\ AddMinutes(c, k) \in Moments
           /\ AddMinutes(c, k).s = c.s
           /\ MinuteStamp(AddMinutes(c, k)) = MinuteStamp(c) + k
<1>1. PICK d \in Int, h \in 0..23, mi \in 0..59, s \in 0..59 :
              c = [day |-> d, h |-> h, mi |-> mi, s |-> s]
  BY MomentParts
<1>2. PICK q \in Int, r \in 0..59 :
              mi + k = 60 * q + r /\ q = (mi + k) \div 60 /\ r = (mi + k) % 60
  BY DivMod
<1>3. PICK b : b = [day |-> d, h |-> h, mi |-> r, s |-> s]
  OBVIOUS
<1>4. b \in Moments /\ HourStamp(b) = HourStamp(c)
  BY <1>1, <1>3 DEF Moments, HourStamp
<1>5. AddMinutes(c, k) = AddHours(b, q)
  <2>1. c.mi + k = mi + k
    BY <1>1
  <2>2. AddMinutes(c, k) = AddHours([c EXCEPT !.mi = r], q)
    BY <1>2, <2>1, Zenon DEF AddMinutes
  <2>3. [c EXCEPT !.mi = r] = b
    BY <1>1, <1>3
  <2>. QED
    BY <2>2, <2>3
<1>6. /\ AddHours(b, q) \in Moments
      /\ AddHours(b, q).mi = r /\ AddHours(b, q).s = s
      /\ HourStamp(AddHours(b, q)) = HourStamp(c) + q
  BY <1>3, <1>4, AddHoursStamp
<1>7. PICK x \in Int : x = HourStamp(c)
  BY StampIsInt
<1>8. MinuteStamp(AddMinutes(c, k)) = 60 * (x + q) + r /\ MinuteStamp(c) = 60 * x + mi
  BY <1>1, <1>5, <1>6, <1>7 DEF MinuteStamp
<1>. QED
  BY <1>1, <1>2, <1>5, <1>6, <1>8

\* Adding seconds adds to the stamp.
LEMMA AddSecondsStamp ==
    ASSUME NEW c \in Moments, NEW k \in Int
    PROVE  /\ AddSeconds(c, k) \in Moments
           /\ Stamp(AddSeconds(c, k)) = Stamp(c) + k
<1>1. PICK d \in Int, h \in 0..23, mi \in 0..59, s \in 0..59 :
              c = [day |-> d, h |-> h, mi |-> mi, s |-> s]
  BY MomentParts
<1>2. PICK q \in Int, r \in 0..59 :
              s + k = 60 * q + r /\ q = (s + k) \div 60 /\ r = (s + k) % 60
  BY DivMod
<1>3. PICK b : b = [day |-> d, h |-> h, mi |-> mi, s |-> r]
  OBVIOUS
<1>4. b \in Moments /\ MinuteStamp(b) = MinuteStamp(c)
  BY <1>1, <1>3 DEF Moments, MinuteStamp, HourStamp
<1>5. AddSeconds(c, k) = AddMinutes(b, q)
  <2>1. c.s + k = s + k
    BY <1>1
  <2>2. AddSeconds(c, k) = AddMinutes([c EXCEPT !.s = r], q)
    BY <1>2, <2>1, Zenon DEF AddSeconds
  <2>3. [c EXCEPT !.s = r] = b
    BY <1>1, <1>3
  <2>. QED
    BY <2>2, <2>3
<1>6. /\ AddMinutes(b, q) \in Moments
      /\ AddMinutes(b, q).s = r
      /\ MinuteStamp(AddMinutes(b, q)) = MinuteStamp(c) + q
  BY <1>3, <1>4, AddMinutesStamp
<1>7. PICK x \in Int : x = MinuteStamp(c)
  BY StampIsInt
<1>8. Stamp(AddSeconds(c, k)) = 60 * (x + q) + r /\ Stamp(c) = 60 * x + s
  BY <1>1, <1>5, <1>6, <1>7 DEF Stamp
<1>. QED
  BY <1>1, <1>2, <1>5, <1>6, <1>8

\* Comparing moments by the hour or the minute alone.
LEMMA StampLevels ==
    ASSUME NEW a \in Moments, NEW b \in Moments
    PROVE  /\ HourStamp(a) < HourStamp(b) => Before(a, b)
           /\ MinuteStamp(a) < MinuteStamp(b) => Before(a, b)
           /\ Before(a, b) =>
                 /\ HourStamp(a) <= HourStamp(b)
                 /\ MinuteStamp(a) <= MinuteStamp(b)
                 /\ b.s = 0 \/ a.s = 59 => MinuteStamp(a) < MinuteStamp(b)
                 /\ (b.mi = 0 /\ b.s = 0) \/ (a.mi = 59 /\ a.s = 59)
                       => HourStamp(a) < HourStamp(b)
<1>1. PICK d \in Int, h \in 0..23, mi \in 0..59, s \in 0..59 :
              a = [day |-> d, h |-> h, mi |-> mi, s |-> s]
  BY MomentParts
<1>2. PICK e \in Int, g \in 0..23, ni \in 0..59, z \in 0..59 :
              b = [day |-> e, h |-> g, mi |-> ni, s |-> z]
  BY MomentParts
<1>3. PICK x \in Int : x = 24 * d + h
  OBVIOUS
<1>4. PICK y \in Int : y = 24 * e + g
  OBVIOUS
<1>5. PICK u \in Int : u = 60 * x + mi
  OBVIOUS
<1>6. PICK v \in Int : v = 60 * y + ni
  OBVIOUS
<1>7. /\ HourStamp(a) = x /\ HourStamp(b) = y
      /\ MinuteStamp(a) = u /\ MinuteStamp(b) = v
      /\ Stamp(a) = 60 * u + s /\ Stamp(b) = 60 * v + z
  BY <1>1, <1>2, <1>3, <1>4, <1>5, <1>6 DEF Stamp, MinuteStamp, HourStamp
<1>8. Before(a, b) <=> 60 * u + s < 60 * v + z
  BY <1>7, StampOrder
<1>9. x < y => u < v
  BY <1>5, <1>6
<1>10. u < v => 60 * u + s < 60 * v + z
  OBVIOUS
<1>11. 60 * u + s < 60 * v + z =>
          /\ u <= v /\ x <= y
          /\ z = 0 \/ s = 59 => u < v
          /\ (ni = 0 /\ z = 0) \/ (mi = 59 /\ s = 59) => x < y
  BY <1>5, <1>6
<1>12. a.mi = mi /\ a.s = s /\ b.mi = ni /\ b.s = z
  BY <1>1, <1>2
<1>. QED
  BY <1>7, <1>8, <1>9, <1>10, <1>11, <1>12

=============================================================================
