----------------------------- MODULE CalcNextProofs -----------------------------
(***************************************************************************)
(* calc_next answers for the schedule it stands for: one search, or two    *)
(* searches that each know one of the two day fields.                      *)
(*                                                                         *)
(* Two facts carry the proof.  Without W and weekday#n the union of the    *)
(* day fields fires exactly when one of the two legs does; and a leg with  *)
(* no fire in scope has none nearer than the other leg's answer, whose     *)
(* years are in scope.                                                     *)
(***************************************************************************)
EXTENDS CalcNext, CalcSearchRefines

(***************************************************************************)
(* Answers, request by request.                                            *)
(***************************************************************************)

\* A fire, or an error.
LEMMA AnswerKinds ==
    ASSUME NEW r, NEW a \in Answers(r)
    PROVE  /\ a.kind = "fire" => a \in FireAnswers(r)
           /\ a.kind # "fire" => a \in ErrorAnswers(r)
           /\ a.kind \in {"fire"} \cup Errors
  BY DEF Answers, FireAnswers, ErrorAnswers, Errors

\* What a fire answers.
LEMMA FireAnswerParts ==
    ASSUME NEW r, NEW a \in FireAnswers(r)
    PROVE  \E i \in Instants :
              /\ a = Fire(i) /\ Fires(r.expr, i) /\ IsAhead(r, i)
              /\ WithinYears(r, YearOf(i.day)) /\ NoneNearer(r, i)
  BY DEF FireAnswers

\* NoneInScope, without the days it looks at.
LEMMA NoneInScopeMeans ==
    ASSUME NEW r \in Requests
    PROVE  NoneInScope(r) <=>
              \A f \in Instants :
                 Fires(r.expr, f) /\ IsAhead(r, f) => ~ WithinYears(r, YearOf(f.day))
<1>1. r.expr \in Exprs
  BY RequestParts
<1>2. ASSUME NoneInScope(r), NEW f \in Instants, Fires(r.expr, f), IsAhead(r, f),
             WithinYears(r, YearOf(f.day))
      PROVE  FALSE
  <2>1. f.day \in FireDays[r.expr]
    BY <1>2 DEF Fires
  <2>2. f \in TimesOn(r.expr, f.day)
    BY <1>2 DEF Fires, TimesOn, Instants
  <2>. QED
    BY <1>2, <2>1, <2>2 DEF NoneInScope
<1>3. ASSUME \A f \in Instants :
                 Fires(r.expr, f) /\ IsAhead(r, f) => ~ WithinYears(r, YearOf(f.day))
      PROVE  NoneInScope(r)
  BY <1>1, <1>3, FireIsInstant DEF NoneInScope
<1>. QED
  BY <1>2, <1>3

\* A start whose first candidate is off the calendar has no fire ahead.
LEMMA OffCalendarNone ==
    ASSUME NEW r \in Requests, FirstCandidate(r).day \notin Days
    PROVE  NoneInScope(r)
<1>1. /\ r.at \in Instants /\ r.at \in Moments /\ r.at.day \in Days
      /\ r.isPrev \in BOOLEAN /\ r.expr.secs \in BOOLEAN
  BY RequestParts DEF Instants
<1>2. PICK g \in Moments : g = FirstCandidate(r)
  BY FirstCandidateMoment
<1>3. IsAhead(r, g)
  <2>1. PICK i : i = IF r.expr.secs THEN g ELSE [g EXCEPT !.s = 0]
    OBVIOUS
  <2>2. i = g
    <3>1. ASSUME NEW m \in Moments
          PROVE  [[m EXCEPT !.s = 0] EXCEPT !.s = 0] = [m EXCEPT !.s = 0]
      BY DEF Moments
    <3>2. ~r.expr.secs => \E m \in Moments : g = [m EXCEPT !.s = 0]
      <4>1. r.sub - 1 \in Int /\ 1 \in Int
        BY RequestParts
      <4>2. AddSeconds(r.at, r.sub - 1) \in Moments /\ AddMinutes(r.at, 1) \in Moments
        BY <1>1, <4>1, AddSecondsStamp, AddMinutesStamp
      <4>. QED
        BY <1>2, <4>2, Zenon DEF FirstCandidate
    <3>. QED
      BY <2>1, <3>1, <3>2
  <2>3. PICK a \in Int : a = Stamp(g)
    BY <1>2, StampIsInt
  <2>4. ~ Nearer(r, g, g)
    BY <1>2, <2>3, StampOrder DEF Nearer
  <2>. QED
    BY <1>2, <2>1, <2>2, <2>4, AheadOfStart
<1>4. PICK d \in Int, e \in Int : d = r.at.day /\ e = g.day /\ e \notin Days
  BY <1>1, <1>2, StampIsInt
<1>5. ASSUME NEW f \in Instants, Fires(r.expr, f), IsAhead(r, f)
      PROVE  FALSE
  <2>1. ~ Nearer(r, f, g) /\ f.day \in Days
    BY <1>2, <1>5, NoFireBeforeFirst DEF Instants
  <2>2. PICK v \in Int : v = f.day
    BY <1>5, InstantIsMoment, StampIsInt
  <2>3. CASE r.isPrev
    <3>1. e <= d /\ v <= e
      <4>1. e < d \/ e = d
        BY <1>3, <1>4, <2>3 DEF IsAhead, Before
      <4>2. ~ (e < v)
        BY <1>4, <2>1, <2>2, <2>3 DEF Nearer, Before
      <4>. QED
        BY <4>1, <4>2
    <3>2. e < v
      BY <1>1, <1>4, <2>1, <2>2, <3>1, OffCalendar
    <3>. QED
      BY <3>1, <3>2
  <2>4. CASE ~r.isPrev
    <3>1. d <= e /\ e <= v
      <4>1. d < e \/ e = d
        BY <1>3, <1>4, <2>4 DEF IsAhead, Before
      <4>2. ~ (v < e)
        BY <1>4, <2>1, <2>2, <2>4 DEF Nearer, Before
      <4>. QED
        BY <4>1, <4>2
    <3>2. v < e
      BY <1>1, <1>4, <2>1, <2>2, <3>1, OffCalendar
    <3>. QED
      BY <3>1, <3>2
  <2>. QED
    BY <1>1, <2>3, <2>4
<1>. QED
  BY <1>5, NoneInScopeMeans

\* An error says that nothing is in scope, on the calendar or off it.
LEMMA ErrorNone ==
    ASSUME NEW r \in Requests, NEW a \in ErrorAnswers(r)
    PROVE  NoneInScope(r)
  BY OffCalendarNone DEF ErrorAnswers

\* A request with nothing in scope has nothing nearer than an instant in scope.
LEMMA ScopeCovers ==
    ASSUME NEW r \in Requests, FirstCandidate(r).day \in Days, NoneInScope(r),
           NEW i \in Instants, WithinYears(r, YearOf(i.day))
    PROVE  NoneNearer(r, i)
<1>1. r.isPrev \in BOOLEAN
  BY RequestParts
<1>2. PICK g \in Instants : g = FirstCandidate(r)
  BY FirstCandidateMoment, InstantsAreMoments
<1>3. PICK a, b : a = YearOf(g.day) /\ b = YearOf(i.day) /\ Distance(a, b) <= MaxYears
  BY <1>2 DEF WithinYears
<1>4. ASSUME NEW f \in Instants, Fires(r.expr, f), IsAhead(r, f), Nearer(r, f, i)
      PROVE  FALSE
  <2>1. ~ Nearer(r, f, g)
    BY <1>2, <1>4, NoFireBeforeFirst
  <2>2. ~ Nearer(r, i, f)
    <3>1. f \in Moments /\ i \in Moments
      BY InstantIsMoment
    <3>2. PICK x \in Int, y \in Int : x = Stamp(f) /\ y = Stamp(i)
      BY <3>1, StampIsInt
    <3>. QED
      BY <1>4, <3>1, <3>2, StampOrder DEF Nearer
  <2>3. PICK c : c = YearOf(f.day)
    OBVIOUS
  <2>4. /\ a \in Int /\ b \in Int /\ c \in Int
        /\ IF r.isPrev THEN b <= c /\ c <= a ELSE a <= c /\ c <= b
    BY <1>1, <1>2, <1>3, <2>1, <2>2, <2>3, YearsTowards
  <2>5. PICK n \in Nat : n = MaxYears
    BY RequestAssumption
  <2>6. Distance(a, c) <= n
    <3>1. CASE r.isPrev
      <4>1. b <= c /\ c <= a /\ b <= a
        BY <2>4, <3>1
      <4>2. a - b <= n
        BY <1>3, <2>4, <2>5, <4>1 DEF Distance
      <4>3. a - c <= n
        BY <2>4, <4>1, <4>2
      <4>. QED
        BY <2>4, <4>1, <4>3 DEF Distance
    <3>2. CASE ~r.isPrev
      <4>1. a <= c /\ c <= b /\ a <= b
        BY <2>4, <3>2
      <4>2. b - a <= n
        BY <1>3, <2>4, <2>5, <4>1 DEF Distance
      <4>3. c - a <= n
        BY <2>4, <4>1, <4>2
      <4>. QED
        BY <2>4, <4>1, <4>3 DEF Distance
    <3>. QED
      BY <1>1, <3>1, <3>2
  <2>7. WithinYears(r, YearOf(f.day))
    BY <1>2, <1>3, <2>3, <2>5, <2>6 DEF WithinYears
  <2>. QED
    BY <1>4, <2>7, NoneInScopeMeans
<1>. QED
  BY <1>4, NoneNearerMeans

(***************************************************************************)
(* The two legs of a call and the union they make.                         *)
(***************************************************************************)

\* Requests that ask from the same start in the same way.
SameStart(r, q) ==
    /\ r.at = q.at /\ r.sub = q.sub /\ r.isPrev = q.isPrev
    /\ r.expr.secs = q.expr.secs

LEMMA SameStartMeans ==
    ASSUME NEW r, NEW q, SameStart(r, q)
    PROVE  /\ FirstCandidate(r) = FirstCandidate(q)
           /\ \A i : IsAhead(r, i) <=> IsAhead(q, i)
           /\ \A i, k : Nearer(r, i, k) <=> Nearer(q, i, k)
           /\ \A y : WithinYears(r, y) <=> WithinYears(q, y)
<1>1. FirstCandidate(r) = FirstCandidate(q)
  BY DEF SameStart, FirstCandidate
<1>. QED
  BY <1>1 DEF SameStart, IsAhead, Nearer, WithinYears

\* A change of the day fields leaves the rest of an expression alone.
LEMMA DayFieldsOnly ==
    ASSUME NEW e \in Exprs
    PROVE  /\ [e EXCEPT !.dow = Star].dow = Star /\ [e EXCEPT !.day = Star].day = Star
           /\ [e EXCEPT !.dow = Star].day = e.day /\ [e EXCEPT !.day = Star].dow = e.dow
           /\ [e EXCEPT !.either = TRUE].day = e.day
           /\ [e EXCEPT !.either = TRUE].dow = e.dow
           /\ [e EXCEPT !.either = TRUE].either
           /\ [e EXCEPT !.dow = Star].either = e.either
           /\ [e EXCEPT !.day = Star].either = e.either
           /\ \A d \in {[e EXCEPT !.dow = Star], [e EXCEPT !.day = Star], [e EXCEPT !.either = TRUE]} :
                 /\ d.secs = e.secs /\ d.second = e.second /\ d.minute = e.minute
                 /\ d.hour = e.hour /\ d.month = e.month /\ d.year = e.year
                 /\ d.w = e.w /\ d.nth = e.nth
<1>. PICK x : x \in Expanded /\ x = e
  BY ExprAssumption
<1>. QED
  BY DEF Expanded

Legs == {"single", "t1", "t2"}

\* A leg is a request calc accepts.
LEMMA LegParts ==
    ASSUME NEW c \in Calls
    PROVE  /\ c.expr \in Exprs /\ ~c.expr.either
           /\ \A l \in Legs : LegRequest(c, l) \in SearchRequests
           /\ Promised(c) \in Requests
           /\ \A l \in Legs : SameStart(LegRequest(c, l), Promised(c))
<1>1. /\ c.expr \in Exprs /\ c.at \in Starts /\ c.sub \in {0, 1} /\ c.isPrev \in BOOLEAN
      /\ ~c.expr.either
  BY CallsAssumption
<1>2. {[c.expr EXCEPT !.dow = Star], [c.expr EXCEPT !.day = Star],
       [c.expr EXCEPT !.either = TRUE]} \subseteq Exprs
  BY CallsAssumption
<1>3. ASSUME NEW l \in Legs
      PROVE  /\ LegExpr(c, l) \in Exprs /\ ~LegExpr(c, l).either
             /\ LegExpr(c, l).secs = c.expr.secs
  BY <1>1, <1>2, DayFieldsOnly DEF Legs, LegExpr
<1>4. ASSUME NEW l \in Legs
      PROVE  LegRequest(c, l) \in SearchRequests
  BY <1>1, <1>3 DEF LegRequest, SearchRequests, Requests
<1>5. Promised(c) \in Requests /\ Promised(c).expr.secs = c.expr.secs
  BY <1>1, <1>2, DayFieldsOnly DEF Promised, Requests
<1>6. ASSUME NEW l \in Legs
      PROVE  SameStart(LegRequest(c, l), Promised(c))
  BY <1>3, <1>5 DEF SameStart, LegRequest, Promised
<1>. QED
  BY <1>1, <1>4, <1>5, <1>6

\* The legs ask from the same start.
LEMMA LegsAgree ==
    ASSUME NEW c \in Calls
    PROVE  SameStart(LegRequest(c, "t1"), LegRequest(c, "t2"))
  BY LegParts DEF SameStart, Legs

\* A call that needs one search promises what that search answers.
LEMMA SinglePromise ==
    ASSUME NEW c \in Calls, ~Splits(c)
    PROVE  LegRequest(c, "single") = Promised(c)
  BY DEF LegRequest, LegExpr, Promised

\* With both day fields in a leg each, the union fires when one leg does.
LEMMA UnionFires ==
    ASSUME NEW c \in Calls, Splits(c), ~Carries(c), NEW f
    PROVE  Fires(Promised(c).expr, f) <=>
              \/ Fires(LegRequest(c, "t1").expr, f)
              \/ Fires(LegRequest(c, "t2").expr, f)
<1>1. /\ c.expr \in Exprs /\ ~c.expr.either /\ c.expr.nth = {} /\ c.expr.w = {}
  BY LegParts DEF Carries
<1>2. PICK e \in Exprs, p \in Exprs, q \in Exprs, u \in Exprs :
         /\ e = c.expr
         /\ p = [e EXCEPT !.dow = Star] /\ p = LegRequest(c, "t1").expr
         /\ q = [e EXCEPT !.day = Star] /\ q = LegRequest(c, "t2").expr
         /\ u = [e EXCEPT !.either = TRUE] /\ u = Promised(c).expr
  <2>1. {[c.expr EXCEPT !.dow = Star], [c.expr EXCEPT !.day = Star],
         [c.expr EXCEPT !.either = TRUE]} \subseteq Exprs
    BY CallsAssumption
  <2>. QED
    BY <1>1, <2>1 DEF LegRequest, LegExpr, Promised
<1>3. /\ u.either /\ u.day = e.day /\ u.dow = e.dow
      /\ ~p.either /\ p.day = e.day /\ p.dow = Star
      /\ ~q.either /\ q.day = Star /\ q.dow = e.dow
      /\ \A d \in {p, q, u} :
            /\ d.secs = e.secs /\ d.second = e.second /\ d.minute = e.minute
            /\ d.hour = e.hour /\ d.month = e.month /\ d.year = e.year
            /\ d.w = {} /\ d.nth = {}
  <2>1. e.w = {} /\ e.nth = {} /\ ~e.either
    BY <1>1, <1>2
  <2>. QED
    BY <1>2, <2>1, DayFieldsOnly
<1>4. Star.star
  BY DEF Star
<1>5. ASSUME NEW t \in Days
      PROVE  DayMatches(u, t) <=> DayMatches(p, t) \/ DayMatches(q, t)
  <2>1. \A d \in {p, q, u} :
           /\ YearMatches(d, t) <=> YearMatches(e, t)
           /\ MonthMatches(d, t) <=> MonthMatches(e, t)
    BY <1>3 DEF YearMatches, MonthMatches
  <2>2. /\ DomMatches(u, t) <=> DomMatches(p, t)
        /\ DowMatches(u, t) <=> DowMatches(q, t)
        /\ DomMatches(q, t) /\ DowMatches(p, t)
    BY <1>3, <1>4 DEF DomMatches, DowMatches
  <2>. QED
    BY <1>3, <2>1, <2>2 DEF DayMatches
<1>6. f.day \in FireDays[u] <=> f.day \in FireDays[p] \/ f.day \in FireDays[q]
  BY <1>5 DEF FireDays
<1>7. \A d \in {p, q, u} : Hours(d) = Hours(e) /\ Minutes(d) = Minutes(e) /\ Seconds(d) = Seconds(e)
  BY <1>3 DEF Hours, Minutes, Seconds
<1>. QED
  BY <1>2, <1>6, <1>7 DEF Fires

\* The answer of a split call: a fire of one of the legs, with none of either
\* leg nearer.
SplitFire(c, a) ==
    \E i \in Instants :
        /\ a = Fire(i)
        /\ Fires(LegRequest(c, "t1").expr, i) \/ Fires(LegRequest(c, "t2").expr, i)
        /\ IsAhead(LegRequest(c, "t1"), i)
        /\ WithinYears(LegRequest(c, "t1"), YearOf(i.day))
        /\ \A l \in {"t1", "t2"} : NoneNearer(LegRequest(c, l), i)

\* A leg's fire is such an answer when the other leg has nothing in scope.
LEMMA OneSide ==
    ASSUME NEW c \in Calls, FirstCandidate(LegRequest(c, "t1")).day \in Days,
           NEW l \in {"t1", "t2"}, NEW k \in {"t1", "t2"} \ {l},
           NEW a \in FireAnswers(LegRequest(c, l)), NoneInScope(LegRequest(c, k))
    PROVE  SplitFire(c, a)
<1>1. /\ LegRequest(c, "t1") \in Requests /\ LegRequest(c, "t2") \in Requests
      /\ SameStart(LegRequest(c, "t1"), LegRequest(c, "t2"))
  BY LegParts, LegsAgree DEF SearchRequests, Legs
<1>2. PICK i \in Instants :
         /\ a = Fire(i) /\ Fires(LegRequest(c, l).expr, i) /\ IsAhead(LegRequest(c, l), i)
         /\ WithinYears(LegRequest(c, l), YearOf(i.day)) /\ NoneNearer(LegRequest(c, l), i)
  BY FireAnswerParts
<1>3. /\ IsAhead(LegRequest(c, "t1"), i)
      /\ WithinYears(LegRequest(c, "t1"), YearOf(i.day))
      /\ WithinYears(LegRequest(c, k), YearOf(i.day))
      /\ FirstCandidate(LegRequest(c, k)).day \in Days
  BY <1>1, <1>2, SameStartMeans
<1>4. NoneNearer(LegRequest(c, k), i)
  BY <1>1, <1>3, ScopeCovers
<1>. QED
  BY <1>2, <1>3, <1>4 DEF SplitFire

\* Of two fires the nearer one is such an answer.
LEMMA BothSides ==
    ASSUME NEW c \in Calls,
           NEW a \in FireAnswers(LegRequest(c, "t1")), NEW b \in FireAnswers(LegRequest(c, "t2")),
           NEW x, x = IF \E i \in a.at, j \in b.at : Nearer(LegRequest(c, "t2"), i, j) THEN a ELSE b
    PROVE  SplitFire(c, x)
<1>1. /\ LegRequest(c, "t1") \in Requests /\ LegRequest(c, "t2") \in Requests
      /\ SameStart(LegRequest(c, "t1"), LegRequest(c, "t2"))
      /\ LegRequest(c, "t1").isPrev \in BOOLEAN
  BY LegParts, LegsAgree, RequestParts DEF SearchRequests, Legs
<1>2. PICK p, q : p = LegRequest(c, "t1") /\ q = LegRequest(c, "t2")
  OBVIOUS
<1>3. PICK i \in Instants :
         /\ a = Fire(i) /\ Fires(p.expr, i) /\ IsAhead(p, i)
         /\ WithinYears(p, YearOf(i.day)) /\ NoneNearer(p, i)
  BY <1>2, FireAnswerParts
<1>4. PICK j \in Instants :
         /\ b = Fire(j) /\ Fires(q.expr, j) /\ IsAhead(q, j)
         /\ WithinYears(q, YearOf(j.day)) /\ NoneNearer(q, j)
  BY <1>2, FireAnswerParts
<1>5. x = IF Nearer(q, i, j) THEN Fire(i) ELSE Fire(j)
  BY <1>2, <1>3, <1>4 DEF Fire
<1>6. /\ \A f : IsAhead(p, f) <=> IsAhead(q, f)
      /\ \A f, g : Nearer(p, f, g) <=> Nearer(q, f, g)
      /\ \A y : WithinYears(p, y) <=> WithinYears(q, y)
  BY <1>1, <1>2, SameStartMeans
<1>7. \A f, g, h \in Instants : ~ Nearer(p, f, g) /\ ~ Nearer(p, g, h) => ~ Nearer(p, f, h)
  <2>1. SUFFICES ASSUME NEW f \in Instants, NEW g \in Instants, NEW h \in Instants,
                        ~ Nearer(p, f, g), ~ Nearer(p, g, h)
                 PROVE  ~ Nearer(p, f, h)
    OBVIOUS
  <2>2. f \in Moments /\ g \in Moments /\ h \in Moments
    BY InstantIsMoment
  <2>3. PICK u \in Int, v \in Int, w \in Int : u = Stamp(f) /\ v = Stamp(g) /\ w = Stamp(h)
    BY <2>2, StampIsInt
  <2>4. CASE p.isPrev
    <3>1. ~ (v < u) /\ ~ (w < v)
      BY <2>1, <2>2, <2>3, <2>4, StampOrder DEF Nearer
    <3>2. ~ (w < u)
      BY <3>1
    <3>. QED
      BY <2>2, <2>3, <2>4, <3>2, StampOrder DEF Nearer
  <2>5. CASE ~p.isPrev
    <3>1. ~ (u < v) /\ ~ (v < w)
      BY <2>1, <2>2, <2>3, <2>5, StampOrder DEF Nearer
    <3>2. ~ (u < w)
      BY <3>1
    <3>. QED
      BY <2>2, <2>3, <2>5, <3>2, StampOrder DEF Nearer
  <2>. QED
    BY <1>1, <1>2, <2>4, <2>5
<1>8. ASSUME NEW f \in Instants, NEW g \in Instants, Nearer(p, f, g)
      PROVE  ~ Nearer(p, g, f)
  <2>1. f \in Moments /\ g \in Moments
    BY InstantIsMoment
  <2>2. PICK u \in Int, v \in Int : u = Stamp(f) /\ v = Stamp(g)
    BY <2>1, StampIsInt
  <2>. QED
    BY <1>1, <1>2, <1>8, <2>1, <2>2, StampOrder DEF Nearer
<1>9. CASE Nearer(q, i, j)
  <2>1. ~ Nearer(p, j, i)
    BY <1>6, <1>8, <1>9
  <2>2. NoneNearer(q, i)
    BY <1>1, <1>2, <1>4, <1>6, <1>7, <2>1, NoneNearerMeans
  <2>. QED
    BY <1>2, <1>3, <1>5, <1>9, <2>2 DEF SplitFire
<1>10. CASE ~ Nearer(q, i, j)
  <2>1. NoneNearer(p, j)
    BY <1>1, <1>2, <1>3, <1>6, <1>7, <1>10, NoneNearerMeans
  <2>. QED
    BY <1>2, <1>4, <1>5, <1>6, <1>10, <2>1 DEF SplitFire
<1>. QED
  BY <1>9, <1>10

\* Without W and weekday#n such an answer is the nearest fire of the union.
LEMMA SplitFireOfUnion ==
    ASSUME NEW c \in Calls, Splits(c), ~Carries(c), NEW a, SplitFire(c, a)
    PROVE  a \in FireAnswers(Promised(c))
<1>1. /\ LegRequest(c, "t1") \in Requests /\ LegRequest(c, "t2") \in Requests
      /\ Promised(c) \in Requests
      /\ SameStart(LegRequest(c, "t1"), Promised(c)) /\ SameStart(LegRequest(c, "t2"), Promised(c))
  BY LegParts DEF SearchRequests, Legs
<1>2. PICK i \in Instants :
        /\ a = Fire(i)
        /\ Fires(LegRequest(c, "t1").expr, i) \/ Fires(LegRequest(c, "t2").expr, i)
        /\ IsAhead(LegRequest(c, "t1"), i)
        /\ WithinYears(LegRequest(c, "t1"), YearOf(i.day))
        /\ NoneNearer(LegRequest(c, "t1"), i) /\ NoneNearer(LegRequest(c, "t2"), i)
  BY DEF SplitFire
<1>3. /\ Fires(Promised(c).expr, i) /\ IsAhead(Promised(c), i)
      /\ WithinYears(Promised(c), YearOf(i.day))
  BY <1>1, <1>2, SameStartMeans, UnionFires
<1>4. NoneNearer(Promised(c), i)
  BY <1>1, <1>2, SameStartMeans, UnionFires, NoneNearerMeans
<1>. QED
  BY <1>2, <1>3, <1>4 DEF FireAnswers, Fire

\* With them it is one of the carried answers, as both legs have a fire.
LEMMA SplitFireCarried ==
    ASSUME NEW c \in Calls,
           NEW a, a \in FireAnswers(LegRequest(c, "t1")) \cup FireAnswers(LegRequest(c, "t2")),
           SplitFire(c, a),
           ~NoneInScope(LegRequest(c, "t1")), ~NoneInScope(LegRequest(c, "t2"))
    PROVE  a \in CarriedAnswers(c)
<1>1. \A i \in a.at : NoneNearer(LegRequest(c, "t1"), i) /\ NoneNearer(LegRequest(c, "t2"), i)
  BY DEF SplitFire, Fire
<1>. QED
  BY <1>1 DEF CarriedAnswers

\* A request that has a fire answer has a fire in scope.
LEMMA FireInScope ==
    ASSUME NEW r \in Requests, NEW a \in FireAnswers(r)
    PROVE  ~NoneInScope(r)
  BY FireAnswerParts, NoneInScopeMeans

\* Two legs without a fire in scope leave the union none.
LEMMA NoneInUnion ==
    ASSUME NEW c \in Calls, Splits(c), ~Carries(c),
           NoneInScope(LegRequest(c, "t1")), NoneInScope(LegRequest(c, "t2"))
    PROVE  Error("bad_date") \in ErrorAnswers(Promised(c))
<1>1. /\ LegRequest(c, "t1") \in Requests /\ LegRequest(c, "t2") \in Requests
      /\ Promised(c) \in Requests
      /\ SameStart(LegRequest(c, "t1"), Promised(c)) /\ SameStart(LegRequest(c, "t2"), Promised(c))
  BY LegParts DEF SearchRequests, Legs
<1>2. NoneInScope(Promised(c))
  BY <1>1, SameStartMeans, UnionFires, NoneInScopeMeans
<1>. QED
  BY <1>2 DEF ErrorAnswers, Error, Errors

(***************************************************************************)
(* One search.                                                             *)
(***************************************************************************)

\* A search that is over has an answer to its request.
Answered ==
    outcome # "searching" =>
        /\ Reply \in Answers(req)
        /\ outcome = "found" => FirstCandidate(req).day \in Days

SearchOK == Inv /\ Beyond /\ Answered

\* The reply of a search tells its outcome.
LEMMA ReplyKinds ==
    ASSUME TypeOK
    PROVE  /\ outcome = "searching" => Reply = NoAnswer
           /\ outcome = "found" => Reply = Fire(cur) /\ Reply.kind = "fire"
           /\ outcome \in Errors => Reply = Error(outcome) /\ Reply.kind = outcome
           /\ Reply.kind = "fire" => outcome = "found"
           /\ outcome # "searching" => Reply # NoAnswer
<1>1. outcome \in {"searching", "found", "bad_date", "bad_type_range"}
  BY DEF TypeOK, Errors
<1>2. CASE outcome = "searching"
  <2>1. Reply = NoAnswer
    BY <1>2 DEF Reply
  <2>. QED
    BY <1>2, <2>1 DEF NoAnswer, Errors
<1>3. CASE outcome = "found"
  <2>1. Reply = Fire(cur)
    BY <1>3 DEF Reply
  <2>. QED
    BY <1>3, <2>1 DEF NoAnswer, Fire, Errors
<1>4. CASE outcome \in Errors
  <2>1. Reply = Error(outcome)
    BY <1>4 DEF Reply, Errors
  <2>. QED
    BY <1>4, <2>1 DEF NoAnswer, Error, Errors
<1>. QED
  BY <1>1, <1>2, <1>3, <1>4 DEF Errors

\* A search starts well.
LEMMA SearchInit == Init => SearchOK
<1>1. SUFFICES ASSUME Init PROVE SearchOK
  OBVIOUS
<1>2. Inv /\ Beyond
  BY <1>1, InitOK, BeyondInit DEF Inv
<1>3. Answered
  <2>1. Reply = NoAnswer \/ Reply \in Answers(req)
    BY <1>1, InitRefines DEF Promise!Init
  <2>2. outcome # "found"
    BY <1>1 DEF Init, StartOutcome
  <2>. QED
    BY <1>2, <2>1, <2>2, ReplyKinds DEF Answered, Inv
<1>. QED
  BY <1>2, <1>3 DEF SearchOK

\* And so does the search that follows another.
LEMMA SearchRestart == Init' => SearchOK'
  BY SearchInit, PTL

\* Its turns keep it so.
LEMMA SearchTurn ==
    ASSUME SearchOK, Next
    PROVE  SearchOK' /\ req' = req
<1>1. /\ Inv /\ Beyond /\ Searching /\ StepOK
      /\ req' = req /\ outcome = "searching"
  BY TurnKinds, TurnOK DEF SearchOK, Inv, Searching
<1>2. Inv' /\ Beyond'
  BY <1>1, BeyondStep DEF StepOK, Inv
<1>3. Answered'
  <2>1. CASE Promise!Reply
    <3>1. Reply' \in Answers(req')
      BY <1>1, <2>1 DEF Promise!Reply
    <3>2. FirstCandidate(req').day \in Days
      BY <1>1 DEF Beyond, Instants
    <3>. QED
      BY <3>1, <3>2 DEF Answered
  <2>2. CASE UNCHANGED Promise!vars
    <3>1. Reply' = Reply /\ Reply = NoAnswer
      BY <1>1, <2>2 DEF Promise!vars, Reply
    <3>2. CASE outcome' = "searching"
      BY <3>2 DEF Answered
    <3>3. CASE outcome' = "found"
      <4>1. Reply' = Fire(cur')
        BY <3>3 DEF Reply
      <4>. QED
        BY <3>1, <4>1 DEF Fire, NoAnswer
    <3>4. CASE outcome' \in Errors
      <4>1. Reply' = Error(outcome')
        BY <3>4 DEF Reply, Errors
      <4>. QED
        BY <3>1, <3>4, <4>1 DEF Error, NoAnswer, Errors
    <3>. QED
      BY <1>2, <3>2, <3>3, <3>4 DEF Inv, TypeOK
  <2>. QED
    BY <1>1, <2>1, <2>2, TurnRefines
<1>. QED
  BY <1>1, <1>2, <1>3 DEF SearchOK

(***************************************************************************)
(* The call.                                                               *)
(***************************************************************************)

\* A leg under way searches for the call it belongs to.
LegOK ==
    leg # "returned" =>
        /\ SearchOK
        /\ req = LegRequest(call, leg)
        /\ leg = "single" <=> ~Splits(call)
        /\ result = NoAnswer

\* The first leg's answer is kept for the second, and an error only of a
\* clean split.
FirstOK ==
    /\ leg \in {"single", "t1"} => first = NoAnswer
    /\ leg = "t2" =>
          /\ first \in Answers(LegRequest(call, "t1"))
          /\ first.kind = "fire" => FirstCandidate(LegRequest(call, "t1")).day \in Days
          /\ first.kind = "fire" \/ clean_split

CallInv ==
    /\ CallTypeOK
    /\ LegOK
    /\ FirstOK

\* The kinds of the answers there may be.
Kinds == {"none", "fire"} \cup Errors

\* calc_next starts with the invariant.
LEMMA CallInitOK ==
    ASSUME CallInit
    PROVE  CallInv
<1>1. /\ call \in Calls /\ leg \in {"single", "t1"} /\ leg \in Legs
      /\ leg = "single" <=> ~Splits(call)
      /\ req = LegRequest(call, leg) /\ first = NoAnswer /\ result = NoAnswer
  BY DEF CallInit, Legs
<1>2. Init
  BY <1>1, LegParts DEF CallInit, Init
<1>3. NoAnswer.kind = "none"
  BY DEF NoAnswer
<1>. QED
  BY <1>1, <1>2, <1>3, SearchInit DEF CallInv, CallTypeOK, LegOK, FirstOK

\* What is known of a leg whose search is over.
LEMMA LegOver ==
    ASSUME CallInv, leg \in Legs, SearchOver
    PROVE  /\ call \in Calls /\ req = LegRequest(call, leg) /\ req \in Requests
           /\ Reply \in Answers(req) /\ Reply # NoAnswer
           /\ Reply.kind \in {"fire"} \cup Errors
           /\ Failed <=> Reply.kind # "fire"
           /\ Failed => Reply \in ErrorAnswers(req)
           /\ ~Failed => Reply \in FireAnswers(req) /\ FirstCandidate(req).day \in Days
           /\ leg = "single" <=> ~Splits(call)
           /\ result = NoAnswer
<1>1. /\ call \in Calls /\ SearchOK /\ req = LegRequest(call, leg)
      /\ leg = "single" <=> ~Splits(call)
      /\ result = NoAnswer
  BY DEF CallInv, CallTypeOK, LegOK, Legs
<1>2. /\ TypeOK /\ Reply \in Answers(req)
      /\ outcome = "found" => FirstCandidate(req).day \in Days
  BY <1>1 DEF SearchOK, Inv, Answered, SearchOver
<1>3. req \in Requests
  BY <1>2 DEF TypeOK, SearchRequests
<1>4. outcome = "found" \/ outcome \in Errors
  BY <1>2 DEF TypeOK, SearchOver
<1>5. /\ Reply # NoAnswer
      /\ outcome = "found" => Reply.kind = "fire"
      /\ outcome \in Errors => Reply.kind = outcome
  BY <1>2, ReplyKinds DEF SearchOver
<1>6. Failed <=> Reply.kind # "fire"
  BY <1>4, <1>5 DEF Failed, Errors
<1>. QED
  BY <1>1, <1>2, <1>3, <1>4, <1>5, <1>6, AnswerKinds DEF Failed

\* A call that returns returns an answer.
LEMMA ReturnOK ==
    ASSUME CallInv, leg \in Legs, NEW a, a.kind \in {"fire"} \cup Errors, Return(a)
    PROVE  CallInv'
<1>1. /\ leg' = "returned" /\ result' = a /\ call' = call /\ first' = first
  BY DEF Return
<1>2. a # NoAnswer
  BY DEF NoAnswer, Errors
<1>3. CallTypeOK'
  BY <1>1, <1>2 DEF CallInv, CallTypeOK
<1>. QED
  BY <1>1, <1>3 DEF CallInv, LegOK, FirstOK

\* The answer of a search that is the whole call.
LEMMA SingleAnswers ==
    ASSUME CallInv, FinishSingle
    PROVE  Reply \in PromisedAnswers(call)
<1>1. leg \in Legs /\ leg = "single" /\ SearchOver
  BY DEF FinishSingle, Legs
<1>2. ~Splits(call) /\ Reply \in Answers(LegRequest(call, "single")) /\ call \in Calls
  BY <1>1, LegOver
<1>. QED
  BY <1>2, SinglePromise DEF PromisedAnswers

\* The error of a leg that carries W days or weekday#n pairs.
LEMMA LegErrorAnswers ==
    ASSUME CallInv, FailLeg
    PROVE  Reply \in PromisedAnswers(call)
<1>1. leg \in {"t1", "t2"} /\ leg \in Legs /\ Failed /\ SearchOver /\ Carries(call)
  BY DEF FailLeg, Legs, Failed, SearchOver, Errors, clean_split, Carries
<1>2. /\ call \in Calls /\ Splits(call) /\ req = LegRequest(call, leg) /\ req \in Requests
      /\ Reply \in ErrorAnswers(req)
  BY <1>1, LegOver
<1>3. NoneInScope(LegRequest(call, "t1")) \/ NoneInScope(LegRequest(call, "t2"))
  BY <1>1, <1>2, ErrorNone
<1>4. \E e \in Errors : Reply = Error(e)
  <2>1. PICK a : a = Reply
    OBVIOUS
  <2>2. a \in [kind : Errors, at : {{}}]
    BY <1>2, <2>1 DEF ErrorAnswers
  <2>3. a = Error(a.kind) /\ a.kind \in Errors
    BY <2>2 DEF Error
  <2>. QED
    BY <2>1, <2>3
<1>. QED
  BY <1>1, <1>2, <1>3, <1>4 DEF PromisedAnswers, CarriedAnswers

\* The answer made of both legs' answers.
LEMMA SplitAnswers ==
    ASSUME CallInv, FinishSecond
    PROVE  NearerAnswer(first, Reply) \in PromisedAnswers(call)
<1>1. leg \in Legs /\ leg = "t2" /\ SearchOver /\ (~Failed \/ clean_split)
  BY DEF FinishSecond, Legs
<1>2. PICK b : b = Reply
  OBVIOUS
<1>3. PICK p, q : p = LegRequest(call, "t1") /\ q = LegRequest(call, "t2")
  OBVIOUS
<1>4. /\ call \in Calls /\ Splits(call) /\ req = q /\ q \in Requests /\ p \in Requests
      /\ b.kind \in {"fire"} \cup Errors
      /\ b.kind = "fire" => b \in FireAnswers(q) /\ FirstCandidate(q).day \in Days
      /\ b.kind # "fire" => b \in ErrorAnswers(q) /\ clean_split
  <2>1. p \in Requests
    BY <1>1, <1>3, LegOver, LegParts DEF Legs, SearchRequests
  <2>. QED
    BY <1>1, <1>2, <1>3, <2>1, LegOver
<1>5. /\ first.kind \in {"fire"} \cup Errors
      /\ first.kind = "fire" => first \in FireAnswers(p) /\ FirstCandidate(p).day \in Days
      /\ first.kind # "fire" => first \in ErrorAnswers(p) /\ clean_split
  BY <1>1, <1>3, AnswerKinds DEF CallInv, FirstOK
<1>6. clean_split => ~Carries(call)
  BY DEF clean_split, Carries
<1>7. FirstCandidate(p) = FirstCandidate(q)
  BY <1>3, <1>4, LegsAgree, SameStartMeans
<1>8. NearerAnswer(first, b) =
         IF first.kind = "fire"
         THEN IF b.kind = "fire"
              THEN IF \E i \in first.at, j \in b.at : Nearer(q, i, j) THEN first ELSE b
              ELSE first
         ELSE IF b.kind = "fire" THEN b ELSE Error("bad_date")
  BY <1>4 DEF NearerAnswer
<1>9. PICK x : x = NearerAnswer(first, b)
  OBVIOUS
<1>10. CASE first.kind = "fire" /\ b.kind = "fire"
  <2>1. x = IF \E i \in first.at, j \in b.at : Nearer(q, i, j) THEN first ELSE b
    BY <1>8, <1>9, <1>10
  <2>2. SplitFire(call, x) /\ x \in FireAnswers(p) \cup FireAnswers(q)
    BY <1>3, <1>4, <1>5, <1>10, <2>1, BothSides
  <2>3. ~NoneInScope(p) /\ ~NoneInScope(q)
    BY <1>4, <1>5, <1>10, FireInScope
  <2>4. Carries(call) => x \in CarriedAnswers(call)
    BY <1>3, <1>4, <2>2, <2>3, SplitFireCarried
  <2>5. ~Carries(call) => x \in Answers(Promised(call))
    BY <1>4, <2>2, SplitFireOfUnion DEF Answers
  <2>. QED
    BY <1>2, <1>4, <1>9, <2>4, <2>5 DEF PromisedAnswers
<1>11. CASE first.kind = "fire" /\ b.kind # "fire"
  <2>1. x = first /\ ~Carries(call)
    BY <1>4, <1>6, <1>8, <1>9, <1>11
  <2>2. NoneInScope(q)
    BY <1>4, <1>11, ErrorNone
  <2>3. SplitFire(call, x)
    BY <1>3, <1>4, <1>5, <1>11, <2>1, <2>2, OneSide
  <2>4. x \in Answers(Promised(call))
    BY <1>4, <2>1, <2>3, SplitFireOfUnion DEF Answers
  <2>. QED
    BY <1>2, <1>9, <2>1, <2>4 DEF PromisedAnswers
<1>12. CASE first.kind # "fire" /\ b.kind = "fire"
  <2>1. x = b /\ ~Carries(call)
    BY <1>5, <1>6, <1>8, <1>9, <1>12
  <2>2. NoneInScope(p)
    BY <1>4, <1>5, <1>12, ErrorNone
  <2>3. SplitFire(call, x)
    BY <1>3, <1>4, <1>7, <1>12, <2>1, <2>2, OneSide
  <2>4. x \in Answers(Promised(call))
    BY <1>4, <2>1, <2>3, SplitFireOfUnion DEF Answers
  <2>. QED
    BY <1>2, <1>9, <2>1, <2>4 DEF PromisedAnswers
<1>13. CASE first.kind # "fire" /\ b.kind # "fire"
  <2>1. x = Error("bad_date") /\ ~Carries(call)
    BY <1>5, <1>6, <1>8, <1>9, <1>13
  <2>2. NoneInScope(p) /\ NoneInScope(q)
    BY <1>4, <1>5, <1>13, ErrorNone
  <2>3. x \in Answers(Promised(call))
    BY <1>3, <1>4, <2>1, <2>2, NoneInUnion DEF Answers
  <2>. QED
    BY <1>2, <1>9, <2>1, <2>3 DEF PromisedAnswers
<1>. QED
  BY <1>10, <1>11, <1>12, <1>13

\* What calc_next promises is an answer.
LEMMA PromisedKinds ==
    ASSUME NEW c, NEW a \in PromisedAnswers(c)
    PROVE  a.kind \in {"fire"} \cup Errors
<1>1. \A r : a \in Answers(r) => a.kind \in {"fire"} \cup Errors
  BY AnswerKinds
<1>2. a \in CarriedAnswers(c) => a.kind \in {"fire"} \cup Errors
  <2>1. \A r : a \in FireAnswers(r) => a \in Answers(r)
    BY DEF Answers
  <2>2. \A e \in Errors : Error(e).kind \in Errors
    BY DEF Error
  <2>. QED
    BY <1>1, <2>1, <2>2 DEF CarriedAnswers
<1>. QED
  BY <1>1, <1>2 DEF PromisedAnswers

\* A step returns what is promised, or leaves the call and its result alone;
\* either way the invariant stays.
LEMMA CallStep ==
    ASSUME CallInv, CallNext
    PROVE  /\ CallInv'
           /\ [Union!Reply]_(Union!vars)
<1>1. CASE Search
  <2>1. leg # "returned" /\ Next /\ UNCHANGED callVars
    BY <1>1 DEF Search
  <2>2. SearchOK' /\ req' = req
    BY <2>1, SearchTurn DEF CallInv, LegOK
  <2>3. CallInv'
    BY <2>1, <2>2 DEF CallInv, CallTypeOK, LegOK, FirstOK, clean_split, callVars
  <2>4. UNCHANGED Union!vars
    BY <2>1 DEF Union!vars, callVars
  <2>. QED
    BY <2>3, <2>4
<1>2. ASSUME NEW a \in PromisedAnswers(call), leg \in Legs, Return(a)
      PROVE  CallInv' /\ Union!Reply
  <2>1. CallInv'
    BY <1>2, PromisedKinds, ReturnOK
  <2>2. result = NoAnswer
    BY <1>2 DEF CallInv, LegOK, Legs
  <2>. QED
    BY <1>2, <2>1, <2>2 DEF Union!Reply, Return
<1>3. CASE FinishSingle
  BY <1>2, <1>3, SingleAnswers DEF FinishSingle, Legs
<1>4. CASE FailLeg
  BY <1>2, <1>4, LegErrorAnswers DEF FailLeg, Legs
<1>5. CASE FinishSecond
  BY <1>2, <1>5, SplitAnswers DEF FinishSecond, Legs
<1>6. CASE FinishFirst
  <2>1. /\ leg = "t1" /\ leg \in Legs /\ SearchOver /\ (~Failed \/ clean_split)
        /\ leg' = "t2" /\ first' = Reply /\ req' = LegRequest(call, "t2")
        /\ cur' = StartCursor(req') /\ outcome' = StartOutcome(req')
        /\ call' = call /\ result' = result
    BY <1>6 DEF FinishFirst, Legs
  <2>2. /\ call \in Calls /\ Splits(call) /\ result = NoAnswer
        /\ Reply \in Answers(LegRequest(call, "t1")) /\ Reply # NoAnswer
        /\ Reply.kind \in {"fire"} \cup Errors
        /\ Reply.kind = "fire" => FirstCandidate(LegRequest(call, "t1")).day \in Days
        /\ Reply.kind = "fire" \/ clean_split
    BY <2>1, LegOver
  <2>3. SearchOK'
    <3>1. req' \in SearchRequests
      BY <2>1, <2>2, LegParts DEF Legs
    <3>2. Init'
      BY <2>1, <3>1 DEF Init
    <3>. QED
      BY <3>2, SearchRestart
  <2>4. LegOK'
    BY <2>1, <2>2, <2>3 DEF LegOK
  <2>5. FirstOK'
    BY <2>1, <2>2 DEF FirstOK, clean_split
  <2>6. CallTypeOK'
    BY <2>1, <2>2 DEF CallInv, CallTypeOK
  <2>7. UNCHANGED Union!vars
    BY <2>1 DEF Union!vars
  <2>. QED
    BY <2>4, <2>5, <2>6, <2>7 DEF CallInv
<1>. QED
  BY <1>1, <1>3, <1>4, <1>5, <1>6 DEF CallNext

\* The invariant of a call.
LEMMA CallInvariance == CallSpec => []CallInv
<1>1. CallInit => CallInv
  BY CallInitOK
<1>2. CallInv /\ [CallNext]_allVars => CallInv'
  <2>1. ASSUME CallInv, UNCHANGED allVars PROVE CallInv'
    BY <2>1 DEF allVars, callVars, vars, CallInv, CallTypeOK, LegOK, FirstOK, SearchOK,
       Inv, TypeOK, NothingSkipped, Beyond, Answered, Reply, clean_split
  <2>. QED
    BY <2>1, CallStep
<1>. QED
  BY <1>1, <1>2, PTL DEF CallSpec

\* The stages of a call and its answers go together: a second leg always has
\* the first leg's answer, and a result is there exactly when it has returned.
THEOREM CallTypeCorrect == CallSpec => []CallTypeOK
<1>1. CallInv => CallTypeOK
  BY DEF CallInv
<1>. QED
  BY <1>1, CallInvariance, PTL

\* calc_next answers for the schedule it stands for.  Two searches that each
\* know one of the day fields find the nearest fire of their union, and fail
\* only when it has none in scope; with W or weekday#n, in force in both
\* searches, a side that never fires makes the call fail, and otherwise the
\* nearer side's fire is returned.
THEOREM ImplementsUnion == CallSpec => IsUnionFire
<1>1. CallInit => Union!Init
  BY DEF CallInit, Union!Init
<1>2. CallInv /\ [CallNext]_allVars => [Union!Reply]_(Union!vars)
  <2>1. ASSUME UNCHANGED allVars PROVE UNCHANGED Union!vars
    BY <2>1 DEF allVars, callVars, Union!vars
  <2>. QED
    BY <2>1, CallStep
<1>. QED
  BY <1>1, <1>2, CallInvariance, PTL DEF CallSpec, IsUnionFire, Union!Spec

=============================================================================
