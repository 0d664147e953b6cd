------------------------------ MODULE TzTailProofs ------------------------------
(***************************************************************************)
(* The time zone tail, for any zones, schedules, bounds and cursors: it    *)
(* answers with an instant ahead of its cursor, and where the schedule is  *)
(* regular, with the nearest one that fires.                               *)
(***************************************************************************)
EXTENDS TzTail, WellFoundedInduction, FiniteSetTheorems, TLAPS

(***************************************************************************)
(* Least and greatest numbers.                                             *)
(***************************************************************************)

\* A non-empty set of integers with a lower bound has a least element.
LEMMA LeastInt ==
    ASSUME NEW lo \in Int, NEW S \in SUBSET Int, S # {}, \A x \in S : lo <= x
    PROVE  \E x \in S : \A y \in S : x <= y
<1>1. PICK M : M = {x - lo : x \in S}
  OBVIOUS
<1>2. M \in SUBSET Nat /\ M # {}
  <2>1. ASSUME NEW z \in M PROVE z \in Nat
    <3>1. PICK x \in S : z = x - lo
      BY <1>1
    <3>2. x \in Int /\ lo <= x
      OBVIOUS
    <3>. QED
      BY <3>1, <3>2
  <2>. QED
    BY <1>1, <2>1
<1>3. PICK m \in M : \A z \in M : ~ (<<z, m>> \in OpToRel(<, Nat))
  BY <1>2, NatLessThanWellFounded, WFMin
<1>4. PICK x \in S : m = x - lo
  BY <1>1
<1>5. ASSUME NEW y \in S PROVE x <= y
  <2>1. y - lo \in M
    BY <1>1
  <2>2. ~ (y - lo < m)
    BY <1>2, <1>3, <2>1 DEF OpToRel
  <2>3. x \in Int /\ y \in Int
    OBVIOUS
  <2>. QED
    BY <1>4, <2>2, <2>3
<1>. QED
  BY <1>5

\* Min and Max of a non-empty set of integers between two bounds.
LEMMA MinMax ==
    ASSUME NEW lo \in Int, NEW hi \in Int, NEW S \in SUBSET (lo..hi), S # {}
    PROVE  /\ Min(S) \in S /\ \A y \in S : Min(S) <= y
           /\ Max(S) \in S /\ \A y \in S : y <= Max(S)
<1>1. S \in SUBSET Int /\ \A x \in S : lo <= x /\ x <= hi
  OBVIOUS
<1>2. Min(S) \in S /\ \A y \in S : Min(S) <= y
  <2>1. \E x \in S : \A y \in S : x <= y
    BY <1>1, LeastInt
  <2>. QED
    BY <2>1 DEF Min
<1>3. Max(S) \in S /\ \A y \in S : Max(S) >= y
  <2>1. PICK N : N = {-x : x \in S}
    OBVIOUS
  <2>2. N \in SUBSET Int /\ N # {} /\ \A z \in N : -hi <= z
    <3>1. ASSUME NEW z \in N PROVE z \in Int /\ -hi <= z
      <4>1. PICK x \in S : z = -x
        BY <2>1
      <4>2. x \in Int /\ x <= hi
        BY <1>1
      <4>. QED
        BY <4>1, <4>2
    <3>. QED
      BY <2>1, <3>1
  <2>3. PICK z \in N : \A w \in N : z <= w
    <3>1. -hi \in Int
      OBVIOUS
    <3>. QED
      BY <2>2, <3>1, LeastInt
  <2>4. PICK x \in S : z = -x
    BY <2>1
  <2>5. ASSUME NEW y \in S PROVE x >= y
    <3>1. -y \in N
      BY <2>1
    <3>2. z <= -y
      BY <2>3, <3>1
    <3>3. x \in Int /\ y \in Int
      BY <1>1
    <3>. QED
      BY <2>4, <3>2, <3>3
  <2>6. \E u \in S : \A y \in S : u >= y
    BY <2>5
  <2>. QED
    BY <2>6 DEF Max
<1>4. \A y \in S : Max(S) >= y => y <= Max(S)
  BY <1>1, <1>3
<1>. QED
  BY <1>2, <1>3, <1>4

(***************************************************************************)
(* Zones.                                                                  *)
(***************************************************************************)

\* What ZoneAssumption says of one zone.
SaneZone(z) ==
    /\ z.first \in Int /\ z.changes \subseteq Int \X Int
    /\ \A c, d \in z.changes :
          /\ c[1] = d[1] => c = d
          /\ c[1] < d[1] => \A o, p \in Offsets(z) : o - p < d[1] - c[1]

\* No zone is a zone without changes.
LEMMA ZonesAreSane == \A z \in Zones \cup {NoTz} : SaneZone(z)
  BY ZoneAssumption DEF SaneZone, NoTz

\* The offset in force is that of the latest change so far.
LEMMA OffsetInForce ==
    ASSUME NEW z, SaneZone(z), NEW u \in Int
    PROVE  \/ (\A c \in z.changes : ~ (c[1] <= u)) /\ OffsetAt(z, u) = z.first
           \/ \E c \in z.changes :
                 /\ c[1] <= u /\ OffsetAt(z, u) = c[2]
                 /\ \A d \in z.changes : d[1] <= u => d[1] <= c[1]
<1>. DEFINE past == {c \in z.changes : c[1] <= u}
<1>1. CASE past = {}
  BY <1>1 DEF OffsetAt
<1>2. CASE past # {}
  <2>1. \A c \in past : c[1] \in Int /\ c[1] <= u
    BY DEF SaneZone
  <2>2. PICK S : S = {u - c[1] : c \in past}
    OBVIOUS
  <2>3. S \in SUBSET Int /\ S # {} /\ \A x \in S : 0 <= x
    <3>1. ASSUME NEW x \in S PROVE x \in Int /\ 0 <= x
      <4>1. PICK c \in past : x = u - c[1]
        BY <2>2
      <4>. QED
        BY <2>1, <4>1
    <3> HIDE DEF past
    <3>. QED
      BY <1>2, <2>2, <3>1
  <2>4. PICK x \in S : \A y \in S : x <= y
    BY <2>3, LeastInt
  <2>5. PICK c \in past : x = u - c[1]
    BY <2>2
  <2>6. ASSUME NEW d \in past PROVE d[1] <= c[1]
    <3>1. x <= u - d[1]
      BY <2>2, <2>4
    <3>. QED
      BY <2>1, <2>5, <3>1
  <2>7. PICK e : e = CHOOSE b \in past : \A d \in past : d[1] <= b[1]
    OBVIOUS
  <2>8. e \in past /\ \A d \in past : d[1] <= e[1]
    BY <2>6, <2>7
  <2>9. OffsetAt(z, u) = e[2]
    BY <1>2, <2>7 DEF OffsetAt
  <2>. QED
    BY <2>8, <2>9
<1>. QED
  BY <1>1, <1>2

\* Offsets and local times are numbers.
LEMMA LocalIsInt ==
    ASSUME NEW z, SaneZone(z), NEW u \in Int
    PROVE  OffsetAt(z, u) \in Int /\ OffsetAt(z, u) \in Offsets(z) /\ LocalAt(z, u) \in Int
<1>1. OffsetAt(z, u) \in Int /\ OffsetAt(z, u) \in Offsets(z)
  BY OffsetInForce DEF SaneZone, Offsets
<1>. QED
  BY <1>1 DEF LocalAt

\* The offsets of a zone are bounded: changes are farther apart than they.
LEMMA OffsetsBounded ==
    ASSUME NEW z, SaneZone(z)
    PROVE  \E b \in Nat : \A o \in Offsets(z) : o \in Int /\ -b <= o /\ o <= b
<1>1. \A o \in Offsets(z) : o \in Int
  BY DEF Offsets, SaneZone
<1>2. z.first \in Offsets(z)
  BY DEF Offsets
<1>3. ASSUME NEW n \in Nat, \A o \in Offsets(z) : o - z.first <= n /\ z.first - o <= n
      PROVE  \E b \in Nat : \A o \in Offsets(z) : o \in Int /\ -b <= o /\ o <= b
  <2>1. PICK p \in Int : p = z.first
    BY DEF SaneZone
  <2>2. PICK b \in Nat : b = n + (IF p < 0 THEN -p ELSE p)
    <3>1. n + (IF p < 0 THEN -p ELSE p) \in Nat
      OBVIOUS
    <3>. QED
      BY <3>1
  <2>3. ASSUME NEW o \in Offsets(z) PROVE -b <= o /\ o <= b
    <3>1. o \in Int /\ o - p <= n /\ p - o <= n
      BY <1>1, <1>3, <2>1
    <3>. QED
      BY <2>2, <3>1
  <2>. QED
    BY <1>1, <2>3
<1>4. CASE \E c, d \in z.changes : c[1] < d[1]
  <2>1. PICK c \in z.changes, d \in z.changes : c[1] < d[1]
    BY <1>4
  <2>2. c[1] \in Int /\ d[1] \in Int
    BY DEF SaneZone
  <2>3. PICK n \in Nat : n = d[1] - c[1]
    BY <2>1, <2>2
  <2>4. \A o \in Offsets(z) : o - z.first < n /\ z.first - o < n
    BY <1>2, <2>1, <2>3 DEF SaneZone
  <2>5. \A o \in Offsets(z) : o - z.first <= n /\ z.first - o <= n
    BY <1>1, <1>2, <2>4
  <2>. QED
    BY <1>3, <2>5
<1>5. CASE ~ \E c, d \in z.changes : c[1] < d[1]
  <2>1. \A c, d \in z.changes : c = d
    <3>1. ASSUME NEW c \in z.changes, NEW d \in z.changes PROVE c = d
      <4>1. c[1] \in Int /\ d[1] \in Int /\ ~ (c[1] < d[1]) /\ ~ (d[1] < c[1])
        BY <1>5 DEF SaneZone
      <4>2. c[1] = d[1]
        BY <4>1
      <4>. QED
        BY <4>2 DEF SaneZone
    <3>. QED
      BY <3>1
  <2>2. PICK p \in Int : p = z.first
    BY DEF SaneZone
  <2>3. PICK q \in Int : \A o \in Offsets(z) : o = p \/ o = q
    <3>1. CASE z.changes = {}
      BY <2>2, <3>1 DEF Offsets
    <3>2. CASE z.changes # {}
      <4>1. PICK c \in z.changes : TRUE
        BY <3>2
      <4>2. c[2] \in Int
        BY DEF SaneZone
      <4>3. \A o \in Offsets(z) : o = p \/ o = c[2]
        BY <2>1, <2>2, <4>1 DEF Offsets
      <4>. QED
        BY <4>2, <4>3
    <3>. QED
      BY <3>1, <3>2
  <2>4. PICK n \in Nat : n = IF p < q THEN q - p ELSE p - q
    <3>1. (IF p < q THEN q - p ELSE p - q) \in Nat
      OBVIOUS
    <3>. QED
      BY <3>1
  <2>5. \A o \in Offsets(z) : o - p <= n /\ p - o <= n
    <3>1. p - p <= n /\ q - p <= n /\ p - q <= n
      BY <2>4
    <3>. QED
      BY <2>3, <3>1
  <2>. QED
    BY <1>3, <2>2, <2>5
<1>. QED
  BY <1>4, <1>5

\* A local time that is passed back over at a change comes again, later and
\* earlier: the next change is too far away to hide it.
LEMMA ComesAgain ==
    ASSUME NEW z, SaneZone(z), NEW u \in Int, NEW v \in Int, u < v,
           LocalAt(z, v) < LocalAt(z, u)
    PROVE  /\ \E w \in Int : v < w /\ LocalAt(z, w) = LocalAt(z, u)
           /\ \E w \in Int : w < u /\ LocalAt(z, w) = LocalAt(z, v)
<1>1. PICK o \in Int, p \in Int : o = OffsetAt(z, u) /\ p = OffsetAt(z, v)
  BY LocalIsInt
<1>2. v + p < u + o
  BY <1>1 DEF LocalAt
<1>3. o \in Offsets(z) /\ p \in Offsets(z)
  BY <1>1, LocalIsInt
<1>4. \A c \in z.changes : c[1] \in Int /\ c[2] \in Int
  BY DEF SaneZone
<1>5. PICK c \in z.changes :
              /\ c[1] <= v /\ p = c[2]
              /\ \A d \in z.changes : d[1] <= v => d[1] <= c[1]
  <2>1. CASE \A c \in z.changes : ~ (c[1] <= v)
    <3>1. \A c \in z.changes : ~ (c[1] <= u)
      BY <1>4, <2>1
    <3>2. o = z.first /\ p = z.first
      BY <1>1, <2>1, <3>1, OffsetInForce
    <3>. QED
      BY <1>2, <3>2
  <2>. QED
    BY <1>1, <2>1, OffsetInForce
<1>6. PICK k \in Int : k = c[1]
  BY <1>4
<1>7. u < k
  <2>1. SUFFICES ASSUME k <= u PROVE FALSE
    BY <1>6
  <2>2. PICK e \in z.changes :
              /\ e[1] <= u /\ o = e[2]
              /\ \A d \in z.changes : d[1] <= u => d[1] <= e[1]
    BY <1>1, <1>6, <2>1, OffsetInForce
  <2>3. e[1] = k
    <3>1. k <= e[1] /\ e[1] <= k
      <4>1. e[1] <= v
        BY <1>4, <2>2
      <4>. QED
        BY <1>5, <1>6, <2>1, <2>2, <4>1
    <3>. QED
      BY <1>4, <3>1
  <2>4. e = c
    BY <1>6, <2>3 DEF SaneZone
  <2>. QED
    BY <1>2, <1>5, <2>2, <2>4
<1>8. PICK w \in Int : w = u + o - p
  OBVIOUS
<1>9. v < w /\ k <= w
  BY <1>2, <1>5, <1>6, <1>8
<1>10. OffsetAt(z, w) = p
  <2>1. PICK e \in z.changes :
              /\ e[1] <= w /\ OffsetAt(z, w) = e[2]
              /\ \A d \in z.changes : d[1] <= w => d[1] <= e[1]
    BY <1>6, <1>9, OffsetInForce
  <2>2. k <= e[1]
    BY <1>6, <1>9, <2>1
  <2>3. ~ (k < e[1])
    <3>1. ASSUME k < e[1] PROVE o - p < e[1] - k
      BY <1>3, <1>6, <3>1 DEF SaneZone
    <3>2. ASSUME o - p < e[1] - k PROVE FALSE
      BY <1>4, <1>7, <1>8, <2>1, <3>2
    <3>. QED
      BY <3>1, <3>2
  <2>4. e[1] = k
    BY <1>4, <2>2, <2>3
  <2>5. e = c
    BY <1>6, <2>4 DEF SaneZone
  <2>. QED
    BY <1>5, <2>1, <2>5
<1>11. PICK x \in Int : x = v + p - o
  OBVIOUS
<1>12. x < u
  BY <1>2, <1>11
<1>13. OffsetAt(z, x) = o
  <2>1. \A d \in z.changes : d[1] <= u => d[1] <= x
    <3>1. ASSUME NEW d \in z.changes, d[1] <= u
          PROVE  d[1] <= x
      <4>1. d[1] < k /\ d[1] \in Int
        BY <1>4, <1>7, <3>1
      <4>2. o - p < k - d[1]
        BY <1>3, <1>6, <4>1 DEF SaneZone
      <4>. QED
        BY <1>5, <1>6, <1>11, <4>1, <4>2
    <3>. QED
      BY <3>1
  <2>2. \A d \in z.changes : d[1] <= x => d[1] <= u
    BY <1>4, <1>12
  <2>3. CASE \A d \in z.changes : ~ (d[1] <= u)
    <3>1. \A d \in z.changes : ~ (d[1] <= x)
      BY <2>2, <2>3
    <3>. QED
      BY <1>1, <2>3, <3>1, OffsetInForce
  <2>4. CASE \E d \in z.changes : d[1] <= u
    <3>1. PICK e \in z.changes :
              /\ e[1] <= u /\ o = e[2]
              /\ \A d \in z.changes : d[1] <= u => d[1] <= e[1]
      BY <1>1, <2>4, OffsetInForce
    <3>2. PICK g \in z.changes :
              /\ g[1] <= x /\ OffsetAt(z, x) = g[2]
              /\ \A d \in z.changes : d[1] <= x => d[1] <= g[1]
      BY <2>1, <2>4, OffsetInForce
    <3>3. e[1] <= g[1] /\ g[1] <= e[1]
      BY <2>1, <2>2, <3>1, <3>2
    <3>4. e[1] = g[1]
      BY <1>4, <3>3
    <3>5. e = g
      BY <3>4 DEF SaneZone
    <3>. QED
      BY <3>1, <3>2, <3>5
  <2>. QED
    BY <2>3, <2>4
<1>. QED
  BY <1>1, <1>8, <1>9, <1>10, <1>11, <1>12, <1>13 DEF LocalAt

\* The instants of a local time, few and close to it.
LEMMA InstantsOf ==
    ASSUME NEW z, SaneZone(z), NEW t \in Int
    PROVE  /\ \A u \in InstantsAt(z, t) : u \in Int /\ LocalAt(z, u) = t
           /\ \A u \in Int : LocalAt(z, u) = t => u \in InstantsAt(z, t)
           /\ InstantsAt(z, t) # {} =>
                 /\ Min(InstantsAt(z, t)) \in InstantsAt(z, t)
                 /\ Max(InstantsAt(z, t)) \in InstantsAt(z, t)
                 /\ \A u \in InstantsAt(z, t) :
                       Min(InstantsAt(z, t)) <= u /\ u <= Max(InstantsAt(z, t))
<1>1. PICK b \in Nat : \A o \in Offsets(z) : o \in Int /\ -b <= o /\ o <= b
  BY OffsetsBounded
<1>2. PICK S : S = InstantsAt(z, t)
  OBVIOUS
<1>3. \A u \in S : u \in Int /\ LocalAt(z, u) = t /\ t - b <= u /\ u <= t + b
  <2>1. ASSUME NEW u \in S
        PROVE  u \in Int /\ LocalAt(z, u) = t /\ t - b <= u /\ u <= t + b
    <3>1. PICK o \in Offsets(z) : u = t - o /\ LocalAt(z, u) = t
      BY <1>2 DEF InstantsAt
    <3>. QED
      BY <1>1, <3>1
  <2>. QED
    BY <2>1
<1>4. ASSUME NEW u \in Int, LocalAt(z, u) = t
      PROVE  u \in S
  <2>1. PICK o \in Int : o = OffsetAt(z, u) /\ o \in Offsets(z)
    BY LocalIsInt
  <2>2. u = t - o
    BY <1>4, <2>1 DEF LocalAt
  <2>. QED
    BY <1>2, <1>4, <2>1, <2>2 DEF InstantsAt
<1>5. S \in SUBSET ((t - b) .. (t + b)) /\ t - b \in Int /\ t + b \in Int
  BY <1>3
<1>6. S # {} =>
         /\ Min(S) \in S /\ \A y \in S : Min(S) <= y
         /\ Max(S) \in S /\ \A y \in S : y <= Max(S)
  BY <1>5, MinMax
<1>. QED
  BY <1>2, <1>3, <1>4, <1>6

(***************************************************************************)
(* add_tzinfo.                                                             *)
(***************************************************************************)

\* A local time moved past a gap, or not, is still a number.
LEMMA NudgedIsInt ==
    ASSUME NEW z, SaneZone(z), NEW t \in Int
    PROVE  Nudged(z, t) \in Int
<1>1. CASE Probed(z, t) = {}
  BY <1>1 DEF Nudged
<1>2. CASE Probed(z, t) # {}
  <2>1. PICK P : P = Probed(z, t)
    OBVIOUS
  <2>2. P \in SUBSET (1..ProbeLimit) /\ P # {} /\ 1 \in Int /\ ProbeLimit \in Int
    BY <1>2, <2>1, TimeZoneAssumption DEF Probed
  <2>3. Min(P) \in P
    BY <2>2, MinMax
  <2>4. PICK k \in Int : k = Min(P) /\ ~Skipped(z, t + k * Minute)
    <3>1. PICK k : k = Min(P)
      OBVIOUS
    <3>2. k \in Probed(z, t) /\ k \in Int
      BY <2>1, <2>2, <2>3, <3>1, TimeZoneAssumption
    <3>3. ~Skipped(z, t + k * Minute)
      BY <3>2 DEF Probed
    <3>. QED
      BY <3>1, <3>2, <3>3
  <2>5. PICK m \in Int : m = t + k * Minute
    BY TimeZoneAssumption
  <2>6. Min(InstantsAt(z, m)) \in Int
    BY <2>4, <2>5, InstantsOf DEF Skipped
  <2>. QED
    BY <1>2, <2>1, <2>4, <2>5, <2>6 DEF Nudged
<1>. QED
  BY <1>1, <1>2

LEMMA AddTzType ==
    ASSUME NEW z, SaneZone(z), NEW t \in Int, NEW now \in Int, NEW isPrev \in BOOLEAN
    PROVE  add_tzinfo(z, t, now, isPrev) \in [aware : Int, exists : BOOLEAN]
<1>1. CASE InstantsAt(z, t) = {}
  BY <1>1, NudgedIsInt DEF add_tzinfo
<1>2. CASE InstantsAt(z, t) # {}
  <2>1. Min(InstantsAt(z, t)) \in Int /\ Max(InstantsAt(z, t)) \in Int
    BY <1>2, InstantsOf
  <2>2. Closer(InstantsAt(z, t), isPrev) \in Int /\ Farther(InstantsAt(z, t), isPrev) \in Int
    BY <2>1 DEF Closer, Farther
  <2>. QED
    BY <1>2, <2>2 DEF add_tzinfo
<1>. QED
  BY <1>1, <1>2

\* A local time beyond the cursor's that exists is given an instant beyond the
\* cursor, also where the clock was put back in between.
LEMMA AddTzAhead ==
    ASSUME NEW z, SaneZone(z), NEW t \in Int, NEW now \in Int, NEW isPrev \in BOOLEAN,
           is_successor(t, LocalAt(z, now), isPrev),
           add_tzinfo(z, t, now, isPrev).exists
    PROVE  is_successor(add_tzinfo(z, t, now, isPrev).aware, now, isPrev)
<1>1. PICK S : S = InstantsAt(z, t)
  OBVIOUS
<1>2. S # {}
  BY <1>1 DEF add_tzinfo
<1>3. /\ \A u \in S : u \in Int /\ LocalAt(z, u) = t
      /\ \A u \in Int : LocalAt(z, u) = t => u \in S
      /\ Min(S) \in S /\ Max(S) \in S
      /\ \A u \in S : Min(S) <= u /\ u <= Max(S)
  BY <1>1, <1>2, InstantsOf
<1>4. PICK a \in Int, b \in Int : a = Min(S) /\ b = Max(S)
  BY <1>3
<1>5. PICK l \in Int : l = LocalAt(z, now)
  BY LocalIsInt
<1>6. add_tzinfo(z, t, now, isPrev).aware =
         IF is_successor(Closer(S, isPrev), now, isPrev) THEN Closer(S, isPrev) ELSE Farther(S, isPrev)
  BY <1>1, <1>2 DEF add_tzinfo
<1>7. CASE ~isPrev
  <2>1. l < t
    BY <1>5, <1>7 DEF is_successor
  <2>2. now < b
    <3>1. SUFFICES ASSUME b <= now PROVE FALSE
      BY <1>4
    <3>2. b # now
      BY <1>3, <1>4, <1>5, <2>1
    <3>3. b < now
      BY <3>1, <3>2
    <3>4. LocalAt(z, b) = t
      BY <1>3, <1>4
    <3>5. PICK w \in Int : now < w /\ LocalAt(z, w) = t
      BY <1>5, <2>1, <3>3, <3>4, ComesAgain
    <3>6. w <= b
      BY <1>3, <1>4, <3>5
    <3>. QED
      BY <3>1, <3>5, <3>6
  <2>. QED
    BY <1>4, <1>6, <1>7, <2>2 DEF Farther, is_successor
<1>8. CASE isPrev
  <2>1. t < l
    BY <1>5, <1>8 DEF is_successor
  <2>2. a < now
    <3>1. SUFFICES ASSUME now <= a PROVE FALSE
      BY <1>4
    <3>2. a # now
      BY <1>3, <1>4, <1>5, <2>1
    <3>3. now < a
      BY <3>1, <3>2
    <3>4. LocalAt(z, a) = t
      BY <1>3, <1>4
    <3>5. PICK w \in Int : w < now /\ LocalAt(z, w) = t
      BY <1>5, <2>1, <3>3, <3>4, ComesAgain
    <3>6. a <= w
      BY <1>3, <1>4, <3>5
    <3>. QED
      BY <3>1, <3>5, <3>6
  <2>. QED
    BY <1>4, <1>6, <1>8, <2>2 DEF Farther, is_successor
<1>. QED
  BY <1>7, <1>8

(***************************************************************************)
(* The tail.                                                               *)
(***************************************************************************)

SaneAsk(a) ==
    /\ SaneZone(a.zone) /\ a.sched \in Schedules /\ a.now \in Int /\ a.isPrev \in BOOLEAN

Replies == {NoReply} \cup {Instant(u) : u \in Int} \cup {Failure(e) : e \in CalcErrors}

\* A search is always ahead of its cursor: the candidate it goes on from in
\* local time, the candidate it has located as an instant, and its reply.
TailInv ==
    /\ SaneAsk(ask)
    /\ pc \in {"first", "retry", "shift", "done"}
    /\ unaware \in Int
    /\ localized \in [aware : Int, exists : BOOLEAN]
    /\ guard \in 0..GuardLimit
    /\ reply \in Replies
    /\ pc # "done" => reply = NoReply
    /\ pc = "retry" => is_successor(unaware, now_naive, ask.isPrev)
    /\ pc = "shift" => is_successor(localized.aware, ask.now, ask.isPrev)
    /\ \A u \in reply.at : is_successor(u, ask.now, ask.isPrev)

\* A fire is ahead of where the search for it started.
LEMMA FoundAhead ==
    ASSUME NEW a, SaneAsk(a), NEW t, NEW f \in calc_next(a, t)
    PROVE  f \in Int /\ is_successor(f, t, a.isPrev)
  BY TailAssumption DEF calc_next, SaneAsk

\* A search that returns.
LEMMA TailReturn ==
    ASSUME TailInv, NEW r \in Replies, r # NoReply, Return(r),
           \A u \in r.at : is_successor(u, ask.now, ask.isPrev)
    PROVE  TailInv' /\ reply' # NoReply
  BY DEF TailInv, Return

\* What is located in one step of the search.
LEMMA LocateAhead ==
    ASSUME TailInv, NEW f \in Int, is_successor(f, now_naive, ask.isPrev), Locate(f)
    PROVE  /\ unaware' = f /\ localized' \in [aware : Int, exists : BOOLEAN]
           /\ localized'.exists => is_successor(localized'.aware, ask.now, ask.isPrev)
<1>1. SaneZone(ask.zone) /\ ask.now \in Int /\ ask.isPrev \in BOOLEAN
  BY DEF TailInv, SaneAsk
<1>2. unaware' = f /\ localized' = add_tzinfo(ask.zone, f, ask.now, ask.isPrev)
  BY DEF Locate
<1>3. is_successor(f, LocalAt(ask.zone, ask.now), ask.isPrev)
  BY DEF now_naive
<1>. QED
  BY <1>1, <1>2, <1>3, AddTzType, AddTzAhead

\* A fire and an error are replies.
LEMMA RepliesAre ==
    /\ \A u \in Int : Instant(u) \in Replies /\ Instant(u) # NoReply /\ Instant(u).at = {u}
    /\ \A e \in CalcErrors : Failure(e) \in Replies /\ Failure(e) # NoReply /\ Failure(e).at = {}
  BY DEF Replies, Instant, Failure, NoReply, CalcErrors

\* Every step of the tail keeps the search ahead.
LEMMA TailStep ==
    ASSUME TailInv, TailNext
    PROVE  /\ TailInv' /\ ask' = ask
           /\ pc' = "done" => reply' # NoReply
<1>1. /\ SaneAsk(ask) /\ SaneZone(ask.zone) /\ ask.now \in Int /\ ask.isPrev \in BOOLEAN
      /\ unaware \in Int /\ localized.aware \in Int
  BY DEF TailInv, SaneAsk
<1>2. PICK l \in Int : l = now_naive
  BY <1>1, LocalIsInt DEF now_naive
<1>3. CASE SearchFails
  <2>1. PICK e \in CalcErrors : Return(Failure(e))
    BY <1>3 DEF SearchFails
  <2>2. TailInv' /\ reply' # NoReply
    BY <2>1, RepliesAre, TailReturn
  <2>. QED
    BY <2>1, <2>2 DEF Return
<1>4. CASE FirstNaive
  <2>1. PICK f \in calc_next(ask, SearchFrom) : Return(Instant(f))
    BY <1>4 DEF FirstNaive
  <2>2. f \in Int /\ is_successor(f, SearchFrom, ask.isPrev)
    BY <1>1, FoundAhead
  <2>3. SearchFrom = ask.now
    <3>1. OffsetAt(NoTz, ask.now) = 0
      BY DEF OffsetAt, NoTz
    <3>. QED
      BY <1>1, <1>4, <3>1 DEF FirstNaive, SearchFrom, now_naive, LocalAt
  <2>4. TailInv' /\ reply' # NoReply
    BY <2>1, <2>2, <2>3, RepliesAre, TailReturn
  <2>. QED
    BY <2>1, <2>4 DEF Return
<1>5. CASE First
  <2>1. PICK f \in calc_next(ask, SearchFrom) : Locate(f)
    BY <1>5 DEF First
  <2>2. f \in Int /\ is_successor(f, now_naive, ask.isPrev)
    <3>1. SearchFrom = now_naive
      BY <1>5 DEF First, SearchFrom
    <3>. QED
      BY <1>1, <2>1, <3>1, FoundAhead
  <2>3. /\ unaware' = f /\ localized' \in [aware : Int, exists : BOOLEAN]
        /\ localized'.exists => is_successor(localized'.aware, ask.now, ask.isPrev)
    BY <2>1, <2>2, LocateAhead
  <2>4. /\ ask' = ask /\ guard' = guard /\ reply' = reply /\ pc' \in {"retry", "shift"}
        /\ pc' = "shift" => ~Unusable(localized') /\ reply = NoReply
        /\ reply = NoReply
    BY <1>5 DEF First, TailInv
  <2>5. pc' = "shift" => is_successor(localized'.aware, ask.now, ask.isPrev)
    BY <2>3, <2>4 DEF Unusable
  <2>6. now_naive' = now_naive
    BY <2>4 DEF now_naive
  <2>. QED
    BY <2>2, <2>3, <2>4, <2>5, <2>6 DEF TailInv
<1>6. CASE Retry
  <2>1. PICK f \in calc_next(ask, SearchFrom) : Locate(f)
    BY <1>6 DEF Retry
  <2>2. f \in Int /\ is_successor(f, now_naive, ask.isPrev)
    <3>1. SearchFrom = unaware /\ is_successor(unaware, now_naive, ask.isPrev)
      BY <1>6 DEF Retry, SearchFrom, TailInv
    <3>2. f \in Int /\ is_successor(f, unaware, ask.isPrev)
      BY <1>1, <2>1, <3>1, FoundAhead
    <3>. QED
      BY <1>1, <1>2, <3>1, <3>2 DEF is_successor
  <2>3. /\ unaware' = f /\ localized' \in [aware : Int, exists : BOOLEAN]
        /\ localized'.exists => is_successor(localized'.aware, ask.now, ask.isPrev)
    BY <2>1, <2>2, LocateAhead
  <2>4. /\ ask' = ask /\ reply' = reply /\ pc' \in {"retry", "shift"} /\ reply = NoReply
        /\ pc' = "shift" => localized'.exists
    BY <1>6 DEF Retry, TailInv
  <2>5. guard' \in 0..GuardLimit
    <3>1. GuardLimit \in Nat /\ guard \in 0..GuardLimit /\ guard < GuardLimit /\ guard' = guard + 1
      BY <1>6, TailAssumption DEF Retry, TailInv
    <3>. QED
      BY <3>1
  <2>6. now_naive' = now_naive
    BY <2>4 DEF now_naive
  <2>. QED
    BY <2>2, <2>3, <2>4, <2>5, <2>6 DEF TailInv
<1>7. CASE GuardStops
  <2>1. Return(Failure("bad_date")) /\ "bad_date" \in CalcErrors
    BY <1>7 DEF GuardStops, CalcErrors
  <2>2. TailInv' /\ reply' # NoReply
    BY <2>1, RepliesAre, TailReturn
  <2>. QED
    BY <2>1, <2>2 DEF Return
<1>8. CASE ShiftNone
  <2>1. Return(Instant(localized.aware)) /\ is_successor(localized.aware, ask.now, ask.isPrev)
    BY <1>8 DEF ShiftNone, TailInv
  <2>2. TailInv' /\ reply' # NoReply
    BY <1>1, <2>1, RepliesAre, TailReturn
  <2>. QED
    BY <2>1, <2>2 DEF Return
<1>9. CASE Shift
  <2>1. PICK f \in calc_next(ask, SearchFrom) :
           Return(Instant(NearerOf(localized.aware,
                                   add_tzinfo(ask.zone, f, ask.now, ask.isPrev).aware)))
    BY <1>9 DEF Shift
  <2>2. f \in Int
    BY <1>1, FoundAhead
  <2>3. PICK u \in Int : u = add_tzinfo(ask.zone, f, ask.now, ask.isPrev).aware
    BY <1>1, <2>2, AddTzType
  <2>4. is_successor(localized.aware, ask.now, ask.isPrev)
    BY <1>9 DEF Shift, TailInv
  <2>5. PICK n \in Int : n = NearerOf(localized.aware, u) /\ is_successor(n, ask.now, ask.isPrev)
    BY <1>1, <2>4 DEF NearerOf
  <2>6. Return(Instant(n))
    BY <2>1, <2>3, <2>5
  <2>7. TailInv' /\ reply' # NoReply
    BY <2>5, <2>6, RepliesAre, TailReturn
  <2>. QED
    BY <2>6, <2>7 DEF Return
<1>. QED
  BY <1>3, <1>4, <1>5, <1>6, <1>7, <1>8, <1>9 DEF TailNext

\* The invariant of a search on its own.
TailTyped ==
    /\ TailInv
    /\ ask \in Asks
    /\ pc = "done" => reply # NoReply

LEMMA TailInvariance == TailSpec => []TailTyped
<1>1. ASSUME TailInit PROVE TailTyped
  <2>1. /\ ask \in Asks /\ pc = "first" /\ unaware = now_naive /\ guard = 0 /\ reply = NoReply
        /\ localized = [aware |-> ask.now, exists |-> TRUE]
    BY <1>1 DEF TailInit
  <2>2. SaneAsk(ask)
    BY <2>1, ZonesAreSane, TailAssumption DEF Asks, SaneAsk
  <2>3. now_naive \in Int /\ ask.now \in Int
    BY <2>2, LocalIsInt DEF SaneAsk, now_naive
  <2>4. NoReply \in Replies /\ NoReply.at = {} /\ 0 \in 0..GuardLimit
    BY TailAssumption DEF Replies, NoReply
  <2>. QED
    BY <2>1, <2>2, <2>3, <2>4 DEF TailTyped, TailInv
<1>2. TailTyped /\ [TailNext]_tailVars => TailTyped'
  <2>1. ASSUME TailTyped, TailNext PROVE TailTyped'
    BY <2>1, TailStep DEF TailTyped
  <2>2. ASSUME TailTyped, UNCHANGED tailVars PROVE TailTyped'
    BY <2>2 DEF TailTyped, TailInv, tailVars, now_naive
  <2>. QED
    BY <2>1, <2>2
<1>. QED
  BY <1>1, <1>2, PTL DEF TailSpec

\* Instants, local times, retries and replies are what they should be, and a
\* search has a reply exactly when it is done.
THEOREM TailTypeCorrect == TailSpec => []TailTypeOK
<1>1. TailTyped => TailTypeOK
  <2>1. SUFFICES ASSUME TailTyped PROVE TailTypeOK
    OBVIOUS
  <2>2. reply.kind \in {"none", "fire"} \cup CalcErrors
    BY <2>1 DEF TailTyped, TailInv, Replies, NoReply, Instant, Failure
  <2>. QED
    BY <2>1, <2>2 DEF TailTyped, TailInv, TailTypeOK
<1>. QED
  BY <1>1, TailInvariance, PTL

\* calc_with_tz answers with an instant strictly ahead of its cursor, in any
\* zone with changes far enough apart, for any schedule: also where a local
\* time is skipped or repeated, and where the offset changes on the way.
THEOREM AlwaysAhead == TailSpec => []Progresses
<1>1. TailTyped => Progresses
  BY DEF TailTyped, TailInv, Progresses, is_successor
<1>. QED
  BY <1>1, TailInvariance, PTL


\* Between changes the offset stays.
LEMMA OffsetStays ==
    ASSUME NEW z, SaneZone(z), NEW u \in Int, NEW v \in Int, u <= v,
           \A d \in Moments(z) : ~ (u < d /\ d <= v)
    PROVE  OffsetAt(z, u) = OffsetAt(z, v)
<1>1. \A c \in z.changes : c[1] \in Int /\ (c[1] <= u <=> c[1] <= v)
  <2>1. ASSUME NEW c \in z.changes PROVE c[1] \in Int /\ (c[1] <= u <=> c[1] <= v)
    <3>1. c[1] \in Moments(z)
      BY DEF Moments
    <3>2. c[1] \in Int
      BY DEF SaneZone
    <3>. QED
      BY <3>1, <3>2
  <2>. QED
    BY <2>1
<1>2. CASE \A c \in z.changes : ~ (c[1] <= u)
  <2>1. \A c \in z.changes : ~ (c[1] <= v)
    BY <1>1, <1>2
  <2>2. OffsetAt(z, u) = z.first
    BY <1>2, OffsetInForce
  <2>3. OffsetAt(z, v) = z.first
    BY <2>1, OffsetInForce
  <2>. QED
    BY <2>2, <2>3
<1>3. CASE \E c \in z.changes : c[1] <= u
  <2>1. PICK c \in z.changes :
           /\ c[1] <= u /\ OffsetAt(z, u) = c[2]
           /\ \A d \in z.changes : d[1] <= u => d[1] <= c[1]
    BY <1>3, OffsetInForce
  <2>2. \E d \in z.changes : d[1] <= v
    BY <1>1, <2>1
  <2>3. PICK d \in z.changes :
           /\ d[1] <= v /\ OffsetAt(z, v) = d[2]
           /\ \A b \in z.changes : b[1] <= v => b[1] <= d[1]
    BY <2>2, OffsetInForce
  <2>4. d[1] <= c[1] /\ c[1] <= d[1] /\ c[1] \in Int /\ d[1] \in Int
    BY <1>1, <2>1, <2>3
  <2>5. c[1] = d[1]
    BY <2>4
  <2>6. c = d
    BY <2>5 DEF SaneZone
  <2>. QED
    BY <2>1, <2>3, <2>6
<1>. QED
  BY <1>2, <1>3

LEMMA MomentsAre ==
    ASSUME NEW z, SaneZone(z)
    PROVE  /\ Moments(z) \in SUBSET Int
           /\ \A d, e \in Moments(z) : d < e => \A o, p \in Offsets(z) : o - p < e - d
<1>1. ASSUME NEW d \in Moments(z), NEW e \in Moments(z)
      PROVE  d \in Int /\ (d < e => \A o, p \in Offsets(z) : o - p < e - d)
  <2>1. PICK b \in z.changes, c \in z.changes : d = b[1] /\ e = c[1]
    BY DEF Moments
  <2>. QED
    BY <2>1 DEF SaneZone
<1>. QED
  BY <1>1

\* Past a change local times are past it, and before it they are before it: the
\* next change is too far away.
LEMMA LocalOnward ==
    ASSUME NEW z, SaneZone(z), NEW e \in Moments(z), NEW u \in Int
    PROVE  /\ e \in Int
           /\ e <= u => LocalAt(z, e) <= LocalAt(z, u)
           /\ e < u => LocalAt(z, e) < LocalAt(z, u)
           /\ u <= e - 1 => LocalAt(z, u) <= LocalAt(z, e - 1)
           /\ u < e - 1 => LocalAt(z, u) < LocalAt(z, e - 1)
<1>1. e \in Int
  BY MomentsAre
<1>2. PICK o \in Int, p \in Int, q \in Int :
         /\ o = OffsetAt(z, u) /\ p = OffsetAt(z, e) /\ q = OffsetAt(z, e - 1)
         /\ o \in Offsets(z) /\ p \in Offsets(z) /\ q \in Offsets(z)
  <2>1. e - 1 \in Int
    BY <1>1
  <2>. QED
    BY <1>1, <2>1, LocalIsInt
<1>3. LocalAt(z, u) = u + o /\ LocalAt(z, e) = e + p /\ LocalAt(z, e - 1) = e - 1 + q
  BY <1>2 DEF LocalAt
<1>4. ASSUME e < u PROVE e + p < u + o
  <2>1. CASE \E d \in Moments(z) : e < d /\ d <= u
    <3>1. PICK d \in Moments(z) : e < d /\ d <= u
      BY <2>1
    <3>2. d \in Int /\ p - o < d - e
      BY <1>2, <3>1, MomentsAre
    <3>. QED
      BY <1>1, <3>1, <3>2
  <2>2. CASE \A d \in Moments(z) : ~ (e < d /\ d <= u)
    <3>1. p = o
      BY <1>1, <1>2, <1>4, <2>2, OffsetStays
    <3>. QED
      BY <1>1, <1>4, <3>1
  <2>. QED
    BY <2>1, <2>2
<1>5. ASSUME u < e - 1 PROVE u + o < e - 1 + q
  <2>1. CASE \E d \in Moments(z) : u < d /\ d <= e - 1
    <3>1. PICK d \in Moments(z) : u < d /\ d <= e - 1
      BY <2>1
    <3>2. d \in Int /\ d < e
      BY <1>1, <3>1, MomentsAre
    <3>3. o - q < e - d
      BY <1>2, <3>2, MomentsAre
    <3>. QED
      BY <1>1, <3>1, <3>2, <3>3
  <2>2. CASE \A d \in Moments(z) : ~ (u < d /\ d <= e - 1)
    <3>1. o = q
      <4>1. e - 1 \in Int /\ u <= e - 1
        BY <1>1, <1>5
      <4>. QED
        BY <1>2, <2>2, <4>1, OffsetStays
    <3>. QED
      BY <1>1, <1>5, <3>1
  <2>. QED
    BY <2>1, <2>2
<1>6. u = e => LocalAt(z, u) = LocalAt(z, e)
  OBVIOUS
<1>7. u = e - 1 => LocalAt(z, u) = LocalAt(z, e - 1)
  OBVIOUS
<1>8. LocalAt(z, u) \in Int /\ LocalAt(z, e) \in Int /\ LocalAt(z, e - 1) \in Int
  BY <1>1, <1>3
<1>9. e <= u => LocalAt(z, e) <= LocalAt(z, u)
  BY <1>1, <1>3, <1>4, <1>6, <1>8
<1>10. u <= e - 1 => LocalAt(z, u) <= LocalAt(z, e - 1)
  BY <1>1, <1>3, <1>5, <1>7, <1>8
<1>. QED
  BY <1>1, <1>3, <1>4, <1>5, <1>9, <1>10

\* As far from a change as offsets differ, its offsets are in force.
LEMMA NearChange ==
    ASSUME NEW z, SaneZone(z), NEW e \in Moments(z), NEW o \in Offsets(z), NEW p \in Offsets(z),
           NEW x \in Int
    PROVE  /\ e <= x /\ x <= e + (o - p) => OffsetAt(z, x) = OffsetAt(z, e)
           /\ e - 1 - (o - p) <= x /\ x <= e - 1 => OffsetAt(z, x) = OffsetAt(z, e - 1)
<1>1. e \in Int /\ o \in Int /\ p \in Int
  BY MomentsAre, OffsetsBounded
<1>2. ASSUME e <= x, x <= e + (o - p) PROVE OffsetAt(z, x) = OffsetAt(z, e)
  <2>1. ASSUME NEW d \in Moments(z), e < d, d <= x PROVE FALSE
    <3>1. d \in Int /\ o - p < d - e
      BY <2>1, MomentsAre
    <3>. QED
      BY <1>1, <1>2, <2>1, <3>1
  <2>. QED
    BY <1>1, <1>2, <2>1, OffsetStays
<1>3. ASSUME e - 1 - (o - p) <= x, x <= e - 1 PROVE OffsetAt(z, x) = OffsetAt(z, e - 1)
  <2>1. ASSUME NEW d \in Moments(z), x < d, d <= e - 1 PROVE FALSE
    <3>1. d \in Int /\ d < e
      BY <1>1, <2>1, MomentsAre
    <3>2. o - p < e - d
      BY <3>1, MomentsAre
    <3>. QED
      BY <1>1, <1>3, <2>1, <3>1, <3>2
  <2>2. e - 1 \in Int
    BY <1>1
  <2>. QED
    BY <1>3, <2>1, <2>2, OffsetStays
<1>. QED
  BY <1>2, <1>3

\* Where local time does not go on, the clock was put back once in between.
LEMMA PutBack ==
    ASSUME NEW z, SaneZone(z), NEW u \in Int, NEW v \in Int, u < v,
           LocalAt(z, v) <= LocalAt(z, u)
    PROVE  \E e \in Moments(z) :
              /\ u < e /\ e <= v
              /\ \A x \in Int : u <= x /\ x <= e - 1 => OffsetAt(z, x) = OffsetAt(z, u)
              /\ \A x \in Int : e <= x /\ x <= v => OffsetAt(z, x) = OffsetAt(z, v)
              /\ OffsetAt(z, v) < OffsetAt(z, u)
<1>1. PICK o \in Int, p \in Int :
         /\ o = OffsetAt(z, u) /\ p = OffsetAt(z, v) /\ o \in Offsets(z) /\ p \in Offsets(z)
  BY LocalIsInt
<1>2. v + p <= u + o
  BY <1>1 DEF LocalAt
<1>3. PICK e \in Moments(z) : u < e /\ e <= v
  <2>1. ASSUME \A d \in Moments(z) : ~ (u < d /\ d <= v) PROVE FALSE
    <3>1. o = p
      BY <1>1, <2>1, OffsetStays
    <3>. QED
      BY <1>1, <1>2, <3>1
  <2>. QED
    BY <2>1
<1>4. ASSUME NEW d \in Moments(z), u < d, d <= v PROVE d = e
  <2>1. d \in Int /\ e \in Int
    BY MomentsAre
  <2>2. ~ (d < e)
    <3>1. d < e => o - p < e - d
      BY <1>1, MomentsAre
    <3>. QED
      BY <1>1, <1>2, <1>3, <1>4, <2>1, <3>1
  <2>3. ~ (e < d)
    <3>1. e < d => o - p < d - e
      BY <1>1, MomentsAre
    <3>. QED
      BY <1>1, <1>2, <1>3, <1>4, <2>1, <3>1
  <2>. QED
    BY <2>1, <2>2, <2>3
<1>5. e \in Int
  BY MomentsAre
<1>6. ASSUME NEW x \in Int, u <= x, x <= e - 1 PROVE OffsetAt(z, x) = OffsetAt(z, u)
  <2>1. \A d \in Moments(z) : ~ (u < d /\ d <= x)
    <3>1. ASSUME NEW d \in Moments(z), u < d, d <= x PROVE FALSE
      <4>1. d \in Int
        BY MomentsAre
      <4>2. d <= v
        BY <1>3, <1>5, <1>6, <3>1, <4>1
      <4>3. d = e
        BY <1>4, <3>1, <4>2
      <4>. QED
        BY <1>5, <1>6, <3>1, <4>3
    <3>. QED
      BY <3>1
  <2>. QED
    BY <1>6, <2>1, OffsetStays
<1>7. ASSUME NEW x \in Int, e <= x, x <= v PROVE OffsetAt(z, x) = OffsetAt(z, v)
  <2>1. \A d \in Moments(z) : ~ (x < d /\ d <= v)
    <3>1. ASSUME NEW d \in Moments(z), x < d, d <= v PROVE FALSE
      <4>1. d \in Int
        BY MomentsAre
      <4>2. u < d
        BY <1>3, <1>5, <1>7, <3>1, <4>1
      <4>3. d = e
        BY <1>4, <3>1, <4>2
      <4>. QED
        BY <1>5, <1>7, <3>1, <4>3
    <3>. QED
      BY <3>1
  <2>. QED
    BY <1>7, <2>1, OffsetStays
<1>8. p < o
  BY <1>1, <1>2
<1>. QED
  BY <1>1, <1>3, <1>6, <1>7, <1>8

\* No local time comes three times.
LEMMA AtMostTwice ==
    ASSUME NEW z, SaneZone(z), NEW u \in Int, NEW v \in Int, NEW w \in Int, u < v, v < w,
           LocalAt(z, u) = LocalAt(z, v), LocalAt(z, v) = LocalAt(z, w)
    PROVE  FALSE
<1>1. u < w /\ LocalAt(z, u) \in Int /\ LocalAt(z, w) = LocalAt(z, u)
  BY LocalIsInt
<1>2. LocalAt(z, w) <= LocalAt(z, u)
  BY <1>1
<1>3. PICK e \in Moments(z) :
         /\ \A x \in Int : u <= x /\ x <= e - 1 => OffsetAt(z, x) = OffsetAt(z, u)
         /\ \A x \in Int : e <= x /\ x <= w => OffsetAt(z, x) = OffsetAt(z, w)
  <2>1. \E e \in Moments(z) :
              /\ u < e /\ e <= w
              /\ \A x \in Int : u <= x /\ x <= e - 1 => OffsetAt(z, x) = OffsetAt(z, u)
              /\ \A x \in Int : e <= x /\ x <= w => OffsetAt(z, x) = OffsetAt(z, w)
              /\ OffsetAt(z, w) < OffsetAt(z, u)
    BY <1>1, <1>2, PutBack
  <2>. QED
    BY <2>1
<1>4. e \in Int
  BY MomentsAre
<1>5. OffsetAt(z, v) = OffsetAt(z, u) \/ OffsetAt(z, v) = OffsetAt(z, w)
  BY <1>3, <1>4
<1>6. OffsetAt(z, v) \in Int
  BY LocalIsInt
<1>. QED
  BY <1>5, <1>6 DEF LocalAt

\* What no instant has as its local time lies in one gap, and what lies in a gap
\* no instant has.
LEMMA SkippedInGap ==
    ASSUME NEW z, SaneZone(z), NEW f \in Int
    PROVE  Skipped(z, f) <=> \E e \in Moments(z) : InGap(z, e, f)
<1>1. ASSUME NEW e \in Moments(z), InGap(z, e, f) PROVE Skipped(z, f)
  <2>1. SUFFICES ASSUME NEW u \in InstantsAt(z, f) PROVE FALSE
    BY DEF Skipped
  <2>2. u \in Int /\ LocalAt(z, u) = f
    BY InstantsOf
  <2>3. e \in Int /\ (e <= u => LocalAt(z, e) <= f) /\ (u <= e - 1 => f <= LocalAt(z, e - 1))
    BY <2>2, LocalOnward
  <2>4. LocalAt(z, e) \in Int /\ LocalAt(z, e - 1) \in Int
    BY <2>3, LocalIsInt
  <2>. QED
    BY <1>1, <2>2, <2>3, <2>4 DEF InGap
<1>2. ASSUME Skipped(z, f) PROVE \E e \in Moments(z) : InGap(z, e, f)
  <2>1. PICK b \in Nat : \A o \in Offsets(z) : o \in Int /\ -b <= o /\ o <= b
    BY OffsetsBounded
  <2>2. PICK S : S = {u \in Int : f < LocalAt(z, u)}
    OBVIOUS
  <2>3. \A u \in Int : /\ OffsetAt(z, u) \in Int /\ -b <= OffsetAt(z, u) /\ OffsetAt(z, u) <= b
                       /\ LocalAt(z, u) = u + OffsetAt(z, u)
    BY <2>1, LocalIsInt DEF LocalAt
  <2>4. f + b + 1 \in S
    <3>1. PICK u \in Int : u = f + b + 1
      OBVIOUS
    <3>2. PICK o \in Int : o = OffsetAt(z, u) /\ -b <= o
      BY <2>3
    <3>3. f < u + o
      BY <3>1, <3>2
    <3>4. f < LocalAt(z, u)
      BY <2>3, <3>2, <3>3
    <3>. QED
      BY <2>2, <3>1, <3>4
  <2>5. \A u \in S : f - b <= u
    <3>1. ASSUME NEW u \in S PROVE f - b <= u
      <4>1. u \in Int /\ f < LocalAt(z, u)
        BY <2>2
      <4>2. PICK o \in Int : o = OffsetAt(z, u) /\ o <= b /\ LocalAt(z, u) = u + o
        BY <2>3, <4>1
      <4>. QED
        BY <4>1, <4>2
    <3>. QED
      BY <3>1
  <2>6. PICK e \in S : \A u \in S : e <= u
    <3>1. S \in SUBSET Int /\ S # {} /\ f - b \in Int
      BY <2>2, <2>4
    <3>. QED
      BY <2>5, <3>1, LeastInt
  <2>7. e \in Int /\ f < LocalAt(z, e) /\ e - 1 \in Int
    BY <2>2
  <2>8. PICK l \in Int : l = LocalAt(z, e - 1)
    BY <2>7, LocalIsInt
  <2>9. ~ (f < l)
    <3>1. ASSUME f < l PROVE FALSE
      <4>1. e - 1 \in S
        BY <2>2, <2>7, <2>8, <3>1
      <4>2. e <= e - 1
        BY <2>6, <4>1
      <4>. QED
        BY <2>7, <4>2
    <3>. QED
      BY <3>1
  <2>10. l # f
    BY <1>2, <2>7, <2>8, InstantsOf DEF Skipped
  <2>11. InGap(z, e, f)
    BY <2>7, <2>8, <2>9, <2>10 DEF InGap
  <2>12. e \in Moments(z)
    <3>1. SUFFICES ASSUME e \notin Moments(z) PROVE FALSE
      OBVIOUS
    <3>2. \A d \in Moments(z) : ~ (e - 1 < d /\ d <= e)
      BY <2>7, <3>1, MomentsAre
    <3>3. e - 1 <= e
      BY <2>7
    <3>4. OffsetAt(z, e - 1) = OffsetAt(z, e)
      BY <2>7, <3>2, <3>3, OffsetStays
    <3>5. PICK o \in Int : o = OffsetAt(z, e)
      BY <2>7, LocalIsInt
    <3>6. f < e + o /\ l = e - 1 + o
      BY <2>7, <2>8, <3>4, <3>5 DEF LocalAt
    <3>. QED
      BY <2>7, <2>9, <2>10, <3>6
  <2>. QED
    BY <2>11, <2>12
<1>. QED
  BY <1>1, <1>2

\* A repeated local time is given the instant nearest to the cursor ahead of it.
LEMMA NearestInstant ==
    ASSUME NEW z, SaneZone(z), NEW f \in Int, NEW n \in Int, NEW P \in BOOLEAN, ~Skipped(z, f),
           NEW u, u = add_tzinfo(z, f, n, P).aware
    PROVE  /\ u \in Int /\ LocalAt(z, u) = f
           /\ \A x \in Int : LocalAt(z, x) = f /\ is_successor(x, n, P) =>
                 is_successor(u, n, P) /\ ~is_successor(u, x, P)
<1>1. PICK S : S = InstantsAt(z, f)
  OBVIOUS
<1>2. S # {}
  BY <1>1 DEF Skipped
<1>3. /\ \A x \in S : x \in Int /\ LocalAt(z, x) = f
      /\ \A x \in Int : LocalAt(z, x) = f => x \in S
      /\ Min(S) \in S /\ Max(S) \in S
      /\ \A x \in S : Min(S) <= x /\ x <= Max(S)
  BY <1>1, <1>2, InstantsOf
<1>4. PICK b \in Int, c \in Int : b = Min(S) /\ c = Max(S)
  BY <1>3
<1>5. ASSUME NEW x \in Int, LocalAt(z, x) = f PROVE x = b \/ x = c
  <2>1. b <= x /\ x <= c /\ LocalAt(z, b) = f /\ LocalAt(z, c) = f
    BY <1>3, <1>4, <1>5
  <2>2. ~ (b < x /\ x < c)
    BY <1>4, <1>5, <2>1, AtMostTwice
  <2>. QED
    BY <1>4, <2>1, <2>2
<1>6. u = IF is_successor(Closer(S, P), n, P) THEN Closer(S, P) ELSE Farther(S, P)
  BY <1>1, <1>2 DEF add_tzinfo
<1>7. CASE P
  <2>1. u = IF c < n THEN c ELSE b
    BY <1>4, <1>6, <1>7 DEF Closer, Farther, is_successor
  <2>2. b <= c /\ LocalAt(z, b) = f /\ LocalAt(z, c) = f
    BY <1>3, <1>4
  <2>3. \A x, y \in Int : is_successor(x, y, P) <=> x < y
    BY <1>7 DEF is_successor
  <2>4. u \in Int
    BY <1>4, <2>1
  <2>. QED
    BY <1>4, <1>5, <2>1, <2>2, <2>3, <2>4
<1>8. CASE ~P
  <2>1. u = IF n < b THEN b ELSE c
    BY <1>4, <1>6, <1>8 DEF Closer, Farther, is_successor
  <2>2. b <= c /\ LocalAt(z, b) = f /\ LocalAt(z, c) = f
    BY <1>3, <1>4
  <2>3. \A x, y \in Int : is_successor(x, y, P) <=> y < x
    BY <1>8 DEF is_successor
  <2>4. u \in Int
    BY <1>4, <2>1
  <2>. QED
    BY <1>4, <1>5, <2>1, <2>2, <2>3, <2>4
<1>. QED
  BY <1>7, <1>8

(***************************************************************************)
(* Searches.                                                               *)
(***************************************************************************)

\* A request a search can be sure of.
RegularAsk(a) ==
    /\ SaneAsk(a) /\ a.horizon \in Nat /\ Regular(a.zone, a.sched)

LEMMA RegularAskHas ==
    ASSUME NEW a, RegularAsk(a)
    PROVE  /\ SaneZone(a.zone) /\ a.now \in Int /\ a.isPrev \in BOOLEAN /\ a.horizon \in Nat
           /\ a.sched.fires \subseteq Int /\ a.sched.hour_star \in BOOLEAN
           /\ MovesToTheEnd(a.zone, a.sched) /\ SameMinutes(a.zone, a.sched)
           /\ KeepsUp(a.zone, a.sched)
           /\ LocalAt(a.zone, a.now) \in Int
<1>1. SaneZone(a.zone) /\ a.now \in Int
  BY DEF RegularAsk, SaneAsk
<1>. QED
  BY <1>1, TailAssumption, LocalIsInt DEF RegularAsk, SaneAsk, Regular

\* The fire a search finds is the first one ahead.
LEMMA NextIsFirst ==
    ASSUME NEW a, a.sched.fires \subseteq Int, a.isPrev \in BOOLEAN, a.horizon \in Nat,
           NEW t \in Int, NEW f \in calc_next(a, t)
    PROVE  /\ f \in a.sched.fires /\ f \in Int /\ is_successor(f, t, a.isPrev)
           /\ \A g \in a.sched.fires : ~ (is_successor(g, t, a.isPrev) /\ is_successor(f, g, a.isPrev))
<1>1. /\ f \in a.sched.fires /\ f \in Int /\ is_successor(f, t, a.isPrev) /\ Gap(f, t) <= a.horizon
      /\ \A g \in a.sched.fires :
            is_successor(g, t, a.isPrev) /\ Gap(g, t) <= a.horizon => Gap(f, t) <= Gap(g, t)
  BY DEF calc_next
<1>2. ASSUME NEW g \in a.sched.fires, is_successor(g, t, a.isPrev), is_successor(f, g, a.isPrev)
      PROVE  FALSE
  <2>1. g \in Int
    OBVIOUS
  <2>2. Gap(g, t) <= a.horizon /\ ~ (Gap(f, t) <= Gap(g, t))
    BY <1>1, <1>2, <2>1 DEF Gap, is_successor
  <2>. QED
    BY <1>1, <1>2, <2>2
<1>. QED
  BY <1>1, <1>2

\* A search finds a fire if there is one within its horizon.
LEMMA NextExists ==
    ASSUME NEW a, a.sched.fires \subseteq Int, a.isPrev \in BOOLEAN, a.horizon \in Nat,
           NEW t \in Int, NEW h \in a.sched.fires, is_successor(h, t, a.isPrev), Gap(h, t) <= a.horizon
    PROVE  calc_next(a, t) # {}
<1>1. PICK A : A = {f \in a.sched.fires : is_successor(f, t, a.isPrev) /\ Gap(f, t) <= a.horizon}
  OBVIOUS
<1>2. PICK S : S = {Gap(f, t) : f \in A}
  OBVIOUS
<1>3. S \in SUBSET Int /\ S # {} /\ \A x \in S : 0 <= x
  <2>1. ASSUME NEW x \in S PROVE x \in Int /\ 0 <= x
    <3>1. PICK f \in A : x = Gap(f, t)
      BY <1>2
    <3>2. f \in Int
      BY <1>1
    <3>. QED
      BY <3>1, <3>2 DEF Gap
  <2>2. h \in A
    BY <1>1
  <2>. QED
    BY <1>2, <2>1, <2>2
<1>4. PICK x \in S : \A y \in S : x <= y
  <2>1. 0 \in Int
    OBVIOUS
  <2>. QED
    BY <1>3, <2>1, LeastInt
<1>5. PICK f \in A : x = Gap(f, t)
  BY <1>2
<1>6. \A g \in A : Gap(f, t) <= Gap(g, t)
  BY <1>2, <1>4, <1>5
<1>7. f \in calc_next(a, t)
  BY <1>1, <1>5, <1>6 DEF calc_next
<1>. QED
  BY <1>7

\* The firing instants: what has a fire as its local time, and the ends of gaps
\* with a fire in them.
FiresAt(z, s, w) ==
    \/ LocalAt(z, w) \in s.fires
    \/ ~s.hour_star /\ w \in Moments(z) /\ \E f \in s.fires : InGap(z, w, f)

LEMMA FiringIs ==
    ASSUME NEW a, RegularAsk(a), NEW w
    PROVE  w \in FiringAt(a) <=> w \in Int /\ FiresAt(a.zone, a.sched, w)
<1>. DEFINE z == a.zone  F == a.sched.fires
<1>1. SaneZone(z) /\ F \subseteq Int /\ a.sched.hour_star \in BOOLEAN /\ MovesToTheEnd(z, a.sched)
  BY RegularAskHas
<1>. HIDE DEF z, F
<1>2. ASSUME NEW f \in F, w \in InstantsAt(z, f) PROVE w \in Int /\ LocalAt(z, w) \in F
  BY <1>1, <1>2, InstantsOf
<1>3. ASSUME w \in Int, LocalAt(z, w) \in F PROVE \E f \in F : w \in InstantsAt(z, f)
  <2>1. LocalAt(z, w) \in Int
    BY <1>1, <1>3
  <2>. QED
    BY <1>1, <1>3, <2>1, InstantsOf
<1>4. ASSUME NEW f \in F, Skipped(z, f), ~a.sched.hour_star
      PROVE  Nudged(z, f) \in Moments(z) /\ InGap(z, Nudged(z, f), f)
  <2>1. f \in Int
    BY <1>1
  <2>2. PICK e \in Moments(z) : InGap(z, e, f)
    BY <1>1, <1>4, <2>1, SkippedInGap
  <2>3. Nudged(z, f) = e
    BY <1>1, <1>4, <2>2 DEF MovesToTheEnd, F
  <2>. QED
    BY <2>2, <2>3
<1>5. ASSUME ~a.sched.hour_star, w \in Moments(z), NEW f \in F, InGap(z, w, f)
      PROVE  w \in Int /\ Skipped(z, f) /\ w = Nudged(z, f)
  <2>1. f \in Int /\ w \in Int
    BY <1>1, <1>5, MomentsAre
  <2>2. Skipped(z, f)
    BY <1>1, <1>5, <2>1, SkippedInGap
  <2>3. Nudged(z, f) = w
    BY <1>1, <1>5 DEF MovesToTheEnd, F
  <2>. QED
    BY <2>1, <2>2, <2>3
<1>6. w \in FiringAt(a) <=>
         \/ \E f \in F : w \in InstantsAt(z, f)
         \/ ~a.sched.hour_star /\ \E f \in F : Skipped(z, f) /\ w = Nudged(z, f)
  BY DEF FiringAt, z, F
<1>7. FiresAt(z, a.sched, w) <=>
         \/ LocalAt(z, w) \in F
         \/ ~a.sched.hour_star /\ w \in Moments(z) /\ \E f \in F : InGap(z, w, f)
  BY DEF FiresAt, F
<1>8. \A u \in Moments(z) : u \in Int
  BY <1>1, MomentsAre
<1>9. w \in FiringAt(a) => w \in Int /\ FiresAt(z, a.sched, w)
  BY <1>2, <1>4, <1>6, <1>7, <1>8
<1>10. w \in Int /\ FiresAt(z, a.sched, w) => w \in FiringAt(a)
  BY <1>3, <1>5, <1>6, <1>7
<1>. QED
  BY <1>9, <1>10 DEF z

\* A fire that a search passes over: skipped by its zone, and moved to an instant
\* that is not ahead, or not to be moved.
PassedBy(a, f) ==
    /\ Skipped(a.zone, f)
    /\ a.sched.hour_star \/ ~is_successor(Nudged(a.zone, f), a.now, a.isPrev)

\* What a search comes to: a fire ahead with none on the way but passed ones.
Candidate(a, f) ==
    /\ f \in a.sched.fires
    /\ is_successor(f, LocalAt(a.zone, a.now), a.isPrev)
    /\ \A g \in a.sched.fires :
          is_successor(g, LocalAt(a.zone, a.now), a.isPrev) /\ is_successor(f, g, a.isPrev) =>
             PassedBy(a, g)

\* And the instant it gives it: the nearest of the fire's own, or the end of the
\* gap it is in.
Reached(a, f, u) ==
    /\ Candidate(a, f)
    /\ u \in Int /\ is_successor(u, a.now, a.isPrev)
    /\ \/ /\ LocalAt(a.zone, u) = f
          /\ \A x \in Int : LocalAt(a.zone, x) = f /\ is_successor(x, a.now, a.isPrev) =>
                ~is_successor(u, x, a.isPrev)
       \/ ~a.sched.hour_star /\ u \in Moments(a.zone) /\ InGap(a.zone, u, f)

LEMMA ReachedIs ==
    ASSUME NEW a, RegularAsk(a), NEW f, Candidate(a, f), ~PassedBy(a, f)
    PROVE  Reached(a, f, add_tzinfo(a.zone, f, a.now, a.isPrev).aware)
<1>. DEFINE z == a.zone  n == a.now  P == a.isPrev
            u == add_tzinfo(z, f, n, P).aware
<1>1. SaneZone(z) /\ n \in Int /\ P \in BOOLEAN /\ f \in Int /\ f \in a.sched.fires
      /\ a.sched.hour_star \in BOOLEAN /\ MovesToTheEnd(z, a.sched)
      /\ is_successor(f, LocalAt(z, n), P)
  BY RegularAskHas DEF Candidate
<1>2. CASE ~Skipped(z, f)
  <2>1. add_tzinfo(z, f, n, P).exists
    BY <1>2 DEF Skipped, add_tzinfo
  <2>2. is_successor(u, n, P)
    BY <1>1, <2>1, AddTzAhead
  <2>3. /\ u \in Int /\ LocalAt(z, u) = f
        /\ \A x \in Int : LocalAt(z, x) = f /\ is_successor(x, n, P) => ~is_successor(u, x, P)
    <3>. HIDE DEF z, n, P
    <3>. QED
      BY <1>1, <1>2, NearestInstant
  <2>. QED
    BY <2>2, <2>3 DEF Reached
<1>3. CASE Skipped(z, f)
  <2>1. u = Nudged(z, f)
    BY <1>3 DEF Skipped, add_tzinfo
  <2>2. ~a.sched.hour_star /\ is_successor(u, n, P)
    BY <1>1, <1>3, <2>1 DEF PassedBy
  <2>3. PICK e \in Moments(z) : InGap(z, e, f)
    BY <1>1, <1>3, SkippedInGap
  <2>4. u = e
    BY <1>1, <2>1, <2>2, <2>3 DEF MovesToTheEnd
  <2>5. u \in Int /\ u \in Moments(z) /\ InGap(z, u, f)
    BY <1>1, <2>3, <2>4, MomentsAre
  <2>. QED
    BY <2>2, <2>5 DEF Reached
<1>. QED
  BY <1>2, <1>3

\* On the way to it every local time is before the fire: the instants whose
\* local time is not would have come to it sooner.
LEMMA BehindForward ==
    ASSUME NEW z, SaneZone(z), NEW n \in Int, NEW f \in Int, NEW u \in Int, LocalAt(z, n) < f,
           \/ LocalAt(z, u) = f /\ \A x \in Int : LocalAt(z, x) = f /\ n < x => u <= x
           \/ u \in Moments(z) /\ InGap(z, u, f),
           NEW w \in Int, n < w, w < u
    PROVE  LocalAt(z, w) < f
<1>1. LocalAt(z, w) \in Int /\ LocalAt(z, n) \in Int
  BY LocalIsInt
<1>2. CASE u \in Moments(z) /\ InGap(z, u, f)
  <2>1. LocalAt(z, w) <= LocalAt(z, u - 1) /\ LocalAt(z, u - 1) \in Int
    <3>1. w <= u - 1 /\ u - 1 \in Int
      OBVIOUS
    <3>. QED
      BY <1>2, <3>1, LocalOnward, LocalIsInt
  <2>. QED
    BY <1>1, <1>2, <2>1 DEF InGap
<1>3. CASE LocalAt(z, u) = f /\ \A x \in Int : LocalAt(z, x) = f /\ n < x => u <= x
  <2>1. SUFFICES ASSUME f <= LocalAt(z, w) PROVE FALSE
    BY <1>1
  <2>2. LocalAt(z, u) <= LocalAt(z, w)
    BY <1>3, <2>1
  <2>3. PICK e \in Moments(z) :
           /\ w < e /\ e <= u
           /\ \A x \in Int : w <= x /\ x <= e - 1 => OffsetAt(z, x) = OffsetAt(z, w)
           /\ \A x \in Int : e <= x /\ x <= u => OffsetAt(z, x) = OffsetAt(z, u)
           /\ OffsetAt(z, u) < OffsetAt(z, w)
    BY <2>2, PutBack
  <2>4. PICK o \in Int, p \in Int :
           /\ o = OffsetAt(z, w) /\ p = OffsetAt(z, u) /\ o \in Offsets(z) /\ p \in Offsets(z)
    BY LocalIsInt
  <2>5. e \in Int /\ f = u + p /\ p < o /\ f <= w + o
    BY <1>3, <2>1, <2>3, <2>4, MomentsAre DEF LocalAt
  <2>6. PICK x \in Int : x = f - o
    BY <2>4
  <2>7. x <= w /\ x < u /\ e - 1 - (o - p) <= x
    BY <2>3, <2>4, <2>5, <2>6
  <2>8. ASSUME NEW y \in Int, x <= y, y <= w PROVE OffsetAt(z, y) = o
    <3>1. e - 1 \in Int /\ e - 1 - (o - p) <= y /\ y <= e - 1 /\ w <= e - 1
      BY <2>3, <2>4, <2>5, <2>7, <2>8
    <3>2. OffsetAt(z, y) = OffsetAt(z, e - 1)
      BY <2>4, <3>1, NearChange
    <3>3. OffsetAt(z, e - 1) = OffsetAt(z, w)
      BY <2>3, <3>1
    <3>. QED
      BY <2>4, <3>2, <3>3
  <2>9. LocalAt(z, x) = f
    BY <2>4, <2>6, <2>7, <2>8 DEF LocalAt
  <2>10. x <= n
    BY <1>3, <2>6, <2>7, <2>9
  <2>11. LocalAt(z, n) = n + o
    BY <2>8, <2>10 DEF LocalAt
  <2>. QED
    BY <2>4, <2>6, <2>10, <2>11
<1>. QED
  BY <1>2, <1>3

LEMMA BehindBackward ==
    ASSUME NEW z, SaneZone(z), NEW n \in Int, NEW f \in Int, NEW u \in Int, f < LocalAt(z, n),
           \/ LocalAt(z, u) = f /\ \A x \in Int : LocalAt(z, x) = f /\ x < n => x <= u
           \/ u \in Moments(z) /\ InGap(z, u, f),
           NEW w \in Int, w < n, u < w
    PROVE  f < LocalAt(z, w)
<1>1. LocalAt(z, w) \in Int /\ LocalAt(z, n) \in Int
  BY LocalIsInt
<1>2. CASE u \in Moments(z) /\ InGap(z, u, f)
  <2>1. LocalAt(z, u) <= LocalAt(z, w) /\ LocalAt(z, u) \in Int
    BY <1>2, LocalOnward, LocalIsInt
  <2>. QED
    BY <1>1, <1>2, <2>1 DEF InGap
<1>3. CASE LocalAt(z, u) = f /\ \A x \in Int : LocalAt(z, x) = f /\ x < n => x <= u
  <2>1. SUFFICES ASSUME LocalAt(z, w) <= f PROVE FALSE
    BY <1>1
  <2>2. LocalAt(z, w) <= LocalAt(z, u)
    BY <1>3, <2>1
  <2>3. PICK e \in Moments(z) :
           /\ u < e /\ e <= w
           /\ \A x \in Int : u <= x /\ x <= e - 1 => OffsetAt(z, x) = OffsetAt(z, u)
           /\ \A x \in Int : e <= x /\ x <= w => OffsetAt(z, x) = OffsetAt(z, w)
           /\ OffsetAt(z, w) < OffsetAt(z, u)
    BY <2>2, PutBack
  <2>4. PICK o \in Int, p \in Int :
           /\ o = OffsetAt(z, u) /\ p = OffsetAt(z, w) /\ o \in Offsets(z) /\ p \in Offsets(z)
    BY LocalIsInt
  <2>5. e \in Int /\ f = u + o /\ p < o /\ w + p <= f
    BY <1>3, <2>1, <2>3, <2>4, MomentsAre DEF LocalAt
  <2>6. PICK x \in Int : x = f - p
    BY <2>4
  <2>7. w <= x /\ u < x /\ x <= e + (o - p)
    BY <2>3, <2>4, <2>5, <2>6
  <2>8. ASSUME NEW y \in Int, w <= y, y <= x PROVE OffsetAt(z, y) = p
    <3>1. e <= y /\ y <= e + (o - p)
      BY <2>3, <2>4, <2>5, <2>7, <2>8
    <3>2. OffsetAt(z, y) = OffsetAt(z, e)
      BY <2>4, <3>1, NearChange
    <3>3. OffsetAt(z, e) = OffsetAt(z, w)
      BY <2>3, <2>5
    <3>. QED
      BY <2>4, <3>2, <3>3
  <2>9. LocalAt(z, x) = f
    BY <2>4, <2>6, <2>7, <2>8 DEF LocalAt
  <2>10. n <= x
    BY <1>3, <2>6, <2>7, <2>9
  <2>11. LocalAt(z, n) = n + p
    BY <2>8, <2>10 DEF LocalAt
  <2>. QED
    BY <2>4, <2>6, <2>10, <2>11
<1>. QED
  BY <1>2, <1>3

LEMMA BehindTheFire ==
    ASSUME NEW a, RegularAsk(a), NEW f, NEW u, Reached(a, f, u), NEW w \in Int,
           is_successor(w, a.now, a.isPrev), is_successor(u, w, a.isPrev)
    PROVE  is_successor(f, LocalAt(a.zone, w), a.isPrev)
<1>1. SaneZone(a.zone) /\ a.now \in Int /\ a.isPrev \in BOOLEAN /\ f \in Int /\ u \in Int
  BY RegularAskHas DEF Reached, Candidate
<1>2. CASE ~a.isPrev
  <2>1. LocalAt(a.zone, a.now) < f /\ a.now < w /\ w < u
    BY <1>2 DEF Reached, Candidate, is_successor
  <2>2. \/ LocalAt(a.zone, u) = f /\ \A x \in Int : LocalAt(a.zone, x) = f /\ a.now < x => u <= x
        \/ u \in Moments(a.zone) /\ InGap(a.zone, u, f)
    <3>1. \A x \in Int : ~is_successor(u, x, a.isPrev) => u <= x
      BY <1>1, <1>2 DEF is_successor
    <3>2. \A x \in Int : a.now < x => is_successor(x, a.now, a.isPrev)
      BY <1>2 DEF is_successor
    <3>. QED
      BY <3>1, <3>2 DEF Reached
  <2>. QED
    BY <1>1, <1>2, <2>1, <2>2, BehindForward DEF is_successor
<1>3. CASE a.isPrev
  <2>1. f < LocalAt(a.zone, a.now) /\ w < a.now /\ u < w
    BY <1>3 DEF Reached, Candidate, is_successor
  <2>2. \/ LocalAt(a.zone, u) = f /\ \A x \in Int : LocalAt(a.zone, x) = f /\ x < a.now => x <= u
        \/ u \in Moments(a.zone) /\ InGap(a.zone, u, f)
    <3>1. \A x \in Int : ~is_successor(u, x, a.isPrev) => x <= u
      BY <1>1, <1>3 DEF is_successor
    <3>2. \A x \in Int : x < a.now => is_successor(x, a.now, a.isPrev)
      BY <1>3 DEF is_successor
    <3>. QED
      BY <3>1, <3>2 DEF Reached
  <2>. QED
    BY <1>1, <1>3, <2>1, <2>2, BehindBackward DEF is_successor
<1>. QED
  BY <1>1, <1>2, <1>3

\* A local time some instant has is not skipped.
LEMMA HadIsNotSkipped ==
    ASSUME NEW z, SaneZone(z), NEW w \in Int
    PROVE  ~Skipped(z, LocalAt(z, w))
  BY LocalIsInt, InstantsOf DEF Skipped

\* What a search can have missed on the way: an instant that repeats the local
\* time of a fire which is not ahead in local time.
LEMMA OnTheWay ==
    ASSUME NEW a, RegularAsk(a), NEW f, NEW u, Reached(a, f, u), NEW w \in Int,
           is_successor(w, a.now, a.isPrev), is_successor(u, w, a.isPrev),
           FiresAt(a.zone, a.sched, w)
    PROVE  /\ LocalAt(a.zone, w) \in a.sched.fires
           /\ ~is_successor(LocalAt(a.zone, w), LocalAt(a.zone, a.now), a.isPrev)
<1>. DEFINE z == a.zone  n == a.now  F == a.sched.fires  P == a.isPrev
<1>1. /\ SaneZone(z) /\ n \in Int /\ P \in BOOLEAN /\ f \in Int /\ u \in Int /\ F \subseteq Int
      /\ MovesToTheEnd(z, a.sched)
  BY RegularAskHas DEF Reached, Candidate
<1>2. \A g \in F : is_successor(g, LocalAt(z, n), P) /\ is_successor(f, g, P) => PassedBy(a, g)
  BY DEF Reached, Candidate
<1>3. is_successor(f, LocalAt(z, w), P)
  BY BehindTheFire
<1>4. CASE LocalAt(z, w) \in F
  <2>1. ASSUME is_successor(LocalAt(z, w), LocalAt(z, n), P) PROVE FALSE
    <3>1. PassedBy(a, LocalAt(z, w))
      BY <1>2, <1>3, <1>4, <2>1
    <3>. QED
      BY <1>1, <3>1, HadIsNotSkipped DEF PassedBy
  <2>. QED
    BY <1>4, <2>1
<1>5. CASE ~a.sched.hour_star /\ w \in Moments(z) /\ \E g \in F : InGap(z, w, g)
  <2>1. PICK g \in F : InGap(z, w, g)
    BY <1>5
  <2>2. Nudged(z, g) = w
    BY <1>1, <1>5, <2>1 DEF MovesToTheEnd
  <2>3. /\ g \in Int /\ LocalAt(z, w) \in Int /\ LocalAt(z, n) \in Int
        /\ w - 1 \in Int /\ LocalAt(z, w - 1) \in Int
        /\ LocalAt(z, w - 1) < g /\ g < LocalAt(z, w)
    BY <1>1, <2>1, LocalIsInt DEF InGap
  <2>4. /\ w <= n => LocalAt(z, w) <= LocalAt(z, n)
        /\ n <= w - 1 => LocalAt(z, n) <= LocalAt(z, w - 1)
    BY <1>1, <1>5, LocalOnward
  <2>5. is_successor(g, LocalAt(z, n), P)
    BY <1>1, <2>3, <2>4 DEF is_successor
  <2>6. is_successor(f, g, P)
    <3>1. CASE ~P
      BY <1>1, <1>3, <2>3, <3>1 DEF is_successor
    <3>2. CASE P
      <4>1. u < w /\ w < n
        BY <3>2 DEF is_successor
      <4>2. CASE u = w - 1
        <5>1. f <= LocalAt(z, u)
          <6>1. CASE LocalAt(z, u) = f
            BY <1>1, <6>1
          <6>2. CASE InGap(z, u, f)
            BY <1>1, <6>2, LocalIsInt DEF InGap
          <6>. QED
            BY <6>1, <6>2 DEF Reached
        <5>. QED
          BY <1>1, <2>3, <3>2, <4>2, <5>1 DEF is_successor
      <4>3. CASE u < w - 1
        <5>1. is_successor(w - 1, n, P) /\ is_successor(u, w - 1, P)
          BY <1>1, <3>2, <4>1, <4>3 DEF is_successor
        <5>2. is_successor(f, LocalAt(z, w - 1), P)
          BY <2>3, <5>1, BehindTheFire
        <5>. QED
          BY <1>1, <2>3, <3>2, <5>2 DEF is_successor
      <4>. QED
        BY <1>1, <4>1, <4>2, <4>3
    <3>. QED
      BY <3>1, <3>2
  <2>7. PassedBy(a, g)
    BY <1>2, <2>5, <2>6
  <2>. QED
    BY <1>5, <2>2, <2>7 DEF PassedBy
<1>. QED
  BY <1>4, <1>5 DEF FiresAt

\* Such an instant lies after a change that puts the clock back, and no other
\* change is passed on the way.
LEMMA MissedForward ==
    ASSUME NEW a, RegularAsk(a), ~a.isPrev, NEW f, NEW u, Reached(a, f, u), NEW w \in Int,
           a.now < w, w < u, LocalAt(a.zone, w) \in a.sched.fires,
           LocalAt(a.zone, w) <= LocalAt(a.zone, a.now)
    PROVE  \E c \in Moments(a.zone) :
              /\ c \in Int /\ a.now < c /\ c <= w /\ InFold(a.zone, c, LocalAt(a.zone, w))
              /\ \A x \in Int : a.now <= x /\ x <= c - 1 => OffsetAt(a.zone, x) = OffsetAt(a.zone, a.now)
              /\ \A x \in Int : c <= x /\ x <= u => OffsetAt(a.zone, x) = OffsetAt(a.zone, u)
              /\ OffsetAt(a.zone, u) < OffsetAt(a.zone, a.now)
<1>. DEFINE z == a.zone  n == a.now  F == a.sched.fires
<1>1. /\ SaneZone(z) /\ n \in Int /\ f \in Int /\ u \in Int /\ F \subseteq Int /\ f \in F
      /\ KeepsUp(z, a.sched)
  BY RegularAskHas DEF Reached, Candidate
<1>2. /\ LocalAt(z, n) < f
      /\ \A g \in F : LocalAt(z, n) < g /\ g < f => Skipped(z, g)
      /\ LocalAt(z, u) = f \/ (u \in Moments(z) /\ InGap(z, u, f))
  BY DEF Reached, Candidate, PassedBy, is_successor
<1>3. PICK c \in Moments(z) :
         /\ n < c /\ c <= w
         /\ \A x \in Int : n <= x /\ x <= c - 1 => OffsetAt(z, x) = OffsetAt(z, n)
         /\ \A x \in Int : c <= x /\ x <= w => OffsetAt(z, x) = OffsetAt(z, w)
         /\ OffsetAt(z, w) < OffsetAt(z, n)
  <2>. HIDE DEF z, n, F
  <2>. QED
    BY <1>1, PutBack DEF z, n
<1>4. PICK o \in Int, p \in Int : o = OffsetAt(z, n) /\ p = OffsetAt(z, w)
  BY <1>1, LocalIsInt
<1>5. c \in Int /\ OffsetAt(z, c - 1) = o /\ OffsetAt(z, c) = p
  BY <1>1, <1>3, <1>4, MomentsAre
<1>6. /\ LocalAt(z, n) = n + o /\ LocalAt(z, w) = w + p
      /\ LocalAt(z, c) = c + p /\ LocalAt(z, c - 1) = c - 1 + o
  BY <1>4, <1>5 DEF LocalAt
<1>7. InFold(z, c, LocalAt(z, w)) /\ LocalAt(z, n) <= LocalAt(z, c - 1)
  BY <1>1, <1>3, <1>4, <1>5, <1>6 DEF InFold
<1>8. ASSUME NEW d \in Moments(z), c < d, d <= u PROVE FALSE
  <2>1. d \in Int /\ d - 1 \in Int /\ LocalAt(z, d) \in Int /\ LocalAt(z, d - 1) \in Int
    BY <1>1, MomentsAre, LocalIsInt
  <2>2. (LocalAt(z, d - 1) < f /\ u = d) \/ LocalAt(z, d) <= f
    <3>1. CASE LocalAt(z, u) = f
      BY <1>1, <1>8, <3>1, LocalOnward
    <3>2. CASE u \in Moments(z) /\ InGap(z, u, f)
      <4>1. CASE u = d
        BY <3>2, <4>1 DEF InGap
      <4>2. CASE d < u
        <5>1. d <= u - 1 /\ u - 1 \in Int
          BY <1>1, <2>1, <4>2
        <5>2. LocalAt(z, d) <= LocalAt(z, u - 1)
          BY <1>1, <1>8, <5>1, LocalOnward
        <5>3. LocalAt(z, u - 1) \in Int
          BY <1>1, <5>1, LocalIsInt
        <5>. QED
          BY <1>1, <2>1, <3>2, <5>2, <5>3 DEF InGap
      <4>. QED
        BY <1>1, <1>8, <2>1, <4>1, <4>2
    <3>. QED
      BY <1>2, <3>1, <3>2
  <2>3. PICK g \in F : ~Skipped(z, g) /\ LocalAt(z, c - 1) < g /\ g < LocalAt(z, d)
    <3>1. \E h \in F : InGap(z, c, h) \/ InFold(z, c, h)
      BY <1>7
    <3>2. \E h \in F : h > LocalAt(z, d - 1) \/ h >= LocalAt(z, d)
      BY <1>1, <2>1, <2>2
    <3>. QED
      BY <1>1, <1>8, <3>1, <3>2 DEF KeepsUp
  <2>4. ~InGap(z, d, g)
    BY <1>1, <1>8, <2>3, SkippedInGap
  <2>5. LocalAt(z, n) < g /\ g < f
    BY <1>1, <1>4, <1>5, <1>6, <1>7, <2>1, <2>2, <2>3, <2>4 DEF InGap
  <2>. QED
    BY <1>2, <2>3, <2>5
<1>9. ASSUME NEW x \in Int, c <= x, x <= u PROVE OffsetAt(z, x) = OffsetAt(z, u)
  <2>1. \A d \in Moments(z) : ~ (x < d /\ d <= u)
    <3>1. ASSUME NEW d \in Moments(z), x < d, d <= u PROVE FALSE
      <4>1. d \in Int
        BY <1>1, MomentsAre
      <4>2. c < d
        BY <1>5, <1>9, <3>1, <4>1
      <4>. QED
        BY <1>8, <3>1, <4>2
    <3>. QED
      BY <3>1
  <2>. QED
    BY <1>1, <1>9, <2>1, OffsetStays
<1>10. OffsetAt(z, u) < OffsetAt(z, n)
  <2>1. OffsetAt(z, w) = OffsetAt(z, u)
    BY <1>1, <1>3, <1>9
  <2>. QED
    BY <1>3, <2>1
<1>. QED
  BY <1>3, <1>5, <1>7, <1>9, <1>10

GoesBack(a) == a.isPrev = TRUE

LEMMA MissedBackward ==
    ASSUME NEW a, RegularAsk(a), GoesBack(a), NEW f, NEW u, Reached(a, f, u), NEW w \in Int,
           w < a.now, u < w, LocalAt(a.zone, w) \in a.sched.fires,
           LocalAt(a.zone, a.now) <= LocalAt(a.zone, w)
    PROVE  \E c \in Moments(a.zone) :
              /\ c \in Int /\ w < c /\ c <= a.now /\ InFold(a.zone, c, LocalAt(a.zone, w))
              /\ \A x \in Int : c <= x /\ x <= a.now => OffsetAt(a.zone, x) = OffsetAt(a.zone, a.now)
              /\ \A x \in Int : u <= x /\ x <= c - 1 => OffsetAt(a.zone, x) = OffsetAt(a.zone, u)
              /\ OffsetAt(a.zone, a.now) < OffsetAt(a.zone, u)
<1>. DEFINE z == a.zone  n == a.now  F == a.sched.fires
<1>1. /\ SaneZone(z) /\ n \in Int /\ f \in Int /\ u \in Int /\ F \subseteq Int /\ f \in F
      /\ KeepsUp(z, a.sched)
  BY RegularAskHas DEF Reached, Candidate
<1>2. /\ f < LocalAt(z, n)
      /\ \A g \in F : g < LocalAt(z, n) /\ f < g => Skipped(z, g)
      /\ LocalAt(z, u) = f \/ (u \in Moments(z) /\ InGap(z, u, f))
  BY DEF Reached, Candidate, PassedBy, is_successor, GoesBack
<1>3. PICK c \in Moments(z) :
         /\ w < c /\ c <= n
         /\ \A x \in Int : w <= x /\ x <= c - 1 => OffsetAt(z, x) = OffsetAt(z, w)
         /\ \A x \in Int : c <= x /\ x <= n => OffsetAt(z, x) = OffsetAt(z, n)
         /\ OffsetAt(z, n) < OffsetAt(z, w)
  <2>. HIDE DEF z, n, F
  <2>. QED
    BY <1>1, PutBack DEF z, n
<1>4. PICK o \in Int, p \in Int : o = OffsetAt(z, w) /\ p = OffsetAt(z, n)
  BY <1>1, LocalIsInt
<1>5. c \in Int /\ OffsetAt(z, c - 1) = o /\ OffsetAt(z, c) = p
  BY <1>1, <1>3, <1>4, MomentsAre
<1>6. /\ LocalAt(z, n) = n + p /\ LocalAt(z, w) = w + o
      /\ LocalAt(z, c) = c + p /\ LocalAt(z, c - 1) = c - 1 + o
  BY <1>4, <1>5 DEF LocalAt
<1>7. InFold(z, c, LocalAt(z, w)) /\ LocalAt(z, c) <= LocalAt(z, n)
  BY <1>1, <1>3, <1>4, <1>5, <1>6 DEF InFold
<1>8. ASSUME NEW d \in Moments(z), u < d, d < c PROVE FALSE
  <2>1. d \in Int /\ d - 1 \in Int /\ LocalAt(z, d) \in Int /\ LocalAt(z, d - 1) \in Int
    BY <1>1, MomentsAre, LocalIsInt
  <2>2. f <= LocalAt(z, d - 1)
    <3>1. u <= d - 1 /\ LocalAt(z, u) \in Int
      BY <1>1, <1>8, <2>1, LocalIsInt
    <3>2. LocalAt(z, u) <= LocalAt(z, d - 1)
      BY <1>1, <1>8, <3>1, LocalOnward
    <3>3. f <= LocalAt(z, u)
      <4>1. CASE LocalAt(z, u) = f
        BY <1>1, <4>1
      <4>2. CASE InGap(z, u, f)
        BY <1>1, <3>1, <4>2 DEF InGap
      <4>. QED
        BY <1>2, <4>1, <4>2
    <3>. QED
      BY <1>1, <2>1, <3>1, <3>2, <3>3
  <2>3. PICK g \in F : ~Skipped(z, g) /\ LocalAt(z, d - 1) < g /\ g < LocalAt(z, c)
    <3>1. \E h \in F : InGap(z, c, h) \/ InFold(z, c, h)
      BY <1>7
    <3>2. \E h \in F : h < LocalAt(z, d) \/ h <= LocalAt(z, d - 1)
      BY <1>1, <2>1, <2>2
    <3>. QED
      BY <1>1, <1>8, <3>1, <3>2 DEF KeepsUp
  <2>5. g < LocalAt(z, n) /\ f < g
    BY <1>1, <1>4, <1>5, <1>6, <1>7, <2>1, <2>2, <2>3
  <2>. QED
    BY <1>2, <2>3, <2>5
<1>9. ASSUME NEW x \in Int, u <= x, x <= c - 1 PROVE OffsetAt(z, x) = OffsetAt(z, u)
  <2>1. \A d \in Moments(z) : ~ (u < d /\ d <= x)
    <3>1. ASSUME NEW d \in Moments(z), u < d, d <= x PROVE FALSE
      <4>1. d \in Int
        BY <1>1, MomentsAre
      <4>2. d < c
        BY <1>5, <1>9, <3>1, <4>1
      <4>. QED
        BY <1>8, <3>1, <4>2
    <3>. QED
      BY <3>1
  <2>2. OffsetAt(z, u) = OffsetAt(z, x)
    BY <1>1, <1>9, <2>1, OffsetStays
  <2>. QED
    BY <2>2
<1>10. OffsetAt(z, n) < OffsetAt(z, u)
  <2>1. w <= c - 1
    BY <1>3, <1>5
  <2>2. OffsetAt(z, w) = OffsetAt(z, u)
    BY <1>1, <1>9, <2>1
  <2>. QED
    BY <1>3, <2>2
<1>. QED
  BY <1>3, <1>5, <1>7, <1>9, <1>10

\* The fire that the second search finds then is the nearest firing instant.
LEMMA MissedAnswerForward ==
    ASSUME NEW a, RegularAsk(a), ~a.isPrev, NEW f, NEW u, Reached(a, f, u), NEW w \in Int,
           a.now < w, w < u, LocalAt(a.zone, w) \in a.sched.fires,
           LocalAt(a.zone, w) <= LocalAt(a.zone, a.now),
           NEW h \in calc_next(a, a.now + OffsetAt(a.zone, u)),
           NEW v, v = add_tzinfo(a.zone, h, a.now, a.isPrev).aware
    PROVE  /\ v \in Int /\ a.now < v /\ v < u /\ LocalAt(a.zone, v) \in a.sched.fires
           /\ \A y \in Int : a.now < y /\ FiresAt(a.zone, a.sched, y) => v <= y
<1>. DEFINE z == a.zone  n == a.now  F == a.sched.fires  P == a.isPrev
<1>1. /\ SaneZone(z) /\ n \in Int /\ f \in Int /\ u \in Int /\ F \subseteq Int /\ P \in BOOLEAN
      /\ a.horizon \in Nat /\ SameMinutes(z, a.sched)
  BY RegularAskHas DEF Reached, Candidate
<1>2. \A x, y : is_successor(x, y, P) <=> y < x
  BY DEF is_successor
<1>3. PICK c \in Moments(z) :
         /\ c \in Int /\ n < c /\ c <= w /\ InFold(z, c, LocalAt(z, w))
         /\ \A x \in Int : n <= x /\ x <= c - 1 => OffsetAt(z, x) = OffsetAt(z, n)
         /\ \A x \in Int : c <= x /\ x <= u => OffsetAt(z, x) = OffsetAt(z, u)
         /\ OffsetAt(z, u) < OffsetAt(z, n)
  BY MissedForward
<1>4. PICK o \in Int, p \in Int : o = OffsetAt(z, n) /\ p = OffsetAt(z, u)
  BY <1>1, LocalIsInt
<1>5. /\ OffsetAt(z, c - 1) = o /\ OffsetAt(z, c) = p /\ OffsetAt(z, w) = p
  <2>1. c - 1 \in Int /\ n <= c - 1 /\ c <= u /\ w <= u
    BY <1>1, <1>3
  <2>. QED
    BY <1>1, <1>3, <1>4, <2>1
<1>6. /\ LocalAt(z, n) = n + o /\ LocalAt(z, w) = w + p
      /\ LocalAt(z, c) = c + p /\ LocalAt(z, c - 1) = c - 1 + o /\ Jump(z, c) = p - o
  BY <1>4, <1>5 DEF LocalAt, Jump
<1>7. /\ h \in F /\ h \in Int /\ n + p < h
      /\ \A g \in F : ~ (n + p < g /\ g < h)
  <2>1. n + OffsetAt(z, u) \in Int /\ n + OffsetAt(z, u) = n + p
    BY <1>1, <1>4
  <2>. QED
    BY <1>1, <1>2, <2>1, NextIsFirst
<1>8. h <= w + p
  BY <1>1, <1>3, <1>4, <1>6, <1>7
<1>9. ASSUME NEW x \in Int, n < x, x < u, FiresAt(z, a.sched, x)
      PROVE  LocalAt(z, x) \in F /\ LocalAt(z, x) <= n + o
  <2>1. LocalAt(z, x) \in F /\ ~ (LocalAt(z, n) < LocalAt(z, x))
    BY <1>2, <1>9, OnTheWay
  <2>2. LocalAt(z, x) \in Int
    BY <1>1, <2>1
  <2>. QED
    BY <1>1, <1>4, <1>6, <2>1, <2>2
<1>10. c + p <= h
  <2>1. SUFFICES ASSUME h < c + p PROVE FALSE
    BY <1>3, <1>4, <1>7
  <2>2. h \in (LocalAt(z, c) + Jump(z, c)) .. (LocalAt(z, c) - 1)
    BY <1>1, <1>3, <1>4, <1>6, <1>7, <2>1
  <2>3. h - (p - o) \in F
    <3>1. \E g \in F : InFold(z, c, g)
      BY <1>3
    <3>. QED
      BY <1>1, <1>3, <1>6, <1>7, <2>2, <3>1 DEF SameMinutes
  <2>4. PICK x \in Int : x = h - p
    BY <1>4, <1>7
  <2>5. n < x /\ x <= c - 1 /\ x < u
    BY <1>1, <1>3, <1>4, <1>7, <2>1, <2>4
  <2>6. LocalAt(z, x) = x + o
    BY <1>1, <1>3, <1>4, <2>5 DEF LocalAt
  <2>7. x + o = h - (p - o)
    BY <1>4, <1>7, <2>4
  <2>8. FiresAt(z, a.sched, x)
    BY <2>3, <2>6, <2>7 DEF FiresAt
  <2>9. x + o <= n + o
    BY <1>9, <2>5, <2>6, <2>8
  <2>. QED
    BY <1>1, <1>4, <2>4, <2>5, <2>9
<1>11. PICK x \in Int : x = h - p
  BY <1>4, <1>7
<1>12. c <= x /\ x <= w /\ n < x
  BY <1>1, <1>3, <1>4, <1>7, <1>8, <1>10, <1>11
<1>13. LocalAt(z, x) = h
  <2>1. OffsetAt(z, x) = p
    BY <1>1, <1>3, <1>4, <1>12
  <2>. QED
    BY <1>4, <1>7, <1>11, <2>1 DEF LocalAt
<1>14. ~Skipped(z, h)
  BY <1>1, <1>13, HadIsNotSkipped
<1>15. /\ v \in Int /\ LocalAt(z, v) = h /\ n < v /\ ~ (x < v)
  BY <1>1, <1>2, <1>7, <1>12, <1>13, <1>14, NearestInstant
<1>16. v < u
  BY <1>1, <1>12, <1>15
<1>17. ASSUME NEW y \in Int, n < y, FiresAt(z, a.sched, y) PROVE v <= y
  <2>1. SUFFICES ASSUME y < v PROVE FALSE
    BY <1>15
  <2>2. y < u /\ y < x
    BY <1>1, <1>15, <1>16, <2>1
  <2>3. LocalAt(z, y) \in F /\ LocalAt(z, y) <= n + o
    BY <1>9, <1>17, <2>2
  <2>4. c <= y
    <3>1. ASSUME y <= c - 1 PROVE FALSE
      <4>1. LocalAt(z, y) = y + o
        BY <1>1, <1>3, <1>4, <1>17, <3>1 DEF LocalAt
      <4>. QED
        BY <1>1, <1>4, <1>17, <2>3, <4>1
    <3>. QED
      BY <1>3, <3>1
  <2>5. LocalAt(z, y) = y + p
    BY <1>1, <1>3, <1>4, <2>2, <2>4 DEF LocalAt
  <2>6. n + p < y + p /\ y + p < h
    BY <1>1, <1>4, <1>7, <1>11, <1>17, <2>2
  <2>. QED
    BY <1>7, <2>3, <2>5, <2>6
<1>. QED
  BY <1>7, <1>15, <1>16, <1>17

LEMMA MissedAnswerBackward ==
    ASSUME NEW a, RegularAsk(a), GoesBack(a), NEW f, NEW u, Reached(a, f, u), NEW w \in Int,
           w < a.now, u < w, LocalAt(a.zone, w) \in a.sched.fires,
           LocalAt(a.zone, a.now) <= LocalAt(a.zone, w),
           NEW h \in calc_next(a, a.now + OffsetAt(a.zone, u)),
           NEW v, v = add_tzinfo(a.zone, h, a.now, a.isPrev).aware
    PROVE  /\ v \in Int /\ v < a.now /\ u < v /\ LocalAt(a.zone, v) \in a.sched.fires
           /\ \A y \in Int : y < a.now /\ FiresAt(a.zone, a.sched, y) => y <= v
<1>. DEFINE z == a.zone  n == a.now  F == a.sched.fires  P == a.isPrev
<1>1. /\ SaneZone(z) /\ n \in Int /\ f \in Int /\ u \in Int /\ F \subseteq Int /\ P \in BOOLEAN
      /\ a.horizon \in Nat /\ SameMinutes(z, a.sched)
  BY RegularAskHas DEF Reached, Candidate
<1>2. a.isPrev = TRUE /\ \A x, y : is_successor(x, y, P) <=> x < y
  BY DEF is_successor, GoesBack
<1>3. PICK c \in Moments(z) :
         /\ c \in Int /\ w < c /\ c <= n /\ InFold(z, c, LocalAt(z, w))
         /\ \A x \in Int : c <= x /\ x <= n => OffsetAt(z, x) = OffsetAt(z, n)
         /\ \A x \in Int : u <= x /\ x <= c - 1 => OffsetAt(z, x) = OffsetAt(z, u)
         /\ OffsetAt(z, n) < OffsetAt(z, u)
  BY MissedBackward
<1>4. PICK o \in Int, p \in Int : o = OffsetAt(z, u) /\ p = OffsetAt(z, n)
  BY <1>1, LocalIsInt
<1>5. /\ OffsetAt(z, c - 1) = o /\ OffsetAt(z, c) = p /\ OffsetAt(z, w) = o
  <2>1. c - 1 \in Int /\ u <= c - 1 /\ w <= c - 1 /\ u <= w
    BY <1>1, <1>3
  <2>. QED
    BY <1>1, <1>3, <1>4, <2>1
<1>6. /\ LocalAt(z, n) = n + p /\ LocalAt(z, w) = w + o
      /\ LocalAt(z, c) = c + p /\ LocalAt(z, c - 1) = c - 1 + o /\ Jump(z, c) = p - o
  BY <1>4, <1>5 DEF LocalAt, Jump
<1>7. /\ h \in F /\ h \in Int /\ h < n + o
      /\ \A g \in F : ~ (g < n + o /\ h < g)
  <2>1. n + OffsetAt(z, u) \in Int /\ n + OffsetAt(z, u) = n + o
    BY <1>1, <1>4
  <2>. QED
    <3>1. /\ h \in F /\ h \in Int /\ is_successor(h, n + o, P)
          /\ \A g \in F : ~ (is_successor(g, n + o, P) /\ is_successor(h, g, P))
      BY <1>1, <2>1, NextIsFirst
    <3>. QED
      BY <1>2, <3>1
<1>8. w + o <= h
  BY <1>1, <1>3, <1>4, <1>6, <1>7
<1>9. ASSUME NEW x \in Int, x < n, u < x, FiresAt(z, a.sched, x)
      PROVE  LocalAt(z, x) \in F /\ n + p <= LocalAt(z, x)
  <2>1. LocalAt(z, x) \in F /\ ~ (LocalAt(z, x) < LocalAt(z, n))
    BY <1>2, <1>9, OnTheWay
  <2>2. LocalAt(z, x) \in Int
    BY <1>1, <2>1
  <2>. QED
    BY <1>1, <1>4, <1>6, <2>1, <2>2
<1>10. h <= c - 1 + o
  <2>1. SUFFICES ASSUME c - 1 + o < h PROVE FALSE
    BY <1>3, <1>4, <1>7
  <2>2. h \in (LocalAt(z, c - 1) + 1) .. (LocalAt(z, c - 1) - Jump(z, c))
    <3>1. n + p <= c - 1 + o
      BY <1>1, <1>3, <1>4, <1>6 DEF InFold
    <3>. QED
      BY <1>1, <1>3, <1>4, <1>6, <1>7, <2>1, <3>1
  <2>3. h + (p - o) \in F
    <3>1. \E g \in F : InFold(z, c, g)
      BY <1>3
    <3>. QED
      BY <1>1, <1>3, <1>6, <1>7, <2>2, <3>1 DEF SameMinutes
  <2>4. PICK x \in Int : x = h - o
    BY <1>4, <1>7
  <2>5. x < n /\ c <= x /\ u < x
    BY <1>1, <1>3, <1>4, <1>7, <2>1, <2>4
  <2>6. LocalAt(z, x) = x + p
    BY <1>1, <1>3, <1>4, <2>5 DEF LocalAt
  <2>7. x + p = h + (p - o)
    BY <1>4, <1>7, <2>4
  <2>8. FiresAt(z, a.sched, x)
    BY <2>3, <2>6, <2>7 DEF FiresAt
  <2>9. n + p <= x + p
    BY <1>9, <2>5, <2>6, <2>8
  <2>. QED
    BY <1>1, <1>4, <2>4, <2>5, <2>9
<1>11. PICK x \in Int : x = h - o
  BY <1>4, <1>7
<1>12. x <= c - 1 /\ w <= x /\ x < n
  BY <1>1, <1>3, <1>4, <1>7, <1>8, <1>10, <1>11
<1>13. LocalAt(z, x) = h
  <2>1. OffsetAt(z, x) = o
    BY <1>1, <1>3, <1>4, <1>12
  <2>. QED
    BY <1>4, <1>7, <1>11, <2>1 DEF LocalAt
<1>14. ~Skipped(z, h)
  BY <1>1, <1>13, HadIsNotSkipped
<1>15. /\ v \in Int /\ LocalAt(z, v) = h /\ v < n /\ x <= v
  <2>1. is_successor(x, n, P)
    BY <1>2, <1>12
  <2>2. v \in Int /\ LocalAt(z, v) = h /\ is_successor(v, n, P) /\ ~is_successor(v, x, P)
    BY <1>1, <1>7, <1>13, <1>14, <2>1, NearestInstant
  <2>3. v < n /\ ~ (v < x)
    BY <1>2, <2>2
  <2>. QED
    BY <2>2, <2>3
<1>16. u < v
  BY <1>1, <1>12, <1>15
<1>17. ASSUME NEW y \in Int, y < n, FiresAt(z, a.sched, y) PROVE y <= v
  <2>1. SUFFICES ASSUME v < y PROVE FALSE
    BY <1>15
  <2>2. u < y /\ x < y
    BY <1>1, <1>15, <1>16, <2>1
  <2>3. LocalAt(z, y) \in F /\ n + p <= LocalAt(z, y)
    BY <1>9, <1>17, <2>2
  <2>4. y <= c - 1
    <3>1. ASSUME c <= y PROVE FALSE
      <4>1. LocalAt(z, y) = y + p
        BY <1>1, <1>3, <1>4, <1>17, <3>1 DEF LocalAt
      <4>. QED
        BY <1>1, <1>4, <1>17, <2>3, <4>1
    <3>. QED
      BY <1>3, <3>1
  <2>5. LocalAt(z, y) = y + o
    BY <1>1, <1>3, <1>4, <2>2, <2>4 DEF LocalAt
  <2>6. y + o < n + o /\ h < y + o
    BY <1>1, <1>4, <1>7, <1>11, <1>17, <2>2
  <2>. QED
    BY <1>7, <2>3, <2>5, <2>6
<1>. QED
  BY <1>7, <1>15, <1>16, <1>17

\* When there was nothing to miss, the second search brings nothing nearer.
LEMMA NothingNearer ==
    ASSUME NEW a, RegularAsk(a), NEW f, NEW u, Reached(a, f, u),
           OffsetAt(a.zone, u) # OffsetAt(a.zone, a.now),
           \A w \in Int : is_successor(w, a.now, a.isPrev) /\ is_successor(u, w, a.isPrev) =>
              ~FiresAt(a.zone, a.sched, w),
           NEW h \in calc_next(a, a.now + OffsetAt(a.zone, u)),
           NEW v, v = add_tzinfo(a.zone, h, a.now, a.isPrev).aware
    PROVE  ~ (is_successor(v, a.now, a.isPrev) /\ is_successor(u, v, a.isPrev))
<1>. DEFINE z == a.zone  n == a.now  F == a.sched.fires  P == a.isPrev
<1>1. /\ SaneZone(z) /\ n \in Int /\ f \in Int /\ u \in Int /\ F \subseteq Int /\ P \in BOOLEAN
      /\ a.horizon \in Nat /\ SameMinutes(z, a.sched) /\ MovesToTheEnd(z, a.sched)
      /\ a.sched.hour_star \in BOOLEAN
  BY RegularAskHas DEF Reached, Candidate
<1>2. PICK o \in Int, p \in Int : o = OffsetAt(z, n) /\ p = OffsetAt(z, u)
  BY <1>1, LocalIsInt
<1>3. /\ h \in F /\ h \in Int /\ is_successor(h, n + p, P)
  <2>1. n + OffsetAt(z, u) \in Int /\ n + OffsetAt(z, u) = n + p
    BY <1>1, <1>2
  <2>. QED
    BY <1>1, <2>1, NextIsFirst
<1>4. SUFFICES ASSUME is_successor(v, n, P), is_successor(u, v, P) PROVE FALSE
  OBVIOUS
<1>5. v \in Int
  BY <1>1, <1>3, AddTzType
<1>6. ~FiresAt(z, a.sched, v)
  BY <1>4, <1>5
<1>7. CASE ~Skipped(z, h)
  <2>1. LocalAt(z, v) = h
    BY <1>1, <1>3, <1>7, NearestInstant
  <2>. QED
    BY <1>3, <1>6, <2>1 DEF FiresAt
<1>8. CASE Skipped(z, h)
  <2>1. v = Nudged(z, h)
    BY <1>8 DEF Skipped, add_tzinfo
  <2>2. PICK e \in Moments(z) : InGap(z, e, h)
    BY <1>1, <1>3, <1>8, SkippedInGap
  <2>3. a.sched.hour_star
    <3>1. ASSUME ~a.sched.hour_star PROVE FALSE
      <4>1. v = e
        BY <1>1, <1>3, <2>1, <2>2, <3>1 DEF MovesToTheEnd
      <4>. QED
        BY <1>3, <1>6, <2>2, <3>1, <4>1 DEF FiresAt
    <3>. QED
      BY <3>1
  <2>4. e \in Int /\ e - 1 \in Int
    BY <1>1, MomentsAre
  <2>5. PICK q \in Int, r \in Int :
           q = OffsetAt(z, e - 1) /\ r = OffsetAt(z, e) /\ q \in Offsets(z) /\ r \in Offsets(z)
    BY <1>1, <2>4, LocalIsInt
  <2>6. /\ LocalAt(z, e - 1) = e - 1 + q /\ LocalAt(z, e) = e + r /\ Jump(z, e) = r - q
    BY <2>5 DEF LocalAt, Jump
  <2>7. e - 1 + q < h /\ h < e + r
    BY <2>2, <2>6 DEF InGap
  <2>8. PICK x \in Int, y \in Int : x = h - r /\ y = h - q
    BY <1>3, <2>5
  <2>9. e <= v /\ v <= y
    <3>1. v \in e .. (h - q)
      BY <1>1, <1>3, <2>1, <2>2, <2>3, <2>5 DEF MovesToTheEnd
    <3>. QED
      BY <2>4, <2>8, <3>1
  <2>10. /\ \A t \in Int : x <= t /\ t <= e - 1 => OffsetAt(z, t) = q
         /\ \A t \in Int : e <= t /\ t <= y => OffsetAt(z, t) = r
    <3>1. ASSUME NEW t \in Int, x <= t, t <= e - 1 PROVE OffsetAt(z, t) = q
      <4>1. e - 1 - (r - q) <= t
        BY <1>3, <2>4, <2>5, <2>7, <2>8, <3>1
      <4>. QED
        BY <1>1, <2>5, <3>1, <4>1, NearChange
    <3>2. ASSUME NEW t \in Int, e <= t, t <= y PROVE OffsetAt(z, t) = r
      <4>1. t <= e + (r - q)
        BY <1>3, <2>4, <2>5, <2>7, <2>8, <3>2
      <4>. QED
        BY <1>1, <2>5, <3>2, <4>1, NearChange
    <3>. QED
      BY <3>1, <3>2
  <2>11. x <= e - 1 /\ e <= y
    BY <1>3, <2>4, <2>5, <2>7, <2>8
  <2>12. h - (r - q) \in F /\ h + (r - q) \in F
    BY <1>1, <1>3, <2>2, <2>3, <2>6 DEF SameMinutes
  <2>13. LocalAt(z, x) \in F /\ LocalAt(z, y) \in F
    <3>1. LocalAt(z, x) = x + q /\ LocalAt(z, y) = y + r
      BY <2>10, <2>11 DEF LocalAt
    <3>2. x + q = h - (r - q) /\ y + r = h + (r - q)
      BY <1>3, <2>5, <2>8
    <3>. QED
      BY <2>12, <3>1, <3>2
  <2>14. /\ ~ (is_successor(x, n, P) /\ is_successor(u, x, P))
         /\ ~ (is_successor(y, n, P) /\ is_successor(u, y, P))
    BY <2>13 DEF FiresAt
  <2>15. CASE ~P
    <3>1. n < v /\ v < u /\ n + p < h
      BY <1>3, <1>4, <2>15 DEF is_successor
    <3>2. ~ (n < x /\ x < u) /\ ~ (n < y /\ y < u)
      BY <2>14, <2>15 DEF is_successor
    <3>3. u <= y /\ x <= n
      BY <1>1, <1>5, <2>4, <2>9, <2>11, <3>1, <3>2
    <3>4. CASE e <= n
      BY <1>1, <1>2, <1>5, <2>4, <2>10, <3>1, <3>3, <3>4
    <3>5. CASE n <= e - 1
      <4>1. p = r
        BY <1>1, <1>2, <1>5, <2>4, <2>9, <2>10, <3>1, <3>3
      <4>. QED
        BY <1>1, <1>2, <1>3, <2>5, <2>8, <3>1, <3>3, <4>1
    <3>. QED
      BY <1>1, <2>4, <3>4, <3>5
  <2>16. CASE P
    <3>1. v < n /\ u < v /\ h < n + p
      BY <1>3, <1>4, <2>16 DEF is_successor
    <3>2. ~ (x < n /\ u < x) /\ ~ (y < n /\ u < y)
      BY <2>14, <2>16 DEF is_successor
    <3>3. x <= u /\ n <= y
      BY <1>1, <1>5, <2>4, <2>9, <2>11, <3>1, <3>2
    <3>4. CASE e <= u
      BY <1>1, <1>2, <1>5, <2>4, <2>10, <3>1, <3>3, <3>4
    <3>5. CASE u <= e - 1
      <4>1. p = q
        BY <1>1, <1>2, <2>10, <3>3, <3>5
      <4>. QED
        BY <1>1, <1>2, <1>3, <2>5, <2>8, <3>1, <3>3, <4>1
    <3>. QED
      BY <1>1, <2>4, <3>4, <3>5
  <2>. QED
    BY <1>1, <2>15, <2>16
<1>. QED
  BY <1>7, <1>8

\* The nearest firing instant ahead.
Nearest(a, v) ==
    /\ v \in Int /\ is_successor(v, a.now, a.isPrev) /\ FiresAt(a.zone, a.sched, v)
    /\ \A y \in Int : is_successor(y, a.now, a.isPrev) /\ FiresAt(a.zone, a.sched, y) =>
          ~is_successor(v, y, a.isPrev)

LEMMA NearestAnswers ==
    ASSUME NEW a, RegularAsk(a), NEW v, Nearest(a, v)
    PROVE  Instant(v) \in TailAnswers(a)
<1>1. a.now \in Int /\ a.isPrev \in BOOLEAN /\ v \in Int
  BY RegularAskHas DEF Nearest
<1>2. v \in FiringAhead(a)
  BY FiringIs DEF Nearest, FiringAhead
<1>3. ASSUME NEW w \in FiringAhead(a) PROVE Gap(v, a.now) <= Gap(w, a.now)
  <2>1. w \in Int /\ is_successor(w, a.now, a.isPrev) /\ ~is_successor(v, w, a.isPrev)
    BY FiringIs DEF Nearest, FiringAhead
  <2>2. is_successor(v, a.now, a.isPrev)
    BY DEF Nearest
  <2>3. CASE a.isPrev = TRUE
    BY <1>1, <2>1, <2>2, <2>3 DEF is_successor, Gap
  <2>4. CASE a.isPrev = FALSE
    BY <1>1, <2>1, <2>2, <2>4 DEF is_successor, Gap
  <2>. QED
    BY <1>1, <2>3, <2>4
<1>. QED
  BY <1>2, <1>3 DEF TailAnswers

\* Where something was missed the offset has changed, and the second search
\* finds it.
LEMMA Missed ==
    ASSUME NEW a, RegularAsk(a), NEW f, NEW u, Reached(a, f, u), NEW w \in Int,
           is_successor(w, a.now, a.isPrev), is_successor(u, w, a.isPrev),
           FiresAt(a.zone, a.sched, w)
    PROVE  /\ OffsetAt(a.zone, u) # OffsetAt(a.zone, a.now)
           /\ \A h \in calc_next(a, a.now + OffsetAt(a.zone, u)) :
                 LET v == add_tzinfo(a.zone, h, a.now, a.isPrev).aware
                 IN  Nearest(a, v) /\ is_successor(u, v, a.isPrev)
<1>. DEFINE z == a.zone  n == a.now
<1>1. /\ LocalAt(z, w) \in a.sched.fires
      /\ ~is_successor(LocalAt(z, w), LocalAt(z, n), a.isPrev)
  BY OnTheWay
<1>2. /\ SaneZone(z) /\ n \in Int /\ a.isPrev \in BOOLEAN /\ u \in Int
      /\ LocalAt(z, w) \in Int /\ LocalAt(z, n) \in Int
      /\ OffsetAt(z, u) \in Int /\ OffsetAt(z, n) \in Int
  BY RegularAskHas, LocalIsInt DEF Reached
<1>3. CASE a.isPrev = FALSE
  <2>1. n < w /\ w < u /\ LocalAt(z, w) <= LocalAt(z, n) /\ ~a.isPrev
    BY <1>1, <1>2, <1>3 DEF is_successor
  <2>2. OffsetAt(z, u) # OffsetAt(z, n)
    <3>1. OffsetAt(z, u) < OffsetAt(z, n)
      BY <1>1, <2>1, MissedForward
    <3>. QED
      BY <1>2, <3>1
  <2>3. ASSUME NEW h \in calc_next(a, n + OffsetAt(z, u)),
               NEW v, v = add_tzinfo(z, h, n, a.isPrev).aware
        PROVE  Nearest(a, v) /\ is_successor(u, v, a.isPrev)
    <3>1. /\ v \in Int /\ n < v /\ v < u /\ LocalAt(z, v) \in a.sched.fires
          /\ \A y \in Int : n < y /\ FiresAt(z, a.sched, y) => v <= y
      BY <1>1, <2>1, <2>3, MissedAnswerForward
    <3>2. \A x, y \in Int : is_successor(x, y, a.isPrev) <=> y < x
      BY <1>3 DEF is_successor
    <3>3. \A y \in Int : v <= y => ~ (y < v)
      BY <3>1
    <3>. QED
      BY <1>2, <3>1, <3>2, <3>3 DEF Nearest, FiresAt
  <2>. QED
    BY <2>2, <2>3
<1>4. CASE a.isPrev = TRUE
  <2>1. w < n /\ u < w /\ LocalAt(z, n) <= LocalAt(z, w)
    BY <1>1, <1>2, <1>4 DEF is_successor
  <2>2. GoesBack(a)
    BY <1>4 DEF GoesBack
  <2>3. OffsetAt(z, u) # OffsetAt(z, n)
    <3>1. OffsetAt(z, n) < OffsetAt(z, u)
      BY <1>1, <2>1, <2>2, MissedBackward
    <3>. QED
      BY <1>2, <3>1
  <2>4. ASSUME NEW h \in calc_next(a, n + OffsetAt(z, u)),
               NEW v, v = add_tzinfo(z, h, n, a.isPrev).aware
        PROVE  Nearest(a, v) /\ is_successor(u, v, a.isPrev)
    <3>1. /\ v \in Int /\ v < n /\ u < v /\ LocalAt(z, v) \in a.sched.fires
          /\ \A y \in Int : y < n /\ FiresAt(z, a.sched, y) => y <= v
      BY <1>1, <2>1, <2>2, <2>4, MissedAnswerBackward
    <3>2. \A x, y \in Int : is_successor(x, y, a.isPrev) <=> x < y
      BY <1>4 DEF is_successor
    <3>3. \A y \in Int : y <= v => ~ (v < y)
      BY <3>1
    <3>4. is_successor(v, n, a.isPrev) /\ is_successor(u, v, a.isPrev)
      BY <1>2, <3>1, <3>2
    <3>5. \A y \in Int : is_successor(y, n, a.isPrev) /\ FiresAt(z, a.sched, y) =>
             ~is_successor(v, y, a.isPrev)
      BY <1>2, <3>1, <3>2, <3>3
    <3>6. FiresAt(z, a.sched, v)
      BY <3>1 DEF FiresAt
    <3>. QED
      BY <3>1, <3>4, <3>5, <3>6 DEF Nearest
  <2>. QED
    BY <2>3, <2>4
<1>. QED
  BY <1>2, <1>3, <1>4

LEMMA ReachedFires ==
    ASSUME NEW a, NEW f, NEW u, Reached(a, f, u)
    PROVE  FiresAt(a.zone, a.sched, u)
  BY DEF Reached, Candidate, FiresAt

\* Without a change of offset the first search is the whole answer.
LEMMA NearestUnshifted ==
    ASSUME NEW a, RegularAsk(a), NEW f, NEW u, Reached(a, f, u),
           OffsetAt(a.zone, u) = OffsetAt(a.zone, a.now)
    PROVE  Nearest(a, u)
<1>1. \A w \in Int : is_successor(w, a.now, a.isPrev) /\ is_successor(u, w, a.isPrev) =>
         ~FiresAt(a.zone, a.sched, w)
  BY Missed
<1>. QED
  BY <1>1, ReachedFires DEF Nearest, Reached

\* With one, the nearer of the two searches.
LEMMA NearestShifted ==
    ASSUME NEW a, RegularAsk(a), NEW f, NEW u, Reached(a, f, u),
           OffsetAt(a.zone, u) # OffsetAt(a.zone, a.now),
           NEW h \in calc_next(a, a.now + OffsetAt(a.zone, u)),
           NEW v, v = add_tzinfo(a.zone, h, a.now, a.isPrev).aware
    PROVE  Nearest(a, IF is_successor(v, a.now, a.isPrev) /\ is_successor(u, v, a.isPrev)
                      THEN v ELSE u)
<1>1. CASE \E w \in Int : /\ is_successor(w, a.now, a.isPrev) /\ is_successor(u, w, a.isPrev)
                          /\ FiresAt(a.zone, a.sched, w)
  <2>1. Nearest(a, v) /\ is_successor(u, v, a.isPrev)
    BY <1>1, Missed
  <2>. QED
    BY <2>1 DEF Nearest
<1>2. CASE \A w \in Int : is_successor(w, a.now, a.isPrev) /\ is_successor(u, w, a.isPrev) =>
              ~FiresAt(a.zone, a.sched, w)
  <2>1. ~ (is_successor(v, a.now, a.isPrev) /\ is_successor(u, v, a.isPrev))
    BY <1>2, NothingNearer
  <2>2. Nearest(a, u)
    BY <1>2, ReachedFires DEF Nearest, Reached
  <2>. QED
    BY <2>1, <2>2
<1>. QED
  BY <1>1, <1>2

(***************************************************************************)
(* Candidates.                                                             *)
(***************************************************************************)

LEMMA CandidateFirst ==
    ASSUME NEW a, RegularAsk(a), NEW f \in calc_next(a, LocalAt(a.zone, a.now))
    PROVE  Candidate(a, f)
<1>1. /\ a.sched.fires \subseteq Int /\ a.isPrev \in BOOLEAN /\ a.horizon \in Nat
      /\ LocalAt(a.zone, a.now) \in Int
  BY RegularAskHas
<1>. QED
  BY <1>1, NextIsFirst DEF Candidate

LEMMA CandidateOn ==
    ASSUME NEW a, RegularAsk(a), NEW g, Candidate(a, g), PassedBy(a, g), NEW f \in calc_next(a, g)
    PROVE  /\ Candidate(a, f) /\ is_successor(f, g, a.isPrev)
           /\ Skipped(a.zone, f) => PassedBy(a, f)
<1>. DEFINE z == a.zone  n == a.now  F == a.sched.fires
<1>1. /\ SaneZone(z) /\ F \subseteq Int /\ a.isPrev \in BOOLEAN /\ a.horizon \in Nat
      /\ n \in Int /\ LocalAt(z, n) \in Int /\ g \in F /\ g \in Int
      /\ MovesToTheEnd(z, a.sched) /\ KeepsUp(z, a.sched) /\ a.sched.hour_star \in BOOLEAN
  BY RegularAskHas DEF Candidate
<1>2. /\ f \in F /\ f \in Int /\ is_successor(f, g, a.isPrev)
      /\ \A x \in F : ~ (is_successor(x, g, a.isPrev) /\ is_successor(f, x, a.isPrev))
  BY <1>1, NextIsFirst
<1>3. /\ is_successor(g, LocalAt(z, n), a.isPrev)
      /\ \A x \in F : is_successor(x, LocalAt(z, n), a.isPrev) /\ is_successor(g, x, a.isPrev) =>
            PassedBy(a, x)
  BY DEF Candidate
<1>4. is_successor(f, LocalAt(z, n), a.isPrev)
  BY <1>1, <1>2, <1>3 DEF is_successor
<1>5. ASSUME NEW x \in F, is_successor(x, LocalAt(z, n), a.isPrev), is_successor(f, x, a.isPrev)
      PROVE  PassedBy(a, x)
  <2>1. x \in Int
    BY <1>1
  <2>2. x = g \/ is_successor(x, g, a.isPrev) \/ is_successor(g, x, a.isPrev)
    BY <1>1, <2>1 DEF is_successor
  <2>. QED
    BY <1>2, <1>3, <1>5, <2>2
<1>6. Candidate(a, f)
  BY <1>2, <1>4, <1>5 DEF Candidate
<1>7. ASSUME Skipped(z, f), ~PassedBy(a, f) PROVE FALSE
  <2>1. ~a.sched.hour_star /\ is_successor(Nudged(z, f), n, a.isPrev)
    BY <1>7 DEF PassedBy
  <2>2. ~is_successor(Nudged(z, g), n, a.isPrev)
    BY <2>1 DEF PassedBy
  <2>3. PICK e \in Moments(z) : InGap(z, e, g)
    BY <1>1, SkippedInGap DEF PassedBy
  <2>4. PICK d \in Moments(z) : InGap(z, d, f)
    BY <1>1, <1>2, <1>7, SkippedInGap
  <2>5. Nudged(z, g) = e /\ Nudged(z, f) = d
    BY <1>1, <1>2, <2>1, <2>3, <2>4 DEF MovesToTheEnd
  <2>6. /\ e \in Int /\ d \in Int /\ e - 1 \in Int /\ d - 1 \in Int
        /\ LocalAt(z, e) \in Int /\ LocalAt(z, d) \in Int
        /\ LocalAt(z, e - 1) \in Int /\ LocalAt(z, d - 1) \in Int
    BY <1>1, MomentsAre, LocalIsInt
  <2>7. /\ e <= n => LocalAt(z, e) <= LocalAt(z, n)
        /\ n <= e - 1 => LocalAt(z, n) <= LocalAt(z, e - 1)
    BY <1>1, LocalOnward
  <2>8. /\ LocalAt(z, e - 1) < g /\ g < LocalAt(z, e)
        /\ LocalAt(z, d - 1) < f /\ f < LocalAt(z, d)
    BY <2>3, <2>4 DEF InGap
  <2>9. CASE a.isPrev = FALSE
    BY <1>1, <1>3, <2>2, <2>5, <2>6, <2>7, <2>8, <2>9 DEF is_successor
  <2>10. CASE a.isPrev = TRUE
    <3>1. d < n /\ n <= e /\ g < LocalAt(z, n) /\ f < g
      BY <1>1, <1>2, <1>3, <2>1, <2>2, <2>5, <2>6, <2>10 DEF is_successor
    <3>2. d < e
      BY <1>1, <2>6, <3>1
    <3>3. PICK x \in F : ~Skipped(z, x) /\ LocalAt(z, d - 1) < x /\ x < LocalAt(z, e)
      <4>1. \E h \in F : InGap(z, e, h) \/ InFold(z, e, h)
        BY <1>1, <2>3
      <4>2. \E h \in F : h < LocalAt(z, d) \/ h <= LocalAt(z, d - 1)
        BY <1>2, <2>8
      <4>. QED
        BY <3>2, <4>1, <4>2 , <1>1 DEF KeepsUp
    <3>4. x \in Int /\ ~InGap(z, d, x) /\ ~InGap(z, e, x)
      BY <1>1, <3>3, SkippedInGap
    <3>5. f < x /\ x < g
      BY <1>2, <1>1, <2>6, <2>8, <3>3, <3>4 DEF InGap
    <3>. QED
      BY <1>2, <2>10, <3>5 DEF is_successor
  <2>. QED
    BY <1>1, <2>9, <2>10
<1>. QED
  BY <1>2, <1>6, <1>7

(***************************************************************************)
(* Errors.                                                                 *)
(***************************************************************************)

\* No two offsets of a zone differ by more than the slack.
LEMMA SlackBounds ==
    ASSUME NEW z, SaneZone(z)
    PROVE  Slack(z) \in Int /\ \A o, p \in Offsets(z) : o - p <= Slack(z)
<1>1. PICK b \in Nat : \A o \in Offsets(z) : o \in Int /\ -b <= o /\ o <= b
  BY OffsetsBounded
<1>2. PICK S : S = {Gap(c[1], c[2]) : c \in Offsets(z) \X Offsets(z)}
  OBVIOUS
<1>3. S \in SUBSET (0 .. (2 * b))
  <2>1. ASSUME NEW x \in S PROVE x \in 0 .. (2 * b)
    <3>1. \E c \in Offsets(z) \X Offsets(z) : x = Gap(c[1], c[2])
      BY <1>2
    <3>3. PICK o \in Offsets(z), p \in Offsets(z) : x = Gap(o, p)
      BY <3>1
    <3>2. o \in Int /\ -b <= o /\ o <= b /\ p \in Int /\ -b <= p /\ p <= b
      BY <1>1
    <3>. QED
      BY <3>2, <3>3 DEF Gap
  <2>. QED
    BY <2>1
<1>4. S # {}
  <2>1. <<z.first, z.first>> \in Offsets(z) \X Offsets(z)
    BY DEF Offsets
  <2>2. \E c : c \in Offsets(z) \X Offsets(z)
    BY <2>1
  <2>. QED
    BY <1>2, <2>2
<1>5. Max(S) \in S /\ \A y \in S : y <= Max(S)
  <2>1. 0 \in Int /\ 2 * b \in Int
    OBVIOUS
  <2>. QED
    BY <1>3, <1>4, <2>1, MinMax
<1>6. Slack(z) \in Int /\ \A y \in S : y <= Slack(z)
  <2>1. Slack(z) = Max(S)
    BY <1>2 DEF Slack
  <2>2. Max(S) \in Int
    <3>1. \A y \in 0 .. (2 * b) : y \in Int
      OBVIOUS
    <3>. QED
      BY <1>3, <1>5, <3>1
  <2>. QED
    BY <1>5, <2>1, <2>2
<1>7. ASSUME NEW o \in Offsets(z), NEW p \in Offsets(z) PROVE o - p <= Slack(z)
  <2>1. o \in Int /\ p \in Int /\ Gap(o, p) <= Slack(z)
    <3>1. <<o, p>> \in Offsets(z) \X Offsets(z)
      OBVIOUS
    <3>2. Gap(o, p) \in S
      BY <1>2, <3>1
    <3>. QED
      BY <1>1, <1>6, <3>2
  <2>2. o - p <= Gap(o, p) /\ Gap(o, p) \in Int
    BY <2>1 DEF Gap
  <2>. QED
    BY <1>6, <2>1, <2>2
<1>. QED
  BY <1>6, <1>7

\* The fire that lies ahead for a search that goes on, seen from any local time
\* as far from the cursor's as an offset is from its.
LEMMA GoesOnTo ==
    ASSUME NEW a, RegularAsk(a), GoesOn(a)
    PROVE  \E h \in a.sched.fires :
              /\ h \in Int /\ ~Skipped(a.zone, h)
              /\ is_successor(h, LocalAt(a.zone, a.now), a.isPrev)
              /\ \A v \in Int : Gap(h, a.now + OffsetAt(a.zone, v)) <= a.horizon
<1>. DEFINE z == a.zone  n == a.now
<1>1. /\ SaneZone(z) /\ n \in Int /\ a.horizon \in Nat /\ a.isPrev \in BOOLEAN
      /\ a.sched.fires \subseteq Int
  BY RegularAskHas
<1>2. PICK w \in InReach(a) :
         /\ LocalAt(z, w) \in a.sched.fires
         /\ is_successor(LocalAt(z, w), LocalAt(z, n), a.isPrev)
  BY DEF GoesOn
<1>3. w \in Int /\ Gap(w, n) + Slack(z) <= a.horizon
  BY <1>2, FiringIs DEF InReach, FiringAhead
<1>4. ~Skipped(z, LocalAt(z, w)) /\ LocalAt(z, w) \in Int
  BY <1>1, <1>3, HadIsNotSkipped, LocalIsInt
<1>5. ASSUME NEW v \in Int PROVE Gap(LocalAt(z, w), n + OffsetAt(z, v)) <= a.horizon
  <2>1. PICK o \in Int, p \in Int, s \in Int :
           o = OffsetAt(z, w) /\ p = OffsetAt(z, v) /\ s = Slack(z) /\ o - p <= s /\ p - o <= s
    <3>1. /\ OffsetAt(z, w) \in Int /\ OffsetAt(z, w) \in Offsets(z)
          /\ OffsetAt(z, v) \in Int /\ OffsetAt(z, v) \in Offsets(z)
      BY <1>1, <1>3, LocalIsInt
    <3>2. Slack(z) \in Int /\ \A o, p \in Offsets(z) : o - p <= Slack(z)
      BY <1>1, SlackBounds
    <3>. HIDE DEF z
    <3>. QED
      BY <3>1, <3>2
  <2>2. LocalAt(z, w) = w + o
    BY <2>1 DEF LocalAt
  <2>3. Gap(w + o, n + p) <= Gap(w, n) + s
    BY <1>1, <1>3, <2>1 DEF Gap
  <2>4. Gap(w + o, n + p) \in Int /\ Gap(w, n) \in Int
    BY <1>1, <1>3, <2>1 DEF Gap
  <2>. QED
    BY <1>1, <1>3, <2>1, <2>2, <2>3, <2>4
<1>. QED
  BY <1>2, <1>4, <1>5

\* The fire ahead lies beyond what a search has passed over, or at the candidate.
LEMMA FirstFinds ==
    ASSUME NEW a, RegularAsk(a), GoesOn(a)
    PROVE  calc_next(a, LocalAt(a.zone, a.now)) # {}
<1>1. /\ a.sched.fires \subseteq Int /\ a.isPrev \in BOOLEAN /\ a.horizon \in Nat
      /\ LocalAt(a.zone, a.now) \in Int /\ a.now \in Int
  BY RegularAskHas
<1>2. PICK h \in a.sched.fires :
         /\ is_successor(h, LocalAt(a.zone, a.now), a.isPrev)
         /\ \A v \in Int : Gap(h, a.now + OffsetAt(a.zone, v)) <= a.horizon
  BY GoesOnTo
<1>3. Gap(h, LocalAt(a.zone, a.now)) <= a.horizon
  BY <1>1, <1>2 DEF LocalAt
<1>. QED
  BY <1>1, <1>2, <1>3, NextExists

LEMMA RetryFinds ==
    ASSUME NEW a, RegularAsk(a), GoesOn(a), NEW g, Candidate(a, g), PassedBy(a, g)
    PROVE  /\ calc_next(a, g) # {}
           /\ \E h \in Int : is_successor(h, g, a.isPrev) /\ Gap(h, LocalAt(a.zone, a.now)) <= a.horizon
<1>1. /\ a.sched.fires \subseteq Int /\ a.isPrev \in BOOLEAN /\ a.horizon \in Nat
      /\ LocalAt(a.zone, a.now) \in Int /\ a.now \in Int /\ g \in Int
  BY RegularAskHas DEF Candidate
<1>2. PICK h \in a.sched.fires :
         /\ h \in Int /\ ~Skipped(a.zone, h)
         /\ is_successor(h, LocalAt(a.zone, a.now), a.isPrev)
         /\ \A v \in Int : Gap(h, a.now + OffsetAt(a.zone, v)) <= a.horizon
  BY GoesOnTo
<1>3. PICK l \in Int : l = LocalAt(a.zone, a.now) /\ Gap(h, l) <= a.horizon
  BY <1>1, <1>2 DEF LocalAt
<1>4. h # g /\ ~is_successor(g, h, a.isPrev) /\ is_successor(g, l, a.isPrev)
  BY <1>2, <1>3 DEF Candidate, PassedBy
<1>5. is_successor(h, g, a.isPrev) /\ Gap(h, g) <= a.horizon
  <2>1. CASE a.isPrev = TRUE
    BY <1>1, <1>2, <1>3, <1>4, <2>1 DEF is_successor, Gap
  <2>2. CASE a.isPrev = FALSE
    BY <1>1, <1>2, <1>3, <1>4, <2>2 DEF is_successor, Gap
  <2>. QED
    BY <1>1, <2>1, <2>2
<1>6. calc_next(a, g) # {}
  BY <1>1, <1>5, NextExists
<1>. QED
  BY <1>2, <1>3, <1>5, <1>6

LEMMA ShiftFinds ==
    ASSUME NEW a, RegularAsk(a), GoesOn(a), NEW f, NEW u, Reached(a, f, u)
    PROVE  calc_next(a, a.now + OffsetAt(a.zone, u)) # {}
<1>. DEFINE z == a.zone  n == a.now
<1>1. /\ a.sched.fires \subseteq Int /\ a.isPrev \in BOOLEAN /\ a.horizon \in Nat /\ SaneZone(z)
      /\ LocalAt(z, n) \in Int /\ n \in Int /\ f \in Int /\ u \in Int
  BY RegularAskHas DEF Candidate, Reached
<1>2. PICK h \in a.sched.fires :
         /\ h \in Int /\ ~Skipped(z, h)
         /\ is_successor(h, LocalAt(z, n), a.isPrev)
         /\ \A v \in Int : Gap(h, n + OffsetAt(z, v)) <= a.horizon
  BY GoesOnTo
<1>3. PICK p \in Int : p = OffsetAt(z, u)
  BY <1>1, LocalIsInt
<1>4. ~is_successor(f, h, a.isPrev)
  BY <1>2 DEF Reached, Candidate, PassedBy
<1>5. is_successor(h, n + p, a.isPrev)
  <2>1. is_successor(u, n, a.isPrev)
    BY DEF Reached
  <2>2. LocalAt(z, u) = u + p
    BY <1>3 DEF LocalAt
  <2>3. CASE LocalAt(z, u) = f
    <3>1. CASE a.isPrev = TRUE
      BY <1>1, <1>2, <1>3, <1>4, <2>1, <2>2, <2>3, <3>1 DEF is_successor
    <3>2. CASE a.isPrev = FALSE
      BY <1>1, <1>2, <1>3, <1>4, <2>1, <2>2, <2>3, <3>2 DEF is_successor
    <3>. QED
      BY <1>1, <3>1, <3>2
  <2>4. CASE u \in Moments(z) /\ InGap(z, u, f)
    <3>1. ~InGap(z, u, h)
      BY <1>1, <1>2, <2>4, SkippedInGap
    <3>2. u - 1 \in Int /\ LocalAt(z, u - 1) \in Int
      BY <1>1, LocalIsInt
    <3>3. CASE a.isPrev = TRUE
      BY <1>1, <1>2, <1>3, <1>4, <2>1, <2>2, <2>4, <3>1, <3>2, <3>3 DEF is_successor, InGap
    <3>4. CASE a.isPrev = FALSE
      BY <1>1, <1>2, <1>3, <1>4, <2>1, <2>2, <2>4, <3>1, <3>2, <3>4 DEF is_successor, InGap
    <3>. QED
      BY <1>1, <3>3, <3>4
  <2>. QED
    BY <2>3, <2>4 DEF Reached
<1>6. n + p \in Int /\ Gap(h, n + p) <= a.horizon
  BY <1>1, <1>2, <1>3
<1>. QED
  BY <1>1, <1>2, <1>3, <1>5, <1>6, NextExists

(***************************************************************************)
(* Retries.                                                                *)
(***************************************************************************)

\* The skipped fires a search has retried.
Retried(a, f) ==
    {g \in a.sched.fires : /\ Skipped(a.zone, g)
                           /\ is_successor(g, LocalAt(a.zone, a.now), a.isPrev)
                           /\ ~is_successor(g, f, a.isPrev)}

LEMMA RetriedFinite ==
    ASSUME NEW a, RegularAsk(a), NEW f \in Int
    PROVE  IsFiniteSet(Retried(a, f)) /\ Cardinality(Retried(a, f)) \in Nat
<1>1. a.sched.fires \subseteq Int /\ a.isPrev \in BOOLEAN
  BY RegularAskHas
<1>2. PICK l \in Int : l = LocalAt(a.zone, a.now)
  BY RegularAskHas
<1>3. ASSUME NEW g \in Retried(a, f) PROVE g \in l .. f \/ g \in f .. l
  <2>1. g \in Int /\ is_successor(g, l, a.isPrev) /\ ~is_successor(g, f, a.isPrev)
    BY <1>1, <1>2 DEF Retried
  <2>. QED
    BY <1>1, <1>2, <2>1 DEF is_successor
<1>4. Retried(a, f) \subseteq (l .. f) \cup (f .. l)
  BY <1>3
<1>5. IsFiniteSet((l .. f) \cup (f .. l))
  BY <1>2, FS_Interval, FS_Union
<1>6. IsFiniteSet(Retried(a, f))
  BY <1>4, <1>5, FS_Subset
<1>. QED
  BY <1>6, FS_CardinalityType

LEMMA RetriedGrows ==
    ASSUME NEW a, RegularAsk(a), NEW f \in a.sched.fires, Skipped(a.zone, f),
           is_successor(f, LocalAt(a.zone, a.now), a.isPrev)
    PROVE  /\ Cardinality(Retried(a, f)) >= 1
           /\ \A g \in Int : is_successor(f, g, a.isPrev) =>
                 Cardinality(Retried(a, f)) >= Cardinality(Retried(a, g)) + 1
<1>1. a.sched.fires \subseteq Int /\ a.isPrev \in BOOLEAN /\ f \in Int
  BY RegularAskHas
<1>2. f \in Retried(a, f)
  BY <1>1 DEF Retried, is_successor
<1>3. Cardinality(Retried(a, f)) >= 1
  <2>1. Cardinality(Retried(a, f)) # 0
    BY <1>1, <1>2, RetriedFinite, FS_EmptySet
  <2>. QED
    BY <1>1, <2>1, RetriedFinite
<1>4. ASSUME NEW g \in Int, is_successor(f, g, a.isPrev)
      PROVE  Cardinality(Retried(a, f)) >= Cardinality(Retried(a, g)) + 1
  <2>1. PICK R, S : R = Retried(a, g) /\ S = Retried(a, f)
    OBVIOUS
  <2>2. f \notin R
    BY <1>4, <2>1 DEF Retried
  <2>3. ASSUME NEW x \in R PROVE x \in S
    <3>1. x \in Int /\ ~is_successor(x, g, a.isPrev)
      BY <1>1, <2>1, <2>3 DEF Retried
    <3>2. ~is_successor(x, f, a.isPrev)
      BY <1>1, <1>4, <3>1 DEF is_successor
    <3>. QED
      BY <2>1, <2>3, <3>2 DEF Retried
  <2>4. R \cup {f} \subseteq S
    BY <1>2, <2>1, <2>3
  <2>5. /\ IsFiniteSet(R) /\ Cardinality(R) \in Nat /\ IsFiniteSet(S) /\ Cardinality(S) \in Nat
    BY <1>1, <1>4, <2>1, RetriedFinite
  <2>6. IsFiniteSet(R \cup {f}) /\ Cardinality(R \cup {f}) = Cardinality(R) + 1
    BY <2>2, <2>5, FS_AddElement
  <2>7. Cardinality(R \cup {f}) <= Cardinality(S)
    BY <2>4, <2>5, FS_Subset
  <2>. QED
    BY <2>1, <2>5, <2>6, <2>7
<1>. QED
  BY <1>3, <1>4

\* A search that retries to no end is crowded.
LEMMA RetriesCrowd ==
    ASSUME NEW a, RegularAsk(a), GoesOn(a), NEW g, Candidate(a, g), PassedBy(a, g),
           Cardinality(Retried(a, g)) > GuardLimit
    PROVE  Crowded(a)
<1>1. /\ a.sched.fires \subseteq Int /\ a.isPrev \in BOOLEAN /\ a.horizon \in Nat /\ g \in Int
  BY RegularAskHas DEF Candidate
<1>2. PICK l \in Int : l = LocalAt(a.zone, a.now)
  BY RegularAskHas
<1>3. PICK h \in Int : is_successor(h, g, a.isPrev) /\ Gap(h, l) <= a.horizon
  BY <1>2, RetryFinds
<1>4. PICK S : S = {f \in a.sched.fires : Skipped(a.zone, f) /\ Gap(f, l) <= a.horizon}
  OBVIOUS
<1>5. ASSUME NEW x \in Retried(a, g) PROVE x \in S
  <2>1. /\ x \in a.sched.fires /\ x \in Int /\ Skipped(a.zone, x)
        /\ is_successor(x, l, a.isPrev) /\ ~is_successor(x, g, a.isPrev)
    BY <1>1, <1>2 DEF Retried
  <2>2. Gap(x, l) <= a.horizon
    <3>1. CASE a.isPrev = TRUE
      BY <1>1, <1>2, <1>3, <2>1, <3>1 DEF is_successor, Gap
    <3>2. CASE a.isPrev = FALSE
      BY <1>1, <1>2, <1>3, <2>1, <3>2 DEF is_successor, Gap
    <3>. QED
      BY <1>1, <3>1, <3>2
  <2>. QED
    BY <1>4, <2>1, <2>2
<1>6. IsFiniteSet(S)
  <2>1. S \subseteq (l - a.horizon) .. (l + a.horizon)
    <3>1. ASSUME NEW x \in S PROVE x \in (l - a.horizon) .. (l + a.horizon)
      <4>1. x \in Int /\ Gap(x, l) <= a.horizon
        BY <1>1, <1>4
      <4>. QED
        BY <1>1, <1>2, <4>1 DEF Gap
    <3>. QED
      BY <3>1
  <2>2. l - a.horizon \in Int /\ l + a.horizon \in Int
    BY <1>1, <1>2
  <2>. QED
    BY <2>1, <2>2, FS_Interval, FS_Subset
<1>7. Cardinality(Retried(a, g)) <= Cardinality(S)
  BY <1>5, <1>6, FS_Subset
<1>8. Cardinality(S) > GuardLimit
  BY <1>1, <1>6, <1>7, TailAssumption, RetriedFinite, FS_CardinalityType
<1>. QED
  BY <1>2, <1>4, <1>8 DEF Crowded

\* Where a search stands: at a candidate, past enough skipped fires when it
\* retries, with the instant of the candidate when it shifts, with a right answer
\* when it is done.
TailPath ==
    /\ pc = "first" => guard = 0
    /\ pc \in {"retry", "shift"} => Candidate(ask, unaware)
    /\ pc = "retry" => PassedBy(ask, unaware) /\ Cardinality(Retried(ask, unaware)) > guard
    /\ pc = "shift" => /\ ~PassedBy(ask, unaware)
                       /\ localized = add_tzinfo(ask.zone, unaware, ask.now, ask.isPrev)
    /\ reply # NoReply => reply \in TailAnswers(ask)

\* A search that returns a right answer.
LEMMA PathReturn ==
    ASSUME NEW r \in TailAnswers(ask), Return(r)
    PROVE  TailPath'
  BY DEF Return, TailPath

LEMMA FailureAnswers ==
    ASSUME NEW a, NEW e \in CalcErrors, ~GoesOn(a) \/ Crowded(a)
    PROVE  Failure(e) \in TailAnswers(a)
  BY DEF TailAnswers

\* Without a time zone an instant fires when it is a fire.
LEMMA NaiveNearest ==
    ASSUME NEW a, RegularAsk(a), a.zone = NoTz, NEW f \in calc_next(a, LocalAt(a.zone, a.now))
    PROVE  Nearest(a, f)
<1>1. /\ a.sched.fires \subseteq Int /\ a.isPrev \in BOOLEAN /\ a.horizon \in Nat
      /\ a.now \in Int
  BY RegularAskHas
<1>2. \A u \in Int : LocalAt(a.zone, u) = u
  BY DEF LocalAt, OffsetAt, NoTz
<1>3. LocalAt(a.zone, a.now) = a.now
  BY <1>1, <1>2
<1>4. /\ f \in a.sched.fires /\ f \in Int /\ is_successor(f, a.now, a.isPrev)
      /\ \A g \in a.sched.fires : ~ (is_successor(g, a.now, a.isPrev) /\ is_successor(f, g, a.isPrev))
  BY <1>1, <1>3, NextIsFirst
<1>5. Moments(a.zone) = {}
  BY DEF Moments, NoTz
<1>6. \A u \in Int : FiresAt(a.zone, a.sched, u) <=> u \in a.sched.fires
  BY <1>2, <1>5 DEF FiresAt
<1>. QED
  BY <1>4, <1>6 DEF Nearest

LEMMA PathStep ==
    ASSUME TailInv, TailPath, RegularAsk(ask), TailNext
    PROVE  TailPath'
<1>1. /\ SaneZone(ask.zone) /\ ask.now \in Int /\ ask.isPrev \in BOOLEAN /\ ask.horizon \in Nat
      /\ unaware \in Int /\ ask.sched.fires \subseteq Int
  BY RegularAskHas DEF TailInv
<1>2. PICK l \in Int : l = now_naive /\ l = LocalAt(ask.zone, ask.now)
  BY RegularAskHas DEF now_naive
<1>3. guard \in Nat /\ GuardLimit \in Nat
  BY TailAssumption DEF TailInv
\* The instant that a search in its last stage has reached.
<1>4. ASSUME pc = "shift"
      PROVE  \E u \in Int :
                /\ u = localized.aware /\ Reached(ask, unaware, u)
                /\ SameOffset <=> OffsetAt(ask.zone, u) = OffsetAt(ask.zone, ask.now)
                /\ SearchFrom = ask.now + OffsetAt(ask.zone, u)
  <2>1. PICK u : u = localized.aware
    OBVIOUS
  <2>2. Reached(ask, unaware, u)
    BY <1>4, <2>1, ReachedIs DEF TailPath
  <2>3. u \in Int
    BY <2>2 DEF Reached
  <2>4. PICK o \in Int, p \in Int :
           o = OffsetAt(ask.zone, ask.now) /\ p = OffsetAt(ask.zone, u)
    BY <1>1, <2>3, LocalIsInt
  <2>5. SameOffset <=> p - o = 0
    BY <2>1, <2>4 DEF SameOffset, timezone_delta
  <2>6. SearchFrom = (ask.now + o) + (p - o)
    BY <1>4, <2>1, <2>4 DEF SearchFrom, now_naive, LocalAt, timezone_delta
  <2>7. SearchFrom = ask.now + p
    BY <1>1, <2>4, <2>6
  <2>. QED
    BY <2>1, <2>2, <2>3, <2>4, <2>5, <2>7
<1>5. CASE SearchFails
  <2>1. PICK e \in CalcErrors : Return(Failure(e))
    BY <1>5 DEF SearchFails
  <2>2. pc \in {"first", "retry", "shift"} /\ calc_next(ask, SearchFrom) = {}
    BY <1>5 DEF SearchFails
  <2>3. ASSUME GoesOn(ask) PROVE FALSE
    <3>1. CASE pc = "first"
      <4>1. SearchFrom = LocalAt(ask.zone, ask.now)
        BY <3>1 DEF SearchFrom, now_naive
      <4>. QED
        BY <2>2, <2>3, <4>1, FirstFinds
    <3>2. CASE pc = "retry"
      <4>1. SearchFrom = unaware
        BY <3>2 DEF SearchFrom
      <4>. QED
        BY <2>2, <2>3, <3>2, <4>1, RetryFinds DEF TailPath
    <3>3. CASE pc = "shift"
      BY <1>4, <2>2, <2>3, <3>3, ShiftFinds
    <3>. QED
      BY <2>2, <3>1, <3>2, <3>3
  <2>4. Failure(e) \in TailAnswers(ask)
    BY <2>3, FailureAnswers
  <2>. QED
    BY <2>1, <2>4, PathReturn
<1>6. CASE FirstNaive
  <2>1. PICK f \in calc_next(ask, SearchFrom) : Return(Instant(f))
    BY <1>6 DEF FirstNaive
  <2>2. SearchFrom = LocalAt(ask.zone, ask.now) /\ ask.zone = NoTz
    BY <1>6 DEF FirstNaive, SearchFrom, now_naive
  <2>3. Instant(f) \in TailAnswers(ask)
    BY <2>1, <2>2, NaiveNearest, NearestAnswers
  <2>. QED
    BY <2>1, <2>3, PathReturn
<1>7. CASE First
  <2>1. PICK f \in calc_next(ask, SearchFrom) : Locate(f)
    BY <1>7 DEF First
  <2>2. SearchFrom = LocalAt(ask.zone, ask.now)
    BY <1>7 DEF First, SearchFrom, now_naive
  <2>3. Candidate(ask, f) /\ f \in Int /\ f \in ask.sched.fires
        /\ is_successor(f, LocalAt(ask.zone, ask.now), ask.isPrev)
    BY <1>1, <2>1, <2>2, CandidateFirst DEF Candidate
  <2>4. /\ unaware' = f /\ localized' = add_tzinfo(ask.zone, f, ask.now, ask.isPrev)
        /\ ask' = ask /\ guard' = guard /\ reply' = reply /\ guard = 0
        /\ pc' = IF Unusable(localized') THEN "retry" ELSE "shift"
    BY <1>7, <2>1 DEF First, Locate, TailPath
  <2>5. Unusable(localized') <=> PassedBy(ask, f)
    BY <2>4 DEF Unusable, PassedBy, add_tzinfo, Skipped
  <2>6. PassedBy(ask, f) => Cardinality(Retried(ask, f)) > guard
    <3>1. ASSUME PassedBy(ask, f) PROVE Cardinality(Retried(ask, f)) >= 1
      BY <2>3, <3>1, RetriedGrows DEF PassedBy
    <3>. QED
      BY <1>1, <2>3, <2>4, <3>1, RetriedFinite
  <2>7. reply = NoReply
    BY <1>7 DEF First, TailInv
  <2>. QED
    BY <2>3, <2>4, <2>5, <2>6, <2>7 DEF TailPath
<1>8. CASE Retry
  <2>1. PICK f \in calc_next(ask, SearchFrom) : Locate(f)
    BY <1>8 DEF Retry
  <2>2. SearchFrom = unaware /\ Candidate(ask, unaware) /\ PassedBy(ask, unaware)
        /\ Cardinality(Retried(ask, unaware)) > guard
    BY <1>8 DEF Retry, SearchFrom, TailPath
  <2>3. /\ Candidate(ask, f) /\ is_successor(f, unaware, ask.isPrev)
        /\ Skipped(ask.zone, f) => PassedBy(ask, f)
    BY <2>1, <2>2, CandidateOn
  <2>4. /\ f \in ask.sched.fires /\ f \in Int
        /\ is_successor(f, LocalAt(ask.zone, ask.now), ask.isPrev)
    BY <1>1, <2>3 DEF Candidate
  <2>5. /\ unaware' = f /\ localized' = add_tzinfo(ask.zone, f, ask.now, ask.isPrev)
        /\ ask' = ask /\ guard' = guard + 1 /\ reply' = reply /\ reply = NoReply
        /\ pc' = IF localized'.exists THEN "shift" ELSE "retry"
    BY <1>8, <2>1 DEF Retry, Locate, TailInv
  <2>6. localized'.exists <=> ~Skipped(ask.zone, f)
    BY <2>5 DEF add_tzinfo, Skipped
  <2>7. localized'.exists => ~PassedBy(ask, f)
    BY <2>6 DEF PassedBy
  <2>8. ~localized'.exists => PassedBy(ask, f) /\ Cardinality(Retried(ask, f)) > guard + 1
    <3>1. ASSUME Skipped(ask.zone, f)
          PROVE  Cardinality(Retried(ask, f)) >= Cardinality(Retried(ask, unaware)) + 1
      BY <1>1, <2>3, <2>4, <3>1, RetriedGrows
    <3>2. Cardinality(Retried(ask, f)) \in Nat /\ Cardinality(Retried(ask, unaware)) \in Nat
      BY <1>1, <2>4, RetriedFinite
    <3>. QED
      BY <1>3, <2>2, <2>3, <2>6, <3>1, <3>2
  <2>. QED
    BY <2>3, <2>5, <2>7, <2>8 DEF TailPath
<1>9. CASE GuardStops
  <2>1. Return(Failure("bad_date")) /\ "bad_date" \in CalcErrors
    BY <1>9 DEF GuardStops, CalcErrors
  <2>2. /\ Candidate(ask, unaware) /\ PassedBy(ask, unaware)
        /\ Cardinality(Retried(ask, unaware)) > GuardLimit
    BY <1>9 DEF GuardStops, TailPath
  <2>3. ~GoesOn(ask) \/ Crowded(ask)
    BY <2>2, RetriesCrowd
  <2>. QED
    BY <2>1, <2>3, FailureAnswers, PathReturn
<1>10. CASE ShiftNone
  <2>1. pc = "shift" /\ SameOffset /\ Return(Instant(localized.aware))
    BY <1>10 DEF ShiftNone
  <2>2. PICK u \in Int :
           /\ u = localized.aware /\ Reached(ask, unaware, u)
           /\ OffsetAt(ask.zone, u) = OffsetAt(ask.zone, ask.now)
    BY <1>4, <2>1
  <2>3. Instant(u) \in TailAnswers(ask)
    BY <2>2, NearestUnshifted, NearestAnswers
  <2>. QED
    BY <2>1, <2>2, <2>3, PathReturn
<1>11. CASE Shift
  <2>1. pc = "shift" /\ ~SameOffset
    BY <1>11 DEF Shift
  <2>2. PICK u \in Int :
           /\ u = localized.aware /\ Reached(ask, unaware, u)
           /\ OffsetAt(ask.zone, u) # OffsetAt(ask.zone, ask.now)
           /\ SearchFrom = ask.now + OffsetAt(ask.zone, u)
    BY <1>4, <2>1
  <2>3. PICK h \in calc_next(ask, SearchFrom) :
           Return(Instant(NearerOf(localized.aware,
                                   add_tzinfo(ask.zone, h, ask.now, ask.isPrev).aware)))
    BY <1>11 DEF Shift
  <2>4. PICK v : v = add_tzinfo(ask.zone, h, ask.now, ask.isPrev).aware
    OBVIOUS
  <2>5. Nearest(ask, NearerOf(u, v))
    <3>1. h \in calc_next(ask, ask.now + OffsetAt(ask.zone, u))
      BY <2>2, <2>3
    <3>. QED
      BY <2>2, <2>4, <3>1, NearestShifted DEF NearerOf
  <2>6. Instant(NearerOf(u, v)) \in TailAnswers(ask)
    BY <2>5, NearestAnswers
  <2>. QED
    BY <2>2, <2>3, <2>4, <2>6, PathReturn
<1>. QED
  BY <1>5, <1>6, <1>7, <1>8, <1>9, <1>10, <1>11 DEF TailNext

LEMMA AsksAreRegular ==
    ASSUME AllRegular, ask \in Asks
    PROVE  RegularAsk(ask)
<1>1. SaneAsk(ask)
  BY ZonesAreSane, TailAssumption DEF Asks, SaneAsk
<1>. QED
  BY <1>1, TailAssumption DEF Asks, AllRegular, RegularAsk

\* Through gaps and repeated hours calc_with_tz answers each request with the
\* nearest firing instant strictly ahead, and with an error only when no fire is
\* ahead within the horizon or too many are skipped: for any zones and schedules
\* that are regular, cursors and horizons.
THEOREM AnswersNextInstant ==
    ASSUME AllRegular
    PROVE  TailSpec => IsNextInstant
<1>1. ASSUME TailInit PROVE TailPath /\ Promise!Init
  BY <1>1 DEF TailInit, TailPath, Promise!Init
<1>2. ASSUME TailTyped, TailPath, [TailNext]_tailVars PROVE TailPath'
  <2>1. CASE TailNext
    BY <1>2, <2>1, AsksAreRegular, PathStep DEF TailTyped
  <2>2. CASE UNCHANGED tailVars
    BY <1>2, <2>2 DEF TailPath, tailVars
  <2>. QED
    BY <1>2, <2>1, <2>2
<1>3. ASSUME TailTyped, TailPath, TailPath', [TailNext]_tailVars
      PROVE  [Promise!Reply]_<<ask, reply>>
  <2>1. CASE TailNext
    <3>1. ask' = ask /\ pc # "done" /\ reply = NoReply
      BY <1>3, <2>1, TailStep
         DEF TailTyped, TailInv, TailNext, SearchFails, FirstNaive, First, Retry, GuardStops,
             ShiftNone, Shift
    <3>2. reply' = reply \/ reply' \in TailAnswers(ask)
      BY <1>3, <3>1 DEF TailPath
    <3>. QED
      BY <3>1, <3>2 DEF Promise!Reply
  <2>2. CASE UNCHANGED tailVars
    BY <2>2 DEF tailVars
  <2>. QED
    BY <1>3, <2>1, <2>2
<1>. QED
  BY <1>1, <1>2, <1>3, TailInvariance, PTL
     DEF TailSpec, IsNextInstant, Promise!Spec, Promise!vars

=============================================================================
