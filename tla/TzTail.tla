--------------------------------- MODULE TzTail ---------------------------------
(***************************************************************************)
(* `Croniter::calc_with_tz` of src/lib.rs: from a search in local time to  *)
(* an instant.                                                             *)
(*                                                                         *)
(* The code searches from the local time of the cursor, gives the fire its *)
(* time zone, goes on searching when the fire falls into a gap it cannot   *)
(* use, and, when the offset has changed on the way, searches once more    *)
(* from the local time shifted by the change.  The date search is taken by *)
(* its promise, the nearest fire or an error; that calc_next keeps it is   *)
(* checked in CalcNext.                                                    *)
(***************************************************************************)
EXTENDS TimeZone

CONSTANTS
    Zones,        \* time zones, NoTz among them or not
    Schedules,    \* [fires, hour_star]: the local times an expression names, and
                  \* whether its hour field has a "*"
    Nows,         \* instants searched from
    Horizons,     \* how far a search looks, for max_years_between_matches
    GuardLimit    \* retries in a gap: 1000

ASSUME TailAssumption ==
    /\ \A s \in Schedules : s.fires \subseteq Int /\ s.hour_star \in BOOLEAN
    /\ Nows \subseteq Int
    /\ Horizons \subseteq Nat
    /\ GuardLimit \in Nat

\* tz data: one offset per change, and changes farther apart than the offsets
\* of a zone differ, so that a local time passed back over comes again.
ASSUME ZoneAssumption ==
    \A z \in Zones :
        /\ z.first \in Int /\ z.changes \subseteq Int \X Int
        /\ \A c, d \in z.changes :
              /\ c[1] = d[1] => c = d
              /\ c[1] < d[1] => \A o, p \in Offsets(z) : o - p < d[1] - c[1]

VARIABLES
    ask,         \* zone, schedule, bound, instant and direction: the object's fields
    pc,          \* "first", "retry", "shift", then "done"
    unaware,     \* the candidate, a local time
    localized,   \* the candidate with its time zone
    guard,       \* retries so far
    reply        \* what calc_with_tz returns

tailVars == <<ask, pc, unaware, localized, guard, reply>>

Asks == [zone : Zones, sched : Schedules, horizon : Horizons,
         now : Nows, isPrev : BOOLEAN]

NoReply     == [kind |-> "none", at |-> {}]
Instant(u)  == [kind |-> "fire", at |-> {u}]
Failure(e)  == [kind |-> e, at |-> {}]
CalcErrors  == {"bad_date", "bad_type_range"}

Gap(a, b) == IF a <= b THEN b - a ELSE a - b

\* The nearest fire strictly beyond a local time, a set so that there may be
\* none.  What CalcSearch and CalcNext are checked to answer.
calc_next(a, t) ==
    LET ahead == {f \in a.sched.fires : is_successor(f, t, a.isPrev) /\ Gap(f, t) <= a.horizon}
    IN  {f \in ahead : \A g \in ahead : Gap(f, t) <= Gap(g, t)}

now_naive == LocalAt(ask.zone, ask.now)

TailInit ==
    /\ ask \in Asks
    /\ pc = "first"
    /\ unaware = now_naive
    /\ localized = [aware |-> ask.now, exists |-> TRUE]
    /\ guard = 0
    /\ reply = NoReply

Return(r) ==
    /\ pc' = "done"
    /\ reply' = r
    /\ UNCHANGED <<ask, unaware, localized, guard>>

\* The local time the next search starts from.
SearchFrom ==
    CASE pc = "first" -> now_naive
      [] pc = "retry" -> unaware
      [] pc = "shift" -> now_naive + timezone_delta(ask.zone, ask.now, localized.aware)

SameOffset == timezone_delta(ask.zone, ask.now, localized.aware) = 0

\* calc_next found nothing: the error is returned, whichever search it was.
SearchFails ==
    /\ pc \in {"first", "retry", "shift"}
    /\ pc = "shift" => ~SameOffset
    /\ calc_next(ask, SearchFrom) = {}
    /\ \E error \in CalcErrors : Return(Failure(error))

\* Without a time zone the local time is the answer.
FirstNaive ==
    /\ pc = "first" /\ ask.zone = NoTz
    /\ \E f \in calc_next(ask, SearchFrom) : Return(Instant(f))

Locate(f) ==
    /\ unaware' = f
    /\ localized' = add_tzinfo(ask.zone, f, ask.now, ask.isPrev)

\* Mutant of Unusable: only a "*" hour field rejects the moved time.
Unusable_StarOnly(l) == ~l.exists /\ ask.sched.hour_star

\* A skipped local time is moved past the gap, unless that is not ahead of the
\* cursor or the hour field is "*".
Unusable(l) ==
    /\ ~l.exists
    /\ ~is_successor(l.aware, ask.now, ask.isPrev) \/ ask.sched.hour_star

First ==
    /\ pc = "first" /\ ask.zone # NoTz
    /\ \E f \in calc_next(ask, SearchFrom) : Locate(f)
    /\ pc' = IF Unusable(localized') THEN "retry" ELSE "shift"
    /\ UNCHANGED <<ask, guard, reply>>

\* Mutant of Retry: the retries are counted and never stopped.
Retry_Unstopped ==
    /\ pc = "retry"
    /\ \E f \in calc_next(ask, SearchFrom) : Locate(f)
    /\ guard' = guard + 1
    /\ pc' = IF localized'.exists THEN "shift" ELSE "retry"
    /\ UNCHANGED <<ask, reply>>

\* Once searching on, until a local time exists.
Retry ==
    /\ pc = "retry" /\ guard < GuardLimit
    /\ \E f \in calc_next(ask, SearchFrom) : Locate(f)
    /\ guard' = guard + 1
    /\ pc' = IF localized'.exists THEN "shift" ELSE "retry"
    /\ UNCHANGED <<ask, reply>>

\* One retry too many fails, whatever it found.
GuardStops ==
    /\ pc = "retry" /\ guard = GuardLimit
    /\ calc_next(ask, SearchFrom) # {}
    /\ Return(Failure("bad_date"))

ShiftNone ==
    /\ pc = "shift" /\ SameOffset
    /\ Return(Instant(localized.aware))

\* The nearer of two candidates, the second only if it lies ahead.
NearerOf(u, alternative) ==
    IF /\ is_successor(alternative, ask.now, ask.isPrev)
       /\ is_successor(u, alternative, ask.isPrev)
    THEN alternative ELSE u

\* The offset changed on the way: a second candidate, at the other offset.
Shift ==
    /\ pc = "shift" /\ ~SameOffset
    /\ \E f \in calc_next(ask, SearchFrom) :
          Return(Instant(NearerOf(localized.aware,
                                  add_tzinfo(ask.zone, f, ask.now, ask.isPrev).aware)))

TailNext ==
    \/ SearchFails
    \/ FirstNaive
    \/ First
    \/ Retry
    \/ GuardStops
    \/ ShiftNone
    \/ Shift

TailSpec == TailInit /\ [][TailNext]_tailVars

(***************************************************************************)
(* Properties.                                                             *)
(***************************************************************************)

\* Type invariant.
TailTypeOK ==
    /\ ask \in Asks
    /\ pc \in {"first", "retry", "shift", "done"}
    /\ unaware \in Int
    /\ localized \in [aware : Int, exists : BOOLEAN]
    /\ guard \in 0..GuardLimit
    /\ reply.kind \in {"none", "fire"} \cup CalcErrors
    /\ pc = "done" <=> reply # NoReply

\* The instants at which a schedule fires in a zone: those whose local time
\* is a fire, and for a fire in a gap, unless every hour fires anyway, the
\* instant it is moved to.
FiringAt(a) ==
    (UNION {InstantsAt(a.zone, f) : f \in a.sched.fires})
      \cup {Nudged(a.zone, f) :
              f \in {g \in a.sched.fires : Skipped(a.zone, g) /\ ~a.sched.hour_star}}

FiringAhead(a) == {u \in FiringAt(a) : is_successor(u, a.now, a.isPrev)}

\* The greatest change of offset, by which a local distance and a real one may
\* differ.
Slack(z) == Max({Gap(c[1], c[2]) : c \in Offsets(z) \X Offsets(z)})

\* A firing instant the search can see.
InReach(a) == {u \in FiringAhead(a) : Gap(u, a.now) + Slack(a.zone) <= a.horizon}

\* One that is a fire as well, and ahead in local time too: not the second
\* instant of a local time that is past, nor a fire moved out of a gap.
GoesOn(a) ==
    \E u \in InReach(a) :
        /\ LocalAt(a.zone, u) \in a.sched.fires
        /\ is_successor(LocalAt(a.zone, u), LocalAt(a.zone, a.now), a.isPrev)

\* More skipped fires in reach than the retries in a gap.
Crowded(a) ==
    LET skipped == {f \in a.sched.fires : Skipped(a.zone, f)
                                         /\ Gap(f, LocalAt(a.zone, a.now)) <= a.horizon}
    IN  Cardinality(skipped) > GuardLimit

\* What calc_with_tz should answer: the nearest firing instant strictly ahead,
\* or an error when the schedule runs out, or retries do.
TailAnswers(a) ==
    {Instant(u) : u \in {v \in FiringAhead(a) :
                            \A w \in FiringAhead(a) : Gap(v, a.now) <= Gap(w, a.now)}}
      \cup (IF GoesOn(a) /\ ~Crowded(a) THEN {} ELSE {Failure(e) : e \in CalcErrors})

Promise == INSTANCE NextFire WITH
    Requests <- Asks, NoAnswer <- NoReply, Answers <- TailAnswers,
    req <- ask, answer <- reply

\* A change skips the local times between the two clocks, or repeats them.
InGap(z, e, f)  == LocalAt(z, e - 1) < f /\ f < LocalAt(z, e)
InFold(z, e, f) == LocalAt(z, e) <= f /\ f <= LocalAt(z, e - 1)

Moments(z) == {c[1] : c \in z.changes}

\* By how much the clock is put on, or back if negative.
Jump(z, e) == OffsetAt(z, e) - OffsetAt(z, e - 1)

\* A fire in a gap is moved to its end.
MovesToTheEnd(z, s) ==
    \A e \in Moments(z), f \in s.fires : InGap(z, e, f) =>
        IF s.hour_star THEN Nudged(z, f) \in e .. (f - OffsetAt(z, e - 1))
        ELSE Nudged(z, f) = e

\* The hour before a change, the hour it repeats or skips and the hour after it
\* have the same minutes.
SameMinutes(z, s) ==
    \A e \in Moments(z) :
        /\ (\E g \in s.fires : InFold(z, e, g)) =>
              \A f \in s.fires :
                  /\ f \in (LocalAt(z, e) + Jump(z, e)) .. (LocalAt(z, e) - 1) => f - Jump(z, e) \in s.fires
                  /\ f \in (LocalAt(z, e - 1) + 1) .. (LocalAt(z, e - 1) - Jump(z, e)) => f + Jump(z, e) \in s.fires
        /\ s.hour_star =>
              \A f \in s.fires : InGap(z, e, f) =>
                  f - Jump(z, e) \in s.fires /\ f + Jump(z, e) \in s.fires

\* Between a change that skips or repeats a fire and another change there is a
\* fire, unless there is none beyond the other.
KeepsUp(z, s) ==
    \A d, e \in Moments(z) :
        (\E f \in s.fires : InGap(z, e, f) \/ InFold(z, e, f)) =>
            /\ (e < d /\ \E f \in s.fires : f > LocalAt(z, d - 1) \/ f >= LocalAt(z, d)) =>
                  \E f \in s.fires : ~Skipped(z, f) /\ LocalAt(z, e - 1) < f /\ f < LocalAt(z, d)
            /\ (d < e /\ \E f \in s.fires : f < LocalAt(z, d) \/ f <= LocalAt(z, d - 1)) =>
                  \E f \in s.fires : ~Skipped(z, f) /\ LocalAt(z, d - 1) < f /\ f < LocalAt(z, e)

Regular(z, s) == MovesToTheEnd(z, s) /\ SameMinutes(z, s) /\ KeepsUp(z, s)

\* Any zone with any schedule.
AllRegular == \A z \in Zones, s \in Schedules : Regular(z, s)

\* Through gaps and repeated hours calc_with_tz answers with the nearest
\* firing instant: never one that is not ahead, never passing one.
IsNextInstant == Promise!Spec

\* An answer lies strictly ahead of the cursor as an instant, whatever the
\* zone and the schedule.
Progresses ==
    \A u \in reply.at : IF ask.isPrev THEN u < ask.now ELSE ask.now < u

\* BadDate means that nothing fires within the years of the search
\* (src/error.rs: "no matching date within max_years_between_matches").
BadDateMeansNone == reply.kind = "bad_date" => InReach(ask) = {}

=============================================================================
