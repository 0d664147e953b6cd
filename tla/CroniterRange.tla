----------------------------- MODULE CroniterRange -----------------------------
(***************************************************************************)
(* croniter_range_iter and CroniterRange of src/lib.rs: a walk between two *)
(* instants.                                                               *)
(*                                                                         *)
(* Building the walk turns both ends into local times, moves them outwards *)
(* by a microsecond unless they are excluded, and gives them their time    *)
(* zone again.  Each `next` is one get_next or get_prev of an object of    *)
(* its own, and a comparison with the stop.  A tick of this module is a    *)
(* microsecond, and fires are many ticks apart.                            *)
(***************************************************************************)
EXTENDS Croniter

CONSTANT Ranges    \* [zone, from, to, exclude_ends]: what is asked for

ASSUME RangeAssumption ==
    \A r \in Ranges : r.zone \in Zones /\ r.from \in Int /\ r.to \in Int

VARIABLES
    asked,    \* the range asked for
    walk      \* the iterator

rangeVars == <<cronVars, asked, walk>>

\* stage: being built, ready for `next`, in `next`, refused or done.
NotBuilt == [stage |-> "asked", forward |-> TRUE, stop_ts |-> 0, out |-> <<>>, error |-> "none"]

StartLocal == LocalAt(asked.zone, asked.from)
StopLocal  == LocalAt(asked.zone, asked.to)

\* A microsecond outwards at both ends.
Outwards == IF asked.exclude_ends THEN 0 ELSE IF StartLocal < StopLocal THEN 1 ELSE -1

MovedStart == StartLocal - Outwards
MovedStop  == StopLocal + Outwards

\* and_local_timezone(tz).earliest()
Earliest(t) == Min(InstantsAt(asked.zone, t))

\* The bound spans the years of both ends and one more, so a day more at least.
YearSpan == {h \in Horizons : Gap(MovedStart, MovedStop) + ProbeLimit * Minute <= h}

RangeInit ==
    /\ asked \in Ranges
    /\ walk = NotBuilt
    /\ cron \in {[sched |-> d, zone |-> asked.zone, cur |-> asked.from, is_prev |-> FALSE,
                  horizon |-> h, explicit |-> TRUE, from_start |-> FALSE] :
                   d \in Schedules, h \in YearSpan}
    /\ call = Idle
    /\ result = Silent
    /\ Settled

\* Either end, moved, has no instant in its time zone.
Refuse ==
    /\ walk.stage = "asked"
    /\ Skipped(asked.zone, MovedStart) \/ Skipped(asked.zone, MovedStop)
    /\ walk' = [walk EXCEPT !.stage = "refused"]
    /\ UNCHANGED <<cronVars, asked>>

Build ==
    /\ walk.stage = "asked"
    /\ ~Skipped(asked.zone, MovedStart) /\ ~Skipped(asked.zone, MovedStop)
    /\ cron' = [cron EXCEPT !.cur = Earliest(MovedStart)]
    /\ walk' = [walk EXCEPT !.stage = "ready", !.forward = MovedStart < MovedStop,
                            !.stop_ts = Earliest(MovedStop)]
    /\ Locals(cron', "done")
    /\ UNCHANGED <<call, result, asked>>

NextCalled ==
    /\ walk.stage = "ready"
    /\ IF walk.forward THEN GetNext ELSE GetPrev
    /\ walk' = [walk EXCEPT !.stage = "stepping"]
    /\ UNCHANGED asked

\* The object's own steps.
Stepping ==
    /\ walk.stage = "stepping" /\ call # Idle
    /\ Searching \/ FoundLast \/ Fails
    /\ UNCHANGED <<asked, walk>>

Stepped == walk.stage = "stepping" /\ call = Idle

\* Mutant of Within: the stop itself is let through.
Within_Stop(u) == IF walk.forward THEN u <= walk.stop_ts ELSE walk.stop_ts <= u

Within(u) == IF walk.forward THEN u < walk.stop_ts ELSE walk.stop_ts < u

Yield ==
    /\ Stepped /\ result.kind = "ok"
    /\ Within(result.call.out[1])
    /\ walk' = [walk EXCEPT !.stage = "ready", !.out = Append(@, result.call.out[1])]
    /\ UNCHANGED <<cronVars, asked>>

Passed ==
    /\ Stepped /\ result.kind = "ok"
    /\ ~Within(result.call.out[1])
    /\ walk' = [walk EXCEPT !.stage = "done"]
    /\ UNCHANGED <<cronVars, asked>>

\* Running out of dates ends the walk, any other error is handed on and ends it.
RunsOut ==
    /\ Stepped /\ result.kind \in CalcErrors
    /\ walk' = [walk EXCEPT !.stage = "done",
                            !.error = IF result.kind = "bad_date" THEN "none" ELSE result.kind]
    /\ UNCHANGED <<cronVars, asked>>

RangeNext ==
    \/ Refuse
    \/ Build
    \/ NextCalled
    \/ Stepping
    \/ Yield
    \/ Passed
    \/ RunsOut

(***************************************************************************)
(* Properties.                                                             *)
(***************************************************************************)

Low  == IF asked.from < asked.to THEN asked.from ELSE asked.to
High == IF asked.from < asked.to THEN asked.to ELSE asked.from

Between(u) == IF asked.exclude_ends THEN Low < u /\ u < High ELSE Low <= u /\ u <= High

\* A walk that is done has yielded every firing instant between the ends, once
\* and in order: the ends themselves unless they are excluded, nothing beyond.
WholeRange ==
    walk.stage = "done" /\ walk.error = "none" =>
        /\ {walk.out[i] : i \in 1..Len(walk.out)} = {u \in Fires : Between(u)}
        /\ \A i, j \in 1..Len(walk.out) :
              i < j => Ordered(walk.out[i], walk.out[j], asked.to < asked.from)

\* An end is plain when no other instant has its local time or one next to it.
PlainEnd(z, u) == \A k \in {-1, 0, 1} : InstantsAt(z, LocalAt(z, u) + k) \in {{}, {u + k}}

\* The instants of a range, with the microsecond at both ends.
Stretch(r) ==
    IF r.from < r.to THEN (r.from - 1) .. (r.to + 1) ELSE (r.to - 1) .. (r.from + 1)

FiringIn(z, s) == FiringAt([zone |-> z, sched |-> s])

\* Each firing instant of the range has a fire as its local time, and alone.
FiresAlone(r, s) ==
    \A u \in FiringIn(r.zone, s) \cap Stretch(r) :
        LocalAt(r.zone, u) \in s.fires /\ InstantsAt(r.zone, LocalAt(r.zone, u)) = {u}

\* The schedule goes on beyond the range, where a search still sees it.
FiresBeyond(r, s, h) ==
    \E u \in FiringIn(r.zone, s) :
        /\ LocalAt(r.zone, u) \in s.fires
        /\ IF r.from < r.to THEN r.to + 1 + Slack(r.zone) < u ELSE u < r.to - 1 - Slack(r.zone)
        /\ Gap(u, r.from) + 1 + Slack(r.zone) <= h

NeverCrowded(r, s, h) ==
    \A n \in Stretch(r) :
        ~Crowded([zone |-> r.zone, sched |-> s, horizon |-> h, now |-> n])

\* A range whose ends are plain, and whose searches do not run out before it does:
\* offsets differ by half a day at most.
PlainRange(r, s, h) ==
    /\ PlainEnd(r.zone, r.from) /\ PlainEnd(r.zone, r.to)
    /\ 2 * Slack(r.zone) <= ProbeLimit * Minute
    /\ FiresAlone(r, s) \/ FiresBeyond(r, s, h)
    /\ NeverCrowded(r, s, h)

\* Any range, with any bound that spans it.
AllPlain ==
    \A r \in Ranges, s \in Schedules, h \in Horizons :
        Gap(LocalAt(r.zone, r.from), LocalAt(r.zone, r.to)) + ProbeLimit * Minute <= h =>
            PlainRange(r, s, h)

\* An end that carries its time zone is an instant, and accepted (src/lib.rs:
\* "an aware `start` yields aware results that fold and unfold across DST").
EndsAccepted == walk.stage # "refused"

=============================================================================
