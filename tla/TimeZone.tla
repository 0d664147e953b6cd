-------------------------------- MODULE TimeZone --------------------------------
(***************************************************************************)
(* Time zones and src/tz.rs: giving a local time back its time zone.       *)
(*                                                                         *)
(* An instant (a DateTime<Tz>, compared in UTC) and a local time (a        *)
(* NaiveDateTime) are numbers of ticks.  A zone is its first offset and    *)
(* its changes, pairs <<instant, offset from then on>>; chrono-tz, an      *)
(* external library, answers from such a table.  A local time skipped by a *)
(* change is no instant's local time, and one repeated is the local time   *)
(* of two instants.                                                        *)
(***************************************************************************)
EXTENDS Integers, FiniteSetsExt

CONSTANTS
    Minute,       \* ticks in a minute
    ProbeLimit    \* minutes add_tzinfo looks past a local time: 24 * 60

ASSUME TimeZoneAssumption ==
    /\ Minute \in Nat \ {0}
    /\ ProbeLimit \in Nat \ {0}

\* The start carried no time zone: local times are read as UTC.
NoTz == [first |-> 0, changes |-> {}]

(***************************************************************************)
(* chrono-tz.                                                              *)
(***************************************************************************)

OffsetAt(zone, u) ==
    LET past == {c \in zone.changes : c[1] <= u}
    IN  IF past = {} THEN zone.first
        ELSE (CHOOSE c \in past : \A d \in past : d[1] <= c[1])[2]

LocalAt(zone, u) == u + OffsetAt(zone, u)

Offsets(zone) == {zone.first} \cup {c[2] : c \in zone.changes}

\* from_local_datetime: no instant, a single one, or two.
InstantsAt(zone, t) == {u \in {t - o : o \in Offsets(zone)} : LocalAt(zone, u) = t}

Skipped(zone, t) == InstantsAt(zone, t) = {}

(***************************************************************************)
(* src/tz.rs.                                                              *)
(***************************************************************************)

\* Strictly after or, going back, strictly before.
is_successor(u, previous, isPrev) == IF isPrev THEN u < previous ELSE previous < u

timezone_delta(zone, from, to) == OffsetAt(zone, to) - OffsetAt(zone, from)

\* A minute at a time until the local time exists.
Probed(zone, t) == {k \in 1..ProbeLimit : ~Skipped(zone, t + k * Minute)}

Nudged(zone, t) ==
    IF Probed(zone, t) = {} THEN t
    ELSE Min(InstantsAt(zone, t + Min(Probed(zone, t)) * Minute))

\* Mutant of Closer: of a repeated local time, always the first instant.
Closer_First(instants, isPrev) == Min(instants)

\* Of a repeated local time, the instant that a walk meets first.
Closer(instants, isPrev)  == IF isPrev THEN Max(instants) ELSE Min(instants)
Farther(instants, isPrev) == IF isPrev THEN Min(instants) ELSE Max(instants)

add_tzinfo(zone, t, previous, isPrev) ==
    LET instants == InstantsAt(zone, t)
    IN  IF instants = {} THEN [aware |-> Nudged(zone, t), exists |-> FALSE]
        ELSE [aware  |-> IF is_successor(Closer(instants, isPrev), previous, isPrev)
                         THEN Closer(instants, isPrev)
                         ELSE Farther(instants, isPrev),
              exists |-> TRUE]

=============================================================================
