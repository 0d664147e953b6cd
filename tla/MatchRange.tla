------------------------------- MODULE MatchRange -------------------------------
(***************************************************************************)
(* `matches` and `match_range` of src/lib.rs: does an expression fire      *)
(* between two local times?                                                *)
(*                                                                         *)
(* An object of its own, without a time zone, is put right after the later *)
(* end, asked for the previous fire, and the distance to that fire is      *)
(* compared with the length of the range.  Both are truncated to whole     *)
(* seconds; a tick of this module is a microsecond, of which Second make a *)
(* second.                                                                 *)
(***************************************************************************)
EXTENDS Croniter

CONSTANTS
    Second,    \* ticks in a second
    Tests      \* [from, to]: the ranges asked about

\* secs: the expression has a second field.  Fires are on whole seconds, and a
\* second is more than the microsecond that Probe adds.
ASSUME MatchAssumption ==
    /\ Second \in Nat \ {0, 1}
    /\ Minute % Second = 0
    /\ NoTz \in Zones
    /\ \A t \in Tests : t.from \in Int /\ t.to \in Int
    /\ \A s \in Schedules : s.secs \in BOOLEAN /\ \A f \in s.fires : f % Second = 0

VARIABLE test    \* the range asked about, and what is answered

matchVars == <<cronVars, test>>

NoTest == [from |-> 0, to |-> 0, answer |-> "absent"]

\* num_seconds: towards zero.
Seconds(d) == IF d >= 0 THEN d \div Second ELSE -((-d) \div Second)

MatchInit ==
    /\ \E t \in Tests : test = [from |-> t.from, to |-> t.to, answer |-> "none"]
    /\ cron \in {[sched |-> d, zone |-> NoTz, cur |-> test.to, is_prev |-> FALSE,
                  horizon |-> h, explicit |-> FALSE, from_start |-> FALSE] :
                   d \in Schedules, h \in Horizons}
    /\ call = Idle
    /\ result = Silent
    /\ Settled

\* Mutant of Probe: the later end is not moved, and a fire on it not seen.
Probe_Exact == test.to

\* A whole second is moved by a microsecond, so that a fire on it is before it.
Probe == IF test.to % Second = 0 THEN test.to + 1 ELSE test.to

Ask ==
    /\ test.answer = "none" /\ result = Silent
    /\ Begin([cron EXCEPT !.cur = Probe], "get", TRUE, TRUE, 1)
    /\ UNCHANGED test

\* The object's own steps.
Looking ==
    /\ call # Idle
    /\ Searching \/ FoundLast \/ Fails
    /\ UNCHANGED test

Precision == IF cron.sched.secs THEN 1 ELSE Minute \div Second
Duration  == Seconds(test.to - test.from) + Precision
Distance  == Seconds(Gap(Probe, result.call.out[1]))

Answer(a) ==
    /\ test.answer = "none" /\ call = Idle /\ result # Silent
    /\ test' = [test EXCEPT !.answer = a]
    /\ UNCHANGED cronVars

Compare ==
    /\ result.kind = "ok"
    /\ Answer(IF Distance < Duration THEN "yes" ELSE "no")

NoneBefore  == result.kind = "bad_date" /\ Answer("no")
HandsOn     == result.kind = "bad_type_range" /\ Answer("error")

MatchNext ==
    \/ Ask
    \/ Looking
    \/ Compare
    \/ NoneBefore
    \/ HandsOn

(***************************************************************************)
(* Property.                                                               *)
(***************************************************************************)

\* A fire stands for its whole minute, or for its second when the expression
\* has a second field.
Lasts == IF cron.sched.secs THEN Second ELSE Minute

\* The fires in question, as far back as a search looks.
Touching ==
    {f \in cron.sched.fires : test.from < f + Lasts /\ f <= test.to /\ Gap(f, Probe) <= cron.horizon}

WholeSecond(t) == t % Second = 0

\* An expression that matches a range fires within it, or shortly before it
\* such that its minute or second reaches into it; and when both ends are
\* whole seconds one that does so matches.
MatchesFires ==
    test.from <= test.to =>
        /\ test.answer = "yes" => Touching # {}
        /\ test.answer = "no" /\ WholeSecond(test.from) /\ WholeSecond(test.to) => Touching = {}

=============================================================================
