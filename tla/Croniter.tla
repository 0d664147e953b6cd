-------------------------------- MODULE Croniter --------------------------------
(***************************************************************************)
(* The object of src/lib.rs: a cursor that calc_with_tz moves.             *)
(*                                                                         *)
(* A call takes the object for itself (`&mut self`), sets the direction,   *)
(* runs the time zone tail once or several times, and moves the cursor     *)
(* after each answer.  The actions of TzTail are the steps of a search.    *)
(***************************************************************************)
EXTENDS TzTail, Sequences

CONSTANT Counts    \* how many instants all_next, all_prev and all_from ask for

ASSUME CroniterAssumption == Counts \subseteq Nat

VARIABLES
    cron,      \* the object's fields
    call,      \* the call under way
    result     \* what the last call returned

cronVars == <<cron, call, result, tailVars>>

\* A naive start has no time zone.
Starts == [zone : Zones, at : Nows]

\* start_time and dst_start_time are copies of the start that nothing reads.
Crons == [sched : Schedules, zone : Zones, cur : Int, is_prev : BOOLEAN,
          horizon : Horizons, explicit : BOOLEAN, from_start : BOOLEAN]

\* from is the cursor when the call came, n how many instants it asks for.
Calls   == [op : {"idle", "get", "from", "all"}, from : Int, update : BOOLEAN, n : Nat, out : Seq(Int)]
Idle    == [op |-> "idle", from |-> 0, update |-> TRUE, n |-> 0, out |-> <<>>]
Results == [kind : {"none", "ok", "value"} \cup CalcErrors, is_prev : BOOLEAN, call : Calls]
Silent  == [kind |-> "none", is_prev |-> FALSE, call |-> Idle]

StartAt(c, s) == [c EXCEPT !.zone = s.zone, !.cur = s.at]

AskOf(c) == [zone |-> c.zone, sched |-> c.sched, horizon |-> c.horizon,
             now |-> c.cur, isPrev |-> c.is_prev]

\* The tail as calc_with_tz begins ("first"), or with no search running ("done").
Locals(c, p) ==
    /\ ask' = AskOf(c)
    /\ pc' = p
    /\ unaware' = LocalAt(c.zone, c.cur)
    /\ localized' = [aware |-> c.cur, exists |-> TRUE]
    /\ guard' = 0
    /\ reply' = NoReply

\* No search is running.
Settled ==
    /\ ask = AskOf(cron)
    /\ pc = "done"
    /\ unaware = LocalAt(cron.zone, cron.cur)
    /\ localized = [aware |-> cron.cur, exists |-> TRUE]
    /\ guard = 0
    /\ reply = NoReply

CronInit ==
    /\ cron \in {[sched |-> d, zone |-> s.zone, cur |-> s.at, is_prev |-> p,
                  horizon |-> h, explicit |-> e, from_start |-> f] :
                   d \in Schedules, s \in Starts, p \in BOOLEAN, h \in Horizons,
                   e \in BOOLEAN, f \in BOOLEAN}
    /\ call = Idle
    /\ result = Silent
    /\ Settled

\* `step`, once for "get" and n times for "all".
Begin(c, op, isPrev, update, n) ==
    /\ call = Idle
    /\ cron' = [c EXCEPT !.is_prev = isPrev]
    /\ call' = [op |-> op, from |-> c.cur, update |-> update, n |-> n, out |-> <<>>]
    /\ Locals(cron', "first")
    /\ UNCHANGED result

GetNext == Begin(cron, "get", FALSE, TRUE, 1)
GetPrev == Begin(cron, "get", TRUE, TRUE, 1)

GetNextFrom ==
    /\ ~cron.from_start
    /\ \E s \in Starts : Begin(StartAt(cron, s), "from", FALSE, TRUE, 1)

\* The expression was expanded for the first start, which refuses another one,
\* going forward only.
RefuseFrom ==
    /\ call = Idle /\ cron.from_start
    /\ result' = [Silent EXCEPT !.kind = "value"]
    /\ UNCHANGED <<cron, call, tailVars>>

GetPrevFrom == \E s \in Starts : Begin(StartAt(cron, s), "from", TRUE, TRUE, 1)

\* all_next and all_prev are all_from with update_current.
AllFrom ==
    \E n \in Counts \ {0}, isPrev \in BOOLEAN, update \in BOOLEAN :
        Begin(cron, "all", isPrev, update, n)

AllOfNone ==
    /\ call = Idle /\ 0 \in Counts
    /\ result' = [Silent EXCEPT !.kind = "ok"]
    /\ UNCHANGED <<cron, call, tailVars>>

SetCurrent ==
    /\ call = Idle
    /\ \E s \in Starts : cron' = StartAt(cron, s)
    /\ result' = Silent
    /\ Locals(cron', "done")
    /\ UNCHANGED call

\* Narrowing or widening the bound does not make it an explicit one.
SetMaxYears ==
    /\ call = Idle
    /\ \E h \in Horizons : cron' = [cron EXCEPT !.horizon = h]
    /\ Locals(cron', "done")
    /\ UNCHANGED <<call, result>>

\* One step of calc_with_tz.
Searching == call # Idle /\ TailNext /\ UNCHANGED <<cron, call, result>>

\* Mutant of Moved: update_current is ignored.
Moved_Always(u) == [cron EXCEPT !.cur = u]

Moved(u) == IF call.update THEN [cron EXCEPT !.cur = u] ELSE cron

Taken(u) == [call EXCEPT !.out = Append(@, u)]

Finish(kind, done) ==
    /\ call' = Idle
    /\ result' = [kind |-> kind, is_prev |-> cron.is_prev, call |-> done]
    /\ Locals(cron', "done")

\* Mutant of FoundMore: one instant too many.
FoundMore_OneMore ==
    /\ Len(call.out) + 1 <= call.n
    /\ \E u \in reply.at : cron' = Moved(u) /\ call' = Taken(u)
    /\ Locals(cron', "first")
    /\ UNCHANGED result

\* Mutant of FoundMore: the next search starts from where the last one did.
FoundMore_FromStart ==
    /\ Len(call.out) + 1 < call.n
    /\ \E u \in reply.at : cron' = Moved(u) /\ call' = Taken(u)
    /\ Locals(cron, "first")
    /\ UNCHANGED result

\* An instant of several: the next search starts from the cursor.
FoundMore ==
    /\ Len(call.out) + 1 < call.n
    /\ \E u \in reply.at : cron' = Moved(u) /\ call' = Taken(u)
    /\ Locals(cron', "first")
    /\ UNCHANGED result

FoundLast ==
    /\ Len(call.out) + 1 = call.n
    /\ \E u \in reply.at : cron' = Moved(u) /\ Finish("ok", Taken(u))

GivesWhatItHas == call.op = "all" /\ reply.kind = "bad_date" /\ cron.explicit

\* Out of dates, under a bound the caller gave: the list so far.
Stops ==
    /\ GivesWhatItHas
    /\ cron' = cron
    /\ Finish("ok", call)

\* Any other error is returned, and the list so far is dropped.
Fails ==
    /\ call # Idle /\ reply.kind \in CalcErrors /\ ~GivesWhatItHas
    /\ cron' = cron
    /\ Finish(reply.kind, call)

CronNext ==
    \/ GetNext
    \/ GetPrev
    \/ GetNextFrom
    \/ RefuseFrom
    \/ GetPrevFrom
    \/ AllFrom
    \/ AllOfNone
    \/ SetCurrent
    \/ SetMaxYears
    \/ Searching
    \/ FoundMore
    \/ FoundLast
    \/ Stops
    \/ Fails

CronSpec == CronInit /\ [][CronNext]_cronVars

(***************************************************************************)
(* Properties.                                                             *)
(***************************************************************************)

\* Type invariant.
CronTypeOK ==
    /\ cron \in Crons
    /\ call \in Calls
    /\ result \in Results
    /\ IF call = Idle THEN pc = "done" /\ reply = NoReply ELSE Len(call.out) < call.n

\* The instants at which the object fires, at its present zone.
Fires == FiringAt(AskOf(cron))

Ordered(u, v, isPrev) == IF isPrev THEN v < u ELSE u < v

\* Two instants of a walk are neighbours: in the direction asked for, and with
\* no firing instant between.
Neighbours(u, v, isPrev) ==
    /\ Ordered(u, v, isPrev)
    /\ ~\E w \in Fires : Ordered(u, w, isPrev) /\ Ordered(w, v, isPrev)

\* A walk by all_next or all_prev is gapless, from the cursor on: it neither
\* repeats an instant nor passes one, also where a zone repeats or skips local
\* times.  A peek, which does not move the cursor, is the same instant again.
GaplessWalk ==
    LET walk   == IF call = Idle THEN result.call ELSE call
        isPrev == IF call = Idle THEN result.is_prev ELSE cron.is_prev
    IN  \A i \in 1..Len(walk.out) :
            Neighbours(IF i = 1 \/ ~walk.update THEN walk.from ELSE walk.out[i - 1],
                       walk.out[i], isPrev)

\* After a call the cursor is on the last instant the walk found, or where it
\* was when there is none or the call was a peek: a failed search leaves it
\* alone.
CursorOf(c) == IF c.update /\ c.out # <<>> THEN c.out[Len(c.out)] ELSE c.from

CursorFollows ==
    call = Idle /\ result.call # Idle => cron.cur = CursorOf(result.call)

\* A step one way and a step back: never beyond where the first one started,
\* and exactly there when that was a fire.
RoundTrip ==
    [][ LET a == result  b == result'
        IN  (/\ call # Idle /\ call' = Idle
             /\ a.kind = "ok" /\ b.kind = "ok" /\ a.is_prev # b.is_prev
             /\ a.call.op \in {"get", "from"} /\ b.call.op = "get"
             /\ b.call.from = a.call.out[1])
            => /\ ~Ordered(a.call.from, b.call.out[1], a.is_prev)
               /\ a.call.from \in Fires => b.call.out[1] = a.call.from ]_cronVars

=============================================================================
