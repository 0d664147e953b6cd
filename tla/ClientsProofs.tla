------------------------------ MODULE ClientsProofs ------------------------------
(***************************************************************************)
(* The object of src/lib.rs in the hands of any caller, range or match:    *)
(* where its cursor is, which way it goes, and what a match answers.       *)
(***************************************************************************)
EXTENDS Clients, TzTailProofs, SequenceTheorems

(***************************************************************************)
(* The object.                                                             *)
(***************************************************************************)

Fields == /\ cron \in Crons
          /\ call \in Calls
          /\ result \in Results

\* Every instant of a walk lies beyond the one before it, and of a peek beyond
\* the cursor.
Onward(w, isPrev) ==
    \A i \in 1..Len(w.out) :
        Ordered(IF i = 1 \/ ~w.update THEN w.from ELSE w.out[i - 1],
                w.out[i], isPrev)

\* A call under way: a search from the cursor, which is on the last instant
\* taken, with instants still to find.
UnderWay ==
    /\ Len(call.out) < call.n
    /\ pc = "done" => reply # NoReply
    /\ cron.cur = CursorOf(call)
    /\ Onward(call, cron.is_prev)

\* No call under way, and what the last one has left.
AtRest ==
    /\ pc = "done" /\ reply = NoReply
    /\ result.call # Idle => cron.cur = CursorOf(result.call)
    /\ Onward(result.call, result.is_prev)

ObjectInv ==
    /\ Fields
    /\ TailInv
    /\ ask = AskOf(cron)
    /\ IF call = Idle THEN AtRest ELSE UnderWay

LEMMA SaneAskOf == ASSUME NEW c \in Crons PROVE SaneAsk(AskOf(c))
<1>1. c.zone \in Zones /\ c.sched \in Schedules /\ c.cur \in Int /\ c.is_prev \in BOOLEAN
  BY DEF Crons
<1>. QED
  BY <1>1, ZonesAreSane DEF SaneAsk, AskOf

\* Setting up the search of a cursor, or leaving none running.
LEMMA LocalsStep ==
    ASSUME NEW c \in Crons, NEW p \in {"first", "done"}, Locals(c, p)
    PROVE  TailInv' /\ ask' = AskOf(c) /\ pc' = p /\ reply' = NoReply
<1>1. /\ ask' = AskOf(c) /\ pc' = p /\ reply' = NoReply /\ guard' = 0
      /\ unaware' = LocalAt(c.zone, c.cur) /\ localized' = [aware |-> c.cur, exists |-> TRUE]
  BY DEF Locals
<1>2. SaneAsk(AskOf(c)) /\ c.cur \in Int /\ SaneZone(c.zone)
  BY SaneAskOf, ZonesAreSane DEF Crons
<1>3. LocalAt(c.zone, c.cur) \in Int
  BY <1>2, LocalIsInt
<1>4. NoReply \in Replies /\ NoReply.at = {} /\ 0 \in 0..GuardLimit
  BY TailAssumption DEF Replies, NoReply
<1>. QED
  BY <1>1, <1>2, <1>3, <1>4 DEF TailInv

LEMMA SilentTyped ==
    /\ Idle \in Calls /\ Idle.out = <<>>
    /\ Silent \in Results /\ Silent.call = Idle
    /\ \A kind \in {"ok", "value"} :
          [Silent EXCEPT !.kind = kind] \in Results /\ [Silent EXCEPT !.kind = kind].call = Idle
<1>1. Idle \in Calls /\ Idle.out = <<>>
  <2>1. <<>> \in Seq(Int)
    OBVIOUS
  <2>. QED
    BY <2>1 DEF Idle, Calls
<1>2. Silent \in Results /\ Silent.call = Idle
  BY <1>1 DEF Silent, Results
<1>3. ASSUME NEW kind \in {"ok", "value"}
      PROVE  [Silent EXCEPT !.kind = kind] \in Results /\ [Silent EXCEPT !.kind = kind].call = Idle
  BY <1>2, <1>3 DEF Results
<1>. QED
  BY <1>1, <1>2, <1>3

\* With no instant found there is nothing to order.
LEMMA NothingOnward ==
    ASSUME NEW w, w.out = <<>>, NEW isPrev
    PROVE  Onward(w, isPrev)
  BY DEF Onward

\* The start of a call.
LEMMA BeginStep ==
    ASSUME ObjectInv, NEW c \in Crons, NEW op \in {"get", "from", "all"},
           NEW isPrev \in BOOLEAN, NEW update \in BOOLEAN, NEW n \in Nat \ {0},
           Begin(c, op, isPrev, update, n)
    PROVE  /\ ObjectInv' /\ call' # Idle /\ result' = result
           /\ call' = [op |-> op, from |-> c.cur, update |-> update, n |-> n, out |-> <<>>]
           /\ cron' = [c EXCEPT !.is_prev = isPrev]
           /\ pc' = "first"
<1>1. /\ call' = [op |-> op, from |-> c.cur, update |-> update, n |-> n, out |-> <<>>]
      /\ cron' = [c EXCEPT !.is_prev = isPrev] /\ Locals(cron', "first") /\ result' = result
  BY DEF Begin
<1>2. PICK d \in Crons : d = cron' /\ d.cur = c.cur
  BY <1>1 DEF Crons
<1>3. TailInv' /\ ask' = AskOf(d) /\ pc' = "first" /\ reply' = NoReply
  BY <1>1, <1>2, LocalsStep
<1>4. /\ call' \in Calls /\ call' # Idle /\ call'.out = <<>> /\ call'.n = n /\ call'.from = c.cur
  <2>1. c.cur \in Int /\ <<>> \in Seq(Int)
    BY DEF Crons
  <2>. QED
    BY <1>1, <2>1 DEF Calls, Idle
<1>5. UnderWay'
  <2>1. Onward(call', cron'.is_prev)
    BY <1>4, NothingOnward
  <2>2. Len(call'.out) < call'.n
    BY <1>4
  <2>3. cron'.cur = CursorOf(call')
    BY <1>2, <1>4 DEF CursorOf
  <2>. QED
    BY <1>3, <2>1, <2>2, <2>3 DEF UnderWay
<1>6. Fields'
  BY <1>1, <1>2, <1>4 DEF Fields, ObjectInv
<1>. QED
  BY <1>1, <1>2, <1>3, <1>4, <1>5, <1>6 DEF ObjectInv

\* The end of a call, or a setter between calls.
LEMMA RestStep ==
    ASSUME NEW c \in Crons, NEW r \in Results,
           cron' = c, call' = Idle, result' = r, Locals(cron', "done"),
           r.call # Idle => c.cur = CursorOf(r.call),
           Onward(r.call, r.is_prev)
    PROVE  ObjectInv' /\ call' = Idle
<1>1. TailInv' /\ ask' = AskOf(c) /\ pc' = "done" /\ reply' = NoReply
  BY LocalsStep
<1>2. Fields'
  BY SilentTyped DEF Fields
<1>. QED
  BY <1>1, <1>2 DEF ObjectInv, AtRest

\* One step of the search of a call.
LEMMA SearchingStep ==
    ASSUME ObjectInv, Searching
    PROVE  ObjectInv' /\ call' = call /\ call # Idle /\ cron' = cron /\ result' = result
<1>1. /\ call # Idle /\ call' = call /\ cron' = cron /\ result' = result
      /\ TailInv' /\ ask' = ask /\ (pc' = "done" => reply' # NoReply)
  BY TailStep DEF Searching, ObjectInv
<1>2. UnderWay'
  BY <1>1 DEF ObjectInv, UnderWay, Onward, CursorOf
<1>. QED
  BY <1>1, <1>2 DEF ObjectInv, Fields

\* An instant found is an instant, and lies beyond the cursor.
LEMMA FoundBeyond ==
    ASSUME ObjectInv, NEW u \in reply.at
    PROVE  u \in Int /\ Ordered(cron.cur, u, cron.is_prev)
<1>1. u \in Int
  BY DEF ObjectInv, TailInv, Replies, NoReply, Instant, Failure
<1>2. is_successor(u, cron.cur, cron.is_prev)
  BY DEF ObjectInv, TailInv, AskOf
<1>. QED
  BY <1>1, <1>2 DEF Ordered, is_successor

\* The instant taken goes last, and the cursor, when it follows, on it.
LEMMA TakenStep ==
    ASSUME ObjectInv, call # Idle, NEW u \in reply.at
    PROVE  /\ Moved(u) \in Crons /\ Moved(u).is_prev = cron.is_prev
           /\ Taken(u) \in Calls /\ Taken(u) # Idle
           /\ Taken(u).n = call.n /\ Taken(u).op = call.op
           /\ Taken(u).update = call.update /\ Taken(u).from = call.from
           /\ Taken(u).out = Append(call.out, u) /\ Len(Taken(u).out) = Len(call.out) + 1
           /\ Moved(u).cur = CursorOf(Taken(u))
           /\ Onward(Taken(u), cron.is_prev)
<1>1. u \in Int /\ Ordered(cron.cur, u, cron.is_prev)
  BY FoundBeyond
<1>2. cron \in Crons /\ call \in Calls /\ cron.cur = CursorOf(call) /\ Onward(call, cron.is_prev)
  BY DEF ObjectInv, Fields, UnderWay
<1>3. PICK s : s = call.out
  OBVIOUS
<1>4. s \in Seq(Int) /\ call.from \in Int /\ call.update \in BOOLEAN /\ call.op \in {"idle", "get", "from", "all"}
  BY <1>2, <1>3 DEF Calls
<1>5. PICK t : t = Append(s, u)
  OBVIOUS
<1>6. /\ t \in Seq(Int) /\ Len(t) = Len(s) + 1 /\ t[Len(t)] = u /\ t # <<>>
      /\ \A i \in 1..Len(s) : t[i] = s[i]
  BY <1>1, <1>4, <1>5
<1>7. /\ Taken(u) \in Calls /\ Taken(u).out = t /\ Taken(u).from = call.from
      /\ Taken(u).n = call.n /\ Taken(u).op = call.op /\ Taken(u).update = call.update
  BY <1>2, <1>3, <1>4, <1>5, <1>6 DEF Taken, Calls
<1>8. Taken(u) # Idle
  BY <1>6, <1>7, SilentTyped
<1>9. Moved(u) \in Crons /\ Moved(u).is_prev = cron.is_prev
      /\ Moved(u).cur = (IF call.update THEN u ELSE cron.cur)
  BY <1>1, <1>2 DEF Moved, Crons
<1>10. Moved(u).cur = CursorOf(Taken(u))
  BY <1>2, <1>3, <1>6, <1>7, <1>9 DEF CursorOf
<1>11. Onward(Taken(u), cron.is_prev)
  <2>1. SUFFICES ASSUME NEW i \in 1..Len(t)
                 PROVE  Ordered(IF i = 1 \/ ~call.update THEN call.from ELSE t[i - 1],
                                t[i], cron.is_prev)
    BY <1>7 DEF Onward
  <2>2. Len(s) \in Nat
    BY <1>4
  <2>3. CASE i \in 1..Len(s)
    <3>1. t[i] = s[i] /\ (i # 1 => t[i - 1] = s[i - 1])
      BY <1>6, <2>2, <2>3
    <3>. QED
      BY <1>2, <1>3, <2>3, <3>1 DEF Onward
  <2>4. CASE i = Len(s) + 1
    <3>1. t[i] = u
      BY <1>6, <2>4
    <3>2. cron.cur = (IF i = 1 \/ ~call.update THEN call.from ELSE t[i - 1])
      <4>1. CASE s = <<>>
        BY <1>2, <1>3, <2>4, <4>1 DEF CursorOf
      <4>2. CASE s # <<>>
        <5>1. Len(s) # 0 /\ i - 1 = Len(s) /\ i # 1 /\ Len(s) \in 1..Len(s)
          BY <1>4, <2>2, <2>4, <4>2
        <5>2. t[i - 1] = s[Len(s)]
          BY <1>6, <5>1
        <5>. QED
          BY <1>2, <1>3, <4>2, <5>1, <5>2 DEF CursorOf
      <4>. QED
        BY <4>1, <4>2
    <3>. QED
      BY <1>1, <3>1, <3>2
  <2>. QED
    BY <1>6, <2>2, <2>3, <2>4
<1>. QED
  BY <1>3, <1>5, <1>6, <1>7, <1>8, <1>9, <1>10, <1>11

\* An instant of several.
LEMMA FoundMoreStep ==
    ASSUME ObjectInv, call # Idle, FoundMore
    PROVE  ObjectInv'
<1>1. PICK u \in reply.at : cron' = Moved(u) /\ call' = Taken(u)
  BY DEF FoundMore
<1>2. Len(call.out) + 1 < call.n /\ Locals(cron', "first") /\ result' = result
  BY DEF FoundMore
<1>3. PICK c \in Crons : c = cron' /\ c.is_prev = cron.is_prev
  BY <1>1, TakenStep
<1>4. TailInv' /\ ask' = AskOf(c) /\ pc' = "first" /\ reply' = NoReply
  BY <1>2, <1>3, LocalsStep
<1>5. UnderWay'
  <2>1. Len(call'.out) < call'.n
    BY <1>1, <1>2, TakenStep
  <2>2. cron'.cur = CursorOf(call') /\ Onward(call', cron'.is_prev)
    BY <1>1, <1>3, TakenStep
  <2>. QED
    BY <1>4, <2>1, <2>2 DEF UnderWay
<1>6. Fields' /\ call' # Idle
  BY <1>1, <1>2, <1>3, TakenStep DEF Fields, ObjectInv
<1>. QED
  BY <1>3, <1>4, <1>5, <1>6 DEF ObjectInv

\* The end of a call leaves the result and the cursor.
LEMMA FinishStep ==
    ASSUME ObjectInv, NEW kind \in {"ok"} \cup CalcErrors, NEW done \in Calls, NEW c \in Crons,
           cron' = c, Finish(kind, done), c.cur = CursorOf(done), Onward(done, cron.is_prev)
    PROVE  /\ ObjectInv' /\ call' = Idle
           /\ result'.kind = kind /\ result'.call = done /\ result'.is_prev = cron.is_prev
<1>1. call' = Idle /\ Locals(cron', "done")
      /\ result' = [kind |-> kind, is_prev |-> cron.is_prev, call |-> done]
  BY DEF Finish
<1>2. PICK r \in Results : r = result' /\ r.call = done /\ r.is_prev = cron.is_prev /\ r.kind = kind
  <2>1. cron.is_prev \in BOOLEAN
    BY DEF ObjectInv, Fields, Crons
  <2>. QED
    BY <1>1, <2>1 DEF Results
<1>. QED
  BY <1>1, <1>2, RestStep

LEMMA FoundLastStep ==
    ASSUME ObjectInv, call # Idle, FoundLast
    PROVE  /\ ObjectInv' /\ call' = Idle /\ result'.kind = "ok"
           /\ \E u \in reply.at : cron' = Moved(u) /\ result'.call = Taken(u)
<1>1. PICK u \in reply.at : cron' = Moved(u) /\ Finish("ok", Taken(u))
  BY DEF FoundLast
<1>. QED
  BY <1>1, TakenStep, FinishStep

LEMMA NothingFoundStep ==
    ASSUME ObjectInv, call # Idle, Stops \/ Fails
    PROVE  /\ ObjectInv' /\ call' = Idle /\ cron' = cron /\ result'.call = call
           /\ Stops \/ result'.kind = reply.kind
<1>1. cron \in Crons /\ call \in Calls /\ cron.cur = CursorOf(call) /\ Onward(call, cron.is_prev)
  BY DEF ObjectInv, Fields, UnderWay
<1>2. CASE Stops
  BY <1>1, <1>2, FinishStep DEF Stops
<1>3. CASE Fails
  BY <1>1, <1>3, FinishStep DEF Fails
<1>. QED
  BY <1>2, <1>3

\* Only a call under way has a reply to take.
LEMMA RepliesToCalls ==
    ASSUME ObjectInv, FoundMore \/ FoundLast \/ Stops \/ Fails
    PROVE  call # Idle
<1>1. CASE FoundMore \/ FoundLast
  <2>1. reply.at # {}
    BY <1>1 DEF FoundMore, FoundLast
  <2>. QED
    BY <2>1 DEF ObjectInv, AtRest, NoReply
<1>2. CASE Stops
  BY <1>2 DEF Stops, GivesWhatItHas, Idle
<1>. QED
  BY <1>1, <1>2 DEF Fails

LEMMA StartedTyped ==
    ASSUME ObjectInv, NEW t \in Starts
    PROVE  StartAt(cron, t) \in Crons
<1>1. t.zone \in Zones /\ t.at \in Int
  BY TailAssumption DEF Starts
<1>. QED
  BY <1>1 DEF ObjectInv, Fields, Crons, StartAt

\* The end of a call with nothing but a result.
LEMMA ResultStep ==
    ASSUME ObjectInv, call = Idle, UNCHANGED <<cron, call, tailVars>>,
           result' \in Results, result'.call = Idle
    PROVE  ObjectInv'
<1>1. AtRest'
  BY SilentTyped, NothingOnward DEF ObjectInv, AtRest, tailVars
<1>2. TailInv'
  BY DEF ObjectInv, TailInv, tailVars, now_naive
<1>. QED
  BY <1>1, <1>2 DEF ObjectInv, Fields, tailVars

\* One search, either way.
LEMMA OneSearchStep ==
    ASSUME ObjectInv, NEW c \in Crons, NEW op \in {"get", "from", "all"},
           Begin(c, op, FALSE, TRUE, 1) \/ Begin(c, op, TRUE, TRUE, 1)
    PROVE  ObjectInv'
<1>1. 1 \in Nat \ {0} /\ TRUE \in BOOLEAN /\ FALSE \in BOOLEAN
  OBVIOUS
<1>2. CASE Begin(c, op, FALSE, TRUE, 1)
  BY <1>1, <1>2, BeginStep, Zenon
<1>3. CASE Begin(c, op, TRUE, TRUE, 1)
  BY <1>1, <1>3, BeginStep, Zenon
<1>. QED
  BY <1>2, <1>3

\* Whatever a caller does, and the object in reply.
LEMMA CronStep ==
    ASSUME ObjectInv, CronNext
    PROVE  ObjectInv'
<1>1. cron \in Crons /\ result \in Results
  BY DEF ObjectInv, Fields
<1>2. CASE GetNext
  BY <1>1, <1>2, OneSearchStep DEF GetNext
<1>3. CASE GetPrev
  BY <1>1, <1>3, OneSearchStep DEF GetPrev
<1>4. CASE GetNextFrom
  BY <1>4, StartedTyped, OneSearchStep DEF GetNextFrom
<1>5. CASE GetPrevFrom
  BY <1>5, StartedTyped, OneSearchStep DEF GetPrevFrom
<1>6. CASE AllFrom
  <2>1. PICK n \in Counts \ {0}, isPrev \in BOOLEAN, update \in BOOLEAN :
           Begin(cron, "all", isPrev, update, n)
    BY <1>6 DEF AllFrom
  <2>2. n \in Nat \ {0}
    BY CroniterAssumption
  <2>. QED
    BY <1>1, <2>1, <2>2, BeginStep
<1>7. CASE RefuseFrom
  BY <1>7, ResultStep, SilentTyped DEF RefuseFrom
<1>8. CASE AllOfNone
  BY <1>8, ResultStep, SilentTyped DEF AllOfNone
<1>9. CASE SetCurrent
  <2>1. PICK t \in Starts : cron' = StartAt(cron, t)
    BY <1>9 DEF SetCurrent
  <2>2. call' = Idle /\ result' = Silent /\ Locals(cron', "done")
    BY <1>9 DEF SetCurrent
  <2>3. Onward(Silent.call, Silent.is_prev)
    BY SilentTyped, NothingOnward
  <2>. QED
    BY <2>1, <2>2, <2>3, SilentTyped, StartedTyped, RestStep
<1>10. CASE SetMaxYears
  <2>1. PICK h \in Horizons : cron' = [cron EXCEPT !.horizon = h]
    BY <1>10 DEF SetMaxYears
  <2>2. PICK c \in Crons : c = cron' /\ c.cur = cron.cur
    BY <1>1, <2>1 DEF Crons
  <2>3. call = Idle /\ call' = Idle /\ result' = result /\ Locals(cron', "done")
    BY <1>10 DEF SetMaxYears
  <2>4. AtRest
    BY <2>3 DEF ObjectInv
  <2>. QED
    BY <1>1, <2>2, <2>3, <2>4, RestStep DEF AtRest
<1>11. CASE Searching
  BY <1>11, SearchingStep
<1>12. CASE FoundMore
  BY <1>12, RepliesToCalls, FoundMoreStep
<1>13. CASE FoundLast
  BY <1>13, RepliesToCalls, FoundLastStep
<1>14. CASE Stops
  BY <1>14, RepliesToCalls, NothingFoundStep
<1>15. CASE Fails
  BY <1>15, RepliesToCalls, NothingFoundStep
<1>. QED
  BY <1>2, <1>3, <1>4, <1>5, <1>6, <1>7, <1>8, <1>9, <1>10, <1>11, <1>12, <1>13, <1>14, <1>15
     DEF CronNext

\* Nothing changes.
LEMMA ObjectRests ==
    ASSUME ObjectInv, UNCHANGED cronVars
    PROVE  ObjectInv'
<1>1. TailInv'
  BY DEF ObjectInv, TailInv, cronVars, tailVars, now_naive
<1>2. AtRest' <=> AtRest
  BY DEF AtRest, cronVars, tailVars
<1>3. UnderWay' <=> UnderWay
  BY DEF UnderWay, CursorOf, Onward, cronVars, tailVars
<1>. QED
  BY <1>1, <1>2, <1>3 DEF ObjectInv, Fields, cronVars, tailVars

\* A new object.
LEMMA ObjectStarts ==
    ASSUME cron \in Crons, call = Idle, result = Silent, Settled
    PROVE  ObjectInv
<1>1. /\ ask = AskOf(cron) /\ pc = "done" /\ reply = NoReply /\ guard = 0
      /\ unaware = LocalAt(cron.zone, cron.cur) /\ localized = [aware |-> cron.cur, exists |-> TRUE]
  BY DEF Settled
<1>2. SaneAsk(AskOf(cron)) /\ cron.cur \in Int /\ SaneZone(cron.zone)
  BY SaneAskOf, ZonesAreSane DEF Crons
<1>3. LocalAt(cron.zone, cron.cur) \in Int
  BY <1>2, LocalIsInt
<1>4. NoReply \in Replies /\ NoReply.at = {} /\ 0 \in 0..GuardLimit
  BY TailAssumption DEF Replies, NoReply
<1>5. TailInv
  BY <1>1, <1>2, <1>3, <1>4 DEF TailInv
<1>6. AtRest
  BY <1>1, SilentTyped, NothingOnward DEF AtRest
<1>. QED
  BY <1>1, <1>5, <1>6, SilentTyped DEF ObjectInv, Fields

(***************************************************************************)
(* A range.                                                                *)
(***************************************************************************)

Walks == [stage : {"asked", "ready", "stepping", "refused", "done"}, forward : BOOLEAN,
          stop_ts : Int, out : Seq(Int), error : {"none"} \cup CalcErrors]

\* Where the walk has come to.
WalkAt == IF walk.out = <<>> THEN Earliest(MovedStart) ELSE walk.out[Len(walk.out)]

\* What a range has yielded goes one way, from its moved start to its moved
\* stop.
YieldsInOrder ==
    /\ \A i \in 1..Len(walk.out) :
          Ordered(Earliest(MovedStart), walk.out[i], ~walk.forward) /\ Within(walk.out[i])
    /\ \A i, j \in 1..Len(walk.out) :
          i < j => Ordered(walk.out[i], walk.out[j], ~walk.forward)

\* Between two calls the object's cursor is where the walk has come to, and
\* each call is one step of the object from there.
WalkInv ==
    /\ walk \in Walks
    /\ walk.stage = "asked" => call = Idle /\ result = Silent /\ walk.out = <<>>
    /\ walk.stage \in {"ready", "stepping"} => Earliest(MovedStart) \in Int
    /\ walk.stage = "ready" => call = Idle /\ cron.cur = WalkAt
    /\ walk.stage = "stepping" /\ call # Idle =>
          /\ call.out = <<>> /\ call.n = 1 /\ call.op = "get" /\ call.update
          /\ call.from = WalkAt /\ cron.is_prev = ~walk.forward
    /\ walk.stage = "stepping" /\ call = Idle /\ result.kind = "ok" =>
          /\ Len(result.call.out) = 1 /\ result.call.update
          /\ result.call.from = WalkAt /\ result.is_prev = ~walk.forward
    /\ YieldsInOrder

LEMMA EarliestTyped ==
    ASSUME asked \in Ranges, NEW t \in Int, ~Skipped(asked.zone, t)
    PROVE  Earliest(t) \in Int
<1>1. SaneZone(asked.zone)
  BY RangeAssumption, ZonesAreSane
<1>. QED
  BY <1>1, InstantsOf DEF Skipped, Earliest

LEMMA MovedTyped ==
    ASSUME asked \in Ranges
    PROVE  MovedStart \in Int /\ MovedStop \in Int
<1>1. SaneZone(asked.zone) /\ asked.from \in Int /\ asked.to \in Int
  BY RangeAssumption, ZonesAreSane
<1>2. StartLocal \in Int /\ StopLocal \in Int
  BY <1>1, LocalIsInt DEF StartLocal, StopLocal
<1>3. Outwards \in Int
  BY DEF Outwards
<1>. QED
  BY <1>2, <1>3 DEF MovedStart, MovedStop

\* One more instant, beyond where the walk has come to and short of the stop.
LEMMA YieldStep ==
    ASSUME ObjectInv, WalkInv, Yield
    PROVE  WalkInv'
<1>1. /\ walk.stage = "stepping" /\ call = Idle /\ result.kind = "ok"
      /\ walk \in Walks /\ walk.out \in Seq(Int)
      /\ UNCHANGED <<cronVars, asked>> /\ Earliest(MovedStart) \in Int
      /\ Len(result.call.out) = 1 /\ result.call.update
      /\ result.call.from = WalkAt /\ result.is_prev = ~walk.forward
  BY DEF Yield, Stepped, WalkInv, Walks
<1>2. result \in Results /\ result.call \in Calls /\ result.call.out \in Seq(Int)
      /\ result.call.from \in Int
  BY DEF ObjectInv, Fields, Results, Calls
<1>3. PICK u \in Int : u = result.call.out[1]
  BY <1>1, <1>2
<1>4. PICK at \in Int : at = WalkAt
  BY <1>1, <1>2
<1>5. Ordered(at, u, ~walk.forward) /\ Within(u)
  <2>1. AtRest
    BY <1>1 DEF ObjectInv
  <2>2. 1 \in 1..Len(result.call.out)
    BY <1>1
  <2>. QED
    BY <1>1, <1>3, <1>4, <2>1, <2>2 DEF AtRest, Onward, Yield
<1>6. PICK s, t : s = walk.out /\ t = Append(s, u) /\ s \in Seq(Int) /\ t \in Seq(Int)
  <2>1. Append(walk.out, u) \in Seq(Int)
    BY <1>1, <1>3
  <2>. QED
    BY <1>1, <2>1
<1>7. /\ Len(t) = Len(s) + 1 /\ t[Len(t)] = u /\ t # <<>> /\ Len(s) \in Nat
      /\ \A i \in 1..Len(s) : t[i] = s[i] /\ s[i] \in Int
  BY <1>6
<1>8. walk' = [walk EXCEPT !.stage = "ready", !.out = t]
  BY <1>3, <1>6 DEF Yield
<1>9. /\ walk' \in Walks /\ walk'.stage = "ready" /\ walk'.out = t
      /\ walk'.forward = walk.forward /\ walk'.stop_ts = walk.stop_ts
  BY <1>1, <1>6, <1>8 DEF Walks
<1>10. UNCHANGED <<Earliest(MovedStart), cron, call>> /\ WalkAt' = u
  <2>1. asked' = asked /\ cron' = cron /\ call' = call
    BY <1>1 DEF cronVars
  <2>2. UNCHANGED Earliest(MovedStart)
    BY <2>1 DEF Earliest, MovedStart, StartLocal, StopLocal, Outwards
  <2>. QED
    BY <1>7, <1>9, <2>1, <2>2 DEF WalkAt
<1>11. cron.cur = u
  <2>1. result.call.out # <<>>
    <3>1. PICK o \in Seq(Int) : o = result.call.out /\ Len(o) = 1
      BY <1>1, <1>2
    <3>2. o # <<>>
      BY <3>1
    <3>. QED
      BY <3>1, <3>2
  <2>2. result.call # Idle
    BY <2>1, SilentTyped
  <2>3. cron.cur = CursorOf(result.call)
    BY <1>1, <2>2 DEF ObjectInv, AtRest
  <2>. QED
    BY <1>1, <1>3, <2>1, <2>3 DEF CursorOf
<1>12. PICK start \in Int : start = Earliest(MovedStart)
  BY <1>1
<1>13. \A i \in 1..Len(s) :
          /\ Ordered(s[i], u, ~walk.forward)
          /\ Ordered(start, s[i], ~walk.forward) /\ Within(s[i])
  <2>1. SUFFICES ASSUME NEW i \in 1..Len(s)
                 PROVE  /\ Ordered(s[i], u, ~walk.forward)
                        /\ Ordered(start, s[i], ~walk.forward) /\ Within(s[i])
    OBVIOUS
  <2>2. Ordered(start, s[i], ~walk.forward) /\ Within(s[i])
    BY <1>6, <1>12 DEF WalkInv, YieldsInOrder
  <2>3. s # <<>> /\ at = s[Len(s)] /\ Len(s) \in 1..Len(s)
    <3>1. Len(s) # 0
      BY <1>7
    <3>. QED
      BY <1>4, <1>6, <1>7, <3>1 DEF WalkAt
  <2>4. i # Len(s) => Ordered(s[i], at, ~walk.forward)
    <3>1. i # Len(s) => i < Len(s)
      BY <1>7
    <3>. QED
      BY <1>6, <2>3, <3>1 DEF WalkInv, YieldsInOrder
  <2>5. s[i] \in Int
    BY <1>7
  <2>. QED
    BY <1>5, <2>2, <2>3, <2>4, <2>5 DEF Ordered
<1>14. Ordered(start, u, ~walk.forward)
  <2>1. CASE s = <<>>
    BY <1>4, <1>5, <1>6, <1>12, <2>1 DEF WalkAt
  <2>2. CASE s # <<>>
    <3>1. 1 \in 1..Len(s)
      BY <1>6, <1>7, <2>2, EmptySeq
    <3>2. s[1] \in Int
      BY <1>7, <3>1
    <3>. QED
      BY <1>13, <3>1, <3>2 DEF Ordered
  <2>. QED
    BY <2>1, <2>2
<1>15. YieldsInOrder'
  <2>1. \A i \in 1..Len(t) : Ordered(start, t[i], ~walk.forward) /\ Within(t[i])
    <3>1. \A i \in 1..Len(t) : i \in 1..Len(s) \/ i = Len(t)
      BY <1>7
    <3>. QED
      BY <1>5, <1>7, <1>13, <1>14, <3>1
  <2>2. \A i, j \in 1..Len(t) : i < j => Ordered(t[i], t[j], ~walk.forward)
    <3>1. SUFFICES ASSUME NEW i \in 1..Len(t), NEW j \in 1..Len(t), i < j
                   PROVE  Ordered(t[i], t[j], ~walk.forward)
      OBVIOUS
    <3>2. i \in 1..Len(s) /\ (j \in 1..Len(s) \/ j = Len(t))
      BY <1>7, <3>1
    <3>3. CASE j = Len(t)
      BY <1>7, <1>13, <3>2, <3>3
    <3>4. CASE j \in 1..Len(s)
      BY <1>6, <1>7, <3>1, <3>2, <3>4 DEF WalkInv, YieldsInOrder
    <3>. QED
      BY <3>2, <3>3, <3>4
  <2>3. \A x : Within(x)' <=> Within(x)
    BY <1>9 DEF Within
  <2>. QED
    BY <1>9, <1>10, <1>12, <2>1, <2>2, <2>3 DEF YieldsInOrder, Within
<1>. QED
  BY <1>1, <1>9, <1>10, <1>11, <1>15 DEF WalkInv

\* A step that yields nothing leaves the order of what was yielded.
LEMMA OrderStays ==
    ASSUME YieldsInOrder, asked' = asked, walk'.out = walk.out,
           walk'.forward = walk.forward, walk'.stop_ts = walk.stop_ts
    PROVE  YieldsInOrder' /\ WalkAt' = WalkAt /\ UNCHANGED Earliest(MovedStart)
<1>1. UNCHANGED Earliest(MovedStart)
  BY DEF Earliest, MovedStart, StartLocal, StopLocal, Outwards
<1>. QED
  BY <1>1 DEF YieldsInOrder, WalkAt, Within

\* A walk that ends, or never starts.
LEMMA WalkEnds ==
    ASSUME ObjectInv, WalkInv, UNCHANGED <<cronVars, asked>>,
           walk' \in Walks, walk'.stage \in {"refused", "done"}, walk'.out = walk.out,
           walk'.forward = walk.forward, walk'.stop_ts = walk.stop_ts
    PROVE  ObjectInv' /\ WalkInv'
<1>1. ObjectInv'
  BY ObjectRests
<1>2. YieldsInOrder'
  BY OrderStays DEF WalkInv
<1>. QED
  BY <1>1, <1>2 DEF WalkInv

LEMMA BuildStep ==
    ASSUME ObjectInv, WalkInv, asked \in Ranges, Build
    PROVE  ObjectInv' /\ WalkInv'
<1>1. /\ walk.stage = "asked" /\ asked' = asked /\ walk \in Walks
      /\ call = Idle /\ call' = Idle /\ result = Silent /\ result' = Silent
      /\ walk.out = <<>> /\ Locals(cron', "done")
  BY DEF Build, WalkInv
<1>2. PICK start \in Int, stop \in Int : start = Earliest(MovedStart) /\ stop = Earliest(MovedStop)
  BY MovedTyped, EarliestTyped DEF Build
<1>3. cron' = [cron EXCEPT !.cur = start]
      /\ walk' = [walk EXCEPT !.stage = "ready", !.forward = MovedStart < MovedStop, !.stop_ts = stop]
  BY <1>2 DEF Build
<1>4. PICK c \in Crons : c = cron' /\ c.cur = start
  BY <1>3 DEF ObjectInv, Fields, Crons
<1>5. ObjectInv'
  BY <1>1, <1>4, SilentTyped, NothingOnward, RestStep
<1>6. walk' \in Walks /\ walk'.stage = "ready" /\ walk'.out = <<>>
  <2>1. PICK forward : forward = (MovedStart < MovedStop)
    OBVIOUS
  <2>2. forward \in BOOLEAN
    BY <2>1, MovedTyped
  <2>3. walk' = [walk EXCEPT !.stage = "ready", !.forward = forward, !.stop_ts = stop]
    BY <1>3, <2>1
  <2>. QED
    BY <1>1, <1>2, <2>2, <2>3 DEF Walks
<1>7. Earliest(MovedStart)' = start
  BY <1>1, <1>2 DEF Earliest, MovedStart, StartLocal, StopLocal, Outwards
<1>8. WalkAt' = start /\ YieldsInOrder'
  BY <1>6, <1>7 DEF WalkAt, YieldsInOrder
<1>. QED
  BY <1>1, <1>4, <1>5, <1>6, <1>7, <1>8 DEF WalkInv

LEMMA NextCalledStep ==
    ASSUME ObjectInv, WalkInv, asked \in Ranges, NextCalled
    PROVE  ObjectInv' /\ WalkInv'
<1>1. /\ walk.stage = "ready" /\ walk \in Walks /\ walk.forward \in BOOLEAN
      /\ call = Idle /\ cron.cur = WalkAt /\ Earliest(MovedStart) \in Int
      /\ asked' = asked /\ walk' = [walk EXCEPT !.stage = "stepping"]
      /\ cron \in Crons /\ YieldsInOrder
  BY DEF NextCalled, WalkInv, Walks, ObjectInv, Fields
<1>2. PICK back \in BOOLEAN : back = ~walk.forward /\ Begin(cron, "get", back, TRUE, 1)
  <2>1. CASE walk.forward = TRUE
    BY <2>1 DEF NextCalled, GetNext
  <2>2. CASE walk.forward = FALSE
    BY <2>2 DEF NextCalled, GetPrev
  <2>. QED
    BY <1>1, <2>1, <2>2
<1>3. /\ ObjectInv' /\ call' # Idle /\ cron' = [cron EXCEPT !.is_prev = back]
      /\ call' = [op |-> "get", from |-> cron.cur, update |-> TRUE, n |-> 1, out |-> <<>>]
  <2>1. 1 \in Nat \ {0} /\ TRUE \in BOOLEAN
    OBVIOUS
  <2>. QED
    BY <1>1, <1>2, <2>1, BeginStep, Zenon
<1>4. cron'.is_prev = back
  BY <1>1, <1>3 DEF Crons
<1>5. /\ walk' \in Walks /\ walk'.stage = "stepping" /\ walk'.out = walk.out
      /\ walk'.forward = walk.forward /\ walk'.stop_ts = walk.stop_ts
  BY <1>1 DEF Walks
<1>6. YieldsInOrder' /\ WalkAt' = WalkAt /\ UNCHANGED Earliest(MovedStart)
  BY <1>1, <1>5, OrderStays
<1>. QED
  BY <1>1, <1>2, <1>3, <1>4, <1>5, <1>6 DEF WalkInv

LEMMA SteppingStep ==
    ASSUME ObjectInv, WalkInv, asked \in Ranges, Stepping
    PROVE  ObjectInv' /\ WalkInv'
<1>1. /\ walk.stage = "stepping" /\ call # Idle /\ walk' = walk /\ asked' = asked
      /\ call.out = <<>> /\ call.n = 1 /\ call.op = "get" /\ call.update = TRUE
      /\ call.from = WalkAt /\ cron.is_prev = ~walk.forward
      /\ walk \in Walks /\ Earliest(MovedStart) \in Int
  <2>1. call.update \in BOOLEAN
    BY DEF ObjectInv, Fields, Calls
  <2>. QED
    BY <2>1 DEF Stepping, WalkInv
<1>2. YieldsInOrder' /\ WalkAt' = WalkAt /\ UNCHANGED Earliest(MovedStart)
  BY <1>1, OrderStays DEF WalkInv
<1>3. CASE Searching
  <2>1. ObjectInv' /\ call' = call /\ cron' = cron
    BY <1>3, SearchingStep
  <2>. QED
    BY <1>1, <1>2, <2>1 DEF WalkInv
<1>4. CASE FoundLast
  <2>1. ObjectInv' /\ call' = Idle
    BY <1>1, <1>4, FoundLastStep
  <2>2. PICK u \in reply.at : cron' = Moved(u) /\ Finish("ok", Taken(u))
    BY <1>4 DEF FoundLast
  <2>3. result'.call = Taken(u) /\ result'.is_prev = cron.is_prev
    BY <2>2 DEF Finish
  <2>4. Len(result'.call.out) = 1 /\ result'.call.update /\ result'.call.from = WalkAt
    BY <1>1, <2>3, TakenStep
  <2>. QED
    BY <1>1, <1>2, <2>1, <2>3, <2>4 DEF WalkInv
<1>5. CASE Fails
  <2>1. ObjectInv' /\ call' = Idle
    BY <1>1, <1>5, NothingFoundStep
  <2>2. result'.kind # "ok"
    BY <1>5 DEF Fails, Finish, CalcErrors
  <2>. QED
    BY <1>1, <1>2, <2>1, <2>2 DEF WalkInv
<1>. QED
  BY <1>3, <1>4, <1>5 DEF Stepping

LEMMA RangeStep ==
    ASSUME ObjectInv, WalkInv, asked \in Ranges, RangeNext
    PROVE  ObjectInv' /\ WalkInv'
<1>1. walk \in Walks
  BY DEF WalkInv
<1>2. CASE Refuse
  <2>1. /\ walk' \in Walks /\ walk'.stage = "refused" /\ walk'.out = walk.out
        /\ walk'.forward = walk.forward /\ walk'.stop_ts = walk.stop_ts
    BY <1>1, <1>2 DEF Refuse, Walks
  <2>. QED
    BY <1>2, <2>1, WalkEnds DEF Refuse
<1>3. CASE Passed
  <2>1. /\ walk' \in Walks /\ walk'.stage = "done" /\ walk'.out = walk.out
        /\ walk'.forward = walk.forward /\ walk'.stop_ts = walk.stop_ts
    BY <1>1, <1>3 DEF Passed, Walks
  <2>. QED
    BY <1>3, <2>1, WalkEnds DEF Passed
<1>4. CASE RunsOut
  <2>1. PICK error \in {"none"} \cup CalcErrors :
           walk' = [walk EXCEPT !.stage = "done", !.error = error]
    BY <1>4 DEF RunsOut
  <2>2. /\ walk' \in Walks /\ walk'.stage = "done" /\ walk'.out = walk.out
        /\ walk'.forward = walk.forward /\ walk'.stop_ts = walk.stop_ts
    BY <1>1, <2>1 DEF Walks
  <2>. QED
    BY <1>4, <2>2, WalkEnds DEF RunsOut
<1>5. CASE Yield
  BY <1>5, YieldStep, ObjectRests DEF Yield
<1>. QED
  BY <1>2, <1>3, <1>4, <1>5, BuildStep, NextCalledStep, SteppingStep DEF RangeNext

(***************************************************************************)
(* A match.                                                                *)
(***************************************************************************)

\* Division by a number and multiples of it.
LEMMA Quotient ==
    ASSUME NEW n \in Nat \ {0}, NEW x \in Int
    PROVE  x \div n \in Int /\ x % n \in 0..(n - 1) /\ x = n * (x \div n) + (x % n)
  OBVIOUS

LEMMA QuotientIs ==
    ASSUME NEW n \in Nat \ {0}, NEW x \in Int, NEW q \in Int, NEW r \in 0..(n - 1), x = n * q + r
    PROVE  x \div n = q
  OBVIOUS

LEMMA Multiples ==
    ASSUME NEW n \in Nat \ {0}, NEW p \in Int, NEW q \in Int
    PROVE  /\ n * p \in Int /\ n * (p - q) = n * p - n * q /\ n * (p + q) = n * p + n * q
           /\ p < q => n * p + n <= n * q
           /\ p <= q => n * p <= n * q
  OBVIOUS

\* Whole seconds between the probe and a fire before it, compared with whole
\* seconds of the range: what they say of the ticks.
LEMMA SecondsReach ==
    ASSUME NEW n \in Nat \ {0}, NEW k \in Int, NEW from \in Int, NEW to \in Int, NEW f \in Int,
           NEW probe \in Int, to <= probe,
           (probe - f) \div n < ((to - from) \div n) + k
    PROVE  from < f + n * k
<1>1. PICK a \in Int, ra \in 0..(n - 1) : a = (probe - f) \div n /\ probe - f = n * a + ra
  BY Quotient
<1>2. PICK b \in Int, rb \in 0..(n - 1) : b = (to - from) \div n /\ to - from = n * b + rb
  BY Quotient
<1>3. a < b + k
  BY <1>1, <1>2
<1>4. n * a + n <= n * (b + k) /\ n * (b + k) = n * b + n * k
  BY <1>3, Multiples
<1>5. n * a \in Int /\ n * b \in Int /\ n * k \in Int
  BY Multiples
<1>6. PICK x \in Int, y \in Int, z \in Int : x = n * a /\ y = n * b /\ z = n * k
  BY <1>5
<1>. QED
  BY <1>1, <1>2, <1>4, <1>6

\* And of whole seconds, when the probe is a tick past one.
LEMMA WholeSecondsReach ==
    ASSUME NEW n \in Nat \ {0, 1}, NEW k \in Int, NEW from \in Int, NEW to \in Int, NEW f \in Int,
           NEW probe \in Int, probe = to + 1,
           from % n = 0, to % n = 0, f % n = 0, from < f + n * k
    PROVE  (probe - f) \div n < ((to - from) \div n) + k
<1>1. n \in Nat \ {0}
  OBVIOUS
<1>2. ASSUME NEW x \in Int, x % n = 0 PROVE \E q \in Int : x = n * q
  <2>1. x \div n \in Int /\ x = n * (x \div n) + 0
    BY <1>1, <1>2, Quotient
  <2>2. n * (x \div n) \in Int
    BY <1>1, <2>1, Multiples
  <2>. QED
    BY <2>1, <2>2
<1>3. PICK c \in Int : from = n * c
  BY <1>2
<1>4. PICK d \in Int : to = n * d
  BY <1>2
<1>5. PICK e \in Int : f = n * e
  BY <1>2
<1>6. (probe - f) \div n = d - e
  <2>1. probe - f = n * (d - e) + 1 /\ 1 \in 0..(n - 1) /\ d - e \in Int /\ probe - f \in Int
    BY <1>1, <1>4, <1>5, Multiples
  <2>. QED
    BY <1>1, <2>1, QuotientIs
<1>7. (to - from) \div n = d - c
  <2>1. to - from = n * (d - c) + 0 /\ 0 \in 0..(n - 1) /\ d - c \in Int /\ to - from \in Int
    BY <1>1, <1>3, <1>4, Multiples
  <2>. QED
    BY <1>1, <2>1, QuotientIs
<1>8. SUFFICES ASSUME ~ (d - e < (d - c) + k) PROVE FALSE
  BY <1>6, <1>7
<1>9. e + k <= c
  BY <1>8
<1>10. n * (e + k) <= n * c /\ n * (e + k) = n * e + n * k
  BY <1>1, <1>9, Multiples
<1>. QED
  BY <1>1, <1>3, <1>5, <1>10, Multiples

\* The fires before the probe that a search sees, and the last of them.
Behind    == {f \in cron.sched.fires : f < Probe /\ Gap(f, Probe) <= cron.horizon}
Latest(f) == f \in Behind /\ \A g \in Behind : g <= f

\* A fire before the probe is one not after the later end.
LEMMA TouchingIsBehind ==
    ASSUME cron \in Crons, test.to \in Int
    PROVE  Probe \in Int /\ Touching \subseteq Behind /\ Behind \subseteq Int
<1>1. Second \in Nat \ {0, 1} /\ \A f \in cron.sched.fires : f \in Int /\ f % Second = 0
  BY MatchAssumption, TailAssumption DEF Crons
<1>2. Probe \in Int /\ ((Probe = test.to /\ test.to % Second # 0) \/ Probe = test.to + 1)
  BY <1>1 DEF Probe
<1>3. ASSUME NEW f \in Touching PROVE f \in Behind
  <2>1. f \in cron.sched.fires /\ f <= test.to /\ Gap(f, Probe) <= cron.horizon
    BY DEF Touching
  <2>2. f < Probe
    BY <1>1, <1>2, <2>1
  <2>. QED
    BY <2>1, <2>2 DEF Behind
<1>. QED
  BY <1>1, <1>2, <1>3 DEF Behind

\* What the comparison of seconds says of the fires in question.
LEMMA CompareTells ==
    ASSUME cron \in Crons, test.from \in Int, test.to \in Int, test.from <= test.to,
           NEW f, Latest(f), result.call.out[1] = f
    PROVE  /\ Distance < Duration => Touching # {}
           /\ ~ (Distance < Duration) /\ WholeSecond(test.from) /\ WholeSecond(test.to)
                 => Touching = {}
<1>1. Second \in Nat \ {0, 1} /\ Minute \in Nat \ {0} /\ Minute % Second = 0
  BY MatchAssumption, TimeZoneAssumption
<1>2. /\ Probe \in Int /\ f \in Int /\ f < Probe /\ f % Second = 0
      /\ f \in cron.sched.fires /\ Gap(f, Probe) <= cron.horizon
  BY TouchingIsBehind, MatchAssumption DEF Latest, Behind, Crons
<1>3. PICK k \in Int : k = Precision /\ Lasts = Second * k
  <2>1. CASE cron.sched.secs
    BY <1>1, <2>1 DEF Precision, Lasts
  <2>2. CASE ~cron.sched.secs
    <3>1. PICK q \in Int : q = Minute \div Second /\ Minute = Second * q + (Minute % Second)
      <4>1. Minute \in Int
        BY <1>1
      <4>2. /\ Minute \div Second \in Int
            /\ Minute = Second * (Minute \div Second) + (Minute % Second)
        BY <1>1, <4>1, Quotient, Zenon
      <4>. QED
        BY <4>2
    <3>2. Second * q \in Int
      BY <1>1
    <3>3. Minute = Second * q
      BY <1>1, <3>1, <3>2
    <3>4. Precision = q /\ Lasts = Minute
      BY <2>2, <3>1 DEF Precision, Lasts
    <3>. QED
      BY <3>3, <3>4
  <2>. QED
    BY <2>1, <2>2
<1>4. Distance = (Probe - f) \div Second
  <2>1. Gap(Probe, f) = Probe - f /\ Probe - f >= 0
    BY <1>2 DEF Gap
  <2>. QED
    BY <2>1 DEF Distance, Seconds
<1>5. Duration = ((test.to - test.from) \div Second) + k
  <2>1. test.to - test.from >= 0
    OBVIOUS
  <2>. QED
    BY <1>3, <2>1 DEF Duration, Seconds
<1>6. Distance < Duration => test.from < f + Lasts /\ f <= test.to
  <2>1. test.to <= Probe /\ f <= test.to
    BY <1>1, <1>2 DEF Probe
  <2>2. (Probe - f) \div Second < ((test.to - test.from) \div Second) + k
            => test.from < f + Second * k
    BY <1>1, <1>2, <2>1, SecondsReach
  <2>. QED
    BY <1>3, <1>4, <1>5, <2>1, <2>2
<1>7. WholeSecond(test.from) /\ WholeSecond(test.to) /\ test.from < f + Lasts
            => Distance < Duration
  <2>1. SUFFICES ASSUME test.from % Second = 0, test.to % Second = 0, test.from < f + Second * k
                 PROVE  Distance < Duration
    BY <1>3 DEF WholeSecond
  <2>2. Probe = test.to + 1
    BY <2>1 DEF Probe
  <2>3. (Probe - f) \div Second < ((test.to - test.from) \div Second) + k
    BY <1>1, <1>2, <2>1, <2>2, WholeSecondsReach
  <2>. QED
    BY <1>4, <1>5, <2>3
<1>8. Distance < Duration => f \in Touching
  BY <1>2, <1>6 DEF Touching
<1>9. ASSUME NEW g \in Touching PROVE test.from < f + Lasts
  <2>1. g \in Behind /\ g \in Int /\ test.from < g + Lasts
    BY TouchingIsBehind DEF Touching
  <2>2. g <= f
    BY <2>1 DEF Latest
  <2>3. Lasts \in Int
    BY <1>1 DEF Lasts
  <2>. QED
    BY <1>2, <2>1, <2>2, <2>3
<1>. QED
  BY <1>7, <1>8, <1>9

\* A search back from the probe finds the last of the fires behind it, or
\* nothing when there are none.
LEMMA SearchBack ==
    ASSUME cron \in Crons, test.to \in Int, NEW a,
           a.sched = cron.sched, a.horizon = cron.horizon, a.isPrev = TRUE
    PROVE  /\ \A f \in calc_next(a, Probe) : Latest(f)
           /\ calc_next(a, Probe) = {} => Behind = {}
<1>1. PICK p \in Int, h \in Nat : p = Probe /\ h = cron.horizon
  BY TouchingIsBehind, TailAssumption DEF Crons
<1>2. Behind \subseteq Int
  BY TouchingIsBehind
<1>3. Behind = {f \in a.sched.fires : is_successor(f, p, a.isPrev) /\ Gap(f, p) <= a.horizon}
  BY <1>1 DEF Behind, is_successor
<1>4. calc_next(a, p) = {f \in Behind : \A g \in Behind : Gap(f, p) <= Gap(g, p)}
  BY <1>3 DEF calc_next
<1>5. ASSUME NEW f \in Behind, NEW g \in Behind
      PROVE  Gap(f, p) <= Gap(g, p) <=> g <= f
  <2>1. f \in Int /\ g \in Int /\ f < p /\ g < p
    BY <1>1, <1>2 DEF Behind
  <2>. QED
    BY <2>1 DEF Gap
<1>6. calc_next(a, p) = {f \in Behind : Latest(f)}
  BY <1>4, <1>5 DEF Latest
<1>7. ASSUME Behind # {} PROVE \E f \in Behind : Latest(f)
  <2>1. ASSUME NEW f \in Behind PROVE f \in (p - h) .. p
    <3>1. f \in Int /\ f < p /\ Gap(f, p) <= h
      BY <1>1, <1>2 DEF Behind
    <3>. QED
      BY <3>1 DEF Gap
  <2>2. Behind \in SUBSET ((p - h) .. p) /\ p - h \in Int
    BY <2>1
  <2>3. Max(Behind) \in Behind /\ \A y \in Behind : y <= Max(Behind)
    BY <1>7, <2>2, MinMax
  <2>. QED
    BY <2>3 DEF Latest
<1>. QED
  BY <1>1, <1>6, <1>7

\* A match asks its object once, from the probe and backwards; what the
\* search finds, the call returns.
MatchInv ==
    /\ test \in [from : Int, to : Int, answer : {"none", "yes", "no", "error"}]
    /\ cron.zone = NoTz
    /\ call # Idle =>
          /\ call.op = "get" /\ call.n = 1 /\ call.out = <<>> /\ test.answer = "none"
          /\ cron.cur = Probe /\ cron.is_prev = TRUE /\ pc \in {"first", "done"}
          /\ pc = "done" => \/ \E f \in Behind : Latest(f) /\ reply = Instant(f)
                            \/ Behind = {} /\ \E e \in CalcErrors : reply = Failure(e)
    /\ call = Idle /\ result # Silent =>
          \/ \E f \in Behind : Latest(f) /\ result.kind = "ok" /\ result.call.out = <<f>>
          \/ Behind = {} /\ result.kind \in CalcErrors
    /\ MatchesFires

\* The search answers for the fires behind the probe.
LEMMA LookStep ==
    ASSUME ObjectInv, MatchInv, call # Idle, TailNext
    PROVE  /\ pc' = "done"
           /\ \/ \E f \in Behind : Latest(f) /\ reply' = Instant(f)
              \/ Behind = {} /\ \E e \in CalcErrors : reply' = Failure(e)
<1>1. /\ cron \in Crons /\ test.to \in Int /\ ask = AskOf(cron) /\ ask.zone = NoTz
      /\ pc \in {"first", "done"} /\ ask.now = Probe
  BY DEF ObjectInv, Fields, MatchInv, AskOf
<1>2. /\ \A f \in calc_next(ask, Probe) : Latest(f)
      /\ calc_next(ask, Probe) = {} => Behind = {}
  <2>1. ask.sched = cron.sched /\ ask.horizon = cron.horizon /\ ask.isPrev = TRUE
    BY <1>1 DEF AskOf, MatchInv
  <2>. QED
    BY <1>1, <2>1, SearchBack
<1>3. pc = "first" => SearchFrom = Probe
  <2>1. OffsetAt(NoTz, Probe) = 0 /\ Probe \in Int
    BY <1>1, TouchingIsBehind DEF OffsetAt, NoTz
  <2>. QED
    BY <1>1, <2>1 DEF SearchFrom, now_naive, LocalAt
<1>4. CASE SearchFails
  <2>1. pc = "first" /\ calc_next(ask, SearchFrom) = {}
    BY <1>1, <1>4 DEF SearchFails
  <2>2. PICK e \in CalcErrors : Return(Failure(e))
    BY <1>4 DEF SearchFails
  <2>. QED
    BY <1>2, <1>3, <2>1, <2>2 DEF Return
<1>5. CASE FirstNaive
  <2>1. PICK f \in calc_next(ask, SearchFrom) : Return(Instant(f))
    BY <1>5 DEF FirstNaive
  <2>2. Latest(f)
    BY <1>2, <1>3, <1>5, <2>1 DEF FirstNaive
  <2>. QED
    BY <2>1, <2>2 DEF Return, Latest
<1>6. ~First /\ ~Retry /\ ~GuardStops /\ ~ShiftNone /\ ~Shift
  BY <1>1 DEF First, Retry, GuardStops, ShiftNone, Shift
<1>. QED
  BY <1>4, <1>5, <1>6 DEF TailNext

\* The fires in question are those of the schedule, the bound and the range.
LEMMA QuestionStays ==
    ASSUME cron'.sched = cron.sched, cron'.horizon = cron.horizon,
           test'.from = test.from, test'.to = test.to
    PROVE  /\ Probe' = Probe /\ Behind' = Behind /\ Touching' = Touching
           /\ \A f : Latest(f)' <=> Latest(f)
<1>1. Probe' = Probe
  BY DEF Probe
<1>2. Behind' = Behind
  BY <1>1 DEF Behind
<1>3. Touching' = Touching
  BY <1>1 DEF Touching, Lasts
<1>. QED
  BY <1>1, <1>2, <1>3 DEF Latest

LEMMA AskStep ==
    ASSUME ObjectInv, MatchInv, Ask
    PROVE  ObjectInv' /\ MatchInv'
<1>1. /\ test.to \in Int /\ cron \in Crons /\ test' = test /\ test.answer = "none"
      /\ Begin([cron EXCEPT !.cur = Probe], "get", TRUE, TRUE, 1)
  BY DEF ObjectInv, Fields, MatchInv, Ask
<1>2. Probe \in Int
  BY <1>1, TouchingIsBehind
<1>3. PICK c \in Crons : c = [cron EXCEPT !.cur = Probe]
  BY <1>1, <1>2 DEF Crons
<1>4. /\ ObjectInv' /\ call' # Idle /\ cron' = [c EXCEPT !.is_prev = TRUE] /\ pc' = "first"
      /\ call' = [op |-> "get", from |-> c.cur, update |-> TRUE, n |-> 1, out |-> <<>>]
  <2>1. 1 \in Nat \ {0} /\ TRUE \in BOOLEAN
    OBVIOUS
  <2>2. Begin(c, "get", TRUE, TRUE, 1)
    BY <1>1, <1>3
  <2>. QED
    BY <2>1, <2>2, BeginStep, Zenon
<1>5. /\ cron'.sched = cron.sched /\ cron'.horizon = cron.horizon /\ cron'.zone = cron.zone
      /\ cron'.cur = Probe /\ cron'.is_prev = TRUE
  BY <1>1, <1>2, <1>3, <1>4 DEF Crons
<1>6. Probe' = Probe /\ (MatchesFires' <=> MatchesFires)
  BY <1>1, <1>5, QuestionStays DEF MatchesFires, WholeSecond
<1>. QED
  BY <1>1, <1>4, <1>5, <1>6 DEF MatchInv

LEMMA LookingStep ==
    ASSUME ObjectInv, MatchInv, Looking
    PROVE  ObjectInv' /\ MatchInv'
<1>1. /\ call # Idle /\ call \in Calls /\ call.op = "get" /\ call.n = 1 /\ call.out = <<>>
      /\ test.answer = "none" /\ test' = test /\ cron \in Crons
      /\ cron.cur = Probe /\ cron.is_prev = TRUE /\ pc \in {"first", "done"} /\ cron.zone = NoTz
      /\ test \in [from : Int, to : Int, answer : {"none", "yes", "no", "error"}]
  BY DEF Looking, MatchInv, ObjectInv, Fields
<1>2. pc = "done" => \/ \E f \in Behind : Latest(f) /\ reply = Instant(f)
                     \/ Behind = {} /\ \E e \in CalcErrors : reply = Failure(e)
  BY <1>1 DEF MatchInv
<1>3. MatchesFires
  BY DEF MatchInv
<1>4. CASE Searching
  <2>1. ObjectInv' /\ call' = call /\ cron' = cron /\ result' = result
    BY <1>4, SearchingStep
  <2>2. /\ pc' = "done"
        /\ \/ \E f \in Behind : Latest(f) /\ reply' = Instant(f)
           \/ Behind = {} /\ \E e \in CalcErrors : reply' = Failure(e)
    BY <1>1, <1>4, LookStep DEF Searching
  <2>3. Probe' = Probe /\ Behind' = Behind /\ (\A f : Latest(f)' <=> Latest(f)) /\ MatchesFires'
    BY <1>1, <1>3, <2>1, QuestionStays DEF MatchesFires, WholeSecond
  <2>. QED
    BY <1>1, <2>1, <2>2, <2>3 DEF MatchInv, Latest
<1>5. CASE FoundLast
  <2>1. ObjectInv' /\ call' = Idle /\ result'.kind = "ok"
    BY <1>1, <1>5, FoundLastStep
  <2>2. PICK u \in reply.at : cron' = Moved(u) /\ result'.call = Taken(u)
    BY <1>1, <1>5, FoundLastStep
  <2>3. pc = "done"
    BY <2>2 DEF ObjectInv, TailInv, NoReply
  <2>4. u \in Behind /\ Latest(u)
    BY <1>2, <2>2, <2>3 DEF Instant, Failure
  <2>5. u \in Int
    BY <1>1, <2>4, TouchingIsBehind
  <2>6. result'.call.out = <<u>>
    <3>1. Append(<<>>, u) = <<u>>
      BY <2>5
    <3>. QED
      BY <1>1, <2>2, <3>1, TakenStep
  <2>7. /\ cron'.sched = cron.sched /\ cron'.horizon = cron.horizon /\ cron'.zone = cron.zone
    BY <1>1, <2>2, <2>5 DEF Moved, Crons
  <2>8. Behind' = Behind /\ (\A f : Latest(f)' <=> Latest(f)) /\ MatchesFires'
    BY <1>1, <1>3, <2>7, QuestionStays DEF MatchesFires, WholeSecond
  <2>. QED
    BY <1>1, <2>1, <2>4, <2>6, <2>7, <2>8 DEF MatchInv
<1>6. CASE Fails
  <2>1. ObjectInv' /\ call' = Idle /\ cron' = cron
    BY <1>1, <1>6, NothingFoundStep
  <2>2. reply.kind \in CalcErrors /\ result'.kind = reply.kind
    BY <1>6 DEF Fails, Finish
  <2>3. pc = "done"
    BY <2>2 DEF ObjectInv, TailInv, NoReply, CalcErrors
  <2>4. Behind = {}
    BY <1>2, <2>2, <2>3 DEF Instant, CalcErrors
  <2>5. Behind' = Behind /\ MatchesFires'
    BY <1>1, <1>3, <2>1, QuestionStays DEF MatchesFires, WholeSecond
  <2>. QED
    BY <1>1, <2>1, <2>2, <2>4, <2>5 DEF MatchInv
<1>. QED
  BY <1>4, <1>5, <1>6 DEF Looking

\* The answer is given once, from what the call returned.
LEMMA AnswerStep ==
    ASSUME ObjectInv, MatchInv, Compare \/ NoneBefore \/ HandsOn
    PROVE  ObjectInv' /\ MatchInv'
<1>1. /\ test.answer = "none" /\ call = Idle /\ result # Silent /\ UNCHANGED cronVars
      /\ cron \in Crons /\ cron.zone = NoTz
      /\ test \in [from : Int, to : Int, answer : {"none", "yes", "no", "error"}]
  BY DEF Compare, NoneBefore, HandsOn, Answer, ObjectInv, Fields, MatchInv
<1>2. PICK a \in {"yes", "no", "error"} : Answer(a) /\
           \/ result.kind = "ok" /\ a = IF Distance < Duration THEN "yes" ELSE "no"
           \/ result.kind = "bad_date" /\ a = "no"
           \/ a = "error"
  BY DEF Compare, NoneBefore, HandsOn
<1>3. \/ \E f \in Behind : Latest(f) /\ result.kind = "ok" /\ result.call.out = <<f>>
      \/ Behind = {} /\ result.kind \in CalcErrors
  BY <1>1 DEF MatchInv
<1>4. ObjectInv' /\ call' = Idle /\ result' = result /\ cron' = cron
  BY <1>1, ObjectRests DEF cronVars
<1>5. /\ test' = [test EXCEPT !.answer = a] /\ test'.answer = a
      /\ test'.from = test.from /\ test'.to = test.to
      /\ test' \in [from : Int, to : Int, answer : {"none", "yes", "no", "error"}]
  BY <1>1, <1>2 DEF Answer
<1>6. Behind' = Behind /\ Touching' = Touching /\ \A f : Latest(f)' <=> Latest(f)
  BY <1>4, <1>5, QuestionStays
<1>7. ASSUME test.from <= test.to
      PROVE  /\ a = "yes" => Touching # {}
             /\ a = "no" /\ WholeSecond(test.from) /\ WholeSecond(test.to) => Touching = {}
  <2>1. CASE a = "error"
    BY <2>1
  <2>2. CASE Behind = {} /\ a # "error"
    <3>1. Touching = {}
      BY <1>1, <2>2, TouchingIsBehind
    <3>2. result.kind \in CalcErrors
      BY <1>3, <2>2
    <3>3. a = "no"
      BY <1>2, <2>2, <3>2 DEF CalcErrors
    <3>. QED
      BY <3>1, <3>3
  <2>3. CASE Behind # {} /\ a # "error"
    <3>1. PICK f \in Behind : Latest(f) /\ result.kind = "ok" /\ result.call.out = <<f>>
      BY <1>3, <2>3
    <3>2. result.call.out[1] = f
      BY <3>1
    <3>3. a = IF Distance < Duration THEN "yes" ELSE "no"
      BY <1>2, <2>3, <3>1
    <3>4. /\ Distance < Duration => Touching # {}
          /\ ~ (Distance < Duration) /\ WholeSecond(test.from) /\ WholeSecond(test.to)
                => Touching = {}
      BY <1>1, <1>7, <3>1, <3>2, CompareTells
    <3>. QED
      BY <3>3, <3>4
  <2>. QED
    BY <2>1, <2>2, <2>3
<1>8. MatchesFires'
  BY <1>5, <1>6, <1>7 DEF MatchesFires, WholeSecond
<1>. QED
  BY <1>1, <1>3, <1>4, <1>5, <1>6, <1>8 DEF MatchInv

LEMMA MatchStep ==
    ASSUME ObjectInv, MatchInv, MatchNext
    PROVE  ObjectInv' /\ MatchInv'
  BY AskStep, LookingStep, AnswerStep DEF MatchNext

(***************************************************************************)
(* The object and whoever drives it.                                       *)
(***************************************************************************)

\* An object has one owner.
ClientInv ==
    /\ ObjectInv
    /\ asked \in Ranges \cup {NoRange}
    /\ asked # NoRange => test = NoTest /\ WalkInv
    /\ test # NoTest => MatchInv

LEMMA NewCron ==
    ASSUME NEW d \in Schedules, NEW z \in Zones, NEW u \in Int, NEW p \in BOOLEAN,
           NEW h \in Horizons, NEW e \in BOOLEAN, NEW f \in BOOLEAN
    PROVE  [sched |-> d, zone |-> z, cur |-> u, is_prev |-> p,
            horizon |-> h, explicit |-> e, from_start |-> f] \in Crons
  BY DEF Crons

LEMMA ClientStarts ==
    ASSUME ClientInit
    PROVE  ClientInv
<1>1. CASE CronInit /\ asked = NoRange /\ walk = NotBuilt /\ test = NoTest
  <2>1. PICK d \in Schedules, t \in Starts, p \in BOOLEAN, h \in Horizons,
             e \in BOOLEAN, f \in BOOLEAN :
           cron = [sched |-> d, zone |-> t.zone, cur |-> t.at, is_prev |-> p,
                   horizon |-> h, explicit |-> e, from_start |-> f]
    BY <1>1 DEF CronInit
  <2>2. t.zone \in Zones /\ t.at \in Int
    BY TailAssumption DEF Starts
  <2>3. cron \in Crons
    BY <2>1, <2>2, NewCron
  <2>4. ObjectInv
    BY <1>1, <2>3, ObjectStarts DEF CronInit
  <2>. QED
    BY <1>1, <2>4 DEF ClientInv
<1>2. CASE RangeInit /\ test = NoTest
  <2>1. asked \in Ranges /\ walk = NotBuilt /\ call = Idle /\ result = Silent
    BY <1>2 DEF RangeInit
  <2>2. asked.zone \in Zones /\ asked.from \in Int /\ TRUE \in BOOLEAN /\ FALSE \in BOOLEAN
    BY <2>1, RangeAssumption
  <2>3. PICK d \in Schedules, h \in Horizons :
           cron = [sched |-> d, zone |-> asked.zone, cur |-> asked.from, is_prev |-> FALSE,
                   horizon |-> h, explicit |-> TRUE, from_start |-> FALSE]
    BY <1>2 DEF RangeInit, YearSpan
  <2>4. cron \in Crons
    BY <2>2, <2>3, NewCron
  <2>5. ObjectInv
    BY <1>2, <2>4, ObjectStarts DEF RangeInit
  <2>6. walk \in Walks /\ walk.stage = "asked" /\ walk.out = <<>>
    <3>1. <<>> \in Seq(Int)
      OBVIOUS
    <3>. QED
      BY <2>1, <3>1 DEF NotBuilt, Walks
  <2>7. WalkInv
    BY <2>1, <2>6 DEF WalkInv, YieldsInOrder
  <2>. QED
    BY <1>2, <2>1, <2>5, <2>7 DEF ClientInv
<1>3. CASE MatchInit /\ asked = NoRange /\ walk = NotBuilt
  <2>1. PICK t \in Tests : test = [from |-> t.from, to |-> t.to, answer |-> "none"]
    BY <1>3 DEF MatchInit
  <2>2. test \in [from : Int, to : Int, answer : {"none", "yes", "no", "error"}]
        /\ test.answer = "none" /\ test.to \in Int
    BY <2>1, MatchAssumption
  <2>3. PICK d \in Schedules, h \in Horizons :
           cron = [sched |-> d, zone |-> NoTz, cur |-> test.to, is_prev |-> FALSE,
                   horizon |-> h, explicit |-> FALSE, from_start |-> FALSE]
    BY <1>3 DEF MatchInit
  <2>4. cron \in Crons /\ cron.zone = NoTz
    <3>1. NoTz \in Zones /\ FALSE \in BOOLEAN
      BY MatchAssumption
    <3>. QED
      BY <2>2, <2>3, <3>1, NewCron
  <2>5. ObjectInv /\ call = Idle /\ result = Silent
    BY <1>3, <2>4, ObjectStarts DEF MatchInit
  <2>6. MatchInv
    BY <2>2, <2>4, <2>5 DEF MatchInv, MatchesFires
  <2>. QED
    BY <1>3, <2>5, <2>6 DEF ClientInv
<1>. QED
  BY <1>1, <1>2, <1>3 DEF ClientInit

LEMMA ClientStep ==
    ASSUME ClientInv, [ClientNext]_clientVars
    PROVE  ClientInv'
<1>1. ObjectInv /\ asked \in Ranges \cup {NoRange}
  BY DEF ClientInv
<1>2. CASE Caller
  <2>1. asked = NoRange /\ test = NoTest /\ asked' = asked /\ test' = test
    BY <1>2 DEF Caller
  <2>2. ObjectInv'
    BY <1>1, <1>2, CronStep DEF Caller
  <2>. QED
    BY <1>1, <2>1, <2>2 DEF ClientInv
<1>3. CASE Walker
  <2>1. asked \in Ranges /\ RangeNext /\ WalkInv /\ test = NoTest /\ test' = test
    BY <1>1, <1>3 DEF Walker, ClientInv
  <2>2. ObjectInv' /\ WalkInv'
    BY <1>1, <2>1, RangeStep
  <2>3. asked' = asked
    BY <2>1 DEF RangeNext, Refuse, Build, NextCalled, Stepping, Yield, Passed, RunsOut
  <2>. QED
    BY <1>1, <2>1, <2>2, <2>3 DEF ClientInv
<1>4. CASE Matcher
  <2>1. MatchNext /\ MatchInv /\ asked = NoRange /\ asked' = asked
    BY <1>4 DEF Matcher, ClientInv
  <2>2. ObjectInv' /\ MatchInv'
    BY <1>1, <2>1, MatchStep
  <2>. QED
    BY <1>1, <2>1, <2>2 DEF ClientInv
<1>5. CASE UNCHANGED clientVars
  <2>1. UNCHANGED cronVars /\ asked' = asked /\ walk' = walk /\ test' = test
        /\ call' = call /\ result' = result /\ cron' = cron
    BY <1>5 DEF clientVars, cronVars
  <2>2. ObjectInv'
    BY <1>1, <2>1, ObjectRests
  <2>3. WalkInv => WalkInv'
    <3>1. WalkInv => YieldsInOrder' /\ WalkAt' = WalkAt /\ UNCHANGED Earliest(MovedStart)
      BY <2>1, OrderStays DEF WalkInv
    <3>. QED
      BY <2>1, <3>1 DEF WalkInv
  <2>4. MatchInv => MatchInv'
    <3>1. Probe' = Probe /\ Behind' = Behind /\ Touching' = Touching
          /\ \A f : Latest(f)' <=> Latest(f)
      BY <2>1, QuestionStays
    <3>2. MatchesFires' <=> MatchesFires
      BY <2>1, <3>1 DEF MatchesFires, WholeSecond
    <3>3. pc' = pc /\ reply' = reply
      BY <2>1 DEF cronVars, tailVars
    <3>. QED
      BY <2>1, <3>1, <3>2, <3>3 DEF MatchInv
  <2>. QED
    BY <1>1, <2>1, <2>2, <2>3, <2>4 DEF ClientInv
<1>. QED
  BY <1>2, <1>3, <1>4, <1>5 DEF ClientNext

LEMMA ClientInvariance == ClientSpec => []ClientInv
<1>1. ClientInit => ClientInv
  BY ClientStarts
<1>2. ClientInv /\ [ClientNext]_clientVars => ClientInv'
  BY ClientStep
<1>. QED
  BY <1>1, <1>2, PTL DEF ClientSpec

\* The object's fields, the call under way and its result are what they should
\* be, no call leaves a reply behind, and none takes more than it asked for.
THEOREM CronTypeCorrect == ClientSpec => []CronTypeOK
<1>1. ClientInv => CronTypeOK
  BY DEF ClientInv, ObjectInv, Fields, AtRest, UnderWay, CronTypeOK
<1>. QED
  BY <1>1, ClientInvariance, PTL

\* After any call the cursor of an object is on the last instant the call
\* found, or where it was when there was none or the call was a peek: also
\* when the search failed half way through a list (src/lib.rs, all_from).
THEOREM CursorIsLast == ClientSpec => []CursorFollows
<1>1. ClientInv => CursorFollows
  BY DEF ClientInv, ObjectInv, AtRest, CursorFollows
<1>. QED
  BY <1>1, ClientInvariance, PTL

\* A list of instants goes one way from the cursor it started at, strictly, in
\* any zone: it never repeats an instant, nor turns back, where the zone
\* repeats or skips local times.
GoesOnward ==
    IF call = Idle THEN Onward(result.call, result.is_prev) ELSE Onward(call, cron.is_prev)

THEOREM WalksGoOnward == ClientSpec => []GoesOnward
<1>1. ClientInv => GoesOnward
  BY DEF ClientInv, ObjectInv, AtRest, UnderWay, GoesOnward
<1>. QED
  BY <1>1, ClientInvariance, PTL

\* croniter_range_iter yields instants between the moved ends only, each beyond
\* the one before it: no call of `next` stands still, in any time zone.
THEOREM RangesGoOnward == ClientSpec => [](asked # NoRange => YieldsInOrder)
<1>1. ClientInv => (asked # NoRange => YieldsInOrder)
  BY DEF ClientInv, WalkInv
<1>. QED
  BY <1>1, ClientInvariance, PTL

\* `matches` and `match_range` say yes only when the expression fires in the
\* range or its minute reaches into it, and no only when it does not, for any
\* schedule on whole seconds, any range and any bound.
THEOREM MatchesAreFires == ClientSpec => []MatchesFires
<1>1. ClientInv => MatchesFires
  <2>1. NoTest.answer # "yes" /\ NoTest.answer # "no"
    BY DEF NoTest
  <2>. QED
    BY <2>1 DEF ClientInv, MatchInv, MatchesFires
<1>. QED
  BY <1>1, ClientInvariance, PTL

(***************************************************************************)
(* Walks without gaps.                                                     *)
(***************************************************************************)

LEMMA RegularAskOf ==
    ASSUME AllRegular, NEW c \in Crons
    PROVE  RegularAsk(AskOf(c))
<1>1. c.zone \in Zones /\ c.sched \in Schedules /\ c.horizon \in Horizons
  BY DEF Crons
<1>2. SaneAsk(AskOf(c))
  BY SaneAskOf
<1>3. c.horizon \in Nat
  BY <1>1, TailAssumption
<1>4. AskOf(c).zone = c.zone /\ AskOf(c).sched = c.sched /\ AskOf(c).horizon = c.horizon
  BY DEF AskOf
<1>. QED
  BY <1>1, <1>2, <1>3, <1>4 DEF AllRegular, RegularAsk

\* Where an object fires does not depend on its cursor.
LEMMA FiresStay ==
    ASSUME cron'.zone = cron.zone, cron'.sched = cron.sched
    PROVE  Fires' = Fires
<1>1. /\ AskOf(cron').zone = AskOf(cron).zone /\ AskOf(cron').sched = AskOf(cron).sched
  BY DEF AskOf
<1>. QED
  BY <1>1 DEF Fires, FiringAt

\* The next instant after u of those at which something fires.
NextOf(F, u, v, isPrev) ==
    /\ v \in F /\ Ordered(u, v, isPrev)
    /\ \A w \in F : ~ (Ordered(u, w, isPrev) /\ Ordered(w, v, isPrev))

\* Each instant of a walk is the next one after the one before.
Gapless(F, w, isPrev) ==
    \A i \in 1..Len(w.out) :
        NextOf(F, IF i = 1 \/ ~w.update THEN w.from ELSE w.out[i - 1], w.out[i], isPrev)

\* The search under way is right, and what it has found, and what the call
\* before has left unless the object has another zone since.
WalksInv ==
    /\ TailPath
    /\ call # Idle => Gapless(Fires, call, cron.is_prev)
    /\ call.op # "from" => Gapless(Fires, result.call, result.is_prev)
    /\ result.kind = "ok" /\ result.call.op \in {"get", "from"} => result.call.out # <<>>

\* A search from a cursor begins well.
LEMMA LocalsPath ==
    ASSUME NEW c, NEW p \in {"first", "done"}, Locals(c, p)
    PROVE  TailPath'
  BY DEF Locals, TailPath

LEMMA NothingGapless ==
    ASSUME NEW F, NEW w, w.out = <<>>, NEW isPrev
    PROVE  Gapless(F, w, isPrev)
  BY DEF Gapless

\* What a search has found is the next firing instant after the cursor.
LEMMA FoundNext ==
    ASSUME AllRegular, ObjectInv, TailPath, NEW u \in reply.at
    PROVE  NextOf(Fires, cron.cur, u, cron.is_prev)
<1>1. u \in Int /\ cron \in Crons /\ cron.cur \in Int /\ cron.is_prev \in BOOLEAN
  BY FoundBeyond DEF ObjectInv, Fields, Crons
<1>2. reply # NoReply
  BY DEF NoReply
<1>3. u \in FiringAhead(ask) /\ \A w \in FiringAhead(ask) : Gap(u, ask.now) <= Gap(w, ask.now)
  <2>1. reply \in TailAnswers(ask)
    BY <1>2 DEF TailPath
  <2>2. \A e : Failure(e).at = {}
    BY DEF Failure
  <2>3. \A v : Instant(v).at = {v}
    BY DEF Instant
  <2>. QED
    BY <2>1, <2>2, <2>3 DEF TailAnswers
<1>4. ask.now = cron.cur /\ ask.isPrev = cron.is_prev /\ Fires = FiringAt(ask)
  BY DEF ObjectInv, AskOf, Fires
<1>5. u \in Fires /\ Ordered(cron.cur, u, cron.is_prev)
  BY <1>3, <1>4, FoundBeyond DEF FiringAhead
<1>6. ASSUME NEW w \in Fires, Ordered(cron.cur, w, cron.is_prev), Ordered(w, u, cron.is_prev)
      PROVE  FALSE
  <2>1. is_successor(w, ask.now, ask.isPrev)
    BY <1>4, <1>6 DEF Ordered, is_successor
  <2>2. Gap(u, cron.cur) <= Gap(w, cron.cur)
    BY <1>3, <1>4, <2>1 DEF FiringAhead
  <2>3. w \in Int
    BY <1>1, RegularAskOf, FiringIs DEF Fires
  <2>. QED
    BY <1>1, <1>5, <1>6, <2>2, <2>3 DEF Gap, Ordered
<1>. QED
  BY <1>5, <1>6 DEF NextOf

\* The instant taken is the next one after the cursor.
LEMMA TakenGapless ==
    ASSUME ObjectInv, call # Idle, NEW u \in reply.at, NEW F,
           Gapless(F, call, cron.is_prev), NextOf(F, cron.cur, u, cron.is_prev)
    PROVE  Gapless(F, Taken(u), cron.is_prev)
<1>1. call \in Calls /\ cron.cur = CursorOf(call)
  BY DEF ObjectInv, Fields, UnderWay
<1>2. PICK s, t : s = call.out /\ t = Append(s, u)
  OBVIOUS
<1>3. u \in Int /\ s \in Seq(Int) /\ Len(s) \in Nat
  BY <1>1, <1>2, FoundBeyond DEF Calls
<1>4. Len(t) = Len(s) + 1 /\ t[Len(s) + 1] = u /\ \A i \in 1..Len(s) : t[i] = s[i]
  BY <1>2, <1>3
<1>5. Len(s) \in Nat
  BY <1>3
<1>6. Taken(u).out = t /\ Taken(u).from = call.from /\ Taken(u).update = call.update
  BY <1>2, TakenStep
<1>7. SUFFICES ASSUME NEW i \in 1..Len(t)
               PROVE  NextOf(F, IF i = 1 \/ ~call.update THEN call.from ELSE t[i - 1], t[i], cron.is_prev)
  BY <1>6 DEF Gapless
<1>8. CASE i \in 1..Len(s)
  <2>1. t[i] = s[i] /\ (i # 1 => t[i - 1] = s[i - 1])
    BY <1>4, <1>5, <1>8
  <2>. QED
    BY <1>2, <1>8, <2>1 DEF Gapless
<1>9. CASE i = Len(s) + 1
  <2>1. t[i] = u
    BY <1>4, <1>9
  <2>2. cron.cur = (IF i = 1 \/ ~call.update THEN call.from ELSE t[i - 1])
    <3>1. CASE s = <<>>
      BY <1>1, <1>2, <1>9, <3>1 DEF CursorOf
    <3>2. CASE s # <<>>
      <4>1. Len(s) # 0 /\ i - 1 = Len(s) /\ i # 1 /\ Len(s) \in 1..Len(s)
        BY <1>3, <1>9, <3>2
      <4>2. t[i - 1] = s[Len(s)]
        BY <1>4, <4>1
      <4>. QED
        BY <1>1, <1>2, <3>2, <4>1, <4>2 DEF CursorOf
    <3>. QED
      BY <3>1, <3>2
  <2>. QED
    BY <2>1, <2>2
<1>. QED
  BY <1>4, <1>5, <1>8, <1>9

\* The start of a call.
LEMMA BeginPath ==
    ASSUME AllRegular, ObjectInv, WalksInv, NEW c \in Crons, NEW op \in {"get", "from", "all"},
           NEW isPrev \in BOOLEAN, NEW update \in BOOLEAN, NEW n \in Nat \ {0},
           Begin(c, op, isPrev, update, n),
           op # "from" => c.zone = cron.zone /\ c.sched = cron.sched
    PROVE  WalksInv'
<1>1. /\ call = Idle /\ call' # Idle /\ result' = result
      /\ call' = [op |-> op, from |-> c.cur, update |-> update, n |-> n, out |-> <<>>]
      /\ cron' = [c EXCEPT !.is_prev = isPrev] /\ Locals(cron', "first")
  BY BeginStep DEF Begin
<1>2. TailPath'
  BY <1>1, LocalsPath
<1>3. Gapless(Fires', call', cron'.is_prev)
  BY <1>1, NothingGapless
<1>4. op # "from" => Fires' = Fires
  <2>1. cron'.zone = c.zone /\ cron'.sched = c.sched
    BY <1>1 DEF Crons
  <2>. QED
    BY <2>1, FiresStay
<1>5. call'.op # "from" => Gapless(Fires', result'.call, result'.is_prev)
  BY <1>1, <1>4 DEF WalksInv, Idle
<1>. QED
  BY <1>1, <1>2, <1>3, <1>5 DEF WalksInv

\* The end of a call, with what it has found.
LEMMA FinishPath ==
    ASSUME WalksInv, NEW kind, NEW done, Finish(kind, done),
           cron'.zone = cron.zone, cron'.sched = cron.sched,
           Gapless(Fires, done, cron.is_prev),
           kind = "ok" /\ done.op \in {"get", "from"} => done.out # <<>>
    PROVE  WalksInv'
<1>1. call' = Idle /\ Locals(cron', "done")
      /\ result' = [kind |-> kind, is_prev |-> cron.is_prev, call |-> done]
  BY DEF Finish
<1>2. TailPath' /\ Fires' = Fires
  BY <1>1, LocalsPath, FiresStay
<1>. QED
  BY <1>1, <1>2 DEF WalksInv

\* A step of a call under way.
LEMMA CallPath ==
    ASSUME AllRegular, ObjectInv, WalksInv, call # Idle,
           Searching \/ FoundMore \/ FoundLast \/ Stops \/ Fails
    PROVE  WalksInv'
<1>1. /\ TailPath /\ Gapless(Fires, call, cron.is_prev)
      /\ call.op # "from" => Gapless(Fires, result.call, result.is_prev)
      /\ result.kind = "ok" /\ result.call.op \in {"get", "from"} => result.call.out # <<>>
  BY DEF WalksInv
<1>2. CASE Searching
  <2>1. TailNext /\ cron' = cron /\ call' = call /\ result' = result
    BY <1>2 DEF Searching
  <2>2. TailInv /\ cron \in Crons /\ ask = AskOf(cron)
    BY DEF ObjectInv, Fields
  <2>3. TailPath'
    BY <1>1, <2>1, <2>2, RegularAskOf, PathStep
  <2>4. Fires' = Fires
    BY <2>1, FiresStay
  <2>. QED
    BY <1>1, <2>1, <2>3, <2>4 DEF WalksInv
<1>3. ASSUME NEW u \in reply.at
      PROVE  /\ Gapless(Fires, Taken(u), cron.is_prev) /\ Taken(u).out # <<>> /\ Taken(u) # Idle
             /\ Moved(u).zone = cron.zone /\ Moved(u).sched = cron.sched
             /\ Moved(u).is_prev = cron.is_prev /\ Taken(u).op = call.op
  <2>1. Gapless(Fires, Taken(u), cron.is_prev)
    BY <1>1, FoundNext, TakenGapless
  <2>2. Taken(u).out # <<>>
    <3>1. call.out \in Seq(Int) /\ u \in Int
      BY FoundBeyond DEF ObjectInv, Fields, Calls
    <3>2. Append(call.out, u) # <<>>
      BY <3>1
    <3>. QED
      BY <3>2, TakenStep
  <2>3. cron \in Crons
    BY DEF ObjectInv, Fields
  <2>4. Moved(u).zone = cron.zone /\ Moved(u).sched = cron.sched
    BY <2>3 DEF Moved, Crons
  <2>. QED
    BY <2>1, <2>2, <2>4, TakenStep
<1>4. CASE FoundMore
  <2>1. PICK u \in reply.at : cron' = Moved(u) /\ call' = Taken(u)
    BY <1>4 DEF FoundMore
  <2>2. Locals(cron', "first") /\ result' = result
    BY <1>4 DEF FoundMore
  <2>3. TailPath' /\ Fires' = Fires
    BY <1>3, <2>1, <2>2, LocalsPath, FiresStay
  <2>. QED
    BY <1>1, <1>3, <2>1, <2>2, <2>3 DEF WalksInv
<1>5. CASE FoundLast
  <2>1. PICK u \in reply.at : cron' = Moved(u) /\ Finish("ok", Taken(u))
    BY <1>5 DEF FoundLast
  <2>. QED
    BY <1>3, <2>1, FinishPath
<1>6. CASE Stops
  <2>1. cron' = cron /\ Finish("ok", call) /\ call.op = "all"
    BY <1>6 DEF Stops, GivesWhatItHas
  <2>. QED
    BY <1>1, <2>1, FinishPath
<1>7. CASE Fails
  <2>1. cron' = cron /\ Finish(reply.kind, call) /\ reply.kind \in CalcErrors
    BY <1>7 DEF Fails
  <2>2. reply.kind # "ok"
    BY <2>1 DEF CalcErrors
  <2>. QED
    BY <1>1, <2>1, <2>2, FinishPath
<1>. QED
  BY <1>2, <1>4, <1>5, <1>6, <1>7

\* Nothing but a cursor is set, or the bound, or the last result.
LEMMA RestPath ==
    ASSUME WalksInv, call = Idle, call' = Idle,
           UNCHANGED tailVars \/ Locals(cron', "done"),
           \/ result' = result /\ cron'.zone = cron.zone /\ cron'.sched = cron.sched
           \/ result'.call = Idle
    PROVE  WalksInv'
<1>1. TailPath'
  <2>1. CASE UNCHANGED tailVars
    BY <2>1 DEF tailVars, TailPath, WalksInv
  <2>2. CASE Locals(cron', "done")
    BY <2>2, LocalsPath
  <2>. QED
    BY <2>1, <2>2
<1>2. CASE result' = result /\ cron'.zone = cron.zone /\ cron'.sched = cron.sched
  BY <1>1, <1>2, FiresStay DEF WalksInv
<1>3. CASE result'.call = Idle
  <2>1. Gapless(Fires', result'.call, result'.is_prev)
    BY <1>3, SilentTyped, NothingGapless
  <2>2. result'.call.op \notin {"get", "from"}
    BY <1>3 DEF Idle
  <2>. QED
    BY <1>1, <2>1, <2>2 DEF WalksInv
<1>. QED
  BY <1>2, <1>3

LEMMA CronPath ==
    ASSUME AllRegular, ObjectInv, WalksInv, CronNext
    PROVE  WalksInv'
<1>1. cron \in Crons
  BY DEF ObjectInv, Fields
<1>2. 1 \in Nat \ {0} /\ TRUE \in BOOLEAN /\ FALSE \in BOOLEAN
  OBVIOUS
<1>3. CASE GetNext \/ GetPrev
  <2>1. PICK p \in BOOLEAN : Begin(cron, "get", p, TRUE, 1)
    BY <1>2, <1>3 DEF GetNext, GetPrev
  <2>. QED
    BY <1>1, <1>2, <2>1, BeginPath, Zenon
<1>4. CASE GetNextFrom \/ GetPrevFrom
  <2>1. PICK t \in Starts, p \in BOOLEAN : Begin(StartAt(cron, t), "from", p, TRUE, 1)
    BY <1>2, <1>4 DEF GetNextFrom, GetPrevFrom
  <2>2. PICK c \in Crons : c = StartAt(cron, t)
    BY StartedTyped
  <2>3. Begin(c, "from", p, TRUE, 1)
    BY <2>1, <2>2
  <2>4. "from" \in {"get", "from", "all"}
    OBVIOUS
  <2>. QED
    BY <1>2, <2>3, <2>4, BeginPath, Zenon
<1>5. CASE AllFrom
  <2>1. PICK n \in Counts \ {0}, isPrev \in BOOLEAN, update \in BOOLEAN :
           Begin(cron, "all", isPrev, update, n)
    BY <1>5 DEF AllFrom
  <2>2. n \in Nat \ {0}
    BY CroniterAssumption
  <2>. QED
    BY <1>1, <2>1, <2>2, BeginPath
<1>6. CASE RefuseFrom \/ AllOfNone
  <2>1. call = Idle /\ call' = Idle /\ UNCHANGED tailVars /\ result'.call = Idle
    BY <1>6, SilentTyped DEF RefuseFrom, AllOfNone
  <2>. QED
    BY <2>1, RestPath
<1>7. CASE SetCurrent
  <2>1. call = Idle /\ call' = Idle /\ Locals(cron', "done") /\ result'.call = Idle
    BY <1>7, SilentTyped DEF SetCurrent
  <2>. QED
    BY <2>1, RestPath
<1>8. CASE SetMaxYears
  <2>1. PICK h \in Horizons : cron' = [cron EXCEPT !.horizon = h]
    BY <1>8 DEF SetMaxYears
  <2>2. cron'.zone = cron.zone /\ cron'.sched = cron.sched
    BY <1>1, <2>1 DEF Crons
  <2>3. call = Idle /\ call' = Idle /\ Locals(cron', "done") /\ result' = result
    BY <1>8 DEF SetMaxYears
  <2>. QED
    BY <2>2, <2>3, RestPath
<1>9. CASE Searching \/ FoundMore \/ FoundLast \/ Stops \/ Fails
  <2>1. call # Idle
    BY <1>9, RepliesToCalls DEF Searching
  <2>. QED
    BY <1>9, <2>1, CallPath
<1>. QED
  BY <1>3, <1>4, <1>5, <1>6, <1>7, <1>8, <1>9 DEF CronNext

LEMMA RangePath ==
    ASSUME AllRegular, ObjectInv, WalkInv, asked \in Ranges, WalksInv, RangeNext
    PROVE  WalksInv'
<1>1. cron \in Crons
  BY DEF ObjectInv, Fields
<1>2. CASE Refuse \/ Yield \/ Passed \/ RunsOut
  <2>1. UNCHANGED cronVars
    BY <1>2 DEF Refuse, Yield, Passed, RunsOut
  <2>2. Fires' = Fires
    BY <2>1, FiresStay DEF cronVars
  <2>. QED
    BY <2>1, <2>2 DEF WalksInv, TailPath, cronVars, tailVars
<1>3. CASE Build
  <2>1. call = Idle /\ call' = Idle /\ result' = result /\ Locals(cron', "done")
    BY <1>3 DEF Build, WalkInv
  <2>2. cron'.zone = cron.zone /\ cron'.sched = cron.sched
    BY <1>1, <1>3 DEF Build, Crons
  <2>. QED
    BY <2>1, <2>2, RestPath
<1>4. CASE NextCalled
  <2>1. PICK p \in BOOLEAN : Begin(cron, "get", p, TRUE, 1)
    BY <1>4 DEF NextCalled, GetNext, GetPrev
  <2>2. 1 \in Nat \ {0} /\ TRUE \in BOOLEAN
    OBVIOUS
  <2>. QED
    BY <1>1, <2>1, <2>2, BeginPath, Zenon
<1>5. CASE Stepping
  <2>1. call # Idle /\ (Searching \/ FoundLast \/ Fails)
    BY <1>5 DEF Stepping
  <2>. QED
    BY <2>1, CallPath
<1>. QED
  BY <1>2, <1>3, <1>4, <1>5 DEF RangeNext

LEMMA MatchPath ==
    ASSUME AllRegular, ObjectInv, MatchInv, WalksInv, MatchNext
    PROVE  WalksInv'
<1>1. cron \in Crons
  BY DEF ObjectInv, Fields
<1>2. CASE Ask
  <2>1. Begin([cron EXCEPT !.cur = Probe], "get", TRUE, TRUE, 1)
    BY <1>2 DEF Ask
  <2>2. test.to \in Int
    BY DEF MatchInv
  <2>3. Probe \in Int
    BY <1>1, <2>2, TouchingIsBehind
  <2>4. PICK c \in Crons : c = [cron EXCEPT !.cur = Probe]
    BY <1>1, <2>3 DEF Crons
  <2>5. c.zone = cron.zone /\ c.sched = cron.sched
    BY <1>1, <2>4 DEF Crons
  <2>6. Begin(c, "get", TRUE, TRUE, 1)
    BY <2>1, <2>4
  <2>7. 1 \in Nat \ {0} /\ TRUE \in BOOLEAN
    OBVIOUS
  <2>. QED
    BY <2>5, <2>6, <2>7, BeginPath, Zenon
<1>3. CASE Looking
  <2>1. call # Idle /\ (Searching \/ FoundLast \/ Fails)
    BY <1>3 DEF Looking
  <2>. QED
    BY <2>1, CallPath
<1>4. CASE Compare \/ NoneBefore \/ HandsOn
  <2>1. UNCHANGED cronVars
    BY <1>4 DEF Compare, NoneBefore, HandsOn, Answer
  <2>2. Fires' = Fires
    BY <2>1, FiresStay DEF cronVars
  <2>. QED
    BY <2>1, <2>2 DEF WalksInv, TailPath, cronVars, tailVars
<1>. QED
  BY <1>2, <1>3, <1>4 DEF MatchNext

LEMMA WalksStart ==
    ASSUME ClientInit
    PROVE  WalksInv
<1>1. call = Idle /\ result = Silent /\ Settled
  BY DEF ClientInit, CronInit, RangeInit, MatchInit
<1>2. TailPath
  BY <1>1 DEF Settled, TailPath
<1>3. Gapless(Fires, result.call, result.is_prev)
  BY <1>1, SilentTyped, NothingGapless
<1>. QED
  BY <1>1, <1>2, <1>3 DEF WalksInv, Silent

LEMMA WalksStep ==
    ASSUME AllRegular, ClientInv, WalksInv, [ClientNext]_clientVars
    PROVE  WalksInv'
<1>1. CASE Caller
  BY <1>1, CronPath DEF Caller, ClientInv
<1>2. CASE Walker
  <2>1. asked \in Ranges /\ WalkInv /\ ObjectInv /\ RangeNext
    BY <1>2 DEF Walker, ClientInv
  <2>. QED
    BY <2>1, RangePath
<1>3. CASE Matcher
  BY <1>3, MatchPath DEF Matcher, ClientInv
<1>4. CASE UNCHANGED clientVars
  <2>1. Fires' = Fires
    BY <1>4, FiresStay DEF clientVars, cronVars
  <2>. QED
    BY <1>4, <2>1 DEF WalksInv, TailPath, clientVars, cronVars, tailVars
<1>. QED
  BY <1>1, <1>2, <1>3, <1>4 DEF ClientNext

LEMMA WalksInvariance ==
    ASSUME AllRegular
    PROVE  ClientSpec => []WalksInv
<1>1. ClientInit => WalksInv
  BY WalksStart
<1>2. ClientInv /\ WalksInv /\ [ClientNext]_clientVars => WalksInv'
  BY WalksStep
<1>. QED
  BY <1>1, <1>2, ClientInvariance, PTL DEF ClientSpec

\* all_next and all_prev neither repeat an instant nor pass one, from the cursor
\* on, also where a zone repeats or skips local times: for any regular zones and
\* schedules, any calls in any order, and a list of any length (src/lib.rs,
\* all_from).
THEOREM WalksAreGapless ==
    ASSUME AllRegular
    PROVE  ClientSpec => []GaplessWalk
<1>1. WalksInv => GaplessWalk
  <2>1. ASSUME NEW w, NEW p, Gapless(Fires, w, p)
        PROVE  \A i \in 1..Len(w.out) :
                  Neighbours(IF i = 1 \/ ~w.update THEN w.from ELSE w.out[i - 1], w.out[i], p)
    BY <2>1 DEF Gapless, NextOf, Neighbours
  <2>2. Idle.op # "from"
    BY DEF Idle
  <2>. QED
    BY <2>1, <2>2 DEF WalksInv, GaplessWalk
<1>. QED
  BY <1>1, WalksInvariance, PTL

\* A step one way and a step back.
LEMMA ThereAndBack ==
    ASSUME NEW F \in SUBSET Int, NEW x \in Int, NEW y \in Int, NEW v \in Int,
           NEW p \in BOOLEAN, NextOf(F, x, y, p), NextOf(F, y, v, ~p)
    PROVE  ~Ordered(x, v, p) /\ (x \in F => v = x)
<1>1. CASE p = TRUE
  BY <1>1 DEF NextOf, Ordered
<1>2. CASE p = FALSE
  BY <1>2 DEF NextOf, Ordered
<1>. QED
  BY <1>1, <1>2

\* A call ends with the instant it has found last, or with none.
LEMMA CallEnds ==
    ASSUME ClientInv, [ClientNext]_clientVars, call # Idle, call' = Idle
    PROVE  /\ FoundLast \/ Stops \/ Fails
           /\ cron'.zone = cron.zone /\ cron'.sched = cron.sched
           /\ result'.call.op = call.op
<1>1. FoundLast \/ Stops \/ Fails
  <2>1. ~ UNCHANGED call /\ ~ FoundMore
    BY TakenStep DEF FoundMore, ClientInv
  <2>2. CASE Caller
    BY <2>1, <2>2
       DEF Caller, CronNext, GetNext, GetPrev, GetNextFrom, RefuseFrom, GetPrevFrom, AllFrom,
           AllOfNone, SetCurrent, SetMaxYears, Searching, Begin
  <2>3. CASE Walker
    BY <2>1, <2>3
       DEF Walker, RangeNext, Refuse, Build, NextCalled, GetNext, GetPrev, Begin, Stepping,
           Searching, Yield, Passed, RunsOut, cronVars
  <2>4. CASE Matcher
    BY <2>1, <2>4
       DEF Matcher, MatchNext, Ask, Begin, Looking, Searching, Compare, NoneBefore, HandsOn,
           Answer, cronVars
  <2>5. CASE UNCHANGED clientVars
    BY <2>1, <2>5 DEF clientVars, cronVars
  <2>. QED
    BY <2>2, <2>3, <2>4, <2>5 DEF ClientNext
<1>2. ObjectInv /\ cron \in Crons
  BY DEF ClientInv, ObjectInv, Fields
<1>3. CASE FoundLast
  <2>1. PICK u \in reply.at : cron' = Moved(u) /\ Finish("ok", Taken(u))
    BY <1>3 DEF FoundLast
  <2>2. Taken(u).op = call.op /\ Moved(u) \in Crons
    BY <1>2, <2>1, TakenStep
  <2>3. Moved(u).zone = cron.zone /\ Moved(u).sched = cron.sched
    BY <1>2 DEF Moved, Crons
  <2>. QED
    BY <1>1, <2>1, <2>2, <2>3 DEF Finish
<1>4. CASE Stops \/ Fails
  BY <1>1, <1>4 DEF Stops, Fails, Finish
<1>. QED
  BY <1>1, <1>3, <1>4

\* A step one way and a step back never end beyond the start, and end on it when
\* it was a fire: for any regular zones and schedules, also across changes of
\* offset (src/lib.rs, get_next and get_prev).
THEOREM StepsAndBack ==
    ASSUME AllRegular
    PROVE  ClientSpec => RoundTrip
<1>1. ASSUME ClientInv, WalksInv, ClientInv', WalksInv', [ClientNext]_clientVars,
             call # Idle, call' = Idle, result.kind = "ok", result'.kind = "ok",
             result.is_prev # result'.is_prev,
             result.call.op \in {"get", "from"}, result'.call.op = "get",
             result'.call.from = result.call.out[1]
      PROVE  /\ ~Ordered(result.call.from, result'.call.out[1], result.is_prev)
             /\ result.call.from \in Fires => result'.call.out[1] = result.call.from
  <2>1. result \in Results /\ result' \in Results /\ cron \in Crons
    BY <1>1 DEF ClientInv, ObjectInv, Fields
  <2>2. result.call \in Calls /\ result'.call \in Calls
        /\ result.is_prev \in BOOLEAN /\ result'.is_prev = ~result.is_prev
    BY <1>1, <2>1 DEF Results
  <2>3. Fires' = Fires /\ call.op = "get"
    BY <1>1, CallEnds, FiresStay
  <2>4. result.call.out # <<>> /\ result'.call.out # <<>>
    BY <1>1 DEF WalksInv
  <2>5. PICK x \in Int, y \in Int, v \in Int :
           x = result.call.from /\ y = result.call.out[1] /\ v = result'.call.out[1]
    <3>1. \A o \in Seq(Int) : o # <<>> => o[1] \in Int
      OBVIOUS
    <3>. QED
      BY <2>2, <2>4, <3>1 DEF Calls
  <2>6. Gapless(Fires, result.call, result.is_prev) /\ Gapless(Fires, result'.call, ~result.is_prev)
    BY <1>1, <2>2, <2>3 DEF WalksInv, Idle
  <2>7. NextOf(Fires, x, y, result.is_prev) /\ NextOf(Fires, y, v, ~result.is_prev)
    <3>1. \A o \in Seq(Int) : o # <<>> => 1 \in 1..Len(o)
      OBVIOUS
    <3>2. 1 \in 1..Len(result.call.out) /\ 1 \in 1..Len(result'.call.out)
      BY <2>2, <2>4, <3>1 DEF Calls
    <3>. QED
      BY <1>1, <2>5, <2>6, <3>2 DEF Gapless
  <2>8. PICK F \in SUBSET Int, p \in BOOLEAN : F = Fires /\ p = result.is_prev
    BY <1>1, <2>1, <2>2, RegularAskOf, FiringIs DEF Fires
  <2>9. ~Ordered(x, v, p) /\ (x \in F => v = x)
    BY <2>7, <2>8, ThereAndBack
  <2>. QED
    BY <2>5, <2>8, <2>9
<1>. QED
  BY <1>1, ClientInvariance, WalksInvariance, PTL DEF ClientSpec, RoundTrip

(***************************************************************************)
(* Where a range ends: what the fires beyond an end, or at it, are to a    *)
(* clock that the changes of the offset move.                              *)
(***************************************************************************)

\* A local time that an instant has alone is passed once.
LEMMA PassedOnce ==
    ASSUME NEW z, SaneZone(z), NEW n \in Int, NEW u \in Int, InstantsAt(z, LocalAt(z, u)) = {u}
    PROVE  /\ n < u => LocalAt(z, n) < LocalAt(z, u)
           /\ u < n => LocalAt(z, u) < LocalAt(z, n)
<1>1. LocalAt(z, u) \in Int /\ LocalAt(z, n) \in Int
  BY LocalIsInt
<1>2. ASSUME NEW w \in Int, LocalAt(z, w) = LocalAt(z, u) PROVE w = u
  <2>1. w \in InstantsAt(z, LocalAt(z, u))
    BY <1>1, <1>2, InstantsOf
  <2>. QED
    BY <2>1
<1>3. n # u => LocalAt(z, n) # LocalAt(z, u)
  BY <1>2
<1>4. ASSUME n < u, LocalAt(z, u) < LocalAt(z, n) PROVE FALSE
  <2>1. PICK w \in Int : w < n /\ LocalAt(z, w) = LocalAt(z, u)
    BY <1>4, ComesAgain
  <2>. QED
    BY <1>2, <1>4, <2>1
<1>5. ASSUME u < n, LocalAt(z, n) < LocalAt(z, u) PROVE FALSE
  <2>1. PICK w \in Int : n < w /\ LocalAt(z, w) = LocalAt(z, u)
    BY <1>5, ComesAgain
  <2>. QED
    BY <1>2, <1>5, <2>1
<1>. QED
  BY <1>1, <1>3, <1>4, <1>5

\* A plain end is an instant again after it was a local time, and so is its
\* neighbour, unless there is none.
LEMMA PlainEnds ==
    ASSUME NEW z, SaneZone(z), NEW u \in Int, PlainEnd(z, u), NEW k \in {-1, 0, 1}
    PROVE  /\ ~Skipped(z, LocalAt(z, u) + k) => Min(InstantsAt(z, LocalAt(z, u) + k)) = u + k
           /\ InstantsAt(z, LocalAt(z, u)) = {u}
<1>1. LocalAt(z, u) \in Int
  BY LocalIsInt
<1>2. ~Skipped(z, LocalAt(z, u) + k) => InstantsAt(z, LocalAt(z, u) + k) = {u + k}
  BY DEF PlainEnd, Skipped
<1>3. Min({u + k}) = u + k
  <2>1. u + k \in Int
    OBVIOUS
  <2>. QED
    BY <2>1 DEF Min
<1>4. InstantsAt(z, LocalAt(z, u)) = {u}
  <2>1. u \in InstantsAt(z, LocalAt(z, u))
    BY <1>1, InstantsOf
  <2>2. LocalAt(z, u) + 0 = LocalAt(z, u) /\ u + 0 = u /\ 0 \in {-1, 0, 1}
    BY <1>1
  <2>3. InstantsAt(z, LocalAt(z, u) + 0) \in {{}, {u + 0}}
    BY <2>2 DEF PlainEnd
  <2>. QED
    BY <2>1, <2>2, <2>3
<1>. QED
  BY <1>2, <1>3, <1>4

\* What a range makes of its ends.
Edge == IF asked.exclude_ends THEN 0 ELSE IF asked.from < asked.to THEN 1 ELSE -1

LEMMA RangeEnds ==
    ASSUME asked \in Ranges, PlainEnd(asked.zone, asked.from), PlainEnd(asked.zone, asked.to),
           ~Skipped(asked.zone, MovedStart), ~Skipped(asked.zone, MovedStop)
    PROVE  /\ asked.from \in Int /\ asked.to \in Int
           /\ Earliest(MovedStart) = asked.from - Edge
           /\ Earliest(MovedStop) = asked.to + Edge
           /\ MovedStart < MovedStop <=> asked.from < asked.to
           /\ MovedStart = LocalAt(asked.zone, asked.from) - Edge
           /\ MovedStop = LocalAt(asked.zone, asked.to) + Edge
<1>. DEFINE z == asked.zone
<1>1. PICK u \in Int, v \in Int : u = asked.from /\ v = asked.to /\ SaneZone(z)
  BY RangeAssumption, ZonesAreSane
<1>. HIDE DEF z
<1>2. PICK s \in Int, t \in Int : s = LocalAt(z, u) /\ t = LocalAt(z, v)
  BY <1>1, LocalIsInt
<1>3. InstantsAt(z, s) = {u}
  <2>1. 0 \in {-1, 0, 1}
    OBVIOUS
  <2>. QED
    BY <1>1, <1>2, <2>1, PlainEnds DEF z
<1>4. u < v <=> s < t
  <2>1. (v < u => t < s) /\ (u < v => s < t)
    BY <1>1, <1>2, <1>3, PassedOnce
  <2>. QED
    BY <1>2, <2>1
<1>5. StartLocal = s /\ StopLocal = t /\ Outwards = Edge
  BY <1>1, <1>2, <1>4 DEF StartLocal, StopLocal, Outwards, Edge, z
<1>6. PICK k \in {-1, 0, 1} : k = Edge /\ (k = 1 => u < v) /\ (k = -1 => ~ (u < v))
  BY <1>1 DEF Edge
<1>7. MovedStart = s - k /\ MovedStop = t + k
  BY <1>5, <1>6 DEF MovedStart, MovedStop
<1>8. MovedStart < MovedStop <=> u < v
  BY <1>2, <1>4, <1>6, <1>7
<1>9. Earliest(MovedStart) = u - k
  <2>1. -k \in {-1, 0, 1} /\ s - k = s + (-k) /\ u - k = u + (-k)
    OBVIOUS
  <2>. QED
    BY <1>1, <1>2, <1>7, <2>1, PlainEnds DEF Earliest, z
<1>10. Earliest(MovedStop) = v + k
  BY <1>1, <1>2, <1>7, PlainEnds DEF Earliest, z
<1>. QED
  BY <1>1, <1>2, <1>6, <1>7, <1>8, <1>9, <1>10 DEF z

\* Within a plain range a search that has something ahead finds it.
LEMMA RangeGoesOn ==
    ASSUME NEW a, RegularAsk(a), NEW r, r.zone = a.zone, r.from \in Int, r.to \in Int,
           PlainRange(r, a.sched, a.horizon), a.isPrev <=> ~ (r.from < r.to),
           a.now \in Stretch(r), NEW u \in FiringAhead(a), u \in Stretch(r),
           Gap(u, a.now) + Slack(a.zone) <= a.horizon
    PROVE  GoesOn(a) /\ ~Crowded(a)
<1>. DEFINE z == a.zone  n == a.now
<1>1. /\ SaneZone(z) /\ n \in Int /\ a.horizon \in Nat /\ LocalAt(z, n) \in Int
      /\ a.isPrev \in BOOLEAN
  BY RegularAskHas
<1>2. FiringAt(a) = FiringIn(r.zone, a.sched)
  BY DEF FiringIn, FiringAt
<1>3. \A x \in FiringAt(a) : x \in Int
  BY FiringIs
<1>4. Slack(z) \in Int /\ \A o, p \in Offsets(z) : o - p <= Slack(z)
  BY <1>1, SlackBounds
<1>5. ~Crowded(a)
  <2>1. ~Crowded([zone |-> r.zone, sched |-> a.sched, horizon |-> a.horizon, now |-> n])
    BY DEF PlainRange, NeverCrowded
  <2>. QED
    BY <2>1 DEF Crowded
<1>6. ASSUME FiresAlone(r, a.sched) PROVE GoesOn(a)
  <2>1. u \in Int /\ u \in FiringAt(a) /\ is_successor(u, n, a.isPrev)
    BY <1>3 DEF FiringAhead
  <2>2. LocalAt(z, u) \in a.sched.fires /\ InstantsAt(z, LocalAt(z, u)) = {u}
    BY <1>2, <1>6, <2>1 DEF FiresAlone
  <2>3. /\ n < u => LocalAt(z, n) < LocalAt(z, u)
        /\ u < n => LocalAt(z, u) < LocalAt(z, n)
    BY <1>1, <2>1, <2>2, PassedOnce
  <2>4. is_successor(LocalAt(z, u), LocalAt(z, n), a.isPrev)
    BY <2>1, <2>3 DEF is_successor
  <2>5. u \in InReach(a)
    BY DEF InReach
  <2>. QED
    BY <2>2, <2>4, <2>5 DEF GoesOn
<1>7. ASSUME FiresBeyond(r, a.sched, a.horizon) PROVE GoesOn(a)
  <2>1. PICK v \in FiringAt(a) :
           /\ LocalAt(z, v) \in a.sched.fires
           /\ IF r.from < r.to THEN r.to + 1 + Slack(z) < v ELSE v < r.to - 1 - Slack(z)
           /\ Gap(v, r.from) + 1 + Slack(z) <= a.horizon
    BY <1>2, <1>7 DEF FiresBeyond
  <2>2. v \in Int
    BY <1>3
  <2>3. PICK o \in Offsets(z), p \in Offsets(z) :
           o = OffsetAt(z, n) /\ p = OffsetAt(z, v) /\ o \in Int /\ p \in Int
    BY <1>1, <2>2, LocalIsInt
  <2>4. o - p <= Slack(z) /\ p - o <= Slack(z) /\ 0 <= Slack(z)
    BY <1>4, <2>3
  <2>5. LocalAt(z, n) = n + o /\ LocalAt(z, v) = v + p
    BY <2>3 DEF LocalAt
  <2>6. CASE a.isPrev = FALSE
    <3>1. r.from < r.to /\ r.from - 1 <= n /\ n <= r.to + 1
      BY <1>1, <2>6 DEF Stretch
    <3>2. n < v /\ n + o < v + p /\ Gap(v, n) + Slack(z) <= a.horizon
      BY <1>1, <1>4, <2>1, <2>2, <2>3, <2>4, <3>1 DEF Gap
    <3>3. is_successor(v, n, a.isPrev) /\ is_successor(LocalAt(z, v), LocalAt(z, n), a.isPrev)
      BY <2>5, <2>6, <3>2 DEF is_successor
    <3>. QED
      BY <2>1, <3>2, <3>3 DEF GoesOn, InReach, FiringAhead
  <2>7. CASE a.isPrev = TRUE
    <3>1. ~ (r.from < r.to) /\ r.to - 1 <= n /\ n <= r.from + 1
      BY <1>1, <2>7 DEF Stretch
    <3>2. v < n /\ v + p < n + o /\ Gap(v, n) + Slack(z) <= a.horizon
      BY <1>1, <1>4, <2>1, <2>2, <2>3, <2>4, <3>1 DEF Gap
    <3>3. is_successor(v, n, a.isPrev) /\ is_successor(LocalAt(z, v), LocalAt(z, n), a.isPrev)
      BY <2>5, <2>7, <3>2 DEF is_successor
    <3>. QED
      BY <2>1, <3>2, <3>3 DEF GoesOn, InReach, FiringAhead
  <2>. QED
    BY <1>1, <2>6, <2>7
<1>. QED
  BY <1>5, <1>6, <1>7 DEF PlainRange

(***************************************************************************)
(* Whole ranges: what is due has been yielded, or the next call finds it.  *)
(***************************************************************************)

\* The firing instants between the moved ends are due.
Due(u) == Ordered(Earliest(MovedStart), u, ~walk.forward) /\ Within(u)

Yielded(u) == \E i \in 1..Len(walk.out) : walk.out[i] = u

\* What is due up to where a range has come to has been yielded; what is due
\* beyond, if anything, the next call will find; and when it is done nothing is
\* left.
WholeInv ==
    /\ cron.zone = asked.zone
    /\ Gap(MovedStart, MovedStop) + ProbeLimit * Minute <= cron.horizon
    /\ walk.stage \in {"ready", "stepping", "done"} =>
          /\ ~Skipped(asked.zone, MovedStart) /\ ~Skipped(asked.zone, MovedStop)
          /\ walk.forward <=> MovedStart < MovedStop
          /\ walk.stop_ts = Earliest(MovedStop)
    /\ \A i \in 1..Len(walk.out) : walk.out[i] \in Fires
    /\ walk.stage \in {"ready", "stepping"} =>
          \A u \in Fires : Due(u) /\ ~Ordered(WalkAt, u, ~walk.forward) => Yielded(u)
    /\ walk.stage = "stepping" /\ call = Idle /\ result.kind = "bad_date" =>
          \A u \in Fires : Due(u) => ~Ordered(WalkAt, u, ~walk.forward)
    /\ walk.stage = "done" /\ walk.error = "none" => \A u \in Fires : Due(u) => Yielded(u)

\* Where a range has come to lies between its moved ends.
LEMMA WalkAtBetween ==
    ASSUME ObjectInv, WalkInv, walk.stage \in {"ready", "stepping"}
    PROVE  /\ WalkAt \in Int /\ Earliest(MovedStart) \in Int
           /\ \/ WalkAt = Earliest(MovedStart)
              \/ Ordered(Earliest(MovedStart), WalkAt, ~walk.forward) /\ Within(WalkAt)
<1>1. Earliest(MovedStart) \in Int /\ walk.out \in Seq(Int) /\ YieldsInOrder
  BY DEF WalkInv, Walks
<1>2. CASE walk.out = <<>>
  BY <1>1, <1>2 DEF WalkAt
<1>3. CASE walk.out # <<>>
  <2>1. \A o \in Seq(Int) : o # <<>> => Len(o) \in 1..Len(o) /\ o[Len(o)] \in Int
    OBVIOUS
  <2>2. Len(walk.out) \in 1..Len(walk.out) /\ walk.out[Len(walk.out)] \in Int
    BY <1>1, <1>3, <2>1
  <2>. QED
    BY <1>1, <1>3, <2>2 DEF WalkAt, YieldsInOrder
<1>. QED
  BY <1>2, <1>3

\* The bound of a range spans it, so that a plain one is plain for it.
LEMMA SpanIsPlain ==
    ASSUME AllPlain, cron \in Crons, WholeInv, asked \in Ranges
    PROVE  PlainRange(asked, cron.sched, cron.horizon)
<1>1. PICK b \in Int, e \in Int : b = asked.from /\ e = asked.to /\ SaneZone(asked.zone)
  BY RangeAssumption, ZonesAreSane
<1>2. PICK s \in Int, t \in Int : s = LocalAt(asked.zone, b) /\ t = LocalAt(asked.zone, e)
  BY <1>1, LocalIsInt
<1>3. PICK h \in Int, d \in Int : h = cron.horizon /\ d = ProbeLimit * Minute
  <2>1. cron.horizon \in Nat
    <3>1. cron.horizon \in Horizons
      BY DEF Crons
    <3>. QED
      BY <3>1, TailAssumption
  <2>2. ProbeLimit * Minute \in Int
    BY TimeZoneAssumption
  <2>. QED
    BY <2>1, <2>2
\* Moving the ends outwards does not bring them together.
<1>4. Gap(s, t) + d <= h
  <2>1. StartLocal = s /\ StopLocal = t
    BY <1>1, <1>2 DEF StartLocal, StopLocal
  <2>2. PICK k \in {-1, 0, 1} : k = Outwards /\ (k = 1 => s < t) /\ (k = -1 => ~ (s < t))
    BY <2>1 DEF Outwards
  <2>3. MovedStart = s - k /\ MovedStop = t + k
    BY <2>1, <2>2 DEF MovedStart, MovedStop
  <2>4. Gap(s, t) <= Gap(s - k, t + k) /\ Gap(s, t) \in Int /\ Gap(s - k, t + k) \in Int
    BY <2>2 DEF Gap
  <2>. QED
    BY <1>3, <2>3, <2>4 DEF WholeInv
<1>. QED
  BY <1>1, <1>2, <1>3, <1>4 DEF AllPlain, Crons

\* A range that has something ahead of it finds it.
LEMMA RangeFinds ==
    ASSUME AllRegular, AllPlain, ObjectInv, WalkInv, WholeInv, asked \in Ranges,
           walk.stage = "stepping", call # Idle,
           NEW u \in Fires, Due(u), Ordered(WalkAt, u, ~walk.forward)
    PROVE  GoesOn(ask) /\ ~Crowded(ask)
<1>1. /\ cron \in Crons /\ ask = AskOf(cron) /\ cron.cur = CursorOf(call)
      /\ call.out = <<>> /\ call.from = WalkAt /\ cron.is_prev = ~walk.forward
      /\ walk.forward \in BOOLEAN
  BY DEF ObjectInv, Fields, UnderWay, WalkInv, Walks
<1>2. PICK n \in Int : n = WalkAt /\ n = cron.cur
  BY <1>1, WalkAtBetween DEF CursorOf
<1>3. /\ ask.zone = cron.zone /\ ask.sched = cron.sched /\ ask.horizon = cron.horizon
      /\ ask.now = n /\ ask.isPrev = ~walk.forward /\ RegularAsk(ask)
      /\ FiringAt(ask) = Fires
  BY <1>1, <1>2, RegularAskOf DEF AskOf, Fires
<1>4. /\ asked.zone = cron.zone
      /\ ~Skipped(asked.zone, MovedStart) /\ ~Skipped(asked.zone, MovedStop)
      /\ walk.forward <=> MovedStart < MovedStop
      /\ walk.stop_ts = Earliest(MovedStop)
      /\ Gap(MovedStart, MovedStop) + ProbeLimit * Minute <= cron.horizon
  BY DEF WholeInv
<1>5. PICK b \in Int, e \in Int : b = asked.from /\ e = asked.to /\ SaneZone(asked.zone)
  BY RangeAssumption, ZonesAreSane
<1>6. PICK s \in Int, t \in Int : s = LocalAt(asked.zone, b) /\ t = LocalAt(asked.zone, e)
  BY <1>5, LocalIsInt
<1>7. PICK h \in Int, d \in Int : h = cron.horizon /\ d = ProbeLimit * Minute
  <2>1. cron.horizon \in Nat
    <3>1. cron.horizon \in Horizons
      BY <1>1 DEF Crons
    <3>. QED
      BY <3>1, TailAssumption
  <2>2. ProbeLimit * Minute \in Int
    BY TimeZoneAssumption
  <2>. QED
    BY <2>1, <2>2
<1>8. PlainRange(asked, cron.sched, cron.horizon)
  BY <1>1, SpanIsPlain
<1>9. PICK k \in {-1, 0, 1} :
          /\ Earliest(MovedStart) = b - k /\ Earliest(MovedStop) = e + k
          /\ MovedStart = s - k /\ MovedStop = t + k
          /\ MovedStart < MovedStop <=> b < e
  <2>1. Edge \in {-1, 0, 1}
    BY DEF Edge
  <2>. QED
    BY <1>4, <1>5, <1>6, <1>8, <2>1, RangeEnds DEF PlainRange
<1>10. walk.forward <=> b < e
  BY <1>4, <1>9
<1>11. u \in Int
  BY <1>3, FiringIs
<1>12. PICK o \in Int, p \in Int, l \in Int :
          /\ o = OffsetAt(asked.zone, b) /\ p = OffsetAt(asked.zone, e) /\ l = Slack(asked.zone)
          /\ o - p <= l /\ p - o <= l /\ s = b + o /\ t = e + p /\ 2 * l <= d
  <2>1. /\ OffsetAt(asked.zone, b) \in Int /\ OffsetAt(asked.zone, b) \in Offsets(asked.zone)
        /\ OffsetAt(asked.zone, e) \in Int /\ OffsetAt(asked.zone, e) \in Offsets(asked.zone)
    BY <1>5, LocalIsInt
  <2>2. /\ Slack(asked.zone) \in Int
        /\ \A x, y \in Offsets(asked.zone) : x - y <= Slack(asked.zone)
    BY <1>5, SlackBounds
  <2>. QED
    BY <1>6, <1>7, <1>8, <2>1, <2>2 DEF LocalAt, PlainRange
<1>13. u \in Stretch(asked) /\ n \in Stretch(asked) /\ Gap(u, n) + l <= h
  <2>1. /\ Ordered(b - k, u, ~walk.forward) /\ Ordered(u, e + k, ~walk.forward)
        /\ \/ n = b - k
           \/ Ordered(b - k, n, ~walk.forward) /\ Ordered(n, e + k, ~walk.forward)
        /\ Ordered(n, u, ~walk.forward)
    <3>1. \A x : Within(x) <=> Ordered(x, e + k, ~walk.forward)
      BY <1>1, <1>4, <1>9 DEF Within, Ordered
    <3>. QED
      BY <1>2, <1>9, <3>1, WalkAtBetween DEF Due
  <2>2. Gap(s - k, t + k) + d <= h
    BY <1>4, <1>7, <1>9
  <2>3. CASE walk.forward = TRUE
    <3>1. b < e /\ b - k < u /\ u < e + k /\ b - k <= n /\ n < u
      BY <1>2, <1>10, <1>11, <2>1, <2>3 DEF Ordered
    <3>2. (t + k) - (s - k) + d <= h
      <4>1. Gap(s - k, t + k) \in Int /\ (t + k) - (s - k) <= Gap(s - k, t + k)
        BY DEF Gap
      <4>. QED
        BY <2>2, <4>1
    <3>3. u - n + l <= h
      BY <1>2, <1>11, <1>12, <3>1, <3>2
    <3>. QED
      BY <1>2, <1>5, <1>11, <3>1, <3>3 DEF Stretch, Gap
  <2>4. CASE walk.forward = FALSE
    <3>1. ~ (b < e) /\ u < b - k /\ e + k < u /\ n <= b - k /\ u < n
      BY <1>2, <1>10, <1>11, <2>1, <2>4 DEF Ordered
    <3>2. (s - k) - (t + k) + d <= h
      <4>1. Gap(s - k, t + k) \in Int /\ (s - k) - (t + k) <= Gap(s - k, t + k)
        BY DEF Gap
      <4>. QED
        BY <2>2, <4>1
    <3>3. n - u + l <= h
      BY <1>2, <1>11, <1>12, <3>1, <3>2
    <3>. QED
      BY <1>2, <1>5, <1>11, <3>1, <3>3 DEF Stretch, Gap
  <2>. QED
    BY <1>1, <2>3, <2>4
<1>14. u \in FiringAhead(ask)
  <2>1. is_successor(u, ask.now, ask.isPrev)
    BY <1>2, <1>3 DEF is_successor, Ordered
  <2>. QED
    BY <1>3, <2>1 DEF FiringAhead
<1>. QED
  BY <1>1, <1>3, <1>4, <1>5, <1>7, <1>8, <1>10, <1>12, <1>13, <1>14, RangeGoesOn

(***************************************************************************)
(* The steps of a range keep it whole.                                     *)
(***************************************************************************)

LEMMA EndsStay ==
    ASSUME asked' = asked
    PROVE  /\ MovedStart' = MovedStart /\ MovedStop' = MovedStop
           /\ Earliest(MovedStart)' = Earliest(MovedStart)
           /\ Earliest(MovedStop)' = Earliest(MovedStop)
           /\ Skipped(asked.zone, MovedStart)' <=> Skipped(asked.zone, MovedStart)
           /\ Skipped(asked.zone, MovedStop)' <=> Skipped(asked.zone, MovedStop)
<1>1. StartLocal' = StartLocal /\ StopLocal' = StopLocal
  BY DEF StartLocal, StopLocal
<1>2. Outwards' = Outwards
  BY <1>1 DEF Outwards
<1>3. MovedStart' = MovedStart /\ MovedStop' = MovedStop
  BY <1>1, <1>2 DEF MovedStart, MovedStop
<1>. QED
  BY <1>3 DEF Earliest

\* What a range has due stays while it goes on.
LEMMA DueStays ==
    ASSUME asked' = asked, walk'.forward = walk.forward, walk'.stop_ts = walk.stop_ts
    PROVE  \A u : Due(u)' <=> Due(u)
<1>1. \A u : Within(u)' <=> Within(u)
  BY DEF Within
<1>. QED
  BY <1>1, EndsStay DEF Due

\* A step in which a range gets no further.
LEMMA WholeFrame ==
    ASSUME WholeInv, asked' = asked,
           cron'.zone = cron.zone, cron'.sched = cron.sched, cron'.horizon = cron.horizon,
           walk'.out = walk.out, walk'.forward = walk.forward, walk'.stop_ts = walk.stop_ts,
           \/ walk'.stage \in {walk.stage, "refused"}
           \/ walk.stage = "ready" /\ walk'.stage = "stepping"
           \/ walk.stage = "stepping" /\ walk'.stage = "done",
           walk'.stage = "stepping" /\ call' = Idle /\ result'.kind = "bad_date" =>
              \A u \in Fires : Due(u) => ~Ordered(WalkAt, u, ~walk.forward),
           walk'.stage = "done" /\ walk'.error = "none" =>
              \A u \in Fires : Due(u) => Yielded(u)
    PROVE  WholeInv'
<1>1. Fires' = Fires
  BY FiresStay
<1>2. \A u : (Due(u)' <=> Due(u)) /\ (Yielded(u)' <=> Yielded(u))
  BY DueStays DEF Yielded
<1>3. WalkAt' = WalkAt
  BY EndsStay DEF WalkAt
<1>4. \A u : Ordered(WalkAt, u, ~walk.forward)' <=> Ordered(WalkAt, u, ~walk.forward)
  BY <1>3 DEF Ordered
<1>5. /\ cron'.zone = asked'.zone
      /\ (Gap(MovedStart, MovedStop) + ProbeLimit * Minute <= cron.horizon)'
      /\ walk'.stage \in {"ready", "stepping", "done"} =>
            /\ ~Skipped(asked.zone, MovedStart)' /\ ~Skipped(asked.zone, MovedStop)'
            /\ walk'.forward <=> (MovedStart < MovedStop)'
            /\ walk'.stop_ts = Earliest(MovedStop)'
  BY EndsStay DEF WholeInv, Gap
<1>6. \A i \in 1..Len(walk'.out) : walk'.out[i] \in Fires'
  BY <1>1 DEF WholeInv
<1>7. walk'.stage \in {"ready", "stepping"} =>
          \A u \in Fires : Due(u) /\ ~Ordered(WalkAt, u, ~walk.forward) => Yielded(u)
  BY DEF WholeInv
<1>. QED
  BY <1>1, <1>2, <1>4, <1>5, <1>6, <1>7 DEF WholeInv

LEMMA WholeStarts ==
    ASSUME RangeInit
    PROVE  WholeInv
<1>1. walk = NotBuilt /\ walk.stage = "asked" /\ walk.out = <<>> /\ cron.zone = asked.zone
  BY DEF RangeInit, NotBuilt
<1>2. Gap(MovedStart, MovedStop) + ProbeLimit * Minute <= cron.horizon
  BY DEF RangeInit, YearSpan
<1>. QED
  BY <1>1, <1>2 DEF WholeInv

LEMMA WholeBuild ==
    ASSUME ObjectInv, WalkInv, WholeInv, asked \in Ranges, Build, WalkInv'
    PROVE  WholeInv'
<1>1. /\ walk.out = <<>> /\ walk \in Walks /\ cron \in Crons /\ asked' = asked
      /\ ~Skipped(asked.zone, MovedStart) /\ ~Skipped(asked.zone, MovedStop)
      /\ cron' = [cron EXCEPT !.cur = Earliest(MovedStart)]
      /\ walk' = [walk EXCEPT !.stage = "ready", !.forward = MovedStart < MovedStop,
                              !.stop_ts = Earliest(MovedStop)]
  BY DEF Build, WalkInv, ObjectInv, Fields
<1>2. /\ walk'.out = <<>> /\ walk'.stage = "ready"
      /\ walk'.forward = (MovedStart < MovedStop) /\ walk'.stop_ts = Earliest(MovedStop)
  BY <1>1 DEF Walks
<1>3. cron'.zone = cron.zone /\ cron'.horizon = cron.horizon /\ cron'.sched = cron.sched
  BY <1>1 DEF Crons
<1>4. \A u : Due(u)' => Ordered(WalkAt, u, ~walk.forward)'
  BY <1>2 DEF Due, WalkAt
<1>5. /\ cron'.zone = asked'.zone
      /\ (Gap(MovedStart, MovedStop) + ProbeLimit * Minute <= cron.horizon)'
      /\ ~Skipped(asked.zone, MovedStart)' /\ ~Skipped(asked.zone, MovedStop)'
      /\ walk'.forward <=> (MovedStart < MovedStop)'
      /\ walk'.stop_ts = Earliest(MovedStop)'
  BY <1>1, <1>2, <1>3, EndsStay DEF WholeInv, Gap
<1>. QED
  BY <1>2, <1>4, <1>5 DEF WholeInv

\* The range's object in a call.
LEMMA WholeStepping ==
    ASSUME AllRegular, AllPlain, ObjectInv, WalkInv, WalksInv, WholeInv, asked \in Ranges, Stepping
    PROVE  WholeInv'
<1>1. /\ walk.stage = "stepping" /\ call # Idle /\ walk' = walk /\ asked' = asked /\ cron \in Crons
  BY DEF Stepping, ObjectInv, Fields
<1>2. /\ walk'.out = walk.out /\ walk'.forward = walk.forward /\ walk'.stop_ts = walk.stop_ts
      /\ walk'.stage \in {walk.stage, "refused"} /\ walk'.stage # "done"
  BY <1>1
<1>3. CASE Searching
  <2>1. cron' = cron /\ call' = call
    BY <1>3 DEF Searching
  <2>. QED
    BY <1>1, <1>2, <2>1, WholeFrame
<1>4. CASE FoundLast
  <2>1. PICK u \in reply.at : cron' = Moved(u) /\ Finish("ok", Taken(u))
    BY <1>4 DEF FoundLast
  <2>2. cron'.zone = cron.zone /\ cron'.sched = cron.sched /\ cron'.horizon = cron.horizon
    BY <1>1, <2>1 DEF Moved, Crons
  <2>3. result'.kind = "ok"
    BY <2>1 DEF Finish
  <2>. QED
    BY <1>1, <1>2, <2>2, <2>3, WholeFrame
<1>5. CASE Fails
  <2>1. cron' = cron /\ result'.kind = reply.kind /\ reply.kind \in CalcErrors
    BY <1>5 DEF Fails, Finish
  <2>2. reply \in TailAnswers(ask)
    BY <2>1 DEF WalksInv, TailPath, NoReply, CalcErrors
  <2>3. ~ (GoesOn(ask) /\ ~Crowded(ask))
    BY <2>1, <2>2 DEF TailAnswers, Instant, CalcErrors
  <2>4. \A u \in Fires : Due(u) => ~Ordered(WalkAt, u, ~walk.forward)
    BY <1>1, <2>3, RangeFinds
  <2>. QED
    BY <1>1, <1>2, <2>1, <2>4, WholeFrame
<1>. QED
  BY <1>3, <1>4, <1>5 DEF Stepping

\* What a call has found is the next instant after where the range has come to.
LEMMA RangeFound ==
    ASSUME ObjectInv, WalkInv, WalksInv, Stepped, result.kind = "ok"
    PROVE  /\ NextOf(Fires, WalkAt, result.call.out[1], ~walk.forward)
           /\ result.call.out[1] \in Int
<1>1. /\ walk.stage = "stepping" /\ call = Idle /\ result \in Results
      /\ Len(result.call.out) = 1 /\ result.call.from = WalkAt /\ result.is_prev = ~walk.forward
  BY DEF Stepped, WalkInv, ObjectInv, Fields
<1>2. Gapless(Fires, result.call, result.is_prev)
  BY <1>1 DEF WalksInv, Idle
<1>3. 1 \in 1..Len(result.call.out)
  BY <1>1
<1>4. result.call.out \in Seq(Int)
  BY <1>1 DEF Results, Calls
<1>5. result.call.out[1] \in Int
  BY <1>1, <1>4
<1>. QED
  BY <1>1, <1>2, <1>3, <1>5 DEF Gapless

LEMMA WholeYield ==
    ASSUME AllRegular, ObjectInv, WalkInv, WalksInv, WholeInv, asked \in Ranges, Yield
    PROVE  WholeInv'
<1>1. /\ walk \in Walks /\ Stepped /\ result.kind = "ok" /\ asked' = asked
      /\ UNCHANGED cronVars /\ walk.stage = "stepping" /\ cron \in Crons
  BY DEF Yield, Stepped, WalkInv, ObjectInv, Fields
<1>2. PICK v \in Int : v = result.call.out[1] /\ NextOf(Fires, WalkAt, v, ~walk.forward)
  BY <1>1, RangeFound
<1>3. PICK s, t : s = walk.out /\ t = Append(s, v) /\ s \in Seq(Int)
  BY <1>1 DEF Walks
<1>4. /\ Len(t) = Len(s) + 1 /\ t[Len(s) + 1] = v /\ t # <<>>
      /\ \A i \in 1..Len(s) : t[i] = s[i]
  BY <1>3
<1>5. Len(s) \in Nat
  BY <1>3
<1>6. walk' = [walk EXCEPT !.stage = "ready", !.out = t]
  BY <1>2, <1>3 DEF Yield
<1>7. /\ walk'.stage = "ready" /\ walk'.out = t /\ walk'.forward = walk.forward
      /\ walk'.stop_ts = walk.stop_ts
  BY <1>1, <1>6 DEF Walks
<1>8. Fires' = Fires /\ cron' = cron /\ WalkAt' = v /\ \A u : Due(u)' <=> Due(u)
  BY <1>1, <1>4, <1>5, <1>7, FiresStay, DueStays DEF WalkAt, cronVars
<1>9. \A i \in 1..Len(t) : t[i] \in Fires
  <2>1. \A i \in 1..Len(t) : i \in 1..Len(s) \/ i = Len(s) + 1
    BY <1>4, <1>5
  <2>2. v \in Fires
    BY <1>2 DEF NextOf
  <2>. QED
    BY <1>3, <1>4, <2>1, <2>2 DEF WholeInv
<1>10. \A u : Yielded(u) \/ u = v => \E i \in 1..Len(t) : t[i] = u
  <2>1. Len(s) + 1 \in 1..Len(t) /\ \A i \in 1..Len(s) : i \in 1..Len(t)
    BY <1>4, <1>5
  <2>. QED
    BY <1>3, <1>4, <2>1 DEF Yielded
<1>11. ASSUME NEW u \in Fires, Due(u), ~Ordered(v, u, ~walk.forward)
       PROVE  Yielded(u) \/ u = v
  <2>1. CASE Ordered(WalkAt, u, ~walk.forward)
    <3>1. ~Ordered(u, v, ~walk.forward)
      BY <1>2, <2>1 DEF NextOf
    <3>2. u \in Int
      BY <1>1, RegularAskOf, FiringIs DEF Fires
    <3>. QED
      BY <1>2, <1>11, <3>1, <3>2 DEF Ordered
  <2>2. CASE ~Ordered(WalkAt, u, ~walk.forward)
    BY <1>1, <1>11, <2>2 DEF WholeInv
  <2>. QED
    BY <2>1, <2>2
<1>12. \A u \in Fires' : Due(u)' /\ ~Ordered(WalkAt, u, ~walk.forward)' => Yielded(u)'
  <2>1. \A u : Ordered(WalkAt, u, ~walk.forward)' <=> Ordered(v, u, ~walk.forward)
    BY <1>7, <1>8 DEF Ordered
  <2>. QED
    BY <1>7, <1>8, <1>10, <1>11, <2>1 DEF Yielded
<1>13. /\ cron'.zone = asked'.zone
       /\ (Gap(MovedStart, MovedStop) + ProbeLimit * Minute <= cron.horizon)'
       /\ ~Skipped(asked.zone, MovedStart)' /\ ~Skipped(asked.zone, MovedStop)'
       /\ walk'.forward <=> (MovedStart < MovedStop)'
       /\ walk'.stop_ts = Earliest(MovedStop)'
  BY <1>1, <1>7, <1>8, EndsStay DEF WholeInv, Gap
<1>. QED
  BY <1>7, <1>8, <1>9, <1>12, <1>13 DEF WholeInv

\* A range that stops where the next instant is beyond its stop, or where there is
\* none.
LEMMA WholeEnds ==
    ASSUME AllRegular, ObjectInv, WalkInv, WalksInv, WholeInv, asked \in Ranges, Passed \/ RunsOut
    PROVE  WholeInv'
<1>1. /\ Stepped /\ walk.stage = "stepping" /\ call = Idle /\ asked' = asked /\ UNCHANGED cronVars
      /\ walk \in Walks /\ walk.forward \in BOOLEAN /\ walk.stop_ts \in Int /\ cron \in Crons
  BY DEF Passed, RunsOut, Stepped, WalkInv, Walks, ObjectInv, Fields
<1>2. /\ walk'.stage = "done" /\ walk'.out = walk.out /\ walk'.forward = walk.forward
      /\ walk'.stop_ts = walk.stop_ts
      /\ walk'.error = "none" => Passed \/ result.kind = "bad_date"
  BY <1>1 DEF Passed, RunsOut, Walks, CalcErrors
<1>3. \A u \in Fires : Due(u) /\ ~Ordered(WalkAt, u, ~walk.forward) => Yielded(u)
  BY <1>1 DEF WholeInv
<1>4. result.kind = "bad_date" => \A u \in Fires : Due(u) => Yielded(u)
  BY <1>1, <1>3 DEF WholeInv
<1>5. ASSUME Passed, NEW u \in Fires, Due(u), Ordered(WalkAt, u, ~walk.forward) PROVE FALSE
  <2>1. PICK v \in Int : NextOf(Fires, WalkAt, v, ~walk.forward) /\ ~Within(v)
    BY <1>1, <1>5, RangeFound DEF Passed
  <2>2. ~Ordered(u, v, ~walk.forward) /\ Within(u)
    BY <1>5, <2>1 DEF NextOf, Due
  <2>3. u \in Int
    BY <1>1, RegularAskOf, FiringIs DEF Fires
  <2>. QED
    BY <1>1, <2>1, <2>2, <2>3 DEF Ordered, Within
<1>6. cron' = cron
  BY <1>1 DEF cronVars
<1>. QED
  BY <1>1, <1>2, <1>3, <1>4, <1>5, <1>6, WholeFrame

(***************************************************************************)
(* The steps of everyone else leave a range as it is.                      *)
(***************************************************************************)

\* A range there is yields what is due.
RangesInv == IF asked = NoRange THEN walk.stage = "asked" ELSE WholeInv

LEMMA RangesStart ==
    ASSUME ClientInit
    PROVE  RangesInv
<1>1. CASE RangeInit /\ test = NoTest
  <2>1. asked \in Ranges
    BY <1>1 DEF RangeInit
  <2>2. asked # NoRange
    BY <2>1, ClientAssumption
  <2>. QED
    BY <1>1, <2>2, WholeStarts DEF RangesInv
<1>2. CASE asked = NoRange /\ walk = NotBuilt
  BY <1>2 DEF RangesInv, NotBuilt
<1>. QED
  BY <1>1, <1>2 DEF ClientInit

LEMMA RangesStep ==
    ASSUME AllRegular, AllPlain, ClientInv, WalksInv, RangesInv, [ClientNext]_clientVars, ClientInv'
    PROVE  RangesInv'
<1>1. CASE Caller \/ Matcher
  <2>1. asked = NoRange /\ asked' = asked /\ walk' = walk
    BY <1>1 DEF Caller, Matcher, ClientInv
  <2>. QED
    BY <2>1 DEF RangesInv
<1>2. CASE UNCHANGED clientVars
  <2>1. asked' = asked /\ walk' = walk /\ cron' = cron /\ call' = call /\ result' = result
    BY <1>2 DEF clientVars, cronVars
  <2>2. WholeInv => WholeInv'
    <3>1. WholeInv /\ walk.stage = "stepping" /\ call = Idle /\ result.kind = "bad_date" =>
             \A u \in Fires : Due(u) => ~Ordered(WalkAt, u, ~walk.forward)
      BY DEF WholeInv
    <3>2. WholeInv /\ walk.stage = "done" /\ walk.error = "none" =>
             \A u \in Fires : Due(u) => Yielded(u)
      BY DEF WholeInv
    <3>. QED
      BY <2>1, <3>1, <3>2, WholeFrame
  <2>. QED
    BY <2>1, <2>2 DEF RangesInv
<1>3. CASE Walker
  <2>1. /\ asked # NoRange /\ asked \in Ranges /\ ObjectInv /\ WalkInv /\ WholeInv /\ RangeNext
        /\ walk \in Walks /\ cron \in Crons
    BY <1>3 DEF Walker, ClientInv, ObjectInv, Fields, WalkInv, RangesInv
  <2>2. asked' = asked
    BY <2>1 DEF RangeNext, Refuse, Build, NextCalled, Stepping, Yield, Passed, RunsOut
  <2>3. WalkInv'
    BY <2>1, <2>2 DEF ClientInv
  <2>4. CASE Refuse
    <3>1. /\ walk' = [walk EXCEPT !.stage = "refused"] /\ cron' = cron
      BY <2>4 DEF Refuse, cronVars
    <3>2. /\ walk'.stage = "refused" /\ walk'.out = walk.out /\ walk'.forward = walk.forward
          /\ walk'.stop_ts = walk.stop_ts
      BY <2>1, <3>1 DEF Walks
    <3>. QED
      BY <2>1, <2>2, <3>1, <3>2, WholeFrame DEF RangesInv
  <2>5. CASE Build
    BY <2>1, <2>2, <2>3, <2>5, WholeBuild DEF RangesInv
  <2>6. CASE NextCalled
    <3>1. /\ walk' = [walk EXCEPT !.stage = "stepping"] /\ walk.stage = "ready" /\ call' # Idle
          /\ \E p \in BOOLEAN : cron' = [cron EXCEPT !.is_prev = p]
      <4>1. \E p \in BOOLEAN : Begin(cron, "get", p, TRUE, 1)
        BY <2>6 DEF NextCalled, GetNext, GetPrev
      <4>. QED
        BY <2>6, <4>1 DEF NextCalled, Begin, Idle
    <3>2. /\ walk'.stage = "stepping" /\ walk'.out = walk.out /\ walk'.forward = walk.forward
          /\ walk'.stop_ts = walk.stop_ts
      BY <2>1, <3>1 DEF Walks
    <3>3. cron'.zone = cron.zone /\ cron'.sched = cron.sched /\ cron'.horizon = cron.horizon
      BY <2>1, <3>1 DEF Crons
    <3>. QED
      BY <2>1, <2>2, <3>1, <3>2, <3>3, WholeFrame DEF RangesInv
  <2>7. CASE Stepping
    BY <2>1, <2>2, <2>7, WholeStepping DEF RangesInv
  <2>8. CASE Yield
    BY <2>1, <2>2, <2>8, WholeYield DEF RangesInv
  <2>9. CASE Passed \/ RunsOut
    BY <2>1, <2>2, <2>9, WholeEnds DEF RangesInv
  <2>. QED
    BY <2>1, <2>4, <2>5, <2>6, <2>7, <2>8, <2>9 DEF RangeNext
<1>. QED
  BY <1>1, <1>2, <1>3 DEF ClientNext

\* What is due is what lies between the ends that were asked for.
LEMMA DueIsBetween ==
    ASSUME AllPlain, ObjectInv, WalkInv, WholeInv, asked \in Ranges, walk.stage = "done"
    PROVE  /\ \A u \in Int : Due(u) <=> Between(u)
           /\ walk.forward <=> asked.from < asked.to
<1>1. /\ cron \in Crons /\ walk \in Walks /\ walk.forward \in BOOLEAN
      /\ ~Skipped(asked.zone, MovedStart) /\ ~Skipped(asked.zone, MovedStop)
      /\ walk.forward <=> MovedStart < MovedStop
      /\ walk.stop_ts = Earliest(MovedStop)
  BY DEF ObjectInv, Fields, WalkInv, Walks, WholeInv
<1>2. PlainRange(asked, cron.sched, cron.horizon)
  BY <1>1, SpanIsPlain
<1>3. PICK b \in Int, e \in Int, k \in {-1, 0, 1} :
         /\ b = asked.from /\ e = asked.to /\ k = Edge
         /\ Earliest(MovedStart) = b - k /\ Earliest(MovedStop) = e + k
         /\ MovedStart < MovedStop <=> b < e
  <2>1. Edge \in {-1, 0, 1}
    BY DEF Edge
  <2>. QED
    BY <1>1, <1>2, <2>1, RangeEnds DEF PlainRange
<1>4. walk.forward <=> b < e
  BY <1>1, <1>3
<1>5. \A u \in Int : Due(u) <=> Ordered(b - k, u, ~walk.forward) /\ Ordered(u, e + k, ~walk.forward)
  BY <1>1, <1>3 DEF Due, Within, Ordered
<1>6. k = IF asked.exclude_ends THEN 0 ELSE IF b < e THEN 1 ELSE -1
  BY <1>3 DEF Edge
<1>7. \A u \in Int : Between(u) <=>
         LET lo == IF b < e THEN b ELSE e  hi == IF b < e THEN e ELSE b
         IN  IF asked.exclude_ends THEN lo < u /\ u < hi ELSE lo <= u /\ u <= hi
  BY <1>3 DEF Between, Low, High
<1>8. ASSUME NEW u \in Int PROVE Due(u) <=> Between(u)
  <2>1. CASE b < e
    <3>1. Due(u) <=> b - k < u /\ u < e + k
      BY <1>4, <1>5, <2>1 DEF Ordered
    <3>. QED
      BY <1>6, <1>7, <2>1, <3>1
  <2>2. CASE ~ (b < e)
    <3>1. Due(u) <=> u < b - k /\ e + k < u
      BY <1>4, <1>5, <2>2 DEF Ordered
    <3>. QED
      BY <1>6, <1>7, <2>2, <3>1
  <2>. QED
    BY <2>1, <2>2
<1>. QED
  BY <1>3, <1>4, <1>8

\* A range yields every firing instant between its ends and nothing else, once
\* and in order, also where its zone repeats or skips local times: for any regular
\* zones and schedules and any plain ranges (src/lib.rs, croniter_range_iter).
THEOREM RangesAreWhole ==
    ASSUME AllRegular, AllPlain
    PROVE  ClientSpec => []WholeRange
<1>1. ClientInit => RangesInv
  BY RangesStart
<1>2. ClientInv /\ WalksInv /\ RangesInv /\ [ClientNext]_clientVars /\ ClientInv' => RangesInv'
  BY RangesStep
<1>3. ASSUME ClientInv, RangesInv, walk.stage = "done", walk.error = "none"
      PROVE  /\ {walk.out[i] : i \in 1..Len(walk.out)} = {u \in Fires : Between(u)}
             /\ \A i, j \in 1..Len(walk.out) :
                   i < j => Ordered(walk.out[i], walk.out[j], asked.to < asked.from)
  <2>1. /\ asked \in Ranges /\ ObjectInv /\ WalkInv /\ WholeInv /\ cron \in Crons
        /\ walk.out \in Seq(Int) /\ walk.forward \in BOOLEAN /\ YieldsInOrder
    BY <1>3 DEF RangesInv, ClientInv, ObjectInv, Fields, WalkInv, Walks
  <2>2. /\ \A u \in Int : Due(u) <=> Between(u)
        /\ walk.forward <=> asked.from < asked.to
    BY <1>3, <2>1, DueIsBetween
  <2>3. \A u \in Fires : u \in Int
    BY <2>1, RegularAskOf, FiringIs DEF Fires
  <2>4. \A u \in Fires : Due(u) => Yielded(u)
    BY <1>3, <2>1 DEF WholeInv
  <2>5. \A i \in 1..Len(walk.out) : walk.out[i] \in Fires /\ Due(walk.out[i])
    BY <2>1 DEF WholeInv, YieldsInOrder, Due
  <2>6. {walk.out[i] : i \in 1..Len(walk.out)} = {u \in Fires : Between(u)}
    BY <2>2, <2>3, <2>4, <2>5 DEF Yielded
  <2>7. ASSUME NEW i \in 1..Len(walk.out), NEW j \in 1..Len(walk.out), i < j
        PROVE  Ordered(walk.out[i], walk.out[j], asked.to < asked.from)
    <3>1. Ordered(walk.out[i], walk.out[j], ~walk.forward)
      BY <2>1, <2>7 DEF YieldsInOrder
    <3>2. PICK u \in Int, v \in Int, b \in Int, e \in Int :
             u = walk.out[i] /\ v = walk.out[j] /\ b = asked.from /\ e = asked.to
      BY <2>1, <2>3, <2>5, RangeAssumption
    <3>3. Between(u) /\ Between(v)
      BY <2>2, <2>5, <3>2
    <3>4. CASE b # e
      BY <2>1, <2>2, <3>1, <3>2, <3>4 DEF Ordered
    <3>5. CASE b = e
      BY <2>1, <2>2, <3>1, <3>2, <3>3, <3>5 DEF Ordered, Between, Low, High
    <3>. QED
      BY <3>2, <3>4, <3>5
  <2>. QED
    BY <2>6, <2>7
<1>4. ClientInv /\ RangesInv => WholeRange
  BY <1>3 DEF WholeRange
<1>. QED
  BY <1>1, <1>2, <1>4, ClientInvariance, WalksInvariance, PTL DEF ClientSpec

=============================================================================
