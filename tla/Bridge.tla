--------------------------------- MODULE Bridge ---------------------------------
(***************************************************************************)
(* The Python shim: `_Bridge` and the life of a `croniter` object in       *)
(* tools/bridge/croniter/__init__.py, over the conformance server.         *)
(*                                                                         *)
(* Threads share one server and one lock, which is not re-entrant.  The    *)
(* garbage collector may run the finalizer of an object in any thread that *)
(* is running Python code, also in the middle of a call; a thread is       *)
(* therefore a stack of calls.  An interrupt of the main thread raises in  *)
(* the topmost one.                                                        *)
(***************************************************************************)
EXTENDS ConformanceServer

CONSTANTS
    Threads, Main,     \* the main thread is the one that is interrupted
    Objects,
    CallLimit,         \* calls in a behaviour
    InterruptLimit     \* interrupts in a behaviour

Free     == "free"     \* the lock of nobody
NoObject == "none"     \* what `validate` is about

ASSUME BridgeAssumption ==
    /\ Main \in Threads /\ Free \notin Threads
    /\ NoObject \notin Objects
    /\ CallLimit \in Nat /\ InterruptLimit \in Nat

VARIABLES
    lock,          \* the thread that holds it
    next_id,
    stack,         \* the calls a thread is in, the topmost last
    obj,           \* object -> how far its life is, its expression and handle
    exiting,       \* whether the server has been told to end
    \* history
    own,           \* object -> the parse drawn when it was made
    used,          \* object -> the parse it was last answered from
    begun, servers, interrupts    \* calls, processes and interrupts so far

historyVars == <<own, used, begun, servers, interrupts>>
bridgeVars  == <<serverVars, lock, next_id, stack, obj, exiting, historyVars>>

NewObject == [state |-> "new", expr |-> "", handle |-> NoHandle]

Init ==
    /\ ServerInit
    /\ lock = Free
    /\ next_id = 1
    /\ stack = [t \in Threads |-> <<>>]
    /\ obj = [o \in Objects |-> NewObject]
    /\ exiting = FALSE
    /\ own = [o \in Objects |-> NoParse]
    /\ used = [o \in Objects |-> NoParse]
    /\ begun = 0 /\ servers = 0 /\ interrupts = 0

Idle(t) == stack[t] = <<>>
Top(t)  == stack[t][Len(stack[t])]
At(t, pc) == ~Idle(t) /\ Top(t).pc = pc

Below(t)    == SubSeq(stack[t], 1, Len(stack[t]) - 1)
SetTop(t, call) == stack' = [stack EXCEPT ![t] = Append(Below(t), call)]

InLock == {"locked", "reading", "received"}

(***************************************************************************)
(* Beginning a call.                                                       *)
(***************************************************************************)

Ask(t, op, o, expr, handle) ==
    /\ begun < CallLimit
    /\ begun' = begun + 1
    /\ stack' = [stack EXCEPT ![t] = Append(@,
          [pc |-> "asking", request |-> Request(0, op, o, expr, handle), reply |-> <<>>])]
    /\ UNCHANGED <<serverVars, lock, next_id, exiting, own, used, servers, interrupts>>

\* The main thread does no more than finalize when the interpreter exits.
Asks(t) == Idle(t) /\ (t = Main => ~exiting)

\* Objects to be are all alike: any one of them is made.
Unborn == {o \in Objects : obj[o].state = "new"}

New(t) ==
    \E expr \in Exprs :
        LET o == CHOOSE p \in Unborn : TRUE IN
        /\ Asks(t) /\ Unborn # {}
        /\ obj' = [obj EXCEPT ![o] = [NewObject EXCEPT !.state = "building", !.expr = expr]]
        /\ Ask(t, "create", o, expr, NoHandle)

Use(t) ==
    \E o \in Objects :
        /\ Asks(t) /\ obj[o].state = "live"
        /\ Ask(t, "use", o, obj[o].expr, obj[o].handle)
        /\ UNCHANGED obj

IsValid(t) ==
    \E expr \in Exprs :
        /\ Asks(t)
        /\ Ask(t, "validate", NoObject, expr, NoHandle)
        /\ UNCHANGED obj

InUse(o) == \E t \in Threads : \E i \in 1..Len(stack[t]) : stack[t][i].request.obj = o

\* A finalizer runs between two steps of Python code: not in a wait for the lock
\* or for a reply.
Finalize(t) ==
    \E o \in Objects :
        /\ Idle(t) \/ At(t, "locked") \/ At(t, "received")
        /\ obj[o].state = "live" /\ ~InUse(o)
        /\ obj' = [obj EXCEPT ![o].state = "dying"]
        /\ Ask(t, "destroy", o, obj[o].expr, obj[o].handle)

(***************************************************************************)
(* `call`.                                                                 *)
(***************************************************************************)

Acquire(t) ==
    /\ At(t, "asking") /\ lock = Free
    /\ lock' = t
    /\ SetTop(t, [Top(t) EXCEPT !.pc = "locked"])
    /\ UNCHANGED <<serverVars, next_id, obj, exiting, historyVars>>

\* A process that has exited is replaced.
Send(t) ==
    LET req == [Top(t).request EXCEPT !.id = next_id] IN
    /\ At(t, "locked")
    /\ proc # "ending"
    /\ IF proc = "up" THEN Write(req) /\ UNCHANGED servers
       ELSE Spawn(req) /\ servers' = servers + 1
    /\ next_id' = next_id + 1
    /\ SetTop(t, [Top(t) EXCEPT !.pc = "reading", !.request = req])
    /\ UNCHANGED <<lock, obj, exiting, own, used, begun, interrupts>>

\* The end of a call that made no object, or the object unusable.
Leave(t, o) ==
    /\ stack' = [stack EXCEPT ![t] = Below(t)]
    /\ obj' = [obj EXCEPT ![o].state = IF @ \in {"building", "dying"} THEN "gone" ELSE @]

Fail(t) ==
    IF Top(t).request.obj = NoObject
    THEN stack' = [stack EXCEPT ![t] = Below(t)] /\ UNCHANGED obj
    ELSE Leave(t, Top(t).request.obj)

\* Mutant of Release: the lock is not released by an exception.
Release_OnSuccess(ok) == lock' = IF ok THEN Free ELSE lock

Release(ok) == lock' = Free

\* Writing to a process that is going down raises, with the number used up.
SendFails(t) ==
    /\ At(t, "locked") /\ proc = "ending"
    /\ next_id' = next_id + 1
    /\ Release(FALSE)
    /\ Fail(t)
    /\ UNCHANGED <<serverVars, exiting, historyVars>>

Receive(t) ==
    /\ At(t, "reading") /\ replies # <<>>
    /\ replies' = Tail(replies)
    /\ SetTop(t, [Top(t) EXCEPT !.pc = "received", !.reply = Head(replies)])
    /\ UNCHANGED <<proc, requests, PARSES, NEXT_HANDLE, lock, next_id, obj, exiting, historyVars>>

\* Nothing more to read of a process that has ended.
ReceiveNothing(t) ==
    /\ At(t, "reading") /\ replies = <<>>
    /\ proc = "exited" \/ (proc = "ending" /\ requests = <<>>)
    /\ Release(FALSE)
    /\ Fail(t)
    /\ UNCHANGED <<serverVars, next_id, exiting, historyVars>>

\* Mutant of Accepted: a reply is taken for the answer whatever its number.
Accepted_AnyId(call) == call.reply.ok

\* The reply is to this request, and no error.
Accepted(call) == call.reply.id = call.request.id /\ call.reply.ok

Return(t) ==
    LET o == Top(t).request.obj  reply == Top(t).reply IN
    /\ At(t, "received")
    /\ Release(TRUE)
    /\ IF Accepted(Top(t)) /\ Top(t).request.op = "create"
       THEN /\ stack' = [stack EXCEPT ![t] = Below(t)]
            /\ obj' = [obj EXCEPT ![o].state = "live", ![o].handle = reply.handle]
            /\ own' = [own EXCEPT ![o] = reply.parse]
            /\ UNCHANGED used
       ELSE /\ Fail(t)
            /\ used' = IF Accepted(Top(t)) /\ Top(t).request.op = "use"
                       THEN [used EXCEPT ![o] = reply.parse] ELSE used
            /\ UNCHANGED own
    /\ UNCHANGED <<serverVars, next_id, exiting, begun, servers, interrupts>>

(***************************************************************************)
(* Interrupts, and the end of the interpreter.                             *)
(***************************************************************************)

\* KeyboardInterrupt leaves the topmost call; out of a finalizer it goes no
\* further.  A reply that was to come stays in the pipe.
Interrupt ==
    /\ ~Idle(Main) /\ interrupts < InterruptLimit
    /\ interrupts' = interrupts + 1
    /\ IF Top(Main).pc \in InLock THEN Release(FALSE) ELSE UNCHANGED lock
    /\ Fail(Main)
    /\ UNCHANGED <<serverVars, next_id, exiting, own, used, begun, servers>>

\* At exit, without the lock, the pipe is closed.
Shutdown ==
    /\ Idle(Main) /\ ~exiting
    /\ exiting' = TRUE
    /\ proc' = IF proc = "up" THEN "ending" ELSE proc
    /\ UNCHANGED <<requests, replies, PARSES, NEXT_HANDLE, lock, next_id, stack, obj, historyVars>>

Serving_ == Serve /\ UNCHANGED <<lock, next_id, stack, obj, exiting, historyVars>>

\* A step of a call that is under way.
Step(t) ==
    \/ Acquire(t)
    \/ Send(t)
    \/ SendFails(t)
    \/ Receive(t)
    \/ ReceiveNothing(t)
    \/ Return(t)

Next ==
    \/ \E t \in Threads : New(t) \/ Use(t) \/ IsValid(t) \/ Finalize(t) \/ Step(t)
    \/ Interrupt
    \/ Shutdown
    \/ Serving_

\* Threads are scheduled, and the server answers every request it has read.
Fairness ==
    /\ \A t \in Threads : WF_bridgeVars(Step(t))
    /\ WF_bridgeVars(Serving_)

Spec == Init /\ [][Next]_bridgeVars /\ Fairness

(***************************************************************************)
(* Properties.                                                             *)
(***************************************************************************)

Calls(t) == {stack[t][i] : i \in 1..Len(stack[t])}

\* Type invariant.  The lock is held by the one thread with a call inside it,
\* and by that call alone.
BridgeTypeOK ==
    /\ proc \in {"none", "up", "ending", "exited"}
    /\ \A t \in Threads :
          /\ {c \in Calls(t) : c.pc \in InLock} # {} <=> lock = t
          /\ \A i, j \in 1..Len(stack[t]) :
                stack[t][i].pc \in InLock /\ stack[t][j].pc \in InLock => i = j
    /\ DOMAIN PARSES \subseteq 1..(NEXT_HANDLE - 1)
    /\ \A o \in Objects : obj[o].state \in {"new", "building", "live", "dying", "gone"}
    /\ next_id \in Nat \ {0}

\* No call takes the reply to another for its own, though an interrupted call
\* leaves its reply in the pipe for the next one to read.
OwnReply ==
    \A t \in Threads : \A call \in Calls(t) :
        call.pc = "received" /\ Accepted(call) => call.reply.to = call.request

InLife(o) == obj[o].state \in {"live", "dying"}

InFlight ==
    {r.handle : r \in {replies[i] : i \in 1..Len(replies)}
                     \cup {c.reply : c \in {d \in UNION {Calls(t) : t \in Threads} : d.pc = "received"}}}

\* As long as the first server is up it holds the parse of every live object,
\* and, if no call was interrupted, no other.
HeldForLife ==
    proc = "up" /\ servers = 1 =>
        /\ \A o \in Objects : obj[o].state = "live" =>
              obj[o].handle \in DOMAIN PARSES /\ PARSES[obj[o].handle] = own[o]
        /\ interrupts = 0 =>
              DOMAIN PARSES \subseteq {obj[o].handle : o \in {p \in Objects : InLife(p)}} \cup InFlight

\* An object is answered from the parse made for it (src/README.md: the engine
\* holds that parse for the object's lifetime).
AnsweredFromItsParse == \A o \in Objects : used[o] \in {NoParse, own[o]}

\* A finalizer that waits for the lock its own thread holds.
WaitsOnItself(t) == At(t, "asking") /\ lock = t

\* Every call ends, whatever fails, unless a finalizer began inside a call.
Returns ==
    \A t \in Threads :
        ~Idle(t) ~> Idle(t) \/ \E u \in Threads : WaitsOnItself(u)

=============================================================================
