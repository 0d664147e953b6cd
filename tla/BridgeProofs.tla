----------------------------- MODULE BridgeProofs -----------------------------
(***************************************************************************)
(* The safety invariants of the bridge, for any threads, objects,          *)
(* expressions, calls and interrupts.                                      *)
(*                                                                         *)
(* The inductive invariant comes in layers, each proved with the help of   *)
(* those before: types and the lock (Typed), the numbers of the messages   *)
(* (Numbered), the lives of the objects (Lives), and three about handles.  *)
(***************************************************************************)
EXTENDS Bridge, SequenceTheorems, TLAPS

(***************************************************************************)
(* Types.                                                                  *)
(***************************************************************************)

Ops == {"create", "use", "validate", "destroy"}

RequestSet ==
    [id : Nat, op : Ops, obj : Objects \cup {NoObject}, expr : Exprs, handle : Nat]

ParseSet == {NoParse} \cup [expr : Exprs, draw : Nat]

ReplySet == [id : Nat, ok : BOOLEAN, handle : Nat, parse : ParseSet, to : RequestSet]

CallSet ==
    [pc : {"asking"} \cup InLock, request : RequestSet, reply : ReplySet \cup {<<>>}]

ObjectSet ==
    [state : {"new", "building", "live", "dying", "gone"},
     expr : Exprs \cup {""}, handle : Nat]

ServerTyped ==
    /\ proc \in {"none", "up", "ending", "exited"}
    /\ requests \in Seq(RequestSet)
    /\ replies \in Seq(ReplySet)
    /\ NEXT_HANDLE \in Nat \ {0}
    /\ PARSES \in [DOMAIN PARSES -> ParseSet]
    /\ DOMAIN PARSES \subseteq 1..(NEXT_HANDLE - 1)

ShimTyped ==
    /\ lock \in Threads \cup {Free}
    /\ next_id \in Nat \ {0}
    /\ obj \in [Objects -> ObjectSet]
    /\ \A o \in Objects : obj[o].state # "new" => obj[o].expr \in Exprs
    /\ own \in [Objects -> ParseSet]
    /\ begun \in Nat /\ servers \in Nat /\ interrupts \in Nat

(***************************************************************************)
(* The stack of a thread: at most a call and, inside its lock, the         *)
(* finalizer that interrupts it.                                           *)
(***************************************************************************)

Elements(s) == {s[i] : i \in 1..Len(s)}

WellStacked(s) ==
    /\ s \in Seq(CallSet)
    /\ Len(s) <= 2
    /\ Len(s) = 2 => s[1].pc \in {"locked", "received"} /\ s[2].pc = "asking"
    /\ \A c \in Elements(s) : c.pc = "received" => c.reply \in ReplySet

\* The thread has a call inside the lock.
Inside(s) == s # <<>> /\ s[1].pc \in InLock

Stacks ==
    /\ stack = [t \in Threads |-> stack[t]]
    /\ \A t \in Threads : WellStacked(stack[t]) /\ (lock = t <=> Inside(stack[t]))

\* A call is about an object that has begun its life, or about none.
Begun ==
    \A t \in Threads : \A c \in Calls(t) :
        /\ c.request.obj \in Objects => obj[c.request.obj].state # "new"
        /\ c.request.op # "validate" => c.request.obj \in Objects

Typed == ServerTyped /\ ShimTyped /\ Stacks /\ Begun

\* The topmost call, and what may lie below it.
LEMMA TopOfStack ==
    ASSUME NEW s, WellStacked(s), s # <<>>
    PROVE  /\ Len(s) \in {1, 2}
           /\ s[Len(s)] \in Elements(s) /\ s[Len(s)] \in CallSet
           /\ s[Len(s)].pc # "asking" => Len(s) = 1
           /\ s[Len(s)].pc = "received" => s[Len(s)].reply \in ReplySet
           /\ Elements(s) \subseteq CallSet
<1>1. Len(s) \in Nat /\ Len(s) # 0
  BY EmptySeq DEF WellStacked
<1>2. Len(s) \in {1, 2}
  <2>1. s \in Seq(CallSet) /\ Len(s) <= 2
    BY DEF WellStacked
  <2>2. \A n \in Nat : n # 0 /\ n <= 2 => n \in {1, 2}
    OBVIOUS
  <2>. QED
    BY <1>1, <2>1, <2>2
<1>3. \A i \in 1..Len(s) : s[i] \in CallSet
  BY ElementOfSeq DEF WellStacked
<1>. QED
  BY <1>1, <1>2, <1>3 DEF WellStacked, Elements

\* A call is pushed on an idle stack, or by a finalizer on a call inside the lock.
LEMMA Pushed ==
    ASSUME NEW s, WellStacked(s), NEW c \in CallSet, c.pc = "asking",
           s = <<>> \/ s[Len(s)].pc \in {"locked", "received"}
    PROVE  /\ WellStacked(Append(s, c))
           /\ Inside(Append(s, c)) <=> Inside(s)
           /\ Elements(Append(s, c)) = Elements(s) \cup {c}
<1>. DEFINE r == Append(s, c)
<1>1. s \in Seq(CallSet) /\ Len(s) \in {0, 1}
  BY TopOfStack, EmptySeq DEF WellStacked
<1>2. r \in Seq(CallSet) /\ Len(r) = Len(s) + 1 /\ r[Len(r)] = c
      /\ \A i \in 1..Len(s) : r[i] = s[i]
  BY <1>1, AppendProperties
<1>3. Elements(r) = Elements(s) \cup {c}
  BY <1>1, <1>2 DEF Elements
<1>4. CASE s = <<>>
  <2>1. Len(r) = 1 /\ r[1] = c /\ r # <<>>
    BY <1>2, <1>4, EmptySeq
  <2>. QED
    BY <1>2, <1>3, <1>4, <2>1 DEF WellStacked, Inside, Elements, InLock
<1>5. CASE s # <<>>
  <2>1. Len(s) = 1
    BY <1>1, <1>5, TopOfStack
  <2>2. Len(r) = 2 /\ r[1] = s[1] /\ r[2] = c /\ r # <<>>
    BY <1>2, <2>1, EmptySeq
  <2>. QED
    BY <1>2, <1>3, <1>5, <2>1, <2>2 DEF WellStacked, Inside, Elements, InLock
<1>. QED
  BY <1>4, <1>5

\* A call leaves the stack.
LEMMA Popped ==
    ASSUME NEW s, WellStacked(s), s # <<>>
    PROVE  LET r   == SubSeq(s, 1, Len(s) - 1)
               top == s[Len(s)]
           IN  /\ WellStacked(r)
               /\ Inside(r) <=> Inside(s) /\ top.pc = "asking"
               /\ Elements(r) = Elements(s) \ {top}
<1>. DEFINE r   == SubSeq(s, 1, Len(s) - 1)
            top == s[Len(s)]
<1>1. s \in Seq(CallSet) /\ Len(s) \in {1, 2}
  BY TopOfStack DEF WellStacked
<1>2. CASE Len(s) = 1
  <2>1. r = <<>>
    BY <1>2, SubSeqEmpty
  <2>2. Elements(r) = {}
    BY <2>1, EmptySeq DEF Elements
  <2>3. r \in Seq(CallSet) /\ Len(r) = 0
    BY <2>1, EmptySeq
  <2>4. Elements(s) = {top}
    BY <1>2 DEF Elements
  <2>5. ~ (Inside(s) /\ top.pc = "asking")
    BY <1>2 DEF Inside, InLock
  <2>. QED
    BY <2>1, <2>2, <2>3, <2>4, <2>5 DEF WellStacked, Inside
<1>3. CASE Len(s) = 2
  <2>1. \A i \in 1..1 : s[i] \in CallSet
    BY <1>1, <1>3, ElementOfSeq
  <2>2. r \in Seq(CallSet) /\ Len(r) = 1 /\ r[1] = s[1]
    BY <1>1, <1>3, <2>1, SubSeqProperties
  <2>3. Elements(r) = {s[1]} /\ Elements(s) = {s[1], top} /\ r # <<>>
    BY <1>3, <2>2, EmptySeq DEF Elements
  <2>4. s[1].pc \in {"locked", "received"} /\ top.pc = "asking"
    BY <1>3 DEF WellStacked
  <2>. QED
    BY <1>3, <2>2, <2>3, <2>4 DEF WellStacked, Inside, InLock
<1>. QED
  BY <1>1, <1>2, <1>3

\* The topmost call goes on to c, inside the lock: it is the only one.
LEMMA Replaced ==
    ASSUME NEW s, WellStacked(s), s # <<>>, NEW c \in CallSet, c.pc \in InLock,
           c.pc = "received" => c.reply \in ReplySet,
           s[Len(s)].pc \in InLock \/ ~Inside(s)
    PROVE  LET r == Append(SubSeq(s, 1, Len(s) - 1), c)
           IN  /\ WellStacked(r) /\ Inside(r)
               /\ Elements(r) = {c} /\ Elements(s) = {s[Len(s)]}
<1>. DEFINE r == Append(SubSeq(s, 1, Len(s) - 1), c)
<1>1. Len(s) = 1
  BY TopOfStack DEF WellStacked, Inside, InLock
<1>2. SubSeq(s, 1, Len(s) - 1) = <<>>
  BY <1>1, SubSeqEmpty
<1>3. r \in Seq(CallSet) /\ Len(r) = 1 /\ r[1] = c /\ r # <<>>
  BY <1>2, EmptySeq, AppendProperties
<1>4. Elements(r) = {c} /\ Elements(s) = {s[Len(s)]}
  BY <1>1, <1>3 DEF Elements
<1>. QED
  BY <1>3, <1>4 DEF WellStacked, Inside

(***************************************************************************)
(* What a step does to the stacks.                                         *)
(***************************************************************************)

LEMMA CallsAreElements == \A t : Calls(t) = Elements(stack[t])
  BY DEF Calls, Elements

\* A thread's stack becomes r.
LEMMA StackOf ==
    ASSUME Stacks, NEW t \in Threads, NEW r, WellStacked(r),
           stack' = [stack EXCEPT ![t] = r],
           lock' = t <=> Inside(r),
           \A u \in Threads : u # t => (lock' = u <=> lock = u)
    PROVE  /\ Stacks'
           /\ Calls(t)' = Elements(r)
           /\ \A u \in Threads : u # t => Calls(u)' = Calls(u)
<1>1. stack'[t] = r /\ \A u \in Threads : u # t => stack'[u] = stack[u]
  BY DEF Stacks
<1>2. stack' = [u \in Threads |-> stack'[u]]
  BY DEF Stacks
<1>3. \A u \in Threads : WellStacked(stack'[u]) /\ (lock' = u <=> Inside(stack'[u]))
  BY <1>1 DEF Stacks
<1>4. Stacks'
  BY <1>2, <1>3 DEF Stacks
<1>. QED
  BY <1>1, <1>4 DEF Calls, Elements

LEMMA AskEffect ==
    ASSUME Stacks, NEW t \in Threads, NEW c \in CallSet, c.pc = "asking",
           Idle(t) \/ At(t, "locked") \/ At(t, "received"),
           stack' = [stack EXCEPT ![t] = Append(@, c)], lock' = lock
    PROVE  /\ Stacks'
           /\ Calls(t)' = Calls(t) \cup {c}
           /\ \A u \in Threads : u # t => Calls(u)' = Calls(u)
<1>. DEFINE s == stack[t]
<1>1. WellStacked(s) /\ (lock = t <=> Inside(s))
  BY DEF Stacks
<1>2. s = <<>> \/ s[Len(s)].pc \in {"locked", "received"}
  BY DEF Idle, At, Top
<1>3. /\ WellStacked(Append(s, c))
      /\ Inside(Append(s, c)) <=> Inside(s)
      /\ Elements(Append(s, c)) = Elements(s) \cup {c}
  BY <1>1, <1>2, Pushed
<1>. HIDE DEF s
<1>4. stack' = [stack EXCEPT ![t] = Append(s, c)]
  BY DEF s
<1>. QED
  BY <1>1, <1>3, <1>4, StackOf, CallsAreElements DEF s

\* A call that ends gives the lock back if it has it.
LEMMA LeaveEffect ==
    ASSUME Typed, NEW t \in Threads, ~Idle(t),
           stack' = [stack EXCEPT ![t] = Below(t)],
           lock' = IF Top(t).pc \in InLock THEN Free ELSE lock
    PROVE  /\ Stacks'
           /\ Calls(t)' = Calls(t) \ {Top(t)}
           /\ \A u \in Threads : u # t => Calls(u)' = Calls(u)
<1>. DEFINE s == stack[t]
            r == SubSeq(s, 1, Len(s) - 1)
<1>1. WellStacked(s) /\ (lock = t <=> Inside(s)) /\ s # <<>>
  BY DEF Typed, Stacks, Idle
<1>2. /\ WellStacked(r)
      /\ Inside(r) <=> Inside(s) /\ s[Len(s)].pc = "asking"
      /\ Elements(r) = Elements(s) \ {s[Len(s)]}
  BY <1>1, Popped
<1>3. Top(t) = s[Len(s)] /\ Below(t) = r
  BY DEF Top, Below
<1>4. s[Len(s)] \in CallSet /\ s[Len(s)] \in Elements(s)
  BY <1>1, TopOfStack
<1>5. Top(t).pc \in InLock => lock = t
  BY <1>1, <1>3, TopOfStack DEF Inside, InLock
<1>6. Top(t).pc \in InLock <=> Top(t).pc # "asking"
  BY <1>3, <1>4 DEF CallSet, InLock
<1>7. Free \notin Threads
  BY BridgeAssumption
<1>. HIDE DEF s, r
<1>8. lock' = t <=> Inside(r)
  BY <1>1, <1>2, <1>3, <1>5, <1>6, <1>7
<1>9. \A u \in Threads : u # t => (lock' = u <=> lock = u)
  BY <1>5, <1>7
<1>10. Stacks
  BY DEF Typed
<1>. QED
  BY <1>2, <1>3, <1>8, <1>9, <1>10, StackOf, CallsAreElements DEF s

\* A call goes on to c: it is then the only one of its thread.
LEMMA GoOnEffect ==
    ASSUME Typed, NEW t \in Threads, ~Idle(t), NEW c \in CallSet, c.pc \in InLock,
           c.pc = "received" => c.reply \in ReplySet,
           SetTop(t, c),
           \/ Top(t).pc \in InLock /\ lock' = lock
           \/ lock = Free /\ lock' = t
    PROVE  /\ Stacks'
           /\ lock' = t
           /\ Calls(t) = {Top(t)} /\ Calls(t)' = {c}
           /\ \A u \in Threads : u # t => Calls(u)' = Calls(u)
<1>. DEFINE s == stack[t]
            r == Append(SubSeq(s, 1, Len(s) - 1), c)
<1>1. WellStacked(s) /\ (lock = t <=> Inside(s)) /\ s # <<>>
  BY DEF Typed, Stacks, Idle
<1>2. Top(t) = s[Len(s)] /\ stack' = [stack EXCEPT ![t] = r]
  BY DEF Top, Below, SetTop
<1>3. Free \notin Threads
  BY BridgeAssumption
<1>4. s[Len(s)].pc \in InLock \/ ~Inside(s)
  BY <1>1, <1>2, <1>3
<1>5. WellStacked(r) /\ Inside(r) /\ Elements(r) = {c} /\ Elements(s) = {s[Len(s)]}
  BY <1>1, <1>4, Replaced
<1>6. s[Len(s)].pc \in InLock => lock = t
  BY <1>1, TopOfStack DEF Inside, InLock
<1>. HIDE DEF s, r
<1>7. lock' = t /\ \A u \in Threads : u # t => (lock' = u <=> lock = u)
  BY <1>2, <1>3, <1>6
<1>8. Stacks
  BY DEF Typed
<1>. QED
  BY <1>2, <1>5, <1>7, <1>8, StackOf, CallsAreElements DEF s

\* The topmost call of a thread that is in one, and the lock.
LEMMA TopFacts ==
    ASSUME Typed, NEW t \in Threads, ~Idle(t)
    PROVE  /\ Top(t) \in Calls(t) /\ Top(t) \in CallSet
           /\ Calls(t) \subseteq CallSet
           /\ Top(t).pc \in InLock => lock = t /\ Calls(t) = {Top(t)}
           /\ Top(t).pc = "received" => Top(t).reply \in ReplySet
<1>. DEFINE s == stack[t]
<1>1. WellStacked(s) /\ (lock = t <=> Inside(s)) /\ s # <<>>
  BY DEF Typed, Stacks, Idle
<1>2. Top(t) = s[Len(s)]
  BY DEF Top
<1>3. Calls(t) = Elements(s)
  BY CallsAreElements
<1>4. Top(t).pc \in InLock => Len(s) = 1
  BY <1>1, <1>2, TopOfStack DEF InLock
<1>5. Len(s) = 1 => Elements(s) = {s[Len(s)]}
  BY DEF Elements
<1>. QED
  BY <1>1, <1>2, <1>3, <1>4, <1>5, TopOfStack DEF Inside

(***************************************************************************)
(* First layer: types and the lock.                                        *)
(***************************************************************************)

NewCall(op, o, expr, handle) ==
    [pc |-> "asking", request |-> Request(0, op, o, expr, handle), reply |-> <<>>]

LEMMA BegunStep ==
    ASSUME Begun, NEW t \in Threads, NEW c,
           Calls(t)' \subseteq Calls(t) \cup {c},
           \A u \in Threads : u # t => Calls(u)' = Calls(u),
           c.request.obj \in Objects => obj'[c.request.obj].state # "new",
           c.request.op # "validate" => c.request.obj \in Objects,
           \A o \in Objects : obj[o].state # "new" => obj'[o].state # "new"
    PROVE  Begun'
<1>1. \A u \in Threads : Calls(u)' \subseteq Calls(u) \cup {c}
  OBVIOUS
<1>2. SUFFICES ASSUME NEW u \in Threads, NEW d \in Calls(u)'
               PROVE  /\ d.request.obj \in Objects => obj'[d.request.obj].state # "new"
                      /\ d.request.op # "validate" => d.request.obj \in Objects
  BY DEF Begun
<1>3. d \in Calls(u) \/ d = c
  BY <1>1
<1>. QED
  BY <1>3 DEF Begun

LEMMA AskTyped ==
    ASSUME Typed, NEW t \in Threads, NEW op \in Ops, NEW o \in Objects \cup {NoObject},
           NEW expr \in Exprs, NEW handle \in Nat,
           Idle(t) \/ At(t, "locked") \/ At(t, "received"),
           Ask(t, op, o, expr, handle)
    PROVE  /\ Stacks' /\ ServerTyped'
           /\ NewCall(op, o, expr, handle) \in CallSet
           /\ Calls(t)' = Calls(t) \cup {NewCall(op, o, expr, handle)}
           /\ \A u \in Threads : u # t => Calls(u)' = Calls(u)
<1>. DEFINE c == NewCall(op, o, expr, handle)
<1>1. c \in CallSet /\ c.pc = "asking"
  BY DEF NewCall, Request, CallSet, RequestSet
<1>2. stack' = [stack EXCEPT ![t] = Append(@, c)] /\ lock' = lock
  BY DEF Ask, NewCall
<1>3. ServerTyped'
  BY DEF Typed, ServerTyped, Ask, serverVars
<1>. HIDE DEF c
<1>. QED
  BY <1>1, <1>2, <1>3, AskEffect DEF Typed, c

LEMMA RespondTyped ==
    ASSUME ServerTyped, requests # <<>>, NEW r \in ReplySet, Respond(r)
    PROVE  /\ requests' \in Seq(RequestSet) /\ replies' \in Seq(ReplySet)
           /\ proc' = proc
  BY HeadTailProperties, AppendProperties DEF ServerTyped, Respond

LEMMA HeadTyped ==
    ASSUME ServerTyped, requests # <<>>
    PROVE  Req \in RequestSet
  BY HeadTailProperties DEF ServerTyped, Req

\* What a parse may be is typed.
LEMMA ParsesTyped ==
    /\ \A e \in Exprs : Draws[e] \subseteq ParseSet
    /\ NoParse \in ParseSet
  BY ServerAssumption DEF ParseSet

LEMMA ReplyTyped ==
    ASSUME NEW req \in RequestSet, NEW ok \in BOOLEAN, NEW h \in Nat, NEW parse \in ParseSet
    PROVE  Reply(req, ok, h, parse) \in ReplySet
  BY DEF Reply, ReplySet, RequestSet

LEMMA ServeTyped ==
    ASSUME ServerTyped, Serve
    PROVE  ServerTyped'
<1>1. CASE Create
  <2>1. PICK parse \in Draws[Req.expr] : store_parse(parse) /\ Respond(Reply(Req, TRUE, NEXT_HANDLE, parse))
    BY <1>1 DEF Create
  <2>2. Req \in RequestSet /\ requests # <<>>
    BY <1>1, HeadTyped DEF Create, Serving
  <2>3. parse \in ParseSet
    BY <2>1, <2>2, ParsesTyped DEF RequestSet
  <2>4. Reply(Req, TRUE, NEXT_HANDLE, parse) \in ReplySet
    BY <2>2, <2>3, ReplyTyped DEF ServerTyped
  <2>5. requests' \in Seq(RequestSet) /\ replies' \in Seq(ReplySet) /\ proc' = proc
    BY <2>1, <2>2, <2>4, RespondTyped
  <2>6. /\ NEXT_HANDLE' = NEXT_HANDLE + 1
        /\ PARSES' = [h \in DOMAIN PARSES \cup {NEXT_HANDLE} |->
                         IF h = NEXT_HANDLE THEN parse ELSE PARSES[h]]
    BY <2>1 DEF store_parse
  <2>7. NEXT_HANDLE' \in Nat \ {0} /\ DOMAIN PARSES' \subseteq 1..(NEXT_HANDLE' - 1)
    BY <2>6 DEF ServerTyped
  <2>8. PARSES' \in [DOMAIN PARSES' -> ParseSet]
    BY <2>3, <2>6 DEF ServerTyped
  <2>. QED
    BY <2>5, <2>7, <2>8 DEF ServerTyped
<1>2. CASE Answer
  <2>1. PICK parse \in make_cron(Req), found \in BOOLEAN :
           Respond(Reply(Req, found, NoHandle, IF found THEN parse ELSE NoParse))
    BY <1>2 DEF Answer
  <2>2. Req \in RequestSet /\ requests # <<>>
    BY <1>2, HeadTyped DEF Answer, Serving
  <2>3. parse \in ParseSet
    BY <2>1, <2>2, ParsesTyped DEF RequestSet, make_cron, ServerTyped
  <2>4. Reply(Req, found, NoHandle, IF found THEN parse ELSE NoParse) \in ReplySet
    BY <2>1, <2>2, <2>3, ParsesTyped, ReplyTyped DEF NoHandle
  <2>. QED
    BY <1>2, <2>1, <2>2, <2>4, RespondTyped DEF Answer, ServerTyped
<1>3. CASE Validate
  <2>1. PICK parse \in Draws[Req.expr] : Respond(Reply(Req, TRUE, NoHandle, parse))
    BY <1>3 DEF Validate
  <2>2. Req \in RequestSet /\ requests # <<>>
    BY <1>3, HeadTyped DEF Validate, Serving
  <2>3. Reply(Req, TRUE, NoHandle, parse) \in ReplySet
    BY <2>1, <2>2, ParsesTyped, ReplyTyped DEF NoHandle, RequestSet
  <2>. QED
    BY <1>3, <2>1, <2>2, <2>3, RespondTyped DEF Validate, ServerTyped
<1>4. CASE Destroy
  <2>1. Req \in RequestSet /\ requests # <<>>
    BY <1>4, HeadTyped DEF Destroy, Serving
  <2>2. Reply(Req, TRUE, NoHandle, NoParse) \in ReplySet
    BY <2>1, ParsesTyped, ReplyTyped DEF NoHandle
  <2>3. /\ PARSES' = [h \in DOMAIN PARSES \ {Req.handle} |-> PARSES[h]]
        /\ NEXT_HANDLE' = NEXT_HANDLE
    BY <1>4 DEF Destroy, Restrict
  <2>4. requests' \in Seq(RequestSet) /\ replies' \in Seq(ReplySet) /\ proc' = proc
    BY <1>4, <2>1, <2>2, RespondTyped DEF Destroy
  <2>. QED
    BY <2>3, <2>4 DEF ServerTyped
<1>5. CASE Reject
  <2>1. Req \in RequestSet /\ requests # <<>>
    BY <1>5, HeadTyped DEF Reject, Expanding, Serving
  <2>2. Reply(Req, FALSE, NoHandle, NoParse) \in ReplySet
    BY <2>1, ParsesTyped, ReplyTyped DEF NoHandle
  <2>. QED
    BY <1>5, <2>1, <2>2, RespondTyped DEF Reject, Expanding, ServerTyped
<1>6. CASE Panic
  BY <1>6, EmptySeq DEF Panic, Expanding, ServerTyped
<1>7. CASE Exit
  BY <1>7, EmptySeq DEF Exit, ServerTyped
<1>. QED
  BY <1>1, <1>2, <1>3, <1>4, <1>5, <1>6, <1>7 DEF Serve

\* A call that fails leaves the stack, and its object is gone if it was being
\* made or finalized.
LEMMA FailEffect ==
    ASSUME Typed, NEW t \in Threads, ~Idle(t), Fail(t)
    PROVE  /\ stack' = [stack EXCEPT ![t] = Below(t)]
           /\ obj' \in [Objects -> ObjectSet]
           /\ \A o \in Objects :
                 /\ obj'[o].expr = obj[o].expr /\ obj'[o].handle = obj[o].handle
                 /\ obj'[o].state = IF o = Top(t).request.obj /\ obj[o].state \in {"building", "dying"}
                                    THEN "gone" ELSE obj[o].state
           /\ \A o \in Objects : obj'[o].state # "new" => obj'[o].expr \in Exprs
<1>. DEFINE p == Top(t).request.obj
<1>1. p \in Objects \cup {NoObject} /\ NoObject \notin Objects
  BY TopFacts, BridgeAssumption DEF CallSet, RequestSet
<1>2. obj \in [Objects -> ObjectSet] /\ \A o \in Objects : obj[o].state # "new" => obj[o].expr \in Exprs
  BY DEF Typed, ShimTyped
<1>3. CASE p = NoObject
  BY <1>1, <1>2, <1>3 DEF Fail
<1>4. CASE p # NoObject
  <2>1. p \in Objects /\ Leave(t, p)
    BY <1>1, <1>4 DEF Fail
  <2>2. obj' = [obj EXCEPT ![p].state = IF @ \in {"building", "dying"} THEN "gone" ELSE @]
    BY <2>1 DEF Leave
  <2>3. \A o \in Objects : obj'[o] = IF o = p THEN [obj[p] EXCEPT !.state =
              IF obj[p].state \in {"building", "dying"} THEN "gone" ELSE obj[p].state] ELSE obj[o]
    BY <1>2, <2>1, <2>2
  <2>4. obj' \in [Objects -> ObjectSet]
    BY <1>2, <2>1, <2>2 DEF ObjectSet
  <2>5. \A o \in Objects :
          /\ obj'[o].expr = obj[o].expr /\ obj'[o].handle = obj[o].handle
          /\ obj'[o].state = IF o = p /\ obj[o].state \in {"building", "dying"}
                             THEN "gone" ELSE obj[o].state
    <3>. HIDE DEF p
    <3>1. SUFFICES ASSUME NEW o \in Objects
                   PROVE  /\ obj'[o].expr = obj[o].expr /\ obj'[o].handle = obj[o].handle
                          /\ obj'[o].state = IF o = p /\ obj[o].state \in {"building", "dying"}
                                             THEN "gone" ELSE obj[o].state
      OBVIOUS
    <3>2. obj[o] \in ObjectSet
      BY <1>2
    <3>3. CASE o = p
      BY <2>3, <3>2, <3>3 DEF ObjectSet
    <3>4. CASE o # p
      BY <2>3, <3>4
    <3>. QED
      BY <3>3, <3>4
  <2>6. \A o \in Objects : obj'[o].state # "new" => obj'[o].expr \in Exprs
    BY <1>2, <2>5
  <2>. QED
    BY <2>1, <2>4, <2>5, <2>6 DEF Leave
<1>. QED
  BY <1>3, <1>4

\* What a step leaves of the types: the conjuncts it does not mention.
LEMMA NewTyped ==
    ASSUME Typed, NEW t \in Threads, New(t)
    PROVE  /\ Typed'
           /\ \E o \in Objects, expr \in Exprs :
                 /\ obj[o].state = "new"
                 /\ obj' = [obj EXCEPT ![o] = [NewObject EXCEPT !.state = "building", !.expr = expr]]
                 /\ Calls(t)' = Calls(t) \cup {NewCall("create", o, expr, NoHandle)}
                 /\ \A u \in Threads : u # t => Calls(u)' = Calls(u)
<1>1. PICK expr \in Exprs :
         LET o == CHOOSE p \in Unborn : TRUE IN
         /\ Asks(t) /\ Unborn # {}
         /\ obj' = [obj EXCEPT ![o] = [NewObject EXCEPT !.state = "building", !.expr = expr]]
         /\ Ask(t, "create", o, expr, NoHandle)
  BY DEF New
<1>. DEFINE o == CHOOSE p \in Unborn : TRUE
<1>2. o \in Objects /\ obj[o].state = "new"
  BY <1>1 DEF Unborn
<1>. HIDE DEF o
<1>3. /\ obj' = [obj EXCEPT ![o] = [NewObject EXCEPT !.state = "building", !.expr = expr]]
      /\ Ask(t, "create", o, expr, NoHandle) /\ Idle(t)
  BY <1>1 DEF o, Asks
<1>4. /\ Stacks' /\ ServerTyped'
      /\ Calls(t)' = Calls(t) \cup {NewCall("create", o, expr, NoHandle)}
      /\ \A u \in Threads : u # t => Calls(u)' = Calls(u)
  BY <1>2, <1>3, AskTyped DEF Ops, NoHandle
<1>5. obj' \in [Objects -> ObjectSet] /\ \A p \in Objects : obj'[p].state # "new" => obj'[p].expr \in Exprs
  BY <1>2, <1>3 DEF Typed, ShimTyped, NewObject, ObjectSet, NoHandle
<1>6. ShimTyped'
  BY <1>3, <1>5 DEF Typed, ShimTyped, Ask
<1>7. Begun'
  <2>1. obj'[o].state = "building" /\ \A p \in Objects : p # o => obj'[p] = obj[p]
    BY <1>2, <1>3 DEF Typed, ShimTyped, NewObject, ObjectSet
  <2>. QED
    BY <1>2, <1>4, <2>1, BegunStep DEF Typed, NewCall, Request
<1>. QED
  BY <1>2, <1>3, <1>4, <1>6, <1>7 DEF Typed

LEMMA UseTyped ==
    ASSUME Typed, NEW t \in Threads, Use(t)
    PROVE  /\ Typed' /\ obj' = obj
           /\ \E o \in Objects :
                 /\ obj[o].state = "live"
                 /\ Calls(t)' = Calls(t) \cup {NewCall("use", o, obj[o].expr, obj[o].handle)}
                 /\ \A u \in Threads : u # t => Calls(u)' = Calls(u)
<1>1. PICK o \in Objects :
         /\ Asks(t) /\ obj[o].state = "live"
         /\ Ask(t, "use", o, obj[o].expr, obj[o].handle)
         /\ UNCHANGED obj
  BY DEF Use
<1>2. obj[o].expr \in Exprs /\ obj[o].handle \in Nat
  BY <1>1 DEF Typed, ShimTyped, ObjectSet
<1>3. /\ Stacks' /\ ServerTyped'
      /\ Calls(t)' = Calls(t) \cup {NewCall("use", o, obj[o].expr, obj[o].handle)}
      /\ \A u \in Threads : u # t => Calls(u)' = Calls(u)
  BY <1>1, <1>2, AskTyped DEF Ops, Asks
<1>4. ShimTyped'
  BY <1>1 DEF Typed, ShimTyped, Ask
<1>5. Begun'
  BY <1>1, <1>3, BegunStep DEF Typed, NewCall, Request
<1>. QED
  BY <1>1, <1>3, <1>4, <1>5 DEF Typed

LEMMA IsValidTyped ==
    ASSUME Typed, NEW t \in Threads, IsValid(t)
    PROVE  /\ Typed' /\ obj' = obj
           /\ \E expr \in Exprs :
                 /\ Calls(t)' = Calls(t) \cup {NewCall("validate", NoObject, expr, NoHandle)}
                 /\ \A u \in Threads : u # t => Calls(u)' = Calls(u)
<1>1. PICK expr \in Exprs :
         Asks(t) /\ Ask(t, "validate", NoObject, expr, NoHandle) /\ UNCHANGED obj
  BY DEF IsValid
<1>2. /\ Stacks' /\ ServerTyped'
      /\ Calls(t)' = Calls(t) \cup {NewCall("validate", NoObject, expr, NoHandle)}
      /\ \A u \in Threads : u # t => Calls(u)' = Calls(u)
  BY <1>1, AskTyped DEF Ops, Asks, NoHandle
<1>3. ShimTyped'
  BY <1>1 DEF Typed, ShimTyped, Ask
<1>4. Begun'
  BY <1>1, <1>2, BegunStep, BridgeAssumption DEF Typed, NewCall, Request
<1>. QED
  BY <1>1, <1>2, <1>3, <1>4 DEF Typed

LEMMA FinalizeTyped ==
    ASSUME Typed, NEW t \in Threads, Finalize(t)
    PROVE  /\ Typed'
           /\ \E o \in Objects :
                 /\ obj[o].state = "live" /\ ~InUse(o)
                 /\ obj' = [obj EXCEPT ![o].state = "dying"]
                 /\ Calls(t)' = Calls(t) \cup {NewCall("destroy", o, obj[o].expr, obj[o].handle)}
                 /\ \A u \in Threads : u # t => Calls(u)' = Calls(u)
<1>1. PICK o \in Objects :
         /\ Idle(t) \/ At(t, "locked") \/ At(t, "received")
         /\ obj[o].state = "live" /\ ~InUse(o)
         /\ obj' = [obj EXCEPT ![o].state = "dying"]
         /\ Ask(t, "destroy", o, obj[o].expr, obj[o].handle)
  BY DEF Finalize
<1>2. obj[o].expr \in Exprs /\ obj[o].handle \in Nat
  BY <1>1 DEF Typed, ShimTyped, ObjectSet
<1>3. /\ Stacks' /\ ServerTyped'
      /\ Calls(t)' = Calls(t) \cup {NewCall("destroy", o, obj[o].expr, obj[o].handle)}
      /\ \A u \in Threads : u # t => Calls(u)' = Calls(u)
  BY <1>1, <1>2, AskTyped DEF Ops
<1>4. obj' \in [Objects -> ObjectSet] /\ \A p \in Objects : obj'[p].state # "new" => obj'[p].expr \in Exprs
  BY <1>1, <1>2 DEF Typed, ShimTyped, ObjectSet
<1>5. ShimTyped'
  BY <1>1, <1>4 DEF Typed, ShimTyped, Ask
<1>6. Begun'
  <2>1. obj'[o].state = "dying" /\ \A p \in Objects : p # o => obj'[p] = obj[p]
    BY <1>1 DEF Typed, ShimTyped, ObjectSet
  <2>. QED
    BY <1>1, <1>3, <2>1, BegunStep DEF Typed, NewCall, Request
<1>. QED
  BY <1>1, <1>3, <1>5, <1>6 DEF Typed

\* A call that begins.
LEMMA AskedCall ==
    ASSUME Typed, NEW t \in Threads, New(t) \/ Use(t) \/ IsValid(t) \/ Finalize(t)
    PROVE  \E op, o, expr, handle :
              /\ NewCall(op, o, expr, handle).pc = "asking"
              /\ NewCall(op, o, expr, handle).request = Request(0, op, o, expr, handle)
              /\ Calls(t)' = Calls(t) \cup {NewCall(op, o, expr, handle)}
              /\ \A u \in Threads : u # t => Calls(u)' = Calls(u)
<1>1. \A op, o, expr, handle :
         /\ NewCall(op, o, expr, handle).pc = "asking"
         /\ NewCall(op, o, expr, handle).request = Request(0, op, o, expr, handle)
  BY DEF NewCall
<1>2. CASE New(t)
  <2>1. PICK o \in Objects, expr \in Exprs :
           /\ Calls(t)' = Calls(t) \cup {NewCall("create", o, expr, NoHandle)}
           /\ \A u \in Threads : u # t => Calls(u)' = Calls(u)
    BY <1>2, NewTyped
  <2>. QED
    BY <1>1, <2>1
<1>3. CASE Use(t)
  BY <1>1, <1>3, UseTyped
<1>4. CASE IsValid(t)
  BY <1>1, <1>4, IsValidTyped
<1>5. CASE Finalize(t)
  BY <1>1, <1>5, FinalizeTyped
<1>. QED
  BY <1>2, <1>3, <1>4, <1>5

LEMMA AcquireTyped ==
    ASSUME Typed, NEW t \in Threads, Acquire(t)
    PROVE  /\ Typed' /\ lock' = t
           /\ Calls(t) = {Top(t)}
           /\ Calls(t)' = {[Top(t) EXCEPT !.pc = "locked"]}
           /\ \A u \in Threads : u # t => Calls(u)' = Calls(u)
<1>. DEFINE c == [Top(t) EXCEPT !.pc = "locked"]
<1>1. ~Idle(t) /\ Top(t).pc = "asking" /\ Top(t) \in CallSet /\ Top(t) \in Calls(t)
  BY TopFacts DEF Acquire, At
<1>2. c \in CallSet /\ c.pc = "locked" /\ c.request = Top(t).request
  BY <1>1 DEF CallSet, InLock
<1>3. SetTop(t, c) /\ lock = Free /\ lock' = t
  BY DEF Acquire
<1>. HIDE DEF c
<1>4. /\ Stacks' /\ Calls(t) = {Top(t)} /\ Calls(t)' = {c}
      /\ \A u \in Threads : u # t => Calls(u)' = Calls(u)
  BY <1>1, <1>2, <1>3, GoOnEffect DEF InLock
<1>5. ServerTyped' /\ ShimTyped' /\ obj' = obj
  BY <1>3 DEF Acquire, Typed, ServerTyped, ShimTyped, serverVars, historyVars
<1>6. Begun'
  BY <1>1, <1>2, <1>4, <1>5, BegunStep DEF Typed, Begun
<1>. QED
  BY <1>3, <1>4, <1>5, <1>6 DEF Typed, c

LEMMA SendTyped ==
    ASSUME Typed, NEW t \in Threads, Send(t)
    PROVE  LET req == [Top(t).request EXCEPT !.id = next_id]
           IN  /\ Typed' /\ lock = t /\ obj' = obj
               /\ req \in RequestSet
               /\ Calls(t) = {Top(t)}
               /\ Calls(t)' = {[Top(t) EXCEPT !.pc = "reading", !.request = req]}
               /\ \A u \in Threads : u # t => Calls(u)' = Calls(u)
<1>. DEFINE req == [Top(t).request EXCEPT !.id = next_id]
            c == [Top(t) EXCEPT !.pc = "reading", !.request = req]
<1>1. /\ ~Idle(t) /\ Top(t).pc = "locked" /\ Top(t) \in CallSet /\ Top(t) \in Calls(t)
      /\ lock = t
  BY TopFacts DEF Send, At, InLock
<1>2. Top(t).request \in RequestSet /\ next_id \in Nat \ {0}
  BY <1>1 DEF CallSet, Typed, ShimTyped
<1>3. req \in RequestSet
  BY <1>2 DEF RequestSet
<1>4. /\ c \in CallSet /\ c.pc = "reading"
      /\ c.request.obj = Top(t).request.obj /\ c.request.op = Top(t).request.op
  BY <1>1, <1>2, <1>3 DEF CallSet, RequestSet, InLock
<1>5. SetTop(t, c) /\ lock' = lock
  BY DEF Send
<1>6. ServerTyped'
  <2>1. <<req>> \in Seq(RequestSet) /\ Append(requests, req) \in Seq(RequestSet)
    BY <1>3, AppendProperties, EmptySeq DEF Typed, ServerTyped
  <2>2. CASE proc = "up"
    BY <2>1, <2>2 DEF Send, Write, Typed, ServerTyped
  <2>3. CASE proc # "up"
    <3>1. Spawn(req)
      BY <2>3 DEF Send
    <3>2. PARSES' = << >> /\ DOMAIN PARSES' = {} /\ PARSES' \in [{} -> ParseSet]
      BY <3>1, EmptySeq DEF Spawn
    <3>. QED
      BY <2>1, <3>1, <3>2, EmptySeq DEF Spawn, ServerTyped
  <2>. QED
    BY <2>2, <2>3
<1>. HIDE DEF c, req
<1>7. /\ Stacks' /\ Calls(t) = {Top(t)} /\ Calls(t)' = {c}
      /\ \A u \in Threads : u # t => Calls(u)' = Calls(u)
  BY <1>1, <1>4, <1>5, GoOnEffect DEF InLock
<1>8. ShimTyped' /\ obj' = obj
  <2>1. servers' \in Nat
    BY DEF Send, Typed, ShimTyped
  <2>. QED
    BY <1>2, <2>1 DEF Send, Typed, ShimTyped
<1>9. Begun'
  BY <1>1, <1>4, <1>7, <1>8, BegunStep DEF Typed, Begun
<1>. QED
  BY <1>1, <1>3, <1>6, <1>7, <1>8, <1>9 DEF Typed, c, req

LEMMA ReceiveTyped ==
    ASSUME Typed, NEW t \in Threads, Receive(t)
    PROVE  /\ Typed' /\ lock = t /\ Head(replies) \in ReplySet
           /\ Calls(t) = {Top(t)}
           /\ Calls(t)' = {[Top(t) EXCEPT !.pc = "received", !.reply = Head(replies)]}
           /\ \A u \in Threads : u # t => Calls(u)' = Calls(u)
<1>. DEFINE c == [Top(t) EXCEPT !.pc = "received", !.reply = Head(replies)]
<1>1. /\ ~Idle(t) /\ Top(t).pc = "reading" /\ Top(t) \in CallSet /\ Top(t) \in Calls(t)
      /\ lock = t
  BY TopFacts DEF Receive, At, InLock
<1>2. Head(replies) \in ReplySet /\ Tail(replies) \in Seq(ReplySet)
  BY HeadTailProperties DEF Receive, Typed, ServerTyped
<1>3. c \in CallSet /\ c.pc = "received" /\ c.reply \in ReplySet /\ c.request = Top(t).request
  BY <1>1, <1>2 DEF CallSet, InLock
<1>4. SetTop(t, c) /\ lock' = lock
  BY DEF Receive
<1>. HIDE DEF c
<1>5. /\ Stacks' /\ Calls(t) = {Top(t)} /\ Calls(t)' = {c}
      /\ \A u \in Threads : u # t => Calls(u)' = Calls(u)
  BY <1>1, <1>3, <1>4, GoOnEffect DEF InLock
<1>6. ServerTyped' /\ ShimTyped' /\ obj' = obj
  BY <1>2 DEF Receive, Typed, ServerTyped, ShimTyped, historyVars
<1>7. Begun'
  BY <1>1, <1>3, <1>5, <1>6, BegunStep DEF Typed, Begun
<1>. QED
  BY <1>1, <1>2, <1>5, <1>6, <1>7 DEF Typed, c

\* Leaving a call, with the lock if it is held, over a server left alone.
LEMMA FailTyped ==
    ASSUME Typed, NEW t \in Threads, ~Idle(t), Fail(t),
           lock' = IF Top(t).pc \in InLock THEN Free ELSE lock
    PROVE  /\ Stacks' /\ Begun' /\ lock' \in Threads \cup {Free}
           /\ Calls(t)' = Calls(t) \ {Top(t)}
           /\ \A u \in Threads : u # t => Calls(u)' = Calls(u)
<1>1. /\ Stacks'
      /\ Calls(t)' = Calls(t) \ {Top(t)}
      /\ \A u \in Threads : u # t => Calls(u)' = Calls(u)
  BY FailEffect, LeaveEffect
<1>2. Top(t) \in Calls(t)
  BY TopFacts
<1>3. \A o \in Objects : obj[o].state # "new" => obj'[o].state # "new"
  BY FailEffect
<1>4. Begun'
  BY <1>1, <1>2, <1>3, BegunStep DEF Typed, Begun
<1>. QED
  BY <1>1, <1>4 DEF Typed, ShimTyped

LEMMA SendFailsTyped ==
    ASSUME Typed, NEW t \in Threads, SendFails(t)
    PROVE  /\ Typed' /\ ~Idle(t) /\ Fail(t)
           /\ Calls(t)' = Calls(t) \ {Top(t)}
           /\ \A u \in Threads : u # t => Calls(u)' = Calls(u)
<1>1. ~Idle(t) /\ Top(t).pc \in InLock /\ Fail(t) /\ lock' = Free
  BY DEF SendFails, At, InLock, Release
<1>2. ServerTyped' /\ next_id' \in Nat \ {0}
  BY DEF SendFails, serverVars, Typed, ServerTyped, ShimTyped
<1>3. ShimTyped'
  BY <1>1, <1>2, FailEffect DEF SendFails, historyVars, Typed, ShimTyped
<1>. QED
  BY <1>1, <1>2, <1>3, FailTyped DEF Typed

LEMMA ReceiveNothingTyped ==
    ASSUME Typed, NEW t \in Threads, ReceiveNothing(t)
    PROVE  /\ Typed' /\ ~Idle(t) /\ Fail(t)
           /\ Calls(t)' = Calls(t) \ {Top(t)}
           /\ \A u \in Threads : u # t => Calls(u)' = Calls(u)
<1>1. ~Idle(t) /\ Top(t).pc \in InLock /\ Fail(t) /\ lock' = Free
  BY DEF ReceiveNothing, At, InLock, Release
<1>2. ServerTyped'
  BY DEF ReceiveNothing, serverVars, Typed, ServerTyped
<1>3. ShimTyped'
  BY <1>1, FailEffect DEF ReceiveNothing, historyVars, Typed, ShimTyped
<1>. QED
  BY <1>1, <1>2, <1>3, FailTyped DEF Typed

LEMMA InterruptTyped ==
    ASSUME Typed, Interrupt
    PROVE  /\ Typed' /\ ~Idle(Main) /\ Fail(Main)
           /\ Calls(Main)' = Calls(Main) \ {Top(Main)}
           /\ \A u \in Threads : u # Main => Calls(u)' = Calls(u)
<1>1. ~Idle(Main) /\ Fail(Main) /\ Main \in Threads
      /\ lock' = IF Top(Main).pc \in InLock THEN Free ELSE lock
  BY BridgeAssumption DEF Interrupt, Release
<1>2. ServerTyped'
  BY DEF Interrupt, serverVars, Typed, ServerTyped
<1>3. ShimTyped'
  BY <1>1, FailEffect, FailTyped DEF Interrupt, Typed, ShimTyped
<1>. QED
  BY <1>1, <1>2, <1>3, FailTyped DEF Typed

\* A call that made its object.
Made(t) == Accepted(Top(t)) /\ Top(t).request.op = "create"

LEMMA ReturnTyped ==
    ASSUME Typed, NEW t \in Threads, Return(t)
    PROVE  /\ Typed' /\ lock = t /\ ~Idle(t) /\ At(t, "received")
           /\ Calls(t) = {Top(t)}
           /\ Calls(t)' = {}
           /\ \A u \in Threads : u # t => Calls(u)' = Calls(u)
           /\ ~Made(t) => Fail(t) /\ own' = own
           /\ Made(t) =>
                /\ Top(t).request.obj \in Objects
                /\ obj' = [obj EXCEPT ![Top(t).request.obj] =
                              [@ EXCEPT !.state = "live", !.handle = Top(t).reply.handle]]
                /\ own' = [own EXCEPT ![Top(t).request.obj] = Top(t).reply.parse]
<1>. DEFINE o == Top(t).request.obj
            reply == Top(t).reply
<1>1. /\ ~Idle(t) /\ Top(t).pc = "received" /\ Top(t).pc \in InLock
      /\ lock = t /\ Calls(t) = {Top(t)} /\ Top(t) \in CallSet /\ reply \in ReplySet
  BY TopFacts DEF Return, At, InLock
<1>2. lock' = Free
  BY DEF Return, Release
<1>3. ServerTyped'
  BY DEF Return, serverVars, Typed, ServerTyped
<1>4. CASE Made(t)
  <2>1. /\ stack' = [stack EXCEPT ![t] = Below(t)]
        /\ obj' = [obj EXCEPT ![o].state = "live", ![o].handle = reply.handle]
        /\ own' = [own EXCEPT ![o] = reply.parse]
    BY <1>4 DEF Return, Made
  <2>2. o \in Objects /\ obj[o].state # "new" /\ obj[o].expr \in Exprs /\ obj[o] \in ObjectSet
    BY <1>1, <1>4 DEF Typed, Begun, Made, ShimTyped
  <2>3. /\ Stacks'
        /\ Calls(t)' = Calls(t) \ {Top(t)}
        /\ \A u \in Threads : u # t => Calls(u)' = Calls(u)
    BY <1>1, <1>2, <2>1, LeaveEffect
  <2>4. reply.handle \in Nat /\ reply.parse \in ParseSet
    BY <1>1 DEF ReplySet
  <2>. HIDE DEF o, reply
  <2>5. obj' = [obj EXCEPT ![o] = [@ EXCEPT !.state = "live", !.handle = reply.handle]]
    BY <2>1, <2>2 DEF Typed, ShimTyped
  <2>6. obj'[o].state = "live" /\ obj'[o].expr \in Exprs /\ \A p \in Objects : p # o => obj'[p] = obj[p]
    BY <2>2, <2>5 DEF Typed, ShimTyped, ObjectSet
  <2>7. obj' \in [Objects -> ObjectSet]
    BY <2>2, <2>4, <2>5 DEF Typed, ShimTyped, ObjectSet
  <2>8. own' \in [Objects -> ParseSet]
    BY <2>1, <2>2, <2>4 DEF Typed, ShimTyped
  <2>9. ShimTyped'
    BY <1>2, <2>6, <2>7, <2>8 DEF Return, Typed, ShimTyped
  <2>10. Begun'
    BY <1>1, <2>3, <2>6, BegunStep DEF Typed, Begun
  <2>11. Typed'
    BY <1>3, <2>3, <2>9, <2>10 DEF Typed
  <2>12. At(t, "received") /\ Calls(t)' = {}
    BY <1>1, <2>3 DEF Return
  <2>. QED
    BY <1>1, <1>4, <2>1, <2>2, <2>3, <2>5, <2>11, <2>12 DEF o, reply
<1>5. CASE ~Made(t)
  <2>1. Fail(t) /\ own' = own
    BY <1>5 DEF Return, Made
  <2>2. ShimTyped'
    BY <1>1, <1>2, <2>1, FailEffect DEF Return, Typed, ShimTyped
  <2>. QED
    BY <1>1, <1>2, <1>3, <1>5, <2>1, <2>2, FailTyped DEF Typed, Return
<1>. QED
  BY <1>4, <1>5

\* The steps that leave the stacks alone.
LEMMA ElsewhereTyped ==
    ASSUME Typed, Shutdown \/ Serving_ \/ UNCHANGED bridgeVars
    PROVE  Typed' /\ obj' = obj /\ own' = own /\ \A u \in Threads : Calls(u)' = Calls(u)
<1>1. stack' = stack /\ lock' = lock /\ obj' = obj /\ own' = own /\ next_id' = next_id
  BY DEF Shutdown, Serving_, bridgeVars, historyVars
<1>2. ServerTyped'
  <2>1. CASE Shutdown
    BY <2>1 DEF Shutdown, Typed, ServerTyped
  <2>2. CASE Serving_
    BY <2>2, ServeTyped DEF Serving_, Typed
  <2>3. CASE UNCHANGED bridgeVars
    BY <2>3 DEF bridgeVars, serverVars, Typed, ServerTyped
  <2>. QED
    BY <2>1, <2>2, <2>3
<1>3. ShimTyped'
  BY <1>1 DEF Shutdown, Serving_, bridgeVars, historyVars, Typed, ShimTyped
<1>4. Stacks' /\ Begun' /\ \A u \in Threads : Calls(u)' = Calls(u)
  BY <1>1 DEF Typed, Stacks, Begun, Calls
<1>. QED
  BY <1>1, <1>2, <1>3, <1>4 DEF Typed

LEMMA TypedInit == Init => Typed
<1>1. SUFFICES ASSUME Init PROVE Typed
  OBVIOUS
<1>2. ServerTyped
  <2>1. PARSES = << >> /\ DOMAIN PARSES = {} /\ PARSES \in [{} -> ParseSet]
    BY <1>1, EmptySeq DEF Init, ServerInit
  <2>. QED
    BY <1>1, <2>1, EmptySeq DEF Init, ServerInit, ServerTyped
<1>3. ShimTyped
  <2>1. NewObject \in ObjectSet /\ NewObject.state = "new" /\ NoParse \in ParseSet
    BY DEF NewObject, ObjectSet, NoHandle, ParseSet
  <2>. QED
    BY <1>1, <2>1 DEF Init, ShimTyped
<1>4. \A t \in Threads : stack[t] = <<>> /\ Calls(t) = {} /\ Elements(stack[t]) = {}
  BY <1>1, EmptySeq DEF Init, Calls, Elements
<1>5. Stacks
  <2>1. stack = [t \in Threads |-> stack[t]]
    BY <1>1 DEF Init
  <2>2. \A t \in Threads : WellStacked(stack[t]) /\ ~Inside(stack[t]) /\ lock # t
    BY <1>1, <1>4, EmptySeq, BridgeAssumption DEF Init, WellStacked, Inside
  <2>. QED
    BY <2>1, <2>2 DEF Stacks
<1>6. Begun
  BY <1>4 DEF Begun
<1>. QED
  BY <1>2, <1>3, <1>5, <1>6 DEF Typed

LEMMA TypedNext == Typed /\ [Next]_bridgeVars => Typed'
<1>1. SUFFICES ASSUME Typed, [Next]_bridgeVars PROVE Typed'
  OBVIOUS
<1>2. ASSUME NEW t \in Threads, New(t) \/ Use(t) \/ IsValid(t) \/ Finalize(t) \/ Step(t)
      PROVE  Typed'
  BY <1>1, <1>2, NewTyped, UseTyped, IsValidTyped, FinalizeTyped, AcquireTyped, SendTyped,
     SendFailsTyped, ReceiveTyped, ReceiveNothingTyped, ReturnTyped DEF Step
<1>. QED
  BY <1>1, <1>2, InterruptTyped, ElsewhereTyped DEF Next

LEMMA TypedAlways == Spec => []Typed
  BY TypedInit, TypedNext, PTL DEF Spec

(***************************************************************************)
(* Second layer: the numbers of the messages.                              *)
(***************************************************************************)

AllCalls == UNION {Calls(t) : t \in Threads}
Asked    == Elements(requests)
Replied  == Elements(replies)
Read     == {c.reply : c \in {d \in AllCalls : d.pc = "received"}}

\* The requests that are on their way, or whose reply is.
Messages == Asked \cup {r.to : r \in Replied \cup Read}

Sent(c) == c.pc \in {"reading", "received"}

\* A number is used once: what bears the number of a call is its request.
Numbered ==
    /\ \A m \in Messages : m.id < next_id
    /\ \A r \in Replied \cup Read : r.id = r.to.id
    /\ \A c \in AllCalls : Sent(c) =>
          /\ c.request.id < next_id
          /\ \A m \in Messages : m.id = c.request.id => m = c.request

LEMMA ElementsAppend ==
    ASSUME NEW S, NEW s \in Seq(S), NEW x \in S
    PROVE  Elements(Append(s, x)) = Elements(s) \cup {x}
<1>1. /\ Len(Append(s, x)) = Len(s) + 1 /\ Append(s, x)[Len(s) + 1] = x
      /\ \A i \in 1..Len(s) : Append(s, x)[i] = s[i]
  BY AppendProperties
<1>2. Len(s) \in Nat
  BY LenProperties
<1>. QED
  BY <1>1, <1>2 DEF Elements

LEMMA ElementsTail ==
    ASSUME NEW S, NEW s \in Seq(S), s # <<>>
    PROVE  Elements(s) = Elements(Tail(s)) \cup {Head(s)}
<1>1. /\ Len(Tail(s)) = Len(s) - 1
      /\ \A i \in 1..Len(Tail(s)) : Tail(s)[i] = s[i + 1]
  BY HeadTailProperties
<1>2. Len(s) \in Nat /\ Len(s) # 0 /\ Head(s) = s[1]
  BY EmptySeq, LenProperties
<1>3. ASSUME NEW x \in Elements(s) PROVE x \in Elements(Tail(s)) \cup {Head(s)}
  <2>1. PICK i \in 1..Len(s) : x = s[i]
    BY DEF Elements
  <2>2. CASE i = 1
    BY <1>2, <2>1, <2>2
  <2>3. CASE i # 1
    <3>1. i - 1 \in 1..Len(Tail(s)) /\ Tail(s)[i - 1] = s[i]
      BY <1>1, <1>2, <2>3
    <3>. QED
      BY <2>1, <3>1 DEF Elements
  <2>. QED
    BY <2>2, <2>3
<1>4. ASSUME NEW x \in Elements(Tail(s)) PROVE x \in Elements(s)
  <2>1. PICK i \in 1..Len(Tail(s)) : x = Tail(s)[i]
    BY DEF Elements
  <2>2. i + 1 \in 1..Len(s) /\ s[i + 1] = x
    BY <1>1, <1>2, <2>1
  <2>. QED
    BY <2>2 DEF Elements
<1>5. Head(s) \in Elements(s)
  BY <1>2 DEF Elements
<1>. QED
  BY <1>3, <1>4, <1>5

LEMMA PipesTyped ==
    ASSUME Typed
    PROVE  /\ Asked \subseteq RequestSet
           /\ Replied \subseteq ReplySet /\ Read \subseteq ReplySet
           /\ AllCalls \subseteq CallSet
           /\ Messages \subseteq RequestSet
<1>1. Asked \subseteq RequestSet /\ Replied \subseteq ReplySet
  BY ElementOfSeq DEF Typed, ServerTyped, Asked, Replied, Elements
<1>2. ASSUME NEW t \in Threads, NEW c \in Calls(t)
      PROVE  c \in CallSet /\ (c.pc = "received" => c.reply \in ReplySet)
  <2>1. WellStacked(stack[t]) /\ c \in Elements(stack[t])
    BY CallsAreElements DEF Typed, Stacks
  <2>. QED
    BY <2>1, ElementOfSeq DEF WellStacked, Elements
<1>3. AllCalls \subseteq CallSet /\ Read \subseteq ReplySet
  BY <1>2 DEF AllCalls, Read
<1>4. \A r \in ReplySet : r.to \in RequestSet
  BY DEF ReplySet
<1>. QED
  BY <1>1, <1>3, <1>4 DEF Messages

\* The calls after a step of one thread.
LEMMA OtherCalls ==
    ASSUME NEW t \in Threads, \A u \in Threads : u # t => Calls(u)' = Calls(u)
    PROVE  /\ AllCalls' \subseteq AllCalls \cup Calls(t)'
           /\ AllCalls \subseteq AllCalls' \cup Calls(t)
           /\ Calls(t)' \subseteq AllCalls' /\ Calls(t) \subseteq AllCalls
  BY DEF AllCalls

\* The server answers the oldest request, and with its number.
LEMMA ServeEffect ==
    ASSUME ServerTyped, Serve
    PROVE  /\ Asked' \subseteq Asked
           /\ \A r \in Replied' : r \in Replied \/ (Req \in Asked /\ r.to = Req /\ r.id = Req.id)
<1>1. ASSUME requests # <<>>, NEW r \in ReplySet, r.to = Req, r.id = Req.id, Respond(r)
      PROVE  /\ Asked' \subseteq Asked
             /\ \A q \in Replied' : q \in Replied \/ (Req \in Asked /\ q.to = Req /\ q.id = Req.id)
  <2>1. Asked = Asked' \cup {Req} /\ Replied' = Replied \cup {r}
    BY <1>1, ElementsTail, ElementsAppend DEF ServerTyped, Respond, Asked, Replied, Req
  <2>. QED
    BY <1>1, <2>1
<1>2. CASE Panic \/ Exit
  <2>1. Asked' = {} /\ Replied' = Replied
    BY <1>2, EmptySeq DEF Panic, Expanding, Exit, Asked, Replied, Elements
  <2>. QED
    BY <2>1
<1>3. ASSUME requests # <<>>, NEW ok \in BOOLEAN, NEW h \in Nat, NEW parse \in ParseSet,
             Respond(Reply(Req, ok, h, parse))
      PROVE  /\ Asked' \subseteq Asked
             /\ \A q \in Replied' : q \in Replied \/ (Req \in Asked /\ q.to = Req /\ q.id = Req.id)
  BY <1>1, <1>3, HeadTyped, ReplyTyped DEF Reply
<1>4. requests # <<>> => Req.expr \in Exprs
  BY HeadTyped DEF RequestSet
<1>5. CASE Create
  BY <1>3, <1>4, <1>5, ParsesTyped DEF Create, Serving, ServerTyped
<1>6. CASE Answer
  <2>1. PICK parse \in make_cron(Req), found \in BOOLEAN :
           Respond(Reply(Req, found, NoHandle, IF found THEN parse ELSE NoParse))
    BY <1>6 DEF Answer
  <2>2. requests # <<>> /\ parse \in ParseSet
    BY <1>4, <1>6, <2>1, ParsesTyped DEF Answer, Serving, make_cron, ServerTyped
  <2>. QED
    BY <1>3, <2>1, <2>2, ParsesTyped DEF NoHandle
<1>7. CASE Validate
  BY <1>3, <1>4, <1>7, ParsesTyped DEF Validate, Serving, NoHandle
<1>8. CASE Destroy
  BY <1>3, <1>8, ParsesTyped DEF Destroy, Serving, NoHandle
<1>9. CASE Reject
  BY <1>3, <1>9, ParsesTyped DEF Reject, Expanding, Serving, NoHandle
<1>. QED
  BY <1>2, <1>5, <1>6, <1>7, <1>8, <1>9 DEF Serve

LEMMA NumberedKept ==
    ASSUME Typed, Numbered, Typed', next_id <= next_id',
           Messages' \subseteq Messages,
           \A r \in Replied' \cup Read' : r \in Replied \cup Read \/ r.id = r.to.id,
           \A c \in AllCalls' : Sent(c) => \E d \in AllCalls : Sent(d) /\ d.request = c.request
    PROVE  Numbered'
<1>1. next_id \in Nat /\ next_id' \in Nat /\ Messages \subseteq RequestSet /\ AllCalls \subseteq CallSet
  BY PipesTyped DEF Typed, ShimTyped
<1>2. \A m \in RequestSet : m.id \in Nat
  BY DEF RequestSet
<1>3. \A m \in Messages' : m.id < next_id'
  BY <1>1, <1>2 DEF Numbered
<1>4. \A r \in Replied' \cup Read' : r.id = r.to.id
  BY DEF Numbered
<1>5. ASSUME NEW c \in AllCalls', Sent(c)
      PROVE  /\ c.request.id < next_id'
             /\ \A m \in Messages' : m.id = c.request.id => m = c.request
  <2>1. PICK d \in AllCalls : Sent(d) /\ d.request = c.request
    BY <1>5
  <2>2. d.request \in RequestSet
    BY <1>1 DEF CallSet
  <2>. QED
    BY <1>1, <1>2, <2>1, <2>2 DEF Numbered
<1>. QED
  BY <1>3, <1>4, <1>5 DEF Numbered

\* A step that moves no message and sends no call.
LEMMA NumberedAside ==
    ASSUME Typed, Numbered, Typed', next_id <= next_id',
           UNCHANGED <<requests, replies>>,
           \A c \in AllCalls' : Sent(c) => c \in AllCalls
    PROVE  Numbered'
<1>1. Asked' = Asked /\ Replied' = Replied
  BY DEF Asked, Replied
<1>2. Read' \subseteq Read
  BY DEF Read, Sent
<1>3. Messages' \subseteq Messages
  BY <1>1, <1>2 DEF Messages
<1>. QED
  BY <1>1, <1>2, <1>3, NumberedKept

LEMMA NumberedSend ==
    ASSUME Typed, Numbered, NEW t \in Threads, Send(t)
    PROVE  Numbered'
<1>. DEFINE req == [Top(t).request EXCEPT !.id = next_id]
            c   == [Top(t) EXCEPT !.pc = "reading", !.request = req]
<1>1. /\ Typed' /\ req \in RequestSet
      /\ Calls(t) = {Top(t)} /\ Calls(t)' = {c}
      /\ \A u \in Threads : u # t => Calls(u)' = Calls(u)
  BY SendTyped
<1>2. next_id' = next_id + 1 /\ next_id \in Nat
  BY DEF Send, Typed, ShimTyped
<1>3. ~Idle(t) /\ Top(t) \in CallSet /\ Top(t).request \in RequestSet
  BY TopFacts DEF Send, At, CallSet
<1>4. req.id = next_id /\ c.request = req /\ c.pc = "reading"
  BY <1>2, <1>3 DEF CallSet, RequestSet
<1>5. Asked' \subseteq Asked \cup {req} /\ Replied' \subseteq Replied
  <2>1. CASE proc = "up"
    <3>1. requests' = Append(requests, req) /\ replies' = replies
      BY <2>1 DEF Send, Write
    <3>2. requests \in Seq(RequestSet)
      BY DEF Typed, ServerTyped
    <3>. HIDE DEF req
    <3>. QED
      BY <1>1, <3>1, <3>2, ElementsAppend DEF Asked, Replied
  <2>2. CASE proc # "up"
    <3>1. requests' = <<req>> /\ replies' = <<>>
      BY <2>2 DEF Send, Spawn
    <3>. HIDE DEF req
    <3>2. Elements(requests') = {req} /\ Elements(replies') = {}
      BY <3>1, EmptySeq DEF Elements
    <3>. QED
      BY <3>2 DEF Asked, Replied
  <2>. QED
    BY <2>1, <2>2
<1>. HIDE DEF req, c
<1>6. AllCalls' \subseteq AllCalls \cup {c}
  BY <1>1, OtherCalls
<1>7. Read' \subseteq Read
  BY <1>4, <1>6 DEF Read
<1>8. Messages' \subseteq Messages \cup {req}
  BY <1>5, <1>7 DEF Messages
<1>9. /\ Messages \subseteq RequestSet /\ AllCalls \subseteq CallSet
      /\ \A m \in RequestSet : m.id \in Nat
  BY PipesTyped DEF RequestSet
<1>10. \A m \in Messages' : m.id < next_id'
  BY <1>2, <1>4, <1>8, <1>9 DEF Numbered
<1>11. \A r \in Replied' \cup Read' : r.id = r.to.id
  BY <1>5, <1>7 DEF Numbered
<1>12. ASSUME NEW d \in AllCalls', Sent(d)
       PROVE  /\ d.request.id < next_id'
              /\ \A m \in Messages' : m.id = d.request.id => m = d.request
  <2>1. CASE d = c
    <3>1. \A m \in Messages : m.id # next_id
      BY <1>2, <1>9 DEF Numbered
    <3>. QED
      BY <1>2, <1>4, <1>8, <2>1, <3>1
  <2>2. CASE d \in AllCalls
    <3>1. d.request \in RequestSet /\ d.request.id < next_id
      BY <1>9, <1>12, <2>2 DEF CallSet, Numbered
    <3>2. d.request.id < next_id' /\ d.request.id # req.id
      BY <1>2, <1>4, <1>9, <3>1
    <3>. QED
      BY <1>8, <1>12, <2>2, <3>2 DEF Numbered
  <2>. QED
    BY <1>6, <2>1, <2>2
<1>. QED
  BY <1>10, <1>11, <1>12 DEF Numbered

LEMMA NumberedReceive ==
    ASSUME Typed, Numbered, NEW t \in Threads, Receive(t)
    PROVE  Numbered'
<1>. DEFINE c == [Top(t) EXCEPT !.pc = "received", !.reply = Head(replies)]
<1>1. /\ Typed' /\ Head(replies) \in ReplySet
      /\ Calls(t) = {Top(t)} /\ Calls(t)' = {c}
      /\ \A u \in Threads : u # t => Calls(u)' = Calls(u)
  BY ReceiveTyped
<1>2. ~Idle(t) /\ Top(t) \in CallSet /\ Top(t).pc = "reading" /\ Top(t) \in AllCalls
  BY TopFacts DEF Receive, At, AllCalls
<1>3. c.pc = "received" /\ c.reply = Head(replies) /\ c.request = Top(t).request
  BY <1>2 DEF CallSet
<1>4. Replied = Replied' \cup {Head(replies)} /\ Asked' = Asked
  BY ElementsTail DEF Receive, Typed, ServerTyped, Replied, Asked
<1>. HIDE DEF c
<1>5. AllCalls' \subseteq AllCalls \cup {c}
  BY <1>1, OtherCalls
<1>6. Read' \subseteq Read \cup {Head(replies)}
  BY <1>3, <1>5 DEF Read
<1>7. Messages' \subseteq Messages
  BY <1>4, <1>6 DEF Messages
<1>8. \A d \in AllCalls' : Sent(d) => \E e \in AllCalls : Sent(e) /\ e.request = d.request
  BY <1>2, <1>3, <1>5 DEF Sent
<1>9. next_id <= next_id'
  BY DEF Receive, Typed, ShimTyped
<1>. QED
  BY <1>1, <1>4, <1>6, <1>7, <1>8, <1>9, NumberedKept

LEMMA NumberedInit == Init => Numbered
<1>1. SUFFICES ASSUME Init PROVE Numbered
  OBVIOUS
<1>2. \A t \in Threads : Calls(t) = {}
  BY <1>1, EmptySeq DEF Init, Calls
<1>3. AllCalls = {} /\ Read = {} /\ Asked = {} /\ Replied = {}
  BY <1>1, <1>2, EmptySeq DEF Init, ServerInit, AllCalls, Read, Asked, Replied, Elements
<1>. QED
  BY <1>3 DEF Numbered, Messages

LEMMA NumberedNext == Typed /\ Numbered /\ [Next]_bridgeVars => Numbered'
<1>1. SUFFICES ASSUME Typed, Numbered, [Next]_bridgeVars PROVE Numbered'
  OBVIOUS
<1>2. Typed' /\ next_id \in Nat
  BY <1>1, TypedNext DEF Typed, ShimTyped
<1>3. ASSUME NEW t \in Threads, New(t) \/ Use(t) \/ IsValid(t) \/ Finalize(t)
      PROVE  Numbered'
  <2>1. PICK c : /\ Calls(t)' = Calls(t) \cup {c} /\ c.pc = "asking"
                 /\ \A u \in Threads : u # t => Calls(u)' = Calls(u)
    BY <1>1, <1>3, AskedCall
  <2>2. \A d \in AllCalls' : Sent(d) => d \in AllCalls
    BY <2>1, OtherCalls DEF Sent
  <2>3. UNCHANGED <<requests, replies>> /\ next_id' = next_id
    BY <1>3 DEF New, Use, IsValid, Finalize, Ask, serverVars
  <2>. QED
    BY <1>1, <1>2, <2>2, <2>3, NumberedAside
<1>4. ASSUME NEW t \in Threads, Acquire(t) PROVE Numbered'
  <2>1. Top(t) \in CallSet
    BY <1>1, <1>4, TopFacts DEF Acquire, At
  <2>2. [Top(t) EXCEPT !.pc = "locked"].pc = "locked"
    BY <2>1 DEF CallSet
  <2>3. \A d \in AllCalls' : Sent(d) => d \in AllCalls
    BY <1>1, <1>4, <2>2, AcquireTyped, OtherCalls DEF Sent
  <2>4. UNCHANGED <<requests, replies>> /\ next_id' = next_id
    BY <1>4 DEF Acquire, serverVars
  <2>. QED
    BY <1>1, <1>2, <2>3, <2>4, NumberedAside
<1>5. ASSUME NEW t \in Threads, SendFails(t) \/ ReceiveNothing(t) \/ Return(t) PROVE Numbered'
  <2>1. AllCalls' \subseteq AllCalls
    BY <1>1, <1>5, SendFailsTyped, ReceiveNothingTyped, ReturnTyped, OtherCalls
  <2>2. UNCHANGED serverVars /\ (next_id' = next_id \/ next_id' = next_id + 1)
    BY <1>5 DEF SendFails, ReceiveNothing, Return
  <2>3. UNCHANGED <<requests, replies>> /\ next_id <= next_id'
    BY <1>2, <2>2 DEF serverVars
  <2>. QED
    BY <1>1, <1>2, <2>1, <2>3, NumberedAside
<1>6. CASE Interrupt
  <2>1. AllCalls' \subseteq AllCalls
    BY <1>1, <1>6, InterruptTyped, OtherCalls, BridgeAssumption
  <2>2. UNCHANGED <<requests, replies>> /\ next_id <= next_id'
    BY <1>2, <1>6 DEF Interrupt, serverVars
  <2>. QED
    BY <1>1, <1>2, <2>1, <2>2, NumberedAside
<1>7. CASE Shutdown \/ UNCHANGED bridgeVars
  <2>1. AllCalls' = AllCalls
    BY <1>1, <1>7, ElsewhereTyped DEF AllCalls
  <2>2. UNCHANGED <<requests, replies>> /\ next_id <= next_id'
    BY <1>2, <1>7 DEF Shutdown, bridgeVars, serverVars
  <2>. QED
    BY <1>1, <1>2, <2>1, <2>2, NumberedAside
<1>8. CASE Serving_
  <2>1. AllCalls' = AllCalls
    BY <1>1, <1>8, ElsewhereTyped DEF AllCalls
  <2>2. /\ Asked' \subseteq Asked
        /\ \A r \in Replied' : r \in Replied \/ (Req \in Asked /\ r.to = Req /\ r.id = Req.id)
    BY <1>1, <1>8, ServeEffect DEF Serving_, Typed
  <2>3. Read' = Read /\ next_id <= next_id'
    BY <1>2, <1>8, <2>1 DEF Read, Serving_
  <2>4. Messages' \subseteq Messages
    BY <2>2, <2>3 DEF Messages
  <2>5. \A r \in Replied' \cup Read' : r \in Replied \cup Read \/ r.id = r.to.id
    BY <2>2, <2>3
  <2>. QED
    BY <1>1, <1>2, <2>1, <2>3, <2>4, <2>5, NumberedKept
<1>. QED
  BY <1>1, <1>3, <1>4, <1>5, <1>6, <1>7, <1>8, NumberedSend, NumberedReceive DEF Next, Step

\* No call takes the reply to another for its own, for any number of threads,
\* objects and calls, and wherever an interrupt leaves a reply unread.
THEOREM RepliesAreOwn == Spec => []OwnReply
<1>1. Typed /\ Numbered => OwnReply
  <2>1. SUFFICES ASSUME Typed, Numbered, NEW t \in Threads, NEW c \in Calls(t),
                        c.pc = "received", Accepted(c)
                 PROVE  c.reply.to = c.request
    BY DEF OwnReply
  <2>2. c \in AllCalls /\ c.reply \in Read /\ c.reply.to \in Messages /\ Sent(c)
    BY <2>1 DEF AllCalls, Read, Messages, Sent
  <2>3. c.reply.to.id = c.request.id
    BY <2>1, <2>2 DEF Numbered, Accepted
  <2>. QED
    BY <2>1, <2>2, <2>3 DEF Numbered
<1>2. Init => Typed /\ Numbered
  BY TypedInit, NumberedInit
<1>3. Typed /\ Numbered /\ [Next]_bridgeVars => (Typed /\ Numbered)'
  BY TypedNext, NumberedNext
<1>. QED
  BY <1>1, <1>2, <1>3, PTL DEF Spec

(***************************************************************************)
(* Third layer: the lives of the objects.                                  *)
(***************************************************************************)

\* The calls that make an object or end it.
Binding(c) == c.request.op \in {"create", "destroy"}

Fits(c) ==
    LET o == c.request.obj IN
    /\ c.request.op = "create"  => obj[o].state = "building"
    /\ c.request.op = "destroy" => obj[o].state = "dying" /\ obj[o].handle = c.request.handle

\* The server is told to forget what is being, or has been, finalized.
Ending(m) ==
    m.op = "destroy" => /\ m.obj \in Objects
                        /\ obj[m.obj].state \in {"dying", "gone"}
                        /\ obj[m.obj].handle = m.handle

\* A binding call is the only call about its object.
Sole ==
    \A t, u \in Threads : \A c \in Calls(t), d \in Calls(u) :
        Binding(c) /\ c.request.obj = d.request.obj => t = u /\ c = d

Lives ==
    /\ \A t \in Threads : \A c \in Calls(t) : Fits(c)
    /\ Sole
    /\ \A m \in Asked : Ending(m)
    /\ \A o \in Objects : obj[o].state \in {"new", "building"} => obj[o].handle = NoHandle

\* A call c begins.
LEMMA LivesPush ==
    ASSUME Lives, NEW t \in Threads, NEW c,
           Calls(t)' = Calls(t) \cup {c},
           \A u \in Threads : u # t => Calls(u)' = Calls(u),
           Asked' = Asked,
           \A u \in Threads : \A d \in Calls(u) : Fits(d)',
           Fits(c)',
           \A u \in Threads : \A d \in Calls(u) :
               Binding(c) \/ Binding(d) => c.request.obj # d.request.obj,
           \A m \in Asked : Ending(m)',
           \A o \in Objects : obj'[o].state \in {"new", "building"} => obj'[o].handle = NoHandle
    PROVE  Lives'
<1>1. \A u \in Threads : \A d \in Calls(u)' : d \in Calls(u) \/ (u = t /\ d = c)
  OBVIOUS
<1>2. \A u \in Threads : \A d \in Calls(u)' : Fits(d)'
  BY <1>1
<1>3. Sole'
  BY <1>1 DEF Lives, Sole
<1>. QED
  BY <1>2, <1>3 DEF Lives

\* The call c ends.
LEMMA LivesPop ==
    ASSUME Lives, NEW t \in Threads, NEW c \in Calls(t),
           Calls(t)' = Calls(t) \ {c},
           \A u \in Threads : u # t => Calls(u)' = Calls(u),
           Asked' = Asked,
           \A u \in Threads : \A d \in Calls(u) : Binding(d) /\ (u # t \/ d # c) => Fits(d)',
           \A m \in Asked : Ending(m)',
           \A o \in Objects : obj'[o].state \in {"new", "building"} => obj'[o].handle = NoHandle
    PROVE  Lives'
<1>1. \A u \in Threads : \A d \in Calls(u)' : d \in Calls(u) /\ (u # t \/ d # c)
  OBVIOUS
<1>2. \A u \in Threads : \A d \in Calls(u)' : Fits(d)'
  BY <1>1 DEF Fits, Binding
<1>3. Sole'
  BY <1>1 DEF Lives, Sole
<1>. QED
  BY <1>2, <1>3 DEF Lives

\* A call b of thread t goes on as c.
LEMMA LivesGoOn ==
    ASSUME Lives, NEW t \in Threads, NEW b, NEW c,
           Calls(t) = {b}, Calls(t)' = {c},
           \A u \in Threads : u # t => Calls(u)' = Calls(u),
           c.request.op = b.request.op, c.request.obj = b.request.obj,
           c.request.handle = b.request.handle,
           obj' = obj, \A m \in Asked' : Ending(m)
    PROVE  Lives'
<1>1. \A u \in Threads : \A d \in Calls(u)' : d \in Calls(u) \/ (u = t /\ d = c)
  OBVIOUS
<1>2. \A d : Fits(d)' <=> Fits(d)
  BY DEF Fits
<1>3. Fits(c) /\ (Binding(c) <=> Binding(b))
  BY DEF Lives, Fits, Binding
<1>4. \A u \in Threads : \A d \in Calls(u)' : Fits(d)'
  BY <1>1, <1>2, <1>3 DEF Lives
<1>5. Sole'
  <2>1. SUFFICES ASSUME NEW u \in Threads, NEW v \in Threads, NEW d \in Calls(u)', NEW e \in Calls(v)',
                        Binding(d), d.request.obj = e.request.obj
                 PROVE  u = v /\ d = e
    BY DEF Sole
  <2>2. CASE u = t /\ v = t
    BY <2>2
  <2>3. CASE u # t /\ v # t
    BY <2>1, <2>3 DEF Lives, Sole
  <2>4. CASE u = t /\ v # t
    <3>1. d = c /\ e \in Calls(v) /\ b \in Calls(t)
      BY <2>4
    <3>2. Binding(b) /\ b.request.obj = e.request.obj
      BY <1>3, <2>1, <3>1
    <3>. QED
      BY <2>4, <3>1, <3>2 DEF Lives, Sole
  <2>5. CASE u # t /\ v = t
    <3>1. e = c /\ d \in Calls(u) /\ b \in Calls(t)
      BY <2>5
    <3>2. Binding(d) /\ d.request.obj = b.request.obj
      BY <2>1, <3>1
    <3>. QED
      BY <2>5, <3>1, <3>2 DEF Lives, Sole
  <2>. QED
    BY <2>2, <2>3, <2>4, <2>5
<1>6. \A m \in Asked' : Ending(m)'
  BY DEF Ending
<1>7. \A o \in Objects : obj'[o].state \in {"new", "building"} => obj'[o].handle = NoHandle
  BY DEF Lives
<1>. QED
  BY <1>4, <1>5, <1>6, <1>7 DEF Lives

\* The call c fails, and takes its object along.
LEMMA LivesFail ==
    ASSUME Typed, Lives, NEW t \in Threads, ~Idle(t), Fail(t),
           Calls(t)' = Calls(t) \ {Top(t)},
           \A u \in Threads : u # t => Calls(u)' = Calls(u),
           requests' = requests
    PROVE  Lives'
<1>. DEFINE c == Top(t)
<1>1. c \in Calls(t)
  BY TopFacts
<1>2. \A o \in Objects :
         /\ obj'[o].handle = obj[o].handle
         /\ obj'[o].state = IF o = c.request.obj /\ obj[o].state \in {"building", "dying"}
                            THEN "gone" ELSE obj[o].state
  BY FailEffect
<1>. HIDE DEF c
<1>3. ASSUME NEW u \in Threads, NEW d \in Calls(u), Binding(d), u # t \/ d # c
      PROVE  Fits(d)'
  <2>1. d.request.obj \in Objects
    BY <1>3 DEF Typed, Begun, Binding
  <2>2. d.request.obj # c.request.obj
    BY <1>1, <1>3 DEF Lives, Sole
  <2>. QED
    BY <1>2, <2>1, <2>2 DEF Lives, Fits
<1>4. ASSUME NEW m \in Asked PROVE Ending(m)'
  BY <1>2 DEF Lives, Ending
<1>5. \A o \in Objects : obj'[o].state \in {"new", "building"} => obj'[o].handle = NoHandle
  BY <1>2 DEF Lives
<1>6. Asked' = Asked
  BY DEF Asked
<1>. QED
  BY <1>1, <1>3, <1>4, <1>5, <1>6, LivesPop DEF c

LEMMA LivesNew ==
    ASSUME Typed, Lives, NEW t \in Threads, New(t)
    PROVE  Lives'
<1>1. PICK o \in Objects, expr \in Exprs :
         /\ obj[o].state = "new"
         /\ obj' = [obj EXCEPT ![o] = [NewObject EXCEPT !.state = "building", !.expr = expr]]
         /\ Calls(t)' = Calls(t) \cup {NewCall("create", o, expr, NoHandle)}
         /\ \A u \in Threads : u # t => Calls(u)' = Calls(u)
  BY NewTyped
<1>. DEFINE c == NewCall("create", o, expr, NoHandle)
<1>2. c.request.op = "create" /\ c.request.obj = o
  BY DEF NewCall, Request
<1>. HIDE DEF c
<1>3. /\ obj'[o].state = "building" /\ obj'[o].handle = NoHandle
      /\ \A p \in Objects : p # o => obj'[p] = obj[p]
  BY <1>1 DEF Typed, ShimTyped, NewObject
<1>4. \A u \in Threads : \A d \in Calls(u) : d.request.obj # o
  BY <1>1 DEF Typed, Begun
<1>5. ASSUME NEW u \in Threads, NEW d \in Calls(u) PROVE Fits(d)'
  <2>1. Fits(d) /\ d.request.obj # o /\ (Binding(d) => d.request.obj \in Objects)
    BY <1>4 DEF Lives, Typed, Begun, Binding
  <2>. QED
    BY <1>3, <2>1 DEF Fits, Binding
<1>6. Fits(c)'
  BY <1>2, <1>3 DEF Fits
<1>7. \A m \in Asked : Ending(m)'
  <2>1. SUFFICES ASSUME NEW m \in Asked, m.op = "destroy" PROVE Ending(m)'
    BY DEF Ending
  <2>2. m.obj \in Objects /\ m.obj # o
    BY <1>1, <2>1 DEF Lives, Ending
  <2>. QED
    BY <1>3, <2>1, <2>2 DEF Lives, Ending
<1>8. \A p \in Objects : obj'[p].state \in {"new", "building"} => obj'[p].handle = NoHandle
  BY <1>3 DEF Lives
<1>9. Asked' = Asked
  BY DEF New, Ask, serverVars, Asked
<1>. QED
  BY <1>1, <1>2, <1>4, <1>5, <1>6, <1>7, <1>8, <1>9, LivesPush DEF c

\* A call that leaves the objects alone: Use or IsValid.
LEMMA LivesUse ==
    ASSUME Typed, Lives, NEW t \in Threads, Use(t) \/ IsValid(t)
    PROVE  Lives'
<1>1. obj' = obj /\ Asked' = Asked
  BY DEF Use, IsValid, Ask, serverVars, Asked
<1>2. PICK c : /\ c.request.op \notin {"create", "destroy"}
               /\ c.request.obj \in Objects => obj[c.request.obj].state = "live"
               /\ Calls(t)' = Calls(t) \cup {c}
               /\ \A u \in Threads : u # t => Calls(u)' = Calls(u)
  <2>1. CASE Use(t)
    <3>1. PICK o \in Objects :
             /\ obj[o].state = "live"
             /\ Calls(t)' = Calls(t) \cup {NewCall("use", o, obj[o].expr, obj[o].handle)}
             /\ \A u \in Threads : u # t => Calls(u)' = Calls(u)
      BY <2>1, UseTyped
    <3>2. NewCall("use", o, obj[o].expr, obj[o].handle).request.op = "use"
          /\ NewCall("use", o, obj[o].expr, obj[o].handle).request.obj = o
      BY DEF NewCall, Request
    <3>. QED
      BY <3>1, <3>2
  <2>2. CASE IsValid(t)
    <3>1. PICK expr \in Exprs :
             /\ Calls(t)' = Calls(t) \cup {NewCall("validate", NoObject, expr, NoHandle)}
             /\ \A u \in Threads : u # t => Calls(u)' = Calls(u)
      BY <2>2, IsValidTyped
    <3>2. NewCall("validate", NoObject, expr, NoHandle).request.op = "validate"
          /\ NewCall("validate", NoObject, expr, NoHandle).request.obj = NoObject
      BY DEF NewCall, Request
    <3>. QED
      BY <3>1, <3>2, BridgeAssumption
  <2>. QED
    BY <2>1, <2>2
<1>3. ASSUME NEW u \in Threads, NEW d \in Calls(u), Binding(c) \/ Binding(d)
      PROVE  c.request.obj # d.request.obj
  <2>1. Binding(d) /\ d.request.obj \in Objects
    BY <1>2, <1>3 DEF Binding, Typed, Begun
  <2>2. obj[d.request.obj].state # "live"
    BY <2>1 DEF Lives, Fits, Binding
  <2>. QED
    BY <1>2, <2>1, <2>2
<1>4. \A d : Fits(d)' <=> Fits(d)
  BY <1>1 DEF Fits
<1>5. Fits(c)' /\ \A u \in Threads : \A d \in Calls(u) : Fits(d)'
  BY <1>2, <1>4 DEF Lives, Fits
<1>6. \A m \in Asked : Ending(m)'
  BY <1>1 DEF Lives, Ending
<1>7. \A o \in Objects : obj'[o].state \in {"new", "building"} => obj'[o].handle = NoHandle
  BY <1>1 DEF Lives
<1>. QED
  BY <1>1, <1>2, <1>3, <1>5, <1>6, <1>7, LivesPush

LEMMA LivesFinalize ==
    ASSUME Typed, Lives, NEW t \in Threads, Finalize(t)
    PROVE  Lives'
<1>1. PICK o \in Objects :
         /\ obj[o].state = "live" /\ ~InUse(o)
         /\ obj' = [obj EXCEPT ![o].state = "dying"]
         /\ Calls(t)' = Calls(t) \cup {NewCall("destroy", o, obj[o].expr, obj[o].handle)}
         /\ \A u \in Threads : u # t => Calls(u)' = Calls(u)
  BY FinalizeTyped
<1>. PICK c : c = NewCall("destroy", o, obj[o].expr, obj[o].handle)
  OBVIOUS
<1>2. c.request.op = "destroy" /\ c.request.obj = o /\ c.request.handle = obj[o].handle
  BY DEF NewCall, Request
<1>3. /\ obj'[o].state = "dying" /\ obj'[o].handle = obj[o].handle
      /\ \A p \in Objects : p # o => obj'[p] = obj[p]
  BY <1>1 DEF Typed, ShimTyped, ObjectSet
<1>4. \A u \in Threads : \A d \in Calls(u) : d.request.obj # o
  BY <1>1 DEF InUse, Calls
<1>5. ASSUME NEW u \in Threads, NEW d \in Calls(u) PROVE Fits(d)'
  <2>1. Fits(d) /\ d.request.obj # o /\ (Binding(d) => d.request.obj \in Objects)
    BY <1>4 DEF Lives, Typed, Begun, Binding
  <2>. QED
    BY <1>3, <2>1 DEF Fits, Binding
<1>6. Fits(c)'
  BY <1>2, <1>3 DEF Fits
<1>7. \A m \in Asked : Ending(m)'
  <2>1. SUFFICES ASSUME NEW m \in Asked, m.op = "destroy" PROVE Ending(m)'
    BY DEF Ending
  <2>2. m.obj \in Objects /\ m.obj # o
    BY <1>1, <2>1 DEF Lives, Ending
  <2>. QED
    BY <1>3, <2>1, <2>2 DEF Lives, Ending
<1>8. \A p \in Objects : obj'[p].state \in {"new", "building"} => obj'[p].handle = NoHandle
  BY <1>3 DEF Lives
<1>9. Asked' = Asked
  BY DEF Finalize, Ask, serverVars, Asked
<1>. QED
  BY <1>1, <1>2, <1>4, <1>5, <1>6, <1>7, <1>8, <1>9, LivesPush

LEMMA LivesAcquire ==
    ASSUME Typed, Lives, NEW t \in Threads, Acquire(t)
    PROVE  Lives'
<1>. DEFINE c == [Top(t) EXCEPT !.pc = "locked"]
<1>1. Top(t) \in CallSet
  BY TopFacts DEF Acquire, At
<1>2. c.request = Top(t).request
  BY <1>1 DEF CallSet
<1>3. /\ Calls(t) = {Top(t)} /\ Calls(t)' = {c}
      /\ \A u \in Threads : u # t => Calls(u)' = Calls(u)
  BY AcquireTyped
<1>4. obj' = obj /\ Asked' = Asked
  BY DEF Acquire, serverVars, Asked
<1>5. \A m \in Asked' : Ending(m)
  BY <1>4 DEF Lives
<1>. HIDE DEF c
<1>. QED
  BY <1>2, <1>3, <1>4, <1>5, LivesGoOn

\* What the pipe holds after a request has been written to it.
LEMMA SendPipe ==
    ASSUME Typed, NEW t \in Threads, Send(t)
    PROVE  LET req == [Top(t).request EXCEPT !.id = next_id]
           IN  \/ /\ proc = "up" /\ proc' = "up" /\ servers' = servers
                  /\ requests' = Append(requests, req) /\ replies' = replies
                  /\ Asked' = Asked \cup {req} /\ Replied' = Replied
                  /\ UNCHANGED <<PARSES, NEXT_HANDLE>>
               \/ /\ proc \in {"none", "exited"} /\ proc' = "up" /\ servers' = servers + 1
                  /\ Len(requests') = 1 /\ Len(replies') = 0
                  /\ Asked' = {req} /\ Replied' = {}
                  /\ DOMAIN PARSES' = {} /\ NEXT_HANDLE' = 1
<1>. DEFINE req == [Top(t).request EXCEPT !.id = next_id]
<1>1. req \in RequestSet
  BY SendTyped
<1>. HIDE DEF req
<1>2. CASE proc = "up"
  <2>1. Write(req) /\ servers' = servers
    BY <1>2 DEF Send, req
  <2>2. requests \in Seq(RequestSet)
    BY DEF Typed, ServerTyped
  <2>3. Asked' = Asked \cup {req} /\ Replied' = Replied
    BY <1>1, <2>1, <2>2, ElementsAppend DEF Write, Asked, Replied
  <2>. QED
    BY <1>2, <2>1, <2>3 DEF Write, req
<1>3. CASE proc # "up"
  <2>1. Spawn(req) /\ servers' = servers + 1 /\ proc \in {"none", "exited"}
    BY <1>3 DEF Send, Typed, ServerTyped, req
  <2>2. requests' = <<req>> /\ replies' = <<>> /\ PARSES' = << >>
    BY <2>1 DEF Spawn
  <2>3. Asked' = {req} /\ Replied' = {} /\ DOMAIN PARSES' = {}
    BY <2>2, EmptySeq DEF Asked, Replied, Elements
  <2>. QED
    BY <2>1, <2>2, <2>3 DEF Spawn, req
<1>. QED
  BY <1>2, <1>3

LEMMA LivesSend ==
    ASSUME Typed, Lives, NEW t \in Threads, Send(t)
    PROVE  Lives'
<1>. DEFINE req == [Top(t).request EXCEPT !.id = next_id]
            c   == [Top(t) EXCEPT !.pc = "reading", !.request = req]
<1>1. /\ req \in RequestSet /\ obj' = obj
      /\ Calls(t) = {Top(t)} /\ Calls(t)' = {c}
      /\ \A u \in Threads : u # t => Calls(u)' = Calls(u)
  BY SendTyped
<1>2. ~Idle(t) /\ Top(t) \in CallSet /\ Top(t).request \in RequestSet
  BY TopFacts DEF Send, At, CallSet
<1>3. /\ c.request = req
      /\ req.op = Top(t).request.op /\ req.obj = Top(t).request.obj
      /\ req.handle = Top(t).request.handle
  BY <1>2 DEF CallSet, RequestSet
<1>4. Asked' \subseteq Asked \cup {req}
  BY SendPipe
<1>. HIDE DEF req, c
<1>5. Ending(req)
  <2>1. Top(t) \in Calls(t) /\ Fits(Top(t))
    BY <1>1 DEF Lives
  <2>2. Top(t).request.op = "destroy" => Top(t).request.obj \in Objects
    BY <2>1 DEF Typed, Begun
  <2>. QED
    BY <1>3, <2>1, <2>2 DEF Fits, Ending
<1>6. \A m \in Asked' : Ending(m)
  BY <1>4, <1>5 DEF Lives
<1>. QED
  BY <1>1, <1>3, <1>6, LivesGoOn

LEMMA LivesReceive ==
    ASSUME Typed, Lives, NEW t \in Threads, Receive(t)
    PROVE  Lives'
<1>. DEFINE c == [Top(t) EXCEPT !.pc = "received", !.reply = Head(replies)]
<1>1. Top(t) \in CallSet
  BY TopFacts DEF Receive, At
<1>2. c.request = Top(t).request
  BY <1>1 DEF CallSet
<1>3. /\ Calls(t) = {Top(t)} /\ Calls(t)' = {c}
      /\ \A u \in Threads : u # t => Calls(u)' = Calls(u)
  BY ReceiveTyped
<1>4. obj' = obj /\ Asked' = Asked
  BY DEF Receive, Asked
<1>5. \A m \in Asked' : Ending(m)
  BY <1>4 DEF Lives
<1>. HIDE DEF c
<1>. QED
  BY <1>2, <1>3, <1>4, <1>5, LivesGoOn

LEMMA LivesReturn ==
    ASSUME Typed, Lives, NEW t \in Threads, Return(t)
    PROVE  Lives'
<1>1. /\ Calls(t) = {Top(t)} /\ Calls(t)' = {} /\ ~Idle(t)
      /\ \A u \in Threads : u # t => Calls(u)' = Calls(u)
  BY ReturnTyped
<1>2. requests' = requests /\ Asked' = Asked
  BY DEF Return, serverVars, Asked
<1>3. CASE ~Made(t)
  BY <1>1, <1>2, <1>3, ReturnTyped, LivesFail
<1>4. CASE Made(t)
  <2>. DEFINE c == Top(t)
              o == Top(t).request.obj
  <2>1. /\ o \in Objects /\ c \in Calls(t)
        /\ obj' = [obj EXCEPT ![o] = [@ EXCEPT !.state = "live", !.handle = c.reply.handle]]
    BY <1>1, <1>4, ReturnTyped
  <2>2. obj[o].state = "building" /\ Binding(c)
    BY <1>4, <2>1 DEF Made, Lives, Fits, Binding
  <2>. HIDE DEF c, o
  <2>3. obj'[o].state = "live" /\ \A p \in Objects : p # o => obj'[p] = obj[p]
    BY <2>1 DEF Typed, ShimTyped, ObjectSet
  <2>4. ASSUME NEW u \in Threads, NEW d \in Calls(u), Binding(d), u # t \/ d # c
        PROVE  Fits(d)'
    <3>1. d.request.obj \in Objects
      BY <2>4 DEF Typed, Begun, Binding
    <3>2. d.request.obj # o
      BY <2>1, <2>2, <2>4 DEF Lives, Sole, o, c
    <3>. QED
      BY <2>3, <3>1, <3>2 DEF Lives, Fits
  <2>5. ASSUME NEW m \in Asked PROVE Ending(m)'
    <3>1. m.op = "destroy" => m.obj # o
      BY <2>2 DEF Lives, Ending
    <3>. QED
      BY <2>3, <3>1 DEF Lives, Ending
  <2>6. \A p \in Objects : obj'[p].state \in {"new", "building"} => obj'[p].handle = NoHandle
    BY <2>3 DEF Lives
  <2>7. Calls(t)' = Calls(t) \ {c}
    BY <1>1 DEF c
  <2>. QED
    BY <1>1, <1>2, <2>1, <2>4, <2>5, <2>6, <2>7, LivesPop
<1>. QED
  BY <1>3, <1>4

LEMMA LivesElsewhere ==
    ASSUME Typed, Lives, Shutdown \/ Serving_ \/ UNCHANGED bridgeVars
    PROVE  Lives'
<1>1. obj' = obj /\ \A u \in Threads : Calls(u)' = Calls(u)
  BY ElsewhereTyped
<1>2. Asked' \subseteq Asked
  <2>1. CASE Serving_
    BY <2>1, ServeEffect DEF Serving_, Typed
  <2>2. CASE Shutdown \/ UNCHANGED bridgeVars
    BY <2>2 DEF Shutdown, bridgeVars, serverVars, Asked
  <2>. QED
    BY <2>1, <2>2
<1>3. \A d : (Fits(d)' <=> Fits(d)) /\ (Ending(d)' <=> Ending(d))
  BY <1>1 DEF Fits, Ending
<1>4. Sole'
  BY <1>1 DEF Lives, Sole
<1>. QED
  BY <1>1, <1>2, <1>3, <1>4 DEF Lives

LEMMA LivesInit == Init => Lives
<1>1. SUFFICES ASSUME Init PROVE Lives
  OBVIOUS
<1>2. \A t \in Threads : Calls(t) = {}
  BY <1>1, EmptySeq DEF Init, Calls
<1>3. Asked = {}
  BY <1>1, EmptySeq DEF Init, ServerInit, Asked, Elements
<1>4. \A o \in Objects : obj[o].handle = NoHandle
  BY <1>1 DEF Init, NewObject
<1>. QED
  BY <1>2, <1>3, <1>4 DEF Lives, Sole

LEMMA LivesNext == Typed /\ Lives /\ [Next]_bridgeVars => Lives'
<1>1. SUFFICES ASSUME Typed, Lives, [Next]_bridgeVars PROVE Lives'
  OBVIOUS
<1>2. ASSUME NEW t \in Threads, SendFails(t) \/ ReceiveNothing(t) PROVE Lives'
  <2>1. requests' = requests
    BY <1>2 DEF SendFails, ReceiveNothing, serverVars
  <2>. QED
    BY <1>1, <1>2, <2>1, SendFailsTyped, ReceiveNothingTyped, LivesFail
<1>3. CASE Interrupt
  <2>1. requests' = requests /\ Main \in Threads
    BY <1>3, BridgeAssumption DEF Interrupt, serverVars
  <2>. QED
    BY <1>1, <1>3, <2>1, InterruptTyped, LivesFail
<1>4. ASSUME NEW t \in Threads, New(t) \/ Use(t) \/ IsValid(t) \/ Finalize(t) \/ Step(t)
      PROVE  Lives'
  BY <1>1, <1>2, <1>4, LivesNew, LivesUse, LivesFinalize, LivesAcquire, LivesSend,
     LivesReceive, LivesReturn DEF Step
<1>. QED
  BY <1>1, <1>3, <1>4, LivesElsewhere DEF Next

(***************************************************************************)
(* Handles.                                                                *)
(***************************************************************************)

Answers == Replied \cup Read

\* A call inside the lock is the only one.
LEMMA OneInside ==
    ASSUME Typed, NEW t \in Threads, NEW i \in 1..Len(stack[t]), stack[t][i].pc \in InLock
    PROVE  i = 1 /\ lock = t
<1>1. WellStacked(stack[t]) /\ (lock = t <=> Inside(stack[t]))
  BY DEF Typed, Stacks
<1>2. stack[t] # <<>>
  BY EmptySeq
<1>3. Len(stack[t]) \in {1, 2}
  BY <1>1, <1>2, TopOfStack
<1>4. i = 1
  BY <1>1, <1>3 DEF WellStacked, InLock
<1>. QED
  BY <1>1, <1>2, <1>4 DEF Inside

LEMMA AloneInside ==
    ASSUME Typed
    PROVE  \A c, d \in AllCalls : c.pc \in InLock /\ d.pc \in InLock => c = d
<1>1. SUFFICES ASSUME NEW c \in AllCalls, NEW d \in AllCalls, c.pc \in InLock, d.pc \in InLock
               PROVE  c = d
  OBVIOUS
<1>2. PICK t \in Threads : c \in Calls(t)
  BY <1>1 DEF AllCalls
<1>3. PICK u \in Threads : d \in Calls(u)
  BY <1>1 DEF AllCalls
<1>4. PICK i \in 1..Len(stack[t]) : c = stack[t][i]
  BY <1>2 DEF Calls
<1>5. PICK j \in 1..Len(stack[u]) : d = stack[u][j]
  BY <1>3 DEF Calls
<1>6. i = 1 /\ lock = t
  BY <1>1, <1>4, OneInside
<1>7. j = 1 /\ lock = u
  BY <1>1, <1>5, OneInside
<1>. QED
  BY <1>4, <1>5, <1>6, <1>7

\* The lock is held by the one thread with a call inside it, and by that call
\* alone: Release gives it back on every way out of a call.
THEOREM LockIsOfOneCall == Spec => []BridgeTypeOK
<1>1. Typed => BridgeTypeOK
  <2>1. SUFFICES ASSUME Typed PROVE BridgeTypeOK
    OBVIOUS
  <2>2. /\ proc \in {"none", "up", "ending", "exited"}
        /\ DOMAIN PARSES \subseteq 1..(NEXT_HANDLE - 1)
        /\ \A o \in Objects : obj[o].state \in {"new", "building", "live", "dying", "gone"}
        /\ next_id \in Nat \ {0}
    BY <2>1 DEF Typed, ServerTyped, ShimTyped, ObjectSet
  <2>3. ASSUME NEW t \in Threads, NEW c \in Calls(t), c.pc \in InLock PROVE lock = t
    BY <2>1, <2>3, OneInside DEF Calls
  <2>4. ASSUME NEW t \in Threads, lock = t PROVE {c \in Calls(t) : c.pc \in InLock} # {}
    <3>1. WellStacked(stack[t]) /\ Inside(stack[t])
      BY <2>1, <2>4 DEF Typed, Stacks
    <3>2. stack[t][1].pc \in InLock /\ 1 \in 1..Len(stack[t])
      BY <3>1, TopOfStack DEF Inside
    <3>. QED
      BY <3>2 DEF Calls
  <2>5. ASSUME NEW t \in Threads, NEW i \in 1..Len(stack[t]), NEW j \in 1..Len(stack[t]),
               stack[t][i].pc \in InLock, stack[t][j].pc \in InLock
        PROVE  i = j
    BY <2>1, <2>5, OneInside
  <2>. QED
    BY <2>2, <2>3, <2>4, <2>5 DEF BridgeTypeOK
<1>. QED
  BY <1>1, TypedAlways, PTL

(***************************************************************************)
(* Fourth layer: the handles of the first server.                          *)
(***************************************************************************)

Held(o) ==
    /\ obj[o].handle < NEXT_HANDLE
    /\ InLife(o) => obj[o].handle # NoHandle
    /\ obj[o].state = "live" =>
          obj[o].handle \in DOMAIN PARSES /\ PARSES[obj[o].handle] = own[o]

Answered(r) ==
    /\ r.ok /\ r.to.op = "create" => r.handle # NoHandle
    /\ r.handle # NoHandle =>
          /\ r.ok /\ r.to.op = "create"
          /\ r.handle \in DOMAIN PARSES /\ PARSES[r.handle] = r.parse

\* Handles are handed out in the order of the replies.
Ascending(s) ==
    \A i, j \in 1..Len(s) :
        i < j /\ s[i].handle # NoHandle /\ s[j].handle # NoHandle => s[i].handle < s[j].handle

FirstServer ==
    /\ \A o \in Objects : Held(o)
    /\ \A o, p \in Objects : o # p /\ obj[o].handle = obj[p].handle => obj[o].handle = NoHandle
    /\ \A r \in Answers : Answered(r)
    /\ \A o \in Objects : \A r \in Answers : r.handle # NoHandle => obj[o].handle < r.handle
    /\ Ascending(replies)
    /\ \A q \in Read, r \in Replied :
          q.handle # NoHandle /\ r.handle # NoHandle => q.handle < r.handle

Unstarted ==
    /\ \A c \in AllCalls : ~Sent(c)
    /\ \A o \in Objects : ~InLife(o) /\ obj[o].handle = NoHandle

Handled ==
    /\ servers = 0 <=> proc = "none"
    /\ servers = 0 => Unstarted
    /\ servers <= 1 => FirstServer

LEMMA AscendingAppend ==
    ASSUME NEW s \in Seq(ReplySet), NEW r \in ReplySet, Ascending(s),
           r.handle # NoHandle => \A q \in Elements(s) : q.handle # NoHandle => q.handle < r.handle
    PROVE  Ascending(Append(s, r))
<1>1. /\ Len(Append(s, r)) = Len(s) + 1 /\ Append(s, r)[Len(s) + 1] = r
      /\ \A i \in 1..Len(s) : Append(s, r)[i] = s[i]
  BY AppendProperties
<1>2. Len(s) \in Nat
  BY LenProperties
<1>. DEFINE a == Append(s, r)
<1>. HIDE DEF a
<1>3. SUFFICES ASSUME NEW i \in 1..Len(a), NEW j \in 1..Len(a), i < j,
                      a[i].handle # NoHandle, a[j].handle # NoHandle
               PROVE  a[i].handle < a[j].handle
  BY DEF Ascending, a
<1>4. i \in 1..Len(s) /\ a[i] = s[i] /\ a[i] \in Elements(s)
  BY <1>1, <1>2, <1>3 DEF a, Elements
<1>5. CASE j = Len(s) + 1
  BY <1>1, <1>3, <1>4, <1>5 DEF a
<1>6. CASE j # Len(s) + 1
  <2>1. j \in 1..Len(s) /\ a[j] = s[j]
    BY <1>1, <1>2, <1>6 DEF a
  <2>. QED
    BY <1>3, <1>4, <2>1 DEF Ascending
<1>. QED
  BY <1>5, <1>6

LEMMA AscendingTail ==
    ASSUME NEW s \in Seq(ReplySet), s # <<>>, Ascending(s)
    PROVE  /\ Ascending(Tail(s))
           /\ \A r \in Elements(Tail(s)) :
                 Head(s).handle # NoHandle /\ r.handle # NoHandle => Head(s).handle < r.handle
<1>1. /\ Len(Tail(s)) = Len(s) - 1
      /\ \A i \in 1..Len(Tail(s)) : Tail(s)[i] = s[i + 1]
  BY HeadTailProperties
<1>2. Len(s) \in Nat /\ Len(s) # 0 /\ Head(s) = s[1]
  BY EmptySeq, LenProperties
<1>. DEFINE a == Tail(s)
<1>. HIDE DEF a
<1>3. Ascending(a)
  <2>1. SUFFICES ASSUME NEW i \in 1..Len(a), NEW j \in 1..Len(a), i < j,
                        a[i].handle # NoHandle, a[j].handle # NoHandle
                 PROVE  a[i].handle < a[j].handle
    BY DEF Ascending
  <2>2. /\ i + 1 \in 1..Len(s) /\ j + 1 \in 1..Len(s) /\ i + 1 < j + 1
        /\ a[i] = s[i + 1] /\ a[j] = s[j + 1]
    BY <1>1, <1>2, <2>1 DEF a
  <2>. QED
    BY <2>1, <2>2 DEF Ascending
<1>4. ASSUME NEW r \in Elements(a), Head(s).handle # NoHandle, r.handle # NoHandle
      PROVE  Head(s).handle < r.handle
  <2>1. PICK i \in 1..Len(a) : r = a[i]
    BY DEF Elements
  <2>2. /\ 1 \in 1..Len(s) /\ i + 1 \in 1..Len(s) /\ 1 < i + 1
        /\ r = s[i + 1]
    BY <1>1, <1>2, <2>1 DEF a
  <2>. QED
    BY <1>2, <1>4, <2>2 DEF Ascending
<1>. QED
  BY <1>3, <1>4 DEF a

\* A step that leaves the server, its pipes and the handles alone.
LEMMA HandledAside ==
    ASSUME Typed, Handled,
           servers' = servers, proc' = "none" <=> proc = "none",
           UNCHANGED <<replies, PARSES, NEXT_HANDLE, own>>,
           \A c \in AllCalls' : Sent(c) => c \in AllCalls,
           \A o \in Objects :
              /\ obj'[o].handle = obj[o].handle
              /\ obj'[o].state \in {"live", "dying"} => InLife(o)
              /\ obj'[o].state = "live" => obj[o].state = "live"
    PROVE  Handled'
<1>1. Replied' = Replied
  BY DEF Replied
<1>2. Read' \subseteq Read
  BY DEF Read, Sent
<1>3. Answers' \subseteq Answers
  BY <1>1, <1>2 DEF Answers
<1>4. (servers = 0 <=> proc = "none")'
  BY DEF Handled
<1>5. servers = 0 => Unstarted'
  BY DEF Handled, Unstarted, InLife
<1>6. ASSUME servers <= 1 PROVE FirstServer'
  <2>1. FirstServer
    BY <1>6 DEF Handled
  <2>2. \A o \in Objects : Held(o)'
    BY <2>1 DEF FirstServer, Held, InLife
  <2>3. \A r \in Answers' : Answered(r)'
    BY <1>3, <2>1 DEF FirstServer, Answered
  <2>4. Ascending(replies)'
    BY <2>1 DEF FirstServer, Ascending
  <2>5. \A o, p \in Objects : o # p /\ obj'[o].handle = obj'[p].handle => obj'[o].handle = NoHandle
    BY <2>1 DEF FirstServer
  <2>6. \A o \in Objects : \A r \in Answers' : r.handle # NoHandle => obj'[o].handle < r.handle
    BY <1>3, <2>1 DEF FirstServer
  <2>7. \A q \in Read', r \in Replied' :
          q.handle # NoHandle /\ r.handle # NoHandle => q.handle < r.handle
    BY <1>1, <1>2, <2>1 DEF FirstServer
  <2>. QED
    BY <2>2, <2>3, <2>4, <2>5, <2>6, <2>7 DEF FirstServer
<1>. QED
  BY <1>4, <1>5, <1>6 DEF Handled

LEMMA HandledSend ==
    ASSUME Typed, Handled, NEW t \in Threads, Send(t)
    PROVE  Handled'
<1>. DEFINE req == [Top(t).request EXCEPT !.id = next_id]
            c   == [Top(t) EXCEPT !.pc = "reading", !.request = req]
<1>1. /\ obj' = obj /\ own' = own /\ servers \in Nat
      /\ Calls(t)' = {c}
      /\ \A u \in Threads : u # t => Calls(u)' = Calls(u)
  BY SendTyped DEF Send, Typed, ShimTyped
<1>2. c.pc = "reading"
  BY TopFacts DEF Send, At, CallSet
<1>. HIDE DEF req, c
<1>3. Read' \subseteq Read
  BY <1>1, <1>2, OtherCalls DEF Read
<1>4. CASE proc = "up"
  <2>1. /\ proc' = "up" /\ servers' = servers /\ replies' = replies /\ Replied' = Replied
        /\ UNCHANGED <<PARSES, NEXT_HANDLE>>
    BY <1>4, SendPipe
  <2>2. servers # 0
    BY <1>4 DEF Handled
  <2>3. Answers' \subseteq Answers
    BY <1>3, <2>1 DEF Answers
  <2>4. ASSUME servers <= 1 PROVE FirstServer'
    <3>1. FirstServer
      BY <2>4 DEF Handled
    <3>2. \A o \in Objects : Held(o)'
      BY <1>1, <2>1, <3>1 DEF FirstServer, Held, InLife
    <3>3. \A r \in Answers' : Answered(r)'
      BY <2>1, <2>3, <3>1 DEF FirstServer, Answered
    <3>4. Ascending(replies)'
      BY <2>1, <3>1 DEF FirstServer, Ascending
    <3>. QED
      BY <1>1, <1>3, <2>1, <2>3, <3>1, <3>2, <3>3, <3>4 DEF FirstServer
  <2>. QED
    BY <2>1, <2>2, <2>4 DEF Handled
<1>5. CASE proc # "up"
  <2>1. /\ proc' = "up" /\ servers' = servers + 1 /\ Len(replies') = 0 /\ Replied' = {}
        /\ NEXT_HANDLE' = 1
    BY <1>5, SendPipe
  <2>2. servers' # 0
    BY <1>1, <2>1
  <2>3. ASSUME servers' <= 1 PROVE FirstServer'
    <3>1. servers = 0 /\ Unstarted
      BY <1>1, <2>1, <2>3 DEF Handled
    <3>2. Read' = {}
      BY <1>3, <3>1 DEF Unstarted, Read, Sent
    <3>3. Answers' = {}
      BY <2>1, <3>2 DEF Answers
    <3>4. \A o \in Objects : obj'[o].handle = NoHandle /\ ~InLife(o)' /\ Held(o)'
      BY <1>1, <2>1, <3>1 DEF Unstarted, InLife, Held, NoHandle
    <3>5. Ascending(replies)'
      BY <2>1 DEF Ascending
    <3>. QED
      BY <3>2, <3>3, <3>4, <3>5 DEF FirstServer
  <2>. QED
    BY <2>1, <2>2, <2>3 DEF Handled
<1>. QED
  BY <1>4, <1>5

\* While a call reads, no reply has been read.
LEMMA ReadingAlone ==
    ASSUME Typed, NEW c \in AllCalls, c.pc \in {"locked", "reading"}
    PROVE  Read = {}
  BY AloneInside DEF Read, InLock

LEMMA ReceiveReplies ==
    ASSUME Typed, NEW t \in Threads, Receive(t)
    PROVE  /\ Read = {} /\ Read' = {Head(replies)}
           /\ Replied = Replied' \cup {Head(replies)}
           /\ Answers' = Answers
           /\ Top(t) \in AllCalls /\ Top(t).pc = "reading"
<1>. DEFINE c == [Top(t) EXCEPT !.pc = "received", !.reply = Head(replies)]
<1>1. /\ Calls(t) = {Top(t)} /\ Calls(t)' = {c}
      /\ \A u \in Threads : u # t => Calls(u)' = Calls(u)
  BY ReceiveTyped
<1>2. Top(t) \in CallSet /\ Top(t).pc = "reading" /\ Top(t) \in AllCalls
  BY TopFacts DEF Receive, At, AllCalls
<1>3. c.pc = "received" /\ c.reply = Head(replies)
  BY <1>2 DEF CallSet
<1>. HIDE DEF c
<1>4. Read = {}
  BY <1>2, ReadingAlone
<1>5. AllCalls' \subseteq AllCalls \cup {c} /\ c \in AllCalls'
  BY <1>1, OtherCalls
<1>6. Read' = {Head(replies)}
  <2>1. \A d \in AllCalls : d.pc # "received"
    BY <1>4 DEF Read
  <2>. QED
    BY <1>3, <1>5, <2>1 DEF Read
<1>7. Replied = Replied' \cup {Head(replies)}
  BY ElementsTail DEF Receive, Typed, ServerTyped, Replied
<1>. QED
  BY <1>2, <1>4, <1>6, <1>7 DEF Answers

LEMMA HandledReceive ==
    ASSUME Typed, Handled, NEW t \in Threads, Receive(t)
    PROVE  Handled'
<1>1. /\ UNCHANGED <<proc, servers, obj, own, PARSES, NEXT_HANDLE>>
      /\ replies \in Seq(ReplySet) /\ replies # <<>> /\ replies' = Tail(replies)
  BY DEF Receive, historyVars, Typed, ServerTyped
<1>2. /\ Read' = {Head(replies)} /\ Answers' = Answers
      /\ Top(t) \in AllCalls /\ Top(t).pc = "reading"
  BY ReceiveReplies
<1>3. servers # 0
  BY <1>2 DEF Handled, Unstarted, Sent
<1>4. ASSUME servers <= 1 PROVE FirstServer'
  <2>1. FirstServer
    BY <1>4 DEF Handled
  <2>2. /\ Ascending(replies)'
        /\ \A r \in Replied' : Head(replies).handle # NoHandle /\ r.handle # NoHandle
                                 => Head(replies).handle < r.handle
    BY <1>1, <2>1, AscendingTail DEF FirstServer, Ascending, Replied, Elements
  <2>3. \A o \in Objects : Held(o)'
    BY <1>1, <2>1 DEF FirstServer, Held, InLife
  <2>4. \A r \in Answers' : Answered(r)'
    BY <1>1, <1>2, <2>1 DEF FirstServer, Answered
  <2>. QED
    BY <1>1, <1>2, <2>1, <2>2, <2>3, <2>4 DEF FirstServer
<1>. QED
  BY <1>1, <1>3, <1>4 DEF Handled

\* The reply a call has read, and its end.
LEMMA ReturnReplies ==
    ASSUME Typed, NEW t \in Threads, Return(t)
    PROVE  /\ Top(t) \in AllCalls /\ Top(t).pc = "received"
           /\ Top(t).reply \in Read /\ Read = {Top(t).reply} /\ Read' = {}
           /\ AllCalls' \subseteq AllCalls
           /\ Top(t).reply.handle \in Nat
<1>1. /\ Top(t).pc = "received" /\ Calls(t) = {Top(t)} /\ Calls(t)' = {}
      /\ \A u \in Threads : u # t => Calls(u)' = Calls(u)
      /\ Top(t).reply \in ReplySet
  BY ReturnTyped, TopFacts DEF At
<1>2. Top(t) \in AllCalls /\ AllCalls' \subseteq AllCalls
  BY <1>1, OtherCalls
<1>3. \A d \in AllCalls : d.pc \in InLock => d = Top(t)
  BY <1>1, <1>2, AloneInside DEF InLock
<1>4. \A d \in AllCalls' : d.pc # "received"
  <2>1. SUFFICES ASSUME NEW u \in Threads, NEW d \in Calls(u)', d.pc = "received" PROVE FALSE
    BY DEF AllCalls
  <2>2. u # t /\ d \in Calls(u)
    BY <1>1, <2>1
  <2>3. d = Top(t)
    BY <1>3, <2>1, <2>2 DEF AllCalls, InLock
  <2>4. lock = u /\ lock = t
    BY <1>1, <2>1, <2>2, OneInside DEF Calls, InLock
  <2>. QED
    BY <2>2, <2>4
<1>. QED
  BY <1>1, <1>2, <1>3, <1>4 DEF Read, ReplySet, InLock

LEMMA HandledReturn ==
    ASSUME Typed, Numbered, Lives, Handled, NEW t \in Threads, Return(t), Made(t)
    PROVE  Handled'
<1>. DEFINE o == Top(t).request.obj
            r == Top(t).reply
<1>1. /\ o \in Objects
      /\ obj' = [obj EXCEPT ![o] = [@ EXCEPT !.state = "live", !.handle = r.handle]]
      /\ own' = [own EXCEPT ![o] = r.parse]
  BY ReturnTyped
<1>2. /\ Top(t) \in AllCalls /\ Top(t).pc = "received"
      /\ r \in Read /\ Read' = {} /\ r.handle \in Nat
  BY ReturnReplies
<1>3. /\ UNCHANGED <<proc, servers, requests, replies, PARSES, NEXT_HANDLE>>
      /\ obj \in [Objects -> ObjectSet] /\ own \in [Objects -> ParseSet]
  BY DEF Return, serverVars, Typed, ShimTyped
<1>4. r.ok /\ r.to.op = "create"
  <2>1. r.id = Top(t).request.id /\ r.ok /\ Top(t).request.op = "create"
    BY DEF Made, Accepted
  <2>2. r.to \in Messages /\ r.to.id = Top(t).request.id
    BY <1>2, <2>1 DEF Messages, Numbered
  <2>3. r.to = Top(t).request
    BY <1>2, <2>2 DEF Numbered, Sent
  <2>. QED
    BY <2>1, <2>3
<1>5. servers # 0
  BY <1>2 DEF Handled, Unstarted, Sent
<1>. HIDE DEF o, r
<1>6. /\ obj'[o].state = "live" /\ obj'[o].handle = r.handle /\ own'[o] = r.parse
      /\ \A p \in Objects : p # o => obj'[p] = obj[p] /\ own'[p] = own[p]
  BY <1>1, <1>3 DEF ObjectSet
<1>7. ASSUME servers <= 1 PROVE FirstServer'
  <2>1. FirstServer /\ r \in Answers
    BY <1>2, <1>7 DEF Handled, Answers
  <2>2. Replied' = Replied /\ Answers' = Replied
    BY <1>2, <1>3 DEF Answers, Replied
  <2>3. /\ r.handle # NoHandle /\ r.handle \in DOMAIN PARSES /\ PARSES[r.handle] = r.parse
    BY <1>4, <2>1 DEF FirstServer, Answered
  <2>4. r.handle < NEXT_HANDLE
    BY <1>2, <2>3 DEF Typed, ServerTyped
  <2>5. ASSUME NEW p \in Objects PROVE Held(p)'
    <3>1. CASE p = o
      BY <1>3, <1>6, <2>3, <2>4, <3>1 DEF Held
    <3>2. CASE p # o
      BY <1>3, <1>6, <2>1, <3>2 DEF FirstServer, Held, InLife
    <3>. QED
      BY <3>1, <3>2
  <2>6. \A p \in Objects : obj[p].handle < r.handle /\ obj[p].handle \in Nat
    BY <1>3, <2>1, <2>3 DEF FirstServer, ObjectSet
  <2>7. \A p, q \in Objects : p # q /\ obj'[p].handle = obj'[q].handle => obj'[p].handle = NoHandle
    <3>1. \A p \in Objects : p # o => obj'[p].handle # r.handle
      BY <1>2, <1>6, <2>6
    <3>. QED
      BY <1>6, <2>1, <3>1 DEF FirstServer
  <2>8. \A q \in Answers' : Answered(q)'
    BY <1>3, <2>1, <2>2 DEF FirstServer, Answered, Answers
  <2>9. ASSUME NEW p \in Objects, NEW q \in Answers', q.handle # NoHandle
        PROVE  obj'[p].handle < q.handle
    <3>1. q \in Replied /\ q \in Answers
      BY <2>2, <2>9 DEF Answers
    <3>2. CASE p = o
      BY <1>2, <1>6, <2>1, <2>3, <2>9, <3>1, <3>2 DEF FirstServer
    <3>3. CASE p # o
      BY <1>6, <2>1, <2>9, <3>1, <3>3 DEF FirstServer
    <3>. QED
      BY <3>2, <3>3
  <2>10. Ascending(replies)'
    BY <1>3, <2>1 DEF FirstServer, Ascending
  <2>. QED
    BY <1>2, <2>5, <2>7, <2>8, <2>9, <2>10 DEF FirstServer
<1>. QED
  BY <1>3, <1>5, <1>7 DEF Handled

\* The server answers the oldest request with r.
LEMMA RespondReplies ==
    ASSUME Typed, NEW r \in ReplySet, requests # <<>>, Respond(r), stack' = stack
    PROVE  /\ Req \in RequestSet /\ Req \in Asked /\ Asked = Asked' \cup {Req}
           /\ replies' = Append(replies, r) /\ replies \in Seq(ReplySet)
           /\ Replied' = Replied \cup {r}
           /\ AllCalls' = AllCalls /\ Read' = Read /\ Answers' = Answers \cup {r}
<1>1. Asked = Asked' \cup {Req} /\ Replied' = Replied \cup {r}
  BY ElementsTail, ElementsAppend DEF Typed, ServerTyped, Respond, Asked, Replied, Req
<1>2. AllCalls' = AllCalls
  BY DEF AllCalls, Calls
<1>3. Read' = Read
  BY <1>2 DEF Read
<1>. QED
  BY <1>1, <1>2, <1>3, HeadTyped DEF Typed, ServerTyped, Respond, Answers

\* A reply without a handle, and a parse forgotten, if any, that no live
\* object and no reply needs.
LEMMA HandledBlank ==
    ASSUME Typed, Handled, NEW r \in ReplySet, requests # <<>>, Respond(r),
           UNCHANGED <<stack, obj, own, servers, NEXT_HANDLE>>, proc # "none",
           r.handle = NoHandle, ~(r.ok /\ r.to.op = "create"),
           \A h \in DOMAIN PARSES' : h \in DOMAIN PARSES /\ PARSES'[h] = PARSES[h],
           servers <= 1 =>
              /\ \A o \in Objects : obj[o].state = "live" => obj[o].handle \in DOMAIN PARSES'
              /\ \A q \in Answers : q.handle # NoHandle => q.handle \in DOMAIN PARSES'
    PROVE  Handled'
<1>1. /\ replies' = Append(replies, r) /\ replies \in Seq(ReplySet)
      /\ Replied' = Replied \cup {r} /\ Read' = Read /\ Answers' = Answers \cup {r}
  BY RespondReplies
<1>2. proc' = proc /\ servers # 0
  BY DEF Respond, Handled
<1>3. ASSUME servers <= 1 PROVE FirstServer'
  <2>1. FirstServer
    BY <1>3 DEF Handled
  <2>2. \A o \in Objects : Held(o)'
    BY <1>3, <2>1 DEF FirstServer, Held, InLife
  <2>3. \A q \in Answers' : Answered(q)'
    BY <1>1, <1>3, <2>1 DEF FirstServer, Answered
  <2>4. Ascending(replies)'
    <3>1. Ascending(Append(replies, r))
      BY <1>1, <2>1, AscendingAppend DEF FirstServer
    <3>. QED
      BY <1>1, <3>1 DEF Ascending
  <2>. QED
    BY <1>1, <2>1, <2>2, <2>3, <2>4 DEF FirstServer
<1>. QED
  BY <1>2, <1>3 DEF Handled

LEMMA HandledCreate ==
    ASSUME Typed, Handled, Create, UNCHANGED <<stack, obj, own, servers>>
    PROVE  Handled'
<1>1. PICK parse \in Draws[Req.expr] :
         store_parse(parse) /\ Respond(Reply(Req, TRUE, NEXT_HANDLE, parse))
  BY DEF Create
<1>2. requests # <<>> /\ proc # "none" /\ Req \in RequestSet /\ Req.op = "create"
  BY HeadTyped DEF Create, Serving, Typed
<1>3. NEXT_HANDLE \in Nat \ {0} /\ DOMAIN PARSES \subseteq 1..(NEXT_HANDLE - 1)
  BY DEF Typed, ServerTyped
<1>4. PICK r \in ReplySet :
         /\ Respond(r) /\ r.ok /\ r.to.op = "create"
         /\ r.handle = NEXT_HANDLE /\ r.parse = parse
  <2>1. parse \in ParseSet
    BY <1>1, <1>2, ParsesTyped DEF RequestSet
  <2>2. Reply(Req, TRUE, NEXT_HANDLE, parse) \in ReplySet
    BY <1>2, <1>3, <2>1, ReplyTyped
  <2>. QED
    BY <1>1, <1>2, <2>2 DEF Reply
<1>5. /\ NEXT_HANDLE' = NEXT_HANDLE + 1
      /\ DOMAIN PARSES' = DOMAIN PARSES \cup {NEXT_HANDLE}
      /\ PARSES'[NEXT_HANDLE] = parse
      /\ \A h \in DOMAIN PARSES : PARSES'[h] = PARSES[h]
  BY <1>1, <1>3 DEF store_parse
<1>6. /\ replies' = Append(replies, r) /\ replies \in Seq(ReplySet)
      /\ Replied' = Replied \cup {r} /\ Read' = Read /\ Answers' = Answers \cup {r}
  BY <1>2, <1>4, RespondReplies
<1>7. proc' = proc /\ servers # 0
  BY <1>2, <1>4 DEF Respond, Handled
<1>8. \A o \in Objects : obj[o].handle \in Nat
  BY DEF Typed, ShimTyped, ObjectSet
<1>9. ASSUME servers <= 1 PROVE FirstServer'
  <2>1. FirstServer
    BY <1>9 DEF Handled
  <2>2. \A o \in Objects : Held(o)'
    BY <1>3, <1>5, <1>8, <2>1 DEF FirstServer, Held, InLife
  <2>3. \A q \in Answers : q.handle # NoHandle => q.handle < NEXT_HANDLE
    BY <1>3, <2>1 DEF FirstServer, Answered
  <2>4. \A q \in Answers' : Answered(q)'
    BY <1>3, <1>4, <1>5, <1>6, <2>1 DEF FirstServer, Answered, NoHandle
  <2>5. Ascending(replies)'
    <3>1. \A q \in Elements(replies) : q.handle # NoHandle => q.handle < r.handle
      BY <1>4, <2>3 DEF Answers, Replied
    <3>2. Ascending(Append(replies, r))
      BY <1>6, <2>1, <3>1, AscendingAppend DEF FirstServer
    <3>. QED
      BY <1>6, <3>2 DEF Ascending
  <2>6. \A o \in Objects : \A q \in Answers' : q.handle # NoHandle => obj'[o].handle < q.handle
    BY <1>4, <1>6, <2>1 DEF FirstServer, Held
  <2>7. \A p \in Read', q \in Replied' :
           p.handle # NoHandle /\ q.handle # NoHandle => p.handle < q.handle
    BY <1>4, <1>6, <2>1, <2>3 DEF FirstServer, Answers
  <2>. QED
    BY <2>1, <2>2, <2>4, <2>5, <2>6, <2>7 DEF FirstServer
<1>. QED
  BY <1>7, <1>9 DEF Handled

\* The object that is told to be forgotten is not live, and its handle is no
\* other's.
LEMMA HandledDestroy ==
    ASSUME Typed, Lives, Handled, Destroy, UNCHANGED <<stack, obj, own, servers>>
    PROVE  Handled'
<1>1. requests # <<>> /\ proc # "none" /\ Req \in RequestSet /\ Req.op = "destroy"
  BY HeadTyped DEF Destroy, Serving, Typed
<1>2. PICK r \in ReplySet :
         Respond(r) /\ r.to.op = "destroy" /\ r.handle = NoHandle
  <2>1. Reply(Req, TRUE, NoHandle, NoParse) \in ReplySet
    BY <1>1, ParsesTyped, ReplyTyped DEF NoHandle
  <2>. QED
    BY <1>1, <2>1 DEF Destroy, Reply
<1>3. /\ NEXT_HANDLE' = NEXT_HANDLE
      /\ DOMAIN PARSES' = DOMAIN PARSES \ {Req.handle}
      /\ \A h \in DOMAIN PARSES' : PARSES'[h] = PARSES[h]
  BY DEF Destroy, Restrict
<1>4. /\ Req.obj \in Objects /\ obj[Req.obj].state # "live"
      /\ obj[Req.obj].handle = Req.handle
  <2>1. Req \in Asked
    BY <1>1, <1>2, RespondReplies
  <2>. QED
    BY <1>1, <2>1 DEF Lives, Ending
<1>5. ASSUME servers <= 1
      PROVE  /\ \A o \in Objects : obj[o].state = "live" => obj[o].handle \in DOMAIN PARSES'
             /\ \A q \in Answers : q.handle # NoHandle => q.handle \in DOMAIN PARSES'
  <2>1. FirstServer
    BY <1>5 DEF Handled
  <2>2. ASSUME NEW o \in Objects, obj[o].state = "live" PROVE obj[o].handle \in DOMAIN PARSES'
    <3>1. obj[o].handle # NoHandle /\ obj[o].handle \in DOMAIN PARSES
      BY <2>1, <2>2 DEF FirstServer, Held, InLife
    <3>2. obj[o].handle # obj[Req.obj].handle
      BY <1>4, <2>1, <2>2, <3>1 DEF FirstServer
    <3>. QED
      BY <1>3, <1>4, <3>1, <3>2
  <2>3. ASSUME NEW q \in Answers, q.handle # NoHandle PROVE q.handle \in DOMAIN PARSES'
    <3>1. q.handle \in DOMAIN PARSES /\ Req.handle < q.handle
      BY <1>4, <2>1, <2>3 DEF FirstServer, Answered
    <3>2. Req.handle \in Nat /\ q.handle \in Nat
      BY <1>1, <3>1 DEF RequestSet, Typed, ServerTyped
    <3>. QED
      BY <1>3, <3>1, <3>2
  <2>. QED
    BY <2>2, <2>3
<1>. QED
  BY <1>1, <1>2, <1>3, <1>5, HandledBlank

LEMMA HandledServe ==
    ASSUME Typed, Lives, Handled, Serving_
    PROVE  Handled'
<1>1. Serve /\ UNCHANGED <<stack, obj, own, servers>>
  BY DEF Serving_, historyVars
<1>2. CASE Panic \/ Exit
  <2>1. /\ UNCHANGED <<replies, PARSES, NEXT_HANDLE>>
        /\ proc # "none" /\ proc' # "none" /\ AllCalls' = AllCalls
    BY <1>1, <1>2 DEF Panic, Expanding, Exit, Serving, AllCalls, Calls
  <2>. QED
    BY <1>1, <2>1, HandledAside DEF InLife
<1>3. ASSUME requests # <<>>, proc # "none", UNCHANGED <<PARSES, NEXT_HANDLE>>,
             NEW ok \in BOOLEAN, NEW parse \in ParseSet,
             Respond(Reply(Req, ok, NoHandle, parse)), ~ok \/ Req.op # "create"
      PROVE  Handled'
  <2>1. Reply(Req, ok, NoHandle, parse) \in ReplySet
    BY <1>3, HeadTyped, ReplyTyped DEF NoHandle, Typed
  <2>2. PICK r \in ReplySet : Respond(r) /\ r.handle = NoHandle /\ ~(r.ok /\ r.to.op = "create")
    BY <1>3, <2>1 DEF Reply
  <2>3. servers <= 1 =>
           /\ \A o \in Objects : obj[o].state = "live" => obj[o].handle \in DOMAIN PARSES'
           /\ \A q \in Answers : q.handle # NoHandle => q.handle \in DOMAIN PARSES'
    BY <1>3 DEF Handled, FirstServer, Held, Answered
  <2>. QED
    BY <1>1, <1>3, <2>2, <2>3, HandledBlank
<1>4. requests # <<>> => Req.expr \in Exprs
  BY HeadTyped DEF RequestSet, Typed
<1>5. CASE Answer
  <2>1. PICK parse \in make_cron(Req), found \in BOOLEAN :
           Respond(Reply(Req, found, NoHandle, IF found THEN parse ELSE NoParse))
    BY <1>5 DEF Answer
  <2>2. requests # <<>> /\ proc # "none" /\ Req.op = "use" /\ UNCHANGED <<PARSES, NEXT_HANDLE>>
    BY <1>5 DEF Answer, Serving
  <2>3. parse \in ParseSet
    BY <1>4, <2>1, <2>2, ParsesTyped DEF make_cron, Typed, ServerTyped
  <2>4. (IF found THEN parse ELSE NoParse) \in ParseSet
    BY <2>3, ParsesTyped
  <2>. QED
    BY <1>3, <2>1, <2>2, <2>4
<1>6. CASE Validate
  BY <1>3, <1>4, <1>6, ParsesTyped DEF Validate, Serving
<1>7. CASE Reject
  BY <1>3, <1>7, ParsesTyped DEF Reject, Expanding, Serving
<1>. QED
  BY <1>1, <1>2, <1>5, <1>6, <1>7, HandledCreate, HandledDestroy DEF Serve

LEMMA HandledInit == Init => Handled
<1>1. SUFFICES ASSUME Init PROVE Handled
  OBVIOUS
<1>2. \A t \in Threads : Calls(t) = {}
  BY <1>1, EmptySeq DEF Init, Calls
<1>3. AllCalls = {} /\ Read = {} /\ Replied = {} /\ Answers = {}
  BY <1>1, <1>2, EmptySeq DEF Init, ServerInit, AllCalls, Read, Replied, Answers, Elements
<1>4. servers = 0 /\ proc = "none" /\ NEXT_HANDLE = 1 /\ Len(replies) = 0
  BY <1>1, EmptySeq DEF Init, ServerInit
<1>5. \A o \in Objects : obj[o].handle = NoHandle /\ obj[o].state = "new"
  BY <1>1 DEF Init, NewObject
<1>6. \A o \in Objects : Held(o) /\ ~InLife(o)
  BY <1>4, <1>5 DEF Held, InLife, NoHandle
<1>7. Ascending(replies)
  BY <1>4 DEF Ascending
<1>. QED
  BY <1>3, <1>4, <1>5, <1>6, <1>7 DEF Handled, Unstarted, FirstServer

\* What a call that fails does to its object.
LEMMA HandledFail ==
    ASSUME Typed, Handled, NEW t \in Threads, ~Idle(t), Fail(t),
           Calls(t)' = Calls(t) \ {Top(t)},
           \A u \in Threads : u # t => Calls(u)' = Calls(u),
           UNCHANGED <<serverVars, own, servers>>
    PROVE  Handled'
<1>1. AllCalls' \subseteq AllCalls
  BY OtherCalls
<1>2. \A o \in Objects :
         /\ obj'[o].handle = obj[o].handle
         /\ obj'[o].state = obj[o].state \/ obj'[o].state = "gone"
  BY FailEffect
<1>. QED
  BY <1>1, <1>2, HandledAside DEF serverVars, InLife

LEMMA HandledNext == Typed /\ Numbered /\ Lives /\ Handled /\ [Next]_bridgeVars => Handled'
<1>1. SUFFICES ASSUME Typed, Numbered, Lives, Handled, [Next]_bridgeVars PROVE Handled'
  OBVIOUS
<1>2. ASSUME NEW t \in Threads, New(t) \/ Use(t) \/ IsValid(t) \/ Finalize(t)
      PROVE  Handled'
  <2>1. PICK c : /\ Calls(t)' = Calls(t) \cup {c} /\ c.pc = "asking"
                 /\ \A u \in Threads : u # t => Calls(u)' = Calls(u)
    BY <1>1, <1>2, AskedCall
  <2>2. \A d \in AllCalls' : Sent(d) => d \in AllCalls
    BY <2>1, OtherCalls DEF Sent
  <2>3. UNCHANGED <<proc, replies, PARSES, NEXT_HANDLE, own, servers>>
    BY <1>2 DEF New, Use, IsValid, Finalize, Ask, serverVars
  <2>4. ASSUME NEW o \in Objects
        PROVE  /\ obj'[o].handle = obj[o].handle
               /\ obj'[o].state \in {"live", "dying"} => InLife(o)
               /\ obj'[o].state = "live" => obj[o].state = "live"
    <3>1. CASE New(t)
      <4>1. PICK p \in Objects, expr \in Exprs :
               /\ obj[p].state = "new"
               /\ obj' = [obj EXCEPT ![p] = [NewObject EXCEPT !.state = "building", !.expr = expr]]
        BY <1>1, <3>1, NewTyped
      <4>2. /\ obj'[p].state = "building" /\ obj'[p].handle = NoHandle
            /\ \A q \in Objects : q # p => obj'[q] = obj[q]
        BY <1>1, <4>1 DEF Typed, ShimTyped, NewObject
      <4>3. obj[p].handle = NoHandle
        BY <1>1, <4>1 DEF Lives
      <4>. QED
        BY <4>2, <4>3 DEF InLife
    <3>2. CASE Use(t) \/ IsValid(t)
      BY <3>2 DEF Use, IsValid, InLife
    <3>3. CASE Finalize(t)
      <4>1. PICK p \in Objects :
               obj[p].state = "live" /\ obj' = [obj EXCEPT ![p].state = "dying"]
        BY <1>1, <3>3, FinalizeTyped
      <4>2. /\ obj'[p].state = "dying" /\ obj'[p].handle = obj[p].handle
            /\ \A q \in Objects : q # p => obj'[q] = obj[q]
        BY <1>1, <4>1 DEF Typed, ShimTyped, ObjectSet
      <4>. QED
        BY <4>1, <4>2 DEF InLife
    <3>. QED
      BY <1>2, <3>1, <3>2, <3>3
  <2>. QED
    BY <1>1, <2>2, <2>3, <2>4, HandledAside
<1>3. ASSUME NEW t \in Threads, Acquire(t) PROVE Handled'
  <2>1. Top(t) \in CallSet
    BY <1>1, <1>3, TopFacts DEF Acquire, At
  <2>2. [Top(t) EXCEPT !.pc = "locked"].pc = "locked"
    BY <2>1 DEF CallSet
  <2>3. \A d \in AllCalls' : Sent(d) => d \in AllCalls
    BY <1>1, <1>3, <2>2, AcquireTyped, OtherCalls DEF Sent
  <2>. QED
    BY <1>1, <1>3, <2>3, HandledAside DEF Acquire, serverVars, historyVars, InLife
<1>4. ASSUME NEW t \in Threads, SendFails(t) \/ ReceiveNothing(t) PROVE Handled'
  <2>1. UNCHANGED <<serverVars, own, servers>>
    BY <1>4 DEF SendFails, ReceiveNothing, historyVars
  <2>. QED
    BY <1>1, <1>4, <2>1, SendFailsTyped, ReceiveNothingTyped, HandledFail
<1>5. ASSUME NEW t \in Threads, Return(t), ~Made(t) PROVE Handled'
  <2>1. UNCHANGED <<serverVars, own, servers>>
    BY <1>1, <1>5, ReturnTyped DEF Return
  <2>. QED
    BY <1>1, <1>5, <2>1, ReturnTyped, HandledFail
<1>6. CASE Interrupt
  <2>1. UNCHANGED <<serverVars, own, servers>> /\ Main \in Threads
    BY <1>6, BridgeAssumption DEF Interrupt
  <2>. QED
    BY <1>1, <1>6, <2>1, InterruptTyped, HandledFail
<1>7. CASE Shutdown \/ UNCHANGED bridgeVars
  <2>1. /\ AllCalls' = AllCalls /\ obj' = obj
        /\ UNCHANGED <<replies, PARSES, NEXT_HANDLE, own, servers>>
        /\ proc' = "none" <=> proc = "none"
    BY <1>1, <1>7, ElsewhereTyped DEF Shutdown, bridgeVars, serverVars, historyVars, AllCalls
  <2>. QED
    BY <1>1, <2>1, HandledAside DEF InLife
<1>. QED
  BY <1>1, <1>2, <1>3, <1>4, <1>5, <1>6, <1>7, HandledSend, HandledReceive, HandledReturn,
     HandledServe DEF Next, Step

\* A call uses an object that is live, and validates none.
Used ==
    \A c \in AllCalls :
        /\ c.request.op = "use" => obj[c.request.obj].state = "live"
        /\ c.request.op = "validate" => c.request.obj = NoObject

SameWork(c, d) == c.request.op = d.request.op /\ c.request.obj = d.request.obj

LEMMA UsedKept ==
    ASSUME Typed, Used,
           \A c \in AllCalls' : \E d \in AllCalls : SameWork(c, d),
           \A o \in Objects : obj[o].state = "live" => obj'[o].state = "live"
    PROVE  Used'
<1>1. SUFFICES ASSUME NEW c \in AllCalls'
               PROVE  /\ c.request.op = "use" => obj'[c.request.obj].state = "live"
                      /\ c.request.op = "validate" => c.request.obj = NoObject
  BY DEF Used
<1>2. PICK d \in AllCalls : SameWork(c, d)
  OBVIOUS
<1>3. d.request.op # "validate" => d.request.obj \in Objects
  BY DEF Typed, Begun, AllCalls
<1>. QED
  BY <1>2, <1>3 DEF Used, SameWork

\* A call begins.
LEMMA UsedAsk ==
    ASSUME Typed, Used, NEW t \in Threads, New(t) \/ Use(t) \/ IsValid(t) \/ Finalize(t)
    PROVE  Used'
<1>1. PICK c :
         /\ Calls(t)' = Calls(t) \cup {c}
         /\ \A u \in Threads : u # t => Calls(u)' = Calls(u)
         /\ c.request.op = "use" => obj'[c.request.obj].state = "live"
         /\ c.request.op = "validate" => c.request.obj = NoObject
         /\ \A d \in AllCalls : d.request.op = "use" => obj'[d.request.obj].state = "live"
  <2>1. \A d \in AllCalls : d.request.op = "use" =>
           d.request.obj \in Objects /\ obj[d.request.obj].state = "live"
    BY DEF Typed, Begun, AllCalls, Used
  <2>2. CASE New(t)
    <3>1. PICK o \in Objects, expr \in Exprs :
             /\ obj[o].state = "new"
             /\ obj' = [obj EXCEPT ![o] = [NewObject EXCEPT !.state = "building", !.expr = expr]]
             /\ Calls(t)' = Calls(t) \cup {NewCall("create", o, expr, NoHandle)}
             /\ \A u \in Threads : u # t => Calls(u)' = Calls(u)
      BY <2>2, NewTyped
    <3>2. \A p \in Objects : p # o => obj'[p] = obj[p]
      BY <3>1 DEF Typed, ShimTyped
    <3>3. NewCall("create", o, expr, NoHandle).request.op = "create"
      BY DEF NewCall, Request
    <3>. QED
      BY <2>1, <3>1, <3>2, <3>3
  <2>3. CASE Use(t)
    <3>1. PICK o \in Objects :
             /\ obj[o].state = "live"
             /\ Calls(t)' = Calls(t) \cup {NewCall("use", o, obj[o].expr, obj[o].handle)}
             /\ \A u \in Threads : u # t => Calls(u)' = Calls(u)
      BY <2>3, UseTyped
    <3>. PICK c : c = NewCall("use", o, obj[o].expr, obj[o].handle)
      OBVIOUS
    <3>2. c.request.op = "use" /\ c.request.obj = o
      BY DEF NewCall, Request
    <3>3. obj' = obj
      BY <2>3 DEF Use
    <3>. QED
      BY <2>1, <3>1, <3>2, <3>3
  <2>4. CASE IsValid(t)
    <3>1. PICK expr \in Exprs :
             /\ Calls(t)' = Calls(t) \cup {NewCall("validate", NoObject, expr, NoHandle)}
             /\ \A u \in Threads : u # t => Calls(u)' = Calls(u)
      BY <2>4, IsValidTyped
    <3>2. /\ NewCall("validate", NoObject, expr, NoHandle).request.op = "validate"
          /\ NewCall("validate", NoObject, expr, NoHandle).request.obj = NoObject
      BY DEF NewCall, Request
    <3>3. obj' = obj
      BY <2>4 DEF IsValid
    <3>. QED
      BY <2>1, <3>1, <3>2, <3>3
  <2>5. CASE Finalize(t)
    <3>1. PICK o \in Objects :
             /\ ~InUse(o) /\ obj' = [obj EXCEPT ![o].state = "dying"]
             /\ Calls(t)' = Calls(t) \cup {NewCall("destroy", o, obj[o].expr, obj[o].handle)}
             /\ \A u \in Threads : u # t => Calls(u)' = Calls(u)
      BY <2>5, FinalizeTyped
    <3>. PICK c : c = NewCall("destroy", o, obj[o].expr, obj[o].handle)
      OBVIOUS
    <3>2. c.request.op = "destroy"
      BY DEF NewCall, Request
    <3>3. \A p \in Objects : p # o => obj'[p] = obj[p]
      BY <3>1 DEF Typed, ShimTyped
    <3>4. \A d \in AllCalls : d.request.obj # o
      BY <3>1 DEF InUse, AllCalls, Calls
    <3>. QED
      BY <2>1, <3>1, <3>2, <3>3, <3>4
  <2>. QED
    BY <2>2, <2>3, <2>4, <2>5
<1>2. AllCalls' \subseteq AllCalls \cup {c}
  BY <1>1, OtherCalls
<1>. QED
  BY <1>1, <1>2 DEF Used

LEMMA UsedNext == Typed /\ Used /\ [Next]_bridgeVars => Used'
<1>1. SUFFICES ASSUME Typed, Used, [Next]_bridgeVars PROVE Used'
  OBVIOUS
<1>2. \A d : SameWork(d, d)
  BY DEF SameWork
<1>3. ASSUME NEW t \in Threads, ~Idle(t), Fail(t), Calls(t)' = Calls(t) \ {Top(t)},
             \A u \in Threads : u # t => Calls(u)' = Calls(u)
      PROVE  Used'
  <2>1. AllCalls' \subseteq AllCalls
    BY <1>3, OtherCalls
  <2>2. \A o \in Objects : obj[o].state = "live" => obj'[o].state = "live"
    BY <1>1, <1>3, FailEffect
  <2>. QED
    BY <1>1, <1>2, <2>1, <2>2, UsedKept
<1>4. ASSUME NEW t \in Threads, NEW c, Calls(t) = {Top(t)}, Calls(t)' = {c},
             SameWork(c, Top(t)), obj' = obj,
             \A u \in Threads : u # t => Calls(u)' = Calls(u)
      PROVE  Used'
  <2>1. \A d \in AllCalls' : \E e \in AllCalls : SameWork(d, e)
    BY <1>2, <1>4 DEF AllCalls
  <2>. QED
    BY <1>1, <1>4, <2>1, UsedKept
<1>5. ASSUME NEW t \in Threads, Acquire(t) PROVE Used'
  <2>1. Top(t) \in CallSet /\ obj' = obj
    BY <1>1, <1>5, TopFacts DEF Acquire, At
  <2>. PICK c : c = [Top(t) EXCEPT !.pc = "locked"]
    OBVIOUS
  <2>2. SameWork(c, Top(t))
    BY <2>1 DEF SameWork, CallSet
  <2>3. /\ Calls(t) = {Top(t)} /\ Calls(t)' = {c}
        /\ \A u \in Threads : u # t => Calls(u)' = Calls(u)
    BY <1>1, <1>5, AcquireTyped
  <2>. QED
    BY <1>4, <2>1, <2>2, <2>3
<1>6. ASSUME NEW t \in Threads, Send(t) PROVE Used'
  <2>1. Top(t) \in CallSet /\ Top(t).request \in RequestSet
    BY <1>1, <1>6, TopFacts DEF Send, At, CallSet
  <2>. PICK c : c = [Top(t) EXCEPT !.pc = "reading",
                                   !.request = [Top(t).request EXCEPT !.id = next_id]]
    OBVIOUS
  <2>2. SameWork(c, Top(t))
    BY <2>1 DEF SameWork, CallSet, RequestSet
  <2>3. /\ Calls(t) = {Top(t)} /\ Calls(t)' = {c} /\ obj' = obj
        /\ \A u \in Threads : u # t => Calls(u)' = Calls(u)
    BY <1>1, <1>6, SendTyped
  <2>. QED
    BY <1>4, <2>2, <2>3
<1>7. ASSUME NEW t \in Threads, Receive(t) PROVE Used'
  <2>1. Top(t) \in CallSet /\ obj' = obj
    BY <1>1, <1>7, TopFacts DEF Receive, At
  <2>. PICK c : c = [Top(t) EXCEPT !.pc = "received", !.reply = Head(replies)]
    OBVIOUS
  <2>2. SameWork(c, Top(t))
    BY <2>1 DEF SameWork, CallSet
  <2>3. /\ Calls(t) = {Top(t)} /\ Calls(t)' = {c}
        /\ \A u \in Threads : u # t => Calls(u)' = Calls(u)
    BY <1>1, <1>7, ReceiveTyped
  <2>. QED
    BY <1>4, <2>1, <2>2, <2>3
<1>8. ASSUME NEW t \in Threads, Return(t) PROVE Used'
  <2>1. CASE ~Made(t)
    <3>1. /\ ~Idle(t) /\ Fail(t) /\ Calls(t)' = Calls(t) \ {Top(t)}
          /\ \A u \in Threads : u # t => Calls(u)' = Calls(u)
      BY <1>1, <1>8, <2>1, ReturnTyped
    <3>. QED
      BY <1>3, <3>1
  <2>2. CASE Made(t)
    <3>. PICK o : o = Top(t).request.obj
      OBVIOUS
    <3>1. /\ o \in Objects
          /\ obj' = [obj EXCEPT ![o] = [@ EXCEPT !.state = "live", !.handle = Top(t).reply.handle]]
      BY <1>1, <1>8, <2>2, ReturnTyped
    <3>2. \A p \in Objects : obj[p].state = "live" => obj'[p].state = "live"
      BY <1>1, <3>1 DEF Typed, ShimTyped, ObjectSet
    <3>3. AllCalls' \subseteq AllCalls
      BY <1>1, <1>8, ReturnReplies
    <3>. QED
      BY <1>1, <1>2, <3>2, <3>3, UsedKept
  <2>. QED
    BY <2>1, <2>2
<1>9. ASSUME NEW t \in Threads, SendFails(t) \/ ReceiveNothing(t) PROVE Used'
  BY <1>1, <1>3, <1>9, SendFailsTyped, ReceiveNothingTyped
<1>10. CASE Interrupt
  BY <1>1, <1>3, <1>10, InterruptTyped, BridgeAssumption
<1>11. CASE Shutdown \/ Serving_ \/ UNCHANGED bridgeVars
  <2>1. obj' = obj /\ AllCalls' = AllCalls
    BY <1>1, <1>11, ElsewhereTyped DEF AllCalls
  <2>. QED
    BY <1>1, <1>2, <2>1, UsedKept
<1>. QED
  BY <1>1, <1>5, <1>6, <1>7, <1>8, <1>9, <1>10, <1>11, UsedAsk DEF Next, Step

LEMMA UsedInit == Init => Used
  BY EmptySeq DEF Init, Used, AllCalls, Calls

(***************************************************************************)
(* Fifth layer: nothing is left behind while no call was interrupted.      *)
(***************************************************************************)

Calm == servers = 1 /\ proc = "up" /\ interrupts = 0

\* What is in the pipes is that of the call that reads.
Awaited(m) == \E c \in AllCalls : c.pc = "reading" /\ c.request = m

InLifeHandles == {obj[o].handle : o \in {p \in Objects : InLife(p)}}

AnswerHandles == {r.handle : r \in Answers}

NothingLeft ==
    /\ Len(requests) + Len(replies) <= 1
    /\ \A m \in Asked : Awaited(m)
    /\ \A r \in Replied : Awaited(r.to)
    /\ \A c \in AllCalls : c.pc = "received" => c.reply.to = c.request
    /\ \A r \in Answers : r.to.op = "destroy" => r.ok /\ r.to.handle \notin DOMAIN PARSES
    /\ DOMAIN PARSES \subseteq InLifeHandles \cup AnswerHandles

NoLeak == Calm => NothingLeft

\* A step that leaves the server and the calls it knows of alone.
LEMMA NoLeakAside ==
    ASSUME NoLeak,
           Calm' => Calm,
           UNCHANGED <<requests, replies, PARSES>>,
           \A c \in AllCalls' : Sent(c) => c \in AllCalls,
           \A c \in AllCalls : Sent(c) => c \in AllCalls',
           \A o \in Objects : InLife(o) => InLife(o)' /\ obj'[o].handle = obj[o].handle
    PROVE  NoLeak'
<1>1. SUFFICES ASSUME Calm' PROVE NothingLeft'
  BY DEF NoLeak
<1>2. NothingLeft
  BY <1>1 DEF NoLeak
<1>3. Asked' = Asked /\ Replied' = Replied /\ Read' = Read /\ Answers' = Answers
  <2>1. Asked' = Asked /\ Replied' = Replied
    BY DEF Asked, Replied
  <2>2. Read' = Read
    BY DEF Read, Sent
  <2>. QED
    BY <2>1, <2>2 DEF Answers
<1>4. \A m : Awaited(m) => Awaited(m)'
  BY DEF Awaited, Sent
<1>5. InLifeHandles \subseteq InLifeHandles' /\ AnswerHandles' = AnswerHandles
  BY <1>3 DEF InLifeHandles, AnswerHandles
<1>6. \A c \in AllCalls' : c.pc = "received" => c.reply.to = c.request
  BY <1>2 DEF NothingLeft, Sent
<1>. QED
  BY <1>2, <1>3, <1>4, <1>5, <1>6 DEF NothingLeft


LEMMA PipesEmpty ==
    ASSUME Typed, Calm, NoLeak, NEW c \in AllCalls, c.pc \in {"locked", "received"}
    PROVE  Asked = {} /\ Replied = {} /\ Len(requests) = 0 /\ Len(replies) = 0
<1>1. \A m : ~Awaited(m)
  BY AloneInside DEF Awaited, InLock
<1>2. Asked = {} /\ Replied = {}
  BY <1>1 DEF NoLeak, NothingLeft
<1>3. ASSUME NEW S, NEW s \in Seq(S), Elements(s) = {} PROVE Len(s) = 0
  <2>1. Len(s) \in Nat
    BY <1>3, LenProperties
  <2>2. \A n \in Nat : n # 0 => 1 \in 1..n
    OBVIOUS
  <2>. QED
    BY <1>3, <2>1, <2>2 DEF Elements
<1>. QED
  BY <1>2, <1>3 DEF Asked, Replied, Typed, ServerTyped

LEMMA NoLeakSend ==
    ASSUME Typed, Handled, NoLeak, NEW t \in Threads, Send(t)
    PROVE  NoLeak'
<1>. PICK req : req = [Top(t).request EXCEPT !.id = next_id]
  OBVIOUS
<1>. PICK c : c = [Top(t) EXCEPT !.pc = "reading", !.request = req]
  OBVIOUS
<1>1. /\ obj' = obj /\ servers \in Nat /\ req \in RequestSet
      /\ Calls(t) = {Top(t)} /\ Calls(t)' = {c}
      /\ \A u \in Threads : u # t => Calls(u)' = Calls(u)
  BY SendTyped DEF Typed, ShimTyped
<1>2. /\ Top(t) \in AllCalls /\ Top(t).pc = "locked"
      /\ c.pc = "reading" /\ c.request = req
  BY <1>1, TopFacts DEF Send, At, CallSet, AllCalls
<1>3. requests \in Seq(RequestSet)
  BY DEF Typed, ServerTyped
<1>4. AllCalls' \subseteq AllCalls \cup {c} /\ c \in AllCalls'
  BY <1>1, OtherCalls
<1>5. \A d \in AllCalls' : d.pc = "received" => FALSE
  <2>1. \A d \in AllCalls : d.pc # "received"
    BY <1>2, AloneInside DEF InLock
  <2>. QED
    BY <1>2, <1>4, <2>1
<1>6. Read = {} /\ Read' = {}
  BY <1>2, <1>5, ReadingAlone DEF Read
<1>7. Awaited(req)'
  BY <1>2, <1>4 DEF Awaited
<1>8. SUFFICES ASSUME Calm' PROVE NothingLeft'
  BY DEF NoLeak
<1>9. Asked' = {req} /\ Replied' = {} /\ Len(requests') + Len(replies') <= 1
      /\ DOMAIN PARSES' \subseteq InLifeHandles'
  <2>1. CASE proc = "up"
    <3>1. /\ requests' = Append(requests, req) /\ replies' = replies
          /\ Asked' = Asked \cup {req} /\ Replied' = Replied
          /\ PARSES' = PARSES /\ servers' = servers
      BY <2>1, SendPipe
    <3>2. Calm
      BY <1>8, <2>1, <3>1 DEF Calm, Send
    <3>3. Asked = {} /\ Replied = {} /\ Len(requests) = 0 /\ Len(replies) = 0
      BY <1>2, <3>2, PipesEmpty
    <3>4. Len(requests') = 1 /\ Len(replies') = 0
      BY <1>1, <1>3, <3>1, <3>3, AppendProperties
    <3>5. DOMAIN PARSES \subseteq InLifeHandles
      BY <1>6, <3>2, <3>3 DEF NoLeak, NothingLeft, AnswerHandles, Answers
    <3>6. InLifeHandles' = InLifeHandles
      BY <1>1 DEF InLifeHandles, InLife
    <3>. QED
      BY <3>1, <3>3, <3>4, <3>5, <3>6
  <2>2. CASE proc # "up"
    <3>1. Len(requests') = 1 /\ Len(replies') = 0 /\ Asked' = {req} /\ Replied' = {}
          /\ DOMAIN PARSES' = {}
      BY <2>2, SendPipe
    <3>. QED
      BY <3>1
  <2>. QED
    BY <2>1, <2>2
<1>10. Answers' = {}
  BY <1>6, <1>9 DEF Answers
<1>. QED
  BY <1>5, <1>7, <1>9, <1>10 DEF NothingLeft

LEMMA NoLeakReceive ==
    ASSUME Typed, NoLeak, NEW t \in Threads, Receive(t)
    PROVE  NoLeak'
<1>. DEFINE c == [Top(t) EXCEPT !.pc = "received", !.reply = Head(replies)]
<1>1. /\ Calls(t) = {Top(t)} /\ Calls(t)' = {c}
      /\ \A u \in Threads : u # t => Calls(u)' = Calls(u)
  BY ReceiveTyped
<1>2. Top(t) \in CallSet
  BY TopFacts DEF Receive, At
<1>3. c.pc = "received" /\ c.reply = Head(replies) /\ c.request = Top(t).request
  BY <1>2 DEF CallSet
<1>. HIDE DEF c
<1>4. /\ Top(t) \in AllCalls /\ Top(t).pc = "reading"
      /\ Replied = Replied' \cup {Head(replies)} /\ Answers' = Answers
      /\ UNCHANGED <<proc, requests, PARSES, obj, servers, interrupts>>
      /\ replies \in Seq(ReplySet) /\ replies # <<>> /\ replies' = Tail(replies)
  BY ReceiveReplies DEF Receive, historyVars, Typed, ServerTyped
<1>5. SUFFICES ASSUME Calm' PROVE NothingLeft'
  BY DEF NoLeak
<1>6. Calm /\ NothingLeft
  BY <1>4, <1>5 DEF Calm, NoLeak
<1>7. Len(requests) \in Nat /\ Len(replies) \in Nat /\ Len(replies) # 0
      /\ Len(replies') = Len(replies) - 1
  BY <1>4, EmptySeq, LenProperties, HeadTailProperties DEF Typed, ServerTyped
<1>8. Len(requests') = 0 /\ Len(replies') = 0
  BY <1>4, <1>6, <1>7 DEF NothingLeft
<1>9. Asked' = {} /\ Replied' = {}
  BY <1>8 DEF Asked, Replied, Elements
<1>10. Head(replies).to = Top(t).request
  <2>1. Awaited(Head(replies).to)
    BY <1>4, <1>6 DEF NothingLeft
  <2>. QED
    BY <1>4, <2>1, AloneInside DEF Awaited, InLock
<1>11. \A d \in AllCalls' : d.pc = "received" => d.reply.to = d.request
  <2>1. AllCalls' \subseteq AllCalls \cup {c}
    BY <1>1, OtherCalls
  <2>. QED
    BY <1>3, <1>6, <1>10, <2>1 DEF NothingLeft
<1>12. InLifeHandles' = InLifeHandles /\ AnswerHandles' = AnswerHandles
  BY <1>4 DEF InLifeHandles, AnswerHandles, InLife
<1>. QED
  BY <1>4, <1>6, <1>8, <1>9, <1>11, <1>12 DEF NothingLeft

\* A call ends over a server that is up: with a reply to it.
LEMMA NoLeakReturn ==
    ASSUME Typed, Numbered, Lives, Handled, Used, NoLeak, NEW t \in Threads, Return(t)
    PROVE  NoLeak'
<1>. DEFINE c == Top(t)
            o == Top(t).request.obj
            r == Top(t).reply
<1>1. /\ c \in AllCalls /\ c \in Calls(t) /\ c.pc = "received" /\ ~Idle(t)
      /\ Read = {r} /\ Read' = {}
      /\ AllCalls' \subseteq AllCalls
  BY ReturnReplies, ReturnTyped
<1>2. UNCHANGED <<proc, requests, replies, PARSES, servers, interrupts>>
  BY DEF Return, serverVars
<1>3. SUFFICES ASSUME Calm' PROVE NothingLeft'
  BY DEF NoLeak
<1>4. Calm /\ NothingLeft /\ FirstServer
  BY <1>2, <1>3 DEF Calm, NoLeak, Handled
<1>5. /\ Asked = {} /\ Replied = {} /\ Len(requests) = 0 /\ Len(replies) = 0
  BY <1>1, <1>4, PipesEmpty
<1>6. /\ Asked' = {} /\ Replied' = {} /\ Len(requests') = 0 /\ Len(replies') = 0
      /\ Answers = {r} /\ Answers' = {}
  BY <1>1, <1>2, <1>5 DEF Asked, Replied, Answers
<1>7. r.to = c.request /\ r.id = c.request.id /\ Answered(r)
  BY <1>1, <1>4, <1>6 DEF NothingLeft, FirstServer, Numbered, Answers
<1>8. DOMAIN PARSES \subseteq InLifeHandles \cup {r.handle}
  BY <1>4, <1>6 DEF NothingLeft, AnswerHandles
<1>9. DOMAIN PARSES' \subseteq InLifeHandles'
  <2>1. CASE Made(t)
    <3>1. /\ o \in Objects
          /\ obj' = [obj EXCEPT ![o] = [@ EXCEPT !.state = "live", !.handle = r.handle]]
      BY <2>1, ReturnTyped
    <3>2. obj[o].state = "building"
      BY <1>1, <2>1 DEF Made, Lives, Fits
    <3>. HIDE DEF o, r
    <3>3. /\ obj'[o].state = "live" /\ obj'[o].handle = r.handle
          /\ \A p \in Objects : p # o => obj'[p] = obj[p]
      BY <3>1 DEF Typed, ShimTyped, ObjectSet
    <3>. QED
      BY <1>2, <1>8, <3>1, <3>2, <3>3 DEF InLifeHandles, InLife
  <2>2. CASE ~Made(t)
    <3>1. Fail(t)
      BY <2>2, ReturnTyped
    <3>2. \A p \in Objects :
             /\ obj'[p].handle = obj[p].handle
             /\ obj'[p].state = IF p = o /\ obj[p].state \in {"building", "dying"}
                                THEN "gone" ELSE obj[p].state
      BY <1>1, <3>1, FailEffect
    <3>3. r.handle \notin DOMAIN PARSES
      <4>1. r.handle = NoHandle
        BY <1>7, <2>2 DEF Made, Accepted, Answered
      <4>. QED
        BY <4>1 DEF NoHandle, Typed, ServerTyped
    <3>4. ASSUME NEW p \in Objects, InLife(p), ~InLife(p)' PROVE obj[p].handle \notin DOMAIN PARSES
      <4>1. p = o /\ obj[p].state = "dying" /\ o \in Objects
        BY <3>2, <3>4 DEF InLife
      <4>2. c.request.op = "destroy" /\ c.request.handle = obj[p].handle
        <5>1. c.request.op \in Ops /\ Fits(c)
          BY <1>1, PipesTyped DEF CallSet, RequestSet, Lives
        <5>2. c.request.op \notin {"create", "use", "validate"}
          BY <1>1, <4>1, <5>1, BridgeAssumption DEF Fits, Used
        <5>. QED
          BY <4>1, <5>1, <5>2 DEF Ops, Fits
      <4>. QED
        BY <1>4, <1>6, <1>7, <4>2 DEF NothingLeft
    <3>. QED
      BY <1>2, <1>8, <3>2, <3>3, <3>4 DEF InLifeHandles
  <2>. QED
    BY <2>1, <2>2
<1>10. \A d \in AllCalls' : d.pc = "received" => d.reply.to = d.request
  BY <1>1, <1>4 DEF NothingLeft
<1>. QED
  BY <1>6, <1>9, <1>10 DEF NothingLeft

\* While a call is served, its request is all there is.
LEMMA NoLeakServe ==
    ASSUME Typed, NoLeak, Serving_
    PROVE  NoLeak'
<1>1. /\ Serve /\ UNCHANGED <<stack, obj, servers, interrupts>>
      /\ AllCalls' = AllCalls /\ InLifeHandles' = InLifeHandles
  BY DEF Serving_, historyVars, AllCalls, Calls, InLifeHandles, InLife
<1>2. SUFFICES ASSUME Calm' PROVE NothingLeft'
  BY DEF NoLeak
<1>3. ~Panic /\ ~Exit
  BY <1>2 DEF Panic, Expanding, Exit, Calm
<1>4. requests # <<>> /\ proc' = proc
  BY <1>1, <1>3 DEF Serve, Create, Answer, Validate, Destroy, Reject, Expanding, Serving, Respond
<1>5. Calm /\ NothingLeft
  BY <1>1, <1>2, <1>4 DEF Calm, NoLeak
<1>6. Len(requests) = 1 /\ Len(replies) = 0
  <2>1. Len(requests) \in Nat /\ Len(replies) \in Nat /\ Len(requests) # 0
    BY <1>4, EmptySeq, LenProperties DEF Typed, ServerTyped
  <2>2. \A m, n \in Nat : m + n <= 1 /\ m # 0 => m = 1 /\ n = 0
    OBVIOUS
  <2>3. Len(requests) + Len(replies) <= 1
    BY <1>5 DEF NothingLeft
  <2>. QED
    BY <2>1, <2>2, <2>3
<1>7. Req \in Asked /\ Awaited(Req)
  <2>1. Req \in Asked
    BY <1>4, ElementsTail DEF Typed, ServerTyped, Asked, Req
  <2>. QED
    BY <1>5, <2>1 DEF NothingLeft
<1>8. Read = {} /\ Replied = {} /\ Answers = {}
  <2>1. Read = {}
    BY <1>7, ReadingAlone DEF Awaited
  <2>2. Replied = {}
    BY <1>6 DEF Replied, Elements
  <2>. QED
    BY <2>1, <2>2 DEF Answers
<1>9. DOMAIN PARSES \subseteq InLifeHandles
  BY <1>5, <1>8 DEF NothingLeft, AnswerHandles
<1>10. ASSUME NEW r \in ReplySet, Respond(r), r.to = Req,
              DOMAIN PARSES' \subseteq InLifeHandles \cup {r.handle},
              Req.op = "destroy" => r.ok /\ Req.handle \notin DOMAIN PARSES'
       PROVE  NothingLeft'
  <2>1. /\ replies' = Append(replies, r) /\ replies \in Seq(ReplySet)
        /\ Replied' = Replied \cup {r} /\ Read' = Read /\ Answers' = Answers \cup {r}
    BY <1>1, <1>4, <1>10, RespondReplies
  <2>2. Replied' = {r} /\ Answers' = {r} /\ AnswerHandles' = {r.handle}
    BY <1>8, <2>1 DEF AnswerHandles
  <2>3. Len(requests') = 0 /\ Len(replies') = 1
    <3>1. requests' = Tail(requests) /\ requests \in Seq(RequestSet)
      BY <1>10 DEF Respond, Typed, ServerTyped
    <3>2. Len(requests') = Len(requests) - 1 /\ Len(replies') = Len(replies) + 1
      BY <1>4, <1>10, <2>1, <3>1, HeadTailProperties, AppendProperties
    <3>. QED
      BY <1>6, <3>2
  <2>4. Asked' = {}
    BY <2>3 DEF Asked, Elements
  <2>5. Awaited(r.to)'
    BY <1>1, <1>7, <1>10 DEF Awaited
  <2>6. \A c \in AllCalls' : c.pc = "received" => c.reply.to = c.request
    BY <1>1, <1>5 DEF NothingLeft
  <2>. QED
    BY <1>1, <1>10, <2>2, <2>3, <2>4, <2>5, <2>6 DEF NothingLeft
<1>11. Req \in RequestSet
  BY <1>4, HeadTyped DEF Typed
<1>12. ASSUME NEW ok \in BOOLEAN, NEW h \in Nat, NEW parse \in ParseSet,
              Respond(Reply(Req, ok, h, parse)),
              DOMAIN PARSES' \subseteq InLifeHandles \cup {h},
              Req.op = "destroy" => ok /\ Req.handle \notin DOMAIN PARSES'
       PROVE  NothingLeft'
  <2>1. Reply(Req, ok, h, parse) \in ReplySet
    BY <1>11, <1>12, ReplyTyped
  <2>2. PICK r \in ReplySet : Respond(r) /\ r.to = Req /\ r.ok = ok /\ r.handle = h
    BY <1>12, <2>1 DEF Reply
  <2>. QED
    BY <1>10, <1>12, <2>2
<1>13. CASE Create
  <2>1. PICK parse \in Draws[Req.expr] :
           store_parse(parse) /\ Respond(Reply(Req, TRUE, NEXT_HANDLE, parse))
    BY <1>13 DEF Create
  <2>2. DOMAIN PARSES' = DOMAIN PARSES \cup {NEXT_HANDLE}
    BY <2>1 DEF store_parse
  <2>3. parse \in ParseSet /\ NEXT_HANDLE \in Nat /\ Req.op = "create"
    BY <1>11, <1>13, <2>1, ParsesTyped DEF RequestSet, Typed, ServerTyped, Create, Serving
  <2>. QED
    BY <1>9, <1>12, <2>1, <2>2, <2>3
<1>14. CASE Answer
  <2>1. PICK parse \in make_cron(Req), found \in BOOLEAN :
           Respond(Reply(Req, found, NoHandle, IF found THEN parse ELSE NoParse))
    BY <1>14 DEF Answer
  <2>2. Req.op = "use" /\ PARSES' = PARSES
    BY <1>14 DEF Answer, Serving
  <2>3. parse \in ParseSet
    BY <1>11, <2>1, ParsesTyped DEF make_cron, Typed, ServerTyped, RequestSet
  <2>4. (IF found THEN parse ELSE NoParse) \in ParseSet
    BY <2>3, ParsesTyped
  <2>. QED
    BY <1>9, <1>12, <2>1, <2>2, <2>4 DEF NoHandle
<1>15. CASE Validate
  <2>1. PICK parse \in Draws[Req.expr] : Respond(Reply(Req, TRUE, NoHandle, parse))
    BY <1>15 DEF Validate
  <2>2. Req.op = "validate" /\ PARSES' = PARSES /\ parse \in ParseSet
    BY <1>11, <1>15, <2>1, ParsesTyped DEF Validate, Serving, RequestSet
  <2>. QED
    BY <1>9, <1>12, <2>1, <2>2 DEF NoHandle
<1>16. CASE Reject
  <2>1. /\ Respond(Reply(Req, FALSE, NoHandle, NoParse))
        /\ Req.op # "destroy" /\ PARSES' = PARSES
    BY <1>16 DEF Reject, Expanding, Serving
  <2>. QED
    BY <1>9, <1>12, <2>1, ParsesTyped DEF NoHandle
<1>17. CASE Destroy
  <2>1. /\ Respond(Reply(Req, TRUE, NoHandle, NoParse))
        /\ DOMAIN PARSES' = DOMAIN PARSES \ {Req.handle}
    BY <1>17 DEF Destroy, Restrict
  <2>. QED
    BY <1>9, <1>12, <2>1, ParsesTyped DEF NoHandle
<1>. QED
  BY <1>1, <1>3, <1>13, <1>14, <1>15, <1>16, <1>17 DEF Serve

LEMMA NoLeakInit == Init => NoLeak
  BY DEF Init, NoLeak, Calm

LEMMA NoLeakNext ==
    Typed /\ Numbered /\ Lives /\ Handled /\ Used /\ NoLeak /\ [Next]_bridgeVars => NoLeak'
<1>1. SUFFICES ASSUME Typed, Numbered, Lives, Handled, Used, NoLeak, [Next]_bridgeVars
               PROVE  NoLeak'
  OBVIOUS
<1>2. ASSUME NEW t \in Threads, New(t) \/ Use(t) \/ IsValid(t) \/ Finalize(t)
      PROVE  NoLeak'
  <2>1. PICK c : /\ Calls(t)' = Calls(t) \cup {c} /\ c.pc = "asking"
                 /\ \A u \in Threads : u # t => Calls(u)' = Calls(u)
    BY <1>1, <1>2, AskedCall
  <2>2. /\ \A d \in AllCalls' : Sent(d) => d \in AllCalls
        /\ AllCalls \subseteq AllCalls'
    BY <2>1, OtherCalls DEF Sent
  <2>3. UNCHANGED <<proc, requests, replies, PARSES, servers, interrupts>>
    BY <1>2 DEF New, Use, IsValid, Finalize, Ask, serverVars
  <2>4. ASSUME NEW o \in Objects, InLife(o)
        PROVE  InLife(o)' /\ obj'[o].handle = obj[o].handle
    <3>1. CASE New(t)
      <4>1. PICK p \in Objects, expr \in Exprs :
               /\ obj[p].state = "new"
               /\ obj' = [obj EXCEPT ![p] = [NewObject EXCEPT !.state = "building", !.expr = expr]]
        BY <1>1, <3>1, NewTyped
      <4>2. \A q \in Objects : q # p => obj'[q] = obj[q]
        BY <1>1, <4>1 DEF Typed, ShimTyped
      <4>. QED
        BY <2>4, <4>1, <4>2 DEF InLife
    <3>2. CASE Use(t) \/ IsValid(t)
      BY <2>4, <3>2 DEF Use, IsValid, InLife
    <3>3. CASE Finalize(t)
      <4>1. PICK p \in Objects :
               obj[p].state = "live" /\ obj' = [obj EXCEPT ![p].state = "dying"]
        BY <1>1, <3>3, FinalizeTyped
      <4>2. /\ obj'[p].state = "dying" /\ obj'[p].handle = obj[p].handle
            /\ \A q \in Objects : q # p => obj'[q] = obj[q]
        BY <1>1, <4>1 DEF Typed, ShimTyped, ObjectSet
      <4>. QED
        BY <2>4, <4>1, <4>2 DEF InLife
    <3>. QED
      BY <1>2, <3>1, <3>2, <3>3
  <2>. QED
    BY <1>1, <2>2, <2>3, <2>4, NoLeakAside DEF Calm
<1>3. ASSUME NEW t \in Threads, Acquire(t) PROVE NoLeak'
  <2>1. Top(t) \in CallSet /\ Top(t).pc = "asking"
    BY <1>1, <1>3, TopFacts DEF Acquire, At
  <2>2. [Top(t) EXCEPT !.pc = "locked"].pc = "locked"
    BY <2>1 DEF CallSet
  <2>3. /\ \A d \in AllCalls' : Sent(d) => d \in AllCalls
        /\ \A d \in AllCalls : Sent(d) => d \in AllCalls'
    BY <1>1, <1>3, <2>1, <2>2, AcquireTyped, OtherCalls DEF Sent
  <2>. QED
    BY <1>1, <1>3, <2>3, NoLeakAside DEF Acquire, serverVars, historyVars, InLife, Calm
<1>4. ASSUME NEW t \in Threads, SendFails(t) \/ ReceiveNothing(t) PROVE NoLeak'
  BY <1>4 DEF SendFails, ReceiveNothing, serverVars, NoLeak, Calm
<1>5. CASE Interrupt
  <2>1. interrupts \in Nat /\ interrupts' = interrupts + 1
    BY <1>1, <1>5 DEF Interrupt, Typed, ShimTyped
  <2>2. interrupts' # 0
    BY <2>1
  <2>. QED
    BY <2>2 DEF NoLeak, Calm
<1>6. CASE Shutdown
  BY <1>6 DEF Shutdown, NoLeak, Calm
<1>7. CASE UNCHANGED bridgeVars
  <2>1. AllCalls' = AllCalls
    BY <1>1, <1>7, ElsewhereTyped DEF AllCalls
  <2>. QED
    BY <1>1, <1>7, <2>1, NoLeakAside DEF bridgeVars, serverVars, historyVars, InLife, Calm
<1>. QED
  BY <1>1, <1>2, <1>3, <1>4, <1>5, <1>6, <1>7, NoLeakSend, NoLeakReceive, NoLeakReturn,
     NoLeakServe DEF Next, Step

\* The first server holds the parse of every live object, and no other unless a
\* call was interrupted, for any threads, objects and expressions: a finalizer
\* tells it to forget no handle but the one of its object.
THEOREM ParsesAreHeld == Spec => []HeldForLife
<1>. DEFINE IInv == Typed /\ Numbered /\ Lives /\ Handled /\ Used /\ NoLeak
<1>1. IInv => HeldForLife
  <2>1. SUFFICES ASSUME Handled, NoLeak, proc = "up", servers = 1 PROVE HeldForLife
    BY DEF HeldForLife
  <2>2. FirstServer
    BY <2>1 DEF Handled
  <2>3. InFlight = AnswerHandles
    BY DEF InFlight, AnswerHandles, Answers, Read, AllCalls, Replied, Elements
  <2>4. interrupts = 0 => DOMAIN PARSES \subseteq InLifeHandles \cup InFlight
    BY <2>1, <2>3 DEF NoLeak, Calm, NothingLeft
  <2>. QED
    BY <2>2, <2>4 DEF HeldForLife, FirstServer, Held, InLifeHandles
<1>2. Init => IInv
  BY TypedInit, NumberedInit, LivesInit, HandledInit, UsedInit, NoLeakInit
<1>3. IInv /\ [Next]_bridgeVars => IInv'
  BY TypedNext, NumberedNext, LivesNext, HandledNext, UsedNext, NoLeakNext
<1>. HIDE DEF IInv
<1>. QED
  BY <1>1, <1>2, <1>3, PTL DEF Spec

=============================================================================
