--------------------------- MODULE ConformanceServer ---------------------------
(***************************************************************************)
(* The conformance server: src/bin/conformance.rs.                         *)
(*                                                                         *)
(* One process reads requests from a pipe and answers them in their order. *)
(* It keeps the parse of every Python object under a handle.  What a       *)
(* request computes is abstracted to the parse it computes it from: an     *)
(* expression has several, of which one is drawn, when it is random, and   *)
(* none when it is refused.                                                *)
(***************************************************************************)
EXTENDS Integers, Sequences, Functions

CONSTANTS
    Exprs,         \* expressions
    Draws,         \* the parses each may be expanded to
    PanicExprs     \* the expressions whose parse panics

NoHandle == 0
NoParse  == [expr |-> "", draw |-> 0]

ASSUME ServerAssumption ==
    /\ PanicExprs \subseteq Exprs
    /\ Draws \in [Exprs -> SUBSET {p \in [expr : Exprs, draw : Nat] : p # NoParse}]
    /\ \A e \in PanicExprs : Draws[e] = {}

VARIABLES
    proc,          \* "none", "up", "ending" (pipes closed, not yet exited) or "exited"
    requests,      \* its standard input
    replies,       \* its standard output
    PARSES,        \* handle -> parse
    NEXT_HANDLE

serverVars == <<proc, requests, replies, PARSES, NEXT_HANDLE>>

\* obj is the object a request is about: the server does not see it.
Request(i, op, obj, expr, handle) ==
    [id |-> i, op |-> op, obj |-> obj, expr |-> expr, handle |-> handle]

Reply(req, ok, handle, parse) ==
    [id |-> req.id, ok |-> ok, handle |-> handle, parse |-> parse, to |-> req]

ServerInit ==
    /\ proc = "none"
    /\ requests = <<>>
    /\ replies = <<>>
    /\ PARSES = << >>
    /\ NEXT_HANDLE = 1

\* A new process has nothing of the one before.
Spawn(req) ==
    /\ proc' = "up"
    /\ requests' = <<req>>
    /\ replies' = <<>>
    /\ PARSES' = << >>
    /\ NEXT_HANDLE' = 1

Write(req) ==
    /\ requests' = Append(requests, req)
    /\ UNCHANGED <<proc, replies, PARSES, NEXT_HANDLE>>

(***************************************************************************)
(* Answering the next request.                                             *)
(***************************************************************************)

Req == Head(requests)

Serving(ops) == proc \in {"up", "ending"} /\ requests # <<>> /\ Req.op \in ops

Respond(reply) ==
    /\ requests' = Tail(requests)
    /\ replies' = Append(replies, reply)
    /\ UNCHANGED proc

\* Mutant of store_parse: the next handle is the same.
store_parse_Same(parse) ==
    /\ PARSES' = [h \in DOMAIN PARSES \cup {NEXT_HANDLE} |->
                     IF h = NEXT_HANDLE THEN parse ELSE PARSES[h]]
    /\ UNCHANGED NEXT_HANDLE

store_parse(parse) ==
    /\ PARSES' = [h \in DOMAIN PARSES \cup {NEXT_HANDLE} |->
                     IF h = NEXT_HANDLE THEN parse ELSE PARSES[h]]
    /\ NEXT_HANDLE' = NEXT_HANDLE + 1

\* The parses a request may be answered from: that of its handle, or a new one.
make_cron(req) ==
    IF req.handle \in DOMAIN PARSES THEN {PARSES[req.handle]} ELSE Draws[req.expr]

Create ==
    /\ Serving({"create"})
    /\ \E parse \in Draws[Req.expr] :
          /\ store_parse(parse)
          /\ Respond(Reply(Req, TRUE, NEXT_HANDLE, parse))

\* get_next and its like, which may find no date, and expand.
Answer ==
    /\ Serving({"use"})
    /\ \E parse \in make_cron(Req), found \in BOOLEAN :
          Respond(Reply(Req, found, NoHandle, IF found THEN parse ELSE NoParse))
    /\ UNCHANGED <<PARSES, NEXT_HANDLE>>

Validate ==
    /\ Serving({"validate"})
    /\ \E parse \in Draws[Req.expr] : Respond(Reply(Req, TRUE, NoHandle, parse))
    /\ UNCHANGED <<PARSES, NEXT_HANDLE>>

Destroy ==
    /\ Serving({"destroy"})
    /\ PARSES' = Restrict(PARSES, DOMAIN PARSES \ {Req.handle})
    /\ Respond(Reply(Req, TRUE, NoHandle, NoParse))
    /\ UNCHANGED NEXT_HANDLE

\* An expression is parsed: for a call with a handle only if it is unknown.
Expanding ==
    \/ Serving({"create", "validate"})
    \/ Serving({"use"}) /\ Req.handle \notin DOMAIN PARSES

\* The expression, the start or the time zone is refused.
Reject ==
    /\ Expanding
    /\ Req.expr \notin PanicExprs
    /\ Respond(Reply(Req, FALSE, NoHandle, NoParse))
    /\ UNCHANGED <<PARSES, NEXT_HANDLE>>

\* A panic ends the process; what it has written can still be read.
Panic ==
    /\ Expanding
    /\ Req.expr \in PanicExprs
    /\ proc' = "ending"
    /\ requests' = <<>>
    /\ UNCHANGED <<replies, PARSES, NEXT_HANDLE>>

Exit ==
    /\ proc = "ending"
    /\ proc' = "exited"
    /\ requests' = <<>>
    /\ UNCHANGED <<replies, PARSES, NEXT_HANDLE>>

Serve ==
    \/ Create
    \/ Answer
    \/ Validate
    \/ Destroy
    \/ Reject
    \/ Panic
    \/ Exit

=============================================================================
