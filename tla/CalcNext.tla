-------------------------------- MODULE CalcNext --------------------------------
(***************************************************************************)
(* `calc_next` of src/calc.rs: cron's choice between requiring both the    *)
(* day of month and the day of week, and accepting either.                 *)
(*                                                                         *)
(* With both fields restricted (and day_or, and not the vixie bug) the     *)
(* code searches twice, once with the day of week blanked to "*" and once  *)
(* with the day of month blanked, and returns the nearer of the two.  The  *)
(* W days and the weekday#n pairs are kept outside those fields, so they   *)
(* stay in force in both searches; the code then refuses to treat a failed *)
(* search as "no match on this side" (clean_split).                        *)
(***************************************************************************)
EXTENDS CalcSearch

CONSTANTS
    Calls   \* the arguments of calc_next

\* starred: the text of the day or the weekday field begins with "*".
ASSUME CallsAssumption ==
    /\ Calls \subseteq [expr : Exprs, starred : BOOLEAN, day_or : BOOLEAN,
                        cron_bug : BOOLEAN, at : Starts, sub : {0, 1},
                        isPrev : BOOLEAN]
    /\ \A c \in Calls :
          /\ ~c.expr.either
          /\ {[c.expr EXCEPT !.dow = Star], [c.expr EXCEPT !.day = Star],
              [c.expr EXCEPT !.either = TRUE]} \subseteq Exprs

VARIABLES
    call,     \* the arguments
    leg,      \* the search being run: "single", "t1", "t2"; or "returned"
    first,    \* t1, the answer of the first of two searches
    result    \* the answer of calc_next

callVars == <<call, leg, first, result>>
allVars  == <<vars, callVars>>

vixie_cron_bug(c) == c.cron_bug /\ c.starred

Splits(c) ==
    /\ ~c.expr.day.star
    /\ ~c.expr.dow.star
    /\ c.day_or
    /\ ~vixie_cron_bug(c)

clean_split == call.expr.nth = {} /\ call.expr.w = {}

LegExpr(c, l) ==
    CASE l = "single" -> c.expr
      [] l = "t1"     -> [c.expr EXCEPT !.dow = Star]
      [] l = "t2"     -> [c.expr EXCEPT !.day = Star]

\* The search a leg runs.
LegRequest(c, l) ==
    [expr |-> LegExpr(c, l), at |-> c.at, sub |-> c.sub, isPrev |-> c.isPrev]

CallInit ==
    /\ call \in Calls
    /\ leg = IF Splits(call) THEN "t1" ELSE "single"
    /\ req = LegRequest(call, leg)
    /\ cur = StartCursor(req)
    /\ outcome = StartOutcome(req)
    /\ first = NoAnswer
    /\ result = NoAnswer

Search ==
    /\ leg # "returned"
    /\ Next
    /\ UNCHANGED callVars

Return(answer) ==
    /\ leg' = "returned"
    /\ result' = answer
    /\ UNCHANGED <<vars, call, first>>

SearchOver == outcome # "searching"
Failed     == outcome \in Errors

FinishSingle ==
    /\ leg = "single" /\ SearchOver
    /\ Return(Reply)

\* An error of either search is returned at once unless the split is clean.
FailLeg ==
    /\ leg \in {"t1", "t2"}
    /\ Failed /\ ~clean_split
    /\ Return(Reply)

\* Mutant of FinishFirst: the answer of the first search is not kept.
FinishFirst_Forgets ==
    /\ leg = "t1" /\ SearchOver
    /\ ~Failed \/ clean_split
    /\ leg' = "t2"
    /\ first' = NoAnswer
    /\ req' = LegRequest(call, "t2")
    /\ cur' = StartCursor(req')
    /\ outcome' = StartOutcome(req')
    /\ UNCHANGED <<call, result>>

\* Mutant of FinishFirst: the first search is started again.
FinishFirst_Repeats ==
    /\ leg = "t1" /\ SearchOver
    /\ ~Failed \/ clean_split
    /\ req' = LegRequest(call, "t1")
    /\ cur' = StartCursor(req')
    /\ outcome' = StartOutcome(req')
    /\ UNCHANGED callVars

FinishFirst ==
    /\ leg = "t1" /\ SearchOver
    /\ ~Failed \/ clean_split
    /\ leg' = "t2"
    /\ first' = Reply
    /\ req' = LegRequest(call, "t2")
    /\ cur' = StartCursor(req')
    /\ outcome' = StartOutcome(req')
    /\ UNCHANGED <<call, result>>

\* Mutant of NearerAnswer: the direction is forgotten, the earlier fire wins.
NearerAnswer_Earlier(t1, t2) ==
    CASE t1.kind = "fire" /\ t2.kind = "fire" ->
            IF \E a \in t1.at, b \in t2.at : Before(a, b) THEN t1 ELSE t2
      [] t1.kind = "fire" /\ t2.kind # "fire" -> t1
      [] t1.kind # "fire" /\ t2.kind = "fire" -> t2
      [] OTHER -> Error("bad_date")

\* The nearer of two fires; the only one; or, from two failures, BadDate.
NearerAnswer(t1, t2) ==
    CASE t1.kind = "fire" /\ t2.kind = "fire" ->
            IF \E a \in t1.at, b \in t2.at : Nearer(req, a, b) THEN t1 ELSE t2
      [] t1.kind = "fire" /\ t2.kind # "fire" -> t1
      [] t1.kind # "fire" /\ t2.kind = "fire" -> t2
      [] OTHER -> Error("bad_date")

FinishSecond ==
    /\ leg = "t2" /\ SearchOver
    /\ ~Failed \/ clean_split
    /\ Return(NearerAnswer(first, Reply))

CallNext ==
    \/ Search
    \/ FinishSingle
    \/ FailLeg
    \/ FinishFirst
    \/ FinishSecond

CallSpec == CallInit /\ [][CallNext]_allVars /\ WF_allVars(CallNext)

(***************************************************************************)
(* Properties.                                                             *)
(***************************************************************************)

\* Type invariant.
CallTypeOK ==
    /\ call \in Calls
    /\ leg \in {"single", "t1", "t2", "returned"}
    /\ first.kind \in {"none", "fire"} \cup Errors
    /\ result.kind \in {"none", "fire"} \cup Errors
    /\ leg = "returned" <=> result # NoAnswer
    /\ leg = "t2" => first # NoAnswer
    /\ leg \in {"single", "t1"} => first = NoAnswer

\* The expression whose meaning calc_next promises: with a clean split the
\* union of the two day fields, otherwise both of them.
Promised(c) ==
    [expr   |-> IF Splits(c) THEN [c.expr EXCEPT !.either = TRUE] ELSE c.expr,
     at     |-> c.at, sub |-> c.sub, isPrev |-> c.isPrev]

\* With W or weekday#n, in force in both searches: an error when a side never
\* fires, otherwise the nearer side's fire.
CarriedAnswers(c) ==
    LET t1 == LegRequest(c, "t1")
        t2 == LegRequest(c, "t2")
    IN  IF NoneInScope(t1) \/ NoneInScope(t2)
        THEN {Error(e) : e \in Errors}
        ELSE {r \in FireAnswers(t1) \cup FireAnswers(t2) :
                 \A i \in r.at : NoneNearer(t1, i) /\ NoneNearer(t2, i)}

Carries(c) == c.expr.nth # {} \/ c.expr.w # {}

PromisedAnswers(c) ==
    IF Splits(c) /\ Carries(c) THEN CarriedAnswers(c) ELSE Answers(Promised(c))

\* Without W and weekday#n, calc_next answers with the nearest fire of that
\* expression, and with an error only when it has none in scope: two searches
\* that each know half of the schedule amount to one search of the union.
\* With them, a side that never fires is not taken for an empty one.
Union == INSTANCE NextFire WITH
    Requests <- Calls, Answers <- PromisedAnswers,
    req <- call, answer <- result

IsUnionFire == Union!Spec

\* With weekday#n no field is dropped silently: an answer satisfies the day
\* field and the weekday field.  (tests/original/test_croniter.py:241-245 say
\* that the split "stays an intersection" and that such an expression must
\* keep raising "instead of silently dropping a field".)
NoFieldDropped ==
    (leg = "returned" /\ Splits(call) /\ call.expr.nth # {}) =>
        \A i \in result.at : Fires(call.expr, i)

\* calc_next returns.
CallTerminates == <>(leg = "returned")

=============================================================================
