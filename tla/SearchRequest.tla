----------------------------- MODULE SearchRequest -----------------------------
(***************************************************************************)
(* What is asked of a date search, shared by the search itself and by the  *)
(* statement of what it promises.                                          *)
(***************************************************************************)
EXTENDS CronMeaning

CONSTANTS
    Starts,    \* the instants (whole seconds) searched from
    MaxYears   \* max_years_between_matches

ASSUME RequestAssumption ==
    /\ Starts \subseteq Instants
    /\ MaxYears \in Nat

\* sub is 1 when the start has a part below the second.
Requests ==
    [expr : Exprs, at : Starts, sub : {0, 1}, isPrev : BOOLEAN]

\* The first instant that could be an answer: one step off the start in the
\* direction of travel, truncated to the expression's finest field.
FirstCandidate(r) ==
    LET moved == IF r.isPrev THEN AddSeconds(r.at, r.sub - 1)
                 ELSE IF r.expr.secs THEN AddSeconds(r.at, 1)
                 ELSE AddMinutes(r.at, 1)
    IN  IF r.expr.secs THEN moved ELSE [moved EXCEPT !.s = 0]

\* The years a search may look at are counted from its first candidate.
WithinYears(r, year) ==
    Distance(YearOf(FirstCandidate(r).day), year) <= MaxYears

Errors == {"bad_date", "bad_type_range"}

\* i lies strictly on the asked side of the request's start.
IsAhead(r, i) ==
    IF r.isPrev THEN Before(i, r.at) \/ (r.sub = 1 /\ i = r.at)
                ELSE Before(r.at, i)

\* i is nearer to the start of r than k is.
Nearer(r, i, k) == IF r.isPrev THEN Before(k, i) ELSE Before(i, k)

\* The days from the start of r to the day of i, both included.
DaysTowards(r, i) ==
    IF r.isPrev THEN i.day .. r.at.day ELSE r.at.day .. i.day

\* No fire of the request's expression lies ahead of its start and nearer
\* than i: a search standing at i has passed over nothing.
NoneNearer(r, i) ==
    \A t \in FireDays[r.expr] \cap DaysTowards(r, i) :
        \A f \in TimesOn(r.expr, t) : ~ (IsAhead(r, f) /\ Nearer(r, f, i))

\* No fire lies ahead of the start within the years of the search.
NoneInScope(r) ==
    \A t \in FireDays[r.expr] :
        WithinYears(r, YearOf(t)) => \A f \in TimesOn(r.expr, t) : ~ IsAhead(r, f)

(***************************************************************************)
(* The answers a search may give.  README.md: get_next returns the next    *)
(* match; src/error.rs: BadDate means no matching date within              *)
(* max_years_between_matches.                                              *)
(***************************************************************************)
NoAnswer    == [kind |-> "none", at |-> {}]
Fire(i)     == [kind |-> "fire", at |-> {i}]
Error(kind) == [kind |-> kind, at |-> {}]

\* The fire nearest to the start on the asked side, within the years.
FireAnswers(r) ==
    {a \in [kind : {"fire"}, at : SUBSET Instants] :
        \E i \in a.at :
            /\ a = Fire(i)
            /\ Fires(r.expr, i)
            /\ IsAhead(r, i)
            /\ WithinYears(r, YearOf(i.day))
            /\ NoneNearer(r, i)}

\* A search whose years reach the end of the calendar may run off it instead
\* of running out of years.
ReachesEdge(r) ==
    LET first == FirstCandidate(r).day
    IN  \/ first \notin Days
        \/ r.isPrev /\ YearOf(first) - MaxYears <= FirstYear
        \/ ~r.isPrev /\ YearOf(first) + MaxYears >= LastYear

\* An error, only when there is nothing to find.
ErrorAnswers(r) ==
    {a \in [kind : Errors, at : {{}}] :
        /\ FirstCandidate(r).day \in Days => NoneInScope(r)
        /\ a.kind = "bad_type_range" => ReachesEdge(r)}

Answers(r) == FireAnswers(r) \cup ErrorAnswers(r)

=============================================================================
