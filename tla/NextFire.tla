-------------------------------- MODULE NextFire --------------------------------
(***************************************************************************)
(* What a date search promises, without saying how it searches: to each    *)
(* request one reply, and the right one.                                   *)
(***************************************************************************)

CONSTANTS
    Requests,     \* what may be asked
    NoAnswer,     \* no reply yet
    Answers(_)    \* the replies allowed to a request

VARIABLES
    req,     \* the request
    answer   \* NoAnswer, then one of Answers(req)

vars == <<req, answer>>

\* A request may be refused on the spot, when it has no candidate at all.
Init ==
    /\ req \in Requests
    /\ answer = NoAnswer \/ answer \in Answers(req)

Reply ==
    /\ answer = NoAnswer
    /\ answer' \in Answers(req)
    /\ UNCHANGED req

Spec == Init /\ [][Reply]_vars

=============================================================================
