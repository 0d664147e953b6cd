-------------------------------- MODULE Clients --------------------------------
(***************************************************************************)
(* Who drives an object of src/lib.rs: a caller, who makes any calls in    *)
(* any order; a range, which owns its object and steps it one way; or a    *)
(* match, which asks its object once.                                      *)
(***************************************************************************)
EXTENDS CroniterRange, MatchRange

clientVars == <<cronVars, asked, walk, test>>

NoRange == [zone |-> NoTz, from |-> 0, to |-> 0, exclude_ends |-> FALSE]

ASSUME ClientAssumption == NoRange \notin Ranges

ClientInit ==
    \/ CronInit /\ asked = NoRange /\ walk = NotBuilt /\ test = NoTest
    \/ RangeInit /\ test = NoTest
    \/ MatchInit /\ asked = NoRange /\ walk = NotBuilt

Caller  == asked = NoRange /\ test = NoTest /\ CronNext /\ UNCHANGED <<asked, walk, test>>
Walker  == asked # NoRange /\ RangeNext /\ UNCHANGED test
Matcher == test # NoTest /\ MatchNext /\ UNCHANGED <<asked, walk>>

ClientNext == Caller \/ Walker \/ Matcher

ClientSpec == ClientInit /\ [][ClientNext]_clientVars

=============================================================================
