-------------------------------- MODULE MCBridge --------------------------------
(***************************************************************************)
(* Instances of the bridge for TLC: an expression that is random and one   *)
(* whose parse panics.                                                     *)
(***************************************************************************)
EXTENDS Bridge

SomeExprs == {"random", "huge"}

SomeDraws ==
    [e \in SomeExprs |->
        CASE e = "random" -> {[expr |-> e, draw |-> 1], [expr |-> e, draw |-> 2]}
          [] OTHER        -> {}]

=============================================================================
