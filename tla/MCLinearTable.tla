---------------------------- MODULE MCLinearTable ----------------------------
(* The model values of LinearTable's runs.                                 *)
EXTENDS LinearTable, TLC

CONSTANTS a, b, c, v, w

ThreeKeys == {a, b, c}
TwoValues == {v, w}

(* Two keys whose slots are the last ones of every table, so that their    *)
(* probes wrap around, and one that is the first to be in their way.       *)
Collisions == a :> 7 @@ b :> 15 @@ c :> 0
ValueSymmetry == Permutations(Values)
=============================================================================
