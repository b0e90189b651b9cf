----------------------------- MODULE MCClosureVM -----------------------------
(* The model values of ClosureVM's runs, and the symmetry between values.  *)
EXTENDS ClosureVM, TLC

CONSTANTS a, b

NoValues == {Nil}
TwoValues == {a, b}
NoLeaves == {}
Returns == {"return"}
AllLeaves == {"return", "jump", "error", "fall"}
Symmetry == Permutations({a, b})
=============================================================================
