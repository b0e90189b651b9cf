-------------------------- MODULE MCReplDeclarations --------------------------
(* The model values of ReplDeclarations' runs.                             *)
EXTENDS ReplDeclarations, TLC

CONSTANTS x, y

TwoNames == {x, y}

(* Sessions in which nothing, or one thing, goes wrong in its own way,     *)
(* those in which everything can, and those that declare names again.      *)
AtMostOne == {{}, {"hoist"}, {"exprs"}, {"nested"}, {"slip"}}
Failing == AtMostOne \cup {{"exprs", "nested", "slip", "imports"}, {"redeclare"}}

Symmetry == Permutations(Names)
=============================================================================
