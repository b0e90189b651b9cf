-------------------------- MODULE CapturedVariables --------------------------
(***************************************************************************)
(* What Choice-Lang promises about local variables and closures, with no   *)
(* registers, cells or scopes in sight: every execution of a declaration,  *)
(* of a parameter or of a loop variable makes a variable of its own, and a *)
(* variable lives for as long as its scope is open or a closure holds it.  *)
(* ClosureVM implements this specification with registers that are reused  *)
(* and cells that are closed.                                              *)
(***************************************************************************)
EXTENDS Naturals

CONSTANTS Vars,     \* The variables a run may create, one per declaration executed.
          Vals,     \* The values a program computes.
          Nil,      \* What a register holds before any value is stored in it.
          Unborn,   \* The content of a variable not declared yet ...
          Gone      \* ... and of one that nothing can reach any more.

VARIABLES store,    \* The content of each variable.
          held,     \* The variables that some closure has captured.
          ret       \* The value the last read returned.

vars == <<store, held, ret>>

Reachable == {v \in Vars : store[v] \notin {Unborn, Gone}}

TypeOK ==
  /\ store \in [Vars -> Vals \cup {Nil, Unborn, Gone}]
  /\ held \subseteq Vars
  /\ ret \in Vals \cup {Nil}

Init ==
  /\ store = [v \in Vars |-> Unborn]
  /\ held = {}
  /\ ret = Nil

(* A variable comes into being with a value of its own, and variables that *)
(* no closure holds may vanish in the same step (the end of an iteration). *)
Birth(v, x, lost) ==
  /\ store[v] = Unborn
  /\ store' = [u \in Vars |-> IF u = v THEN x
                              ELSE IF u \in lost THEN Gone ELSE store[u]]
  /\ UNCHANGED <<held, ret>>

(* A scope ends: the variables it declared vanish unless a closure holds   *)
(* them.                                                                   *)
Death(lost) ==
  /\ store' = [u \in Vars |-> IF u \in lost THEN Gone ELSE store[u]]
  /\ UNCHANGED <<held, ret>>

Turnover == \E lost \in SUBSET (Reachable \ held) :
  \/ Death(lost)
  \/ \E v \in Vars, x \in Vals : Birth(v, x, lost)

Capture == \E v \in Reachable :
  /\ held' = held \cup {v}
  /\ UNCHANGED <<store, ret>>

Assign == \E v \in Reachable, x \in Vals :
  /\ store' = [store EXCEPT ![v] = x]
  /\ UNCHANGED <<held, ret>>

Read == \E v \in Reachable :
  /\ ret' = store[v]
  /\ UNCHANGED <<store, held>>

Next == Turnover \/ Capture \/ Assign \/ Read

Spec == Init /\ [][Next]_vars
=============================================================================
