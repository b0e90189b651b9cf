----------------------------- MODULE PartialMap -----------------------------
(***************************************************************************)
(* What a table of Choice-Lang promises, with no slots, hashes or          *)
(* tombstones in sight: each key has at most one value, which is the one   *)
(* assigned to it last, until it is popped or the table is cleared.        *)
(***************************************************************************)
EXTENDS Naturals, FiniteSets

CONSTANTS Keys, Values,
          Absent          \* The value of a key that is not in the table.

VARIABLES map,            \* The value of each key.
          answer          \* What the last operation that reads found, of what.

vars == <<map, answer>>

InTable == {k \in Keys : map[k] # Absent}
Nothing == [k \in Keys |-> Absent]

TypeOK ==
  /\ map \in [Keys -> Values \cup {Absent}]
  /\ answer \in [of : Keys \cup {"size"}, is : Values \cup {Absent} \cup Nat]

Init ==
  /\ map = Nothing
  /\ answer = [of |-> "size", is |-> 0]

Set(k, v) == map' = [map EXCEPT ![k] = v] /\ UNCHANGED answer

Get(k) == answer' = [of |-> k, is |-> map[k]] /\ UNCHANGED map

Pop(k) ==
  /\ answer' = [of |-> k, is |-> map[k]]
  /\ map' = [map EXCEPT ![k] = Absent]

Size == answer' = [of |-> "size", is |-> Cardinality(InTable)] /\ UNCHANGED map

Clear == map' = Nothing /\ UNCHANGED answer

Next ==
  \/ Size \/ Clear
  \/ \E k \in Keys : Get(k) \/ Pop(k) \/ \E v \in Values : Set(k, v)

Spec == Init /\ [][Next]_vars
=============================================================================
