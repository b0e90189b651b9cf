------------------------------ MODULE CallStack ------------------------------
(***************************************************************************)
(* What calls promise in Choice-Lang, with no registers in sight: every    *)
(* activation of a function has values of its own, a call hands its        *)
(* arguments over, in order, behind the receiver if there is one, and      *)
(* leaves the caller's other values alone, and what the function returns   *)
(* takes the place of the call.  Constructors, field initialisers and      *)
(* drop() methods run in activations of their own too, out of sight.       *)
(* Calls implements this specification with one array of registers, a      *)
(* window that slides over it and the stack of the C++ program.            *)
(***************************************************************************)
EXTENDS Naturals, Sequences

CONSTANT Limit          \* The activations there can be at a time.

VARIABLE stack          \* The activations: their values (vals), whether code, the making
                        \* or the drop of an instance started them (by), and whether
                        \* anything is promised of the values (promised).

Depth == Len(stack)
Top == stack[Depth]
Below(k) == SubSeq(stack, 1, Depth - k)
BelowNext(k) == SubSeq(stack', 1, Depth - k)

(* The first k values of a sequence, and those after them.                 *)
First(s, k) == SubSeq(s, 1, k)
After(s, k) == SubSeq(s, k + 1, Len(s))

(* A script starts with the built-in values, and nothing is running.       *)
Init == Depth = 1 /\ Top.by = "code" /\ Top.promised

-----------------------------------------------------------------------------
(* How the values of the running activation change from old to new.        *)

Computed(old, new) == Len(new) = Len(old) + 1 /\ First(new, Len(old)) = old

Discarded(old, new) == Len(new) < Len(old) /\ new = First(old, Len(new))

(* A type makes way for an instance, and an instance for a method got from *)
(* it.                                                                     *)
Replaced(old, new) ==
  /\ Len(old) > 0 /\ Len(new) = Len(old)
  /\ First(new, Len(new) - 1) = First(old, Len(old) - 1)
  /\ LET v == old[Len(old)]  w == new[Len(new)] IN
       \/ v.t = "callee" /\ w.t = "inst"
       \/ v.t = "inst" /\ w.t = "method" /\ w.got = v.id

(* The arguments of a variable parameter become one list.                  *)
Gathered(old, new) ==
  \E k \in 0 .. Len(old) : new = Append(First(old, k), [t |-> "list", of |-> After(old, k)])

(* The last value becomes the result, or there is none.                    *)
Returned(old, new) ==
  \/ new = <<[t |-> "void"]>>
  \/ Len(old) > 0 /\ new = <<old[Len(old)]>>

(* A call that the limit refuses takes the place of its function and its   *)
(* arguments, with no value promised.                                      *)
Refused(old, new) ==
  /\ Depth = Limit
  /\ Len(new) \in 1 .. Len(old)
  /\ First(new, Len(new) - 1) = First(old, Len(new) - 1)

Within ==
  /\ Len(stack') = Depth
  /\ BelowNext(1) = Below(1)
  /\ LET new == stack'[Depth].vals IN
       /\ stack'[Depth] = [Top EXCEPT !.vals = new]
       /\ \/ Computed(Top.vals, new)
          \/ Discarded(Top.vals, new)
          \/ Replaced(Top.vals, new)
          \/ Gathered(Top.vals, new)
          \/ Returned(Top.vals, new)
          \/ Refused(Top.vals, new)
          \/ ~Top.promised

-----------------------------------------------------------------------------
(* The receiver of a callee: the instance that a method was got from.      *)
Receiver(callee) == IF callee.t = "method" THEN <<[t |-> "inst", id |-> callee.got]>>
                                           ELSE <<>>

(* What a new activation starts with: the receiver and the arguments of a  *)
(* call, or of a constructor, or only the receiver, if any, of a call that *)
(* the program does not make itself.                                       *)
Passed(new, called) ==
  \/ /\ new.by = "code" /\ called # <<>>
     /\ new.vals = Receiver(called[1]) \o After(called, 1)
  \/ /\ new.by = "make" /\ called # <<>>
     /\ called[1].t = "callee"
     /\ Len(new.vals) = Len(called) /\ new.vals[1].t = "inst"
     /\ After(new.vals, 1) = After(called, 1)
  \/ /\ new.by \in {"make", "drop"} /\ called = <<>>
     /\ \A i \in DOMAIN new.vals : i = 1 /\ new.vals[i].t = "inst"

Entered ==
  /\ Depth < Limit
  /\ Len(stack') = Depth + 1
  /\ BelowNext(1) = Below(1)
  /\ \E k \in 0 .. Len(Top.vals) :
       /\ stack'[Depth] = [Top EXCEPT !.vals = First(@, k)]
       /\ stack'[Depth + 1].promised => Passed(stack'[Depth + 1], After(Top.vals, k))

Left ==
  /\ Depth > 1
  /\ Len(stack') = Depth - 1
  /\ BelowNext(2) = Below(2)
  /\ LET caller == stack[Depth - 1]  new == stack'[Depth - 1].vals IN
       /\ stack'[Depth - 1] = [caller EXCEPT !.vals = new]
       /\ IF Top.by = "code"
          THEN /\ Len(new) = Len(caller.vals) + 1
               /\ First(new, Len(caller.vals)) = caller.vals
               /\ Top.promised => new = caller.vals \o Top.vals
          ELSE new = caller.vals

(* An error, or the end, discards everything.                              *)
Ended == stack' = <<[vals |-> <<>>, by |-> "code", promised |-> TRUE]>>

Next == Within \/ Entered \/ Left \/ Ended

Spec == Init /\ [][Next]_stack
=============================================================================
