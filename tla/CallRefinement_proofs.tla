------------------------ MODULE CallRefinement_proofs ------------------------
(***************************************************************************)
(* Calls implements CallStack: windows that slide over one register array, *)
(* with the stack of the C++ program beside them, are activations with     *)
(* values of their own.  That takes more than DInv: Shape says where the   *)
(* callers' values end, what is left of the arguments, and what the C++    *)
(* functions remember of the activations they have started.                *)
(***************************************************************************)
EXTENDS Drops_proofs

-----------------------------------------------------------------------------
(* The invariant.                                                          *)

(* The first register above those that the code of x can name.             *)
Above(x) == IF x.code.at = "leaving" THEN x.base ELSE IF x.top = 0 THEN 0 ELSE x.base + x.top

(* A callee's window leaves at least one register above its caller's       *)
(* values, and exactly the slot of the callee if the program makes the call.*)
Apart(x, y) ==
  /\ Above(x) < y.base
  /\ y.code.by = "code" => y.base = x.base + x.top + 1

Separate == \A k \in 1 .. Len(frames) : Apart(Ctx[k], Ctx[k + 1])

(* What holds wherever something is promised of an activation's values.    *)
Promises(x) ==
  x.code.promised =>
    /\ ~(x.code.self = 1 /\ (x.code.by = "code" \/ x.code.fun.rest))
    /\ x.code.at = "default" => ~x.code.fun.rest

Promising == \A k \in 1 .. Depth : Promises(Ctx[k])

(* OP_VAR_ARGS finds the arguments there are.                              *)
Gathering ==
  cur.code.at = "gather" /\ cur.code.promised =>
    args = cur.top /\ cur.code.self = 0 /\ cur.code.fun.max <= cur.top

(* What a call remembers is true of the activation y it has started, above *)
(* x; if nothing waits for its end, y computes default values.             *)
Started(c, x, y) ==
  /\ y.base = x.base + c.start
  /\ c.start \in Nat
  /\ c.by = "code" => c.start >= 1
  /\ y.code.fun = c.fun /\ y.code.self = c.self /\ y.code.by = c.by
  /\ ~Binds(c) => y.code.at = "default"

Fits(n) ==
  /\ n.op = "call" => n.depth \in 2 .. Depth /\ Started(n, Ctx[n.depth - 1], Ctx[n.depth])
  /\ n.op = "make" => Ctx[n.depth].top = n.start - 1
  /\ n.op = "drop" => Above(Ctx[n.depth]) <= n.limit

Fitting == \A i \in DOMAIN native : \E n : n = native[i] /\ Fits(n)

Deeper ==
  \A i, j \in DOMAIN native : i < j /\ native[i].op = "call" /\ native[j].op = "call" =>
    native[i].depth < native[j].depth

(* Default values are computed inside of the call that wants them.         *)
Computing ==
  \A k \in 2 .. Depth : Ctx[k].code.at = "default" =>
    \E i \in DOMAIN native : native[i].op = "call" /\ native[i].depth = k

(* After the end of the script only drop() methods run.                    *)
Idle ==
  status # "running" =>
    /\ Ctx[1].top = 0
    /\ Depth > 1 => Ctx[2].code.by # "code"

Shape == Separate /\ Promising /\ Gathering /\ Fitting /\ Deeper /\ Computing /\ Idle

RInv == DInv /\ Shape
-----------------------------------------------------------------------------
(* Steps that neither begin nor end a call.                                *)

SameCode(x, y) ==
  /\ y.base = x.base /\ y.code.fun = x.code.fun /\ y.code.self = x.code.self
  /\ y.code.by = x.code.by /\ y.code.promised = x.code.promised

CallKept(i) ==
  /\ i \in DOMAIN native /\ native'[i] = native[i]
  /\ ~Binds(native[i]) /\ native[i].depth = Depth => cur'.code.at = "default"

CallGone(i) == native[i].depth = Depth /\ cur'.code.at # "default"

LEMMA SteadyShape ==
  ASSUME RInv, DInv', frames' = frames, SameCode(cur, cur'),
         cur'.code.at = "default" => cur.code.at = "default",
         cur'.code.at = "gather" => ~cur'.code.promised,
         status' # "running" /\ Depth = 1 => cur'.top = 0,
         status' # "running" => status # "running" \/ Depth = 1,
         \A i \in DOMAIN native' :
           IF native'[i].op = "call" THEN CallKept(i) ELSE \E n : n = native'[i] /\ Fits(n)',
         \A i \in DOMAIN native : native[i].op = "call" =>
           (i \in DOMAIN native' /\ native'[i] = native[i]) \/ CallGone(i)
  PROVE  RInv'
PROOF
  <1>1. DInv /\ Inv /\ Typed /\ Shape /\ Windows BY DEF RInv, DInv
  <1>2. /\ Depth' = Depth /\ Ctx'[Depth] = cur' /\ Len(frames') = Len(frames)
        /\ \A k \in 1 .. Len(frames) : Ctx'[k] = Ctx[k]
    BY <1>1, Stayed
  <1>3. /\ Len(frames) \in Nat /\ Depth = Len(frames) + 1 /\ Ctx[Depth] = cur /\ Depth \in Nat /\ Depth >= 1
    BY <1>1, TheContexts
  <1>4. \A k \in 1 .. Depth : SameCode(Ctx[k], Ctx'[k])
    <2> TAKE k \in 1 .. Depth
    <2>1. CASE k = Depth BY <1>2, <1>3, <2>1
    <2>2. CASE k \in 1 .. Len(frames) BY <1>2, <2>2 DEF SameCode
    <2> QED BY <1>3, <2>1, <2>2
  <1>5. \A k \in 1 .. Depth : Ctx'[k].code.at = "default" => Ctx[k].code.at = "default"
    <2> TAKE k \in 1 .. Depth
    <2>1. CASE k = Depth BY <1>2, <1>3, <2>1
    <2>2. CASE k \in 1 .. Len(frames) BY <1>2, <2>2
    <2> QED BY <1>3, <2>1, <2>2
  <1>6. Separate'
    <2>1. \A k \in 1 .. Len(frames) : Apart(Ctx'[k], Ctx'[k + 1])
      <3> TAKE k \in 1 .. Len(frames)
      <3>1. Apart(Ctx[k], Ctx[k + 1]) BY <1>1 DEF Shape, Separate
      <3>2. Ctx'[k] = Ctx[k] /\ k + 1 \in 1 .. Depth BY <1>2, <1>3
      <3>3. SameCode(Ctx[k + 1], Ctx'[k + 1]) BY <1>4, <3>2
      <3> QED BY <3>1, <3>2, <3>3 DEF Apart, SameCode
    <2> QED BY <1>2, <2>1 DEF Separate, Apart, Above
  <1>7. Promising'
    <2>1. \A k \in 1 .. Depth : Promises(Ctx'[k])
      <3> TAKE k \in 1 .. Depth
      <3>1. Promises(Ctx[k]) BY <1>1 DEF Shape, Promising
      <3>2. SameCode(Ctx[k], Ctx'[k]) BY <1>4
      <3>3. Ctx'[k].code.at = "default" => Ctx[k].code.at = "default" BY <1>5
      <3> QED BY <3>1, <3>2, <3>3 DEF Promises, SameCode
    <2> QED BY <1>2, <2>1 DEF Promising, Promises
  <1>8. Gathering' BY DEF Gathering
  <1>9. Fitting'
    <2>1. ASSUME NEW i \in DOMAIN native', native'[i].op = "call"
          PROVE  \E n : n = native'[i] /\ Fits(n)'
      <3>1. CallKept(i) BY <2>1
      <3>2. i \in DOMAIN native /\ native'[i] = native[i] BY <3>1 DEF CallKept
      <3>3. PICK n : n = native[i] /\ Fits(n) BY <1>1, <3>2 DEF Shape, Fitting
      <3>4. n.op = "call" /\ n = native'[i] BY <2>1, <3>2, <3>3
      <3>5. n.depth \in 2 .. Depth /\ Started(n, Ctx[n.depth - 1], Ctx[n.depth])
        BY <3>3, <3>4 DEF Fits
      <3>6. PICK d : d = n.depth OBVIOUS
      <3>7. d \in 2 .. Depth /\ Started(n, Ctx[d - 1], Ctx[d]) BY <3>5, <3>6
      <3>8. d - 1 \in 1 .. Len(frames) /\ d \in 1 .. Depth BY <1>3, <3>7
      <3>9. Ctx'[d - 1] = Ctx[d - 1] /\ SameCode(Ctx[d], Ctx'[d]) BY <1>2, <1>4, <3>8
      <3>10. ~Binds(n) => Ctx'[d].code.at = "default"
        <4>1. CASE d = Depth
          <5>1. ~Binds(n) => cur'.code.at = "default" BY <3>1, <3>3, <3>6, <4>1 DEF CallKept
          <5> QED BY <1>2, <4>1, <5>1
        <4>2. CASE d \in 1 .. Len(frames) BY <1>2, <3>7, <4>2 DEF Started
        <4> QED BY <1>3, <3>8, <4>1, <4>2
      <3>11. Started(n, Ctx'[d - 1], Ctx'[d]) BY <3>7, <3>9, <3>10 DEF Started, SameCode
      <3>12. Fits(n)' BY <1>2, <3>4, <3>6, <3>7, <3>11 DEF Fits, Started, Binds
      <3> QED BY <3>4, <3>12
    <2> QED BY <2>1 DEF Fitting
  <1>10. Deeper'
    <2>1. \A i \in DOMAIN native' : native'[i].op = "call" => i \in DOMAIN native /\ native'[i] = native[i]
      BY DEF CallKept
    <2> QED BY <1>1, <2>1 DEF Shape, Deeper
  <1>11. Computing'
    <2>1. ASSUME NEW k \in 2 .. Depth, Ctx'[k].code.at = "default"
          PROVE  \E i \in DOMAIN native' : native'[i].op = "call" /\ native'[i].depth = k
      <3>1. k \in 1 .. Depth BY <1>3
      <3>2. Ctx[k].code.at = "default" BY <1>5, <2>1, <3>1
      <3>3. PICK i \in DOMAIN native : native[i].op = "call" /\ native[i].depth = k
        BY <1>1, <3>2 DEF Shape, Computing
      <3>4. CallGone(i) => FALSE
        <4>1. CallGone(i) => k = Depth /\ cur'.code.at # "default" BY <3>3 DEF CallGone
        <4> QED BY <1>2, <2>1, <4>1
      <3> QED BY <3>3, <3>4
    <2> QED BY <1>2, <2>1 DEF Computing
  <1>12. Idle'
    <2>1. ASSUME status' # "running" PROVE Ctx'[1].top = 0 /\ (Depth > 1 => Ctx'[2].code.by # "code")
      <3>1. CASE Depth = 1 BY <1>2, <2>1, <3>1
      <3>2. CASE Depth > 1
        <4>1. status # "running" BY <2>1, <3>2
        <4>2. Ctx[1].top = 0 /\ Ctx[2].code.by # "code" BY <1>1, <3>2, <4>1 DEF Shape, Idle
        <4>3. 1 \in 1 .. Len(frames) /\ 2 \in 1 .. Depth BY <1>3, <3>2
        <4>4. Ctx'[1] = Ctx[1] /\ SameCode(Ctx[2], Ctx'[2]) BY <1>2, <1>4, <4>3
        <4> QED BY <4>2, <4>4 DEF SameCode
      <3> QED BY <1>3, <3>1, <3>2
    <2> QED BY <1>2, <2>1 DEF Idle
  <1> QED BY <1>6, <1>7, <1>8, <1>9, <1>10, <1>11, <1>12 DEF RInv, Shape

LEMMA FitsBelow ==
  ASSUME Typed, frames' = frames, NEW n, Fits(n), n.op # "call", n.depth \in 1 .. Len(frames)
  PROVE  Fits(n)'
PROOF
  <1>1. Ctx'[n.depth] = Ctx[n.depth] BY Stayed
  <1> QED BY <1>1 DEF Fits, Above

(* Code that goes on, and may leave something to do to a C++ function.     *)
LEMMA CodeShape ==
  ASSUME RInv, DInv', Executing, frames' = frames, SameCode(cur, cur'),
         cur'.code.at = "default" <=> cur.code.at = "default",
         cur'.code.at = "gather" => ~cur'.code.promised,
         status' = status,
         native' = native \/ \E n : native' = Append(native, n) /\ n.op # "call" /\ Fits(n)'
  PROVE  RInv'
PROOF
  <1>1. DInv /\ Inv /\ Typed /\ Shape /\ Entries /\ Links /\ Ends BY DEF RInv, DInv
  <1>2. /\ \A i \in DOMAIN native : native[i].op # "call" => native[i].depth \in 1 .. Len(frames)
        /\ status # "running" => Depth >= 2
    BY <1>1, CodeAlone
  <1>3. status' # "running" /\ Depth = 1 => cur'.top = 0
    <2>1. Depth = 1 => ~(Depth >= 2) OBVIOUS
    <2> QED BY <1>2, <2>1
  <1>4. \A i \in DOMAIN native : \E n : n = native[i] /\ Fits(n)
    BY <1>1 DEF Shape, Fitting
  <1>5. /\ Depth \in Nat /\ Depth = Len(frames) + 1 /\ Len(frames) \in Nat /\ Ctx[Depth] = cur
    BY <1>1, TheContexts
  <1>6. ASSUME NEW i \in DOMAIN native, native[i].op = "call", i \in DOMAIN native', native'[i] = native[i]
        PROVE  CallKept(i)
    <2>1. ASSUME ~Binds(native[i]), native[i].depth = Depth PROVE cur'.code.at = "default"
      <3>1. PICK n : n = native[i] /\ Fits(n) BY <1>4
      <3>2. Started(n, Ctx[n.depth - 1], Ctx[n.depth]) BY <1>6, <3>1 DEF Fits
      <3>3. Ctx[n.depth].code.at = "default" BY <2>1, <3>1, <3>2 DEF Started
      <3> QED BY <1>5, <2>1, <3>1, <3>3
    <2> QED BY <1>6, <2>1 DEF CallKept
  <1>7. ASSUME NEW i \in DOMAIN native, native[i].op # "call"
        PROVE  \E n : n = native[i] /\ Fits(n)'
    <2>1. PICK n : n = native[i] /\ Fits(n) BY <1>4
    <2>2. n.op # "call" /\ n.depth \in 1 .. Len(frames) BY <1>2, <1>7, <2>1
    <2>3. Fits(n)' BY <1>1, <2>1, <2>2, FitsBelow
    <2> QED BY <2>1, <2>3
  <1>8. CASE native' = native
    <2>1. \A i \in DOMAIN native' :
           IF native'[i].op = "call" THEN CallKept(i) ELSE \E n : n = native'[i] /\ Fits(n)'
      <3> TAKE i \in DOMAIN native'
      <3>1. i \in DOMAIN native /\ native'[i] = native[i] BY <1>8
      <3>2. CASE native[i].op = "call" BY <1>6, <3>1, <3>2
      <3>3. CASE native[i].op # "call" BY <1>7, <3>1, <3>3
      <3> QED BY <3>2, <3>3
    <2>2. \A i \in DOMAIN native : i \in DOMAIN native' /\ native'[i] = native[i] BY <1>8
    <2> QED BY <1>3, <2>1, <2>2, SteadyShape
  <1>9. ASSUME NEW x, native' = Append(native, x), x.op # "call", Fits(x)'
        PROVE  RInv'
    <2>1. /\ Len(native) \in Nat /\ DOMAIN native = 1 .. Len(native) /\ DOMAIN native' = 1 .. Len(native) + 1
          /\ \A i \in 1 .. Len(native) : native'[i] = native[i]
          /\ native'[Len(native) + 1] = x
      BY <1>1, <1>9, OneMore
    <2>2. \A i \in DOMAIN native : i \in DOMAIN native' /\ native'[i] = native[i] BY <2>1
    <2>3. \A i \in DOMAIN native' :
           IF native'[i].op = "call" THEN CallKept(i) ELSE \E n : n = native'[i] /\ Fits(n)'
      <3> TAKE i \in DOMAIN native'
      <3>1. CASE i = Len(native) + 1 BY <1>9, <2>1, <3>1
      <3>2. CASE i \in DOMAIN native
        <4>1. i \in DOMAIN native' /\ native'[i] = native[i] BY <2>2, <3>2
        <4>2. CASE native[i].op = "call" BY <1>6, <3>2, <4>1, <4>2
        <4>3. CASE native[i].op # "call" BY <1>7, <3>2, <4>1, <4>3
        <4> QED BY <4>2, <4>3
      <3> QED BY <2>1, <3>1, <3>2
    <2> QED BY <1>3, <2>2, <2>3, SteadyShape
  <1> QED BY <1>8, <1>9

(* The C++ function on top goes on, or ends.                               *)
LEMMA TopShape ==
  ASSUME RInv, DInv', native # <<>>, native[Len(native)].op # "call",
         frames' = frames, SameCode(cur, cur'), cur'.code.at = cur.code.at,
         cur'.code.at # "gather",
         status' = status, status' # "running" /\ Depth = 1 => cur'.top = 0,
         \A i \in 1 .. Len(native) - 1 : i \in DOMAIN native' /\ native'[i] = native[i],
         \A i \in DOMAIN native' :
           i \in 1 .. Len(native) - 1 \/ (native'[i].op # "call" /\ \E n : n = native'[i] /\ Fits(n)')
  PROVE  RInv'
PROOF
  <1>1. DInv /\ Inv /\ Typed /\ Shape BY DEF RInv, DInv
  <1>2. \A i \in 1 .. Len(native) - 1 : native[i].op # "call" => native[i].depth \in 1 .. Len(frames)
    BY <1>1, BelowTop
  <1>3. Len(native) \in Nat /\ DOMAIN native = 1 .. Len(native) BY <1>1, TheNative
  <1>4. \A i \in DOMAIN native : \E n : n = native[i] /\ Fits(n)
    BY <1>1 DEF Shape, Fitting
  <1>5. /\ Depth \in Nat /\ Depth = Len(frames) + 1 /\ Len(frames) \in Nat /\ Ctx[Depth] = cur
    BY <1>1, TheContexts
  <1>6. ASSUME NEW i \in 1 .. Len(native) - 1
        PROVE  IF native'[i].op = "call" THEN CallKept(i) ELSE \E n : n = native'[i] /\ Fits(n)'
    <2>1. PICK n : n = native[i] /\ Fits(n) BY <1>3, <1>4
    <2>2. n = native'[i] /\ i \in DOMAIN native /\ i \in DOMAIN native' BY <1>3, <2>1
    <2>3. CASE n.op = "call"
      <3>1. ASSUME ~Binds(n), n.depth = Depth PROVE cur'.code.at = "default"
        <4>1. Started(n, Ctx[n.depth - 1], Ctx[n.depth]) BY <2>1, <2>3 DEF Fits
        <4> QED BY <1>5, <3>1, <4>1 DEF Started
      <3> QED BY <2>1, <2>2, <2>3, <3>1 DEF CallKept
    <2>4. CASE n.op # "call"
      <3>1. n.depth \in 1 .. Len(frames) BY <1>2, <2>1, <2>4
      <3>2. Fits(n)' BY <1>1, <2>1, <2>4, <3>1, FitsBelow
      <3> QED BY <2>2, <2>4, <3>2
    <2> QED BY <2>3, <2>4
  <1>7. \A i \in DOMAIN native' :
          IF native'[i].op = "call" THEN CallKept(i) ELSE \E n : n = native'[i] /\ Fits(n)'
    BY <1>6
  <1>8. \A i \in DOMAIN native : native[i].op = "call" => i \in DOMAIN native' /\ native'[i] = native[i]
    <2> TAKE i \in DOMAIN native
    <2>1. i = Len(native) \/ i \in 1 .. Len(native) - 1 BY <1>3
    <2> QED BY <2>1
  <1> QED BY <1>7, <1>8, SteadyShape
-----------------------------------------------------------------------------
(* Activations as CallStack sees them.                                     *)

(* The values that the code of x can name, in a register array.            *)
Vals(file, x) ==
  IF x.code.at = "leaving" THEN <<file[x.base - 1]>>
  ELSE [i \in 1 .. x.top |-> file[x.base + i - 1]]

Act(file, x) == [vals |-> Vals(file, x), by |-> x.code.by, promised |-> x.code.promised]
StackOf(file, callers, x) == [i \in 1 .. Len(callers) |-> Act(file, callers[i])] \o <<Act(file, x)>>

Stack == [i \in 1 .. Len(frames) |-> Activation(frames[i])] \o <<Activation(cur)>>
Follows == Promise!Next \/ Stack' = Stack

LEMMA Agree ==
  ASSUME NEW S, NEW T, NEW s \in Seq(S), NEW t \in Seq(T), NEW n \in Nat,
         n <= Len(s), n <= Len(t), \A i \in 1 .. n : s[i] = t[i]
  PROVE  SubSeq(s, 1, n) = SubSeq(t, 1, n)
PROOF
  <1>1. /\ SubSeq(s, 1, n) \in Seq(S) /\ Len(SubSeq(s, 1, n)) = n
        /\ \A i \in 1 .. n : SubSeq(s, 1, n)[i] = s[i]
    OBVIOUS
  <1>2. /\ SubSeq(t, 1, n) \in Seq(T) /\ Len(SubSeq(t, 1, n)) = n
        /\ \A i \in 1 .. n : SubSeq(t, 1, n)[i] = t[i]
    OBVIOUS
  <1> QED BY <1>1, <1>2

LEMMA ValsSeq ==
  ASSUME NEW file, NEW x \in Contexts
  PROVE  /\ \E S : Vals(file, x) \in Seq(S)
         /\ x.code.at = "leaving" =>
              Len(Vals(file, x)) = 1 /\ Vals(file, x)[1] = file[x.base - 1]
         /\ x.code.at # "leaving" =>
              /\ Len(Vals(file, x)) = x.top
              /\ \A i \in 1 .. x.top : Vals(file, x)[i] = file[x.base + i - 1]
PROOF
  <1>1. x.top \in Nat /\ x.base \in Nat BY ContextFields
  <1>2. CASE x.code.at = "leaving"
    <2>1. PICK v : v = file[x.base - 1] OBVIOUS
    <2>2. Vals(file, x) = <<v>> BY <1>2, <2>1 DEF Vals
    <2>3. <<v>> \in Seq({v}) /\ Len(<<v>>) = 1 /\ <<v>>[1] = v OBVIOUS
    <2> QED BY <1>2, <2>1, <2>2, <2>3
  <1>3. CASE x.code.at # "leaving"
    <2> DEFINE S == {file[x.base + i - 1] : i \in 1 .. x.top}
               f == [i \in 1 .. x.top |-> file[x.base + i - 1]]
    <2>1. Vals(file, x) = f BY <1>3 DEF Vals
    <2>2. f \in [1 .. x.top -> S] OBVIOUS
    <2>3. \A i \in 1 .. x.top : f[i] = file[x.base + i - 1] OBVIOUS
    <2> HIDE DEF f, S
    <2>4. f \in Seq(S) /\ Len(f) = x.top BY <1>1, <2>2
    <2> QED BY <1>3, <2>1, <2>3, <2>4
  <1> QED BY <1>2, <1>3

LEMMA StackOfFacts ==
  ASSUME NEW file, NEW callers \in Seq(Contexts), NEW x
  PROVE  /\ \E S : StackOf(file, callers, x) \in Seq(S)
         /\ Len(StackOf(file, callers, x)) = Len(callers) + 1
         /\ \A i \in 1 .. Len(callers) : StackOf(file, callers, x)[i] = Act(file, callers[i])
         /\ StackOf(file, callers, x)[Len(callers) + 1] = Act(file, x)
PROOF
  <1> DEFINE f == [i \in 1 .. Len(callers) |-> Act(file, callers[i])]
             S == {Act(file, callers[i]) : i \in 1 .. Len(callers)} \cup {Act(file, x)}
  <1>1. PICK a : a = Act(file, x) OBVIOUS
  <1>2. PICK n : n = Len(callers) OBVIOUS
  <1>3. n \in Nat BY <1>2
  <1>4. f \in [1 .. n -> S] /\ a \in S /\ \A i \in 1 .. n : f[i] = Act(file, callers[i])
    BY <1>1, <1>2
  <1>5. StackOf(file, callers, x) = f \o <<a>> BY <1>1 DEF StackOf
  <1> HIDE DEF f, S
  <1>6. f \in Seq(S) /\ Len(f) = n /\ <<a>> \in Seq(S) /\ Len(<<a>>) = 1 /\ <<a>>[1] = a
    BY <1>3, <1>4
  <1>7. /\ f \o <<a>> \in Seq(S) /\ Len(f \o <<a>>) = n + 1
        /\ \A i \in 1 .. n : (f \o <<a>>)[i] = f[i]
        /\ (f \o <<a>>)[n + 1] = a
    BY <1>3, <1>6
  <1> QED BY <1>1, <1>2, <1>4, <1>5, <1>7

LEMMA StackFacts ==
  ASSUME Typed
  PROVE  /\ \E S : Stack \in Seq(S)
         /\ Len(Stack) = Depth /\ \A k \in 1 .. Depth : Stack[k] = Act(regs, Ctx[k])
PROOF
  <1>1. Stack = StackOf(regs, frames, cur) BY DEF Stack, StackOf, Activation, Act, Vals
  <1>2. frames \in Seq(Contexts) BY DEF Typed
  <1>3. /\ Len(frames) \in Nat /\ Depth = Len(frames) + 1 /\ Ctx[Depth] = cur
        /\ \A k \in 1 .. Len(frames) : Ctx[k] = frames[k]
    BY TheContexts
  <1>4. /\ \E S : Stack \in Seq(S)
        /\ Len(Stack) = Len(frames) + 1
        /\ \A i \in 1 .. Len(frames) : Stack[i] = Act(regs, frames[i])
        /\ Stack[Len(frames) + 1] = Act(regs, cur)
    BY <1>1, <1>2, StackOfFacts
  <1>5. \A k \in 1 .. Depth : Stack[k] = Act(regs, Ctx[k])
    <2> TAKE k \in 1 .. Depth
    <2>1. k = Depth \/ k \in 1 .. Len(frames) BY <1>3
    <2> QED BY <1>3, <1>4, <2>1
  <1> QED BY <1>3, <1>4, <1>5

LEMMA NextStackFacts ==
  ASSUME frames' \in Seq(Contexts)
  PROVE  /\ \E S : Stack' \in Seq(S)
         /\ Len(Stack') = Depth' /\ \A k \in 1 .. Depth' : Stack'[k] = Act(regs', Ctx'[k])
PROOF
  <1>1. Stack' = StackOf(regs', frames', cur') BY DEF Stack, StackOf, Activation, Act, Vals
  <1>2. /\ Len(frames') \in Nat /\ Depth' = Len(frames') + 1 /\ Ctx'[Depth'] = cur'
        /\ \A k \in 1 .. Len(frames') : Ctx'[k] = frames'[k]
    <2>1. /\ Append(frames', cur')[Len(frames') + 1] = cur'
          /\ \A k \in 1 .. Len(frames') : Append(frames', cur')[k] = frames'[k]
      OBVIOUS
    <2>2. Ctx' = Append(frames', cur') /\ Depth' = Len(frames') + 1 BY DEF Ctx, Depth
    <2> QED BY <2>1, <2>2
  <1>3. /\ \E S : Stack' \in Seq(S)
        /\ Len(Stack') = Len(frames') + 1
        /\ \A i \in 1 .. Len(frames') : Stack'[i] = Act(regs', frames'[i])
        /\ Stack'[Len(frames') + 1] = Act(regs', cur')
    BY <1>1, StackOfFacts
  <1>4. \A k \in 1 .. Depth' : Stack'[k] = Act(regs', Ctx'[k])
    <2> TAKE k \in 1 .. Depth'
    <2>1. k = Depth' \/ k \in 1 .. Len(frames') BY <1>2
    <2> QED BY <1>2, <1>3, <2>1
  <1> QED BY <1>2, <1>3, <1>4

(* The steps of CallStack, in terms of Stack.                              *)
LEMMA StepsOfStack ==
  /\ Promise!Depth = Len(Stack)
  /\ Promise!Within <=>
       /\ Len(Stack') = Len(Stack)
       /\ SubSeq(Stack', 1, Len(Stack) - 1) = SubSeq(Stack, 1, Len(Stack) - 1)
       /\ Stack'[Len(Stack)] = [Stack[Len(Stack)] EXCEPT !.vals = Stack'[Len(Stack)].vals]
       /\ LET old == Stack[Len(Stack)].vals  new == Stack'[Len(Stack)].vals IN
            \/ Promise!Computed(old, new) \/ Promise!Discarded(old, new)
            \/ Promise!Replaced(old, new) \/ Promise!Gathered(old, new)
            \/ Promise!Returned(old, new) \/ Promise!Refused(old, new)
            \/ ~Stack[Len(Stack)].promised
  /\ Promise!Entered <=>
       /\ Len(Stack) < MaxDepth + 1
       /\ Len(Stack') = Len(Stack) + 1
       /\ SubSeq(Stack', 1, Len(Stack) - 1) = SubSeq(Stack, 1, Len(Stack) - 1)
       /\ \E k \in 0 .. Len(Stack[Len(Stack)].vals) :
            /\ Stack'[Len(Stack)] = [Stack[Len(Stack)] EXCEPT !.vals = SubSeq(@, 1, k)]
            /\ Stack'[Len(Stack) + 1].promised =>
                 Promise!Passed(Stack'[Len(Stack) + 1],
                   SubSeq(Stack[Len(Stack)].vals, k + 1, Len(Stack[Len(Stack)].vals)))
  /\ Promise!Left <=>
       /\ Len(Stack) > 1
       /\ Len(Stack') = Len(Stack) - 1
       /\ SubSeq(Stack', 1, Len(Stack) - 2) = SubSeq(Stack, 1, Len(Stack) - 2)
       /\ LET caller == Stack[Len(Stack) - 1]  new == Stack'[Len(Stack) - 1].vals IN
            /\ Stack'[Len(Stack) - 1] = [caller EXCEPT !.vals = new]
            /\ IF Stack[Len(Stack)].by = "code"
               THEN /\ Len(new) = Len(caller.vals) + 1
                    /\ SubSeq(new, 1, Len(caller.vals)) = caller.vals
                    /\ Stack[Len(Stack)].promised => new = caller.vals \o Stack[Len(Stack)].vals
               ELSE new = caller.vals
  /\ Promise!Ended <=> Stack' = <<[vals |-> <<>>, by |-> "code", promised |-> TRUE]>>
  /\ Promise!Init <=>
       /\ Len(Stack) = 1 /\ Stack[Len(Stack)].by = "code" /\ Stack[Len(Stack)].promised
PROOF
  <1>1. Promise!Depth = Len(Stack) /\ Promise!Top = Stack[Len(Stack)]
    BY DEF Promise!Depth, Promise!Top, Stack
  <1>2. /\ Promise!Below(1) = SubSeq(Stack, 1, Len(Stack) - 1)
        /\ Promise!BelowNext(1) = SubSeq(Stack', 1, Len(Stack) - 1)
        /\ Promise!Below(2) = SubSeq(Stack, 1, Len(Stack) - 2)
        /\ Promise!BelowNext(2) = SubSeq(Stack', 1, Len(Stack) - 2)
    BY <1>1 DEF Promise!Below, Promise!BelowNext, Stack
  <1>3. /\ \A s, k : Promise!First(s, k) = SubSeq(s, 1, k)
        /\ \A s, k : Promise!After(s, k) = SubSeq(s, k + 1, Len(s))
    BY DEF Promise!First, Promise!After
  <1> QED
    BY <1>1, <1>2, <1>3
       DEF Promise!Within, Promise!Entered, Promise!Left, Promise!Ended, Promise!Init, Stack

Same(limit) == \A a \in 0 .. NumRegs - 1 : a < limit => regs'[a] = regs[a]

LEMMA ValsKept ==
  ASSUME DInv, status \notin {"over", "aborted"}, NEW k \in 1 .. Depth,
         NEW limit \in Int, Above(Ctx[k]) <= limit, Same(limit)
  PROVE  Vals(regs', Ctx[k]) = Vals(regs, Ctx[k])
PROOF
  <1>1. Typed /\ Windows BY DEF DInv
  <1>2. PICK x : x = Ctx[k] OBVIOUS
  <1>3. x \in Contexts /\ Laid(k, x) /\ k \in Nat BY <1>1, <1>2, TheContexts DEF Windows
  <1>4. /\ \A r \in Nat : r < Width => x.base + r \in 0 .. NumRegs - 1
        /\ k > 1 => x.base - 1 \in 0 .. NumRegs - 1
    BY <1>1, <1>2, InWindow
  <1>5. x.base \in Nat /\ x.top \in Nat /\ x.top < Width /\ Width \in Nat
    BY <1>3, ContextFields, Sizes DEF Laid
  <1>6. CASE x.code.at = "leaving"
    <2>1. k # 1 BY <1>3, <1>6 DEF Laid
    <2>2. x.base - 1 \in 0 .. NumRegs - 1 BY <1>3, <1>4, <2>1
    <2>3. x.base <= limit BY <1>2, <1>6 DEF Above
    <2>4. x.base - 1 < limit BY <1>5, <2>3
    <2>5. regs'[x.base - 1] = regs[x.base - 1] BY <2>2, <2>4 DEF Same
    <2> QED BY <1>2, <1>6, <2>5 DEF Vals
  <1>7. CASE x.code.at # "leaving"
    <2>1. ASSUME NEW i \in 1 .. x.top PROVE regs'[x.base + i - 1] = regs[x.base + i - 1]
      <3>1. x.top # 0 BY <1>5
      <3>2. x.base + x.top <= limit BY <1>2, <1>7, <3>1 DEF Above
      <3>3. i - 1 \in Nat /\ i - 1 < Width BY <1>5
      <3>4. x.base + (i - 1) \in 0 .. NumRegs - 1 BY <1>4, <3>3
      <3>5. x.base + (i - 1) = x.base + i - 1 /\ x.base + i - 1 < limit BY <1>5, <3>2
      <3> QED BY <3>4, <3>5 DEF Same
    <2> QED BY <1>2, <1>7, <2>1 DEF Vals
  <1> QED BY <1>6, <1>7

LEMMA CallersBelow ==
  ASSUME RInv, NEW k \in 1 .. Len(frames)
  PROVE  Above(Ctx[k]) \in Int /\ Above(Ctx[k]) <= cur.base - 1
PROOF
  <1>1. DInv /\ Typed /\ Windows /\ Shape BY DEF RInv, DInv
  <1>2. /\ Len(frames) \in Nat /\ Depth = Len(frames) + 1 /\ Ctx[Depth] = cur
        /\ \A j \in 1 .. Depth : Ctx[j] \in Contexts
    BY <1>1, TheContexts
  <1>3. PICK x, y : x = Ctx[k] /\ y = Ctx[k + 1] OBVIOUS
  <1>4. k \in 1 .. Depth /\ k + 1 \in 1 .. Depth /\ Depth \in 1 .. Depth BY <1>2
  <1>5. x \in Contexts /\ y \in Contexts /\ cur \in Contexts BY <1>2, <1>3, <1>4
  <1>6. /\ x.base \in Nat /\ x.top \in Nat /\ y.base \in Nat /\ cur.base \in Nat
    BY <1>5, ContextFields
  <1>7. Above(x) \in Int BY <1>6 DEF Above
  <1>8. Above(x) < y.base BY <1>1, <1>3 DEF Shape, Separate, Apart
  <1>9. y.base <= cur.base
    <2>1. CASE k + 1 = Depth BY <1>2, <1>3, <1>6, <2>1
    <2>2. CASE k + 1 < Depth BY <1>1, <1>2, <1>3, <1>4, <2>2 DEF Windows
    <2> QED BY <1>2, <1>4, <2>1, <2>2
  <1>10. Above(x) <= cur.base - 1 BY <1>6, <1>7, <1>8, <1>9
  <1> QED BY <1>3, <1>7, <1>10

LEMMA CallersKept ==
  ASSUME RInv, status \notin {"over", "aborted"}, Same(cur.base - 1), NEW k \in 1 .. Len(frames)
  PROVE  Vals(regs', Ctx[k]) = Vals(regs, Ctx[k])
PROOF
  <1>1. DInv /\ Typed BY DEF RInv, DInv
  <1>2. cur \in Contexts /\ Len(frames) \in Nat /\ Depth = Len(frames) + 1 BY <1>1, TheContexts DEF Typed
  <1>3. k \in 1 .. Depth /\ cur.base - 1 \in Int BY <1>2, ContextFields
  <1>4. Above(Ctx[k]) <= cur.base - 1 BY CallersBelow
  <1> QED BY <1>1, <1>3, <1>4, ValsKept

(* A step within the running activation.                                   *)
Change(old, new) ==
  \/ new = old
  \/ Promise!Computed(old, new) \/ Promise!Discarded(old, new)
  \/ Promise!Replaced(old, new) \/ Promise!Gathered(old, new)
  \/ Promise!Returned(old, new) \/ Promise!Refused(old, new)
  \/ ~cur.code.promised

LEMMA InPlace ==
  ASSUME RInv, DInv', status \notin {"over", "aborted"}, frames' = frames, SameCode(cur, cur'),
         Same(cur.base - 1), Change(Vals(regs, cur), Vals(regs', cur'))
  PROVE  Follows
PROOF
  <1>1. DInv /\ Typed /\ frames' \in Seq(Contexts) BY DEF RInv, DInv, Typed
  <1>2. PICK n, m : n = Depth /\ m = Len(frames) OBVIOUS
  <1>3. /\ m \in Nat /\ n = m + 1 /\ Ctx[n] = cur
        /\ Depth' = n /\ Ctx'[n] = cur' /\ \A k \in 1 .. m : Ctx'[k] = Ctx[k]
    BY <1>1, <1>2, TheContexts, Stayed
  <1>4. PICK S : Stack \in Seq(S) BY <1>1, StackFacts
  <1>5. PICK T : Stack' \in Seq(T) BY <1>1, NextStackFacts
  <1>6. /\ Len(Stack) = n /\ \A k \in 1 .. n : Stack[k] = Act(regs, Ctx[k])
        /\ Len(Stack') = n /\ \A k \in 1 .. n : Stack'[k] = Act(regs', Ctx'[k])
    BY <1>1, <1>2, <1>3, StackFacts, NextStackFacts
  <1>7. \A k \in 1 .. m : Stack'[k] = Stack[k]
    <2> TAKE k \in 1 .. m
    <2>1. Vals(regs', Ctx[k]) = Vals(regs, Ctx[k]) BY <1>2, CallersKept
    <2>2. k \in 1 .. n BY <1>3
    <2> QED BY <1>3, <1>6, <2>1, <2>2 DEF Act
  <1>8. PICK old, new : old = Vals(regs, cur) /\ new = Vals(regs', cur') OBVIOUS
  <1>9. n \in 1 .. n BY <1>3
  <1>10. Stack[n] = Act(regs, cur) /\ Stack'[n] = Act(regs', cur') BY <1>3, <1>6, <1>9
  <1>11. /\ Stack[n].vals = old /\ Stack'[n].vals = new
         /\ Stack'[n] = [Stack[n] EXCEPT !.vals = new]
         /\ Stack[n].promised = cur.code.promised
    BY <1>8, <1>10 DEF Act, SameCode
  <1>12. SubSeq(Stack', 1, m) = SubSeq(Stack, 1, m)
    BY <1>3, <1>4, <1>5, <1>6, <1>7, Agree
  <1>13. CASE new = old
    <2>1. Stack'[n] = Stack[n] BY <1>8, <1>10, <1>13 DEF Act, SameCode
    <2>2. \A k \in 1 .. n : Stack'[k] = Stack[k]
      <3> TAKE k \in 1 .. n
      <3>1. k = n \/ k \in 1 .. m BY <1>3
      <3> QED BY <1>7, <2>1, <3>1
    <2>3. Stack' = Stack BY <1>4, <1>5, <1>6, <2>2
    <2> QED BY <2>3 DEF Follows
  <1>14. CASE new # old
    <2>1. /\ Len(Stack') = Len(Stack)
          /\ SubSeq(Stack', 1, Len(Stack) - 1) = SubSeq(Stack, 1, Len(Stack) - 1)
          /\ Stack'[Len(Stack)] = [Stack[Len(Stack)] EXCEPT !.vals = Stack'[Len(Stack)].vals]
      <3>1. Len(Stack) - 1 = m BY <1>3, <1>6
      <3> QED BY <1>6, <1>11, <1>12, <3>1
    <2>2. \/ Promise!Computed(old, new) \/ Promise!Discarded(old, new)
          \/ Promise!Replaced(old, new) \/ Promise!Gathered(old, new)
          \/ Promise!Returned(old, new) \/ Promise!Refused(old, new)
          \/ ~Stack[Len(Stack)].promised
      BY <1>6, <1>8, <1>11, <1>14 DEF Change
    <2>3. /\ old = Stack[Len(Stack)].vals /\ new = Stack'[Len(Stack)].vals
      BY <1>6, <1>11
    <2>4. Promise!Within BY <2>1, <2>2, <2>3, StepsOfStack
    <2> QED BY <2>4 DEF Follows, Promise!Next
  <1> QED BY <1>13, <1>14

LEMMA SameFrom ==
  ASSUME NEW limit \in Int, NEW least \in Int, least <= limit, Same(limit)
  PROVE  Same(least)
PROOF
  <1>1. ASSUME NEW a \in 0 .. NumRegs - 1, a < least PROVE regs'[a] = regs[a]
    <2>1. NumRegs \in Nat BY Sizes
    <2>2. a < limit BY <1>1, <2>1
    <2> QED BY <2>2 DEF Same
  <1> QED BY <1>1 DEF Same

(* ... that leaves its values as they are, ...                             *)
LEMMA Stutters ==
  ASSUME RInv, DInv', status \notin {"over", "aborted"}, frames' = frames, SameCode(cur, cur'),
         Same(cur.base - 1), cur'.top = cur.top, cur'.code.at = "leaving" <=> cur.code.at = "leaving",
         NEW limit \in Int, Above(cur) <= limit, Same(limit)
  PROVE  Follows
PROOF
  <1>1. DInv /\ Typed BY DEF RInv, DInv
  <1>2. Ctx[Depth] = cur /\ Depth \in 1 .. Depth BY <1>1, TheContexts
  <1>3. Vals(regs', cur) = Vals(regs, cur) BY <1>1, <1>2, ValsKept
  <1>4. Vals(regs', cur') = Vals(regs', cur) BY DEF Vals, SameCode
  <1> QED BY <1>3, <1>4, InPlace DEF Change

(* ... computes a value ...                                                *)
LEMMA Grows ==
  ASSUME RInv, DInv', status \notin {"over", "aborted"}, frames' = frames, SameCode(cur, cur'),
         cur.code.at # "leaving", cur'.code.at # "leaving", cur'.top = cur.top + 1,
         Same(cur.base + cur.top)
  PROVE  Follows
PROOF
  <1>1. DInv /\ Typed /\ Typed' BY DEF RInv, DInv
  <1>2. Ctx[Depth] = cur /\ Depth \in 1 .. Depth /\ cur \in Contexts /\ cur' \in Contexts
    BY <1>1, TheContexts DEF Typed
  <1>3. cur.base \in Nat /\ cur.top \in Nat BY <1>2, ContextFields
  <1>4. cur.base + cur.top \in Int /\ cur.base - 1 \in Int /\ cur.base - 1 <= cur.base + cur.top
        /\ Above(cur) <= cur.base + cur.top
    BY <1>3 DEF Above
  <1>5. Same(cur.base - 1) BY <1>4, SameFrom
  <1>6. Vals(regs', cur) = Vals(regs, cur) BY <1>1, <1>2, <1>4, ValsKept
  <1>7. PICK old, new, t : old = Vals(regs, cur) /\ new = Vals(regs', cur') /\ t = cur.top OBVIOUS
  <1>8. PICK S : old \in Seq(S) BY <1>2, <1>7, ValsSeq
  <1>9. PICK T : new \in Seq(T) BY <1>2, <1>7, ValsSeq
  <1>10. /\ Len(old) = t /\ \A i \in 1 .. t : old[i] = regs'[cur.base + i - 1]
    BY <1>2, <1>6, <1>7, ValsSeq
  <1>11. /\ Len(new) = t + 1 /\ \A i \in 1 .. t + 1 : new[i] = regs'[cur.base + i - 1]
    <2>1. /\ Len(new) = cur'.top /\ \A i \in 1 .. cur'.top : new[i] = regs'[cur'.base + i - 1]
      BY <1>2, <1>7, ValsSeq
    <2> QED BY <1>7, <2>1 DEF SameCode
  <1>12. \A i \in 1 .. t : new[i] = old[i]
    <2>1. PICK b, file : b = cur.base /\ file = regs' OBVIOUS
    <2>2. /\ t \in Nat /\ (\A i \in 1 .. t : old[i] = file[b + i - 1])
          /\ \A i \in 1 .. t + 1 : new[i] = file[b + i - 1]
      BY <1>3, <1>7, <1>10, <1>11, <2>1
    <2> QED BY ONLY <2>2
  <1>13. SubSeq(new, 1, Len(old)) = old
    <2>1. SubSeq(new, 1, t) = SubSeq(old, 1, t)
      BY <1>3, <1>7, <1>8, <1>9, <1>10, <1>11, <1>12, Agree
    <2>2. SubSeq(old, 1, t) = old BY <1>8, <1>10
    <2> QED BY <1>10, <2>1, <2>2
  <1>14. Promise!Computed(old, new) BY <1>10, <1>11, <1>13 DEF Promise!Computed, Promise!First
  <1> QED BY <1>5, <1>7, <1>14, InPlace DEF Change

(* ... or discards some.                                                   *)
LEMMA Shrinks ==
  ASSUME RInv, DInv', status \notin {"over", "aborted"}, frames' = frames, SameCode(cur, cur'),
         cur.code.at # "leaving", cur'.code.at # "leaving", cur'.top <= cur.top,
         Same(cur.base + cur'.top)
  PROVE  Follows
PROOF
  <1>1. DInv /\ Typed /\ Typed' BY DEF RInv, DInv
  <1>2. Ctx[Depth] = cur /\ Depth \in 1 .. Depth /\ cur \in Contexts /\ cur' \in Contexts
    BY <1>1, TheContexts DEF Typed
  <1>3. cur.base \in Nat /\ cur.top \in Nat /\ cur'.top \in Nat BY <1>2, ContextFields
  <1>4. cur.base + cur'.top \in Int /\ cur.base - 1 \in Int /\ cur.base - 1 <= cur.base + cur'.top
    BY <1>3
  <1>5. Same(cur.base - 1) BY <1>4, SameFrom
  <1>6. PICK old, new, t, u : old = Vals(regs, cur) /\ new = Vals(regs', cur') /\ t = cur.top /\ u = cur'.top
    OBVIOUS
  <1>7. PICK S : old \in Seq(S) BY <1>2, <1>6, ValsSeq
  <1>8. PICK T : new \in Seq(T) BY <1>2, <1>6, ValsSeq
  <1>9. /\ Len(old) = t /\ \A i \in 1 .. t : old[i] = regs[cur.base + i - 1]
    BY <1>2, <1>6, ValsSeq
  <1>10. /\ Len(new) = u /\ \A i \in 1 .. u : new[i] = regs'[cur.base + i - 1]
    <2>1. /\ Len(new) = cur'.top /\ \A i \in 1 .. cur'.top : new[i] = regs'[cur'.base + i - 1]
      BY <1>2, <1>6, ValsSeq
    <2> QED BY <1>6, <2>1 DEF SameCode
  <1>11. \A i \in 1 .. u : new[i] = old[i]
    <2> TAKE i \in 1 .. u
    <2>1. PICK b : b = cur.base OBVIOUS
    <2>2. u \in Nat /\ t \in Nat /\ u <= t /\ b \in Nat BY <1>3, <1>6, <2>1
    <2>3. i \in 1 .. t /\ i - 1 \in Nat /\ i - 1 < t /\ b + (i - 1) = b + i - 1 /\ b + i - 1 < b + u
      BY <2>2
    <2>4. t < Width /\ Width \in Nat BY <1>1, <1>6, TopFacts, Sizes DEF DInv
    <2>5. i - 1 < Width BY <2>2, <2>3, <2>4
    <2>6. b + (i - 1) \in 0 .. NumRegs - 1
      <3>1. Reg(i - 1) \in 0 .. NumRegs - 1 BY <1>1, <2>3, <2>5, InThisWindow DEF DInv
      <3> QED BY <2>1, <3>1 DEF Reg
    <2>7. regs'[b + i - 1] = regs[b + i - 1] BY <1>6, <2>1, <2>3, <2>6 DEF Same
    <2> QED BY <1>9, <1>10, <2>1, <2>3, <2>7
  <1>12. SubSeq(new, 1, u) = SubSeq(old, 1, u)
    BY <1>3, <1>6, <1>7, <1>8, <1>9, <1>10, <1>11, Agree
  <1>13. SubSeq(new, 1, u) = new BY <1>8, <1>10
  <1>14. CASE u < t
    <2>1. Promise!Discarded(old, new)
      BY <1>9, <1>10, <1>12, <1>13, <1>14 DEF Promise!Discarded, Promise!First
    <2> QED BY <1>5, <1>6, <2>1, InPlace DEF Change
  <1>15. CASE u = t
    <2>1. SubSeq(old, 1, u) = old BY <1>7, <1>9, <1>15
    <2>2. new = old BY <1>12, <1>13, <2>1
    <2> QED BY <1>5, <1>6, <2>2, InPlace DEF Change
  <1> QED BY <1>3, <1>6, <1>14, <1>15
-----------------------------------------------------------------------------
(* Code: loads, fields, blocks and what comes before the body.             *)

LEMMA WroteOne ==
  ASSUME Typed, NEW a \in Int, NEW v, regs' = [regs EXCEPT ![a] = v], NEW limit \in Int, limit <= a
  PROVE  Same(limit)
PROOF
  <1>1. ASSUME NEW b \in 0 .. NumRegs - 1, b < limit PROVE regs'[b] = regs[b]
    <2>1. NumRegs \in Nat BY Sizes
    <2>2. b # a BY <1>1, <2>1
    <2>3. b \in DOMAIN regs BY DEF Typed
    <2> QED BY <2>2, <2>3
  <1> QED BY <1>1 DEF Same

LEMMA WroteNone ==
  ASSUME regs' = regs, NEW limit
  PROVE  Same(limit)
PROOF
  BY DEF Same

LEMMA TopOnly ==
  ASSUME NEW x \in Contexts, NEW t \in Nat, NEW y, y = [x EXCEPT !.top = t]
  PROVE  SameCode(x, y) /\ y.code = x.code /\ y.top = t /\ y.base = x.base
PROOF
  <1>1. Alike(x, y) /\ y.top = t BY TopMoved
  <1> QED BY <1>1 DEF Alike, SameCode

LEMMA CodeFacts ==
  ASSUME RInv, Executing
  PROVE  /\ DInv /\ Typed /\ Inv /\ Windows /\ Shape /\ status \notin {"over", "aborted"}
         /\ cur \in Contexts /\ cur.base \in Nat /\ cur.top \in Nat
         /\ Depth \in 1 .. Depth /\ Ctx[Depth] = cur
         /\ \A t \in Nat : Reg(t) \in Int /\ Reg(t) = cur.base + t
PROOF
  <1>1. DInv /\ Shape BY DEF RInv
  <1>2. Typed /\ Inv /\ Windows /\ Entries /\ Links /\ Ends BY <1>1 DEF DInv
  <1>3. status \notin {"over", "aborted"} BY <1>2, CodeAlone
  <1>4. cur \in Contexts /\ Depth \in 1 .. Depth /\ Ctx[Depth] = cur BY <1>2, TheContexts DEF Typed
  <1>5. cur.base \in Nat /\ cur.top \in Nat BY <1>4, ContextFields
  <1>6. \A t \in Nat : Reg(t) \in Int /\ Reg(t) = cur.base + t BY <1>5 DEF Reg
  <1> QED BY <1>1, <1>2, <1>3, <1>4, <1>5, <1>6

LEMMA LoadFollows ==
  ASSUME RInv, NEW v \in Loadable, Load(v)
  PROVE  RInv' /\ Follows
PROOF
  <1>1. /\ Executing /\ cur.code.at \in {"script", "default", "body"}
        /\ regs' = [regs EXCEPT ![Reg(cur.top)] = v] /\ cur' = [cur EXCEPT !.top = cur.top + 1]
        /\ UNCHANGED <<frames, native, status>>
    BY DEF Load, At
  <1>2. /\ DInv /\ Typed /\ status \notin {"over", "aborted"}
        /\ cur \in Contexts /\ cur.base \in Nat /\ cur.top \in Nat
        /\ Reg(cur.top) \in Int /\ Reg(cur.top) = cur.base + cur.top
    BY <1>1, CodeFacts
  <1>3. DInv' BY <1>2, LoadKeeps
  <1>4. SameCode(cur, cur') /\ cur'.code = cur.code /\ cur'.top = cur.top + 1
    <2>1. cur.top + 1 \in Nat BY <1>2
    <2> QED BY <1>1, <1>2, <2>1, TopOnly
  <1>5. RInv' BY <1>1, <1>3, <1>4, CodeShape
  <1>6. Same(cur.base + cur.top)
    <2>1. PICK a : a = Reg(cur.top) OBVIOUS
    <2>2. a \in Int /\ a <= a /\ a = cur.base + cur.top BY <1>2, <2>1
    <2>3. regs' = [regs EXCEPT ![a] = v] BY <1>1, <2>1
    <2> QED BY <1>2, <2>2, <2>3, WroteOne
  <1>7. Follows BY <1>1, <1>2, <1>3, <1>4, <1>6, Grows
  <1> QED BY <1>5, <1>7

LEMMA DiscardFollows ==
  ASSUME RInv, Discard
  PROVE  RInv' /\ Follows
PROOF
  <1>1. /\ At({"script", "default", "body"}) /\ Executing /\ cur.code.at \in {"script", "default", "body"}
        /\ cur.top - 1 \in Temporaries /\ cur' = [cur EXCEPT !.top = cur.top - 1]
        /\ UNCHANGED <<regs, frames, native, status>>
    BY DEF Discard, At
  <1>2. /\ DInv /\ Typed /\ status \notin {"over", "aborted"}
        /\ cur \in Contexts /\ cur.base \in Nat /\ cur.top \in Nat
    BY <1>1, CodeFacts
  <1>3. DInv' BY <1>2, DiscardKeeps
  <1>4. cur.top - 1 \in Nat /\ cur.top - 1 <= cur.top BY <1>1, <1>2, TemporaryFacts
  <1>5. SameCode(cur, cur') /\ cur'.code = cur.code /\ cur'.top = cur.top - 1
    BY <1>1, <1>2, <1>4, TopOnly
  <1>6. RInv' BY <1>1, <1>3, <1>5, CodeShape
  <1>7. Same(cur.base + cur'.top) BY <1>1, WroteNone
  <1>8. Follows BY <1>1, <1>2, <1>3, <1>4, <1>5, <1>7, Shrinks
  <1> QED BY <1>6, <1>8

LEMMA SetFieldFollows ==
  ASSUME RInv, SetField
  PROVE  RInv' /\ Follows
PROOF
  <1>1. /\ At({"script", "default", "body"}) /\ Executing /\ cur.code.at \in {"script", "default", "body"}
        /\ cur.top - 2 \in Temporaries /\ cur' = [cur EXCEPT !.top = cur.top - 2]
        /\ UNCHANGED <<regs, frames, native, status>>
    BY DEF SetField, At
  <1>2. /\ DInv /\ Typed /\ status \notin {"over", "aborted"}
        /\ cur \in Contexts /\ cur.base \in Nat /\ cur.top \in Nat
    BY <1>1, CodeFacts
  <1>3. DInv' BY <1>2, SetFieldKeeps
  <1>4. cur.top - 2 \in Nat /\ cur.top - 2 <= cur.top BY <1>1, <1>2, TemporaryFacts
  <1>5. SameCode(cur, cur') /\ cur'.code = cur.code /\ cur'.top = cur.top - 2
    BY <1>1, <1>2, <1>4, TopOnly
  <1>6. RInv' BY <1>1, <1>3, <1>5, CodeShape
  <1>7. Same(cur.base + cur'.top) BY <1>1, WroteNone
  <1>8. Follows BY <1>1, <1>2, <1>3, <1>4, <1>5, <1>7, Shrinks
  <1> QED BY <1>6, <1>8

LEMMA EnterScopeFollows ==
  ASSUME RInv, EnterScope
  PROVE  RInv' /\ Follows
PROOF
  <1>1. /\ Executing /\ cur.code.at \in {"script", "body"}
        /\ cur' = [cur EXCEPT !.blocks = Append(cur.blocks, [at |-> cur.top, since |-> Len(insts)])]
        /\ UNCHANGED <<regs, frames, native, status>>
    BY DEF EnterScope, At
  <1>2. /\ DInv /\ Typed /\ status \notin {"over", "aborted"}
        /\ cur \in Contexts /\ cur.base \in Nat /\ cur.top \in Nat
    BY <1>1, CodeFacts
  <1>3. DInv' BY <1>2, EnterScopeKeeps
  <1>4. SameCode(cur, cur') /\ cur'.code = cur.code /\ cur'.top = cur.top
    BY <1>1, <1>2 DEF Contexts, SameCode
  <1>5. RInv' BY <1>1, <1>3, <1>4, CodeShape
  <1>6. Same(cur.base + cur'.top) BY <1>1, WroteNone
  <1>7. cur'.top <= cur.top BY <1>2, <1>4
  <1>8. Follows BY <1>1, <1>2, <1>3, <1>4, <1>6, <1>7, Shrinks
  <1> QED BY <1>5, <1>8

LEMMA LoadNameFollows ==
  ASSUME RInv, LoadName
  PROVE  RInv' /\ Follows
PROOF
  <1>1. /\ Executing /\ cur.code.at = "entry"
        /\ regs' = [regs EXCEPT ![Reg(cur.top)] = Datum(Reg(cur.top))]
        /\ cur' = [Place("body") EXCEPT !.top = cur.top + 1, !.low = cur.top + 1]
        /\ UNCHANGED <<frames, native, status>>
    BY DEF LoadName, At, Place
  <1>2. /\ DInv /\ Typed /\ status \notin {"over", "aborted"}
        /\ cur \in Contexts /\ cur.base \in Nat /\ cur.top \in Nat
        /\ Reg(cur.top) \in Int /\ Reg(cur.top) = cur.base + cur.top
    BY <1>1, CodeFacts
  <1>3. DInv' BY <1>2, LoadNameKeeps
  <1>4. SameCode(cur, cur') /\ cur'.code.at = "body" /\ cur'.top = cur.top + 1
    BY <1>1, <1>2 DEF Contexts, SameCode, Place
  <1>5. RInv' BY <1>1, <1>3, <1>4, CodeShape
  <1>6. Same(cur.base + cur.top)
    <2>1. PICK a, v : a = Reg(cur.top) /\ v = Datum(Reg(cur.top)) OBVIOUS
    <2>2. a \in Int /\ a <= a /\ a = cur.base + cur.top BY <1>2, <2>1
    <2>3. regs' = [regs EXCEPT ![a] = v] BY <1>1, <2>1
    <2> QED BY <1>2, <2>2, <2>3, WroteOne
  <1>7. Follows BY <1>1, <1>2, <1>3, <1>4, <1>6, Grows
  <1> QED BY <1>5, <1>7

(* The last value is replaced.                                             *)
LEMMA Replaces ==
  ASSUME RInv, DInv', At({"script", "default", "body"}), cur.top - 1 \in Temporaries,
         UNCHANGED <<cur, frames, native, status>>,
         NEW w, regs' = [regs EXCEPT ![Reg(cur.top - 1)] = w],
         \/ Latest.t = "callee" /\ w.t = "inst"
         \/ Latest.t = "inst" /\ w.t = "method" /\ w.got = Latest.id
  PROVE  RInv' /\ Follows
PROOF
  <1>1. Executing /\ cur.code.at \in {"script", "default", "body"} BY DEF At
  <1>2. /\ DInv /\ Typed /\ status \notin {"over", "aborted"}
        /\ cur \in Contexts /\ cur.base \in Nat /\ cur.top \in Nat
        /\ \A t \in Nat : Reg(t) \in Int /\ Reg(t) = cur.base + t
    BY <1>1, CodeFacts
  <1>3. SameCode(cur, cur') BY DEF SameCode
  <1>4. RInv' BY <1>1, <1>3, CodeShape
  <1>5. PICK t, p, a : t = cur.top /\ p = cur.top - 1 /\ a = Reg(cur.top - 1) OBVIOUS
  <1>6. p \in Nat /\ a \in DOMAIN regs BY <1>2, <1>5, TemporaryFacts
  <1>7. t \in Nat /\ t = p + 1 /\ a = cur.base + p /\ a \in Int BY <1>2, <1>5, <1>6
  <1>8. Same(cur.base - 1)
    <2>1. cur.base - 1 \in Int /\ cur.base - 1 <= a BY <1>2, <1>6, <1>7
    <2>2. regs' = [regs EXCEPT ![a] = w] BY <1>5
    <2> QED BY <1>2, <1>7, <2>1, <2>2, WroteOne
  <1>9. PICK old, new : old = Vals(regs, cur) /\ new = Vals(regs', cur) OBVIOUS
  <1>10. PICK S : old \in Seq(S) BY <1>2, <1>9, ValsSeq
  <1>11. PICK T : new \in Seq(T) BY <1>2, <1>9, ValsSeq
  <1>12. /\ Len(old) = t /\ \A i \in 1 .. t : old[i] = regs[cur.base + i - 1]
         /\ Len(new) = t /\ \A i \in 1 .. t : new[i] = regs'[cur.base + i - 1]
    <2>1. cur \in Contexts /\ cur.code.at # "leaving" /\ t = cur.top BY <1>1, <1>2, <1>5
    <2>2. Len(old) = t /\ \A i \in 1 .. t : old[i] = regs[cur.base + i - 1] BY <1>9, <2>1, ValsSeq
    <2>3. Len(new) = t /\ \A i \in 1 .. t : new[i] = regs'[cur.base + i - 1] BY <1>9, <2>1, ValsSeq
    <2> QED BY <2>2, <2>3
  <1>13. cur.base + t - 1 = a /\ t \in 1 .. t
    <2>1. PICK b : b = cur.base OBVIOUS
    <2>2. b \in Nat /\ p \in Nat /\ t = p + 1 /\ a = b + p BY <1>2, <1>6, <1>7, <2>1
    <2>3. b + t - 1 = a /\ t \in 1 .. t BY ONLY <2>2
    <2> QED BY <2>1, <2>3
  <1>14. old[t] = Latest /\ new[t] = w
    <2>1. regs'[a] = w BY <1>5, <1>6
    <2> QED BY <1>5, <1>12, <1>13, <2>1 DEF Latest
  <1>15. \A i \in 1 .. p : new[i] = old[i]
    <2> TAKE i \in 1 .. p
    <2>1. PICK b : b = cur.base + i - 1 OBVIOUS
    <2>2. i \in 1 .. t /\ i - 1 \in Nat /\ i - 1 < t /\ b = cur.base + (i - 1) /\ b # a
      BY <1>2, <1>6, <1>7, <2>1
    <2>3. t < Width /\ Width \in Nat BY <1>2, <1>5, TopFacts, Sizes DEF DInv
    <2>4. i - 1 < Width BY <1>7, <2>2, <2>3
    <2>5. b \in DOMAIN regs
      <3>1. Reg(i - 1) \in 0 .. NumRegs - 1 BY <1>2, <2>2, <2>4, InThisWindow DEF DInv
      <3> QED BY <1>2, <2>2, <3>1 DEF Typed
    <2>6. regs'[b] = regs[b] BY <1>5, <2>2, <2>5
    <2> QED BY <1>12, <2>1, <2>2, <2>6
  <1>16. SubSeq(new, 1, p) = SubSeq(old, 1, p)
    BY <1>6, <1>7, <1>10, <1>11, <1>12, <1>15, Agree
  <1>17. Promise!Replaced(old, new)
    <2>1. Len(old) > 0 /\ Len(new) = Len(old) /\ Len(new) - 1 = p /\ Len(old) - 1 = p
      BY <1>6, <1>7, <1>12
    <2> QED BY <1>12, <1>14, <1>16, <2>1 DEF Promise!Replaced, Promise!First
  <1>18. new = Vals(regs', cur') BY <1>9
  <1>19. Follows BY <1>2, <1>3, <1>8, <1>9, <1>17, <1>18, InPlace DEF Change
  <1> QED BY <1>4, <1>19

LEMMA GetMethodFollows ==
  ASSUME RInv, GetMethod
  PROVE  RInv' /\ Follows
PROOF
  <1>1. PICK v, w : v = Latest /\ w = MethodV(insts[Latest.id].of, Latest.id) OBVIOUS
  <1>2. /\ At({"script", "default", "body"}) /\ cur.top - 1 \in Temporaries
        /\ UNCHANGED <<cur, frames, native, status>>
        /\ regs' = [regs EXCEPT ![Reg(cur.top - 1)] = w] /\ v.t = "inst"
    BY <1>1 DEF GetMethod, IsInst
  <1>3. w.t = "method" /\ w.got = v.id BY <1>1 DEF MethodV
  <1>4. DInv' BY GetMethodKeeps DEF RInv
  <1> QED BY <1>1, <1>2, <1>3, <1>4, Replaces

LEMMA BeginLiteralFollows ==
  ASSUME RInv, NEW k \in Types, BeginLiteral(k)
  PROVE  RInv' /\ Follows
PROOF
  <1>1. PICK w : w = InstV(Len(insts) + 1) OBVIOUS
  <1>2. /\ At({"script", "default", "body"}) /\ cur.top - 1 \in Temporaries
        /\ UNCHANGED <<cur, frames, native, status>>
        /\ regs' = [regs EXCEPT ![Reg(cur.top - 1)] = w] /\ Latest = Callee
    BY <1>1 DEF BeginLiteral
  <1>3. w.t = "inst" /\ Latest.t = "callee" BY <1>1, <1>2 DEF InstV, Callee
  <1>4. DInv' BY BeginLiteralKeeps DEF RInv
  <1> QED BY <1>2, <1>3, <1>4, Replaces

-----------------------------------------------------------------------------
(* Code that leaves something to a C++ function.                           *)

LEMMA EndLiteralFollows ==
  ASSUME RInv, NEW p \in OpenLiterals, NEW given \in BOOLEAN, EndLiteral(p, given)
  PROVE  RInv' /\ Follows
PROOF
  <1>1. PICK n : n = Make(regs[Reg(p)].id, p + 1) OBVIOUS
  <1>2. /\ At({"script", "default", "body"}) /\ Executing
        /\ cur.code.at \in {"script", "default", "body"}
        /\ cur.top = p + (IF given THEN 3 ELSE 1)
        /\ native' = Append(native, n) /\ cur' = [cur EXCEPT !.top = p]
        /\ UNCHANGED <<regs, frames, status>>
    BY <1>1 DEF EndLiteral, At
  <1>3. /\ DInv /\ Typed /\ status \notin {"over", "aborted"} /\ cur \in Contexts
    BY <1>2, CodeFacts
  <1>4. p \in BlockLowest .. cur.top - 1 BY DEF OpenLiterals
  <1>5. p \in Nat /\ p < cur.top /\ cur.top \in Nat BY <1>2, <1>3, <1>4, AboveBlocks, TopFacts DEF DInv
  <1>6. DInv' BY <1>3, EndLiteralKeeps
  <1>7. SameCode(cur, cur') /\ cur'.code = cur.code /\ cur'.top = p BY <1>2, <1>3, <1>5, TopOnly
  <1>8. n.op # "call" /\ Fits(n)'
    <2>1. n.op = "make" /\ n.start = p + 1 /\ n.depth = Depth BY <1>1 DEF Make, Depth
    <2>2. Ctx'[Depth] = cur' BY <1>2, <1>3, Stayed
    <2>3. n.start - 1 = p BY <1>5, <2>1
    <2>4. Ctx'[n.depth].top = n.start - 1 BY <1>7, <2>1, <2>2, <2>3
    <2> QED BY <2>1, <2>4 DEF Fits
  <1>9. RInv' BY <1>2, <1>6, <1>7, <1>8, CodeShape
  <1>10. Same(cur.base + cur'.top) BY <1>2, WroteNone
  <1>11. cur'.top <= cur.top BY <1>5, <1>7
  <1>12. Follows BY <1>2, <1>3, <1>6, <1>7, <1>10, <1>11, Shrinks
  <1> QED BY <1>9, <1>12

LEMMA LeaveScopeFollows ==
  ASSUME RInv, NEW then \in {"exit", "iterate"}, LeaveScope(then)
  PROVE  RInv' /\ Follows
PROOF
  <1>1. PICK n, t : n = DropTo(Last(scopes), then) /\ t = Last(cur.blocks).at OBVIOUS
  <1>2. /\ At({"script", "body"}) /\ Executing /\ cur.code.at \in {"script", "body"} /\ cur.blocks # <<>>
        /\ native' = Append(native, n) /\ cur' = [cur EXCEPT !.top = t]
        /\ UNCHANGED <<regs, frames, status>>
    BY <1>1 DEF LeaveScope, At
  <1>3. /\ DInv /\ Typed /\ Windows /\ status \notin {"over", "aborted"} /\ cur \in Contexts
        /\ cur.base \in Nat
    BY <1>2, CodeFacts
  <1>4. DInv' BY <1>3, LeaveScopeKeeps
  <1>5. PICK b : b = Len(cur.blocks) OBVIOUS
  <1>6. b \in DOMAIN cur.blocks /\ t = cur.blocks[b].at
    <2>1. /\ cur.blocks \in Seq([at : Nat, since : Nat]) BY <1>3, ContextFields
    <2>2. PICK B, S : B = cur.blocks /\ S = [at : Nat, since : Nat] OBVIOUS
    <2>3. B \in Seq(S) /\ B # <<>> BY <1>2, <2>1, <2>2
    <2>4. Len(B) \in DOMAIN B /\ Last(B) = B[Len(B)] BY <2>3 DEF Last
    <2> QED BY <1>1, <1>5, <2>2, <2>4
  <1>7. t \in Nat /\ t <= cur.top BY <1>3, <1>6, TopFacts
  <1>8. SameCode(cur, cur') /\ cur'.code = cur.code /\ cur'.top = t BY <1>2, <1>3, <1>7, TopOnly
  <1>9. n.op # "call" /\ Fits(n)'
    <2>1. /\ n.op = "drop" /\ n.limit = Last(scopes) /\ n.depth = Depth /\ n.then = then
      BY <1>1 DEF DropTo, Depth
    <2>2. Ctx'[Depth] = cur' BY <1>2, <1>3, Stayed
    <2>3. /\ Len(native') \in DOMAIN native' /\ native'[Len(native')] = n
      BY <1>2, <1>3, OneMore DEF DInv
    <2>4. \E m : m = n /\ NativeEntry(m)' BY <1>4, <2>3 DEF DInv, Entries
    <2>5. NativeEntry(n)' BY <2>4
    <2>6. n.limit \in Nat /\ \A c \in DOMAIN cur'.blocks : n.limit >= cur'.base + cur'.blocks[c].at
      BY <2>1, <2>2, <2>5 DEF NativeEntry, CallOK, MakeOK, DropOK, DropsIn
    <2>7. cur'.blocks = cur.blocks BY <1>2, <1>3, <1>7, TopMoved DEF Alike
    <2>8. n.limit >= cur.base + t BY <1>6, <1>8, <2>6, <2>7 DEF SameCode
    <2>9. Above(cur') <= n.limit
      <3>1. Above(cur') = 0 \/ Above(cur') = cur.base + t
        BY <1>2, <1>8 DEF Above, SameCode
      <3> QED BY <1>3, <1>7, <2>6, <2>8, <3>1
    <2> QED BY <2>1, <2>2, <2>9 DEF Fits, Above
  <1>10. RInv' BY <1>2, <1>4, <1>8, <1>9, CodeShape
  <1>11. Same(cur.base + cur'.top) BY <1>2, WroteNone
  <1>12. cur'.top <= cur.top BY <1>7, <1>8
  <1>13. Follows BY <1>2, <1>3, <1>4, <1>8, <1>11, <1>12, Shrinks
  <1> QED BY <1>10, <1>13

(* OP_RETURN: the slot of the callee is above the caller's values.         *)
LEMMA ReturnFollows ==
  ASSUME RInv, NEW v \in Returnable, Return(v)
  PROVE  RInv' /\ Follows
PROOF
  <1>1. PICK n, a : n = DropTo(cur.base, "return") /\ a = cur.base - 1 OBVIOUS
  <1>2. /\ Executing /\ cur.code.at = "body" /\ regs' = [regs EXCEPT ![a] = v]
        /\ native' = Append(native, n)
        /\ cur' = [Place("leaving") EXCEPT !.top = 0, !.low = 0, !.blocks = <<>>]
        /\ UNCHANGED <<frames, status>>
    BY <1>1 DEF Return, At
  <1>3. /\ DInv /\ Typed /\ Windows /\ status \notin {"over", "aborted"} /\ cur \in Contexts
        /\ cur.base \in Nat /\ cur.top \in Nat
    BY <1>2, CodeFacts
  <1>4. DInv' BY <1>3, ReturnKeeps
  <1>5. /\ SameCode(cur, cur') /\ cur'.code.at = "leaving"
    BY <1>2, <1>3 DEF Contexts, SameCode, Place
  <1>6. n.op # "call" /\ Fits(n)'
    <2>1. n.op = "drop" /\ n.limit = cur.base /\ n.depth = Depth BY <1>1 DEF DropTo, Depth
    <2>2. Ctx'[Depth] = cur' BY <1>2, <1>3, Stayed
    <2>3. Above(cur') <= n.limit BY <1>3, <1>5, <2>1 DEF Above, SameCode
    <2> QED BY <2>1, <2>2, <2>3 DEF Fits, Above
  <1>7. RInv' BY <1>2, <1>4, <1>5, <1>6, CodeShape
  <1>8. a \in DOMAIN regs /\ a \in Int
    <2>1. Laid(Depth, cur) /\ Depth \in 1 .. MaxDepth + 1 BY <1>3, LaidHere, TheContexts
    <2>2. Depth > 1 BY <1>2, <2>1, Sizes DEF Laid
    <2>3. a \in 0 .. NumRegs - 1 BY <1>1, <1>3, <2>2, InThisWindow
    <2> QED BY <1>3, <2>3, Sizes DEF Typed
  <1>9. Same(cur.base - 1)
    <2>1. cur.base - 1 \in Int /\ cur.base - 1 <= a BY <1>1, <1>3, <1>8
    <2> QED BY <1>2, <1>3, <1>8, <2>1, WroteOne
  <1>10. PICK old, new : old = Vals(regs, cur) /\ new = Vals(regs', cur') OBVIOUS
  <1>11. new = <<v>>
    <2>1. regs'[a] = v BY <1>2, <1>8
    <2>2. new = <<regs'[cur'.base - 1]>> BY <1>5, <1>10 DEF Vals
    <2> QED BY <1>1, <1>5, <2>1, <2>2 DEF SameCode
  <1>12. Promise!Returned(old, new)
    <2>1. CASE v = Void BY <1>11, <2>1 DEF Promise!Returned, Void
    <2>2. CASE cur.top > cur.low /\ v = Latest
      <3>1. cur.low \in Nat BY <1>3, ContextFields
      <3>2. PICK t : t = cur.top OBVIOUS
      <3>3. t \in Nat /\ t > 0 BY <1>3, <2>2, <3>1, <3>2
      <3>4. Len(old) = t /\ \A i \in 1 .. t : old[i] = regs[cur.base + i - 1]
        BY <1>2, <1>3, <1>10, <3>2, ValsSeq
      <3>5. old[t] = regs[cur.base + t - 1] /\ cur.base + t - 1 = cur.base + (t - 1)
        BY <1>3, <3>3, <3>4
      <3>6. v = old[t] BY <2>2, <3>2, <3>5 DEF Latest, Reg
      <3> QED BY <1>11, <3>3, <3>4, <3>6 DEF Promise!Returned
    <2> QED BY <2>1, <2>2 DEF Returnable
  <1>13. Follows BY <1>2, <1>3, <1>4, <1>5, <1>9, <1>10, <1>12, InPlace DEF Change
  <1> QED BY <1>7, <1>13

(* OP_VAR_ARGS.                                                            *)
LEMMA VarArgsFollows ==
  ASSUME RInv, VarArgs
  PROVE  RInv' /\ Follows
PROOF
  <1>1. PICK r, w : /\ r = cur.code.fun.max + cur.code.self
                    /\ w = ListV(SubSeq([i \in 1 .. args |-> regs[Reg(i - 1)]], r + 1, args))
    OBVIOUS
  <1>2. /\ Executing /\ cur.code.at = "gather"
        /\ regs' = [regs EXCEPT ![Reg(r)] = w] /\ cur' = [Place("entry") EXCEPT !.top = r + 1]
        /\ UNCHANGED <<frames, native, status>>
    BY <1>1 DEF VarArgs, At
  <1>3. /\ DInv /\ Typed /\ Windows /\ Shape /\ status \notin {"over", "aborted"} /\ cur \in Contexts
        /\ cur.base \in Nat /\ cur.top \in Nat /\ Depth \in 1 .. Depth
        /\ \A t \in Nat : Reg(t) \in Int /\ Reg(t) = cur.base + t
    BY <1>2, CodeFacts
  <1>4. DInv' BY <1>3, VarArgsKeeps
  <1>5. /\ SameCode(cur, cur') /\ cur'.code.at = "entry" /\ cur'.top = r + 1
    BY <1>2, <1>3 DEF Contexts, SameCode, Place
  <1>6. RInv' BY <1>2, <1>4, <1>5, CodeShape
  <1>7. r \in Nat /\ r + 1 < Width /\ r < Width /\ cur.code.self \in 0 .. 1 /\ cur.code.fun.max \in Nat
    <2>1. Laid(Depth, cur) /\ Depth \in 1 .. MaxDepth + 1 BY <1>3, LaidHere, TheContexts
    <2>2. Depth > 1 BY <1>2, <2>1, Sizes DEF Laid
    <2>3. cur.code.fun \in Callables BY <2>1, <2>2 DEF Laid
    <2>4. cur.code.self \in 0 .. 1 /\ cur.code.fun.max \in Nat BY <1>3, <2>3, ContextFields, CallableFields
    <2>5. r \in Nat BY <1>1, <2>4
    <2>6. Typed' /\ Windows' BY <1>4 DEF DInv
    <2>7. cur' \in Contexts /\ Laid(Depth, cur')
      <3>1. Depth' = Depth /\ Ctx'[Depth] = cur' BY <1>2, <1>3, Stayed
      <3>2. \A k \in 1 .. Depth' : Laid(k, Ctx'[k]) BY <2>6 DEF Windows, Laid
      <3> QED BY <1>3, <2>6, <3>1, <3>2 DEF Typed
    <2>8. r + 1 < Width BY <1>5, <2>7 DEF Laid
    <2> QED BY <2>4, <2>5, <2>8, Sizes
  <1>8. PICK a : a = Reg(r) OBVIOUS
  <1>9. a \in Int /\ a = cur.base + r /\ a \in DOMAIN regs
    BY <1>3, <1>7, <1>8, InThisWindow DEF Typed
  <1>10. regs' = [regs EXCEPT ![a] = w] BY <1>2, <1>8
  <1>11. Same(a) /\ Same(cur.base - 1)
    <2>1. cur.base - 1 \in Int /\ cur.base - 1 <= a /\ a <= a BY <1>3, <1>7, <1>9
    <2> QED BY <1>3, <1>9, <1>10, <2>1, WroteOne
  <1>12. CASE ~cur.code.promised
    <2>1. Change(Vals(regs, cur), Vals(regs', cur')) BY <1>12 DEF Change
    <2>2. frames' = frames /\ status \notin {"over", "aborted"} BY <1>2, <1>3
    <2>3. Follows BY <1>4, <1>5, <1>11, <2>1, <2>2, InPlace
    <2> QED BY <1>6, <2>3
  <1>13. CASE cur.code.promised
    <2>1. args = cur.top /\ cur.code.self = 0 /\ cur.code.fun.max <= cur.top
      BY <1>2, <1>3, <1>13 DEF Shape, Gathering
    <2>2. PICK old, new, t : old = Vals(regs, cur) /\ new = Vals(regs', cur') /\ t = cur.top OBVIOUS
    <2>3. t \in Nat /\ r <= t /\ t = args BY <1>1, <1>3, <1>7, <2>1, <2>2
    <2>4. PICK S : old \in Seq(S) BY <1>3, <2>2, ValsSeq
    <2>5. PICK T : new \in Seq(T) BY <1>4, <2>2, ValsSeq DEF DInv, Typed
    <2>6. Len(old) = t /\ \A i \in 1 .. t : old[i] = regs[cur.base + i - 1]
      BY <1>2, <1>3, <2>2, ValsSeq
    <2>7. Len(new) = r + 1 /\ \A i \in 1 .. r + 1 : new[i] = regs'[cur.base + i - 1]
      <3>1. cur' \in Contexts /\ cur'.code.at # "leaving" /\ cur'.base = cur.base
        BY <1>4, <1>5 DEF DInv, Typed, SameCode
      <3> QED BY <1>5, <2>2, <3>1, ValsSeq
    <2>8. [i \in 1 .. args |-> regs[Reg(i - 1)]] = old
      <3>1. [i \in 1 .. args |-> regs[Reg(i - 1)]] = [i \in 1 .. cur.top |-> regs[cur.base + i - 1]]
        <4>1. ASSUME NEW i \in 1 .. t PROVE Reg(i - 1) = cur.base + i - 1
          BY <1>3, <2>3 DEF Reg
        <4> QED BY <2>2, <2>3, <4>1
      <3> QED BY <1>2, <2>2, <3>1 DEF Vals
    <2>9. w = [t |-> "list", of |-> SubSeq(old, r + 1, Len(old))]
      BY <1>1, <2>3, <2>6, <2>8 DEF ListV
    <2>10. PICK p : p = SubSeq(old, 1, r) OBVIOUS
    <2>11. p \in Seq(S) /\ Len(p) = r /\ \A i \in 1 .. r : p[i] = old[i]
      BY <1>7, <2>3, <2>4, <2>6, <2>10
    <2>12. \A i \in 1 .. r : new[i] = old[i]
      <3> TAKE i \in 1 .. r
      <3>1. PICK b : b = cur.base + i - 1 OBVIOUS
      <3>2. i \in 1 .. t /\ i \in 1 .. r + 1 /\ i - 1 \in Nat /\ b = cur.base + (i - 1) /\ b # a
            /\ i - 1 < r
        BY <1>3, <1>7, <1>9, <2>3, <3>1
      <3>3. i - 1 < Width BY <1>7, <3>2, Sizes
      <3>4. b \in DOMAIN regs
        <4>1. Reg(i - 1) \in 0 .. NumRegs - 1 BY <1>3, <3>2, <3>3, InThisWindow
        <4> QED BY <1>3, <3>2, <4>1 DEF Typed
      <3>5. regs'[b] = regs[b] BY <1>10, <3>2, <3>4
      <3> QED BY <2>6, <2>7, <3>1, <3>2, <3>5
    <2>13. new[r + 1] = w
      <3>1. cur.base + (r + 1) - 1 = a /\ r + 1 \in 1 .. r + 1 BY <1>3, <1>7, <1>9
      <3> QED BY <1>9, <1>10, <2>7, <3>1
    <2>14. new = Append(p, w)
      <3>1. PICK U : U = S \cup {w} OBVIOUS
      <3>2. p \in Seq(U) /\ w \in U BY <2>11, <3>1
      <3>3. /\ Append(p, w) \in Seq(U) /\ Len(Append(p, w)) = r + 1 /\ Append(p, w)[r + 1] = w
            /\ \A i \in 1 .. r : Append(p, w)[i] = p[i]
        BY <1>7, <2>11, <3>2
      <3>4. \A i \in 1 .. r + 1 : new[i] = Append(p, w)[i]
        <4> TAKE i \in 1 .. r + 1
        <4>1. i = r + 1 \/ i \in 1 .. r BY <1>7
        <4> QED BY <2>11, <2>12, <2>13, <3>3, <4>1
      <3> QED BY <2>5, <2>7, <3>3, <3>4
    <2>15. Promise!Gathered(old, new)
      <3>1. r \in 0 .. Len(old) BY <1>7, <2>3, <2>6
      <3> QED BY <2>9, <2>10, <2>14, <3>1 DEF Promise!Gathered, Promise!First, Promise!After
    <2>16. Change(Vals(regs, cur), Vals(regs', cur')) BY <2>2, <2>15 DEF Change
    <2>17. frames' = frames /\ status \notin {"over", "aborted"} BY <1>2, <1>3
    <2>18. Follows BY <1>4, <1>5, <1>11, <2>16, <2>17, InPlace
    <2> QED BY <1>6, <2>18
  <1> QED BY <1>12, <1>13

(* Default values are computed for the activation that the innermost call  *)
(* on the C++ stack has started.                                           *)
LEMMA TopCall ==
  ASSUME RInv, Doing("call"), cur.code.at = "default", NEW c, c = Last(native)
  PROVE  /\ native # <<>> /\ Len(native) \in Nat /\ Len(native) >= 1 /\ DOMAIN native = 1 .. Len(native)
         /\ c = native[Len(native)] /\ c.op = "call" /\ c.depth = Depth /\ Depth >= 2
         /\ Started(c, Ctx[Depth - 1], cur)
         /\ \A i \in 1 .. Len(native) - 1 : native[i].op = "call" => native[i].depth # Depth
PROOF
  <1>1. DInv /\ Shape /\ Inv /\ Typed /\ Windows BY DEF RInv, DInv
  <1>2. /\ Depth \in 1 .. MaxDepth + 1 /\ Depth \in Nat /\ Ctx[Depth] = cur
        /\ Laid(Depth, cur)
    BY <1>1, TheContexts, LaidHere
  <1>3. Depth # 1 BY <1>2 DEF Laid
  <1>4. PICK d, l : d = Depth /\ l = Len(native) OBVIOUS
  <1>5. d \in 2 .. d /\ d \in Nat /\ d >= 2 BY <1>2, <1>3, <1>4
  <1>6. native # <<>> /\ c.op = "call" BY DEF Doing
  <1>7. l \in Nat /\ l >= 1 /\ DOMAIN native = 1 .. l /\ c = native[l] BY <1>1, <1>4, <1>6, TheNative
  <1>8. PICK i \in DOMAIN native : native[i].op = "call" /\ native[i].depth = d
    BY <1>1, <1>2, <1>4, <1>5 DEF Shape, Computing
  <1>9. PICK n : n = native[l] /\ Fits(n) BY <1>1, <1>7 DEF Shape, Fitting
  <1>10. n = c /\ c.depth \in 2 .. d /\ Started(c, Ctx[c.depth - 1], Ctx[c.depth])
    BY <1>4, <1>6, <1>7, <1>9 DEF Fits
  <1>11. c.depth = d
    <2>1. CASE i = l BY <1>7, <1>8, <2>1
    <2>2. CASE i < l
      <3>1. native[i].depth < native[l].depth BY <1>1, <1>6, <1>7, <1>8, <2>2 DEF Shape, Deeper
      <3> QED BY <1>5, <1>7, <1>8, <1>10, <3>1
    <2> QED BY <1>7, <1>8, <2>1, <2>2
  <1>12. Started(c, Ctx[d - 1], cur) BY <1>2, <1>4, <1>10, <1>11
  <1>13. \A j \in 1 .. l - 1 : native[j].op = "call" => native[j].depth # d
    <2> SUFFICES ASSUME NEW j \in 1 .. l - 1, native[j].op = "call", native[j].depth = d PROVE FALSE
      OBVIOUS
    <2>1. j \in DOMAIN native /\ l \in DOMAIN native /\ j < l BY <1>7
    <2>2. native[j].depth < native[l].depth BY <1>1, <1>6, <1>7, <2>1 DEF Shape, Deeper
    <2> QED BY <1>5, <1>7, <1>11, <2>2
  <1> QED BY <1>4, <1>5, <1>6, <1>7, <1>11, <1>12, <1>13

LEMMA DefaultDoneFollows ==
  ASSUME RInv, DefaultDone
  PROVE  RInv' /\ Follows
PROOF
  <1>1. PICK c, w : c = Last(native) /\ w = [cur EXCEPT !.low = cur.top, !.code.n = cur.top] OBVIOUS
  <1>2. /\ Executing /\ Doing("call") /\ cur.code.at = "default"
        /\ IF cur.top - cur.code.self < cur.code.fun.max
           THEN cur' = w /\ UNCHANGED <<regs, native>>
           ELSE Settle(c, w, regs, Front(native))
        /\ UNCHANGED <<frames, status>>
    BY <1>1 DEF DefaultDone, At
  <1>3. /\ DInv /\ Typed /\ Shape /\ status \notin {"over", "aborted"} /\ cur \in Contexts
        /\ cur.base \in Nat /\ cur.top \in Nat /\ Depth \in 1 .. Depth /\ Ctx[Depth] = cur
    BY <1>2, CodeFacts
  <1>4. DInv' BY <1>3, DefaultDoneKeeps
  <1>5. w \in Contexts /\ SameCode(cur, w) /\ w.code.at = "default" /\ w.top = cur.top
    <2> DEFINE C == [at : Places, fun : Callables \cup {NoFun}, self : 0 .. 1,
                     by : {"code", "make", "drop"}, n : Nat, promised : BOOLEAN]
               code == [cur.code EXCEPT !.n = cur.top]
    <2>1. cur.code \in C BY <1>3, ContextFields
    <2>2. /\ code \in C /\ code.at = "default" /\ code.fun = cur.code.fun
          /\ code.self = cur.code.self /\ code.by = cur.code.by /\ code.promised = cur.code.promised
      BY <1>2, <1>3, <2>1
    <2>3. w = [cur EXCEPT !.low = cur.top, !.code = code]
      BY <1>1, <1>3 DEF Contexts
    <2> HIDE DEF code
    <2> QED BY <1>3, <2>2, <2>3 DEF Contexts, SameCode
  <1>6. CASE cur.top - cur.code.self < cur.code.fun.max
    <2>1. cur' = w /\ regs' = regs /\ native' = native BY <1>2, <1>6
    <2>2. SameCode(cur, cur') /\ cur'.code.at = "default" /\ cur'.top = cur.top
      BY <1>5, <2>1 DEF SameCode
    <2>3. RInv' BY <1>2, <1>4, <2>1, <2>2, CodeShape
    <2>4. Same(cur.base + cur'.top) BY <2>1, WroteNone
    <2>5. cur'.top <= cur.top BY <1>3, <2>2
    <2>6. Follows BY <1>2, <1>3, <1>4, <2>2, <2>4, <2>5, Shrinks
    <2> QED BY <2>3, <2>6
  <1>7. CASE ~(cur.top - cur.code.self < cur.code.fun.max)
    <2>1. Settle(c, w, regs, Front(native)) BY <1>2, <1>7
    <2>2. /\ native # <<>> /\ Len(native) \in Nat /\ Len(native) >= 1 /\ DOMAIN native = 1 .. Len(native)
          /\ c = native[Len(native)] /\ c.op = "call" /\ c.depth = Depth /\ Depth >= 2
          /\ Started(c, Ctx[Depth - 1], cur)
          /\ \A i \in 1 .. Len(native) - 1 : native[i].op = "call" => native[i].depth # Depth
      BY <1>1, <1>2, TopCall
    <2>3. PICK a : a = (IF c.fun.rest THEN "gather" ELSE "entry") OBVIOUS
    <2>4. cur' = [w EXCEPT !.code.at = a] BY <2>1, <2>3 DEF Settle
    <2>5. a \in {"gather", "entry"} /\ (a = "gather" <=> c.fun.rest) BY <2>3
    <2>6. SameCode(cur, cur') /\ cur'.code.at = a /\ cur'.top = cur.top
      <3>1. SameCode(w, cur') /\ cur'.code.at = a /\ cur'.top = w.top
        BY <1>5, <2>4 DEF Contexts, SameCode
      <3> QED BY <1>5, <3>1 DEF SameCode
    <2>7. cur.code.fun = c.fun /\ cur.code.self = c.self /\ cur.code.by = c.by
          /\ (c.by = "code" => c.start >= 1)
      BY <2>2 DEF Started
    <2>8. Promises(cur) BY <1>3 DEF Shape, Promising
    <2>9. cur'.code.at = "gather" => ~cur'.code.promised
      BY <1>2, <2>5, <2>6, <2>7, <2>8 DEF Promises, SameCode
    <2>10. \A i \in DOMAIN native : native[i].op # "call" => native[i].depth \in 1 .. Len(frames)
      BY <1>2, <1>3, CodeAlone DEF DInv
    <2>11. Depth # 1 /\ status' = status BY <1>2, <2>2
    <2>12. ASSUME NEW i \in DOMAIN native, native[i].op # "call" PROVE \E n : n = native[i] /\ Fits(n)'
      <3>1. PICK n : n = native[i] /\ Fits(n) BY <1>3 DEF Shape, Fitting
      <3>2. n.op # "call" /\ n.depth \in 1 .. Len(frames) BY <2>10, <2>12, <3>1
      <3>3. Fits(n)' BY <1>2, <1>3, <3>1, <3>2, FitsBelow
      <3> QED BY <3>1, <3>3
    <2>13. CASE c.by = "code" /\ ~c.was
      <3>1. /\ native' = Front(native)
            /\ regs' = IF c.self = 1 THEN [regs EXCEPT ![w.base + c.start - 1] = c.copy] ELSE regs
        BY <2>1, <2>13 DEF Settle
      <3>2. /\ DOMAIN native' = 1 .. Len(native) - 1
            /\ \A i \in 1 .. Len(native) - 1 : native'[i] = native[i]
        BY <1>3, <2>2, <3>1, OneLess DEF DInv
      <3>3. \A i \in DOMAIN native' :
              IF native'[i].op = "call" THEN CallKept(i) ELSE \E n : n = native'[i] /\ Fits(n)'
        <4> TAKE i \in DOMAIN native'
        <4>1. i \in 1 .. Len(native) - 1 /\ i \in DOMAIN native /\ native'[i] = native[i] BY <2>2, <3>2
        <4>2. CASE native[i].op = "call" BY <2>2, <4>1, <4>2 DEF CallKept
        <4>3. CASE native[i].op # "call" BY <2>12, <4>1, <4>3
        <4> QED BY <4>2, <4>3
      <3>4. \A i \in DOMAIN native : native[i].op = "call" =>
              (i \in DOMAIN native' /\ native'[i] = native[i]) \/ CallGone(i)
        <4> TAKE i \in DOMAIN native
        <4>1. CASE i = Len(native) BY <2>2, <2>5, <2>6, <4>1 DEF CallGone
        <4>2. CASE i \in 1 .. Len(native) - 1 BY <3>2, <4>2
        <4> QED BY <2>2, <4>1, <4>2
      <3>5. RInv' BY <1>2, <1>4, <2>5, <2>6, <2>9, <2>11, <3>3, <3>4, SteadyShape
      <3>6. CASE c.self = 1
        <4>1. PICK b : b = w.base + c.start - 1 OBVIOUS
        <4>2. PICK s : s = c.start OBVIOUS
        <4>3. regs' = [regs EXCEPT ![b] = c.copy] BY <3>1, <3>6, <4>1
        <4>4. w.base = cur.base BY <1>5 DEF SameCode
        <4>5. s \in Int /\ s >= 1
          BY <2>2, <2>7, <2>13, <4>2 DEF Started
        <4>6. b \in Int /\ cur.base - 1 \in Int /\ cur.base - 1 <= b BY <1>3, <4>1, <4>2, <4>4, <4>5
        <4>7. Same(cur.base - 1) BY <1>3, <4>3, <4>6, WroteOne
        <4>8. ~cur.code.promised BY <2>7, <2>8, <2>13, <3>6 DEF Promises
        <4>9. Change(Vals(regs, cur), Vals(regs', cur')) BY <4>8 DEF Change
        <4>10. frames' = frames /\ status \notin {"over", "aborted"} BY <1>2, <1>3
        <4>11. Follows BY <1>4, <2>6, <4>7, <4>9, <4>10, InPlace
        <4> QED BY <3>5, <4>11
      <3>7. CASE c.self # 1
        <4>1. Same(cur.base + cur'.top) BY <3>1, <3>7, WroteNone
        <4>2. cur'.top <= cur.top /\ cur.code.at # "leaving" /\ cur'.code.at # "leaving"
          BY <1>2, <1>3, <2>5, <2>6
        <4>3. frames' = frames /\ status \notin {"over", "aborted"} BY <1>2, <1>3
        <4>4. Follows BY <1>4, <2>6, <4>1, <4>2, <4>3, Shrinks
        <4> QED BY <3>5, <4>4
      <3> QED BY <3>6, <3>7
    <2>14. CASE ~(c.by = "code" /\ ~c.was)
      <3>1. native' = Append(Front(native), c) /\ regs' = regs BY <2>1, <2>14 DEF Settle
      <3>2. /\ DOMAIN native' = DOMAIN native /\ \A i \in DOMAIN native : native'[i] = native[i]
        <4>1. PICK b : b = native' OBVIOUS
        <4>2. /\ DOMAIN b = 1 .. Len(native) /\ b[Len(native)] = c
              /\ \A i \in 1 .. Len(native) - 1 : b[i] = native[i]
          <5>1. Inv /\ native # <<>> /\ b = Append(Front(native), c) BY <1>3, <2>2, <3>1, <4>1 DEF DInv
          <5> QED BY <5>1, TopIs
        <4>3. \A i \in DOMAIN native : b[i] = native[i]
          <5> TAKE i \in DOMAIN native
          <5>1. i = Len(native) \/ i \in 1 .. Len(native) - 1 BY <2>2
          <5> QED BY <2>2, <4>2, <5>1
        <4> QED BY <2>2, <4>1, <4>2, <4>3
      <3>3. Binds(c) BY <2>14 DEF Binds
      <3>4. \A i \in DOMAIN native' :
              IF native'[i].op = "call" THEN CallKept(i) ELSE \E n : n = native'[i] /\ Fits(n)'
        <4> TAKE i \in DOMAIN native'
        <4>1. i \in DOMAIN native /\ native'[i] = native[i] BY <3>2
        <4>2. CASE native[i].op = "call"
          <5>1. i = Len(native) \/ i \in 1 .. Len(native) - 1 BY <2>2, <4>1
          <5>2. ~(~Binds(native[i]) /\ native[i].depth = Depth) BY <2>2, <3>3, <4>2, <5>1
          <5> QED BY <4>1, <4>2, <5>2 DEF CallKept
        <4>3. CASE native[i].op # "call" BY <2>12, <4>1, <4>3
        <4> QED BY <4>2, <4>3
      <3>5. \A i \in DOMAIN native : i \in DOMAIN native' /\ native'[i] = native[i] BY <3>2
      <3>6. RInv' BY <1>2, <1>4, <2>5, <2>6, <2>9, <2>11, <3>4, <3>5, SteadyShape
      <3>7. Same(cur.base + cur'.top) BY <3>1, WroteNone
      <3>8. cur'.top <= cur.top /\ cur.code.at # "leaving" /\ cur'.code.at # "leaving"
        BY <1>2, <1>3, <2>5, <2>6
      <3>9. frames' = frames /\ status \notin {"over", "aborted"} BY <1>2, <1>3
      <3>10. Follows BY <1>4, <2>6, <3>7, <3>8, <3>9, Shrinks
      <3> QED BY <3>6, <3>10
    <2> QED BY <2>13, <2>14
  <1> QED BY <1>6, <1>7
-----------------------------------------------------------------------------
(* Calls that the limit refuses.                                           *)

(* A register array that a call has written to from limit on only.         *)
From(file, limit) == \A a \in 0 .. NumRegs - 1 : a < limit => file[a] = regs[a]

LEMMA ShiftedFrom ==
  ASSUME Typed, NEW c, NEW v, NEW p \in Nat, c.start = p + 1, c.argc \in Nat, cur.base \in Nat
  PROVE  From(Shifted(c, v), cur.base + p)
PROOF
  <1> SUFFICES ASSUME NEW a \in 0 .. NumRegs - 1, a < cur.base + p
               PROVE  Shifted(c, v)[a] = regs[a]
    BY DEF From
  <1>1. PICK b, s, n : b = cur.base /\ s = c.start /\ n = c.argc OBVIOUS
  <1>2. a \in DOMAIN regs /\ a \in Int BY Sizes DEF Typed
  <1>3. b \in Nat /\ s = p + 1 /\ n \in Nat /\ a < b + p BY <1>1
  <1>4. a # b + (s - 1) /\ a # b + s /\ a \notin b + s + 1 .. b + s + n BY ONLY <1>2, <1>3, p \in Nat
  <1>5. Reg(c.start - 1) = b + (s - 1) /\ Reg(c.start) = b + s BY <1>1 DEF Reg
  <1> QED BY <1>1, <1>2, <1>4, <1>5 DEF Shifted

LEMMA CodeRefused ==
  ASSUME RInv, DInv', At({"script", "default", "body"}), NEW p \in Temporaries, AtLimit,
         NEW c, c.start = p + 1, c.keep = p,
         NEW file, From(file, cur.base + p), DOMAIN file = DOMAIN regs,
         NEW below, RefuseCall(c, file, below), status' = status,
         \/ c.by = "code" /\ below = native
         \/ /\ c.by = "make"
            /\ \E x : below = Append(native, x) /\ x.op = "make" /\ x.start = p + 1 /\ x.depth = Depth
  PROVE  RInv' /\ Follows
PROOF
  <1>1. PICK v, t, a : /\ v = (IF c.self = 1 THEN c.copy ELSE Invalid)
                       /\ t = (IF c.by = "code" THEN c.start ELSE c.keep)
                       /\ a = Reg(c.start - 1)
    OBVIOUS
  <1>2. /\ Executing /\ cur.code.at \in {"script", "default", "body"}
        /\ regs' = [file EXCEPT ![a] = v] /\ cur' = [cur EXCEPT !.top = t] /\ native' = below
        /\ frames' = frames
    BY <1>1 DEF RefuseCall, At
  <1>3. /\ DInv /\ Typed /\ Windows /\ status \notin {"over", "aborted"} /\ cur \in Contexts
        /\ cur.base \in Nat /\ cur.top \in Nat
    BY <1>2, CodeFacts
  <1>4. p \in Nat /\ p < cur.top BY <1>3, TemporaryFacts
  <1>5. a = cur.base + p
    <2>1. PICK s : s = c.start OBVIOUS
    <2>2. s - 1 = p BY <1>4, <2>1
    <2> QED BY <1>1, <2>1, <2>2 DEF Reg
  <1>6. t \in {p, p + 1} /\ (c.by = "code" => t = p + 1) /\ (c.by # "code" => t = p) /\ t \in Nat
    BY <1>1, <1>4
  <1>7. SameCode(cur, cur') /\ cur'.code = cur.code /\ cur'.top = t BY <1>2, <1>3, <1>6, TopOnly
  <1>8. native' = native \/ \E n : native' = Append(native, n) /\ n.op # "call" /\ Fits(n)'
    <2>1. CASE c.by = "code" /\ below = native BY <1>2, <2>1
    <2>2. CASE c.by = "make"
      <3>1. PICK x : below = Append(native, x) /\ x.op = "make" /\ x.start = p + 1 /\ x.depth = Depth
        BY <2>2
      <3>2. Ctx'[Depth] = cur' BY <1>2, <1>3, Stayed
      <3>3. x.start - 1 = p BY <1>4, <3>1
      <3>4. Ctx'[x.depth].top = x.start - 1 BY <1>6, <1>7, <2>2, <3>1, <3>2, <3>3
      <3>5. Fits(x)' BY <3>1, <3>4 DEF Fits
      <3> QED BY <1>2, <3>1, <3>5
    <2> QED BY <2>1, <2>2
  <1>9. RInv' BY <1>2, <1>7, <1>8, CodeShape
  <1>10. Same(cur.base + p)
    <2>1. ASSUME NEW b \in 0 .. NumRegs - 1, b < cur.base + p PROVE regs'[b] = regs[b]
      <3>1. b # a /\ b \in DOMAIN file BY <1>3, <1>4, <1>5, <2>1, Sizes DEF Typed
      <3>2. regs'[b] = file[b] BY <1>2, <3>1
      <3> QED BY <2>1, <3>2 DEF From
    <2> QED BY <2>1 DEF Same
  <1>11. frames' = frames /\ cur'.code.at # "leaving" /\ cur.code.at # "leaving" /\ t <= cur.top
    <2>1. t <= cur.top BY ONLY <1>3, <1>4, <1>6
    <2>2. cur'.code.at = cur.code.at BY <1>7
    <2> QED BY <1>2, <2>1, <2>2
  <1>12. CASE c.by # "code"
    <2>1. Same(cur.base + cur'.top) /\ cur'.top <= cur.top BY <1>6, <1>7, <1>10, <1>11, <1>12
    <2>2. Follows BY <1>3, <1>7, <1>11, <2>1, Shrinks
    <2> QED BY <1>9, <2>2
  <1>13. CASE c.by = "code"
    <2>1. PICK old, new, u : old = Vals(regs, cur) /\ new = Vals(regs', cur') /\ u = cur.top OBVIOUS
    <2>2. PICK S : old \in Seq(S) BY <1>3, <2>1, ValsSeq
    <2>3. PICK T : new \in Seq(T) BY <2>1, ValsSeq DEF DInv, Typed
    <2>4. Len(old) = u /\ \A i \in 1 .. u : old[i] = regs[cur.base + i - 1]
      BY <1>3, <1>11, <2>1, ValsSeq
    <2>5. Len(new) = p + 1 /\ \A i \in 1 .. p + 1 : new[i] = regs'[cur.base + i - 1]
      <3>1. cur' \in Contexts /\ cur'.base = cur.base BY <1>7 DEF DInv, Typed, SameCode
      <3> QED BY <1>6, <1>7, <1>11, <1>13, <2>1, <3>1, ValsSeq
    <2>6. u \in Nat /\ p < u /\ u < Width BY <1>3, <1>4, <2>1, TopFacts
    <2>7. \A i \in 1 .. p : new[i] = old[i]
      <3> TAKE i \in 1 .. p
      <3>1. PICK b : b = cur.base + i - 1 OBVIOUS
      <3>2. i \in 1 .. u /\ i \in 1 .. p + 1 /\ i - 1 \in Nat /\ i - 1 < u /\ b = cur.base + (i - 1)
            /\ b < cur.base + p
        BY <1>3, <1>4, <2>6, <3>1
      <3>3. i - 1 < Width BY <2>6, <3>2, Sizes
      <3>4. Reg(i - 1) \in 0 .. NumRegs - 1 BY <1>3, <3>2, <3>3, InThisWindow
      <3>5. b \in 0 .. NumRegs - 1 BY <3>2, <3>4 DEF Reg
      <3>6. regs'[b] = regs[b] BY <1>10, <3>2, <3>5 DEF Same
      <3> QED BY <2>4, <2>5, <3>1, <3>2, <3>6
    <2>8. SubSeq(new, 1, p) = SubSeq(old, 1, p)
      <3>1. p <= Len(new) /\ p <= Len(old) BY <1>4, <2>4, <2>5, <2>6
      <3> QED BY <1>4, <2>2, <2>3, <2>7, <3>1, Agree
    <2>9. Promise!Depth = MaxDepth + 1
      <3>1. Len(Stack) = Depth BY <1>3, StackFacts
      <3>2. Depth = MaxDepth + 1 BY <1>3 DEF AtLimit, Depth
      <3> QED BY <3>1, <3>2, StepsOfStack
    <2>10. Promise!Refused(old, new)
      <3>1. Len(new) \in 1 .. Len(old) /\ Len(new) - 1 = p BY <1>4, <2>4, <2>5, <2>6
      <3> QED BY <2>8, <2>9, <3>1 DEF Promise!Refused, Promise!First
    <2>11. Change(Vals(regs, cur), Vals(regs', cur')) BY <2>1, <2>10 DEF Change
    <2>12. Same(cur.base - 1)
      <3>1. cur.base + p \in Int /\ cur.base - 1 \in Int /\ cur.base - 1 <= cur.base + p
        BY <1>3, <1>4
      <3> QED BY <1>10, <3>1, SameFrom
    <2>13. Follows BY <1>3, <1>7, <1>11, <2>11, <2>12, InPlace
    <2> QED BY <1>9, <2>13
  <1> QED BY <1>12, <1>13
-----------------------------------------------------------------------------
(* Errors, and the end.                                                    *)

LEMMA ThrowFollows ==
  ASSUME RInv, DInv', Throw
  PROVE  RInv' /\ Follows
PROOF
  <1>1. /\ frames' = <<>> /\ native' = <<>>
        /\ cur' = [base |-> cur.base, top |-> 0, low |-> 0, blocks |-> <<>>, since |-> 0,
                   under |-> 0, code |-> Script]
    BY DEF Throw
  <1>2. /\ cur'.top = 0 /\ cur'.code.at = "script" /\ cur'.code.by = "code" /\ cur'.code.promised = TRUE
        /\ cur'.code.self = 0
    BY <1>1 DEF Script, Code
  <1>3. Depth' = 1 /\ Ctx'[1] = cur' /\ Len(frames') = 0 BY <1>1 DEF Depth, Ctx
  <1>4. (\A k \in 1 .. 0 : FALSE) /\ ~(1 > 1)
    OBVIOUS
  <1>5. Separate' BY <1>3, <1>4 DEF Separate
  <1>6. Promising'
    <2>1. Promises(cur') BY <1>2 DEF Promises
    <2>2. \A k \in 1 .. 1 : Promises(Ctx'[k])
      <3> TAKE k \in 1 .. 1
      <3>1. k = 1 OBVIOUS
      <3> QED BY <1>3, <2>1, <3>1
    <2> QED BY <1>3, <2>2 DEF Promising, Promises
  <1>7. Gathering' BY <1>2 DEF Gathering
  <1>8. Fitting' /\ Deeper' BY <1>1 DEF Fitting, Deeper
  <1>9. Computing'
    <2>1. 2 .. Depth' = {} BY <1>3
    <2> QED BY <2>1 DEF Computing
  <1>10. Idle' BY <1>2, <1>3 DEF Idle
  <1>11. RInv' BY <1>5, <1>6, <1>7, <1>8, <1>9, <1>10 DEF RInv, Shape
  <1>12. Stack' = <<[vals |-> <<>>, by |-> "code", promised |-> TRUE]>>
    <2>1. frames' \in Seq(Contexts) /\ cur' \in Contexts BY DEF DInv, Typed
    <2>2. PICK S : Stack' \in Seq(S) BY <2>1, NextStackFacts
    <2>3. Len(Stack') = 1 /\ \A k \in 1 .. 1 : Stack'[k] = Act(regs', Ctx'[k])
      BY <1>3, <2>1, NextStackFacts
    <2>4. PICK v : v = Vals(regs', cur') OBVIOUS
    <2>5. PICK T : v \in Seq(T) BY <2>1, <2>4, ValsSeq
    <2>6. Len(v) = 0 BY <1>2, <2>1, <2>4, ValsSeq
    <2>7. v = <<>> BY <2>5, <2>6
    <2>8. Act(regs', cur') = [vals |-> <<>>, by |-> "code", promised |-> TRUE]
      BY <1>2, <2>4, <2>7 DEF Act
    <2>9. Stack'[1] = Act(regs', cur') BY <1>3, <2>3
    <2>10. Stack' = <<Stack'[1]>> BY <2>2, <2>3
    <2> QED BY <2>8, <2>9, <2>10
  <1>13. Follows BY <1>12, StepsOfStack DEF Follows, Promise!Next
  <1> QED BY <1>11, <1>13

LEMMA FailFollows ==
  ASSUME RInv, Fail
  PROVE  RInv' /\ Follows
PROOF
  <1>1. DInv' BY FailKeeps DEF RInv
  <1>2. Throw BY DEF Fail
  <1> QED BY <1>1, <1>2, ThrowFollows

LEMMA HaltFollows ==
  ASSUME RInv, Halt
  PROVE  RInv' /\ Follows
PROOF
  <1>1. /\ Executing /\ cur.code.at = "script" /\ native = <<>>
        /\ cur' = [cur EXCEPT !.top = 0, !.low = 0]
        /\ UNCHANGED <<regs, frames, native>>
    BY DEF Halt, At
  <1>2. /\ DInv /\ Typed /\ Windows /\ status \notin {"over", "aborted"} /\ cur \in Contexts
        /\ cur.base \in Nat /\ cur.top \in Nat
    BY <1>1, CodeFacts
  <1>3. DInv' BY <1>2, HaltKeeps
  <1>4. SameCode(cur, cur') /\ cur'.top = 0 /\ cur'.code.at = "script"
    BY <1>1, <1>2 DEF Contexts, SameCode
  <1>5. Depth = 1
    <2>1. Laid(Depth, cur) BY <1>2, LaidHere
    <2> QED BY <1>1, <2>1 DEF Laid
  <1>6. /\ \A i \in DOMAIN native' :
             IF native'[i].op = "call" THEN CallKept(i) ELSE \E n : n = native'[i] /\ Fits(n)'
        /\ \A i \in DOMAIN native : native[i].op = "call" =>
             (i \in DOMAIN native' /\ native'[i] = native[i]) \/ CallGone(i)
    BY <1>1
  <1>7. RInv' BY <1>1, <1>3, <1>4, <1>5, <1>6, SteadyShape
  <1>8. frames' = frames /\ Same(cur.base + cur'.top) BY <1>1, WroteNone
  <1>9. cur'.top <= cur.top /\ cur.code.at # "leaving" /\ cur'.code.at # "leaving"
    BY <1>1, <1>2, <1>4
  <1>10. Follows BY <1>2, <1>3, <1>4, <1>8, <1>9, Shrinks
  <1> QED BY <1>7, <1>10

(* At the bottom of the C++ stack nothing is run.                          *)
LEMMA BottomShape ==
  ASSUME RInv, DInv', Depth = 1, status \in {"clearing", "destroying"}, UNCHANGED <<regs, cur, frames>>,
         \A i \in DOMAIN native : native[i].op # "call",
         native' = <<>> \/ \E x : native' = <<x>> /\ x.op = "drop" /\ x.depth = 1 /\ x.limit \in Nat
  PROVE  RInv' /\ Follows
PROOF
  <1>1. DInv /\ Typed /\ Windows /\ Shape BY DEF RInv, DInv
  <1>2. Laid(1, cur) /\ Ctx[1] = cur BY <1>1, LaidHere, TheContexts
  <1>3. cur.code.at = "script" /\ cur.top = 0 BY <1>1, <1>2 DEF Laid, Shape, Idle
  <1>4. SameCode(cur, cur') /\ cur'.code.at = "script" /\ cur'.top = 0 BY <1>3 DEF SameCode
  <1>5. Depth' = 1 /\ Ctx'[1] = cur' BY <1>1, Stayed
  <1>6. \A i \in DOMAIN native' :
          IF native'[i].op = "call" THEN CallKept(i) ELSE \E n : n = native'[i] /\ Fits(n)'
    <2>1. CASE native' = <<>> BY <2>1
    <2>2. ASSUME NEW x, native' = <<x>>, x.op = "drop", x.depth = 1, x.limit \in Nat
          PROVE  \A i \in DOMAIN native' :
                   IF native'[i].op = "call" THEN CallKept(i) ELSE \E n : n = native'[i] /\ Fits(n)'
      <3>1. Above(cur') = 0 BY <1>4 DEF Above
      <3>2. Fits(x)' BY <1>5, <2>2, <3>1 DEF Fits, Above
      <3>3. \A i \in DOMAIN native' : native'[i] = x BY <2>2
      <3> QED BY <2>2, <3>2, <3>3
    <2> QED BY <2>1, <2>2
  <1>7. frames' = frames /\ status # "running" BY DEF RInv
  <1>8. RInv' BY <1>3, <1>4, <1>6, <1>7, SteadyShape
  <1>9. Stack' = Stack
    <2>1. regs' = regs /\ cur' = cur /\ frames' = frames OBVIOUS
    <2> QED BY <2>1 DEF Stack, Activation
  <1> QED BY <1>8, <1>9 DEF Follows

LEMMA ClearVMFollows ==
  ASSUME RInv, ClearVM
  PROVE  RInv' /\ Follows
PROOF
  <1>1. DInv /\ Inv /\ Typed /\ Ends /\ Shape BY DEF RInv, DInv
  <1>2. DInv' BY <1>1, ClearVMKeeps
  <1>3. status = "clearing" /\ UNCHANGED <<regs, cur, frames>> BY DEF ClearVM
  <1>4. status \in {"clearing", "destroying"} BY <1>3
  <1>5. CASE native = <<>>
    <2>1. frames = <<>> BY <1>1, <1>3, <1>5 DEF Ends
    <2>2. Depth = 1 BY <2>1 DEF Depth
    <2>3. ~DropsDone("clear") BY <1>5 DEF DropsDone, Doing
    <2>4. PICK n, t : native' = <<DropTo(n, t)>> /\ n \in {Last(scopes), LowestRegister}
                      /\ (n = Last(scopes) => scopes # <<>> \/ n = LowestRegister)
      BY <2>3 DEF ClearVM
    <2>5. n \in Nat
      <3>1. CASE n = LowestRegister BY <3>1 DEF LowestRegister
      <3>2. CASE scopes # <<>> /\ n = Last(scopes)
        <4>1. PICK S : S = 0 .. NumRegs - 1 OBVIOUS
        <4>2. scopes \in Seq(S) BY <1>1, <4>1 DEF Typed
        <4>3. Last(scopes) \in S BY <3>2, <4>2 DEF Last
        <4> QED BY <3>2, <4>1, <4>3, Sizes
      <3> QED BY <2>4, <3>1, <3>2
    <2>6. PICK x : x = DropTo(n, t) OBVIOUS
    <2>7. x.op = "drop" /\ x.limit = n /\ x.depth = 1 BY <2>2, <2>6 DEF DropTo, Depth
    <2>8. native' = <<x>> /\ \A i \in DOMAIN native : native[i].op # "call" BY <1>5, <2>4, <2>6
    <2> QED BY <1>2, <1>3, <1>4, <2>2, <2>5, <2>7, <2>8, BottomShape
  <1>6. CASE native # <<>>
    <2>1. DropsDone("clear") /\ native' = <<>> BY <1>6 DEF ClearVM
    <2>2. Depth = 1 /\ native[Len(native)].then = "clear" BY <1>1, <2>1, DoneAtBottom
    <2>3. \A i \in DOMAIN native : native[i].op # "call"
      <3>1. native[Len(native)].op = "drop" /\ Len(native) \in DOMAIN native BY <1>1, <2>1, DropsDoneFacts
      <3>2. PICK l : l = Len(native) OBVIOUS
      <3>3. l \in Nat /\ DOMAIN native = 1 .. l BY <1>1, <3>2, TheNative
      <3>4. l \in 1 .. Len(native) BY <3>1, <3>2, <3>3
      <3>5. EntryOK(native, l) BY <1>1, <3>4 DEF Inv, NativeOK
      <3>6. l = 1 BY <2>2, <3>1, <3>2, <3>5 DEF EntryOK
      <3> QED BY <3>1, <3>2, <3>3, <3>6
    <2> QED BY <1>2, <1>3, <1>4, <2>1, <2>2, <2>3, BottomShape
  <1> QED BY <1>5, <1>6

LEMMA DestroyedFollows ==
  ASSUME RInv, Destroyed
  PROVE  RInv' /\ Follows
PROOF
  <1>1. DInv /\ Inv BY DEF RInv, DInv
  <1>2. DInv' BY <1>1, DestroyedKeeps
  <1>3. DropsDone("destroy") /\ native' = <<>> /\ UNCHANGED <<regs, cur, frames>> BY DEF Destroyed
  <1>4. Depth = 1 /\ native[Len(native)].then = "destroy" /\ DropOK(native[Len(native)])
    BY <1>1, <1>3, DoneAtBottom
  <1>5. status \in {"clearing", "destroying"} BY <1>4 DEF DropOK
  <1>6. \A i \in DOMAIN native : native[i].op # "call"
    <2>1. native[Len(native)].op = "drop" /\ Len(native) \in DOMAIN native BY <1>1, <1>3, DropsDoneFacts
    <2>2. PICK l : l = Len(native) OBVIOUS
    <2>3. l \in Nat /\ DOMAIN native = 1 .. l BY <1>1, <2>2, TheNative
    <2>4. l \in 1 .. Len(native) BY <2>1, <2>2, <2>3
    <2>5. EntryOK(native, l) BY <1>1, <2>4 DEF Inv, NativeOK
    <2>6. l = 1 BY <1>4, <2>1, <2>2, <2>5 DEF EntryOK
    <2> QED BY <2>1, <2>2, <2>3, <2>6
  <1> QED BY <1>2, <1>3, <1>4, <1>5, <1>6, BottomShape

LEMMA NothingFollows ==
  ASSUME RInv, UNCHANGED vars
  PROVE  RInv' /\ Follows
PROOF
  <1>1. /\ regs' = regs /\ cur' = cur /\ frames' = frames /\ native' = native /\ args' = args
        /\ status' = status
    BY DEF vars
  <1>2. Ctx' = Ctx /\ Depth' = Depth BY <1>1 DEF Ctx, Depth
  <1>3. DInv' BY NothingKeeps DEF RInv
  <1>4. Separate' = Separate /\ Promising' = Promising BY <1>1, <1>2 DEF Separate, Promising
  <1>5. Gathering' = Gathering /\ Deeper' = Deeper BY <1>1 DEF Gathering, Deeper
  <1>6. Computing' = Computing /\ Idle' = Idle BY <1>1, <1>2 DEF Computing, Idle
  <1>7. Fitting' = Fitting BY <1>1, <1>2 DEF Fitting, Fits, Started, Binds
  <1>8. RInv' BY <1>3, <1>4, <1>5, <1>6, <1>7 DEF RInv, Shape
  <1>9. Stack' = Stack BY <1>1 DEF Stack, Activation
  <1> QED BY <1>8, <1>9 DEF Follows
-----------------------------------------------------------------------------
(* C++ functions that go on, or end, without a call.                       *)

LEMMA OnTop ==
  ASSUME RInv, NEW op \in {"make", "drop"}, Doing(op), NEW n, n = Last(native)
  PROVE  /\ DInv /\ Typed /\ Windows /\ Shape /\ Inv
         /\ native # <<>> /\ Len(native) \in Nat /\ Len(native) >= 1
         /\ DOMAIN native = 1 .. Len(native)
         /\ n = native[Len(native)] /\ n.op = op /\ n.depth = Depth
         /\ native[Len(native)].op # "call"
         /\ Fits(n) /\ NativeEntry(n)
         /\ status \notin {"over", "aborted"}
         /\ cur \in Contexts /\ cur.base \in Nat /\ cur.top \in Nat /\ Depth \in 1 .. Depth
         /\ Ctx[Depth] = cur
         /\ cur.code.at # "gather" /\ (cur.code.at = "leaving" => op = "drop")
         /\ status # "running" /\ Depth = 1 => op = "drop" /\ cur.top = 0
PROOF
  <1>1. DInv /\ Shape /\ Inv /\ Typed /\ Windows /\ Entries /\ Ends BY DEF RInv, DInv
  <1>2. native # <<>> /\ n.op = op BY DEF Doing
  <1>3. PICK l : l = Len(native) OBVIOUS
  <1>4. l \in Nat /\ l >= 1 /\ DOMAIN native = 1 .. l /\ n = native[l] BY <1>1, <1>2, <1>3, TheNative
  <1>5. native[Len(native)].op # "call" BY <1>2, <1>3, <1>4
  <1>6. n.depth = Depth BY <1>1, <1>2, <1>3, <1>4, <1>5, BelowTop
  <1>7. PICK m : m = native[l] /\ Fits(m) BY <1>1, <1>4 DEF Shape, Fitting
  <1>8. PICK k : k = native[l] /\ NativeEntry(k) BY <1>1, <1>4 DEF Entries
  <1>9. Fits(n) /\ NativeEntry(n) BY <1>4, <1>7, <1>8
  <1>10. cur \in Contexts /\ Depth \in 1 .. Depth /\ Ctx[Depth] = cur BY <1>1, TheContexts DEF Typed
  <1>11. cur.base \in Nat /\ cur.top \in Nat BY <1>10, ContextFields
  <1>12. status \notin {"over", "aborted"} BY <1>1, <1>2 DEF Ends
  <1>13. /\ cur.code.at # "gather" /\ (cur.code.at = "leaving" => op = "drop")
         /\ status # "running" /\ Depth = 1 => op = "drop" /\ cur.top = 0
    <2>1. CASE op = "make"
      <3>1. MakesIn(n, cur) BY <1>2, <1>6, <1>9, <1>10, <2>1, EntryOps DEF MakeOK
      <3>2. cur.code.at \in Running BY <3>1 DEF MakesIn
      <3>3. ~(status # "running" /\ Depth = 1)
        <4> SUFFICES ASSUME status # "running", Depth = 1 PROVE FALSE OBVIOUS
        <4>1. native[1].op = "drop" BY <1>1, <1>2 DEF Ends
        <4>2. 1 \in 1 .. Len(native) - 1 BY <1>2, <1>3, <1>4, <2>1, <4>1
        <4>3. native[1].depth \in 1 .. Len(frames) BY <1>1, <1>2, <1>5, <4>1, <4>2, BelowTop
        <4>4. Len(frames) = 0 BY <1>1, TheContexts
        <4> QED BY <4>3, <4>4
      <3> QED BY <2>1, <3>2, <3>3 DEF Running
    <2>2. CASE op = "drop"
      <3>1. DropOK(n) BY <1>2, <1>9, <2>2, EntryOps
      <3>2. cur.code.at # "gather"
        <4>1. DropsIn(n, cur) BY <1>6, <1>10, <3>1 DEF DropOK
        <4>2. n.depth = 1 => cur.code.at = "script"
          <5>1. Laid(Depth, cur) BY <1>1, LaidHere
          <5> QED BY <1>6, <5>1 DEF Laid
        <4> QED BY <3>1, <4>1, <4>2 DEF DropOK, DropsIn
      <3>3. status # "running" /\ Depth = 1 => cur.top = 0
        <4>1. Depth = 1 => Ctx[1] = cur BY <1>10
        <4> QED BY <1>1, <4>1 DEF Shape, Idle
      <3> QED BY <2>2, <3>2, <3>3
    <2> QED BY <2>1, <2>2
  <1> QED BY <1>1, <1>2, <1>3, <1>4, <1>5, <1>6, <1>9, <1>10, <1>11, <1>12, <1>13

LEMMA MadeFollows ==
  ASSUME RInv, Made
  PROVE  RInv' /\ Follows
PROOF
  <1>1. PICK m : m = Last(native) OBVIOUS
  <1>2. /\ Doing("make") /\ cur' = [cur EXCEPT !.top = m.start] /\ native' = Front(native)
        /\ UNCHANGED <<regs, frames, status>>
    BY <1>1 DEF Made
  <1>3. /\ DInv /\ Inv /\ Typed /\ native # <<>> /\ native[Len(native)].op # "call"
        /\ m.op = "make" /\ m.depth = Depth /\ Fits(m) /\ NativeEntry(m)
        /\ status \notin {"over", "aborted"} /\ cur \in Contexts /\ cur.base \in Nat /\ cur.top \in Nat
        /\ Ctx[Depth] = cur /\ cur.code.at # "gather" /\ cur.code.at # "leaving"
        /\ ~(status # "running" /\ Depth = 1)
    BY <1>1, <1>2, OnTop
  <1>4. DInv' BY <1>3, MadeKeeps
  <1>5. m.start \in 1 .. Width - 1 BY <1>3, EntryOps DEF MakeOK
  <1>6. cur.top = m.start - 1 BY <1>3 DEF Fits
  <1>7. PICK s : s = m.start OBVIOUS
  <1>8. s \in Nat /\ s = cur.top + 1 BY <1>5, <1>6, <1>7, Sizes
  <1>9. SameCode(cur, cur') /\ cur'.code = cur.code /\ cur'.top = s
    BY <1>2, <1>3, <1>7, <1>8, TopOnly
  <1>10. /\ DOMAIN native' = 1 .. Len(native) - 1
         /\ \A i \in 1 .. Len(native) - 1 : native'[i] = native[i]
    BY <1>2, <1>3, OneLess
  <1>11. /\ \A i \in 1 .. Len(native) - 1 : i \in DOMAIN native' /\ native'[i] = native[i]
         /\ \A i \in DOMAIN native' :
              i \in 1 .. Len(native) - 1 \/ (native'[i].op # "call" /\ \E n : n = native'[i] /\ Fits(n)')
    BY <1>10
  <1>12. RInv' BY <1>2, <1>3, <1>4, <1>9, <1>11, TopShape
  <1>13. Same(cur.base + cur.top) BY <1>2, WroteNone
  <1>14. Follows BY <1>2, <1>3, <1>4, <1>8, <1>9, <1>13, Grows
  <1> QED BY <1>12, <1>14

LEMMA ScopeLeftFollows ==
  ASSUME RInv, ScopeLeft
  PROVE  RInv' /\ Follows
PROOF
  <1>1. PICK d : d = Last(native) OBVIOUS
  <1>2. /\ Doing("drop") /\ d.then \in {"exit", "iterate"} /\ native' = Front(native)
        /\ cur' = cur \/ cur' = [cur EXCEPT !.blocks = Front(cur.blocks)]
        /\ UNCHANGED <<regs, frames, status>>
    BY <1>1 DEF ScopeLeft, DropsDone
  <1>3. /\ DInv /\ Inv /\ Typed /\ native # <<>> /\ native[Len(native)].op # "call"
        /\ d.op = "drop" /\ d.depth = Depth /\ NativeEntry(d)
        /\ status \notin {"over", "aborted"} /\ cur \in Contexts /\ cur.top \in Nat
        /\ Ctx[Depth] = cur /\ cur.code.at # "gather"
        /\ (status # "running" /\ Depth = 1 => cur.top = 0)
    BY <1>1, <1>2, OnTop
  <1>4. DInv' BY <1>3, ScopeLeftKeeps
  <1>5. cur.code.at # "leaving"
    <2>1. DropsIn(d, cur) BY <1>3, EntryOps DEF DropOK
    <2> QED BY <1>2, <2>1 DEF DropsIn
  <1>6. SameCode(cur, cur') /\ cur'.code = cur.code /\ cur'.top = cur.top
    BY <1>2, <1>3 DEF Contexts, SameCode
  <1>7. /\ DOMAIN native' = 1 .. Len(native) - 1
        /\ \A i \in 1 .. Len(native) - 1 : native'[i] = native[i]
    BY <1>2, <1>3, OneLess
  <1>8. /\ \A i \in 1 .. Len(native) - 1 : i \in DOMAIN native' /\ native'[i] = native[i]
        /\ \A i \in DOMAIN native' :
             i \in 1 .. Len(native) - 1 \/ (native'[i].op # "call" /\ \E n : n = native'[i] /\ Fits(n)')
    BY <1>7
  <1>9. RInv' BY <1>2, <1>3, <1>4, <1>6, <1>8, TopShape
  <1>10. Same(cur.base + cur'.top) /\ cur'.top <= cur.top BY <1>2, <1>3, <1>6, WroteNone
  <1>11. Follows BY <1>2, <1>3, <1>4, <1>5, <1>6, <1>10, Shrinks
  <1> QED BY <1>9, <1>11

LEMMA DroppedFollows ==
  ASSUME RInv, Dropped
  PROVE  RInv' /\ Follows
PROOF
  <1>1. PICK d, x : d = Last(native) /\ x = [d EXCEPT !.busy = 0] OBVIOUS
  <1>2. /\ Doing("drop") /\ native' = [native EXCEPT ![Len(native)].busy = 0]
        /\ UNCHANGED <<regs, cur, frames, status>>
    BY DEF Dropped
  <1>3. /\ DInv /\ Typed /\ native # <<>> /\ Len(native) \in Nat /\ Len(native) >= 1
        /\ DOMAIN native = 1 .. Len(native) /\ d = native[Len(native)]
        /\ native[Len(native)].op # "call"
        /\ d.op = "drop" /\ d.depth = Depth /\ Fits(d) /\ cur.code.at # "gather"
        /\ Ctx[Depth] = cur
        /\ (status # "running" /\ Depth = 1 => cur.top = 0)
    BY <1>1, <1>2, OnTop
  <1>4. DInv' BY <1>3, DroppedKeeps
  <1>5. x.op = "drop" /\ x.limit = d.limit /\ x.depth = Depth BY <1>1, <1>2, <1>3, BusyDrop
  <1>6. /\ DOMAIN native' = 1 .. Len(native) /\ native'[Len(native)] = x
        /\ \A i \in 1 .. Len(native) - 1 : native'[i] = native[i]
    BY <1>1, <1>2, <1>3
  <1>7. Fits(x)'
    <2>1. Ctx'[Depth] = cur BY <1>2, <1>3, Stayed
    <2>2. Above(cur) <= x.limit BY <1>3, <1>5 DEF Fits
    <2> QED BY <1>5, <2>1, <2>2 DEF Fits, Above
  <1>8. /\ \A i \in 1 .. Len(native) - 1 : i \in DOMAIN native' /\ native'[i] = native[i]
        /\ \A i \in DOMAIN native' :
             i \in 1 .. Len(native) - 1 \/ (native'[i].op # "call" /\ \E n : n = native'[i] /\ Fits(n)')
    <2>1. \A i \in DOMAIN native' : i \in 1 .. Len(native) - 1 \/ i = Len(native) BY <1>3, <1>6
    <2>2. \A i \in 1 .. Len(native) - 1 : i \in DOMAIN native' BY <1>3, <1>6
    <2> QED BY <1>5, <1>6, <1>7, <2>1, <2>2
  <1>9. SameCode(cur, cur') /\ cur'.code.at = cur.code.at /\ cur'.top = cur.top /\ frames' = frames
        /\ status' = status
    BY <1>2 DEF SameCode
  <1>10. RInv' BY <1>3, <1>4, <1>8, <1>9, TopShape
  <1>11. Stack' = Stack BY <1>2 DEF Stack, Activation
  <1> QED BY <1>10, <1>11 DEF Follows
LEMMA TopRefused ==
  ASSUME RInv, DInv', NEW op \in {"make", "drop"}, Doing(op), NEW m, m = Last(native),
         NEW c, c.by # "code", c.keep = cur.top,
         NEW limit \in Int, Above(cur) <= limit, cur.base - 1 <= limit,
         Reg(c.start - 1) \in Int, limit <= Reg(c.start - 1),
         NEW file, From(file, limit), DOMAIN file = DOMAIN regs,
         NEW x, x.op = op, x.depth = Depth,
         op = "make" => x.start = m.start, op = "drop" => x.limit = m.limit,
         RefuseCall(c, file, Append(Front(native), x)), status' = status
  PROVE  RInv' /\ Follows
PROOF
  <1>1. /\ DInv /\ Inv /\ Typed /\ native # <<>> /\ Len(native) \in Nat /\ Len(native) >= 1
        /\ DOMAIN native = 1 .. Len(native) /\ m = native[Len(native)] /\ m.op = op /\ m.depth = Depth
        /\ native[Len(native)].op # "call" /\ Fits(m)
        /\ status \notin {"over", "aborted"} /\ cur \in Contexts /\ cur.base \in Nat /\ cur.top \in Nat
        /\ Ctx[Depth] = cur /\ cur.code.at # "gather"
        /\ (status # "running" /\ Depth = 1 => cur.top = 0)
    BY OnTop
  <1>2. PICK v, a, b : /\ v = (IF c.self = 1 THEN c.copy ELSE Invalid) /\ a = Reg(c.start - 1)
                       /\ b = Append(Front(native), x)
    OBVIOUS
  <1>3. /\ regs' = [file EXCEPT ![a] = v] /\ cur' = [cur EXCEPT !.top = cur.top] /\ native' = b
        /\ frames' = frames
    BY <1>2 DEF RefuseCall
  <1>4. SameCode(cur, cur') /\ cur'.code = cur.code /\ cur'.top = cur.top
    BY <1>1, <1>3, TopOnly
  <1>5. /\ DOMAIN b = 1 .. Len(native) /\ b[Len(native)] = x
        /\ \A i \in 1 .. Len(native) - 1 : b[i] = native[i]
    <2>1. Inv /\ native # <<>> /\ b = Append(Front(native), x) BY <1>1, <1>2
    <2> QED BY <2>1, TopIs
  <1>6. Fits(x)'
    <2>1. Ctx'[Depth] = cur' BY <1>1, <1>3, Stayed
    <2>2. CASE op = "make"
      <3>1. cur.top = x.start - 1 BY <1>1, <2>2 DEF Fits
      <3> QED BY <1>4, <2>1, <2>2, <3>1 DEF Fits
    <2>3. CASE op = "drop"
      <3>1. Above(cur) <= x.limit BY <1>1, <2>3 DEF Fits
      <3>2. Above(cur') = Above(cur) BY <1>4 DEF Above, SameCode
      <3> QED BY <2>1, <2>3, <3>1, <3>2 DEF Fits, Above
    <2> QED BY <2>2, <2>3
  <1>7. /\ \A i \in 1 .. Len(native) - 1 : i \in DOMAIN native' /\ native'[i] = native[i]
        /\ \A i \in DOMAIN native' :
             i \in 1 .. Len(native) - 1 \/ (native'[i].op # "call" /\ \E n : n = native'[i] /\ Fits(n)')
    <2>1. \A i \in DOMAIN b : i \in 1 .. Len(native) - 1 \/ i = Len(native) BY <1>1, <1>5
    <2>2. \A i \in 1 .. Len(native) - 1 : i \in DOMAIN b BY <1>1, <1>5
    <2>3. x.op # "call" OBVIOUS
    <2> QED BY <1>3, <1>5, <1>6, <2>1, <2>2, <2>3
  <1>8. cur'.code.at = cur.code.at BY <1>4
  <1>9. RInv' BY <1>1, <1>3, <1>4, <1>7, <1>8, TopShape
  <1>10. Same(limit)
    <2>1. ASSUME NEW e \in 0 .. NumRegs - 1, e < limit PROVE regs'[e] = regs[e]
      <3>1. e # a /\ e \in DOMAIN file BY <1>1, <1>2, <2>1, Sizes DEF Typed
      <3>2. regs'[e] = file[e] BY <1>3, <3>1
      <3> QED BY <2>1, <3>2 DEF From
    <2> QED BY <2>1 DEF Same
  <1>11. Same(cur.base - 1)
    <2>1. cur.base - 1 \in Int BY <1>1
    <2> QED BY <1>10, <2>1, SameFrom
  <1>12. Follows BY <1>1, <1>3, <1>4, <1>8, <1>10, <1>11, Stutters
  <1> QED BY <1>9, <1>12

-----------------------------------------------------------------------------
(* A call begins.                                                          *)

LEMMA NewCode ==
  ASSUME Typed, NEW c, NEW file, NEW below, CallFits(c), EnterCall(c, file, below)
  PROVE  /\ cur'.base = cur.base + c.start /\ cur'.top = c.self + c.argc
         /\ cur'.code.fun = c.fun /\ cur'.code.self = c.self /\ cur'.code.by = c.by
         /\ cur'.code.promised = Promised(c)
         /\ frames' = Append(frames, [cur EXCEPT !.top = c.keep])
         /\ \/ /\ cur'.code.at = "default" /\ c.argc < c.fun.max
               /\ native' = Append(below, c) /\ regs' = file
            \/ /\ cur'.code.at = (IF c.fun.rest THEN "gather" ELSE "entry")
               /\ \/ Binds(c) /\ native' = Append(below, c) /\ regs' = file
                  \/ /\ ~Binds(c) /\ native' = below
                     /\ regs' = IF c.self = 1
                                THEN [file EXCEPT ![cur'.base + c.start - 1] = c.copy]
                                ELSE file
PROOF
  <1>1. PICK o, w, a :
          /\ o = Code("default", c.fun, c.self, c.by, c.self + c.argc, Promised(c))
          /\ w = [base |-> Reg(c.start), top |-> c.self + c.argc, low |-> c.self + c.argc,
                  blocks |-> <<>>, since |-> Len(insts'), under |-> Len(scopes), code |-> o]
          /\ a = (IF c.fun.rest THEN "gather" ELSE "entry")
    OBVIOUS
  <1>2. /\ o.at = "default" /\ o.fun = c.fun /\ o.self = c.self /\ o.by = c.by
        /\ o.promised = Promised(c)
        /\ o = [at |-> o.at, fun |-> o.fun, self |-> o.self, by |-> o.by, n |-> o.n, promised |-> o.promised]
    BY <1>1 DEF Code
  <1>3. w.base = cur.base + c.start /\ w.top = c.self + c.argc /\ w.code = o BY <1>1 DEF Reg
  <1>4. frames' = Append(frames, [cur EXCEPT !.top = c.keep]) BY DEF EnterCall
  <1>5. /\ c.argc < c.fun.max => cur' = w /\ native' = Append(below, c) /\ regs' = file
        /\ ~(c.argc < c.fun.max) => Settle(c, w, file, below)
    BY <1>1 DEF EnterCall
  <1>6. CASE c.argc < c.fun.max BY <1>2, <1>3, <1>4, <1>5, <1>6
  <1>7. CASE ~(c.argc < c.fun.max)
    <2>1. Settle(c, w, file, below) BY <1>5, <1>7
    <2>2. cur' = [w EXCEPT !.code.at = a] BY <1>1, <2>1 DEF Settle
    <2>3. /\ cur'.base = w.base /\ cur'.top = w.top /\ cur'.code = [o EXCEPT !.at = a]
      BY <1>1, <2>2
    <2>4. /\ cur'.code.at = a /\ cur'.code.fun = c.fun /\ cur'.code.self = c.self
          /\ cur'.code.by = c.by /\ cur'.code.promised = Promised(c)
      BY <1>2, <2>3
    <2>5. c.op = "call" BY DEF CallFits
    <2>6. \/ Binds(c) /\ native' = Append(below, c) /\ regs' = file
          \/ /\ ~Binds(c) /\ native' = below
             /\ regs' = IF c.self = 1 THEN [file EXCEPT ![w.base + c.start - 1] = c.copy] ELSE file
      BY <2>1, <2>5 DEF Settle, Binds
    <2> QED BY <1>1, <1>3, <1>4, <2>3, <2>4, <2>6
  <1> QED BY <1>6, <1>7

(* What is below the call: the calls there were, and C++ functions that    *)
(* know where they were interrupted.                                       *)
Interrupts(below) ==
  /\ \E S : below \in Seq(S)
  /\ \A i \in DOMAIN below :
       IF below[i].op = "call" THEN i \in DOMAIN native /\ native[i] = below[i]
       ELSE \E n : n = below[i] /\ Fits(n)'
  /\ \A i \in DOMAIN native : native[i].op = "call" => i \in DOMAIN below /\ below[i] = native[i]

(* How the window of c stands to its caller's values.                      *)
Placed(c) ==
  /\ Above([cur EXCEPT !.top = c.keep]) < cur.base + c.start
  /\ c.by = "code" => c.start = c.keep + 1
  /\ c.fun.rest => args' = c.argc
  /\ status # "running" /\ Depth = 1 => c.by # "code" /\ c.keep = 0

LEMMA EnterShape ==
  ASSUME RInv, DInv', NEW c, NEW file, NEW below, CallFits(c), Opened(c), ~AtLimit,
         EnterCall(c, file, below), Placed(c), Interrupts(below), status' = status
  PROVE  RInv'
PROOF
  <1>1. DInv /\ Inv /\ Typed /\ Shape /\ Windows BY DEF RInv, DInv
  <1>2. PICK N, x, y : N = Depth /\ x = [cur EXCEPT !.top = c.keep] /\ y = cur' OBVIOUS
  <1>3. /\ N \in Nat /\ N >= 1 /\ N = Len(frames) + 1 /\ Depth' = N + 1 /\ Len(frames') = N
        /\ Ctx'[N + 1] = y /\ Ctx'[N] = x /\ Ctx[N] = cur
        /\ \A k \in 1 .. N : Alike(Ctx[k], Ctx'[k])
        /\ \A k \in 1 .. Len(frames) : Ctx'[k] = Ctx[k]
        /\ c.start \in Nat /\ cur.base \in Nat
    BY <1>1, <1>2, OpenedContexts
  <1>4. /\ c.op = "call" /\ c.depth = N + 1 /\ c.keep \in Nat /\ c.argc \in Nat /\ c.self \in 0 .. 1
        /\ c.fun \in Callables
    BY <1>2 DEF CallFits
  <1>5. /\ y.base = cur.base + c.start /\ y.top = c.self + c.argc
        /\ y.code.fun = c.fun /\ y.code.self = c.self /\ y.code.by = c.by
        /\ y.code.promised = Promised(c)
    BY <1>1, <1>2, NewCode
  <1>6. \/ /\ y.code.at = "default" /\ c.argc < c.fun.max /\ native' = Append(below, c)
        \/ /\ y.code.at = (IF c.fun.rest THEN "gather" ELSE "entry")
           /\ (Binds(c) /\ native' = Append(below, c)) \/ (~Binds(c) /\ native' = below)
    BY <1>1, <1>2, NewCode
  <1>7. x.base = cur.base /\ x.code = cur.code /\ x.top = c.keep
    BY <1>1, <1>2 DEF Typed, Contexts
  <1>8. PICK S : below \in Seq(S) BY DEF Interrupts
  <1>9. PICK L : L = Len(below) OBVIOUS
  <1>10. L \in Nat /\ DOMAIN below = 1 .. L BY <1>8, <1>9
  <1>11. /\ DOMAIN below \subseteq DOMAIN native' /\ \A i \in DOMAIN below : native'[i] = below[i]
         /\ \A i \in DOMAIN native' : i \in DOMAIN below \/ (i = L + 1 /\ native'[i] = c /\ native' = Append(below, c))
    BY <1>6, <1>8, <1>9, <1>10
  <1>12. native' = Append(below, c) => L + 1 \in DOMAIN native' /\ native'[L + 1] = c
    BY <1>8, <1>9, <1>10
  <1>13. Separate'
    <2>1. \A k \in 1 .. N : Apart(Ctx'[k], Ctx'[k + 1])
      <3> TAKE k \in 1 .. N
      <3>1. CASE k = N
        <4>1. Above(x) < y.base BY <1>2, <1>5 DEF Placed
        <4>2. y.code.by = "code" => y.base = x.base + x.top + 1
          BY <1>3, <1>4, <1>5, <1>7 DEF Placed
        <4> QED BY <1>3, <3>1, <4>1, <4>2 DEF Apart
      <3>2. CASE k \in 1 .. Len(frames)
        <4>1. Apart(Ctx[k], Ctx[k + 1]) BY <1>1, <3>2 DEF Shape, Separate
        <4>2. Ctx'[k] = Ctx[k] /\ k + 1 \in 1 .. N BY <1>3, <3>2
        <4>3. Alike(Ctx[k + 1], Ctx'[k + 1]) BY <1>3, <4>2
        <4> QED BY <4>1, <4>2, <4>3 DEF Apart, Alike
      <3> QED BY <1>3, <3>1, <3>2
    <2> QED BY <1>3, <2>1 DEF Separate, Apart, Above
  <1>14. Promising'
    <2>1. \A k \in 1 .. N + 1 : Promises(Ctx'[k])
      <3> TAKE k \in 1 .. N + 1
      <3>1. CASE k = N + 1
        <4>1. Promised(c) => ~(c.self = 1 /\ (c.by = "code" \/ c.fun.rest))
                             /\ ~(c.fun.rest /\ c.argc < c.fun.max)
          BY DEF Promised
        <4>2. y.code.at = "default" => c.argc < c.fun.max BY <1>6
        <4>3. Promises(y) BY <1>5, <4>1, <4>2 DEF Promises
        <4> QED BY <1>3, <3>1, <4>3
      <3>2. CASE k \in 1 .. N
        <4>1. Promises(Ctx[k]) BY <1>1, <1>2, <3>2 DEF Shape, Promising
        <4>2. Alike(Ctx[k], Ctx'[k]) BY <1>3, <3>2
        <4> QED BY <4>1, <4>2 DEF Promises, Alike
      <3> QED BY <1>3, <3>1, <3>2
    <2> QED BY <1>3, <2>1 DEF Promising, Promises
  <1>15. Gathering'
    <2>1. ASSUME y.code.at = "gather", y.code.promised
          PROVE  args' = y.top /\ y.code.self = 0 /\ y.code.fun.max <= y.top
      <3>1. c.fun.rest /\ Promised(c) BY <1>5, <1>6, <2>1
      <3>2. c.self = 0 BY <1>4, <3>1 DEF Promised
      <3>3. args' = c.argc BY <3>1 DEF Placed
      <3>4. y.top = c.argc BY <1>4, <1>5, <3>2
      <3>5. ~(c.argc < c.fun.max) BY <3>1 DEF Promised
      <3>6. c.fun.max \in Nat BY <1>4, CallableFields
      <3> QED BY <1>4, <1>5, <3>2, <3>3, <3>4, <3>5, <3>6
    <2> QED BY <1>2, <2>1 DEF Gathering
  <1>16. Fitting'
    <2>1. ASSUME NEW i \in DOMAIN native' PROVE \E n : n = native'[i] /\ Fits(n)'
      <3>1. CASE i \in DOMAIN below /\ below[i].op # "call"
        BY <1>11, <3>1 DEF Interrupts
      <3>2. CASE i \in DOMAIN below /\ below[i].op = "call"
        <4>1. i \in DOMAIN native /\ native[i] = below[i] /\ native'[i] = below[i]
          BY <1>11, <3>2 DEF Interrupts
        <4>2. PICK n : n = native[i] /\ Fits(n) BY <1>1, <4>1 DEF Shape, Fitting
        <4>3. n.op = "call" /\ n = native'[i] BY <3>2, <4>1, <4>2
        <4>4. PICK d : d = n.depth OBVIOUS
        <4>5. d \in 2 .. N /\ Started(n, Ctx[d - 1], Ctx[d]) BY <1>2, <4>2, <4>3, <4>4 DEF Fits
        <4>6. d - 1 \in 1 .. N /\ d \in 1 .. N /\ d \in 2 .. N + 1 BY <1>3, <4>5
        <4>7. Alike(Ctx[d - 1], Ctx'[d - 1]) /\ Alike(Ctx[d], Ctx'[d]) BY <1>3, <4>6
        <4>8. Started(n, Ctx'[d - 1], Ctx'[d]) BY <4>5, <4>7 DEF Started, Alike
        <4>9. Fits(n)' BY <1>3, <4>3, <4>4, <4>6, <4>8 DEF Fits, Started, Binds
        <4> QED BY <4>3, <4>9
      <3>3. CASE native'[i] = c /\ native' = Append(below, c)
        <4>1. ~Binds(c) => y.code.at = "default"
          <5>1. native' # below
            <6>1. L + 1 \in DOMAIN native' /\ L + 1 \notin DOMAIN below BY <1>10, <1>12, <3>3
            <6> QED BY <6>1
          <5> QED BY <1>6, <5>1
        <4>2. c.by = "code" => c.start >= 1 BY <1>4 DEF Placed
        <4>3. Started(c, x, y) BY <1>3, <1>5, <1>7, <4>1, <4>2 DEF Started
        <4>4. N + 1 \in 2 .. N + 1 /\ N + 1 - 1 = N BY <1>3
        <4>5. Ctx'[c.depth - 1] = x /\ Ctx'[c.depth] = y BY <1>3, <1>4, <4>4
        <4>6. Fits(c)' BY <1>3, <1>4, <4>3, <4>4, <4>5 DEF Fits, Started, Binds
        <4> QED BY <3>3, <4>6
      <3> QED BY <1>11, <3>1, <3>2, <3>3
    <2> QED BY <2>1 DEF Fitting
  <1>17. \A i \in DOMAIN native' : native'[i].op = "call" =>
           \/ i \in DOMAIN below /\ i \in DOMAIN native /\ native'[i] = native[i] /\ native[i].depth \in 2 .. N
           \/ i = L + 1 /\ native'[i].depth = N + 1
    <2> TAKE i \in DOMAIN native'
    <2>1. CASE i \in DOMAIN below
      <3>1. ASSUME native'[i].op = "call"
            PROVE  i \in DOMAIN native /\ native'[i] = native[i] /\ native[i].depth \in 2 .. N
        <4>1. i \in DOMAIN native /\ native'[i] = native[i] BY <1>11, <2>1, <3>1 DEF Interrupts
        <4>2. PICK n : n = native[i] /\ Fits(n) BY <1>1, <4>1 DEF Shape, Fitting
        <4>3. n.depth \in 2 .. N BY <1>2, <3>1, <4>1, <4>2 DEF Fits
        <4> QED BY <4>1, <4>2, <4>3
      <3> QED BY <2>1, <3>1
    <2>2. CASE i = L + 1 /\ native'[i] = c BY <1>4, <2>2
    <2> QED BY <1>11, <2>1, <2>2
  <1>18. Deeper'
    <2>1. ASSUME NEW i \in DOMAIN native', NEW j \in DOMAIN native', i < j,
                 native'[i].op = "call", native'[j].op = "call"
          PROVE  native'[i].depth < native'[j].depth
      <3>1. CASE j \in DOMAIN below /\ j \in DOMAIN native /\ native'[j] = native[j]
        <4>1. i \in DOMAIN native /\ native'[i] = native[i]
          <5>1. i # L + 1 BY <1>10, <2>1, <3>1
          <5> QED BY <1>17, <2>1, <5>1
        <4> QED BY <1>1, <2>1, <3>1, <4>1 DEF Shape, Deeper
      <3>2. CASE j = L + 1 /\ native'[j].depth = N + 1
        <4>1. native'[i].depth \in 2 .. N
          <5>1. i # L + 1 BY <1>10, <2>1, <3>2
          <5> QED BY <1>17, <2>1, <5>1
        <4> QED BY <1>3, <3>2, <4>1
      <3> QED BY <1>17, <2>1, <3>1, <3>2
    <2> QED BY <2>1 DEF Deeper
  <1>19. Computing'
    <2>1. ASSUME NEW k \in 2 .. N + 1, Ctx'[k].code.at = "default"
          PROVE  \E i \in DOMAIN native' : native'[i].op = "call" /\ native'[i].depth = k
      <3>1. CASE k = N + 1
        <4>1. y.code.at = "default" BY <1>3, <2>1, <3>1
        <4>2. native' = Append(below, c) BY <1>6, <4>1
        <4> QED BY <1>4, <1>12, <3>1, <4>2
      <3>2. CASE k \in 2 .. N
        <4>1. k \in 1 .. N BY <3>2
        <4>2. Alike(Ctx[k], Ctx'[k]) BY <1>3, <4>1
        <4>3. Ctx[k].code.at = "default" BY <2>1, <4>2 DEF Alike
        <4>4. PICK i \in DOMAIN native : native[i].op = "call" /\ native[i].depth = k
          BY <1>1, <1>2, <3>2, <4>3 DEF Shape, Computing
        <4>5. i \in DOMAIN below /\ below[i] = native[i] BY <4>4 DEF Interrupts
        <4> QED BY <1>11, <4>4, <4>5
      <3> QED BY <1>3, <3>1, <3>2
    <2> QED BY <1>3, <2>1 DEF Computing
  <1>20. Idle'
    <2>1. ASSUME status # "running" PROVE Ctx'[1].top = 0 /\ Ctx'[2].code.by # "code"
      <3>1. CASE N = 1
        <4>1. c.by # "code" /\ c.keep = 0 BY <1>2, <2>1, <3>1 DEF Placed
        <4> QED BY <1>3, <1>5, <1>7, <3>1, <4>1
      <3>2. CASE N > 1
        <4>1. Ctx[1].top = 0 /\ Ctx[2].code.by # "code" BY <1>1, <1>2, <2>1, <3>2 DEF Shape, Idle
        <4>2. 1 \in 1 .. Len(frames) /\ 2 \in 1 .. N BY <1>3, <3>2
        <4>3. Ctx'[1] = Ctx[1] /\ Alike(Ctx[2], Ctx'[2]) BY <1>3, <4>2
        <4> QED BY <4>1, <4>3 DEF Alike
      <3> QED BY <1>3, <3>1, <3>2
    <2> QED BY <2>1 DEF Idle
  <1> QED BY <1>13, <1>14, <1>15, <1>16, <1>18, <1>19, <1>20 DEF RInv, Shape

LEMMA EnterSame ==
  ASSUME Typed, NEW c, NEW file, NEW below, CallFits(c), EnterCall(c, file, below), Placed(c),
         NEW limit \in Int, limit <= cur.base + c.start, From(file, limit), DOMAIN file = DOMAIN regs
  PROVE  Same(limit)
PROOF
  <1>1. PICK a : a = cur'.base + c.start - 1 OBVIOUS
  <1>2. /\ cur'.base = cur.base + c.start
        /\ regs' = file \/ (~Binds(c) /\ regs' = [file EXCEPT ![a] = c.copy])
    BY <1>1, NewCode
  <1>3. ~Binds(c) => limit <= a
    <2>1. c.start \in Nat /\ c.keep \in Nat /\ cur.base \in Nat
      BY DEF CallFits, Typed, Contexts
    <2>2. ~Binds(c) => c.start >= 1 BY <2>1 DEF Binds, Placed
    <2> QED BY <1>1, <1>2, <2>1, <2>2
  <1>4. ASSUME NEW b \in 0 .. NumRegs - 1, b < limit PROVE regs'[b] = regs[b]
    <2>1. file[b] = regs[b] /\ b \in DOMAIN file BY <1>4 DEF From, Typed
    <2>2. CASE regs' = file BY <2>1, <2>2
    <2>3. CASE ~Binds(c) /\ regs' = [file EXCEPT ![a] = c.copy]
      <3>1. b # a
        <4>1. NumRegs \in Nat /\ c.start \in Nat /\ cur.base \in Nat BY Sizes DEF CallFits, Typed, Contexts
        <4> QED BY <1>1, <1>2, <1>3, <1>4, <2>3, <4>1
      <3> QED BY <2>1, <2>3, <3>1
    <2> QED BY <1>2, <2>2, <2>3
  <1> QED BY <1>4 DEF Same

(* The caller keeps its first k values, and the new activation has what it *)
(* was passed of the others.                                               *)
LEMMA EnterFollows ==
  ASSUME RInv, DInv', NEW c, NEW file, NEW below, CallFits(c), Opened(c), ~AtLimit,
         EnterCall(c, file, below), Placed(c), Interrupts(below), status' = status,
         status \notin {"over", "aborted"}, c.keep <= cur.top,
         NEW limit \in Int, Above([cur EXCEPT !.top = c.keep]) <= limit, cur.base - 1 <= limit,
         limit <= cur.base + c.start, From(file, limit), DOMAIN file = DOMAIN regs,
         NEW k, k = (IF cur.code.at = "leaving" THEN 1 ELSE c.keep),
         Promised(c) =>
           Promise!Passed(Act(regs', cur'), SubSeq(Vals(regs, cur), k + 1, Len(Vals(regs, cur))))
  PROVE  RInv' /\ Follows
PROOF
  <1>1. RInv' BY EnterShape
  <1>2. DInv /\ Typed /\ Windows /\ cur \in Contexts /\ frames' \in Seq(Contexts) BY DEF RInv, DInv, Typed
  <1>3. PICK N, m, x, y : N = Depth /\ m = Len(frames) /\ x = [cur EXCEPT !.top = c.keep] /\ y = cur'
    OBVIOUS
  <1>4. /\ N \in Nat /\ N >= 1 /\ N = m + 1 /\ m \in Nat /\ Depth' = N + 1 /\ Len(frames') = N
        /\ Ctx'[N + 1] = y /\ Ctx'[N] = x /\ Ctx[N] = cur
        /\ (\A j \in 1 .. m : Ctx'[j] = Ctx[j])
        /\ cur.base \in Nat /\ c.keep \in Nat
    BY <1>2, <1>3, OpenedContexts DEF CallFits
  <1>5. Same(limit) BY <1>2, EnterSame
  <1>6. Same(cur.base - 1)
    <2>1. cur.base - 1 \in Int BY <1>4
    <2> QED BY <1>5, <2>1, SameFrom
  <1>7. PICK S : Stack \in Seq(S) BY <1>2, StackFacts
  <1>8. PICK T : Stack' \in Seq(T) BY <1>2, NextStackFacts
  <1>9. /\ Len(Stack) = N /\ (\A j \in 1 .. N : Stack[j] = Act(regs, Ctx[j]))
        /\ Len(Stack') = N + 1 /\ (\A j \in 1 .. N + 1 : Stack'[j] = Act(regs', Ctx'[j]))
    BY <1>2, <1>3, <1>4, StackFacts, NextStackFacts
  <1>10. SubSeq(Stack', 1, m) = SubSeq(Stack, 1, m)
    <2>1. \A j \in 1 .. m : Stack'[j] = Stack[j]
      <3> TAKE j \in 1 .. m
      <3>1. Vals(regs', Ctx[j]) = Vals(regs, Ctx[j]) BY <1>3, <1>6, CallersKept
      <3>2. j \in 1 .. N /\ j \in 1 .. N + 1 BY <1>4
      <3> QED BY <1>4, <1>9, <3>1, <3>2 DEF Act
    <2>2. m <= Len(Stack') /\ m <= Len(Stack) /\ m \in Nat BY <1>4, <1>9
    <2> QED BY <1>7, <1>8, <2>1, <2>2, Agree
  <1>11. PICK old, new, l : old = Vals(regs, cur) /\ new = Vals(regs', x) /\ l = Len(old) OBVIOUS
  <1>12. PICK U : old \in Seq(U) BY <1>2, <1>11, ValsSeq
  <1>13. x \in Contexts /\ x.base = cur.base /\ x.code = cur.code /\ x.top = c.keep
    BY <1>2, <1>3, <1>4 DEF Contexts
  <1>14. PICK V : new \in Seq(V) BY <1>11, <1>13, ValsSeq
  <1>15. k \in 0 .. l /\ l \in Nat /\ Len(new) = k /\ \A i \in 1 .. k : new[i] = old[i]
    <2>1. CASE cur.code.at = "leaving"
      <3>1. /\ k = 1 /\ l = 1 /\ old[1] = regs[cur.base - 1]
            /\ Len(new) = 1 /\ new[1] = regs'[cur.base - 1]
        <4>1. cur \in Contexts /\ x \in Contexts /\ x.code.at = "leaving" /\ x.base = cur.base
          BY <1>2, <1>13, <2>1
        <4>2. l = 1 /\ old[1] = regs[cur.base - 1] BY <1>11, <2>1, <4>1, ValsSeq
        <4>3. Len(new) = 1 /\ new[1] = regs'[x.base - 1] BY <1>11, <4>1, ValsSeq
        <4> QED BY <2>1, <4>1, <4>2, <4>3
      <3>2. Vals(regs', cur) = Vals(regs, cur)
        <4>1. Above(cur) <= limit BY <1>3, <1>13, <2>1 DEF Above
        <4>2. Depth \in 1 .. Depth /\ Ctx[Depth] = cur BY <1>3, <1>4
        <4> QED BY <1>2, <1>5, <4>1, <4>2, ValsKept
      <3>3. regs'[cur.base - 1] = regs[cur.base - 1]
        <4>1. Vals(regs', cur)[1] = regs'[cur.base - 1] /\ Vals(regs, cur)[1] = regs[cur.base - 1]
          BY <1>2, <2>1, ValsSeq
        <4> QED BY <3>2, <4>1
      <3> QED BY <3>1, <3>3
    <2>2. CASE cur.code.at # "leaving"
      <3>1. /\ k = c.keep /\ l = cur.top /\ \A i \in 1 .. cur.top : old[i] = regs[cur.base + i - 1]
        BY <1>2, <1>11, <2>2, ValsSeq
      <3>2. /\ Len(new) = k /\ \A i \in 1 .. k : new[i] = regs'[cur.base + i - 1]
        BY <1>11, <1>13, <2>2, <3>1, ValsSeq
      <3>3. cur.top \in Nat /\ cur.top < Width BY <1>2, TopFacts
      <3>4. \A i \in 1 .. k : new[i] = old[i]
        <4> TAKE i \in 1 .. k
        <4>1. PICK b : b = cur.base + i - 1 OBVIOUS
        <4>2. /\ i \in 1 .. cur.top /\ i - 1 \in Nat /\ i - 1 < cur.top /\ b = cur.base + (i - 1)
              /\ b < cur.base + k /\ k > 0
          <5>1. PICK v, t : v = cur.base /\ t = cur.top OBVIOUS
          <5>2. v \in Nat /\ t \in Nat /\ k \in Nat /\ k <= t /\ b = v + i - 1 /\ i \in 1 .. k
            BY <1>4, <3>1, <3>3, <4>1, <5>1
          <5>3. i \in 1 .. t /\ i - 1 \in Nat /\ i - 1 < t /\ b = v + (i - 1) /\ b < v + k /\ k > 0
            BY ONLY <5>2
          <5> QED BY <5>1, <5>3
        <4>3. i - 1 < Width
          <5>1. PICK t, w : t = cur.top /\ w = Width OBVIOUS
          <5>2. t \in Nat /\ w \in Nat /\ t < w /\ i - 1 \in Nat /\ i - 1 < t BY <3>3, <4>2, <5>1, Sizes
          <5>3. i - 1 < w BY ONLY <5>2
          <5> QED BY <5>1, <5>3
        <4>4. Reg(i - 1) \in 0 .. NumRegs - 1 BY <1>2, <4>2, <4>3, InThisWindow
        <4>5. b \in 0 .. NumRegs - 1 BY <4>2, <4>4 DEF Reg
        <4>6. Above(x) = cur.base + k BY <1>13, <2>2, <3>1, <4>2 DEF Above
        <4>7. b < limit
          <5>1. cur.base + k <= limit BY <1>3, <4>6
          <5>2. k \in Nat BY <1>4, <3>1
          <5>3. PICK v : v = cur.base OBVIOUS
          <5>4. v \in Nat /\ b = v + (i - 1) /\ i - 1 \in Nat /\ b < v + k /\ v + k <= limit
            BY <1>4, <4>2, <5>1, <5>3
          <5>5. limit \in Int OBVIOUS
          <5> QED BY ONLY <5>2, <5>4, <5>5
        <4>8. regs'[b] = regs[b] BY <1>5, <4>5, <4>7 DEF Same
        <4> QED BY <3>1, <3>2, <4>1, <4>2, <4>8
      <3> QED BY <1>4, <3>1, <3>2, <3>3, <3>4
    <2> QED BY <2>1, <2>2
  <1>16. new = SubSeq(old, 1, k)
    <2>1. k \in Nat /\ k <= Len(new) /\ k <= Len(old) BY <1>11, <1>15
    <2>2. SubSeq(new, 1, k) = SubSeq(old, 1, k) BY <1>12, <1>14, <1>15, <2>1, Agree
    <2>3. SubSeq(new, 1, k) = new
      <3>1. SubSeq(new, 1, Len(new)) = new BY <1>14
      <3> QED BY <1>15, <3>1
    <2> QED BY <2>2, <2>3
  <1>17. N \in 1 .. N /\ N \in 1 .. N + 1 /\ N + 1 \in 1 .. N + 1 BY <1>4
  <1>18. Stack[N] = Act(regs, cur) /\ Stack'[N] = Act(regs', x) /\ Stack'[N + 1] = Act(regs', y)
    BY <1>4, <1>9, <1>17
  <1>19. /\ Stack[N].vals = old /\ Stack'[N] = [Stack[N] EXCEPT !.vals = SubSeq(@, 1, k)]
         /\ Stack'[N + 1].promised = Promised(c)
    <2>1. y.code.promised = Promised(c) BY <1>2, <1>3, NewCode
    <2>2. Stack[N].vals = old BY <1>11, <1>18 DEF Act
    <2>3. Stack'[N] = [Stack[N] EXCEPT !.vals = new] BY <1>11, <1>13, <1>18 DEF Act
    <2>4. Stack'[N + 1].promised = Promised(c) BY <1>18, <2>1 DEF Act
    <2> QED BY <1>16, <2>2, <2>3, <2>4
  <1>20. Promise!Entered
    <2>1. N < MaxDepth + 1
      <3>1. m <= MaxDepth /\ m # MaxDepth /\ MaxDepth \in Nat
        BY <1>2, <1>3, Sizes DEF Typed, AtLimit
      <3> QED BY <1>4, <3>1
    <2>2. N - 1 = m BY <1>4
    <2>3. Stack'[N + 1].promised =>
            Promise!Passed(Stack'[N + 1], SubSeq(Stack[N].vals, k + 1, Len(Stack[N].vals)))
      BY <1>3, <1>11, <1>18, <1>19
    <2>4. \E j \in 0 .. Len(Stack[N].vals) :
            /\ Stack'[N] = [Stack[N] EXCEPT !.vals = SubSeq(@, 1, j)]
            /\ Stack'[N + 1].promised =>
                 Promise!Passed(Stack'[N + 1], SubSeq(Stack[N].vals, j + 1, Len(Stack[N].vals)))
      BY <1>11, <1>15, <1>19, <2>3
    <2> QED BY <1>9, <1>10, <2>1, <2>2, <2>4, StepsOfStack
  <1> QED BY <1>1, <1>20 DEF Follows, Promise!Next

-----------------------------------------------------------------------------
(* Calls that the program makes.                                          *)

LEMMA FitsUnder ==
  ASSUME Typed, NEW c, CallFits(c), Opened(c), ~AtLimit, NEW n, Fits(n), n.op # "call",
         n.depth \in 1 .. Len(frames)
  PROVE  Fits(n)'
PROOF
  <1>1. Ctx'[n.depth] = Ctx[n.depth] BY OpenedContexts
  <1> QED BY <1>1 DEF Fits, Above

(* A call of a function, a method or a constructor by code.                *)
LEMMA CodeEnters ==
  ASSUME RInv, DInv', At({"script", "default", "body"}), NEW p \in Temporaries,
         args' = cur.top - p - 1, HeapGrows, NoneEnds, active' = active, status' = status,
         NEW c, CallFits(c), ~Mismatch(c), ~AtLimit, c.start = p + 1, c.keep = p, c.argc = args',
         NEW file, From(file, cur.base + p), DOMAIN file = DOMAIN regs,
         NEW below, EnterCall(c, file, below),
         \/ c.by = "code" /\ below = native
         \/ /\ c.by = "make"
            /\ \E x : below = Append(native, x) /\ x.op = "make" /\ x.start = p + 1 /\ x.depth = Depth,
         Promised(c) =>
           Promise!Passed(Act(regs', cur'), SubSeq(Vals(regs, cur), p + 1, Len(Vals(regs, cur))))
  PROVE  RInv' /\ Follows
PROOF
  <1>1. Executing /\ cur.code.at \in {"script", "default", "body"} BY DEF At
  <1>2. /\ DInv /\ Inv /\ Typed /\ Shape /\ status \notin {"over", "aborted"} /\ cur \in Contexts
        /\ cur.base \in Nat /\ cur.top \in Nat
    BY <1>1, CodeFacts
  <1>3. p \in Nat /\ p < cur.top BY <1>2, TemporaryFacts
  <1>4. \A i \in DOMAIN insts : /\ insts'[i].made = insts[i].made
                                /\ insts'[i].literal => insts[i].literal
    BY DEF NoneEnds
  <1>5. Opened(c) BY <1>2, <1>4, EnterInterrupts
  <1>6. PICK x : x = [cur EXCEPT !.top = c.keep] OBVIOUS
  <1>7. x.top = p /\ x.base = cur.base /\ x.code.at # "leaving" BY <1>1, <1>2, <1>6 DEF Contexts
  <1>8. PICK limit : limit = cur.base + p OBVIOUS
  <1>9. limit \in Int /\ Above(x) <= limit /\ limit < cur.base + c.start /\ cur.base - 1 <= limit
    BY <1>2, <1>3, <1>7, <1>8 DEF Above
  <1>10. Placed(c)
    <2>1. Above(x) < cur.base + c.start
      <3>1. Above(x) \in Int BY <1>2, <1>3, <1>7 DEF Above
      <3> QED BY <1>2, <1>3, <1>9, <3>1
    <2>2. status # "running" => Depth # 1
      <3>1. status # "running" => Depth >= 2
        BY <1>1, <1>2, CodeAlone DEF DInv
      <3> QED BY <3>1
    <2> QED BY <1>6, <2>1, <2>2 DEF Placed
  <1>11. Interrupts(below)
    <2>1. \A i \in DOMAIN native : native[i].op # "call" => \E n : n = native[i] /\ Fits(n)'
      <3> TAKE i \in DOMAIN native
      <3> HAVE native[i].op # "call"
      <3>1. PICK n : n = native[i] /\ Fits(n) BY <1>2 DEF Shape, Fitting
      <3>2. n.op # "call" /\ n.depth \in 1 .. Len(frames)
        BY <1>1, <1>2, <3>1, CodeAlone DEF DInv
      <3> QED BY <1>2, <1>5, <3>1, <3>2, FitsUnder
    <2>2. PICK S : native \in Seq(S) BY <1>2, TheNative
    <2>3. CASE c.by = "code" /\ below = native BY <2>1, <2>2, <2>3 DEF Interrupts
    <2>4. CASE c.by = "make"
      <3>1. PICK m : below = Append(native, m) /\ m.op = "make" /\ m.start = p + 1 /\ m.depth = Depth
        BY <2>4
      <3>2. Ctx'[Depth] = x BY <1>2, <1>5, <1>6, OpenedContexts
      <3>3. m.start - 1 = p BY <1>3, <3>1
      <3>4. Ctx'[m.depth].top = m.start - 1 BY <1>7, <3>1, <3>2, <3>3
      <3>5. Fits(m)' BY <3>1, <3>4 DEF Fits
      <3>6. PICK l : l = Len(native) OBVIOUS
      <3>7. /\ l \in Nat /\ DOMAIN native = 1 .. l /\ DOMAIN below = 1 .. l + 1
            /\ \A i \in 1 .. l : below[i] = native[i]
            /\ below[l + 1] = m /\ below \in Seq(S \cup {m})
        BY <2>2, <3>1, <3>6
      <3>8. \A i \in DOMAIN below : (i \in DOMAIN native /\ below[i] = native[i]) \/ below[i] = m
        BY <3>7
      <3>9. \A i \in DOMAIN native : i \in DOMAIN below /\ below[i] = native[i] BY <3>7
      <3>10. \A i \in DOMAIN below :
               IF below[i].op = "call" THEN i \in DOMAIN native /\ native[i] = below[i]
               ELSE \E n : n = below[i] /\ Fits(n)'
        <4> TAKE i \in DOMAIN below
        <4>1. CASE below[i] = m BY <3>1, <3>5, <4>1
        <4>2. CASE i \in DOMAIN native /\ below[i] = native[i] BY <2>1, <4>2
        <4> QED BY <3>8, <4>1, <4>2
      <3> QED BY <3>7, <3>9, <3>10 DEF Interrupts
    <2> QED BY <2>3, <2>4
  <1>12. p = (IF cur.code.at = "leaving" THEN 1 ELSE c.keep) /\ c.keep <= cur.top BY <1>1, <1>2, <1>3
  <1>13. limit <= cur.base + c.start BY <1>2, <1>3, <1>9
  <1>14. Above([cur EXCEPT !.top = c.keep]) <= limit /\ From(file, limit) BY <1>6, <1>8, <1>9
  <1>15. DInv' /\ status \notin {"over", "aborted"} BY <1>2
  <1> QED BY <1>5, <1>9, <1>10, <1>11, <1>12, <1>13, <1>14, <1>15, EnterFollows

(* What a call finds behind the p values that its caller keeps: t is the   *)
(* callee and the arguments u.                                             *)
Given(s, p, t, u) ==
  /\ Len(s) \in Nat /\ Len(t) = Len(s) - p /\ t # <<>> /\ t[1] = s[p + 1]
  /\ \E S : t \in Seq(S) /\ u \in Seq(S)
  /\ Len(u) = Len(s) - p - 1 /\ \A i \in 1 .. Len(s) - p - 1 : u[i] = s[p + 1 + i]

LEMMA Rest ==
  ASSUME NEW S, NEW s \in Seq(S), NEW p \in Nat, p < Len(s),
         NEW t, t = SubSeq(s, p + 1, Len(s)), NEW u, u = SubSeq(t, 1 + 1, Len(t))
  PROVE  Given(s, p, t, u)
PROOF
  <1>0. PICK l : l = Len(s) OBVIOUS
  <1>1. l \in Nat /\ DOMAIN s = 1 .. l /\ p < l /\ (\A i \in 1 .. l : s[i] \in S) /\ t = SubSeq(s, p + 1, l)
    BY <1>0
  <1>2. t = [i \in 1 .. l - p |-> s[p + i]]
    <2>1. t = [i \in 1 .. l - (p + 1) + 1 |-> s[p + 1 + i - 1]]
      <3>1. t = SubSeq(s, p + 1, l) /\ l \in Nat /\ p \in Nat /\ s \in Seq(S) BY <1>1
      <3> QED BY ONLY <3>1
    <2>2. l - (p + 1) + 1 = l - p /\ \A i \in 1 .. l - p : p + 1 + i - 1 = p + i BY <1>1
    <2> QED BY <2>1, <2>2
  <1>3. t \in Seq(S) /\ Len(t) = l - p /\ \A i \in 1 .. l - p : t[i] = s[p + i]
    <2>1. \A i \in 1 .. l - p : s[p + i] \in S BY <1>1
    <2>2. l - p \in Nat BY <1>1
    <2> QED BY <1>2, <2>1, <2>2
  <1>4. PICK n : n = l - p OBVIOUS
  <1>5. u \in Seq(S) /\ Len(u) = n - 1 /\ \A i \in 1 .. n - 1 : u[i] = t[1 + i]
    <2>1. n \in Nat /\ n >= 1 /\ n = Len(t) /\ \A i \in 1 .. n : t[i] \in S BY ONLY <1>1, <1>3, <1>4
    <2>2. u = SubSeq(t, 2, n) BY <2>1
    <2>3. 2 \in Int /\ n \in Int /\ \A i \in 2 .. n : t[i] \in S BY <2>1
    <2>4. /\ u \in Seq(S) /\ Len(u) = IF 2 <= n THEN n - 2 + 1 ELSE 0
          /\ \A i \in 1 .. n - 2 + 1 : u[i] = t[2 + i - 1]
      BY <2>2, <2>3, SubSeqProperties
    <2>5. n - 2 + 1 = n - 1 /\ (n < 2 => n - 1 = 0) /\ \A i \in 1 .. n - 1 : 2 + i - 1 = 1 + i BY <2>1
    <2> QED BY ONLY <2>1, <2>4, <2>5
  <1>6. \A i \in 1 .. l - p - 1 : u[i] = s[p + 1 + i]
    <2> TAKE i \in 1 .. l - p - 1
    <2>1. 1 + i \in 1 .. l - p /\ p + (1 + i) = p + 1 + i BY <1>1
    <2>2. i \in 1 .. n - 1 BY <1>4
    <2> QED BY <1>3, <1>5, <2>1, <2>2
  <1>7. t # <<>> /\ t[1] = s[p + 1]
    <2>1. 1 \in 1 .. l - p BY <1>1
    <2>2. Len(t) # 0 BY ONLY <1>1, <1>3
    <2> QED BY ONLY <1>3, <2>1, <2>2
  <1> QED BY <1>0, <1>1, <1>3, <1>4, <1>5, <1>6, <1>7 DEF Given

LEMMA CallFuncFollows ==
  ASSUME RInv, NEW p, NEW f \in Funs, CallFunc(p, f)
  PROVE  RInv' /\ Follows
PROOF
  <1>1. DInv /\ Inv /\ Typed BY DEF RInv, DInv
  <1>2. DInv' BY <1>1, CallFuncKeeps
  <1>3. CallObj(p) BY DEF CallFunc
  <1>4. /\ At({"script", "default", "body"}) /\ Executing /\ p \in Temporaries
        /\ args' = cur.top - p - 1 /\ args' \in 0 .. Width
    BY <1>1, <1>3, CallObjArgs
  <1>5. PICK c : c = Call(f, 0, "code", p + 1, args', p, Invalid) OBVIOUS
  <1>6. /\ UNCHANGED heap /\ regs[Reg(p)] = Callee
        /\ IF ~AtLimit /\ Mismatch(c)
           THEN Throw
           ELSE CallUserFunc(c, regs, native) /\ UNCHANGED <<active, status, missed>>
    BY <1>5 DEF CallFunc
  <1>7. /\ c.op = "call" /\ c.fun = f /\ c.self = 0 /\ c.by = "code" /\ c.start = p + 1
        /\ c.argc = args' /\ c.keep = p /\ c.was = implicit /\ c.depth = Depth + 1
    <2>1. Len(frames) + 2 = Depth + 1 BY <1>1, TheContexts
    <2> QED BY <1>5, <2>1, TheCall
  <1>8. From(regs, cur.base + p) BY DEF From
  <1>9. CASE ~AtLimit /\ Mismatch(c) BY <1>2, <1>6, <1>9, ThrowFollows
  <1>10. CASE AtLimit
    <2>1. RefuseCall(c, regs, native) /\ status' = status BY <1>6, <1>10 DEF CallUserFunc
    <2> QED BY <1>2, <1>4, <1>7, <1>8, <1>10, <2>1, CodeRefused
  <1>11. CASE ~AtLimit /\ ~Mismatch(c)
    <2>1. EnterCall(c, regs, native) /\ status' = status /\ active' = active
      BY <1>6, <1>11 DEF CallUserFunc
    <2>2. HeapGrows /\ NoneEnds BY <1>1, <1>6, HeapStays
    <2>3. CallFits(c)
      <3>1. f \in Callables BY CallableFields
      <3> QED BY <1>1, <1>4, <1>7, <3>1, CodeCallFits
    <2>4. /\ cur'.base = cur.base + c.start /\ cur'.top = c.self + c.argc /\ regs' = regs
          /\ cur'.code.by = "code" /\ cur'.code.at # "leaving"
      <3>1. /\ cur'.base = cur.base + c.start /\ cur'.top = c.self + c.argc /\ cur'.code.by = c.by
            /\ cur'.code.at \in {"default", "gather", "entry"}
            /\ regs' = regs \/ (c.self = 1 /\ regs' = [regs EXCEPT ![cur'.base + c.start - 1] = c.copy])
        BY <1>1, <2>1, <2>3, NewCode
      <3> QED BY <1>7, <3>1
    <2>5. /\ cur \in Contexts /\ cur' \in Contexts /\ cur.base \in Nat /\ cur.top \in Nat
          /\ cur.code.at # "leaving" /\ p \in Nat /\ p < cur.top
      BY <1>1, <1>2, <1>4, CodeFacts, TemporaryFacts DEF DInv, Typed, At
    <2>6. PICK old, new, u, t : /\ old = Vals(regs, cur) /\ new = Vals(regs', cur') /\ u = cur.top
                                /\ t = SubSeq(old, p + 1, Len(old))
      OBVIOUS
    <2>7. PICK S : old \in Seq(S) BY <2>5, <2>6, ValsSeq
    <2>8. PICK T : new \in Seq(T) BY <2>5, <2>6, ValsSeq
    <2>9. Len(old) = u /\ \A i \in 1 .. u : old[i] = regs[cur.base + i - 1] BY <2>5, <2>6, ValsSeq
    <2>10. PICK a : a = args' OBVIOUS
    <2>11. a = u - p - 1 /\ a \in Nat BY <1>4, <2>5, <2>6, <2>10
    <2>12. Len(new) = a /\ \A i \in 1 .. a : new[i] = regs[cur.base + p + i]
      <3>1. cur'.top = a /\ cur'.base = cur.base + (p + 1) BY <1>7, <2>4, <2>10, <2>11
      <3>2. Len(new) = cur'.top /\ \A i \in 1 .. cur'.top : new[i] = regs'[cur'.base + i - 1]
        BY <2>4, <2>5, <2>6, ValsSeq
      <3>3. \A i \in 1 .. a : cur'.base + i - 1 = cur.base + p + i BY <2>5, <3>1
      <3> QED BY <2>4, <3>1, <3>2, <3>3
    <2>13. PICK r : r = SubSeq(t, 1 + 1, Len(t)) OBVIOUS
    <2>18. /\ t # <<>> /\ t[1] = old[p + 1] /\ Len(r) = a
           /\ (\E R : r \in Seq(R)) /\ \A i \in 1 .. a : r[i] = old[p + 1 + i]
      <3>1. p < Len(old) /\ u = Len(old) BY <2>5, <2>6, <2>9
      <3>2. Given(old, p, t, r) BY <2>5, <2>6, <2>7, <2>13, <3>1, Rest
      <3>3. Len(old) - p - 1 = a BY <2>11, <3>1
      <3> QED BY <3>2, <3>3 DEF Given
    <2>14. t[1] = Callee
      <3>1. p + 1 \in 1 .. u /\ cur.base + (p + 1) - 1 = cur.base + p BY <2>5, <2>6
      <3>2. old[p + 1] = regs[cur.base + (p + 1) - 1] BY <2>9, <3>1
      <3> QED BY <1>6, <2>18, <3>1, <3>2 DEF Reg
    <2>15. new = r
      <3>1. \A i \in 1 .. a : new[i] = r[i]
        <4> TAKE i \in 1 .. a
        <4>1. PICK b : b = cur.base OBVIOUS
        <4>2. b \in Nat /\ p \in Nat /\ u \in Nat /\ a = u - p - 1 /\ i \in 1 .. a
          BY <2>5, <2>6, <2>11, <4>1
        <4>3. p + 1 + i \in 1 .. u /\ b + (p + 1 + i) - 1 = b + p + i BY ONLY <4>2
        <4> QED BY <2>9, <2>12, <2>18, <4>1, <4>3
      <3> QED BY <2>8, <2>12, <2>18, <3>1
    <2>16. new = Promise!Receiver(t[1]) \o Promise!After(t, 1)
      <3>1. Promise!Receiver(t[1]) = <<>> BY <2>14 DEF Promise!Receiver, Callee
      <3>2. new = <<>> \o r BY <2>15, <2>18
      <3> QED BY <2>13, <3>1, <3>2 DEF Promise!After
    <2>17. Promise!Passed(Act(regs', cur'), t)
      <3>1. Act(regs', cur').by = "code" /\ Act(regs', cur').vals = new BY <2>4, <2>6 DEF Act
      <3> QED BY <2>16, <2>18, <3>1 DEF Promise!Passed
    <2> QED BY <1>2, <1>4, <1>7, <1>8, <1>11, <2>1, <2>2, <2>3, <2>6, <2>17, CodeEnters
  <1> QED BY <1>9, <1>10, <1>11

LEMMA CallMethodFollows ==
  ASSUME RInv, NEW p, CallMethod(p)
  PROVE  RInv' /\ Follows
PROOF
  <1>1. DInv /\ Inv /\ Typed BY DEF RInv, DInv
  <1>2. DInv' BY <1>1, CallMethodKeeps
  <1>3. CallObj(p) BY DEF CallMethod
  <1>4. /\ At({"script", "default", "body"}) /\ Executing /\ p \in Temporaries
        /\ args' = cur.top - p - 1 /\ args' \in 0 .. Width
    BY <1>1, <1>3, CallObjArgs
  <1>5. PICK m : m = regs[Reg(p)] OBVIOUS
  <1>6. PICK c, file : /\ c = Call(m.of.method, 1, "code", p + 1, args', p, m)
                       /\ file = Shifted(c, InstV(bound[m.of]))
    OBVIOUS
  <1>7. /\ UNCHANGED heap /\ m.t = "method"
        /\ IF ~AtLimit /\ Mismatch(c)
           THEN Throw
           ELSE CallUserFunc(c, file, native) /\ UNCHANGED <<active, status, missed>>
    BY <1>5, <1>6 DEF CallMethod
  <1>8. /\ c.op = "call" /\ c.fun = m.of.method /\ c.self = 1 /\ c.by = "code" /\ c.start = p + 1
        /\ c.argc = args' /\ c.keep = p /\ c.was = implicit /\ c.depth = Depth + 1
    <2>1. Len(frames) + 2 = Depth + 1 BY <1>1, TheContexts
    <2> QED BY <1>6, <2>1, TheCall
  <1>9. Reg(p) \in DOMAIN regs /\ p \in Nat BY <1>1, <1>4, TemporaryFacts
  <1>10. c.fun \in Callables
    <2>1. ValueOK(m) BY <1>1, <1>5, <1>9 DEF Typed
    <2>2. m.of \in Types /\ m.of.method # NoFun BY <1>7, <2>1 DEF ValueOK
    <2> QED BY <1>8, <2>2, CallableFields
  <1>11. From(file, cur.base + p) /\ DOMAIN file = DOMAIN regs
    <2>1. c.argc \in Nat /\ cur.base \in Nat BY <1>1, <1>4, <1>8, CodeFacts
    <2>2. DOMAIN file = DOMAIN regs BY <1>6 DEF Shifted
    <2>3. From(Shifted(c, InstV(bound[m.of])), cur.base + p) BY <1>1, <1>8, <1>9, <2>1, ShiftedFrom
    <2> QED BY <1>6, <2>2, <2>3
  <1>12. CASE ~AtLimit /\ Mismatch(c) BY <1>2, <1>7, <1>12, ThrowFollows
  <1>13. CASE AtLimit
    <2>1. RefuseCall(c, file, native) /\ status' = status BY <1>7, <1>13 DEF CallUserFunc
    <2> QED BY <1>2, <1>4, <1>8, <1>11, <1>13, <2>1, CodeRefused
  <1>14. CASE ~AtLimit /\ ~Mismatch(c)
    <2>1. EnterCall(c, file, native) /\ status' = status /\ active' = active
      BY <1>7, <1>14 DEF CallUserFunc
    <2>2. HeapGrows /\ NoneEnds BY <1>1, <1>7, HeapStays
    <2>3. CallFits(c) BY <1>1, <1>4, <1>8, <1>10, CodeCallFits
    <2>4. ~Promised(c) BY <1>8 DEF Promised
    <2> QED BY <1>2, <1>4, <1>8, <1>11, <1>14, <2>1, <2>2, <2>3, <2>4, CodeEnters
  <1> QED BY <1>12, <1>13, <1>14

(* The receiver, and the arguments behind it.                              *)
Moved(file, v, a, n) ==
  /\ a \in DOMAIN regs => file[a] = v
  /\ \A i \in 1 .. n : a + i \in DOMAIN regs => file[a + i] = regs[a + i - 1]

LEMMA ShiftedTo ==
  ASSUME NEW c, NEW v, NEW a \in Int, a = Reg(c.start), Reg(c.start - 1) = a - 1,
         NEW n \in Nat, n = c.argc
  PROVE  Moved(Shifted(c, v), v, a, n)
PROOF
  <1>1. a # a - 1 OBVIOUS
  <1>2. a \in DOMAIN regs => Shifted(c, v)[a] = v BY <1>1 DEF Shifted
  <1>3. ASSUME NEW i \in 1 .. n, a + i \in DOMAIN regs PROVE Shifted(c, v)[a + i] = regs[a + i - 1]
    <2>1. PICK b : b = a + i OBVIOUS
    <2>2. b # a - 1 /\ b # a /\ b \in a + 1 .. a + n /\ b - 1 = a + i - 1 BY <2>1
    <2>3. Shifted(c, v)[b] = regs[b - 1] BY <1>3, <2>1, <2>2 DEF Shifted
    <2> QED BY <2>1, <2>2, <2>3
  <1> QED BY <1>2, <1>3 DEF Moved

(* A constructor gets the new instance and the arguments of its type.      *)
LEMMA ConstructorPassed ==
  ASSUME RInv, DInv', At({"script", "default", "body"}), NEW p \in Temporaries, regs[Reg(p)] = Callee,
         NEW c, CallFits(c), c.self = 1, c.by = "make", c.start = p + 1, c.argc = cur.top - p - 1,
         NEW i, NEW file, file = Shifted(c, InstV(i)), NEW below, EnterCall(c, file, below)
  PROVE  Promise!Passed(Act(regs', cur'), SubSeq(Vals(regs, cur), p + 1, Len(Vals(regs, cur))))
PROOF
  <1>1. /\ cur \in Contexts /\ cur' \in Contexts /\ cur.base \in Nat /\ cur.top \in Nat
        /\ cur.code.at # "leaving" /\ p \in Nat /\ p < cur.top /\ Typed /\ Windows
        /\ status \notin {"over", "aborted"}
    BY CodeFacts, TemporaryFacts DEF RInv, DInv, Typed, At
  <1>2. /\ cur'.base = cur.base + c.start /\ cur'.top = c.self + c.argc /\ regs' = file
        /\ cur'.code.by = "make" /\ cur'.code.at \in {"default", "gather", "entry"}
    <2>1. Binds(c) BY DEF Binds
    <2>2. /\ cur'.base = cur.base + c.start /\ cur'.top = c.self + c.argc /\ cur'.code.by = c.by
          /\ cur'.code.at \in {"default", "gather", "entry"}
          /\ regs' = file \/ ~Binds(c)
      BY <1>1, NewCode
    <2> QED BY <2>1, <2>2
  <1>3. PICK old, new, u, t : /\ old = Vals(regs, cur) /\ new = Vals(regs', cur') /\ u = cur.top
                              /\ t = SubSeq(old, p + 1, Len(old))
    OBVIOUS
  <1>4. PICK S : old \in Seq(S) BY <1>1, <1>3, ValsSeq
  <1>5. PICK T : new \in Seq(T) BY <1>1, <1>3, ValsSeq
  <1>6. Len(old) = u /\ \A j \in 1 .. u : old[j] = regs[cur.base + j - 1] BY <1>1, <1>3, ValsSeq
  <1>7. PICK a, n : a = cur.base + p + 1 /\ n = u - p - 1 OBVIOUS
  <1>8. n \in Nat /\ c.argc = n /\ a \in Nat /\ a = Reg(c.start) /\ Reg(c.start - 1) = a - 1 /\ cur'.base = a
        /\ cur'.top = n + 1
    <2>1. n \in Nat /\ a \in Nat /\ u = cur.top
      <3>1. PICK b : b = cur.base OBVIOUS
      <3>2. b \in Nat /\ p \in Nat /\ u \in Nat /\ p < u /\ u = cur.top BY <1>1, <1>3, <3>1
      <3>3. a = b + p + 1 /\ n = u - p - 1 BY <1>7, <3>1
      <3>4. n \in Nat /\ a \in Nat BY ONLY <3>2, <3>3
      <3> QED BY <3>2, <3>4
    <2>2. c.argc = n BY <1>3, <1>7
    <2>3. PICK s, b : s = c.start /\ b = cur.base OBVIOUS
    <2>4. s = p + 1 /\ b \in Nat /\ a = b + p + 1 /\ p \in Nat BY <1>1, <1>7, <2>3
    <2>5. a = b + s /\ a - 1 = b + (s - 1) BY <2>4
    <2>6. a = Reg(c.start) /\ Reg(c.start - 1) = a - 1 BY <2>3, <2>5 DEF Reg
    <2>7. cur'.base = a BY <1>2, <2>3, <2>5
    <2>8. cur'.top = n + 1 BY <1>2, <2>1, <2>2
    <2> QED BY <2>1, <2>2, <2>6, <2>7, <2>8
  <1>9. /\ Len(new) = n + 1 /\ new[1] = file[a] /\ \A j \in 1 .. n : new[j + 1] = file[a + j]
    <2>1. Len(new) = n + 1 /\ \A j \in 1 .. n + 1 : new[j] = file[a + j - 1]
      <3>1. Len(new) = cur'.top /\ \A j \in 1 .. cur'.top : new[j] = regs'[cur'.base + j - 1]
        BY <1>1, <1>2, <1>3, ValsSeq
      <3> QED BY <1>2, <1>8, <3>1
    <2>2. 1 \in 1 .. n + 1 /\ a + 1 - 1 = a /\ \A j \in 1 .. n : j + 1 \in 1 .. n + 1 /\ a + (j + 1) - 1 = a + j
      BY <1>8
    <2> QED BY <2>1, <2>2
  <1>10. a \in DOMAIN regs /\ \A j \in 1 .. n : a + j \in DOMAIN regs
    <2>1. u < Width /\ u \in Nat BY <1>1, <1>3, TopFacts
    <2>2. Width \in Nat /\ DOMAIN regs = 0 .. NumRegs - 1 BY <1>1, Sizes DEF Typed
    <2>3. CASE n = 0
      <3>1. p + 1 \in Nat /\ p + 1 < Width BY <1>1, <1>3, <1>7, <2>1, <2>2, <2>3
      <3>2. Reg(p + 1) \in 0 .. NumRegs - 1 BY <1>1, <3>1, InThisWindow
      <3>3. Reg(p + 1) = a BY <1>1, <1>7 DEF Reg
      <3> QED BY <2>2, <2>3, <3>2, <3>3
    <2>4. CASE n > 0
      <3>1. \A j \in 0 .. n : p + 1 + j \in Nat /\ p + 1 + j < Width
        BY <1>1, <1>3, <1>7, <2>1, <2>2
      <3>2. \A j \in 0 .. n : Reg(p + 1 + j) \in 0 .. NumRegs - 1 BY <1>1, <3>1, InThisWindow
      <3>3. \A j \in 0 .. n : a + j = Reg(p + 1 + j) BY <1>1, <1>7 DEF Reg
      <3>4. a + 0 \in 0 .. NumRegs - 1 /\ \A j \in 1 .. n : a + j \in 0 .. NumRegs - 1 BY <1>8, <3>2, <3>3
      <3>5. a + 0 = a BY <1>8
      <3> QED BY <2>2, <3>4, <3>5
    <2> QED BY <1>8, <2>3, <2>4
  <1>11. file[a] = InstV(i) /\ \A j \in 1 .. n : file[a + j] = regs[a + j - 1]
    <2>1. a \in Int BY <1>8
    <2>2. PICK v : v = InstV(i) OBVIOUS
    <2>3. Moved(Shifted(c, v), v, a, n) BY <1>8, <2>1, ShiftedTo
    <2>4. file = Shifted(c, v) BY <2>2
    <2> QED BY <1>10, <2>2, <2>3, <2>4 DEF Moved
  <1>12. PICK r : r = SubSeq(t, 1 + 1, Len(t)) OBVIOUS
  <1>13. p < Len(old) BY <1>1, <1>3, <1>6
  <1>14. /\ Len(t) = n + 1 /\ t # <<>> /\ t[1] = old[p + 1] /\ Len(r) = n
         /\ (\E R : r \in Seq(R)) /\ \A j \in 1 .. n : r[j] = old[p + 1 + j]
    <2>1. Given(old, p, t, r) BY <1>1, <1>3, <1>4, <1>12, <1>13, Rest
    <2>2. Len(old) - p - 1 = n /\ Len(old) - p = n + 1 BY <1>1, <1>3, <1>6, <1>7
    <2> QED BY <2>1, <2>2 DEF Given
  <1>15. t[1] = Callee
    <2>1. p + 1 \in 1 .. u /\ cur.base + (p + 1) - 1 = cur.base + p BY <1>1, <1>3
    <2>2. old[p + 1] = regs[cur.base + (p + 1) - 1] BY <1>6, <2>1
    <2> QED BY <1>14, <2>1, <2>2 DEF Reg
  <1>16. PICK q : q = SubSeq(new, 1 + 1, Len(new)) OBVIOUS
  <1>17. /\ Len(q) = n /\ (\E R : q \in Seq(R)) /\ \A j \in 1 .. n : q[j] = new[j + 1]
    <2>1. new = SubSeq(new, 0 + 1, Len(new)) BY <1>5
    <2>2. 0 \in Nat /\ 0 < Len(new) BY <1>8, <1>9
    <2>3. Given(new, 0, new, q) BY <1>5, <1>16, <2>1, <2>2, Rest
    <2>4. Len(new) - 0 - 1 = n /\ \A j \in 1 .. n : 0 + 1 + j = j + 1 BY <1>8, <1>9
    <2> QED BY <2>3, <2>4 DEF Given
  <1>18. q = r
    <2>1. \A j \in 1 .. n : q[j] = r[j]
      <3> TAKE j \in 1 .. n
      <3>1. q[j] = regs[a + j - 1] BY <1>9, <1>11, <1>17
      <3>2. p + 1 + j \in 1 .. u /\ cur.base + (p + 1 + j) - 1 = a + j - 1
        <4>1. PICK b : b = cur.base OBVIOUS
        <4>2. b \in Nat /\ p \in Nat /\ u \in Nat /\ a = b + p + 1 /\ n = u - p - 1 /\ j \in 1 .. n
          BY <1>1, <1>3, <1>7, <4>1
        <4>3. p + 1 + j \in 1 .. u /\ b + (p + 1 + j) - 1 = a + j - 1 BY ONLY <4>2
        <4> QED BY <4>1, <4>3
      <3> QED BY <1>6, <1>14, <3>1, <3>2
    <2> QED BY <1>14, <1>17, <2>1
  <1>19. Promise!After(new, 1) = Promise!After(t, 1) BY <1>12, <1>16, <1>18 DEF Promise!After
  <1>20. Len(new) = Len(t) /\ new[1].t = "inst" /\ t[1].t = "callee"
    BY <1>9, <1>11, <1>14, <1>15 DEF InstV, Callee
  <1>21. Act(regs', cur').by = "make" /\ Act(regs', cur').vals = new BY <1>2, <1>3 DEF Act
  <1>22. Promise!Passed(Act(regs', cur'), t) BY <1>14, <1>19, <1>20, <1>21 DEF Promise!Passed
  <1> QED BY <1>3, <1>22

LEMMA CallTypeFollows ==
  ASSUME RInv, NEW p, NEW k \in Types, CallType(p, k)
  PROVE  RInv' /\ Follows
PROOF
  <1>1. DInv /\ Inv /\ Typed BY DEF RInv, DInv
  <1>2. DInv' BY <1>1, CallTypeKeeps
  <1>3. CallObj(p) /\ regs[Reg(p)] = Callee BY DEF CallType
  <1>4. /\ At({"script", "default", "body"}) /\ Executing /\ p \in Temporaries
        /\ args' = cur.top - p - 1 /\ args' \in 0 .. Width
        /\ cur.code.at \in {"script", "default", "body"}
    BY <1>1, <1>3, CallObjArgs DEF At
  <1>5. PICK i : i = Len(insts) + 1 OBVIOUS
  <1>6. PICK x, c, v : x = Make(i, p + 1) /\ v = InstV(i) /\ c = Call(k.ctor, 1, "make", p + 1, args', p, v)
    OBVIOUS
  <1>7. PICK b, file : b = Append(native, x) /\ file = Shifted(c, v) OBVIOUS
  <1>8. /\ bound' = bound
        /\ IF k.ctor # NoFun
           THEN /\ insts' = Append(insts, New(k, FALSE, FALSE))
                /\ IF ~AtLimit /\ Mismatch(c)
                   THEN Throw
                   ELSE CallUserFunc(c, file, b) /\ UNCHANGED <<active, status, missed>>
           ELSE IF args' \notin {0, IF k.field THEN 1 ELSE 0}
           THEN Throw /\ UNCHANGED insts
           ELSE /\ insts' = Append(insts, New(k, args' = 1, FALSE))
                /\ regs' = [regs EXCEPT ![Reg(p)] = v]
                /\ cur' = [cur EXCEPT !.top = p]
                /\ native' = b
                /\ UNCHANGED <<frames, implicit, active, status, missed>>
    BY <1>5, <1>6, <1>7 DEF CallType
  <1>9. x.op = "make" /\ x.start = p + 1 /\ x.depth = Depth BY <1>6 DEF Make, Depth
  <1>10. /\ p \in Nat /\ p < cur.top /\ Reg(p) \in DOMAIN regs /\ cur.base \in Nat /\ cur.top \in Nat
         /\ cur \in Contexts /\ status \notin {"over", "aborted"}
    BY <1>1, <1>4, TemporaryFacts, CodeFacts
  <1>11. CASE k.ctor # NoFun
    <2>1. /\ c.op = "call" /\ c.fun = k.ctor /\ c.self = 1 /\ c.by = "make" /\ c.start = p + 1
          /\ c.argc = args' /\ c.keep = p /\ c.was = implicit /\ c.depth = Depth + 1
      <3>1. Len(frames) + 2 = Depth + 1 BY <1>1, TheContexts
      <3> QED BY <1>6, <3>1, TheCall
    <2>2. From(file, cur.base + p) /\ DOMAIN file = DOMAIN regs
      <3>1. c.argc \in Nat BY <1>4, <2>1
      <3>2. DOMAIN file = DOMAIN regs BY <1>7 DEF Shifted
      <3>3. From(Shifted(c, v), cur.base + p) BY <1>1, <1>10, <2>1, <3>1, ShiftedFrom
      <3> QED BY <1>7, <3>2, <3>3
    <2>3. HeapGrows /\ NoneEnds BY <1>1, <1>5, <1>8, <1>11, HeapAppend
    <2>4. \E y : b = Append(native, y) /\ y.op = "make" /\ y.start = p + 1 /\ y.depth = Depth
      BY <1>7, <1>9
    <2>5. CASE ~AtLimit /\ Mismatch(c) BY <1>2, <1>8, <1>11, <2>5, ThrowFollows
    <2>6. CASE AtLimit
      <3>1. RefuseCall(c, file, b) /\ status' = status BY <1>8, <1>11, <2>6 DEF CallUserFunc
      <3> QED BY <1>2, <1>4, <2>1, <2>2, <2>4, <2>6, <3>1, CodeRefused
    <2>7. CASE ~AtLimit /\ ~Mismatch(c)
      <3>1. EnterCall(c, file, b) /\ status' = status /\ active' = active
        BY <1>8, <1>11, <2>7 DEF CallUserFunc
      <3>2. k.ctor \in Callables BY <1>11, CallableFields
      <3>3. CallFits(c) BY <1>1, <1>4, <2>1, <3>2, CodeCallFits
      <3>4. Promise!Passed(Act(regs', cur'), SubSeq(Vals(regs, cur), p + 1, Len(Vals(regs, cur))))
        <4>1. file = Shifted(c, InstV(i)) /\ c.argc = cur.top - p - 1 BY <1>4, <1>6, <1>7, <2>1
        <4> QED BY <1>2, <1>3, <1>4, <2>1, <3>1, <3>3, <4>1, ConstructorPassed
      <3> QED BY <1>2, <1>4, <2>1, <2>2, <2>3, <2>4, <2>7, <3>1, <3>3, <3>4, CodeEnters
    <2> QED BY <2>5, <2>6, <2>7
  <1>12. CASE k.ctor = NoFun /\ args' \notin {0, IF k.field THEN 1 ELSE 0}
    BY <1>2, <1>8, <1>12, ThrowFollows
  <1>13. CASE k.ctor = NoFun /\ args' \in {0, IF k.field THEN 1 ELSE 0}
    <2>1. /\ regs' = [regs EXCEPT ![Reg(p)] = v] /\ cur' = [cur EXCEPT !.top = p]
          /\ native' = Append(native, x) /\ UNCHANGED <<frames, status>>
      BY <1>7, <1>8, <1>13
    <2>2. SameCode(cur, cur') /\ cur'.code = cur.code /\ cur'.top = p BY <1>10, <2>1, TopOnly
    <2>3. x.op # "call" /\ Fits(x)'
      <3>1. Ctx'[Depth] = cur' BY <1>1, <2>1, Stayed
      <3>2. x.start - 1 = p BY <1>9, <1>10
      <3>3. Ctx'[x.depth].top = x.start - 1 BY <1>9, <2>2, <3>1, <3>2
      <3> QED BY <1>9, <3>3 DEF Fits
    <2>4. RInv' BY <1>2, <1>4, <2>1, <2>2, <2>3, CodeShape
    <2>5. Same(cur.base + cur'.top)
      <3>1. PICK a : a = cur.base + p OBVIOUS
      <3>2. regs' = [regs EXCEPT ![a] = v] BY <2>1, <3>1 DEF Reg
      <3>3. a \in Int /\ a <= a BY <1>10, <3>1
      <3>4. Same(a) BY <1>1, <3>2, <3>3, WroteOne
      <3> QED BY <2>2, <3>1, <3>4
    <2>6. cur'.top <= cur.top BY <1>10, <2>2
    <2>7. Follows BY <1>2, <1>4, <1>10, <2>1, <2>2, <2>5, <2>6, Shrinks
    <2> QED BY <2>4, <2>7
  <1> QED BY <1>11, <1>12, <1>13

-----------------------------------------------------------------------------
(* Calls that the VM makes itself.                                        *)

(* A call that an interrupted C++ function makes itself: for the caller's  *)
(* code nothing happens.                                                   *)
LEMMA TopEnters ==
  ASSUME RInv, DInv', NEW op \in {"make", "drop"}, Doing(op), NEW m, m = Last(native),
         NEW c, CallFits(c), Opened(c), ~AtLimit, c.by # "code", c.keep = cur.top, c.fun = Plain,
         NEW limit \in Int, Above(cur) <= limit, cur.base - 1 <= limit,
         limit <= cur.base + c.start, Above(cur) < cur.base + c.start,
         NEW file, From(file, limit), DOMAIN file = DOMAIN regs,
         NEW x, x.op = op, x.depth = Depth,
         op = "make" => x.start = m.start, op = "drop" => x.limit = m.limit,
         NEW b, b = Append(Front(native), x), EnterCall(c, file, b), status' = status,
         Promise!Passed(Act(regs', cur'), <<>>)
  PROVE  RInv' /\ Follows
PROOF
  <1>1. /\ DInv /\ Inv /\ Typed /\ native # <<>> /\ Len(native) \in Nat /\ Len(native) >= 1
        /\ DOMAIN native = 1 .. Len(native) /\ m = native[Len(native)] /\ m.op = op /\ m.depth = Depth
        /\ native[Len(native)].op # "call" /\ Fits(m) /\ Shape
        /\ status \notin {"over", "aborted"} /\ cur \in Contexts /\ cur.base \in Nat /\ cur.top \in Nat
        /\ Ctx[Depth] = cur
        /\ (status # "running" /\ Depth = 1 => cur.top = 0)
    BY OnTop
  <1>2. PICK y : y = [cur EXCEPT !.top = c.keep] OBVIOUS
  <1>3. y.code = cur.code /\ y.top = cur.top /\ y.base = cur.base BY <1>1, <1>2, TopOnly DEF SameCode
  <1>4. Above(y) = Above(cur) BY <1>3 DEF Above
  <1>5. PICK l, S : l = Len(native) /\ native \in Seq(S) BY <1>1, TheNative
  <1>6. /\ DOMAIN b = 1 .. l /\ b[l] = x /\ \A i \in 1 .. l - 1 : b[i] = native[i]
    <2>1. Inv /\ native # <<>> /\ b = Append(Front(native), x) BY <1>1
    <2>2. /\ DOMAIN b = 1 .. Len(native) /\ b[Len(native)] = x
          /\ \A i \in 1 .. Len(native) - 1 : b[i] = native[i]
      BY <2>1, TopIs
    <2> QED BY <1>5, <2>2
  <1>7. b \in Seq(S \cup {x})
    <2>1. PICK f : f = Front(native) OBVIOUS
    <2>2. f \in Seq(S) BY <1>1, <1>5, <2>1, FrontIsSeq
    <2> QED BY <2>1, <2>2
  <1>8. Fits(x)'
    <2>1. Ctx'[Depth] = y BY <1>1, <1>2, OpenedContexts
    <2>2. CASE op = "make"
      <3>1. cur.top = x.start - 1 BY <1>1, <2>2 DEF Fits
      <3> QED BY <1>3, <2>1, <2>2, <3>1 DEF Fits
    <2>3. CASE op = "drop"
      <3>1. Above(cur) <= x.limit BY <1>1, <2>3 DEF Fits
      <3> QED BY <1>4, <2>1, <2>3, <3>1 DEF Fits, Above
    <2> QED BY <2>2, <2>3
  <1>9. ASSUME NEW i \in 1 .. l - 1
        PROVE  IF b[i].op = "call" THEN i \in DOMAIN native /\ native[i] = b[i]
               ELSE \E n : n = b[i] /\ Fits(n)'
    <2>0. l \in Nat /\ DOMAIN native = 1 .. l BY <1>1, <1>5
    <2>1. i \in DOMAIN native /\ b[i] = native[i] BY <1>6, <2>0
    <2>2. PICK n : n = native[i] /\ Fits(n) BY <1>1, <2>1 DEF Shape, Fitting
    <2>3. CASE n.op = "call" BY <2>1, <2>2, <2>3
    <2>4. CASE n.op # "call"
      <3>1. n.depth \in 1 .. Len(frames) BY <1>1, <1>5, <2>2, <2>4, BelowTop
      <3>2. Fits(n)' BY <1>1, <2>2, <2>4, <3>1, FitsUnder
      <3> QED BY <2>1, <2>2, <2>4, <3>2
    <2> QED BY <2>3, <2>4
  <1>10. Interrupts(b)
    <2>1. l \in Nat /\ l >= 1 /\ DOMAIN native = 1 .. l /\ native[l].op # "call" BY <1>1, <1>5
    <2>2. \A i \in DOMAIN b :
            IF b[i].op = "call" THEN i \in DOMAIN native /\ native[i] = b[i]
            ELSE \E n : n = b[i] /\ Fits(n)'
      <3> TAKE i \in DOMAIN b
      <3>1. i \in 1 .. l - 1 \/ i = l BY <1>6, <2>1
      <3>2. CASE i = l BY <1>6, <1>8, <3>2
      <3> QED BY <1>9, <3>1, <3>2
    <2>3. \A i \in DOMAIN native : native[i].op = "call" => i \in DOMAIN b /\ b[i] = native[i]
      <3> TAKE i \in DOMAIN native
      <3> HAVE native[i].op = "call"
      <3>1. i \in 1 .. l - 1 BY <2>1
      <3> QED BY <1>6, <2>1, <3>1
    <2> QED BY <1>7, <2>2, <2>3 DEF Interrupts
  <1>11. Placed(c)
    <2>1. ~c.fun.rest BY DEF Plain
    <2> QED BY <1>1, <1>2, <1>4, <2>1 DEF Placed
  <1>12. PICK s : s = Vals(regs, cur) OBVIOUS
  <1>13. PICK k : k = (IF cur.code.at = "leaving" THEN 1 ELSE c.keep) OBVIOUS
  <1>14. SubSeq(s, k + 1, Len(s)) = <<>>
    <2>1. PICK T : s \in Seq(T) BY <1>1, <1>12, ValsSeq
    <2>2. Len(s) = k BY <1>1, <1>12, <1>13, ValsSeq
    <2>3. k \in Nat BY <2>1, <2>2
    <2>4. SubSeq(s, k + 1, k) = <<>>
      <3>1. /\ SubSeq(s, k + 1, k) \in Seq(T) 
            /\ Len(SubSeq(s, k + 1, k)) = IF k + 1 <= k THEN k - (k + 1) + 1 ELSE 0
        <4>1. k + 1 \in Int /\ k \in Int /\ \A i \in k + 1 .. k : s[i] \in T BY <2>3
        <4> QED BY <4>1, SubSeqProperties
      <3>2. Len(SubSeq(s, k + 1, k)) = 0 BY <2>3, <3>1
      <3> QED BY <3>1, <3>2
    <2> QED BY <2>2, <2>4
  <1>15. c.keep <= cur.top BY <1>1
  <1>16. Above([cur EXCEPT !.top = c.keep]) <= limit BY <1>2, <1>4
  <1>17. Promised(c) =>
           Promise!Passed(Act(regs', cur'), SubSeq(Vals(regs, cur), k + 1, Len(Vals(regs, cur))))
    BY <1>12, <1>14
  <1>18. status \notin {"over", "aborted"} BY <1>1
  <1> QED BY <1>10, <1>11, <1>13, <1>15, <1>16, <1>17, <1>18, EnterFollows

LEMMA AskCallFits ==
  ASSUME RInv, Doing("make"), NEW m, m = Last(native),
         NEW c, c.op = "call", c.was = implicit, c.depth = Depth + 1, c.fun = Plain, c.self = 0,
         c.by = "make", c.start = m.start + 1, c.argc = 0, c.keep = m.start - 1
  PROVE  /\ CallFits(c) /\ c.keep = cur.top /\ m.start = cur.top + 1
         /\ Reg(m.start) = cur.base + cur.top + 1
PROOF
  <1>1. /\ DInv /\ Typed /\ Fits(m) /\ m.op = "make" /\ m.depth = Depth /\ Ctx[Depth] = cur
        /\ cur \in Contexts /\ cur.base \in Nat /\ cur.top \in Nat /\ MakeOK(m)
    <2>1. PICK x : x = [m EXCEPT !.asked = TRUE] OBVIOUS
    <2> QED BY <2>1, OnTop, AskedMake
  <1>2. /\ cur.code.at \in Running /\ m.start \in 1 .. Width - 1
        /\ \A q \in DOMAIN cur.blocks : cur.blocks[q].at < m.start
    BY <1>1 DEF MakesIn, MakeOK
  <1>3. cur.top = m.start - 1 BY <1>1 DEF Fits
  <1>4. PICK s, t, base : s = m.start /\ t = cur.top /\ base = cur.base OBVIOUS
  <1>5. Width \in Nat BY Sizes
  <1>6. s \in Nat /\ s < Width /\ t = s - 1 /\ t \in Nat /\ base \in Nat BY <1>1, <1>2, <1>3, <1>4, <1>5
  <1>7. s = t + 1 /\ s + 1 \in Nat /\ s + 1 <= Width /\ base + (s + 1) >= 1 /\ 0 < Width /\ base + s = base + t + 1
    BY ONLY <1>5, <1>6
  <1>8. c.start = s + 1 /\ c.keep = t /\ c.keep = cur.top BY <1>3, <1>4
  <1>9. \A q \in DOMAIN cur.blocks : cur.blocks[q].at <= c.start
    <2> TAKE q \in DOMAIN cur.blocks
    <2>1. PICK y : y = cur.blocks[q].at OBVIOUS
    <2>2. y \in Nat BY <1>1, <2>1, ContextFields
    <2>3. y < s BY <1>2, <1>4, <2>1
    <2>4. y <= s + 1 BY <1>6, <2>2, <2>3
    <2> QED BY <1>8, <2>1, <2>4
  <1>10. Laid(Depth, [cur EXCEPT !.top = c.keep])
    <2>1. cur \in Contexts /\ Laid(Depth, cur) BY <1>1, LaidHere DEF DInv
    <2>2. PICK w : w = [cur EXCEPT !.top = cur.top] OBVIOUS
    <2>3. Laid(Depth, w) BY <2>1, <2>2, TopAgain
    <2> QED BY <1>8, <2>2, <2>3
  <1>11. Plain \in Callables BY CallableFields
  <1>12. CallFits(c)
    <2>1. c.self + c.argc = 0 /\ c.self \in 0 .. 1 /\ c.argc \in Nat OBVIOUS
    <2>2. c.start \in Nat /\ c.start <= Width /\ cur.base + c.start >= 1 /\ c.keep \in Nat
          /\ c.self + c.argc < Width
      BY <1>4, <1>6, <1>7, <1>8, <2>1
    <2> QED BY <1>2, <1>9, <1>10, <1>11, <2>1, <2>2 DEF CallFits
  <1>13. Reg(m.start) = cur.base + cur.top + 1 BY <1>4, <1>7 DEF Reg
  <1> QED BY <1>4, <1>7, <1>8, <1>12, <1>13

LEMMA AskFieldFollows ==
  ASSUME RInv, AskField
  PROVE  RInv' /\ Follows
PROOF
  <1>1. DInv' BY AskFieldKeeps DEF RInv
  <1>2. PICK m : m = Last(native) OBVIOUS
  <1>3. PICK x, c, v : /\ x = [m EXCEPT !.asked = TRUE]
                       /\ c = Call(Plain, 0, "make", m.start + 1, 0, m.start - 1, Invalid)
                       /\ v = Callee
    OBVIOUS
  <1>4. PICK b, file, a : b = Append(Front(native), x) /\ a = Reg(m.start) /\ file = [regs EXCEPT ![a] = v]
    OBVIOUS
  <1>5. /\ Doing("make") /\ CallUserFunc(c, file, b)
        /\ UNCHANGED <<args, scopes, active, heap, status, missed>>
    BY <1>2, <1>3, <1>4 DEF AskField
  <1>6. /\ DInv /\ Typed /\ cur \in Contexts /\ cur.base \in Nat /\ cur.top \in Nat
        /\ m.op = "make" /\ m.depth = Depth
    BY <1>2, <1>5, OnTop
  <1>7. x.op = "make" /\ x.start = m.start /\ x.depth = Depth BY <1>2, <1>3, <1>5, <1>6, AskedMake
  <1>8. /\ c.op = "call" /\ c.fun = Plain /\ c.self = 0 /\ c.by = "make" /\ c.start = m.start + 1
        /\ c.argc = 0 /\ c.keep = m.start - 1 /\ c.was = implicit /\ c.depth = Depth + 1
    <2>1. Len(frames) + 2 = Depth + 1 BY <1>6, TheContexts
    <2> QED BY <1>3, <2>1, TheCall
  <1>9. CallFits(c) /\ c.keep = cur.top /\ m.start = cur.top + 1 /\ a = cur.base + cur.top + 1
    BY <1>2, <1>4, <1>5, <1>8, AskCallFits
  <1>10. PICK limit : limit = cur.base + cur.top OBVIOUS
  <1>11. /\ limit \in Int /\ a = limit + 1 /\ Above(cur) <= limit /\ cur.base - 1 <= limit /\ limit <= a
         /\ Above(cur) \in Int
    BY <1>6, <1>9, <1>10 DEF Above
  <1>12. From(file, limit) /\ DOMAIN file = DOMAIN regs
    <2>1. \A r \in 0 .. NumRegs - 1 : r < limit => file[r] = regs[r]
      <3> TAKE r \in 0 .. NumRegs - 1
      <3> HAVE r < limit
      <3>1. r # a /\ r \in DOMAIN regs BY <1>6, <1>11, Sizes DEF Typed
      <3> QED BY <1>4, <3>1
    <2> QED BY <1>4, <2>1 DEF From
  <1>13. CASE AtLimit
    <2>1. RefuseCall(c, file, b) /\ status' = status BY <1>5, <1>13 DEF CallUserFunc
    <2>2. Reg(c.start - 1) = a
      <3>1. c.start - 1 = m.start BY <1>6, <1>8, <1>9
      <3> QED BY <1>4, <3>1
    <2>3. /\ Reg(c.start - 1) \in Int /\ limit <= Reg(c.start - 1) /\ c.by # "code"
          /\ RefuseCall(c, file, Append(Front(native), x))
      BY <1>4, <1>8, <1>11, <2>1, <2>2
    <2> QED BY <1>1, <1>2, <1>5, <1>7, <1>9, <1>11, <1>12, <2>1, <2>3, TopRefused
  <1>14. CASE ~AtLimit
    <2>1. EnterCall(c, file, b) /\ status' = status /\ active' = active BY <1>5, <1>14 DEF CallUserFunc
    <2>2. Opened(c)
      <3>1. HeapGrows /\ NoneEnds BY <1>5, <1>6, HeapStays
      <3>2. ~Mismatch(c) BY <1>8 DEF Mismatch, Plain
      <3>3. \A i \in DOMAIN insts : /\ insts'[i].made = insts[i].made
                                    /\ insts'[i].literal => insts[i].literal
        BY <3>1 DEF NoneEnds
      <3> QED BY <1>6, <1>9, <1>14, <2>1, <3>1, <3>2, <3>3, EnterInterrupts
    <2>3. limit <= cur.base + c.start /\ Above(cur) < cur.base + c.start
      <3>1. cur.base + c.start = limit + 2 BY <1>6, <1>8, <1>9, <1>10
      <3> QED BY <1>11, <3>1
    <2>4. Promise!Passed(Act(regs', cur'), <<>>)
      <3>1. /\ cur'.top = c.self + c.argc /\ cur'.code.by = c.by
            /\ cur'.code.at \in {"default", "gather", "entry"}
        BY <1>6, <1>9, <2>1, NewCode
      <3>2. cur'.top = 0 /\ cur'.code.by = "make" /\ cur'.code.at # "leaving" BY <1>8, <3>1
      <3>3. PICK new : new = Vals(regs', cur') OBVIOUS
      <3>4. cur' \in Contexts BY <1>1 DEF DInv, Typed
      <3>5. PICK S : new \in Seq(S) BY <3>3, <3>4, ValsSeq
      <3>6. Len(new) = 0 BY <3>2, <3>3, <3>4, ValsSeq
      <3>7. DOMAIN new = {} BY <3>5, <3>6
      <3>8. Act(regs', cur').by = "make" /\ Act(regs', cur').vals = new BY <3>2, <3>3 DEF Act
      <3> QED BY <3>7, <3>8 DEF Promise!Passed
    <2>5. c.by # "code" BY <1>8
    <2> QED BY <1>1, <1>2, <1>4, <1>5, <1>7, <1>8, <1>9, <1>11, <1>12, <1>14, <2>1, <2>2, <2>3, <2>4, <2>5,
               TopEnters
  <1> QED BY <1>13, <1>14

LEMMA DropInstanceFollows ==
  ASSUME RInv, DropInstance
  PROVE  RInv' /\ Follows
PROOF
  <1>1. DInv /\ DInv' BY DropInstanceKeeps DEF RInv
  <1>2. PICK d, a : d = Last(native) /\ a = Last(active) OBVIOUS
  <1>3. PICK s, n, v : s = DropStart(a) /\ n = Len(active) /\ v = InstV(a.id) OBVIOUS
  <1>4. PICK copy, x, c : /\ copy = regs[Reg(s - 1)]
                          /\ x = [d EXCEPT !.busy = n]
                          /\ c = Call(Plain, 1, "drop", s, 0, cur.top, copy)
    OBVIOUS
  <1>5. PICK file, b : file = Shifted(c, v) /\ b = Append(Front(native), x) OBVIOUS
  <1>6. /\ Doing("drop") /\ Dropping(d)
        /\ IF ~AtLimit
           THEN insts' = [insts EXCEPT ![a.id].drops = @ + 1] /\ UNCHANGED missed
           ELSE missed' = TRUE /\ UNCHANGED insts
        /\ CallUserFunc(c, file, b)
        /\ UNCHANGED <<args, scopes, active, bound, status>>
    BY <1>2, <1>3, <1>4, <1>5 DEF DropInstance
  <1>7. /\ Typed /\ Inv /\ Listing /\ cur \in Contexts /\ cur.base \in Nat /\ cur.top \in Nat
        /\ d.op = "drop" /\ d.depth = Depth /\ Fits(d) /\ Ctx[Depth] = cur
    BY <1>2, <1>6, OnTop DEF DInv
  <1>8. /\ n \in Nat /\ n >= 1 /\ DOMAIN active = 1 .. n /\ a = active[n] /\ a.addr \in Nat /\ Listed(a)
        /\ s \in Nat /\ s < Width /\ cur.base + s > a.addr /\ Reg(s - 1) \in DOMAIN regs
    BY <1>1, <1>2, <1>3, <1>6, DropFits
  <1>9. x.op = "drop" /\ x.limit = d.limit /\ x.depth = Depth
    BY <1>1, <1>2, <1>4, <1>6, <1>7, BusyDrop
  <1>10. /\ c.op = "call" /\ c.fun = Plain /\ c.self = 1 /\ c.by = "drop" /\ c.start = s
         /\ c.argc = 0 /\ c.keep = cur.top /\ c.copy = copy /\ c.was = implicit /\ c.depth = Depth + 1
    <2>1. Len(frames) + 2 = Depth + 1 BY <1>7, TheContexts
    <2> QED BY <1>4, <2>1, TheCall
  <1>11. CallFits(c) BY <1>1, <1>2, <1>3, <1>6, <1>10, DropCallFits
  <1>12. PICK limit : limit = cur.base + s - 1 OBVIOUS
  <1>13. /\ limit \in Int /\ Above(cur) <= limit /\ cur.base - 1 <= limit
         /\ limit <= cur.base + c.start /\ Above(cur) < cur.base + c.start
    <2>1. Above(cur) <= d.limit BY <1>7 DEF Fits
    <2>2. a.addr >= d.limit /\ d.limit \in Nat
      <3>1. DropOK(d) BY <1>1, <1>2, <1>6, TopDrop
      <3> QED BY <1>2, <1>6, <3>1 DEF Dropping, DropOK
    <2>3. Above(cur) \in Int BY <1>7 DEF Above
    <2>4. PICK e, g, w, z : e = cur.base /\ g = Above(cur) /\ w = d.limit /\ z = a.addr OBVIOUS
    <2>5. /\ g \in Int /\ w \in Nat /\ z \in Nat /\ e \in Nat /\ s \in Nat
          /\ g <= w /\ z >= w /\ e + s > z /\ limit = e + s - 1
      BY <1>7, <1>8, <1>12, <2>1, <2>2, <2>3, <2>4
    <2>6. limit \in Int /\ g <= limit /\ e - 1 <= limit /\ limit <= e + s /\ g < e + s BY ONLY <2>5
    <2>7. c.start = s BY <1>10
    <2> QED BY <2>4, <2>6, <2>7
  <1>14. /\ Reg(s) = limit + 1 /\ Reg(s - 1) = limit /\ Reg(c.start) = limit + 1 /\ Reg(c.start - 1) = limit
         /\ cur.base + c.start = limit + 1
    BY <1>7, <1>8, <1>10, <1>12 DEF Reg
  <1>15. From(file, limit) /\ DOMAIN file = DOMAIN regs
    <2>1. DOMAIN file = DOMAIN regs BY <1>5 DEF Shifted
    <2>2. ASSUME NEW r \in 0 .. NumRegs - 1, r < limit PROVE file[r] = regs[r]
      <3>0. r \in DOMAIN regs /\ r \in Int BY <1>7, Sizes DEF Typed
      <3>1. /\ r \in DOMAIN regs /\ r # limit /\ r # limit + 1
            /\ r \notin (limit + 1) + 1 .. (limit + 1) + 0
        BY ONLY <1>13, <2>2, <3>0
      <3> QED BY <1>5, <1>10, <1>14, <3>1 DEF Shifted
    <2> QED BY <2>1, <2>2 DEF From
  <1>16. CASE AtLimit
    <2>1. RefuseCall(c, file, b) /\ status' = status BY <1>6, <1>16 DEF CallUserFunc
    <2>2. /\ Reg(c.start - 1) \in Int /\ limit <= Reg(c.start - 1) /\ c.by # "code"
          /\ RefuseCall(c, file, Append(Front(native), x))
      BY <1>5, <1>10, <1>13, <1>14, <2>1
    <2> QED BY <1>1, <1>2, <1>6, <1>9, <1>10, <1>13, <1>15, <2>1, <2>2, TopRefused
  <1>17. CASE ~AtLimit
    <2>1. EnterCall(c, file, b) /\ status' = status /\ active' = active BY <1>6, <1>17 DEF CallUserFunc
    <2>2. Opened(c)
      <3>1. PICK i : i = active[n].id OBVIOUS
      <3>2. n \in DOMAIN active BY <1>8
      <3>3. insts' = [insts EXCEPT ![i].drops = @ + 1] /\ bound' = bound BY <1>6, <1>8, <1>17, <3>1
      <3>4. HeapGrows /\ \A j \in DOMAIN insts : /\ insts'[j].made = insts[j].made
                                                 /\ insts'[j].literal = insts[j].literal
        BY <1>7, <3>1, <3>2, <3>3, DropCounted
      <3>5. ~Mismatch(c) BY <1>10 DEF Mismatch, Plain
      <3>6. \A j \in DOMAIN insts : /\ insts'[j].made = insts[j].made
                                    /\ insts'[j].literal => insts[j].literal
        BY <3>4
      <3> QED BY <1>7, <1>11, <1>17, <2>1, <3>4, <3>5, <3>6, EnterInterrupts
    <2>3. Promise!Passed(Act(regs', cur'), <<>>)
      <3>1. /\ cur'.base = cur.base + c.start /\ cur'.top = c.self + c.argc /\ cur'.code.by = c.by
            /\ cur'.code.at \in {"default", "gather", "entry"}
            /\ regs' = file \/ ~Binds(c)
        BY <1>7, <1>11, <2>1, NewCode
      <3>2. Binds(c) BY <1>10 DEF Binds
      <3>3. /\ cur'.base = limit + 1 /\ cur'.top = 1 /\ cur'.code.by = "drop" /\ cur'.code.at # "leaving"
            /\ regs' = file
        BY <1>10, <1>14, <3>1, <3>2
      <3>4. PICK new : new = Vals(regs', cur') OBVIOUS
      <3>5. cur' \in Contexts BY <1>1 DEF DInv, Typed
      <3>6. PICK S : new \in Seq(S) BY <3>4, <3>5, ValsSeq
      <3>7. Len(new) = 1 /\ \A i \in 1 .. 1 : new[i] = file[cur'.base + i - 1] BY <3>3, <3>4, <3>5, ValsSeq
      <3>8. new[1] = file[limit + 1]
        <4>1. cur'.base + 1 - 1 = limit + 1 /\ 1 \in 1 .. 1 BY <1>13, <3>3
        <4> QED BY <3>7, <4>1
      <3>9. limit + 1 \in DOMAIN regs
        <4>1. Windows /\ status \notin {"over", "aborted"} BY <1>1, <1>2, <1>6, OnTop
        <4>2. Reg(s) \in 0 .. NumRegs - 1 BY <1>7, <1>8, <4>1, InThisWindow
        <4> QED BY <1>7, <1>14, <4>2 DEF Typed
      <3>10. file[limit + 1] = v
        <4>1. limit + 1 # limit BY <1>13
        <4> QED BY <1>5, <1>14, <3>9, <4>1 DEF Shifted
      <3>11. new[1].t = "inst" BY <1>3, <3>8, <3>10 DEF InstV
      <3>12. \A i \in DOMAIN new : i = 1 /\ new[i].t = "inst"
        <4>1. DOMAIN new = 1 .. 1 BY <3>6, <3>7
        <4> QED BY <3>11, <4>1
      <3>13. Act(regs', cur').by = "drop" /\ Act(regs', cur').vals = new BY <3>3, <3>4 DEF Act
      <3> QED BY <3>12, <3>13 DEF Promise!Passed
    <2>4. c.by # "code" BY <1>10
    <2> QED BY <1>1, <1>2, <1>5, <1>6, <1>9, <1>10, <1>11, <1>13, <1>15, <1>17, <2>1, <2>2, <2>3, <2>4,
               TopEnters
  <1> QED BY <1>16, <1>17

-----------------------------------------------------------------------------
(* Returns.                                                               *)

(* What a return leaves of the C++ stack, where only calls of the callee   *)
(* are gone, and of the registers, where only the slot of the callee may   *)
(* change.                                                                 *)
Unwound(q) ==
  /\ Returns(q)
  /\ \A i \in q + 1 .. Len(native) : native[i].op = "call" => native[i].depth = Depth

LEMMA CallPopped ==
  ASSUME RInv, RestoreData
  PROVE  /\ \E q : Unwound(q)
         /\ Same(cur.base - 1)
         /\ cur.code.by = "code" /\ cur.code.promised => regs' = regs
PROOF
  <1>1. DInv /\ Inv /\ Typed /\ Shape BY DEF RInv, DInv
  <1>2. /\ DropsDone("return")
        /\ IF implicit
           THEN /\ native' = Front(Front(native))
                /\ regs' = IF Last(Front(native)).self = 1
                           THEN [regs EXCEPT ![Last(frames).base + Last(Front(native)).start - 1]
                                             = Last(Front(native)).copy]
                           ELSE regs
           ELSE native' = Front(native) /\ UNCHANGED regs
    BY DEF RestoreData
  <1>3. PICK l : l = Len(native) OBVIOUS
  <1>4. /\ native # <<>> /\ l \in DOMAIN native /\ native[l].op = "drop" /\ native[l].depth = Depth
        /\ status \notin {"over", "aborted"}
    BY <1>1, <1>2, <1>3, DropsDoneFacts
  <1>5. PICK S : native \in Seq(S) BY <1>1, TheNative
  <1>6. l \in Nat /\ l >= 1 /\ DOMAIN native = 1 .. l BY <1>3, <1>4, <1>5
  <1>7. PICK f : f = Front(native) OBVIOUS
  <1>8. f \in Seq(S) /\ Len(f) = l - 1 /\ \A i \in 1 .. l - 1 : f[i] = native[i]
    <2>1. f \in Seq(S) /\ Len(f) = l - 1 BY <1>3, <1>4, <1>5, <1>7, FrontIsSeq
    <2>2. \A i \in 1 .. l - 1 : f[i] = native[i] BY <1>3, <1>5, <1>7, FrontAt
    <2> QED BY <2>1, <2>2
  <1>9. PICK q : Returns(q) BY <1>1, ReturnsStack
  <1>10. Len(native') = q /\ q \in Nat BY <1>9 DEF Returns
  <1>11. CASE ~implicit
    <2>1. native' = f /\ regs' = regs BY <1>2, <1>7, <1>11
    <2>2. q = l - 1 BY <1>8, <1>10, <2>1
    <2>3. \A i \in q + 1 .. Len(native) : i = l BY <1>3, <1>6, <2>2
    <2>4. \A i \in q + 1 .. Len(native) : native[i].op # "call" BY <1>4, <2>3
    <2>5. Unwound(q) BY <1>9, <2>4 DEF Unwound
    <2>6. Same(cur.base - 1) BY <2>1 DEF Same
    <2> QED BY <2>1, <2>5, <2>6
  <1>12. CASE implicit
    <2>1. PICK e : e = l - 1 OBVIOUS
    <2>2. /\ e \in 1 .. l - 1 /\ native[e].op = "call" /\ native[e].depth = Depth
      <3>1. \E i \in 1 .. l : ImplicitCall(native[i]) BY <1>1, <1>3, <1>12 DEF Inv, NativeOK
      <3>2. PICK i \in 1 .. l : ImplicitCall(native[i]) BY <3>1
      <3>3. i \in 1 .. l - 1 /\ Binds(native[i])
        <4>1. i # l BY <1>4, <3>2 DEF ImplicitCall
        <4> QED BY <1>6, <3>2, <4>1 DEF ImplicitCall, Binds
      <3>4. /\ native[Len(native)].op # "call"
            /\ Len(native) > 1 => native[Len(native) - 1].op = "call"
            /\ \A j \in 1 .. Len(native) - 1 :
                 Binds(native[j]) => Len(native) > 1 /\ native[Len(native) - 1].depth = Depth
        BY <1>1, <1>3, <1>4, BelowTop
      <3>5. l > 1 /\ native[e].depth = Depth /\ native[e].op = "call" BY <1>3, <2>1, <3>3, <3>4
      <3> QED BY <1>6, <2>1, <3>5
    <2>3. e \in Nat /\ e >= 1 /\ l = e + 1 /\ e \in DOMAIN native BY <1>6, <2>1, <2>2
    <2>4. PICK c : c = native[e] /\ Fits(c) BY <1>1, <2>3 DEF Shape, Fitting
    <2>5. Started(c, Ctx[Depth - 1], cur)
      <3>1. Started(c, Ctx[Depth - 1], Ctx[Depth]) BY <2>2, <2>4 DEF Fits
      <3> QED BY <1>1, <3>1, TheContexts
    <2>6. f # <<>> /\ Last(f) = c
      <3>1. Len(f) = e BY <1>8, <2>1
      <3>2. f # <<>> BY <1>8, <2>3, <3>1
      <3>3. Last(f) = f[e] BY <3>1 DEF Last
      <3> QED BY <1>8, <2>2, <2>4, <3>2, <3>3
    <2>7. Len(native') = e - 1
      <3>1. Len(Front(f)) = Len(f) - 1 BY <1>8, <2>6, FrontIsSeq
      <3> QED BY <1>2, <1>7, <1>8, <1>12, <2>1, <3>1
    <2>8. Unwound(q)
      <3>1. q + 1 = e BY <1>10, <2>3, <2>7
      <3>2. \A i \in q + 1 .. Len(native) : i = e \/ i = l BY <1>3, <2>3, <3>1
      <3> QED BY <1>4, <1>9, <2>2, <3>2 DEF Unwound
    <2>9. PICK x : x = Ctx[Depth - 1] OBVIOUS
    <2>10. Last(frames) = x
      <3>1. Len(frames) = Depth - 1 /\ Depth \in Nat /\ Depth >= 2 BY <1>1, ReturnedTo
      <3>2. Depth - 1 \in 1 .. Len(frames) BY <3>1
      <3>3. Ctx[Depth - 1] = frames[Depth - 1] BY <1>1, <3>2, TheContexts
      <3> QED BY <2>9, <3>1, <3>3 DEF Last
    <2>11. /\ cur.base = x.base + c.start /\ cur.code.self = c.self
           /\ regs' = regs \/ (c.self = 1 /\ regs' = [regs EXCEPT ![x.base + c.start - 1] = c.copy])
      BY <1>2, <1>7, <1>12, <2>5, <2>6, <2>9, <2>10 DEF Started
    <2>12. Same(cur.base - 1)
      <3>1. CASE regs' = regs BY <3>1 DEF Same
      <3>2. CASE regs' = [regs EXCEPT ![x.base + c.start - 1] = c.copy]
        <4>1. cur.base \in Nat BY <1>1, ContextFields DEF Typed
        <4>2. PICK a, v : a = cur.base - 1 /\ v = c.copy OBVIOUS
        <4>3. x.base + c.start - 1 = a
          <5>1. cur.base = x.base + c.start BY <2>11
          <5>2. PICK b, s, z : b = x.base /\ s = c.start /\ z = cur.base OBVIOUS
          <5>3. s \in Nat BY <2>5, <5>2 DEF Started
          <5>4. b \in Nat
            <6>1. Depth - 1 \in 1 .. Depth BY <1>1, ReturnedTo
            <6>2. x \in Contexts BY <1>1, <2>9, <6>1, TheContexts
            <6> QED BY <5>2, <6>2, ContextFields
          <5>5. z = b + s /\ a = z - 1 /\ z \in Nat BY <4>1, <4>2, <5>1, <5>2
          <5>6. b + s - 1 = a BY ONLY <5>3, <5>4, <5>5
          <5> QED BY <5>2, <5>6
        <4>4. regs' = [regs EXCEPT ![a] = v] BY <3>2, <4>2, <4>3
        <4>5. a \in Int /\ a <= a BY <4>1, <4>2
        <4>6. Same(a) BY <1>1, <4>4, <4>5, WroteOne
        <4> QED BY <4>2, <4>6
      <3> QED BY <2>11, <3>1, <3>2
    <2>13. cur.code.by = "code" /\ cur.code.promised => regs' = regs
      <3>1. Promises(Ctx[Depth]) /\ Ctx[Depth] = cur BY <1>1, TheContexts DEF Shape, Promising
      <3> QED BY <2>11, <3>1 DEF Promises
    <2> QED BY <2>8, <2>12, <2>13
  <1> QED BY <1>11, <1>12

LEMMA StartedAlike ==
  ASSUME NEW c, NEW x, NEW y, Started(c, x, y), NEW v, NEW w, Alike(x, v), Alike(y, w)
  PROVE  Started(c, v, w)
PROOF
  BY DEF Started, Alike

(* The caller's activation when its callee has returned.                   *)
Resumed(k, x) ==
  /\ k \in Nat /\ k >= 1 /\ Depth = k + 1 /\ Len(frames) = k /\ Depth' = k /\ Len(frames') = k - 1
  /\ x = Ctx[k] /\ x \in Contexts /\ x.base \in Nat /\ x.top \in Nat
  /\ Ctx'[k] = cur' /\ cur' \in Contexts /\ cur'.base = x.base /\ cur'.code = x.code
  /\ cur'.top = (IF cur.code.by = "code" THEN x.top + 1 ELSE x.top)
  /\ Ctx[Depth] = cur /\ cur.code.at = "leaving" /\ cur.base \in Nat
  /\ Waits(k, x, cur) /\ Apart(x, cur)
  /\ \A j \in 1 .. k : Alike(Ctx[j], Ctx'[j])
  /\ \A j \in 1 .. k - 1 : Ctx'[j] = Ctx[j]
  /\ frames' \in Seq(Contexts) /\ status' = status /\ status \notin {"over", "aborted"}

LEMMA CallerResumed ==
  ASSUME RInv, RestoreData
  PROVE  \E k, x : Resumed(k, x)
PROOF
  <1>1. DInv /\ Inv /\ Typed /\ Shape /\ Waiting BY DEF RInv, DInv
  <1>2. /\ DropsDone("return") /\ frames' = Front(frames) /\ status' = status
        /\ cur' = [Last(frames) EXCEPT !.top = IF cur.code.by = "code" THEN @ + 1 ELSE @]
    BY DEF RestoreData
  <1>3. /\ Depth \in Nat /\ Depth >= 2 /\ Len(frames) = Depth - 1
        /\ Depth' = Depth - 1 /\ Len(frames') = Depth - 2 /\ Ctx'[Depth - 1] = cur'
        /\ cur' \in Contexts /\ frames' \in Seq(Contexts)
        /\ \A j \in 1 .. Depth - 1 : Alike(Ctx[j], Ctx'[j])
        /\ \A j \in 1 .. Depth - 2 : Ctx'[j] = Ctx[j]
    BY <1>1, ReturnedTo
  <1>4. PICK k, x : k = Depth - 1 /\ x = Ctx[k] OBVIOUS
  <1>5. /\ k \in Nat /\ k >= 1 /\ Depth = k + 1 /\ Len(frames) = k /\ Depth' = k /\ Len(frames') = k - 1
        /\ k \in 1 .. Depth /\ k \in 1 .. Len(frames) /\ Depth - 2 = k - 1 /\ Depth - 1 = k
    BY <1>3, <1>4
  <1>6. /\ \A j \in 1 .. Depth : Ctx[j] \in Contexts
        /\ Ctx[Depth] = cur /\ \A j \in 1 .. Len(frames) : Ctx[j] = frames[j]
    BY <1>1, TheContexts
  <1>7. x \in Contexts /\ x = frames[k] /\ x.base \in Nat /\ x.top \in Nat
    <2>1. x \in Contexts /\ x = frames[k] BY <1>4, <1>5, <1>6
    <2> QED BY <2>1, ContextFields
  <1>8. Last(frames) = x BY <1>5, <1>7 DEF Last
  <1>9. PICK t, y : t = (IF cur.code.by = "code" THEN x.top + 1 ELSE x.top) /\ y = cur' OBVIOUS
  <1>10. t \in Nat /\ y = [x EXCEPT !.top = t] BY <1>2, <1>7, <1>8, <1>9
  <1>11. SameCode(x, y) /\ y.code = x.code /\ y.top = t /\ y.base = x.base BY <1>7, <1>10, TopOnly
  <1>12. cur'.base = x.base /\ cur'.code = x.code
         /\ cur'.top = (IF cur.code.by = "code" THEN x.top + 1 ELSE x.top)
    BY <1>9, <1>11
  <1>13. cur.code.at = "leaving" /\ status \notin {"over", "aborted"}
    <2>1. /\ DropsIn(native[Len(native)], cur) /\ native[Len(native)].then = "return"
          /\ status \notin {"over", "aborted"}
      BY <1>1, <1>2, DropsDoneFacts
    <2> QED BY <2>1 DEF DropsIn
  <1>14. Waits(k, x, cur) /\ Apart(x, cur)
    BY <1>1, <1>4, <1>5, <1>6 DEF Waiting, Shape, Separate
  <1>15. cur.base \in Nat BY <1>1, ContextFields DEF Typed
  <1>16. Ctx'[k] = cur' /\ (\A j \in 1 .. k : Alike(Ctx[j], Ctx'[j])) /\ \A j \in 1 .. k - 1 : Ctx'[j] = Ctx[j]
    BY <1>3, <1>5
  <1> QED BY <1>2, <1>3, <1>4, <1>5, <1>6, <1>7, <1>12, <1>13, <1>14, <1>15, <1>16 DEF Resumed

(* The entries that stay: calls of the activations that remain, and what   *)
(* they interrupt.                                                         *)
LEMMA RemainingFits ==
  ASSUME RInv, NEW k, NEW x, Resumed(k, x), NEW q, Unwound(q), NEW i \in 1 .. q
  PROVE  \E n : n = native[i] /\ Fits(n)' /\ (n.op = "call" => n.depth \in 2 .. k)
PROOF
  <1>1. DInv /\ Inv /\ Typed /\ Shape /\ Links /\ Entries BY DEF RInv, DInv
  <1>2. /\ q \in 0 .. Len(native) - 1 /\ i \in DOMAIN native
        /\ native[i].op # "call" => native[i].depth \in 1 .. Depth - 1
        /\ q >= 1 /\ Binds(native[q]) => native[q].depth = Depth - 1
    BY DEF Unwound, Returns
  <1>3. /\ k \in Nat /\ k >= 1 /\ Depth = k + 1 /\ Depth' = k /\ Ctx[Depth] = cur
        /\ cur.code.at = "leaving" /\ Ctx'[k] = cur' /\ x = Ctx[k]
        /\ cur'.base = x.base /\ cur'.code = x.code
        /\ cur'.top = (IF cur.code.by = "code" THEN x.top + 1 ELSE x.top)
        /\ \A j \in 1 .. k : Alike(Ctx[j], Ctx'[j])
        /\ \A j \in 1 .. k - 1 : Ctx'[j] = Ctx[j]
    BY DEF Resumed
  <1>4. Len(native) \in Nat /\ DOMAIN native = 1 .. Len(native) BY <1>1, TheNative
  <1>5. PICK n : n = native[i] /\ Fits(n) /\ NativeEntry(n)
    BY <1>1, <1>2 DEF Shape, Fitting, Entries
  <1>6. PICK d : d = n.depth OBVIOUS
  <1>7. q \in Nat /\ q >= 1 /\ q < Len(native) /\ q \in DOMAIN native /\ i <= q BY <1>2, <1>4
  <1>8. CASE n.op = "call"
    <2>1. d \in 2 .. Depth /\ Started(n, Ctx[d - 1], Ctx[d]) BY <1>5, <1>6, <1>8 DEF Fits
    <2>2. d # Depth
      <3>1. CASE Binds(n)
        <4>1. i = q \/ i < q BY <1>7
        <4>2. CASE i = q
          <5>1. d = Depth - 1 BY <1>2, <1>5, <1>6, <1>7, <3>1, <4>2
          <5> QED BY <1>3, <5>1
        <4>3. CASE i < q
          <5>1. Binds(native[q]) /\ n.depth <= native[q].depth
            BY <1>1, <1>2, <1>5, <1>7, <3>1, <4>3 DEF Links
          <5>2. d <= Depth - 1 BY <1>2, <1>6, <1>7, <5>1
          <5> QED BY <1>3, <2>1, <5>2
        <4> QED BY <4>1, <4>2, <4>3
      <3>2. CASE ~Binds(n)
        <4>1. Ctx[d].code.at = "default" BY <2>1, <3>2 DEF Started
        <4> QED BY <1>3, <4>1
      <3> QED BY <3>1, <3>2
    <2>3. d \in 2 .. k /\ d - 1 \in 1 .. k /\ d \in 1 .. k BY <1>3, <2>1, <2>2
    <2>4. Alike(Ctx[d - 1], Ctx'[d - 1]) /\ Alike(Ctx[d], Ctx'[d]) BY <1>3, <2>3
    <2>5. Started(n, Ctx'[d - 1], Ctx'[d]) BY <2>1, <2>4, StartedAlike
    <2>6. Started(n, Ctx[d - 1], Ctx[d])'
      <3>1. PICK v, w : v = Ctx'[d - 1] /\ w = Ctx'[d] OBVIOUS
      <3>2. Started(n, v, w) BY <2>5, <3>1
      <3>3. Started(n, v, w)' BY <3>2 DEF Started, Binds
      <3> QED BY <3>1, <3>3
    <2>7. Fits(n)' BY <1>3, <1>6, <1>8, <2>3, <2>6 DEF Fits
    <2> QED BY <1>5, <1>6, <1>8, <2>3, <2>7
  <1>9. CASE n.op # "call"
    <2>1. d \in 1 .. k BY <1>2, <1>3, <1>5, <1>6, <1>9
    <2>2. /\ Ctx'[d].base = Ctx[d].base /\ Ctx'[d].top = Ctx[d].top /\ Ctx'[d].code = Ctx[d].code
      <3>1. CASE d \in 1 .. k - 1 BY <1>3, <3>1
      <3>2. CASE d = k
        <4>1. i \in 1 .. Len(native) - 1 /\ i + 1 \in DOMAIN native BY <1>4, <1>7
        <4>2. Linked(native[i], native[i + 1]) BY <1>1, <4>1 DEF Links
        <4>3. PICK m : m = native[i + 1] /\ Fits(m) BY <1>1, <4>1 DEF Shape, Fitting
        <4>4. m.op = "call" /\ m.by # "code" /\ m.depth = n.depth + 1
          BY <1>5, <1>9, <4>2, <4>3 DEF Linked, Binds
        <4>5. m.depth = Depth BY <1>3, <1>6, <3>2, <4>4
        <4>6. Started(m, Ctx[m.depth - 1], Ctx[m.depth]) BY <4>3, <4>4 DEF Fits
        <4>7. cur.code.by = m.by BY <1>3, <4>5, <4>6 DEF Started
        <4> QED BY <1>3, <3>2, <4>4, <4>7
      <3> QED BY <1>3, <2>1, <3>1, <3>2
    <2>3. Fits(n)'
      <3>1. n.op = "make" => Ctx'[n.depth].top = n.start - 1 BY <1>5, <1>6, <2>2 DEF Fits
      <3>2. n.op = "drop" => Above(Ctx'[n.depth]) <= n.limit
        <4>1. n.op = "drop" => Above(Ctx[n.depth]) <= n.limit BY <1>5 DEF Fits
        <4>2. Above(Ctx'[n.depth]) = Above(Ctx[n.depth]) BY <1>6, <2>2 DEF Above
        <4> QED BY <4>1, <4>2
      <3> QED BY <1>9, <3>1, <3>2 DEF Fits, Above
    <2> QED BY <1>5, <1>9, <2>3
  <1> QED BY <1>8, <1>9

LEMMA ReturnShape ==
  ASSUME RInv, DInv', NEW k, NEW x, Resumed(k, x), NEW q, Unwound(q)
  PROVE  RInv'
PROOF
  <1>1. DInv /\ Inv /\ Typed /\ Shape BY DEF RInv, DInv
  <1>2. /\ k \in Nat /\ k >= 1 /\ Depth = k + 1 /\ Len(frames) = k /\ Depth' = k /\ Len(frames') = k - 1
        /\ Ctx[Depth] = cur /\ cur.code.at = "leaving" /\ Ctx'[k] = cur' /\ x = Ctx[k]
        /\ cur'.base = x.base /\ cur'.code = x.code
        /\ cur'.top = (IF cur.code.by = "code" THEN x.top + 1 ELSE x.top)
        /\ (\A j \in 1 .. k : Alike(Ctx[j], Ctx'[j]))
        /\ (\A j \in 1 .. k - 1 : Ctx'[j] = Ctx[j])
        /\ Waits(k, x, cur) /\ status' = status
    BY DEF Resumed
  <1>3. /\ q \in 0 .. Len(native) - 1 /\ DOMAIN native' = 1 .. q /\ Len(native') = q
        /\ (\A i \in 1 .. q : i \in DOMAIN native /\ native'[i] = native[i])
        /\ (\A i \in q + 1 .. Len(native) : native[i].op = "call" => native[i].depth = Depth)
    BY DEF Unwound, Returns
  <1>4. Len(native) \in Nat /\ DOMAIN native = 1 .. Len(native) BY <1>1, TheNative
  <1>5. Separate'
    <2>1. ASSUME NEW j \in 1 .. Len(frames') PROVE Apart(Ctx'[j], Ctx'[j + 1])
      <3>1. j \in 1 .. k - 1 /\ j \in 1 .. Len(frames) /\ j + 1 \in 1 .. k BY <1>2
      <3>2. Apart(Ctx[j], Ctx[j + 1]) BY <1>1, <3>1 DEF Shape, Separate
      <3>3. Ctx'[j] = Ctx[j] /\ Alike(Ctx[j + 1], Ctx'[j + 1]) BY <1>2, <3>1
      <3> QED BY <3>2, <3>3 DEF Apart, Alike
    <2> QED BY <2>1 DEF Separate, Apart, Above
  <1>6. Promising'
    <2>1. ASSUME NEW j \in 1 .. Depth' PROVE Promises(Ctx'[j])
      <3>1. j \in 1 .. k /\ j \in 1 .. Depth BY <1>2
      <3>2. Promises(Ctx[j]) BY <1>1, <3>1 DEF Shape, Promising
      <3>3. Ctx'[j].code = Ctx[j].code BY <1>2, <3>1 DEF Alike
      <3> QED BY <3>2, <3>3 DEF Promises
    <2> QED BY <2>1 DEF Promising, Promises
  <1>7. Gathering'
    <2>1. cur'.code.at \in Running \cup {"leaving"} BY <1>2 DEF Waits
    <2>2. cur'.code.at # "gather" BY <2>1 DEF Running
    <2> QED BY <2>2 DEF Gathering
  <1>8. ASSUME NEW i \in 1 .. q
        PROVE \E n : n = native'[i] /\ Fits(n)' /\ (n.op = "call" => n.depth \in 2 .. k)
    <2>1. \E n : n = native[i] /\ Fits(n)' /\ (n.op = "call" => n.depth \in 2 .. k) BY <1>8, RemainingFits
    <2> QED BY <1>3, <2>1
  <1>9. Fitting' BY <1>3, <1>8 DEF Fitting
  <1>10. Deeper'
    <2>1. ASSUME NEW i \in 1 .. q, NEW j \in 1 .. q, i < j, native'[i].op = "call", native'[j].op = "call"
          PROVE  native'[i].depth < native'[j].depth
      BY <1>1, <1>3, <2>1 DEF Shape, Deeper
    <2> QED BY <1>3, <2>1 DEF Deeper
  <1>11. Computing'
    <2>1. ASSUME NEW j \in 2 .. Depth', Ctx'[j].code.at = "default"
          PROVE  \E i \in DOMAIN native' : native'[i].op = "call" /\ native'[i].depth = j
      <3>1. j \in 1 .. k /\ j \in 2 .. Depth /\ j # Depth BY <1>2
      <3>2. Ctx[j].code.at = "default" BY <1>2, <2>1, <3>1 DEF Alike
      <3>3. PICK i \in DOMAIN native : native[i].op = "call" /\ native[i].depth = j
        BY <1>1, <3>1, <3>2 DEF Shape, Computing
      <3>4. i \notin q + 1 .. Len(native) BY <1>3, <3>1, <3>3
      <3>5. i \in 1 .. q BY <1>3, <1>4, <3>3, <3>4
      <3> QED BY <1>3, <3>3, <3>5
    <2> QED BY <2>1 DEF Computing
  <1>12. Idle'
    <2>1. ASSUME status' # "running" PROVE Ctx'[1].top = 0 /\ (Depth' > 1 => Ctx'[2].code.by # "code")
      <3>1. Ctx[1].top = 0 /\ Ctx[2].code.by # "code" BY <1>1, <1>2, <2>1 DEF Shape, Idle
      <3>2. CASE k = 1 BY <1>2, <3>1, <3>2
      <3>3. CASE k > 1
        <4>1. 1 \in 1 .. k - 1 /\ 2 \in 1 .. k BY <1>2, <3>3
        <4>2. Ctx'[1] = Ctx[1] /\ Ctx'[2].code = Ctx[2].code BY <1>2, <4>1 DEF Alike
        <4> QED BY <3>1, <4>2
      <3> QED BY <1>2, <3>2, <3>3
    <2> QED BY <2>1 DEF Idle
  <1> QED BY <1>5, <1>6, <1>7, <1>9, <1>10, <1>11, <1>12 DEF RInv, Shape

(* The values of the activation that a return resumes, old before it and   *)
(* new after it.                                                           *)
Receives(old, new) ==
  IF cur.code.by = "code"
  THEN /\ Len(new) = Len(old) + 1
       /\ SubSeq(new, 1, Len(old)) = old
       /\ cur.code.promised => new = old \o <<regs[cur.base - 1]>>
  ELSE new = old

LEMMA CallerReceives ==
  ASSUME RInv, NEW k, NEW x, Resumed(k, x), Same(cur.base - 1),
         cur.code.by = "code" /\ cur.code.promised => regs' = regs
  PROVE  Receives(Vals(regs, x), Vals(regs', cur'))
PROOF
  <1>1. /\ k \in Nat /\ k >= 1 /\ Len(frames) = k /\ x = Ctx[k]
        /\ x \in Contexts /\ x.base \in Nat /\ x.top \in Nat
        /\ cur' \in Contexts /\ cur'.base = x.base /\ cur'.code = x.code
        /\ cur'.top = (IF cur.code.by = "code" THEN x.top + 1 ELSE x.top)
        /\ cur.base \in Nat /\ Waits(k, x, cur) /\ Apart(x, cur)
        /\ status \notin {"over", "aborted"}
    BY DEF Resumed
  <1>2. PICK old, new, y : old = Vals(regs, x) /\ new = Vals(regs', cur') /\ y = cur' OBVIOUS
  <1>3. Vals(regs', x) = old
    <2>1. k \in 1 .. Len(frames) BY <1>1
    <2>2. Vals(regs', Ctx[k]) = Vals(regs, Ctx[k]) BY <1>1, <2>1, CallersKept
    <2> QED BY <1>1, <1>2, <2>2
  <1>4. CASE cur.code.by = "code"
    <2>1. PICK t : t = x.top OBVIOUS
    <2>2. /\ x.code.at # "leaving" /\ y.code.at # "leaving" /\ t \in Nat
          /\ y \in Contexts /\ y.top = t + 1 /\ y.base = x.base /\ cur.base = x.base + t + 1
      BY <1>1, <1>2, <1>4, <2>1 DEF Waits, Running, Apart
    <2>3. Len(old) = t /\ \A i \in 1 .. t : old[i] = regs'[x.base + i - 1]
      <3>1. PICK file : file = regs' OBVIOUS
      <3>2. Vals(file, x) = old BY <1>3, <3>1
      <3>3. x \in Contexts /\ x.code.at # "leaving" BY <1>1, <2>2
      <3>4. /\ Len(Vals(file, x)) = x.top
            /\ \A i \in 1 .. x.top : Vals(file, x)[i] = file[x.base + i - 1]
        BY <3>3, ValsSeq
      <3> QED BY <2>1, <3>1, <3>2, <3>4
    <2>4. Len(new) = t + 1 /\ \A i \in 1 .. t + 1 : new[i] = regs'[x.base + i - 1]
      BY <1>2, <2>2, ValsSeq
    <2>5. PICK S : old \in Seq(S) BY <1>1, <1>2, ValsSeq
    <2>6. PICK T : new \in Seq(T) BY <1>2, <2>2, ValsSeq
    <2>7. SubSeq(new, 1, t) = old
      <3>1. \A i \in 1 .. t : new[i] = old[i] BY <2>2, <2>3, <2>4
      <3>2. SubSeq(new, 1, t) = SubSeq(old, 1, t) BY <2>2, <2>3, <2>4, <2>5, <2>6, <3>1, Agree
      <3>3. SubSeq(old, 1, Len(old)) = old BY <2>5
      <3> QED BY <2>3, <3>2, <3>3
    <2>8. cur.code.promised => new = old \o <<regs[cur.base - 1]>>
      <3> HAVE cur.code.promised
      <3>1. PICK v : v = regs[cur.base - 1] OBVIOUS
      <3>2. new[t + 1] = v
        <4>1. PICK b, c : b = x.base /\ c = cur.base OBVIOUS
        <4>2. b \in Nat /\ c = b + t + 1 BY <1>1, <2>2, <4>1
        <4>3. t + 1 \in 1 .. t + 1 /\ b + (t + 1) - 1 = c - 1 BY ONLY <2>2, <4>2
        <4>4. new[t + 1] = regs'[b + (t + 1) - 1] BY <2>4, <4>1, <4>3
        <4> QED BY <1>1, <1>4, <3>1, <4>1, <4>3, <4>4
      <3>3. SubSeq(new, 1, t) \o <<v>> = new
        <4>1. Len(new) = t + 1 /\ new \in Seq(T) /\ t \in Nat /\ new[t + 1] = v
          BY <2>2, <2>4, <2>6, <3>2
        <4>2. PICK s : s = SubSeq(new, 1, t) OBVIOUS
        <4>3. s \in Seq(T) /\ Len(s) = t /\ \A i \in 1 .. t : s[i] = new[i] BY <4>1, <4>2
        <4>4. v \in T
          <5>1. t + 1 \in 1 .. Len(new) BY <4>1
          <5> QED BY <4>1, <5>1
        <4>5. /\ s \o <<v>> \in Seq(T) /\ Len(s \o <<v>>) = t + 1
              /\ (\A i \in 1 .. t : (s \o <<v>>)[i] = s[i]) /\ (s \o <<v>>)[t + 1] = v
          BY <4>1, <4>3, <4>4
        <4>6. \A i \in 1 .. t + 1 : (s \o <<v>>)[i] = new[i] BY <4>1, <4>3, <4>5
        <4> QED BY <4>1, <4>2, <4>5, <4>6
      <3> QED BY <2>7, <3>1, <3>3
    <2> QED BY <1>2, <1>4, <2>3, <2>4, <2>7, <2>8 DEF Receives
  <1>5. CASE cur.code.by # "code"
    <2>1. new = Vals(regs', x) BY <1>1, <1>2, <1>5 DEF Vals
    <2> QED BY <1>2, <1>3, <1>5, <2>1 DEF Receives
  <1> QED BY <1>4, <1>5

LEMMA RestoreDataFollows ==
  ASSUME RInv, RestoreData
  PROVE  RInv' /\ Follows
PROOF
  <1>1. DInv' BY RestoreDataKeeps DEF RInv
  <1>2. DInv /\ Typed BY DEF RInv, DInv
  <1>3. PICK k, x : Resumed(k, x) BY CallerResumed
  <1>4. PICK q : Unwound(q) BY CallPopped
  <1>5. RInv' BY <1>1, <1>3, <1>4, ReturnShape
  <1>6. Same(cur.base - 1) /\ (cur.code.by = "code" /\ cur.code.promised => regs' = regs)
    BY CallPopped
  <1>7. /\ k \in Nat /\ k >= 1 /\ Depth = k + 1 /\ Len(frames) = k /\ Depth' = k
        /\ x = Ctx[k] /\ Ctx'[k] = cur' /\ cur'.code = x.code
        /\ Ctx[Depth] = cur /\ cur.code.at = "leaving" /\ cur \in Contexts
        /\ (\A j \in 1 .. k - 1 : Ctx'[j] = Ctx[j])
        /\ frames' \in Seq(Contexts) /\ status \notin {"over", "aborted"}
    BY <1>2, <1>3 DEF Resumed, Typed
  <1>8. PICK S : Stack \in Seq(S) BY <1>2, StackFacts
  <1>9. PICK T : Stack' \in Seq(T) BY <1>7, NextStackFacts
  <1>10. /\ Len(Stack) = k + 1 /\ (\A j \in 1 .. k + 1 : Stack[j] = Act(regs, Ctx[j]))
         /\ Len(Stack') = k /\ (\A j \in 1 .. k : Stack'[j] = Act(regs', Ctx'[j]))
    BY <1>2, <1>7, StackFacts, NextStackFacts
  <1>11. SubSeq(Stack', 1, k - 1) = SubSeq(Stack, 1, k - 1)
    <2>1. \A j \in 1 .. k - 1 : Stack'[j] = Stack[j]
      <3> TAKE j \in 1 .. k - 1
      <3>1. j \in 1 .. k + 1 /\ j \in 1 .. k /\ j \in 1 .. Len(frames) BY <1>7
      <3>2. Vals(regs', Ctx[j]) = Vals(regs, Ctx[j]) BY <1>6, <1>7, <3>1, CallersKept
      <3> QED BY <1>7, <1>10, <3>1, <3>2 DEF Act
    <2>2. k - 1 <= Len(Stack') /\ k - 1 <= Len(Stack) /\ k - 1 \in Nat BY <1>7, <1>10
    <2> QED BY <1>8, <1>9, <2>1, <2>2, Agree
  <1>12. /\ Stack[k] = Act(regs, x) /\ Stack[k + 1] = Act(regs, cur) /\ Stack'[k] = Act(regs', cur')
    <2>1. k \in 1 .. k + 1 /\ k + 1 \in 1 .. k + 1 /\ k \in 1 .. k BY <1>7
    <2> QED BY <1>7, <1>10, <2>1
  <1>13. PICK old, new, r : old = Vals(regs, x) /\ new = Vals(regs', cur') /\ r = regs[cur.base - 1]
    OBVIOUS
  <1>14. Receives(old, new) BY <1>3, <1>6, <1>13, CallerReceives
  <1>15. Vals(regs, cur) = <<r>> BY <1>7, <1>13 DEF Vals
  <1>16. /\ Stack[k].vals = old /\ Stack'[k] = [Stack[k] EXCEPT !.vals = new] /\ Stack'[k].vals = new
         /\ Stack[k + 1].by = cur.code.by /\ Stack[k + 1].promised = cur.code.promised
         /\ Stack[k + 1].vals = <<r>>
    BY <1>7, <1>12, <1>13, <1>15 DEF Act
  <1>17. Promise!Left
    <2>1. /\ Len(Stack) = k + 1 /\ Len(Stack) > 1 /\ Len(Stack) - 1 = k /\ Len(Stack) - 2 = k - 1
          /\ Len(Stack') = Len(Stack) - 1
      BY <1>7, <1>10
    <2>2. IF Stack[k + 1].by = "code"
          THEN /\ Len(new) = Len(Stack[k].vals) + 1
               /\ SubSeq(new, 1, Len(Stack[k].vals)) = Stack[k].vals
               /\ Stack[k + 1].promised => new = Stack[k].vals \o Stack[k + 1].vals
          ELSE new = Stack[k].vals
      BY <1>13, <1>14, <1>16 DEF Receives
    <2>3. PICK caller : caller = Stack[k] OBVIOUS
    <2>4. /\ Stack'[k] = [caller EXCEPT !.vals = Stack'[k].vals]
          /\ IF Stack[k + 1].by = "code"
             THEN /\ Len(Stack'[k].vals) = Len(caller.vals) + 1
                  /\ SubSeq(Stack'[k].vals, 1, Len(caller.vals)) = caller.vals
                  /\ Stack[k + 1].promised => Stack'[k].vals = caller.vals \o Stack[k + 1].vals
             ELSE Stack'[k].vals = caller.vals
      BY <1>16, <2>2, <2>3
    <2> QED BY <1>11, <2>1, <2>3, <2>4, StepsOfStack
  <1> QED BY <1>5, <1>17 DEF Follows, Promise!Next

-----------------------------------------------------------------------------
(* All together.                                                           *)

LEMMA Begins ==
  ASSUME Init
  PROVE  RInv /\ Promise!Init
PROOF
  <1>1. DInv BY Starts
  <1>2. Typed BY <1>1 DEF DInv
  <1>3. /\ frames = <<>> /\ native = <<>> /\ status = "running" /\ cur.code = Script
    BY DEF Init
  <1>4. Len(frames) = 0 /\ Depth = 1 /\ Ctx[1] = cur /\ DOMAIN native = {} BY <1>2, <1>3, TheContexts
  <1>5. /\ cur.code.at = "script" /\ cur.code.by = "code" /\ cur.code.promised /\ cur.code.self = 0
    BY <1>3 DEF Script, Code
  <1>6. Separate BY <1>4 DEF Separate
  <1>7. Promising
    <2>1. Promises(cur) BY <1>5 DEF Promises
    <2> QED BY <1>4, <2>1 DEF Promising
  <1>8. Gathering BY <1>5 DEF Gathering
  <1>9. Fitting /\ Deeper BY <1>4 DEF Fitting, Deeper
  <1>10. Computing
    <2>1. 2 .. Depth = {} BY <1>4
    <2> QED BY <2>1 DEF Computing
  <1>11. Idle BY <1>3 DEF Idle
  <1>12. RInv BY <1>1, <1>6, <1>7, <1>8, <1>9, <1>10, <1>11 DEF RInv, Shape
  <1>13. Promise!Init
    <2>1. Len(Stack) = 1 /\ \A k \in 1 .. 1 : Stack[k] = Act(regs, Ctx[k]) BY <1>2, <1>4, StackFacts
    <2>2. Stack[1] = Act(regs, cur) BY <1>4, <2>1
    <2>3. Stack[1].by = "code" /\ Stack[1].promised BY <1>5, <2>2 DEF Act
    <2> QED BY <2>1, <2>3, StepsOfStack
  <1> QED BY <1>12, <1>13

LEMMA StepFollows ==
  ASSUME RInv, [Next]_vars
  PROVE  RInv' /\ Follows
PROOF
  <1>1. ASSUME NEW v \in Loadable, Load(v) PROVE RInv' /\ Follows BY <1>1, LoadFollows
  <1>2. ASSUME Discard \/ GetMethod \/ SetField PROVE RInv' /\ Follows
    BY <1>2, DiscardFollows, GetMethodFollows, SetFieldFollows
  <1>3. ASSUME NEW k \in Types, BeginLiteral(k) PROVE RInv' /\ Follows BY <1>3, BeginLiteralFollows
  <1>4. ASSUME NEW p \in OpenLiterals, NEW given \in BOOLEAN, EndLiteral(p, given)
        PROVE  RInv' /\ Follows
    BY <1>4, EndLiteralFollows
  <1>5. CASE EnterScope BY <1>5, EnterScopeFollows
  <1>6. ASSUME ExitScope \/ UpdateIter PROVE RInv' /\ Follows
    BY <1>6, LeaveScopeFollows DEF ExitScope, UpdateIter
  <1>7. ASSUME NEW p \in Temporaries, CallMethod(p) PROVE RInv' /\ Follows BY <1>7, CallMethodFollows
  <1>8. ASSUME NEW p \in Temporaries, NEW f \in Funs, CallFunc(p, f) PROVE RInv' /\ Follows
    BY <1>8, CallFuncFollows
  <1>9. ASSUME NEW p \in Temporaries, NEW k \in Types, CallType(p, k) PROVE RInv' /\ Follows
    BY <1>9, CallTypeFollows
  <1>10. ASSUME DefaultDone \/ VarArgs \/ LoadName PROVE RInv' /\ Follows
    BY <1>10, DefaultDoneFollows, VarArgsFollows, LoadNameFollows
  <1>11. ASSUME NEW v \in Returnable, Return(v) PROVE RInv' /\ Follows BY <1>11, ReturnFollows
  <1>12. ASSUME AskField \/ Made PROVE RInv' /\ Follows BY <1>12, AskFieldFollows, MadeFollows
  <1>13. ASSUME DropInstance \/ Dropped \/ RestoreData \/ ScopeLeft PROVE RInv' /\ Follows
    BY <1>13, DropInstanceFollows, DroppedFollows, RestoreDataFollows, ScopeLeftFollows
  <1>14. ASSUME Halt \/ Fail \/ ClearVM \/ Destroyed PROVE RInv' /\ Follows
    BY <1>14, HaltFollows, FailFollows, ClearVMFollows, DestroyedFollows
  <1>15. ASSUME Over \/ UNCHANGED vars PROVE RInv' /\ Follows BY <1>15, NothingFollows DEF Over
  <1> QED
    BY <1>1, <1>2, <1>3, <1>4, <1>5, <1>6, <1>7, <1>8, <1>9, <1>10, <1>11, <1>12, <1>13, <1>14, <1>15
       DEF Next

(* What the refinement rests on: the values that callers will still read   *)
(* end below the windows of their callees, each C++ function on the stack  *)
(* belongs to the activation that it started or interrupts, and promises   *)
(* are made only of activations whose arguments stay in place.             *)
THEOREM RefinementInvariantHolds == Spec => []RInv
PROOF
  <1>1. Init => RInv BY Begins
  <1>2. RInv /\ [Next]_vars => RInv' BY StepFollows
  <1> QED BY <1>1, <1>2, PTL DEF Spec

(* Sliding windows over one array, an explicit stack of frames and the C++ *)
(* stack of constructors, initialisers and drop() methods implement        *)
(* activations with values of their own: no call of OP_CALL, callType,     *)
(* callMethod, makeInstance or dropInstances, no return and no refusal at  *)
(* MAX_CALL_DEPTH changes what a caller will still read; and, where the    *)
(* model promises them, arguments arrive in order, behind their receiver,  *)
(* and the result takes the place of the call.                             *)
THEOREM CallStackImplemented == Spec => ImplementsCallStack
PROOF
  <1>1. Init => Promise!Init BY Begins
  <1>2. RInv /\ [Next]_vars => [Promise!Next]_Stack
    BY StepFollows DEF Follows
  <1> QED BY <1>1, <1>2, RefinementInvariantHolds, PTL
             DEF Spec, ImplementsCallStack, Promise!Spec, Stack
=============================================================================
