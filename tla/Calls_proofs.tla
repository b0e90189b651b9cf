---------------------------- MODULE Calls_proofs ----------------------------
(***************************************************************************)
(* What calls and drop() methods do to the VM, for any functions, types,   *)
(* sizes and programs.                                                     *)
(*                                                                         *)
(* First: implicitCall and the C++ stack agree.  The flag is one bit for a *)
(* stack of nested calls: each call remembers what the flag was (was), so  *)
(* the proof carries, for every C++ function on the stack, that "was" is   *)
(* right about those below it, and that a return finds its own call just   *)
(* below, where it pops it.                                                *)
(*                                                                         *)
(* Then: the invariant DInv, of windows in the register array and of when  *)
(* instances are dropped, and a lemma for each action that begins and ends *)
(* no call, that the action keeps it.  Drops_proofs has the other actions  *)
(* and what follows from the invariant.                                    *)
(***************************************************************************)
EXTENDS Calls, SequenceTheorems, TLAPS

ImplicitCall(r) == r.op = "call" /\ r.by # "code"

(* The entry i of a stack of C++ functions, given those below it.          *)
EntryOK(n, i) ==
  \/ /\ n[i].op = "call"
     /\ n[i].was \in BOOLEAN
     /\ n[i].was <=> \E j \in 1 .. i - 1 : ImplicitCall(n[j])
  \/ /\ n[i].op = "make"
     /\ n[i] = [op |-> "make", id |-> n[i].id, start |-> n[i].start, asked |-> n[i].asked,
               depth |-> n[i].depth]
  \/ /\ n[i].op = "drop"
     /\ n[i] = [op |-> "drop", limit |-> n[i].limit, then |-> n[i].then, busy |-> n[i].busy,
               depth |-> n[i].depth]
     /\ n[i].then = "return" => i = 1 \/ n[i - 1].op = "call"
     /\ n[i].then \in {"clear", "destroy"} => i = 1

NativeOK(n, flag) ==
  /\ \E S : n \in Seq(S)
  /\ \A i \in 1 .. Len(n) : EntryOK(n, i)
  /\ flag \in BOOLEAN
  /\ flag <=> \E i \in 1 .. Len(n) : ImplicitCall(n[i])

Inv == NativeOK(native, implicit)
-----------------------------------------------------------------------------
(* Pushing, popping and replacing an entry.                                *)

(* A sound entry on a sound stack makes a sound stack.                     *)
LEMMA Pushed ==
  ASSUME NEW n, NEW flag, NativeOK(n, flag), NEW r,
         EntryOK(Append(n, r), Len(n) + 1)
  PROVE  NativeOK(Append(n, r), flag \/ ImplicitCall(r))
PROOF
  <1>1. PICK S : n \in Seq(S) BY DEF NativeOK
  <1> DEFINE m == Append(n, r)
  <1>2. m \in Seq(S \cup {r}) /\ Len(m) = Len(n) + 1 /\ Len(n) \in Nat
    BY <1>1
  <1>3. \A i \in 1 .. Len(n) : m[i] = n[i]
    BY <1>1
  <1>4. m[Len(n) + 1] = r
    BY <1>1
  <1> HIDE DEF m
  <1>5. \A i \in 1 .. Len(m) : EntryOK(m, i)
    <2> TAKE i \in 1 .. Len(m)
    <2>1. CASE i = Len(n) + 1
      BY <2>1 DEF m
    <2>2. CASE i \in 1 .. Len(n)
      <3>1. EntryOK(n, i) BY <2>2 DEF NativeOK
      <3>2. m[i] = n[i] /\ \A j \in 1 .. i - 1 : m[j] = n[j]
        BY <1>2, <1>3, <2>2
      <3>3. i # 1 => m[i - 1] = n[i - 1]
        BY <1>2, <1>3, <2>2
      <3> QED BY <3>1, <3>2, <3>3, <2>2 DEF EntryOK
    <2> QED BY <1>2, <2>1, <2>2
  <1>6. (flag \/ ImplicitCall(r)) <=> \E i \in 1 .. Len(m) : ImplicitCall(m[i])
    <2>1. (\E i \in 1 .. Len(m) : ImplicitCall(m[i])) <=>
            (\E i \in 1 .. Len(n) : ImplicitCall(n[i])) \/ ImplicitCall(r)
      BY <1>2, <1>3, <1>4
    <2> QED BY <2>1 DEF NativeOK
  <1>7. (flag \/ ImplicitCall(r)) \in BOOLEAN
    OBVIOUS
  <1> QED BY <1>2, <1>5, <1>6, <1>7 DEF NativeOK, m

(* Front leaves the last element out.                                      *)
LEMMA FrontIsSeq ==
  ASSUME NEW S, NEW n \in Seq(S), n # <<>>
  PROVE  Front(n) \in Seq(S) /\ Len(Front(n)) = Len(n) - 1
PROOF
  <1> DEFINE k == Len(n) - 1
  <1>1. k \in Nat /\ k \in Int /\ 1 \in Int OBVIOUS
  <1>2. \A i \in 1 .. k : n[i] \in S BY <1>1
  <1>3. Front(n) = SubSeq(n, 1, k) BY DEF Front
  <1> HIDE DEF k
  <1>4. /\ SubSeq(n, 1, k) \in Seq(S)
        /\ Len(SubSeq(n, 1, k)) = IF 1 <= k THEN k - 1 + 1 ELSE 0
    BY <1>1, <1>2, SubSeqProperties
  <1>5. Len(SubSeq(n, 1, k)) = k BY <1>1, <1>4
  <1> QED BY <1>3, <1>4, <1>5 DEF k

(* Without its last entry a sound stack is sound, and its flag is what the *)
(* entry remembers if it is a call.                                        *)
LEMMA Popped ==
  ASSUME NEW n, NEW flag, NativeOK(n, flag), n # <<>>
  PROVE  /\ Last(n).op # "call" => NativeOK(Front(n), flag)
         /\ Last(n).op = "call" => NativeOK(Front(n), Last(n).was)
         /\ Last(n).op = "call" => flag = (Last(n).was \/ Last(n).by # "code")
         /\ EntryOK(n, Len(n)) /\ Last(n) = n[Len(n)] /\ Len(n) \in Nat \ {0}
         /\ Len(Front(n)) = Len(n) - 1
         /\ \A i \in 1 .. Len(n) - 1 : Front(n)[i] = n[i]
PROOF
  <1>1. PICK S : n \in Seq(S) BY DEF NativeOK
  <1> DEFINE m == Front(n)
  <1>2. Len(n) \in Nat \ {0} BY <1>1
  <1>3. m \in Seq(S) /\ Len(m) = Len(n) - 1
    BY <1>1, FrontIsSeq
  <1>4. \A i \in 1 .. Len(n) - 1 : m[i] = n[i]
    BY <1>1, <1>2 DEF Front
  <1>5. Last(n) = n[Len(n)]
    BY DEF Last
  <1> HIDE DEF m
  <1>6. EntryOK(n, Len(n))
    BY <1>2 DEF NativeOK
  <1>7. \A i \in 1 .. Len(m) : EntryOK(m, i)
    <2> TAKE i \in 1 .. Len(m)
    <2>1. i \in 1 .. Len(n) BY <1>2, <1>3
    <2>2. EntryOK(n, i) BY <2>1 DEF NativeOK
    <2>3. m[i] = n[i] /\ \A j \in 1 .. i - 1 : m[j] = n[j]
      BY <1>2, <1>3, <1>4
    <2>4. i # 1 => m[i - 1] = n[i - 1]
      BY <1>2, <1>3, <1>4
    <2> QED BY <2>2, <2>3, <2>4 DEF EntryOK
  <1>8. (\E i \in 1 .. Len(n) : ImplicitCall(n[i])) <=>
          (\E i \in 1 .. Len(m) : ImplicitCall(m[i])) \/ ImplicitCall(n[Len(n)])
    BY <1>2, <1>3, <1>4
  <1>9. ASSUME n[Len(n)].op = "call"
        PROVE  /\ n[Len(n)].was \in BOOLEAN
               /\ n[Len(n)].was <=> \E i \in 1 .. Len(m) : ImplicitCall(m[i])
    BY <1>2, <1>3, <1>4, <1>6, <1>9 DEF EntryOK
  <1>10. n[Len(n)].op # "call" => NativeOK(m, flag)
    BY <1>3, <1>7, <1>8 DEF NativeOK, ImplicitCall
  <1>11. n[Len(n)].op = "call" => NativeOK(m, n[Len(n)].was)
    BY <1>3, <1>7, <1>9 DEF NativeOK
  <1>12. n[Len(n)].op = "call" => flag = (n[Len(n)].was \/ n[Len(n)].by # "code")
    <2> HAVE n[Len(n)].op = "call"
    <2>1. flag \in BOOLEAN /\ (flag <=> \E i \in 1 .. Len(n) : ImplicitCall(n[i]))
      BY DEF NativeOK
    <2> QED BY <2>1, <1>8, <1>9 DEF ImplicitCall
  <1> QED BY <1>2, <1>3, <1>4, <1>5, <1>6, <1>10, <1>11, <1>12 DEF m
-----------------------------------------------------------------------------
(* What an entry must be to go on top of a sound stack.                    *)

LEMMA PushedMake ==
  ASSUME NEW n, NEW flag, NativeOK(n, flag), NEW id, NEW start, NEW asked,
         NEW depth
  PROVE  NativeOK(Append(n, [op |-> "make", id |-> id, start |-> start, asked |-> asked,
                             depth |-> depth]), flag)
PROOF
  <1> DEFINE r == [op |-> "make", id |-> id, start |-> start, asked |-> asked, depth |-> depth]
  <1>1. PICK S : n \in Seq(S) BY DEF NativeOK
  <1>2. Append(n, r)[Len(n) + 1] = r BY <1>1
  <1>3. EntryOK(Append(n, r), Len(n) + 1) BY <1>2 DEF EntryOK
  <1>4. ~ImplicitCall(r) BY DEF ImplicitCall
  <1>5. NativeOK(Append(n, r), flag \/ ImplicitCall(r)) BY <1>3, Pushed
  <1>6. flag \in BOOLEAN BY DEF NativeOK
  <1>7. (flag \/ ImplicitCall(r)) = flag BY <1>4, <1>6
  <1> QED BY <1>5, <1>7

LEMMA PushedDrop ==
  ASSUME NEW n, NEW flag, NativeOK(n, flag), NEW limit, NEW then, NEW busy, NEW depth,
         then = "return" => n = <<>> \/ n[Len(n)].op = "call",
         then \in {"clear", "destroy"} => n = <<>>
  PROVE  NativeOK(Append(n, [op |-> "drop", limit |-> limit, then |-> then, busy |-> busy,
                             depth |-> depth]), flag)
PROOF
  <1> DEFINE r == [op |-> "drop", limit |-> limit, then |-> then, busy |-> busy, depth |-> depth]
  <1>1. PICK S : n \in Seq(S) BY DEF NativeOK
  <1>2. Append(n, r)[Len(n) + 1] = r BY <1>1
  <1>3. n # <<>> => Append(n, r)[Len(n)] = n[Len(n)] BY <1>1
  <1>4. n = <<>> => Len(n) = 0 BY <1>1
  <1>5. Len(n) \in Nat BY <1>1
  <1>6. EntryOK(Append(n, r), Len(n) + 1) BY <1>2, <1>3, <1>4, <1>5 DEF EntryOK
  <1>7. ~ImplicitCall(r) BY DEF ImplicitCall
  <1>8. NativeOK(Append(n, r), flag \/ ImplicitCall(r)) BY <1>6, Pushed
  <1>9. flag \in BOOLEAN BY DEF NativeOK
  <1>10. (flag \/ ImplicitCall(r)) = flag BY <1>7, <1>9
  <1> QED BY <1>8, <1>10

LEMMA PushedCall ==
  ASSUME NEW n, NEW flag, NativeOK(n, flag), NEW c, c.op = "call", c.was = flag
  PROVE  NativeOK(Append(n, c), flag \/ c.by # "code")
PROOF
  <1>1. PICK S : n \in Seq(S) BY DEF NativeOK
  <1>2. Append(n, c)[Len(n) + 1] = c /\ Len(n) \in Nat BY <1>1
  <1>3. \A j \in 1 .. Len(n) : Append(n, c)[j] = n[j] BY <1>1
  <1>4. flag \in BOOLEAN /\ (flag <=> \E j \in 1 .. Len(n) : ImplicitCall(n[j]))
    BY DEF NativeOK
  <1>5. flag <=> \E j \in 1 .. Len(n) + 1 - 1 : ImplicitCall(Append(n, c)[j])
    BY <1>2, <1>3, <1>4
  <1>6. EntryOK(Append(n, c), Len(n) + 1) BY <1>2, <1>4, <1>5 DEF EntryOK
  <1>7. NativeOK(Append(n, c), flag \/ ImplicitCall(c)) BY <1>6, Pushed
  <1>8. ImplicitCall(c) <=> c.by # "code" BY DEF ImplicitCall
  <1>9. (flag \/ ImplicitCall(c)) = (flag \/ c.by # "code") BY <1>8
  <1> QED BY <1>7, <1>9

(* An empty stack, with no implicit call.                                  *)
LEMMA Empty == NativeOK(<<>>, FALSE)
PROOF
  <1>1. <<>> \in Seq({}) /\ Len(<<>>) = 0 OBVIOUS
  <1>2. \A i \in 1 .. Len(<<>>) : FALSE BY <1>1
  <1> QED BY <1>1, <1>2 DEF NativeOK
-----------------------------------------------------------------------------
(* The steps.                                                              *)

(* Code runs on an empty stack or on top of a call.                        *)
LEMMA OnCall ==
  ASSUME Inv, Executing
  PROVE  native = <<>> \/ native[Len(native)].op = "call"
PROOF
  BY DEF Executing, Doing, Last

(* A call that is set up leaves a sound stack behind.                      *)
LEMMA CallsOK ==
  ASSUME NEW c, NEW file, NEW below, NativeOK(below, implicit),
         c.op = "call", c.was = implicit, CallUserFunc(c, file, below)
  PROVE  NativeOK(native', implicit')
PROOF
  <1>1. CASE AtLimit
    <2>1. native' = below /\ implicit' = implicit
      BY <1>1 DEF CallUserFunc, RefuseCall
    <2> QED BY <2>1
  <1>2. CASE ~AtLimit
    <2>1. implicit' = (implicit \/ c.by # "code")
      BY <1>2 DEF CallUserFunc, EnterCall, Implicit
    <2>2. native' = Append(below, c) \/ (native' = below /\ c.by = "code" /\ ~c.was)
      BY <1>2 DEF CallUserFunc, EnterCall, Settle
    <2>3. CASE native' = Append(below, c)
      <3>1. NativeOK(Append(below, c), implicit \/ c.by # "code")
        BY PushedCall
      <3> QED BY <3>1, <2>1, <2>3
    <2>4. CASE native' = below /\ c.by = "code" /\ ~c.was
      <3>1. implicit \in BOOLEAN BY DEF NativeOK
      <3>2. implicit' = implicit BY <2>1, <2>4, <3>1
      <3> QED BY <2>4, <3>2
    <2> QED BY <2>2, <2>3, <2>4
  <1> QED BY <1>1, <1>2

(* The call records that the actions make.                                 *)
LEMMA CallFields ==
  ASSUME NEW f, NEW self, NEW by, NEW start, NEW argc, NEW keep, NEW copy
  PROVE  /\ Call(f, self, by, start, argc, keep, copy).op = "call"
         /\ Call(f, self, by, start, argc, keep, copy).was = implicit
         /\ Call(f, self, by, start, argc, keep, copy).by = by
PROOF
  BY DEF Call

(* An error empties the stack.                                             *)
LEMMA ThrowOK == Throw => Inv'
PROOF
  <1>1. Throw => native' = <<>> /\ implicit' = FALSE BY DEF Throw
  <1> QED BY <1>1, Empty DEF Inv

(* The calls that code makes.                                              *)
LEMMA CallSteps ==
  ASSUME Inv, NEW p, NEW f, NEW k
  PROVE  /\ CallFunc(p, f) => Inv'
         /\ CallMethod(p) => Inv'
         /\ CallType(p, k) => Inv'
PROOF
  <1>1. ASSUME CallFunc(p, f) PROVE Inv'
    <2> DEFINE c == Call(f, 0, "code", p + 1, args', p, Invalid)
    <2>1. Throw \/ CallUserFunc(c, regs, native) BY <1>1 DEF CallFunc
    <2>2. c.op = "call" /\ c.was = implicit BY CallFields
    <2> HIDE DEF c
    <2>3. CASE CallUserFunc(c, regs, native)
      BY <2>2, <2>3, CallsOK DEF Inv
    <2> QED BY <2>1, <2>3, ThrowOK
  <1>2. ASSUME CallMethod(p) PROVE Inv'
    <2> DEFINE callee == regs[Reg(p)]
               c == Call(callee.of.method, 1, "code", p + 1, args', p, callee)
    <2>1. Throw \/ CallUserFunc(c, Shifted(c, InstV(bound[callee.of])), native)
      BY <1>2 DEF CallMethod
    <2>2. c.op = "call" /\ c.was = implicit BY CallFields
    <2> HIDE DEF c
    <2>3. CASE CallUserFunc(c, Shifted(c, InstV(bound[callee.of])), native)
      BY <2>2, <2>3, CallsOK DEF Inv
    <2> QED BY <2>1, <2>3, ThrowOK
  <1>3. ASSUME CallType(p, k) PROVE Inv'
    <2> DEFINE id == Len(insts) + 1
               below == Append(native, Make(id, p + 1))
               c == Call(k.ctor, 1, "make", p + 1, args', p, InstV(id))
    <2>1. \/ Throw
          \/ CallUserFunc(c, Shifted(c, InstV(id)), below)
          \/ native' = below /\ implicit' = implicit
      BY <1>3 DEF CallType
    <2>2. c.op = "call" /\ c.was = implicit BY CallFields
    <2>3. NativeOK(below, implicit) BY PushedMake DEF Inv, Make
    <2> HIDE DEF c, below
    <2>4. CASE CallUserFunc(c, Shifted(c, InstV(id)), below)
      BY <2>2, <2>3, <2>4, CallsOK DEF Inv
    <2>5. CASE native' = below /\ implicit' = implicit
      BY <2>3, <2>5 DEF Inv
    <2> QED BY <2>1, <2>4, <2>5, ThrowOK
  <1> QED BY <1>1, <1>2, <1>3

(* The steps of code that push a C++ function, and the end of a default    *)
(* value.                                                                  *)
LEMMA CodeSteps ==
  ASSUME Inv, NEW p, NEW given, NEW v
  PROVE  /\ EndLiteral(p, given) => Inv'
         /\ ExitScope \/ UpdateIter => Inv'
         /\ Return(v) => Inv'
         /\ DefaultDone => Inv'
PROOF
  <1>1. ASSUME EndLiteral(p, given) PROVE Inv'
    <2>1. PICK id : native' = Append(native, Make(id, p + 1)) /\ implicit' = implicit
      BY <1>1 DEF EndLiteral
    <2> QED BY <2>1, PushedMake DEF Inv, Make
  <1>2. ASSUME ExitScope \/ UpdateIter PROVE Inv'
    <2>1. PICK then \in {"exit", "iterate"} : LeaveScope(then)
      BY <1>2 DEF ExitScope, UpdateIter
    <2>2. native' = Append(native, DropTo(Last(scopes), then)) /\ implicit' = implicit
      BY <2>1 DEF LeaveScope
    <2> QED BY <2>1, <2>2, PushedDrop DEF Inv, DropTo
  <1>3. ASSUME Return(v) PROVE Inv'
    <2>1. native' = Append(native, DropTo(cur.base, "return")) /\ implicit' = implicit
      BY <1>3 DEF Return
    <2>2. native = <<>> \/ native[Len(native)].op = "call"
      BY <1>3, OnCall DEF Return, At
    <2> QED BY <2>1, <2>2, PushedDrop DEF Inv, DropTo
  <1>4. ASSUME DefaultDone PROVE Inv'
    <2> DEFINE c == Last(native)
    <2>1. native # <<>> /\ c.op = "call" /\ implicit' = implicit
      BY <1>4 DEF DefaultDone, Doing
    <2>2. \/ native' = native
          \/ native' = Front(native) /\ c.by = "code" /\ ~c.was
          \/ native' = Append(Front(native), c)
      BY <1>4 DEF DefaultDone, Settle
    <2>3. CASE native' = native
      BY <2>1, <2>3 DEF Inv
    <2> HIDE DEF c
    <2>4. NativeOK(Front(native), c.was) /\ implicit = (c.was \/ c.by # "code")
      BY <2>1, Popped DEF Inv, c
    <2>5. c.was \in BOOLEAN
      BY <2>4 DEF NativeOK
    <2>6. CASE native' = Front(native) /\ c.by = "code" /\ ~c.was
      <3>1. implicit' = c.was BY <2>1, <2>4, <2>5, <2>6
      <3> QED BY <2>4, <2>6, <3>1 DEF Inv
    <2>7. CASE native' = Append(Front(native), c)
      <3>1. NativeOK(Append(Front(native), c), c.was \/ c.by # "code")
        BY <2>1, <2>4, PushedCall
      <3> QED BY <2>1, <2>4, <2>7, <3>1 DEF Inv
    <2> QED BY <2>2, <2>3, <2>6, <2>7
  <1> QED BY <1>1, <1>2, <1>3, <1>4

(* The C++ functions: making an instance, and dropping instances.          *)
LEMMA MakeSteps ==
  ASSUME Inv
  PROVE  (AskField => Inv') /\ (Made => Inv')
PROOF
  <1> DEFINE m == Last(native)
  <1>1. ASSUME Doing("make")
        PROVE  /\ NativeOK(Front(native), implicit)
               /\ m = [op |-> "make", id |-> m.id, start |-> m.start, asked |-> m.asked,
                     depth |-> m.depth]
    <2>1. native # <<>> /\ m.op = "make" BY <1>1 DEF Doing
    <2>2. NativeOK(Front(native), implicit) /\ EntryOK(native, Len(native)) /\ m = native[Len(native)]
      BY <2>1, Popped DEF Inv
    <2> QED BY <2>1, <2>2 DEF EntryOK
  <1>2. ASSUME AskField PROVE Inv'
    <2> DEFINE c == Call(Plain, 0, "make", m.start + 1, 0, m.start - 1, Invalid)
               below == Append(Front(native), [m EXCEPT !.asked = TRUE])
    <2>1. Doing("make") /\ CallUserFunc(c, [regs EXCEPT ![Reg(m.start)] = Callee], below)
      BY <1>2 DEF AskField
    <2>2. [m EXCEPT !.asked = TRUE] =
            [op |-> "make", id |-> m.id, start |-> m.start, asked |-> TRUE, depth |-> m.depth]
      <3>1. PICK id, start, asked, depth :
              m = [op |-> "make", id |-> id, start |-> start, asked |-> asked, depth |-> depth]
        BY <1>1, <2>1
      <3> HIDE DEF m
      <3>2. m.id = id /\ m.start = start /\ m.depth = depth BY <3>1
      <3>3. ASSUME NEW b
            PROVE  [[op |-> "make", id |-> id, start |-> start, asked |-> asked,
                     depth |-> depth] EXCEPT !.asked = b]
                     = [op |-> "make", id |-> id, start |-> start, asked |-> b, depth |-> depth]
        OBVIOUS
      <3> QED BY <3>1, <3>2, <3>3, Zenon
    <2>3. NativeOK(below, implicit)
      BY <1>1, <2>1, <2>2, PushedMake
    <2>4. c.op = "call" /\ c.was = implicit BY CallFields
    <2> HIDE DEF c, below, m
    <2> QED BY <2>1, <2>3, <2>4, CallsOK DEF Inv
  <1>3. ASSUME Made PROVE Inv'
    <2>1. Doing("make") /\ native' = Front(native) /\ implicit' = implicit
      BY <1>3 DEF Made
    <2> QED BY <1>1, <2>1 DEF Inv
  <1> QED BY <1>2, <1>3

(* A dropInstances on top of the stack.                                    *)
LEMMA OnDrop ==
  ASSUME Inv, Doing("drop")
  PROVE  LET d == Last(native) IN
           /\ NativeOK(Front(native), implicit)
           /\ d = [op |-> "drop", limit |-> d.limit, then |-> d.then, busy |-> d.busy,
                  depth |-> d.depth]
           /\ d.then = "return" =>
                Front(native) = <<>> \/ Front(native)[Len(Front(native))].op = "call"
           /\ d.then \in {"clear", "destroy"} => Front(native) = <<>>
PROOF
  <1> DEFINE d == Last(native)  n == Front(native)
  <1>1. native # <<>> /\ d.op = "drop" BY DEF Doing
  <1>2. /\ NativeOK(n, implicit) /\ EntryOK(native, Len(native)) /\ d = native[Len(native)]
        /\ Len(native) \in Nat \ {0} /\ Len(n) = Len(native) - 1
        /\ \A i \in 1 .. Len(native) - 1 : n[i] = native[i]
    BY <1>1, Popped DEF Inv
  <1> HIDE DEF d, n
  <1>3. PICK S : n \in Seq(S) BY <1>2 DEF NativeOK
  <1>4. /\ d = [op |-> "drop", limit |-> d.limit, then |-> d.then, busy |-> d.busy,
                  depth |-> d.depth]
        /\ d.then = "return" => Len(native) = 1 \/ native[Len(native) - 1].op = "call"
        /\ d.then \in {"clear", "destroy"} => Len(native) = 1
    BY <1>1, <1>2 DEF EntryOK
  <1>5. Len(native) = 1 => n = <<>>
    BY <1>2, <1>3
  <1>6. Len(native) # 1 => n[Len(n)] = native[Len(native) - 1]
    BY <1>2
  <1> QED BY <1>2, <1>4, <1>5, <1>6 DEF d, n

LEMMA DropSteps ==
  ASSUME Inv
  PROVE  /\ DropInstance => Inv'
         /\ Dropped => Inv'
         /\ RestoreData => Inv'
         /\ ScopeLeft => Inv'
PROOF
  <1> DEFINE d == Last(native)
             With(b) == [op |-> "drop", limit |-> d.limit, then |-> d.then, busy |-> b,
                         depth |-> d.depth]
  <1>1. ASSUME Doing("drop"), NEW b
        PROVE  [d EXCEPT !.busy = b] = With(b) /\ NativeOK(Append(Front(native), With(b)), implicit)
    <2>1. d = [op |-> "drop", limit |-> d.limit, then |-> d.then, busy |-> d.busy,
                  depth |-> d.depth]
      BY <1>1, OnDrop
    <2>2. NativeOK(Append(Front(native), With(b)), implicit)
      BY <1>1, OnDrop, PushedDrop
    <2> QED BY <2>1, <2>2
  <1>2. ASSUME DropInstance PROVE Inv'
    <2> DEFINE below == Append(Front(native), [d EXCEPT !.busy = Len(active)])
    <2>1. PICK start, copy, file :
            CallUserFunc(Call(Plain, 1, "drop", start, 0, cur.top, copy), file, below)
      BY <1>2 DEF DropInstance
    <2> DEFINE c == Call(Plain, 1, "drop", start, 0, cur.top, copy)
    <2>2. NativeOK(below, implicit)
      BY <1>1, <1>2 DEF DropInstance
    <2>3. c.op = "call" /\ c.was = implicit BY CallFields
    <2> HIDE DEF c, below
    <2>4. CallUserFunc(c, file, below) BY <2>1 DEF c
    <2> QED BY <2>2, <2>3, <2>4, CallsOK DEF Inv
  <1>3. ASSUME Dropped PROVE Inv'
    <2>1. Doing("drop") /\ native' = [native EXCEPT ![Len(native)].busy = 0] /\ implicit' = implicit
      BY <1>3 DEF Dropped
    <2>2. PICK S : native \in Seq(S) BY DEF Inv, NativeOK
    <2>3. Len(native) \in Nat \ {0} BY <2>1, <2>2 DEF Doing
    <2>4. native' = Append(Front(native), With(0))
      <3>1. [d EXCEPT !.busy = 0] = With(0) BY <1>1, <2>1
      <3>2. d = native[Len(native)] BY DEF Last
      <3> HIDE DEF d, With
      <3>3. native' = [native EXCEPT ![Len(native)] = With(0)]
        BY <2>1, <3>1, <3>2
      <3>4. /\ Len(Front(native)) = Len(native) - 1
            /\ \A i \in 1 .. Len(native) - 1 : Front(native)[i] = native[i]
            /\ Front(native) \in Seq(S)
        BY <2>1, <2>2, <2>3, FrontIsSeq, Popped DEF Inv, Doing
      <3> DEFINE w == With(0)  f == Front(native)
      <3>5. native' = [native EXCEPT ![Len(native)] = w] BY <3>3
      <3>6. Len(f) = Len(native) - 1 /\ f \in Seq(S) /\ \A i \in 1 .. Len(native) - 1 : f[i] = native[i]
        BY <3>4
      <3> HIDE DEF w, f
      <3>7. Append(f, w) = [i \in 1 .. Len(f) + 1 |-> IF i = Len(f) + 1 THEN w ELSE f[i]]
        <4>1. Append(f, w) \in Seq(S \cup {w}) /\ Len(Append(f, w)) = Len(f) + 1
          BY <3>6
        <4>2. \A i \in 1 .. Len(f) + 1 : Append(f, w)[i] = IF i = Len(f) + 1 THEN w ELSE f[i]
          BY <2>3, <3>6
        <4>3. Append(f, w) = [i \in 1 .. Len(f) + 1 |-> Append(f, w)[i]]
          <5> DEFINE t == Append(f, w)
          <5>1. t \in Seq(S \cup {w}) /\ Len(t) = Len(f) + 1 BY <4>1
          <5> HIDE DEF t
          <5>2. t = [i \in 1 .. Len(f) + 1 |-> t[i]] BY <5>1
          <5> QED BY <5>2 DEF t
        <4> HIDE DEF w, f
        <4> QED BY <4>2, <4>3, Zenon
      <3>8. native = [i \in 1 .. Len(native) |-> native[i]]
        BY <2>2
      <3>9. native' = [i \in 1 .. Len(native) |-> IF i = Len(native) THEN w ELSE native[i]]
        BY <2>3, <3>5, <3>8
      <3>10. [i \in 1 .. Len(native) |-> IF i = Len(native) THEN w ELSE native[i]]
               = [i \in 1 .. Len(native) |-> IF i = Len(native) THEN w ELSE f[i]]
        BY <2>3, <3>6
      <3>11. Len(f) + 1 = Len(native) BY <2>3, <3>6
      <3>12. native' = Append(f, w) BY <3>7, <3>9, <3>10, <3>11
      <3> QED BY <3>12 DEF f, w
    <2> QED BY <1>1, <2>1, <2>4 DEF Inv
  <1>4. ASSUME RestoreData PROVE Inv'
    <2> DEFINE n == Front(native)
    <2>1. Doing("drop") /\ d.then = "return"
      BY <1>4 DEF RestoreData, DropsDone
    <2>2. NativeOK(n, implicit) /\ (n = <<>> \/ n[Len(n)].op = "call")
      BY <2>1, OnDrop
    <2>3. IF implicit THEN native' = Front(n) /\ implicit' = Last(n).was
                      ELSE native' = n /\ UNCHANGED implicit
      BY <1>4 DEF RestoreData
    <2> HIDE DEF n, d
    <2>4. CASE ~implicit BY <2>2, <2>3, <2>4 DEF Inv
    <2>5. CASE implicit
      <3>1. n # <<>>
        <4>1. n = <<>> => Len(n) = 0 OBVIOUS
        <4> QED BY <4>1, <2>2, <2>5 DEF NativeOK
      <3>2. Last(n).op = "call" BY <2>2, <3>1 DEF Last
      <3>3. NativeOK(Front(n), Last(n).was) BY <2>2, <3>1, <3>2, Popped
      <3> QED BY <2>3, <2>5, <3>3 DEF Inv
    <2> QED BY <2>4, <2>5
  <1>5. ASSUME ScopeLeft PROVE Inv'
    <2>1. Doing("drop") /\ native' = Front(native) /\ implicit' = implicit
      BY <1>5 DEF ScopeLeft, DropsDone
    <2> QED BY <2>1, OnDrop DEF Inv
  <1> QED BY <1>2, <1>3, <1>4, <1>5

(* The end of the script and of the interpreter.                           *)
LEMMA EndSteps ==
  ASSUME Inv
  PROVE  /\ Fail => Inv'
         /\ ClearVM => Inv'
         /\ Destroyed => Inv'
PROOF
  <1>1. Fail => Inv' BY ThrowOK DEF Fail
  <1>2. ASSUME Doing("drop"), Last(native).then \in {"clear", "destroy"}
        PROVE  NativeOK(<<>>, implicit)
    BY <1>2, OnDrop
  <1>3. ASSUME ClearVM PROVE Inv'
    <2>1. implicit' = implicit BY <1>3 DEF ClearVM
    <2>2. ASSUME NEW limit, NEW then \in {"clear", "destroy"},
                 native = <<>>, native' = <<DropTo(limit, then)>>
          PROVE  Inv'
      <3>2. NativeOK(Append(<<>>, DropTo(limit, then)), implicit)
        BY <2>2, PushedDrop DEF Inv, DropTo
      <3>3. Append(<<>>, DropTo(limit, then)) = <<DropTo(limit, then)>> OBVIOUS
      <3> QED BY <2>1, <2>2, <3>2, <3>3 DEF Inv
    <2>3. CASE DropsDone("clear") /\ native' = <<>>
      BY <1>2, <2>1, <2>3 DEF Inv, DropsDone
    <2> QED BY <1>3, <2>2, <2>3 DEF ClearVM
  <1>4. ASSUME Destroyed PROVE Inv'
    BY <1>2, <1>4 DEF Destroyed, DropsDone, Inv
  <1> QED BY <1>1, <1>3, <1>4
-----------------------------------------------------------------------------

(* The stack of C++ functions is sound in every state.                     *)
THEOREM InvariantHolds == Spec => []Inv
PROOF
  <1>1. Init => Inv BY Empty DEF Init, Inv
  <1>2. Inv /\ [Next]_vars => Inv'
    <2> SUFFICES ASSUME Inv, [Next]_vars PROVE Inv' OBVIOUS
    <2>1. CASE UNCHANGED <<native, implicit>>
      BY <2>1 DEF Inv
    <2>2. ASSUME NEW v, Load(v) PROVE Inv'
      BY <2>1, <2>2 DEF Load
    <2>3. ASSUME Discard \/ GetMethod \/ SetField \/ EnterScope PROVE Inv'
      BY <2>1, <2>3 DEF Discard, GetMethod, SetField, EnterScope
    <2>4. ASSUME NEW k, BeginLiteral(k) PROVE Inv'
      BY <2>1, <2>4 DEF BeginLiteral
    <2>5. ASSUME VarArgs \/ LoadName \/ Halt PROVE Inv'
      BY <2>1, <2>5 DEF VarArgs, LoadName, Halt
    <2>6. ASSUME Over \/ UNCHANGED vars PROVE Inv'
      BY <2>1, <2>6 DEF Over, vars
    <2>7. ASSUME NEW p, NEW f, NEW k, CallFunc(p, f) \/ CallMethod(p) \/ CallType(p, k) PROVE Inv'
      BY <2>7, CallSteps
    <2>8. ASSUME NEW p, NEW given, NEW v,
                 EndLiteral(p, given) \/ ExitScope \/ UpdateIter \/ Return(v) \/ DefaultDone
          PROVE  Inv'
      BY <2>8, CodeSteps
    <2>9. ASSUME AskField \/ Made PROVE Inv'
      BY <2>9, MakeSteps
    <2>10. ASSUME DropInstance \/ Dropped \/ RestoreData \/ ScopeLeft PROVE Inv'
      BY <2>10, DropSteps
    <2>11. ASSUME Fail \/ ClearVM \/ Destroyed PROVE Inv'
      BY <2>11, EndSteps
    <2> QED
      BY <2>2, <2>3, <2>4, <2>5, <2>6, <2>7, <2>8, <2>9, <2>10, <2>11 DEF Next
  <1> QED BY <1>1, <1>2, PTL DEF Spec

(* implicitCall is set exactly while a call that the VM makes itself is on *)
(* the C++ stack.                                                          *)
THEOREM FlagMatchesStack == Spec => []ImplicitWhileNative
PROOF
  <1>1. Inv => ImplicitWhileNative
    <2> SUFFICES ASSUME Inv PROVE ImplicitWhileNative OBVIOUS
    <2>1. PICK S : native \in Seq(S) BY DEF Inv, NativeOK
    <2>2. DOMAIN native = 1 .. Len(native) BY <2>1
    <2> QED BY <2>2 DEF Inv, NativeOK, ImplicitWhileNative, ImplicitCall
  <1> QED BY <1>1, InvariantHolds, PTL
-----------------------------------------------------------------------------
(* When instances are dropped.  The machine has no bookkeeping that says   *)
(* which call made which instance: it compares registers.  What follows    *)
(* relates the register of every listed instance to the windows of the     *)
(* activations, the starts of their blocks, and the loops of dropInstances *)
(* that are under way.                                                     *)

(* The activations: the callers and the running one.                       *)
Depth == Len(frames) + 1
Ctx == Append(frames, cur)

Contexts ==
  [base : Nat, top : Nat, low : Nat, since : Nat, under : Nat,
   blocks : Seq([at : Nat, since : Nat]),
   code : [at : Places, fun : Callables \cup {NoFun}, self : 0 .. 1,
           by : {"code", "make", "drop"}, n : Nat, promised : BOOLEAN]]

Instances == [of : Types, field : BOOLEAN, literal : BOOLEAN, made : BOOLEAN, drops : Nat]

(* A value names an instance there is, or a method of a type that has been *)
(* bound to one.                                                           *)
ValueOK(v) ==
  /\ IsInst(v) => v.id \in DOMAIN insts
  /\ v.t = "method" => /\ v.of \in Types /\ v.of.method # NoFun
                       /\ bound[v.of] \in DOMAIN insts

Typed ==
  /\ DOMAIN regs = 0 .. NumRegs - 1
  /\ \A r \in DOMAIN regs : ValueOK(regs[r])
  /\ frames \in Seq(Contexts) /\ Len(frames) <= MaxDepth
  /\ cur \in Contexts
  /\ args \in 0 .. Width
  /\ scopes \in Seq(0 .. NumRegs - 1)
  /\ active \in Seq([addr : 0 .. NumRegs - 1, id : Nat])
  /\ insts \in Seq(Instances)
  /\ bound \in [Types -> 0 .. Len(insts)]
  /\ status \in {"running", "clearing", "destroying", "over", "aborted"}
  /\ missed \in BOOLEAN

(* The registers of the k-th activation in its window.                     *)
Running == {"script", "default", "body"}
Laid(k, x) ==
  /\ x.code.at = "script" <=> k = 1
  /\ k = 1 => x.low <= Globals
  /\ k > 1 => x.code.fun \in Callables
  /\ x.top < Width /\ x.low < Width
  /\ x.code.at \in Running \cup {"leaving"} => x.low <= x.top
  /\ x.code.at \in Running => x.top <= x.low + MaxTemps[k]
  /\ x.code.at = "default" => x.low = x.code.n /\ x.low < x.code.self + x.code.fun.max
  /\ x.code.at = "entry" => x.top <= x.code.self + x.code.fun.max + 1
  /\ x.code.at = "body" => x.low <= x.code.self + x.code.fun.max + 2
  /\ x.code.at \notin {"script", "body"} => x.blocks = <<>>
  /\ \A i \in DOMAIN x.blocks :
       /\ x.low <= x.blocks[i].at /\ x.blocks[i].at <= x.top
       /\ \A j \in i .. Len(x.blocks) : x.blocks[i].at <= x.blocks[j].at

(* The windows: each above the blocks of all callers, and near its own.    *)
Windows ==
  /\ \A k \in 1 .. Depth : Laid(k, Ctx[k])
  /\ \A k \in 1 .. Depth : Ctx[k].base <= Ctx[1].base + (k - 1) * Width
  /\ \A k \in 2 .. Depth : Ctx[k].base >= 1
  /\ \A k, l \in 1 .. Depth : k < l =>
       /\ Ctx[k].base <= Ctx[l].base
       /\ \A b \in DOMAIN Ctx[k].blocks : Ctx[k].base + Ctx[k].blocks[b].at <= Ctx[l].base
  /\ status = "running" => Ctx[1].base = 0
  /\ status \in {"clearing", "destroying"} => Ctx[1].base <= MaxDepth * Width
  /\ status # "running" => Ctx[1].blocks = <<>>
  /\ status \in {"over", "aborted"} => cur.top = 0 \/ Ctx[1].base <= MaxDepth * Width

(* A caller waits in the middle of its code or of a return, with room for  *)
(* the result.                                                             *)
Waits(k, x, y) ==
  /\ x.code.at \in Running \cup {"leaving"}
  /\ y.base <= x.base + Width
  /\ y.code.by = "code" =>
       /\ x.code.at \in Running
       /\ x.top < x.low + MaxTemps[k] /\ x.top + 1 < Width

Waiting == \A k \in 1 .. Len(frames) : Waits(k, Ctx[k], Ctx[k + 1])

(* The C++ functions, by themselves ...                                    *)
CallOK(c) ==
  /\ c.op = "call" /\ c.fun \in Callables /\ c.self \in 0 .. 1
  /\ c.by \in {"code", "make", "drop"} /\ ValueOK(c.copy)
  /\ c.depth \in Nat /\ c.was \in BOOLEAN

MakesIn(m, x) ==
  /\ x.code.at \in Running
  /\ x.low < m.start /\ m.start <= x.low + MaxTemps[m.depth]
  /\ \A b \in DOMAIN x.blocks : x.blocks[b].at < m.start

MakeOK(m) ==
  /\ m.op = "make" /\ m.depth \in 1 .. Depth /\ m.asked \in BOOLEAN
  /\ m.id \in DOMAIN insts /\ ~insts[m.id].made /\ ~insts[m.id].literal
  /\ m.start \in 1 .. Width - 1
  /\ MakesIn(m, Ctx[m.depth])

DropsIn(d, x) ==
  /\ d.then = "return" => x.code.at = "leaving" /\ d.limit = x.base
  /\ d.then \in {"exit", "iterate"} =>
       /\ x.code.at \in {"script", "body"} /\ x.blocks # <<>>
       /\ \A b \in DOMAIN x.blocks : d.limit >= x.base + x.blocks[b].at

DropOK(d) ==
  /\ d.op = "drop" /\ d.depth \in 1 .. Depth /\ d.limit \in Nat /\ d.busy \in 0 .. Len(active)
  /\ d.then \in {"return", "exit", "iterate", "clear", "destroy"}
  /\ DropsIn(d, Ctx[d.depth])
  /\ d.then = "clear" => status = "clearing" /\ d.depth = 1
  /\ d.then = "destroy" => status = "destroying" /\ d.limit = 0 /\ d.depth = 1

NativeEntry(n) == CallOK(n) \/ MakeOK(n) \/ DropOK(n)
Entries == \A i \in DOMAIN native : \E n : n = native[i] /\ NativeEntry(n)

(* ... and one on top of the other: those that run until what is above     *)
(* them has ended, and the activations they run in or have started.        *)
Binds(n) == n.op # "call" \/ n.by # "code" \/ n.was

Linked(n, m) ==
  /\ Binds(n) => Binds(m) /\ m.depth = n.depth + (IF m.op = "call" THEN 1 ELSE 0)
  /\ n.op # "call" => m.op = "call" /\ m.by # "code"
  /\ n.op = "drop" => n.busy # 0

Links ==
  /\ \A i \in 1 .. Len(native) - 1 : Linked(native[i], native[i + 1])
  /\ \A i, j \in DOMAIN native : i < j /\ Binds(native[i]) =>
       /\ Binds(native[j])
       /\ native[i].depth <= native[j].depth
       /\ native[j].op = "call" => native[i].depth < native[j].depth
  /\ native # <<>> /\ Binds(native[Len(native)]) => native[Len(native)].depth = Depth

(* What the end of the interpreter leaves.                                 *)
Ends ==
  /\ status # "running" /\ native # <<>> =>
       native[1].op = "drop" /\ native[1].then \in {"clear", "destroy"}
  /\ status # "running" /\ native = <<>> => frames = <<>>
  /\ status = "destroying" => native # <<>>
  /\ status \in {"over", "aborted"} => native = <<>>
  /\ status = "over" /\ ~missed => active = <<>>

(* Only complete instances with a drop() method are listed.                *)
Listed(a) == a.id \in DOMAIN insts /\ insts[a.id].made /\ insts[a.id].of.drop
Listing == \A j \in DOMAIN active : Listed(active[j])

(* An instance that is being dropped lies below the window of its drop()   *)
(* method, everything listed after it does not.                            *)
Dropper(n) == n.op = "drop" /\ n.busy # 0
DropsBelow(list, b, base) ==
  /\ list[b].addr < base
  /\ \A j \in b + 1 .. Len(list) : list[j].addr >= base

Busy ==
  /\ \A i \in 1 .. Len(native) - 1 : Dropper(native[i]) =>
       DropsBelow(active, native[i].busy, Ctx[native[i].depth + 1].base)
  /\ native # <<>> /\ Dropper(native[Len(native)]) =>
       native[Len(native)].busy = Len(active)
  /\ \A i, j \in DOMAIN native : i < j /\ Dropper(native[i]) /\ Dropper(native[j]) =>
       native[i].busy < native[j].busy

(* An instance is made once.                                               *)
Unique ==
  /\ \A i, j \in DOMAIN native : i # j /\ native[i].op = "make" /\ native[j].op = "make" =>
       native[i].id # native[j].id
  /\ \A i \in DOMAIN insts : insts[i].made => ~insts[i].literal

(* How often instances have been dropped, as long as no drop() failed.     *)
BeingDropped(n, b) == \E i \in DOMAIN n : Dropper(n[i]) /\ n[i].busy = b
Counted ==
  ~missed =>
    /\ \A i, j \in DOMAIN active : active[i].id = active[j].id => i = j
    /\ \A j \in DOMAIN active : insts[active[j].id].drops = IF BeingDropped(native, j) THEN 1 ELSE 0
    /\ \A i \in DOMAIN insts :
         /\ insts[i].drops <= 1
         /\ ~insts[i].made => insts[i].drops = 0
         /\ insts[i].made /\ insts[i].of.drop /\ insts[i].drops = 0 =>
              \E j \in DOMAIN active : active[j].id = i

(* No instance is listed after one below the limit unless it was there     *)
(* before: where the search for instances to drop stops, it may.           *)
Fence(list, limit, since) ==
  \A j \in DOMAIN list : list[j].addr < limit => \A i \in 1 .. j : list[i].id <= since

FencedIn(list, x) ==
  \A b \in DOMAIN x.blocks : Fence(list, x.base + x.blocks[b].at, x.blocks[b].since)
Fenced ==
  /\ \A k \in 2 .. Depth : Fence(active, Ctx[k].base, Ctx[k].since)
  /\ \A k \in 1 .. Depth : FencedIn(active, Ctx[k])

(* The distance from the window to any listed instance fits in a byte, and *)
(* will for each caller once its callee's instances are gone.              *)
NearTo(list, base, limit) ==
  \A j \in DOMAIN list :
    (\E i \in j .. Len(list) : list[i].addr < limit) => list[j].addr + 1 < base + Width
Near ==
  /\ \A j \in DOMAIN active : active[j].addr + 1 < cur.base + Width
  /\ \A k \in 1 .. Len(frames) : NearTo(active, Ctx[k].base, Ctx[k + 1].base)

(* The starts that the exits of an activation will find, stale ones among  *)
(* them, are not below the blocks that they leave.                         *)
Ceiling(k) == IF k = Depth THEN Len(scopes) ELSE Ctx[k + 1].under
StartsIn(starts, x, over) ==
  LET n == Len(x.blocks) IN
    /\ x.under + n <= over /\ over <= Len(starts)
    /\ \A b \in 1 .. n : \A p \in over - (n - b) .. over : starts[p] >= x.base + x.blocks[b].at

Scoped ==
  /\ Ctx[1].under = 0
  /\ \A k \in 1 .. Depth : StartsIn(scopes, Ctx[k], Ceiling(k))
  /\ \A k \in 2 .. Depth : \A p \in Ctx[k].under + 1 .. Len(scopes) : scopes[p] >= Ctx[k].base
  /\ \A k, l \in 1 .. Depth : k < l => Ctx[k].under <= Ctx[l].under

DInv ==
  /\ Inv /\ Typed /\ Windows /\ Waiting /\ Entries /\ Links /\ Ends /\ Listing
  /\ Busy /\ Unique /\ Counted /\ Fenced /\ Near /\ Scoped
-----------------------------------------------------------------------------
(* The constants, the activations and what steps do to them.               *)

LEMMA Sizes ==
  /\ Globals \in Nat /\ Width \in Nat /\ NumRegs \in Nat /\ MaxDepth \in Nat /\ MaxInsts \in Nat
  /\ Globals > 0
  /\ \A d \in 1 .. MaxDepth + 1 : MaxTemps[d] \in Nat
  /\ NumRegs >= (2 * MaxDepth + 1) * Width
  /\ Globals + MaxTemps[1] < Width
  /\ \A f \in Callables, d \in 2 .. MaxDepth + 1 : f.max + 3 + MaxTemps[d] < Width
PROOF
  BY ConstantsAssumption, WidthAssumption

LEMMA CallableFields ==
  /\ \A f \in Callables : f.min \in Nat /\ f.max \in Nat /\ f.rest \in BOOLEAN
  /\ NoFun \notin Callables /\ Plain \in Callables /\ Funs \subseteq Callables
  /\ \A k \in Types : /\ k.ctor # NoFun => k.ctor \in Callables
                      /\ k.method # NoFun => k.method \in Callables
                      /\ k.field \in BOOLEAN /\ k.drop \in BOOLEAN
PROOF
  <1>1. Plain \in Functions /\ Plain.min = 0 /\ Plain.max = 0
    BY Sizes DEF Plain, Functions
  <1>2. \A k \in Types : /\ k.ctor \in Functions \cup {NoFun} /\ k.method \in Functions \cup {NoFun}
                         /\ k.field \in BOOLEAN /\ k.drop \in BOOLEAN
    BY ConstantsAssumption
  <1>3. Callables \subseteq Functions
    BY <1>1, <1>2, ConstantsAssumption DEF Callables
  <1>4. \A f \in Functions : f.min \in Nat /\ f.max \in Nat /\ f.rest \in BOOLEAN
    BY Sizes DEF Functions
  <1>5. Plain # NoFun /\ Funs \cap {NoFun} = {} /\ NoFun \notin Callables
    BY <1>1, ConstantsAssumption DEF Callables
  <1>6. /\ Plain \in Callables /\ Funs \subseteq Callables
        /\ \A k \in Types : /\ k.ctor # NoFun => k.ctor \in Callables
                            /\ k.method # NoFun => k.method \in Callables
    BY <1>5 DEF Callables
  <1> QED BY <1>2, <1>3, <1>4, <1>5, <1>6

(* The array has room for any window that the depth admits.                *)
LEMMA Room ==
  ASSUME NEW b \in Nat, NEW r \in Nat, NEW k \in 1 .. MaxDepth + 1,
         b <= MaxDepth * Width + (k - 1) * Width, r < Width
  PROVE  b + r \in 0 .. NumRegs - 1
PROOF
  <1>1. MaxDepth \in Nat /\ Width \in Nat /\ NumRegs \in Int /\ NumRegs >= (2 * MaxDepth + 1) * Width
    BY Sizes
  <1>2. (k - 1) * Width <= MaxDepth * Width
    BY <1>1
  <1>3. (2 * MaxDepth + 1) * Width = MaxDepth * Width + MaxDepth * Width + Width
    BY <1>1
  <1>4. MaxDepth * Width \in Nat /\ (k - 1) * Width \in Nat
    BY <1>1
  <1> QED BY <1>1, <1>2, <1>3, <1>4

LEMMA TheContexts ==
  ASSUME Typed
  PROVE  /\ Len(frames) \in Nat /\ Depth \in Nat /\ Depth = Len(frames) + 1
         /\ Depth \in 1 .. MaxDepth + 1
         /\ Ctx \in Seq(Contexts) /\ Len(Ctx) = Depth
         /\ Ctx[Depth] = cur
         /\ \A k \in 1 .. Len(frames) : Ctx[k] = frames[k]
         /\ \A k \in 1 .. Depth : Ctx[k] \in Contexts
PROOF
  <1>1. frames \in Seq(Contexts) /\ Len(frames) <= MaxDepth /\ cur \in Contexts
    BY DEF Typed
  <1>2. Len(frames) \in Nat
    BY <1>1
  <1>3. /\ Append(frames, cur) \in Seq(Contexts) /\ Len(Append(frames, cur)) = Len(frames) + 1
        /\ Append(frames, cur)[Len(frames) + 1] = cur
        /\ \A k \in 1 .. Len(frames) : Append(frames, cur)[k] = frames[k]
    BY <1>1
  <1>4. \A k \in 1 .. Len(frames) + 1 : Append(frames, cur)[k] \in Contexts
    BY <1>2, <1>3
  <1> QED BY <1>1, <1>2, <1>3, <1>4, Sizes DEF Depth, Ctx

(* What can be read of an activation.                                      *)
LEMMA ContextFields ==
  ASSUME NEW x \in Contexts
  PROVE  /\ x.base \in Nat /\ x.top \in Nat /\ x.low \in Nat /\ x.since \in Nat /\ x.under \in Nat
         /\ x.blocks \in Seq([at : Nat, since : Nat]) /\ Len(x.blocks) \in Nat
         /\ DOMAIN x.blocks = 1 .. Len(x.blocks)
         /\ \A b \in 1 .. Len(x.blocks) : x.blocks[b].at \in Nat /\ x.blocks[b].since \in Nat
         /\ x.code \in [at : Places, fun : Callables \cup {NoFun}, self : 0 .. 1,
                        by : {"code", "make", "drop"}, n : Nat, promised : BOOLEAN]
         /\ x.code.at \in Places /\ x.code.self \in 0 .. 1 /\ x.code.n \in Nat
         /\ x.code.by \in {"code", "make", "drop"} /\ x.code.fun \in Callables \cup {NoFun}
PROOF
  <1> DEFINE S == [at : Nat, since : Nat]
             C == [at : Places, fun : Callables \cup {NoFun}, self : 0 .. 1,
                   by : {"code", "make", "drop"}, n : Nat, promised : BOOLEAN]
  <1>1. /\ x.base \in Nat /\ x.top \in Nat /\ x.low \in Nat /\ x.since \in Nat /\ x.under \in Nat
        /\ x.blocks \in Seq(S) /\ x.code \in C
    BY DEF Contexts
  <1>2. \A c \in C : /\ c.at \in Places /\ c.self \in 0 .. 1 /\ c.n \in Nat
                      /\ c.by \in {"code", "make", "drop"} /\ c.fun \in Callables \cup {NoFun}
    OBVIOUS
  <1>3. \A e \in S : e.at \in Nat /\ e.since \in Nat
    OBVIOUS
  <1> HIDE DEF S, C
  <1>4. /\ Len(x.blocks) \in Nat /\ DOMAIN x.blocks = 1 .. Len(x.blocks)
        /\ \A b \in 1 .. Len(x.blocks) : x.blocks[b] \in S
    BY <1>1
  <1>5. /\ x.code.at \in Places /\ x.code.self \in 0 .. 1 /\ x.code.n \in Nat
        /\ x.code.by \in {"code", "make", "drop"} /\ x.code.fun \in Callables \cup {NoFun}
    BY <1>1, <1>2
  <1> QED BY <1>1, <1>3, <1>4, <1>5 DEF S, C

(* An activation that goes on elsewhere in its code, above other values.   *)
Beside(x, y) ==
  /\ y.base = x.base /\ y.since = x.since /\ y.under = x.under /\ y.code.by = x.code.by
  /\ y.blocks \in {x.blocks, <<>>}

(* An activation that is interrupted.                                      *)
Alike(x, y) ==
  /\ y.base = x.base /\ y.since = x.since /\ y.under = x.under /\ y.code = x.code
  /\ y.blocks = x.blocks /\ y.low = x.low

LEMMA Stayed ==
  ASSUME Typed, frames' = frames
  PROVE  /\ Depth' = Depth /\ Ctx'[Depth] = cur'
         /\ \A k \in 1 .. Len(frames) : Ctx'[k] = Ctx[k]
PROOF
  <1>1. frames \in Seq(Contexts) /\ Len(frames) \in Nat
    BY DEF Typed
  <1>2. /\ Append(frames, cur')[Len(frames) + 1] = cur'
        /\ \A k \in 1 .. Len(frames) : Append(frames, cur')[k] = frames[k]
    BY <1>1
  <1>3. Ctx' = Append(frames, cur') BY DEF Ctx
  <1>4. \A k \in 1 .. Len(frames) : Ctx[k] = frames[k] BY TheContexts
  <1> QED BY <1>2, <1>3, <1>4 DEF Depth

LEMMA Entered ==
  ASSUME Typed, NEW top \in Nat, frames' = Append(frames, [cur EXCEPT !.top = top])
  PROVE  /\ Len(frames') = Len(frames) + 1
         /\ Depth' = Depth + 1 /\ Ctx'[Depth + 1] = cur' /\ Ctx'[Depth] = [cur EXCEPT !.top = top]
         /\ Ctx'[Depth] \in Contexts
         /\ Alike(cur, Ctx'[Depth])
         /\ \A k \in 1 .. Depth : Alike(Ctx[k], Ctx'[k])
         /\ \A k \in 1 .. Len(frames) : Ctx'[k] = Ctx[k]
         /\ frames' \in Seq(Contexts)
PROOF
  <1> DEFINE f == [cur EXCEPT !.top = top]
  <1>1. cur \in Contexts /\ frames \in Seq(Contexts) BY DEF Typed
  <1>2. f \in Contexts /\ Alike(cur, f)
    BY <1>1 DEF Contexts, Alike
  <1> HIDE DEF f
  <1>3. /\ Len(frames') = Len(frames) + 1 /\ frames'[Len(frames) + 1] = f
        /\ \A k \in 1 .. Len(frames) : frames'[k] = frames[k]
        /\ frames' \in Seq(Contexts)
    BY <1>1, <1>2 DEF f
  <1>4. Len(frames) \in Nat BY <1>1
  <1>5. /\ Append(frames', cur')[Len(frames') + 1] = cur'
        /\ \A k \in 1 .. Len(frames') : Append(frames', cur')[k] = frames'[k]
    BY <1>3
  <1>6. Ctx' = Append(frames', cur') BY DEF Ctx
  <1>7. /\ Depth = Len(frames) + 1 /\ Ctx[Depth] = cur
        /\ \A k \in 1 .. Len(frames) : Ctx[k] = frames[k]
    BY TheContexts
  <1>8. Depth' = Depth + 1 BY <1>3 DEF Depth
  <1>9. /\ Ctx'[Depth + 1] = cur' /\ Ctx'[Depth] = f
        /\ \A k \in 1 .. Len(frames) : Ctx'[k] = Ctx[k]
    BY ONLY <1>3, <1>4, <1>5, <1>6, <1>7
  <1>10. \A k \in 1 .. Depth : Alike(Ctx[k], Ctx'[k])
    <2> TAKE k \in 1 .. Depth
    <2>1. CASE k = Depth
      BY <1>2, <1>7, <1>9, <2>1
    <2>2. CASE k \in 1 .. Len(frames)
      <3>1. Ctx'[k] = Ctx[k] BY <1>9, <2>2
      <3> QED BY <3>1 DEF Alike
    <2> QED BY <1>4, <1>7, <2>1, <2>2
  <1> QED BY <1>2, <1>3, <1>8, <1>9, <1>10 DEF f

LEMMA Restored ==
  ASSUME Typed, frames # <<>>, frames' = Front(frames)
  PROVE  /\ Len(frames') = Len(frames) - 1 /\ Len(frames) >= 1
         /\ Depth' = Depth - 1 /\ Ctx'[Depth - 1] = cur' /\ Ctx[Depth - 1] = Last(frames)
         /\ Last(frames) \in Contexts
         /\ \A k \in 1 .. Len(frames) - 1 : Ctx'[k] = Ctx[k]
         /\ frames' \in Seq(Contexts)
PROOF
  <1>1. frames \in Seq(Contexts) BY DEF Typed
  <1>2. Front(frames) \in Seq(Contexts) /\ Len(Front(frames)) = Len(frames) - 1
    BY <1>1, FrontIsSeq
  <1>3. Len(frames) \in Nat /\ Len(frames) # 0
    BY <1>1
  <1>4. \A k \in 1 .. Len(frames) - 1 : Front(frames)[k] = frames[k]
    BY <1>1, <1>3 DEF Front
  <1>5. Last(frames) = frames[Len(frames)] /\ Last(frames) \in Contexts
    BY <1>1, <1>3 DEF Last
  <1>6. /\ Len(frames') = Len(frames) - 1 /\ \A k \in 1 .. Len(frames) - 1 : frames'[k] = frames[k]
        /\ frames' \in Seq(Contexts)
    BY <1>2, <1>4
  <1>7. /\ Append(frames', cur')[Len(frames') + 1] = cur'
        /\ \A k \in 1 .. Len(frames') : Append(frames', cur')[k] = frames'[k]
    BY <1>6
  <1>8. Ctx' = Append(frames', cur') BY DEF Ctx
  <1>9. /\ Depth = Len(frames) + 1
        /\ \A k \in 1 .. Len(frames) : Ctx[k] = frames[k]
    BY TheContexts
  <1>10. Depth' = Depth - 1 BY <1>3, <1>6 DEF Depth
  <1>11. /\ Ctx'[Depth - 1] = cur' /\ Ctx[Depth - 1] = Last(frames)
         /\ \A k \in 1 .. Len(frames) - 1 : Ctx'[k] = Ctx[k]
    BY ONLY <1>3, <1>5, <1>6, <1>7, <1>8, <1>9
  <1> QED BY <1>3, <1>5, <1>6, <1>10, <1>11
-----------------------------------------------------------------------------
(* Steps of the running activation that call nothing and end nothing.      *)

Steady ==
  /\ frames' = frames /\ cur' \in Contexts /\ Beside(cur, cur')

LEMMA SteadyContexts ==
  ASSUME Typed, Steady
  PROVE  /\ Depth' = Depth /\ Len(frames') = Len(frames) /\ Ctx'[Depth] = cur'
         /\ \A k \in 1 .. Len(frames) : Ctx'[k] = Ctx[k]
         /\ \A k \in 1 .. Depth : Beside(Ctx[k], Ctx'[k]) /\ Ctx'[k] \in Contexts
PROOF
  <1>1. /\ Depth' = Depth /\ Ctx'[Depth] = cur'
        /\ \A k \in 1 .. Len(frames) : Ctx'[k] = Ctx[k]
    BY Stayed DEF Steady
  <1>2. \A k \in 1 .. Depth : Beside(Ctx[k], Ctx'[k]) /\ Ctx'[k] \in Contexts
    <2> TAKE k \in 1 .. Depth
    <2>1. CASE k = Depth
      BY <1>1, <2>1, TheContexts DEF Steady
    <2>2. CASE k \in 1 .. Len(frames)
      <3>1. Ctx'[k] = Ctx[k] /\ Ctx[k] \in Contexts BY <1>1, <2>2, TheContexts
      <3> QED BY <3>1 DEF Beside
    <2> QED BY <2>1, <2>2, TheContexts
  <1> QED BY <1>1, <1>2 DEF Steady

LEMMA SteadyWindows ==
  ASSUME Typed, Windows, Waiting, Steady, Laid(Depth, cur'), status' = status,
         status \notin {"over", "aborted"}
  PROVE  Windows' /\ Waiting'
PROOF
  <1>1. /\ Depth' = Depth /\ Len(frames') = Len(frames) /\ Ctx'[Depth] = cur'
        /\ \A k \in 1 .. Len(frames) : Ctx'[k] = Ctx[k]
        /\ \A k \in 1 .. Depth : Beside(Ctx[k], Ctx'[k]) /\ Ctx'[k] \in Contexts
    BY SteadyContexts
  <1>2. Depth = Len(frames) + 1 /\ Len(frames) \in Nat /\ Ctx[Depth] = cur BY TheContexts
  <1>3. \A k \in 1 .. Depth : Ctx'[k].base = Ctx[k].base /\ Ctx'[k].blocks \in {Ctx[k].blocks, <<>>}
    BY <1>1 DEF Beside
  <1>4. \A k \in 1 .. Depth : Laid(k, Ctx'[k])
    <2>1. \A k \in 1 .. Len(frames) : Laid(k, Ctx'[k])
      BY <1>1, <1>2 DEF Windows
    <2> QED BY <1>1, <1>2, <2>1
  <1>5. \A k \in 1 .. Depth : Ctx'[k].base <= Ctx'[1].base + (k - 1) * Width
    BY <1>2, <1>3 DEF Windows
  <1>6. \A k \in 2 .. Depth : Ctx'[k].base >= 1
    BY <1>2, <1>3 DEF Windows
  <1>7. \A k, l \in 1 .. Depth : k < l =>
          /\ Ctx'[k].base <= Ctx'[l].base
          /\ \A b \in DOMAIN Ctx'[k].blocks : Ctx'[k].base + Ctx'[k].blocks[b].at <= Ctx'[l].base
    <2> SUFFICES ASSUME NEW k \in 1 .. Depth, NEW l \in 1 .. Depth, k < l
                 PROVE  /\ Ctx'[k].base <= Ctx'[l].base
                        /\ \A b \in DOMAIN Ctx'[k].blocks :
                             Ctx'[k].base + Ctx'[k].blocks[b].at <= Ctx'[l].base
      OBVIOUS
    <2>1. Ctx'[k] = Ctx[k] BY <1>1, <1>2
    <2>2. Ctx'[l].base = Ctx[l].base BY <1>3
    <2> QED BY <2>1, <2>2 DEF Windows
  <1>8. 1 \in 1 .. Depth BY <1>2
  <1>9. /\ status = "running" => Ctx'[1].base = 0
        /\ status \in {"clearing", "destroying"} => Ctx'[1].base <= MaxDepth * Width
        /\ status # "running" => Ctx'[1].blocks = <<>>
    BY <1>3, <1>8 DEF Windows
  <1>10. Windows'
    BY <1>1, <1>4, <1>5, <1>6, <1>7, <1>9 DEF Windows
  <1>11. \A k \in 1 .. Len(frames) : Waits(k, Ctx'[k], Ctx'[k + 1])
    <2> TAKE k \in 1 .. Len(frames)
    <2>1. Ctx'[k] = Ctx[k] /\ Waits(k, Ctx[k], Ctx[k + 1]) BY <1>1 DEF Waiting
    <2>2. Beside(Ctx[k + 1], Ctx'[k + 1]) BY <1>1, <1>2
    <2> QED BY <2>1, <2>2 DEF Waits, Beside
  <1> QED BY <1>1, <1>10, <1>11 DEF Waiting

(* The lists of registers stay in place.                                   *)
LEMMA SteadyFences ==
  ASSUME Typed, Fenced, Near, Steady, active' = active
  PROVE  Fenced' /\ Near'
PROOF
  <1>1. /\ Depth' = Depth /\ Len(frames') = Len(frames)
        /\ \A k \in 1 .. Depth : Beside(Ctx[k], Ctx'[k]) /\ Ctx'[k] \in Contexts
    BY SteadyContexts
  <1>2. Depth = Len(frames) + 1 /\ Len(frames) \in Nat BY TheContexts
  <1>4. \A k \in 2 .. Depth : Fence(active', Ctx'[k].base, Ctx'[k].since)
    <2> TAKE k \in 2 .. Depth
    <2>1. Ctx'[k].base = Ctx[k].base /\ Ctx'[k].since = Ctx[k].since
      BY <1>1, <1>2 DEF Beside
    <2>2. Fence(active, Ctx[k].base, Ctx[k].since) BY DEF Fenced
    <2> QED BY <2>1, <2>2
  <1>5. \A k \in 1 .. Depth : \A b \in DOMAIN Ctx'[k].blocks :
          Fence(active', Ctx'[k].base + Ctx'[k].blocks[b].at, Ctx'[k].blocks[b].since)
    <2> TAKE k \in 1 .. Depth
    <2> TAKE b \in DOMAIN Ctx'[k].blocks
    <2>1. Ctx'[k].base = Ctx[k].base /\ Ctx'[k].blocks = Ctx[k].blocks
      <3>1. Ctx'[k].base = Ctx[k].base /\ Ctx'[k].blocks \in {Ctx[k].blocks, <<>>}
        BY <1>1 DEF Beside
      <3>2. Ctx'[k].blocks # <<>> OBVIOUS
      <3> QED BY <3>1, <3>2
    <2>2. Fence(active, Ctx[k].base + Ctx[k].blocks[b].at, Ctx[k].blocks[b].since)
      BY <2>1 DEF Fenced, FencedIn
    <2> QED BY <2>1, <2>2
  <1>6. Fenced'
    <2>1. \A k \in 1 .. Depth : FencedIn(active', Ctx'[k])
      BY <1>5 DEF FencedIn
    <2> QED BY <1>1, <1>4, <2>1 DEF Fenced
  <1>7. cur'.base = cur.base BY DEF Steady, Beside
  <1>8. \A k \in 1 .. Len(frames) : Ctx'[k].base = Ctx[k].base /\ Ctx'[k + 1].base = Ctx[k + 1].base
    BY <1>1, <1>2 DEF Beside
  <1>9. Near'
    BY <1>1, <1>7, <1>8 DEF Near, NearTo
  <1> QED BY <1>6, <1>9

LEMMA SteadyScopes ==
  ASSUME Typed, Scoped, Steady, scopes' = scopes
  PROVE  Scoped'
PROOF
  <1>1. /\ Depth' = Depth
        /\ \A k \in 1 .. Depth : Beside(Ctx[k], Ctx'[k]) /\ Ctx'[k] \in Contexts
    BY SteadyContexts
  <1>2. Depth = Len(frames) + 1 /\ Len(frames) \in Nat BY TheContexts
  <1>3. \A k \in 1 .. Depth : Ctx'[k].under = Ctx[k].under /\ Ctx'[k].base = Ctx[k].base
    BY <1>1 DEF Beside
  <1>4. \A k \in 1 .. Depth : Ceiling(k)' = Ceiling(k)
    BY <1>1, <1>2, <1>3 DEF Ceiling
  <1>5. \A k \in 1 .. Depth : StartsIn(scopes', Ctx'[k], Ceiling(k)')
    <2> TAKE k \in 1 .. Depth
    <2>1. StartsIn(scopes, Ctx[k], Ceiling(k)) BY DEF Scoped
    <2>2. CASE Ctx'[k].blocks = Ctx[k].blocks
      BY <1>3, <1>4, <2>1, <2>2 DEF StartsIn
    <2>3. CASE Ctx'[k].blocks = <<>>
      <3>1. Ctx[k].under \in Nat /\ Len(Ctx[k].blocks) \in Nat BY TheContexts, ContextFields
      <3>2. Ctx[k].under + Len(Ctx[k].blocks) <= Ceiling(k) /\ Ceiling(k) <= Len(scopes)
        BY <2>1 DEF StartsIn
      <3>3. Len(scopes) \in Nat BY DEF Typed
      <3>4. Ceiling(k) \in Int
        BY <1>2, <3>3, TheContexts, ContextFields DEF Ceiling
      <3>5. Ctx'[k].under + 0 <= Ceiling(k)
        BY <1>3, <3>1, <3>2, <3>4
      <3>6. Len(Ctx'[k].blocks) = 0 BY <2>3
      <3> QED BY <1>4, <3>2, <3>5, <3>6 DEF StartsIn
    <2> QED BY <1>1, <2>2, <2>3 DEF Beside
  <1>6. 1 \in 1 .. Depth BY <1>2
  <1>7. Ctx'[1].under = 0 BY <1>3, <1>6 DEF Scoped
  <1>8. \A k \in 2 .. Depth : \A p \in Ctx'[k].under + 1 .. Len(scopes) : scopes[p] >= Ctx'[k].base
    BY <1>2, <1>3 DEF Scoped
  <1>9. \A k, l \in 1 .. Depth : k < l => Ctx'[k].under <= Ctx'[l].under
    BY <1>3 DEF Scoped
  <1>10. \A k \in 1 .. Depth : StartsIn(scopes', Ctx'[k], Ceiling(k)')
    BY <1>5
  <1> QED BY <1>1, <1>7, <1>8, <1>9, <1>10 DEF Scoped
-----------------------------------------------------------------------------
(* What becomes of the C++ functions and the instances meanwhile.          *)

HeapGrows ==
  /\ insts' \in Seq(Instances) /\ DOMAIN insts \subseteq DOMAIN insts'
  /\ bound' \in [Types -> 0 .. Len(insts')]
  /\ \A k \in Types : bound[k] \in DOMAIN insts => bound'[k] \in DOMAIN insts'

(* No instance is completed or dropped.                                    *)
NoneEnds ==
  /\ \A i \in DOMAIN insts :
       /\ insts'[i].of = insts[i].of /\ insts'[i].made = insts[i].made
       /\ insts'[i].drops = insts[i].drops
       /\ insts'[i].literal => insts[i].literal
  /\ \A i \in DOMAIN insts' \ DOMAIN insts : ~insts'[i].made /\ insts'[i].drops = 0

LEMMA ValueKept ==
  ASSUME NEW v, ValueOK(v), HeapGrows
  PROVE  ValueOK(v)'
PROOF
  BY DEF ValueOK, HeapGrows

LEMMA AlikeIn ==
  ASSUME NEW x, NEW y, Alike(x, y), NEW n
  PROVE  /\ MakesIn(n, x) => MakesIn(n, y)
         /\ DropsIn(n, x) => DropsIn(n, y)
PROOF
  BY DEF Alike, MakesIn, DropsIn

LEMMA EntryKept ==
  ASSUME NEW n, NativeEntry(n), HeapGrows,
         n.op = "make" =>
           /\ n.depth \in 1 .. Depth' /\ MakesIn(n, Ctx'[n.depth])
           /\ ~insts'[n.id].made /\ ~insts'[n.id].literal,
         n.op = "drop" =>
           /\ n.depth \in 1 .. Depth' /\ DropsIn(n, Ctx'[n.depth])
           /\ n.busy \in 0 .. Len(active')
           /\ n.then \in {"clear", "destroy"} => status' = status
  PROVE  NativeEntry(n)'
PROOF
  <1>1. CASE CallOK(n)
    <2>1. ValueOK(n.copy) BY <1>1 DEF CallOK
    <2>2. ValueOK(n.copy)' BY <2>1, ValueKept
    <2> QED BY <1>1, <2>2 DEF CallOK, NativeEntry
  <1>2. CASE MakeOK(n)
    BY <1>2 DEF MakeOK, NativeEntry, HeapGrows
  <1>3. CASE DropOK(n)
    BY <1>3 DEF DropOK, NativeEntry
  <1> QED BY <1>1, <1>2, <1>3 DEF NativeEntry

(* The stack of C++ functions as a sequence.                               *)
LEMMA TheNative ==
  ASSUME Inv
  PROVE  /\ \E S : native \in Seq(S)
         /\ Len(native) \in Nat /\ DOMAIN native = 1 .. Len(native)
         /\ native = <<>> <=> Len(native) = 0
         /\ Last(native) = native[Len(native)]
PROOF
  BY DEF Inv, NativeOK, Last

LEMMA EntryOps ==
  ASSUME NEW n, NativeEntry(n)
  PROVE  /\ n.op \in {"call", "make", "drop"}
         /\ n.op = "call" <=> CallOK(n)
         /\ n.op = "make" <=> MakeOK(n)
         /\ n.op = "drop" <=> DropOK(n)
         /\ n.depth \in Int
         /\ n.op # "call" => n.depth \in 1 .. Depth
PROOF
  BY DEF NativeEntry, CallOK, MakeOK, DropOK

(* While code runs, the making and dropping of instances that is under way *)
(* is that of callers.                                                     *)
LEMMA CodeAlone ==
  ASSUME Inv, Typed, Entries, Links, Ends, Executing
  PROVE  /\ \A i \in DOMAIN native : native[i].op # "call" => native[i].depth \in 1 .. Len(frames)
         /\ \A i \in DOMAIN native : Binds(native[i]) =>
              /\ native # <<>> /\ native[Len(native)].depth = Depth
              /\ native[Len(native)].op = "call" /\ Binds(native[Len(native)])
         /\ status # "running" => Depth >= 2
         /\ status \notin {"over", "aborted"}
PROOF
  <1>1. /\ Len(native) \in Nat /\ DOMAIN native = 1 .. Len(native)
        /\ native = <<>> <=> Len(native) = 0
        /\ Last(native) = native[Len(native)]
    BY TheNative
  <1>2. Depth = Len(frames) + 1 /\ Len(frames) \in Nat BY TheContexts
  <1>3. native # <<>> => native[Len(native)].op = "call"
    BY <1>1 DEF Executing, Doing
  <1>4. ASSUME NEW i \in DOMAIN native, Binds(native[i])
        PROVE  native # <<>> /\ native[Len(native)].depth = Depth /\ Binds(native[Len(native)])
    <2>1. i = Len(native) \/ i < Len(native) BY <1>1
    <2>2. Binds(native[Len(native)]) BY <1>1, <1>4, <2>1 DEF Links
    <2> QED BY <1>1, <1>4, <2>2 DEF Links
  <1>5. ASSUME NEW i \in DOMAIN native, native[i].op # "call"
        PROVE  native[i].depth \in 1 .. Len(frames)
    <2>1. Binds(native[i]) BY <1>5 DEF Binds
    <2>2. i < Len(native) BY <1>1, <1>3, <1>5
    <2>3. native[i].depth < native[Len(native)].depth
      BY <1>1, <1>3, <2>1, <2>2 DEF Links
    <2>4. native[i].depth \in 1 .. Depth BY <1>5, EntryOps DEF Entries
    <2> QED BY <1>2, <1>4, <2>1, <2>3, <2>4
  <1>6. status # "running" => Depth >= 2
    <2> HAVE status # "running"
    <2>1. native # <<>> BY DEF Executing
    <2>2. native[1].op = "drop" BY <2>1 DEF Ends
    <2>3. native[1].depth \in 1 .. Len(frames) BY <1>1, <1>5, <2>1, <2>2
    <2> QED BY <1>2, <2>3
  <1>7. status \notin {"over", "aborted"}
    BY DEF Executing, Ends, Doing
  <1> QED BY <1>1, <1>3, <1>4, <1>5, <1>6, <1>7

(* Lists and counts depend on little of the state.                         *)
LEMMA CountsKept ==
  ASSUME Typed, Listing, Unique, Counted, HeapGrows, NoneEnds,
         active' = active, native' = native, missed' = missed
  PROVE  Listing' /\ Unique' /\ Counted'
PROOF
  <1>1. \A j \in DOMAIN active : active[j].id \in DOMAIN insts BY DEF Listing, Listed
  <1>2. Listing' BY <1>1 DEF Listing, Listed, HeapGrows, NoneEnds
  <1>3. Unique' BY DEF Unique, HeapGrows, NoneEnds
  <1>4. Counted'
    <2> SUFFICES ASSUME ~missed
                 PROVE  /\ \A i, j \in DOMAIN active : active[i].id = active[j].id => i = j
                        /\ \A j \in DOMAIN active :
                             insts'[active[j].id].drops = IF BeingDropped(native, j) THEN 1 ELSE 0
                        /\ \A i \in DOMAIN insts' :
                             /\ insts'[i].drops <= 1
                             /\ ~insts'[i].made => insts'[i].drops = 0
                             /\ insts'[i].made /\ insts'[i].of.drop /\ insts'[i].drops = 0 =>
                                  \E j \in DOMAIN active : active[j].id = i
      BY DEF Counted
    <2>1. \A j \in DOMAIN active :
            insts'[active[j].id].drops = IF BeingDropped(native, j) THEN 1 ELSE 0
      BY <1>1 DEF Counted, NoneEnds
    <2>2. ASSUME NEW i \in DOMAIN insts'
          PROVE  /\ insts'[i].drops <= 1
                 /\ ~insts'[i].made => insts'[i].drops = 0
                 /\ insts'[i].made /\ insts'[i].of.drop /\ insts'[i].drops = 0 =>
                      \E j \in DOMAIN active : active[j].id = i
      BY DEF Counted, NoneEnds
    <2> QED BY <2>1, <2>2 DEF Counted
  <1> QED BY <1>2, <1>3, <1>4

(* A step of code that calls nothing and ends nothing.                     *)
Local ==
  /\ Steady /\ Laid(Depth, cur')
  /\ HeapGrows /\ NoneEnds
  /\ UNCHANGED <<native, implicit, scopes, active, status, missed>>

LEMMA LocalKeeps ==
  ASSUME DInv, Executing, Local, Typed'
  PROVE  DInv'
PROOF
  <1> USE DEF DInv
  <1>1. /\ Depth' = Depth /\ Len(frames') = Len(frames) /\ frames' = frames
        /\ \A k \in 1 .. Len(frames) : Ctx'[k] = Ctx[k]
        /\ \A k \in 1 .. Depth : Beside(Ctx[k], Ctx'[k])
    BY SteadyContexts DEF Local, Steady
  <1>2. Depth = Len(frames) + 1 /\ Len(frames) \in Nat BY TheContexts
  <1>3. /\ Len(native) \in Nat /\ DOMAIN native = 1 .. Len(native) BY TheNative
  <1>4. /\ native' = native /\ implicit' = implicit /\ scopes' = scopes /\ active' = active
        /\ status' = status /\ missed' = missed
    BY DEF Local
  <1>5. Inv' BY <1>4 DEF Inv
  <1>6. status \notin {"over", "aborted"} BY CodeAlone
  <1>7. Windows' /\ Waiting' BY <1>4, <1>6, SteadyWindows DEF Local
  <1>8. Entries'
    <2> SUFFICES ASSUME NEW i \in DOMAIN native PROVE NativeEntry(native[i])'
      BY <1>4 DEF Entries
    <2>1. NativeEntry(native[i]) BY DEF Entries
    <2>2. native[i].op # "call" => native[i].depth \in 1 .. Len(frames) BY CodeAlone
    <2>3. PICK n : n = native[i] OBVIOUS
    <2>4. n.op # "call" => Ctx'[n.depth] = Ctx[n.depth] /\ n.depth \in 1 .. Depth'
      BY <1>1, <1>2, <2>2, <2>3
    <2>5. NativeEntry(n) BY <2>1, <2>3
    <2>6. n.op = "make" => ~insts'[n.id].made /\ ~insts'[n.id].literal /\ MakesIn(n, Ctx[n.depth])
      BY <2>5, EntryOps DEF MakeOK, Local, NoneEnds
    <2>7. n.op = "drop" => n.busy \in 0 .. Len(active) /\ DropsIn(n, Ctx[n.depth])
      BY <2>5, EntryOps DEF DropOK
    <2>8. NativeEntry(n)'
      BY <1>4, <2>4, <2>5, <2>6, <2>7, EntryKept DEF Local
    <2> QED BY <1>4, <2>3, <2>8
  <1>9. Links' BY <1>1, <1>4 DEF Links
  <1>10. Ends' BY <1>1, <1>4 DEF Ends
  <1>11. Listing' /\ Unique' /\ Counted' BY <1>4, CountsKept DEF Local
  <1>12. Busy'
    <2>1. \A i \in 1 .. Len(native) - 1 : Dropper(native[i]) =>
            Ctx'[native[i].depth + 1].base = Ctx[native[i].depth + 1].base
      <3> SUFFICES ASSUME NEW i \in 1 .. Len(native) - 1, Dropper(native[i])
                   PROVE  Ctx'[native[i].depth + 1].base = Ctx[native[i].depth + 1].base
        OBVIOUS
      <3>1. native[i].depth \in 1 .. Len(frames)
        BY <1>3, CodeAlone DEF Dropper
      <3>2. native[i].depth + 1 \in 1 .. Depth BY <1>2, <3>1
      <3> QED BY <1>1, <3>2 DEF Beside
    <2> QED BY <1>4, <2>1 DEF Busy
  <1>13. Fenced' /\ Near' BY <1>4, SteadyFences DEF Local
  <1>14. Scoped' BY <1>4, SteadyScopes DEF Local
  <1> QED BY <1>5, <1>7, <1>8, <1>9, <1>10, <1>11, <1>12, <1>13, <1>14
-----------------------------------------------------------------------------
(* Registers of the running activation.                                    *)

LEMMA LaidHere ==
  ASSUME Typed, Windows
  PROVE  Laid(Depth, cur) /\ cur \in Contexts
PROOF
  BY TheContexts DEF Windows

(* A byte's worth of registers from the window lies in the array.          *)
LEMMA InWindow ==
  ASSUME Typed, Windows, status \notin {"over", "aborted"}, NEW k \in 1 .. Depth
  PROVE  /\ Ctx[k].base \in Nat
         /\ \A r \in Nat : r < Width => Ctx[k].base + r \in 0 .. NumRegs - 1
         /\ k > 1 => Ctx[k].base - 1 \in 0 .. NumRegs - 1
PROOF
  <1>1. Depth \in 1 .. MaxDepth + 1 /\ Ctx[k] \in Contexts /\ Ctx[1] \in Contexts
    BY TheContexts
  <1>2. Ctx[k].base \in Nat /\ Ctx[1].base \in Nat /\ MaxDepth \in Nat /\ Width \in Nat
    BY <1>1, ContextFields, Sizes
  <1>3. MaxDepth * Width \in Nat /\ (k - 1) * Width \in Nat
    BY <1>1, <1>2
  <1>4. Ctx[1].base <= MaxDepth * Width
    BY <1>2, <1>3 DEF Windows, Typed
  <1>5. Ctx[k].base <= MaxDepth * Width + (k - 1) * Width
    <2>1. Ctx[k].base <= Ctx[1].base + (k - 1) * Width BY DEF Windows
    <2> QED BY ONLY <2>1, <1>2, <1>3, <1>4
  <1>6. k \in 1 .. MaxDepth + 1 BY <1>1, <1>2
  <1>7. \A r \in Nat : r < Width => Ctx[k].base + r \in 0 .. NumRegs - 1
    BY <1>2, <1>5, <1>6, Room
  <1>8. Width > 0 /\ NumRegs \in Nat BY Sizes
  <1>9. Ctx[k].base + 0 \in 0 .. NumRegs - 1 BY <1>2, <1>7, <1>8
  <1>10. k > 1 => Ctx[k].base >= 1 BY <1>1 DEF Windows
  <1> QED BY <1>2, <1>7, <1>8, <1>9, <1>10

LEMMA InThisWindow ==
  ASSUME Typed, Windows, status \notin {"over", "aborted"}
  PROVE  /\ cur.base \in Nat
         /\ \A r \in Nat : r < Width => Reg(r) \in 0 .. NumRegs - 1
         /\ Depth > 1 => cur.base - 1 \in 0 .. NumRegs - 1
PROOF
  <1>1. Depth \in 1 .. Depth /\ Ctx[Depth] = cur BY TheContexts
  <1> QED BY <1>1, InWindow DEF Reg

LEMMA LowFits ==
  ASSUME NEW k \in 1 .. MaxDepth + 1, NEW x \in Contexts, Laid(k, x), x.code.at \in Running
  PROVE  x.low + MaxTemps[k] < Width /\ MaxTemps[k] \in Nat
PROOF
  <1>1. MaxTemps[k] \in Nat /\ Width \in Nat /\ Globals \in Nat BY Sizes
  <1>2. x.low \in Nat /\ x.code.self \in 0 .. 1 BY ContextFields
  <1>3. CASE k = 1
    BY <1>1, <1>2, <1>3, Sizes DEF Laid
  <1>4. CASE k # 1
    <2>1. x.code.fun \in Callables /\ x.code.at \in {"default", "body"}
      BY <1>4 DEF Laid, Running
    <2>2. x.code.fun.max \in Nat /\ x.code.fun.max + 3 + MaxTemps[k] < Width
      BY <1>4, <2>1, CallableFields, Sizes
    <2>3. x.low <= x.code.self + x.code.fun.max + 2
      BY <1>2, <2>1, <2>2 DEF Laid
    <2> QED BY <1>1, <1>2, <2>2, <2>3
  <1> QED BY <1>3, <1>4

LEMMA TopMoved ==
  ASSUME NEW x \in Contexts, NEW t \in Nat, NEW y, y = [x EXCEPT !.top = t]
  PROVE  /\ y \in Contexts /\ Beside(x, y) /\ Alike(x, y) /\ y.top = t
         /\ \A k \in 1 .. MaxDepth + 1 :
              /\ Laid(k, x) /\ x.code.at \in Running
              /\ x.low <= t /\ t <= x.low + MaxTemps[k]
              /\ \A b \in DOMAIN x.blocks : x.blocks[b].at <= t
              => Laid(k, y)
PROOF
  <1>1. y \in Contexts BY DEF Contexts
  <1>2. /\ y.base = x.base /\ y.since = x.since /\ y.under = x.under /\ y.code = x.code
        /\ y.blocks = x.blocks /\ y.low = x.low /\ y.top = t
    BY DEF Contexts
  <1>3. Beside(x, y) /\ Alike(x, y) BY <1>2 DEF Beside, Alike
  <1>4. ASSUME NEW k \in 1 .. MaxDepth + 1, Laid(k, x), x.code.at \in Running,
               x.low <= t, t <= x.low + MaxTemps[k],
               \A b \in DOMAIN x.blocks : x.blocks[b].at <= t
        PROVE  Laid(k, y)
    <2>1. x.low + MaxTemps[k] < Width /\ MaxTemps[k] \in Nat /\ x.low \in Nat /\ Width \in Nat
      BY <1>4, LowFits, ContextFields, Sizes
    <2>2. t < Width BY <1>4, <2>1
    <2> QED BY <1>2, <1>4, <2>2 DEF Laid, Running
  <1> QED BY <1>1, <1>2, <1>3, <1>4

(* A register that lies above the blocks and below the top ...             *)
LEMMA AboveBlocks ==
  ASSUME DInv, At({"script", "default", "body"}), NEW p \in BlockLowest .. cur.top - 1
  PROVE  /\ p \in Nat /\ p < cur.top /\ cur.low <= p /\ p < Width
         /\ \A b \in DOMAIN cur.blocks : cur.blocks[b].at <= p
         /\ Reg(p) \in DOMAIN regs
         /\ BlockLowest \in Nat /\ BlockLowest <= p
PROOF
  <1> USE DEF DInv
  <1>1. cur \in Contexts /\ Laid(Depth, cur) BY LaidHere
  <1>2. /\ cur.low \in Nat /\ cur.top \in Nat /\ cur.base \in Nat
        /\ Len(cur.blocks) \in Nat /\ DOMAIN cur.blocks = 1 .. Len(cur.blocks)
        /\ cur.blocks \in Seq([at : Nat, since : Nat])
        /\ \A b \in 1 .. Len(cur.blocks) : cur.blocks[b].at \in Nat
    BY <1>1, ContextFields
  <1>3. Executing /\ cur.code.at \in Running BY DEF At, Running
  <1>4. CASE cur.blocks = <<>>
    <2>1. BlockLowest = cur.low BY <1>4 DEF BlockLowest
    <2>2. DOMAIN cur.blocks = {} BY <1>4
    <2>3. p \in cur.low .. cur.top - 1 BY <2>1
    <2>4. p \in Nat /\ p < cur.top /\ cur.low <= p BY <1>2, <2>3
    <2>5. p < Width BY <1>1, <1>2, <2>4, Sizes DEF Laid
    <2>6. Reg(p) \in DOMAIN regs
      BY <1>3, <2>4, <2>5, CodeAlone, InThisWindow DEF Typed
    <2> QED BY <1>2, <2>1, <2>2, <2>4, <2>5, <2>6
  <1>5. CASE cur.blocks # <<>>
    <2> DEFINE n == Len(cur.blocks)
    <2>1. n \in 1 .. n BY <1>2, <1>5
    <2>2. BlockLowest = cur.blocks[n].at BY <1>5 DEF BlockLowest, Last
    <2>3. p \in cur.blocks[n].at .. cur.top - 1 BY <2>2
    <2>4. cur.low <= cur.blocks[n].at /\ \A b \in 1 .. n : cur.blocks[b].at <= cur.blocks[n].at
      <3>1. \A b \in 1 .. n : /\ cur.low <= cur.blocks[b].at
                             /\ \A j \in b .. n : cur.blocks[b].at <= cur.blocks[j].at
        BY <1>1, <1>2 DEF Laid
      <3>2. \A b \in 1 .. n : n \in b .. n BY <1>2
      <3> QED BY <2>1, <3>1, <3>2
    <2>5. cur.blocks[n].at \in Nat BY <1>2, <2>1
    <2>6. p \in Nat /\ p < cur.top /\ cur.low <= p /\ cur.blocks[n].at <= p
      <3> DEFINE a == cur.blocks[n].at
      <3>1. a \in Nat /\ cur.top \in Nat /\ cur.low \in Nat /\ p \in a .. cur.top - 1 /\ cur.low <= a
        BY <1>2, <2>3, <2>4, <2>5
      <3> HIDE DEF a
      <3>2. p \in Nat /\ p < cur.top /\ cur.low <= p /\ a <= p BY ONLY <3>1
      <3> QED BY <3>2 DEF a
    <2>7. p < Width BY <1>1, <1>2, <2>6, Sizes DEF Laid
    <2>8. Reg(p) \in DOMAIN regs
      BY <1>3, <2>6, <2>7, CodeAlone, InThisWindow DEF Typed
    <2>9. \A b \in 1 .. n : cur.blocks[b].at <= p
      <3> TAKE b \in 1 .. n
      <3> DEFINE a == cur.blocks[b].at  c == cur.blocks[n].at
      <3>1. a \in Nat /\ c \in Nat /\ a <= c /\ c <= p /\ p \in Nat BY <1>2, <2>4, <2>5, <2>6
      <3> HIDE DEF a, c
      <3>2. a <= p BY ONLY <3>1
      <3> QED BY <3>2 DEF a
    <2> QED BY <1>2, <2>2, <2>5, <2>6, <2>7, <2>8, <2>9
  <1> QED BY <1>4, <1>5

(* ... as every temporary does.                                            *)
LEMMA TemporaryFacts ==
  ASSUME DInv, At({"script", "default", "body"}), NEW p \in Temporaries
  PROVE  /\ p \in Nat /\ p < cur.top /\ cur.low <= p /\ p < Width
         /\ \A b \in DOMAIN cur.blocks : cur.blocks[b].at <= p
         /\ Reg(p) \in DOMAIN regs
         /\ BlockLowest \in Nat /\ BlockLowest <= p
PROOF
  <1>1. p \in BlockLowest .. cur.top - 1 BY DEF Temporaries
  <1> QED BY <1>1, AboveBlocks

(* The top is never below the blocks while code runs.                      *)
LEMMA TopFacts ==
  ASSUME Typed, Windows
  PROVE  /\ cur.top \in Nat /\ cur.low \in Nat /\ cur.top < Width
         /\ DOMAIN cur.blocks = 1 .. Len(cur.blocks) /\ Len(cur.blocks) \in Nat
         /\ \A b \in DOMAIN cur.blocks : cur.blocks[b].at \in Nat /\ cur.blocks[b].at <= cur.top
         /\ cur.code.at \in Running => cur.low <= cur.top /\ cur.top <= cur.low + MaxTemps[Depth]
PROOF
  <1>1. cur \in Contexts /\ Laid(Depth, cur) BY LaidHere
  <1> QED BY <1>1, ContextFields DEF Laid

(* Writing a value that is sound.                                          *)
LEMMA RegsKept ==
  ASSUME Typed, HeapGrows, DOMAIN regs' = DOMAIN regs,
         \A r \in DOMAIN regs : regs'[r] = regs[r] \/ \E v : regs'[r] = v /\ ValueOK(v)'
  PROVE  \A r \in DOMAIN regs' : \E v : regs'[r] = v /\ ValueOK(v)'
PROOF
  <1> SUFFICES ASSUME NEW r \in DOMAIN regs PROVE \E v : regs'[r] = v /\ ValueOK(v)'
    OBVIOUS
  <1>1. CASE regs'[r] = regs[r]
    <2>1. PICK v : v = regs[r] OBVIOUS
    <2>2. ValueOK(v) BY <2>1 DEF Typed
    <2>3. ValueOK(v)' BY <2>2, ValueKept
    <2> QED BY <1>1, <2>1, <2>3
  <1> QED BY <1>1
-----------------------------------------------------------------------------
(* The steps of code that only move the top or change a value.             *)

LEMMA TypedAgain ==
  ASSUME DOMAIN regs' = 0 .. NumRegs - 1,
         \A r \in DOMAIN regs' : \E v : regs'[r] = v /\ ValueOK(v)',
         frames' \in Seq(Contexts), Len(frames') <= MaxDepth, cur' \in Contexts,
         args' \in 0 .. Width, scopes' \in Seq(0 .. NumRegs - 1),
         active' \in Seq([addr : 0 .. NumRegs - 1, id : Nat]),
         insts' \in Seq(Instances), bound' \in [Types -> 0 .. Len(insts')],
         status' \in {"running", "clearing", "destroying", "over", "aborted"},
         missed' \in BOOLEAN
  PROVE  Typed'
PROOF
  BY DEF Typed, ValueOK, IsInst

LEMMA HeapStays ==
  ASSUME Typed, UNCHANGED heap
  PROVE  HeapGrows /\ NoneEnds
PROOF
  BY DEF Typed, heap, HeapGrows, NoneEnds

(* Writing one register, or none.                                          *)
Written ==
  /\ DOMAIN regs' = DOMAIN regs
  /\ \A r \in DOMAIN regs : regs'[r] = regs[r] \/ \E v : regs'[r] = v /\ ValueOK(v)'

LEMMA Writes ==
  ASSUME NEW a, NEW v, regs' = [regs EXCEPT ![a] = v], ValueOK(v)'
  PROVE  Written
PROOF
  <1>1. DOMAIN regs' = DOMAIN regs OBVIOUS
  <1>2. \A r \in DOMAIN regs : regs'[r] = regs[r] \/ regs'[r] = v OBVIOUS
  <1> QED BY <1>1, <1>2 DEF Written

LEMMA Unwritten == regs' = regs => Written
PROOF
  BY DEF Written

LEMMA LocalStep ==
  ASSUME DInv, Executing, Local, Written, args' = args
  PROVE  DInv'
PROOF
  <1> USE DEF DInv
  <1>1. /\ DOMAIN regs' = 0 .. NumRegs - 1
        /\ \A r \in DOMAIN regs' : \E v : regs'[r] = v /\ ValueOK(v)'
    BY RegsKept DEF Local, Written, Typed
  <1>2. Typed'
    BY <1>1, TypedAgain DEF Local, Steady, HeapGrows, Typed
  <1> QED BY <1>2, LocalKeeps

(* Values that name nothing.                                               *)
LEMMA PlainValues ==
  /\ ValueOK(Void)' /\ ValueOK(Invalid)' /\ ValueOK(Callee)'
  /\ \A r : ValueOK(Datum(r))' /\ ValueOK(ListV(r))'
  /\ ValueOK(Void) /\ ValueOK(Invalid) /\ ValueOK(Callee)
  /\ \A r : ValueOK(Datum(r)) /\ ValueOK(ListV(r))
PROOF
  BY DEF ValueOK, IsInst, Void, Invalid, Callee, Datum, ListV

LEMMA InstValue ==
  ASSUME NEW i
  PROVE  /\ i \in DOMAIN insts => ValueOK(InstV(i))
         /\ i \in DOMAIN insts' => ValueOK(InstV(i))'
PROOF
  BY DEF ValueOK, IsInst, InstV

LEMMA LoadKeeps ==
  ASSUME DInv, NEW v \in Loadable, Load(v)
  PROVE  DInv'
PROOF
  <1> USE DEF DInv
  <1>1. Executing /\ cur.code.at \in Running BY DEF Load, At, Running
  <1>2. HeapGrows /\ NoneEnds BY HeapStays DEF Load
  <1>3. ValueOK(v)
    BY PlainValues, InstValue DEF Loadable
  <1>4. ValueOK(v)' BY <1>2, <1>3, ValueKept
  <1>5. Written BY <1>4, Writes DEF Load
  <1>6. cur \in Contexts /\ Laid(Depth, cur) BY LaidHere
  <1>7. Depth \in 1 .. MaxDepth + 1 /\ Depth = Len(frames) + 1 BY TheContexts
  <1>8. /\ cur.top \in Nat /\ cur.low \in Nat /\ cur.low <= cur.top
        /\ \A b \in DOMAIN cur.blocks : cur.blocks[b].at \in Nat /\ cur.blocks[b].at <= cur.top
    BY <1>1, TopFacts
  <1>9. MaxTemps[Depth] \in Nat BY <1>7, Sizes
  <1>10. cur.top + 1 <= cur.low + MaxTemps[Depth]
    BY <1>7, <1>8, <1>9 DEF Load
  <1>11. cur' \in Contexts /\ Beside(cur, cur') /\ Laid(Depth, cur')
    <2>1. cur.top + 1 \in Nat /\ cur.low <= cur.top + 1 BY <1>8
    <2>2. cur' = [cur EXCEPT !.top = cur.top + 1] BY DEF Load
    <2>3. \A b \in DOMAIN cur.blocks : cur.blocks[b].at <= cur.top + 1 BY <1>8
    <2> QED BY <1>1, <1>6, <1>7, <1>10, <2>1, <2>2, <2>3, TopMoved
  <1>12. Local BY <1>2, <1>11 DEF Local, Steady, Load
  <1> QED BY <1>1, <1>5, <1>12, LocalStep DEF Load

(* A top moved down to a register above the blocks, or to a temporary.     *)
LEMMA LoweredTo ==
  ASSUME DInv, At({"script", "default", "body"}), NEW p \in BlockLowest .. cur.top - 1
  PROVE  /\ [cur EXCEPT !.top = p] \in Contexts
         /\ Beside(cur, [cur EXCEPT !.top = p]) /\ Alike(cur, [cur EXCEPT !.top = p])
         /\ Laid(Depth, [cur EXCEPT !.top = p])
         /\ [cur EXCEPT !.top = p].top = p
         /\ p < cur.low + MaxTemps[Depth]
PROOF
  <1> USE DEF DInv
  <1>1. Executing /\ cur.code.at \in Running BY DEF At, Running
  <1>2. cur \in Contexts /\ Laid(Depth, cur) BY LaidHere
  <1>3. Depth \in 1 .. MaxDepth + 1 BY TheContexts
  <1>4. /\ p \in Nat /\ p < cur.top /\ cur.low <= p
        /\ \A b \in DOMAIN cur.blocks : cur.blocks[b].at <= p
    BY AboveBlocks
  <1>5. cur.top <= cur.low + MaxTemps[Depth] /\ cur.top \in Nat /\ cur.low \in Nat
    BY <1>1, TopFacts
  <1>6. MaxTemps[Depth] \in Nat BY <1>3, Sizes
  <1>7. p < cur.low + MaxTemps[Depth] /\ p <= cur.low + MaxTemps[Depth] BY <1>4, <1>5, <1>6
  <1> QED BY <1>1, <1>2, <1>3, <1>4, <1>7, TopMoved

LEMMA TopLowered ==
  ASSUME DInv, At({"script", "default", "body"}), NEW p \in Temporaries
  PROVE  /\ [cur EXCEPT !.top = p] \in Contexts
         /\ Beside(cur, [cur EXCEPT !.top = p]) /\ Alike(cur, [cur EXCEPT !.top = p])
         /\ Laid(Depth, [cur EXCEPT !.top = p])
         /\ [cur EXCEPT !.top = p].top = p
         /\ p < cur.low + MaxTemps[Depth]
PROOF
  <1>1. p \in BlockLowest .. cur.top - 1 BY DEF Temporaries
  <1> QED BY <1>1, LoweredTo

LEMMA DiscardKeeps ==
  ASSUME DInv, Discard
  PROVE  DInv'
PROOF
  <1> USE DEF DInv
  <1>1. At({"script", "default", "body"}) /\ cur.top - 1 \in Temporaries
        /\ cur' = [cur EXCEPT !.top = cur.top - 1] /\ Executing
    BY DEF Discard, At
  <1>2. cur' \in Contexts /\ Beside(cur, cur') /\ Laid(Depth, cur')
    BY <1>1, TopLowered
  <1>3. HeapGrows /\ NoneEnds BY HeapStays DEF Discard
  <1>4. Local BY <1>2, <1>3 DEF Local, Steady, Discard
  <1>5. Written BY Unwritten DEF Discard
  <1> QED BY <1>1, <1>4, <1>5, LocalStep DEF Discard

LEMMA GetMethodKeeps ==
  ASSUME DInv, GetMethod
  PROVE  DInv'
PROOF
  <1> USE DEF DInv
  <1> DEFINE i == Latest.id  k == insts[i].of
  <1>1. /\ At({"script", "default", "body"}) /\ cur.top - 1 \in Temporaries /\ Executing
        /\ IsInst(Latest) /\ k.method # NoFun
        /\ regs' = [regs EXCEPT ![Reg(cur.top - 1)] = MethodV(k, i)]
        /\ bound' = [bound EXCEPT ![k] = i] /\ insts' = insts
    BY DEF GetMethod, At
  <1>2. Reg(cur.top - 1) \in DOMAIN regs BY <1>1, TemporaryFacts
  <1>3. ValueOK(Latest) BY <1>2 DEF Typed, Latest
  <1>4. i \in DOMAIN insts BY <1>1, <1>3 DEF ValueOK
  <1> HIDE DEF i
  <1>5. insts \in Seq(Instances) /\ bound \in [Types -> 0 .. Len(insts)] BY DEF Typed
  <1>6. insts[i] \in Instances /\ i \in 1 .. Len(insts) /\ Len(insts) \in Nat BY <1>4, <1>5
  <1>7. k \in Types BY <1>6 DEF Instances
  <1> HIDE DEF k
  <1>8. bound' \in [Types -> 0 .. Len(insts')] /\ bound'[k] = i
    BY <1>1, <1>5, <1>6, <1>7
  <1>9. HeapGrows
    <2>1. \A l \in Types : bound'[l] = bound[l] \/ bound'[l] = i BY <1>1, <1>5
    <2> QED BY <1>1, <1>4, <1>5, <1>8, <2>1 DEF HeapGrows
  <1>10. NoneEnds BY <1>1 DEF NoneEnds
  <1>12. Written
    <2>1. PICK l, j : l = k /\ j = i OBVIOUS
    <2>2. PICK v : v = MethodV(l, j) OBVIOUS
    <2>3. v.t = "method" /\ v.of = l BY <2>2 DEF MethodV
    <2>4. l \in Types /\ l.method # NoFun /\ bound'[l] \in DOMAIN insts'
      BY <1>1, <1>4, <1>7, <1>8, <2>1
    <2>5. ValueOK(v)' BY <2>3, <2>4 DEF ValueOK, IsInst
    <2>6. regs' = [regs EXCEPT ![Reg(cur.top - 1)] = v] BY <1>1, <2>1, <2>2
    <2> QED BY <2>5, <2>6, Writes
  <1>13. Local
    BY <1>9, <1>10, LaidHere DEF Local, Steady, GetMethod, Beside
  <1> QED BY <1>1, <1>12, <1>13, LocalStep DEF GetMethod

LEMMA SetFieldKeeps ==
  ASSUME DInv, SetField
  PROVE  DInv'
PROOF
  <1> USE DEF DInv
  <1> DEFINE object == regs[Reg(cur.top - 2)]
             i == object.id
  <1>1. /\ At({"script", "default", "body"}) /\ cur.top - 2 \in Temporaries /\ Executing
        /\ IsInst(object)
        /\ insts' = [insts EXCEPT ![i].field = TRUE] /\ bound' = bound
        /\ cur' = [cur EXCEPT !.top = cur.top - 2]
    BY DEF SetField, At
  <1>2. cur' \in Contexts /\ Beside(cur, cur') /\ Laid(Depth, cur')
    BY <1>1, TopLowered
  <1>3. Reg(cur.top - 2) \in DOMAIN regs BY <1>1, TemporaryFacts
  <1>4. ValueOK(object) BY <1>3 DEF Typed
  <1>5. i \in DOMAIN insts BY <1>1, <1>4 DEF ValueOK
  <1> HIDE DEF object, i
  <1>6. HeapGrows /\ NoneEnds
    <2>1. insts \in Seq(Instances) /\ bound \in [Types -> 0 .. Len(insts)] BY DEF Typed
    <2>2. \A j \in DOMAIN insts : insts[j] \in Instances BY <2>1
    <2>3. [insts[i] EXCEPT !.field = TRUE] \in Instances BY <1>5, <2>2 DEF Instances
    <2>4. insts' \in Seq(Instances) /\ Len(insts') = Len(insts) /\ DOMAIN insts' = DOMAIN insts
      BY <1>1, <1>5, <2>1, <2>3
    <2>5. \A j \in DOMAIN insts :
            /\ insts'[j].of = insts[j].of /\ insts'[j].made = insts[j].made
            /\ insts'[j].drops = insts[j].drops /\ insts'[j].literal = insts[j].literal
      BY <1>1, <2>2 DEF Instances
    <2> QED BY <1>1, <2>1, <2>4, <2>5 DEF HeapGrows, NoneEnds
  <1>7. Local BY <1>2, <1>6 DEF Local, Steady, SetField
  <1>8. Written BY Unwritten DEF SetField
  <1> QED BY <1>1, <1>7, <1>8, LocalStep DEF SetField

(* A new instance.                                                         *)
LEMMA HeapAppend ==
  ASSUME Typed, NEW k \in Types, NEW f \in BOOLEAN, NEW l \in BOOLEAN,
         insts' = Append(insts, New(k, f, l)), bound' = bound
  PROVE  /\ HeapGrows /\ NoneEnds
         /\ Len(insts) \in Nat /\ Len(insts') = Len(insts) + 1
         /\ Len(insts) + 1 \in DOMAIN insts' /\ Len(insts) + 1 \notin DOMAIN insts
         /\ insts'[Len(insts) + 1] = New(k, f, l)
         /\ \A j \in DOMAIN insts : insts'[j] = insts[j]
PROOF
  <1>1. insts \in Seq(Instances) /\ bound \in [Types -> 0 .. Len(insts)] BY DEF Typed
  <1>2. New(k, f, l) \in Instances BY DEF New, Instances
  <1>3. /\ Len(insts) \in Nat /\ Len(insts') = Len(insts) + 1
        /\ insts' \in Seq(Instances) /\ DOMAIN insts' = 1 .. Len(insts) + 1
        /\ DOMAIN insts = 1 .. Len(insts)
        /\ insts'[Len(insts) + 1] = New(k, f, l)
        /\ \A j \in 1 .. Len(insts) : insts'[j] = insts[j]
    BY <1>1, <1>2
  <1>4. ~New(k, f, l).made /\ New(k, f, l).drops = 0 BY DEF New
  <1>5. bound' \in [Types -> 0 .. Len(insts')] BY <1>1, <1>3
  <1>6. DOMAIN insts \subseteq DOMAIN insts' BY <1>3
  <1>7. HeapGrows BY <1>1, <1>3, <1>5, <1>6 DEF HeapGrows
  <1>8. NoneEnds
    <2>1. \A j \in DOMAIN insts' \ DOMAIN insts : j = Len(insts) + 1 BY <1>3
    <2> QED BY <1>3, <1>4, <2>1 DEF NoneEnds
  <1> QED BY <1>3, <1>7, <1>8

LEMMA BeginLiteralKeeps ==
  ASSUME DInv, NEW k \in Types, BeginLiteral(k)
  PROVE  DInv'
PROOF
  <1> USE DEF DInv
  <1>1. /\ Executing /\ insts' = Append(insts, New(k, FALSE, TRUE)) /\ bound' = bound
        /\ regs' = [regs EXCEPT ![Reg(cur.top - 1)] = InstV(Len(insts) + 1)]
    BY DEF BeginLiteral, At
  <1>2. HeapGrows /\ NoneEnds /\ Len(insts) + 1 \in DOMAIN insts'
    BY <1>1, HeapAppend
  <1>4. Written
    <2>1. PICK v : v = InstV(Len(insts) + 1) OBVIOUS
    <2>2. ValueOK(v)' BY <1>2, <2>1 DEF ValueOK, IsInst, InstV
    <2> QED BY <1>1, <2>1, <2>2, Writes
  <1>5. Local
    BY <1>2, LaidHere DEF Local, Steady, BeginLiteral, Beside
  <1> QED BY <1>1, <1>4, <1>5, LocalStep DEF BeginLiteral

LEMMA VarArgsKeeps ==
  ASSUME DInv, VarArgs
  PROVE  DInv'
PROOF
  <1> USE DEF DInv
  <1> DEFINE r == cur.code.fun.max + cur.code.self
             v == ListV(SubSeq([i \in 1 .. args |-> regs[Reg(i - 1)]], r + 1, args))
  <1>1. /\ Executing /\ cur.code.at = "gather"
        /\ regs' = [regs EXCEPT ![Reg(r)] = v]
        /\ cur' = [Place("entry") EXCEPT !.top = r + 1]
        /\ UNCHANGED <<frames, native, implicit, args, scopes, active, heap, status, missed>>
    BY DEF VarArgs, At
  <1>3. Written
    <2>1. PICK w : w = v OBVIOUS
    <2>2. w.t = "list" BY <2>1 DEF ListV
    <2>3. ValueOK(w)' BY <2>2 DEF ValueOK, IsInst
    <2> HIDE DEF v
    <2> QED BY <1>1, <2>1, <2>3, Writes
  <1> HIDE DEF v
  <1>4. HeapGrows /\ NoneEnds BY <1>1, HeapStays
  <1>5. cur \in Contexts /\ Laid(Depth, cur) BY LaidHere
  <1>6. Depth # 1 /\ Depth \in 2 .. MaxDepth + 1
    BY <1>1, <1>5, TheContexts, Sizes DEF Laid
  <1>7. Depth > 1 BY <1>6, Sizes
  <1>8. cur.code.fun \in Callables /\ cur.blocks = <<>>
    BY <1>1, <1>5, <1>7 DEF Laid
  <1>9. /\ cur.code.self \in 0 .. 1 /\ cur.code.fun.max \in Nat
        /\ cur.code.fun.max + 3 + MaxTemps[Depth] < Width /\ MaxTemps[Depth] \in Nat
    BY <1>5, <1>6, <1>8, ContextFields, CallableFields, Sizes
  <1>10. r + 1 \in Nat /\ r + 1 < Width /\ r = cur.code.self + cur.code.fun.max
    BY <1>9, Sizes
  <1> HIDE DEF r
  <1>11. /\ cur' \in Contexts /\ cur'.base = cur.base /\ cur'.since = cur.since
         /\ cur'.under = cur.under /\ cur'.blocks = cur.blocks /\ cur'.low = cur.low
         /\ cur'.top = r + 1 /\ cur'.code.at = "entry" /\ cur'.code.by = cur.code.by
         /\ cur'.code.fun = cur.code.fun /\ cur'.code.self = cur.code.self
    BY <1>1, <1>5, <1>10 DEF Contexts, Place, Places
  <1>12. Beside(cur, cur') BY <1>11 DEF Beside
  <1>13. Laid(Depth, cur')
    BY <1>5, <1>6, <1>8, <1>10, <1>11 DEF Laid, Running
  <1>14. Local BY <1>1, <1>4, <1>11, <1>12, <1>13 DEF Local, Steady
  <1> QED BY <1>1, <1>3, <1>14, LocalStep

LEMMA LoadNameKeeps ==
  ASSUME DInv, LoadName
  PROVE  DInv'
PROOF
  <1> USE DEF DInv
  <1>1. /\ Executing /\ cur.code.at = "entry"
        /\ regs' = [regs EXCEPT ![Reg(cur.top)] = Datum(Reg(cur.top))]
        /\ cur' = [Place("body") EXCEPT !.top = cur.top + 1, !.low = cur.top + 1]
        /\ UNCHANGED <<frames, native, implicit, args, scopes, active, heap, status, missed>>
    BY DEF LoadName, At, Place
  <1>3. Written
    <2>1. PICK v : v = Datum(Reg(cur.top)) OBVIOUS
    <2>2. ValueOK(v)' BY <2>1 DEF ValueOK, IsInst, Datum
    <2> QED BY <1>1, <2>1, <2>2, Writes
  <1>4. HeapGrows /\ NoneEnds BY <1>1, HeapStays
  <1>5. cur \in Contexts /\ Laid(Depth, cur) BY LaidHere
  <1>6. Depth # 1 /\ Depth \in 2 .. MaxDepth + 1
    BY <1>1, <1>5, TheContexts, Sizes DEF Laid
  <1>7. Depth > 1 BY <1>6, Sizes
  <1>8. cur.code.fun \in Callables /\ cur.blocks = <<>>
        /\ cur.top <= cur.code.self + cur.code.fun.max + 1
    BY <1>1, <1>5, <1>7 DEF Laid
  <1>9. /\ cur.code.self \in 0 .. 1 /\ cur.code.fun.max \in Nat /\ cur.top \in Nat
        /\ cur.code.fun.max + 3 + MaxTemps[Depth] < Width /\ MaxTemps[Depth] \in Nat
        /\ Width \in Nat
    <2>1. cur.code.self \in 0 .. 1 /\ cur.top \in Nat BY <1>5, ContextFields
    <2>2. cur.code.fun.max \in Nat BY <1>8, CallableFields
    <2>3. MaxTemps[Depth] \in Nat /\ cur.code.fun.max + 3 + MaxTemps[Depth] < Width /\ Width \in Nat
      <3>1. Depth \in 1 .. MaxDepth + 1 BY TheContexts
      <3> QED BY <1>6, <1>8, <3>1, Sizes
    <2> QED BY <2>1, <2>2, <2>3
  <1>10. /\ cur.top + 1 \in Nat /\ cur.top + 1 < Width
         /\ cur.top + 1 <= cur.code.self + cur.code.fun.max + 2
         /\ cur.top + 1 <= cur.top + 1 + MaxTemps[Depth]
    <2> DEFINE m == cur.code.fun.max  t == cur.top  s == cur.code.self  x == MaxTemps[Depth]
    <2>1. t \in Nat /\ m \in Nat /\ s \in 0 .. 1 /\ x \in Nat /\ Width \in Nat
          /\ m + 3 + x < Width /\ t <= s + m + 1
      BY <1>8, <1>9
    <2> HIDE DEF m, t, s, x
    <2>2. t + 1 \in Nat /\ t + 1 < Width /\ t + 1 <= s + m + 2 /\ t + 1 <= t + 1 + x
      BY ONLY <2>1
    <2> QED BY <2>2 DEF m, t, s, x
  <1>11. /\ cur' \in Contexts /\ cur'.base = cur.base /\ cur'.since = cur.since
         /\ cur'.under = cur.under /\ cur'.blocks = cur.blocks /\ cur'.low = cur.top + 1
         /\ cur'.top = cur.top + 1 /\ cur'.code.at = "body" /\ cur'.code.by = cur.code.by
         /\ cur'.code.fun = cur.code.fun /\ cur'.code.self = cur.code.self
    BY <1>1, <1>5, <1>10 DEF Contexts, Place, Places
  <1>12. Beside(cur, cur') BY <1>11 DEF Beside
  <1>13. Laid(Depth, cur')
    BY <1>5, <1>6, <1>8, <1>10, <1>11 DEF Laid, Running
  <1>14. Local BY <1>1, <1>4, <1>11, <1>12, <1>13 DEF Local, Steady
  <1> QED BY <1>1, <1>3, <1>14, LocalStep
-----------------------------------------------------------------------------
(* The steps of code that put a C++ function on the stack.                 *)

LEMMA OneMore ==
  ASSUME Inv, NEW n, native' = Append(native, n)
  PROVE  /\ Len(native) \in Nat /\ Len(native') = Len(native) + 1
         /\ DOMAIN native = 1 .. Len(native) /\ DOMAIN native' = 1 .. Len(native) + 1
         /\ \A i \in 1 .. Len(native) : native'[i] = native[i]
         /\ native'[Len(native) + 1] = n /\ native' # <<>>
PROOF
  <1>1. PICK S : native \in Seq(S) BY DEF Inv, NativeOK
  <1>2. Append(native, n) \in Seq(S \cup {n}) BY <1>1
  <1> QED BY <1>1, <1>2

LEMMA OneLess ==
  ASSUME Inv, native # <<>>, native' = Front(native)
  PROVE  /\ Len(native) \in Nat /\ Len(native) >= 1 /\ Len(native') = Len(native) - 1
         /\ DOMAIN native = 1 .. Len(native) /\ DOMAIN native' = 1 .. Len(native) - 1
         /\ \A i \in 1 .. Len(native) - 1 : native'[i] = native[i]
         /\ native' = <<>> <=> Len(native) = 1
         /\ Last(native) = native[Len(native)]
PROOF
  <1>1. PICK S : native \in Seq(S) BY DEF Inv, NativeOK
  <1>2. Front(native) \in Seq(S) /\ Len(Front(native)) = Len(native) - 1
    BY <1>1, FrontIsSeq
  <1>3. \A i \in 1 .. Len(native) - 1 : Front(native)[i] = native[i]
    BY Popped DEF Inv
  <1> QED BY <1>1, <1>2, <1>3 DEF Last

(* What is under way elsewhere is not disturbed by the running activation. *)
LEMMA Undisturbed ==
  ASSUME DInv, Executing, frames' = frames, cur'.base = cur.base,
         HeapGrows, NoneEnds, active' = active, status' = status
  PROVE  /\ \A i \in DOMAIN native : \E m : m = native[i] /\ NativeEntry(m)'
         /\ \A i \in DOMAIN native : Dropper(native[i]) =>
              Ctx'[native[i].depth + 1].base = Ctx[native[i].depth + 1].base
PROOF
  <1> USE DEF DInv
  <1>1. /\ Depth' = Depth /\ Ctx'[Depth] = cur'
        /\ \A k \in 1 .. Len(frames) : Ctx'[k] = Ctx[k]
    BY Stayed
  <1>2. Depth = Len(frames) + 1 /\ Len(frames) \in Nat /\ Ctx[Depth] = cur BY TheContexts
  <1>3. ASSUME NEW i \in DOMAIN native PROVE \E m : m = native[i] /\ NativeEntry(m)'
    <2>1. NativeEntry(native[i]) BY DEF Entries
    <2>2. native[i].op # "call" => native[i].depth \in 1 .. Len(frames) BY CodeAlone
    <2>3. PICK n : n = native[i] OBVIOUS
    <2>4. n.op # "call" => Ctx'[n.depth] = Ctx[n.depth] /\ n.depth \in 1 .. Depth'
      BY <1>1, <1>2, <2>2, <2>3
    <2>5. NativeEntry(n) BY <2>1, <2>3
    <2>6. n.op = "make" => ~insts'[n.id].made /\ ~insts'[n.id].literal /\ MakesIn(n, Ctx[n.depth])
      BY <2>5, EntryOps DEF MakeOK, NoneEnds
    <2>7. n.op = "drop" => n.busy \in 0 .. Len(active) /\ DropsIn(n, Ctx[n.depth])
      BY <2>5, EntryOps DEF DropOK
    <2>8. NativeEntry(n)'
      BY <2>4, <2>5, <2>6, <2>7, EntryKept
    <2> QED BY <2>3, <2>8
  <1>4. ASSUME NEW i \in DOMAIN native, Dropper(native[i])
        PROVE  Ctx'[native[i].depth + 1].base = Ctx[native[i].depth + 1].base
    <2>1. native[i].depth \in 1 .. Len(frames)
      BY <1>4, CodeAlone DEF Dropper
    <2>2. CASE native[i].depth + 1 = Depth
      BY <1>1, <1>2, <2>2
    <2>3. CASE native[i].depth + 1 \in 1 .. Len(frames)
      BY <1>1, <2>3
    <2> QED BY <1>2, <2>1, <2>2, <2>3
  <1> QED BY <1>3, <1>4

LEMMA PushKeeps ==
  ASSUME DInv, Executing, Steady, Laid(Depth, cur'), HeapGrows, NoneEnds, Written, Inv',
         NEW n, native' = Append(native, n), NativeEntry(n)', n.op # "call",
         n.depth = Depth, ~Dropper(n),
         n.op = "make" => \A i \in DOMAIN native : native[i].op = "make" => native[i].id # n.id,
         args' \in 0 .. Width, scopes' = scopes, active' = active, status' = status, missed' = missed
  PROVE  DInv'
PROOF
  <1> USE DEF DInv
  <1>1. /\ Depth' = Depth /\ Len(frames') = Len(frames) /\ frames' = frames
    BY SteadyContexts DEF Steady
  <1>2. Depth = Len(frames) + 1 /\ Len(frames) \in Nat BY TheContexts
  <1>3. /\ Len(native) \in Nat /\ Len(native') = Len(native) + 1
        /\ DOMAIN native = 1 .. Len(native) /\ DOMAIN native' = 1 .. Len(native) + 1
        /\ \A i \in 1 .. Len(native) : native'[i] = native[i]
        /\ native'[Len(native) + 1] = n /\ native' # <<>>
    BY OneMore
  <1>4. status \notin {"over", "aborted"} BY CodeAlone
  <1>5. Windows' /\ Waiting' BY <1>4, SteadyWindows
  <1>6. Typed'
    <2>1. /\ DOMAIN regs' = 0 .. NumRegs - 1
          /\ \A r \in DOMAIN regs' : \E v : regs'[r] = v /\ ValueOK(v)'
      BY RegsKept DEF Written, Typed
    <2> QED BY <2>1, TypedAgain DEF Steady, HeapGrows, Typed
  <1>7. /\ \A i \in DOMAIN native : \E m : m = native[i] /\ NativeEntry(m)'
        /\ \A i \in DOMAIN native : Dropper(native[i]) =>
             Ctx'[native[i].depth + 1].base = Ctx[native[i].depth + 1].base
    BY Undisturbed DEF Steady, Beside
  <1>8. Entries'
    <2>1. \A i \in DOMAIN native' : \E m : m = native'[i] /\ NativeEntry(m)'
      BY <1>3, <1>7
    <2> QED BY <2>1 DEF Entries
  <1>9. native = <<>> \/ native[Len(native)].op = "call" BY OnCall
  <1>10. \A i \in 1 .. Len(native) : Binds(native[i]) =>
           /\ native[Len(native)].depth = Depth /\ native[i].depth <= Depth
    <2> TAKE i \in 1 .. Len(native)
    <2> HAVE Binds(native[i])
    <2>1. native # <<>> /\ native[Len(native)].depth = Depth /\ Binds(native[Len(native)])
      BY <1>3, CodeAlone
    <2>2. CASE i = Len(native)
      BY <1>2, <2>1, <2>2
    <2>3. CASE i < Len(native)
      <3>1. i \in DOMAIN native /\ Len(native) \in DOMAIN native BY <1>3, <2>3
      <3>2. \A a, b \in DOMAIN native : a < b /\ Binds(native[a]) => native[a].depth <= native[b].depth
        BY DEF Links
      <3>3. native[i].depth <= native[Len(native)].depth BY <2>3, <3>1, <3>2
      <3> QED BY <2>1, <3>3
    <2>4. i \in 1 .. Len(native) /\ Len(native) \in Nat BY <1>3
    <2>5. i = Len(native) \/ i < Len(native) BY ONLY <2>4
    <2> QED BY <2>2, <2>3, <2>5
  <1>11. Binds(n) BY DEF Binds
  <1>12. Links'
    <2>1. \A i \in 1 .. Len(native') - 1 : Linked(native'[i], native'[i + 1])
      <3> TAKE i \in 1 .. Len(native') - 1
      <3>1. CASE i = Len(native)
        <4>1. native[i].op = "call" BY <1>3, <1>9, <3>1
        <4>2. native'[i] = native[i] /\ native'[i + 1] = n BY <1>3, <3>1
        <4>3. Binds(native[i]) => native[i].depth = Depth BY <1>3, <1>10, <3>1
        <4>4. Depth + 0 = Depth BY <1>2
        <4> QED BY <1>11, <4>1, <4>2, <4>3, <4>4 DEF Linked
      <3>2. CASE i \in 1 .. Len(native) - 1
        <4>1. i \in 1 .. Len(native) /\ i + 1 \in 1 .. Len(native) BY <1>3, <3>2
        <4>2. native'[i] = native[i] /\ native'[i + 1] = native[i + 1] BY <1>3, <4>1
        <4>3. Linked(native[i], native[i + 1]) BY <3>2 DEF Links
        <4> QED BY <4>2, <4>3
      <3>3. i \in 1 .. Len(native) + 1 - 1 /\ Len(native) \in Nat BY <1>3
      <3>4. i = Len(native) \/ i \in 1 .. Len(native) - 1 BY ONLY <3>3
      <3> QED BY <3>1, <3>2, <3>4
    <2>2. \A i, j \in DOMAIN native' : i < j /\ Binds(native'[i]) =>
            /\ Binds(native'[j])
            /\ native'[i].depth <= native'[j].depth
            /\ native'[j].op = "call" => native'[i].depth < native'[j].depth
      <3> TAKE i, j \in DOMAIN native'
      <3> HAVE i < j /\ Binds(native'[i])
      <3>1. i \in 1 .. Len(native) /\ native'[i] = native[i] BY <1>3
      <3>2. CASE j = Len(native) + 1
        BY <1>3, <1>10, <1>11, <3>1, <3>2
      <3>3. CASE j \in 1 .. Len(native)
        <4>1. native'[j] = native[j] BY <1>3, <3>3
        <4> QED BY <1>3, <3>1, <3>3, <4>1 DEF Links
      <3> QED BY <1>3, <3>2, <3>3
    <2>3. native'[Len(native')].depth = Depth' BY <1>1, <1>3
    <2> QED BY <2>1, <2>2, <2>3 DEF Links
  <1>13. Ends'
    <2>1. status # "running" => native # <<>> BY DEF Executing
    <2>2. status # "running" => native'[1] = native[1]
      BY <1>3, <2>1, TheNative
    <2> QED BY <1>3, <1>4, <2>1, <2>2 DEF Ends
  <1>14. Busy'
    <2>1. \A i \in 1 .. Len(native') - 1 : Dropper(native'[i]) =>
            DropsBelow(active', native'[i].busy, Ctx'[native'[i].depth + 1].base)
      <3> TAKE i \in 1 .. Len(native') - 1
      <3> HAVE Dropper(native'[i])
      <3>0. i \in 1 .. Len(native)
        <4>1. i \in 1 .. Len(native) + 1 - 1 /\ Len(native) \in Nat BY <1>3
        <4> QED BY ONLY <4>1
      <3>1. native'[i] = native[i] BY <1>3, <3>0
      <3>2. i # Len(native)
        <4>1. Len(native) # 0 BY <1>3, <3>0
        <4>2. native # <<>> BY <4>1, TheNative
        <4>3. native[i].op = "drop" BY <3>1 DEF Dropper
        <4> QED BY <1>9, <4>2, <4>3
      <3>3. i \in 1 .. Len(native) - 1
        <4>1. Len(native) \in Nat BY <1>3
        <4> QED BY ONLY <4>1, <3>0, <3>2
      <3>4. DropsBelow(active, native[i].busy, Ctx[native[i].depth + 1].base)
        BY <3>1, <3>3 DEF Busy
      <3> QED BY <1>3, <1>7, <3>1, <3>4
    <2>2. ~Dropper(native'[Len(native')]) BY <1>3
    <2>3. \A i, j \in DOMAIN native' : i < j /\ Dropper(native'[i]) /\ Dropper(native'[j]) =>
            native'[i].busy < native'[j].busy
      <3> TAKE i, j \in DOMAIN native'
      <3> HAVE i < j /\ Dropper(native'[i]) /\ Dropper(native'[j])
      <3>1. i \in 1 .. Len(native) /\ j \in 1 .. Len(native) BY <1>3
      <3> QED BY <1>3, <3>1 DEF Busy
    <2> QED BY <2>1, <2>2, <2>3 DEF Busy
  <1>15. Listing' /\ Unique' /\ Counted'
    <2>1. \A j \in DOMAIN active : active[j].id \in DOMAIN insts BY DEF Listing, Listed
    <2>2. Listing' BY <2>1 DEF Listing, Listed, HeapGrows, NoneEnds
    <2>3. \A i, j \in DOMAIN native' :
            i # j /\ native'[i].op = "make" /\ native'[j].op = "make" => native'[i].id # native'[j].id
      BY <1>3 DEF Unique
    <2>4. Unique' BY <2>3 DEF Unique, HeapGrows, NoneEnds
    <2>5. \A b : BeingDropped(native', b) <=> BeingDropped(native, b)
      BY <1>3 DEF BeingDropped
    <2>6. Counted'
      <3> SUFFICES ASSUME ~missed
                   PROVE  /\ \A i, j \in DOMAIN active : active[i].id = active[j].id => i = j
                          /\ \A j \in DOMAIN active :
                               insts'[active[j].id].drops = IF BeingDropped(native', j) THEN 1 ELSE 0
                          /\ \A i \in DOMAIN insts' :
                               /\ insts'[i].drops <= 1
                               /\ ~insts'[i].made => insts'[i].drops = 0
                               /\ insts'[i].made /\ insts'[i].of.drop /\ insts'[i].drops = 0 =>
                                    \E j \in DOMAIN active : active[j].id = i
        BY DEF Counted
      <3>1. \A j \in DOMAIN active :
              insts'[active[j].id].drops = IF BeingDropped(native', j) THEN 1 ELSE 0
        BY <2>1, <2>5 DEF Counted, NoneEnds
      <3>2. ASSUME NEW i \in DOMAIN insts'
            PROVE  /\ insts'[i].drops <= 1
                   /\ ~insts'[i].made => insts'[i].drops = 0
                   /\ insts'[i].made /\ insts'[i].of.drop /\ insts'[i].drops = 0 =>
                        \E j \in DOMAIN active : active[j].id = i
        BY DEF Counted, NoneEnds
      <3> QED BY <3>1, <3>2 DEF Counted
    <2> QED BY <2>2, <2>4, <2>6
  <1>16. Fenced' /\ Near' BY SteadyFences
  <1>17. Scoped' BY SteadyScopes
  <1> QED BY <1>5, <1>6, <1>8, <1>12, <1>13, <1>14, <1>15, <1>16, <1>17

LEMMA EndLiteralKeeps ==
  ASSUME DInv, NEW p, NEW given \in BOOLEAN, EndLiteral(p, given)
  PROVE  DInv'
PROOF
  <1> DEFINE object == regs[Reg(p)]
             i == object.id
             n == Make(i, p + 1)
  <1>1. /\ At({"script", "default", "body"}) /\ Executing /\ cur.code.at \in Running
        /\ p \in OpenLiterals /\ p < cur.top
        /\ insts' = [insts EXCEPT ![i].literal = FALSE, ![i].field = given] /\ bound' = bound
        /\ native' = Append(native, n)
        /\ cur' = [cur EXCEPT !.top = p]
        /\ UNCHANGED <<regs, frames, implicit, args, scopes, active, status, missed>>
    BY DEF EndLiteral, At, Running, OpenLiterals
  <1>2. p \in BlockLowest .. cur.top - 1 /\ IsInst(object) /\ insts[i].literal
    BY <1>1 DEF OpenLiterals
  <1>3. Typed /\ Windows /\ Entries /\ Unique /\ Inv BY DEF DInv
  <1>4. Reg(p) \in DOMAIN regs /\ p \in Nat /\ cur.low <= p
        /\ \A b \in DOMAIN cur.blocks : cur.blocks[b].at <= p
    BY <1>1, <1>2, AboveBlocks
  <1>5. i \in DOMAIN insts
    BY <1>2, <1>3, <1>4 DEF Typed, ValueOK
  <1>6. cur' \in Contexts /\ Beside(cur, cur') /\ Laid(Depth, cur') /\ cur'.top = p
    BY <1>1, <1>2, LoweredTo
  <1>7. /\ cur'.code = cur.code /\ cur'.low = cur.low /\ cur'.blocks = cur.blocks
    <2>1. Alike(cur, cur') BY <1>1, <1>2, LoweredTo
    <2> QED BY <2>1 DEF Alike
  <1>8. insts \in Seq(Instances) /\ bound \in [Types -> 0 .. Len(insts)] BY <1>3 DEF Typed
  <1>9. \A j \in DOMAIN insts : insts[j] \in Instances BY <1>8
  <1> HIDE DEF i, object
  <1>10. /\ insts' \in Seq(Instances) /\ Len(insts') = Len(insts) /\ DOMAIN insts' = DOMAIN insts
         /\ \A j \in DOMAIN insts :
              /\ insts'[j].of = insts[j].of /\ insts'[j].made = insts[j].made
              /\ insts'[j].drops = insts[j].drops
              /\ j # i => insts'[j] = insts[j]
         /\ ~insts'[i].literal
    <2> DEFINE e == [insts[i] EXCEPT !.literal = FALSE, !.field = given]
    <2>1. insts' = [insts EXCEPT ![i] = e] BY <1>1, <1>5
    <2>2. e \in Instances /\ ~e.literal /\ e.of = insts[i].of /\ e.made = insts[i].made
          /\ e.drops = insts[i].drops
      BY <1>5, <1>9 DEF Instances
    <2> HIDE DEF e
    <2> QED BY <1>5, <1>8, <2>1, <2>2
  <1>11. HeapGrows /\ NoneEnds
    <2>1. \A j \in DOMAIN insts : insts'[j].literal => insts[j].literal
      BY <1>2, <1>10
    <2> QED BY <1>1, <1>8, <1>10, <2>1 DEF HeapGrows, NoneEnds
  <1>12. ~insts[i].made BY <1>2, <1>3, <1>5 DEF Unique
  <1>13. Depth = Len(frames) + 1 /\ Depth \in 1 .. MaxDepth + 1 /\ Len(frames) \in Nat
         /\ Depth' = Depth /\ Ctx'[Depth] = cur'
    BY <1>1, <1>3, TheContexts, Stayed
  <1>14. n = [op |-> "make", id |-> i, start |-> p + 1, asked |-> FALSE, depth |-> Depth]
    BY <1>13 DEF Make
  <1> HIDE DEF n
  <1>15. PICK m : m = n OBVIOUS
  <1>16. m.op = "make" /\ m.id = i /\ m.start = p + 1 /\ m.asked = FALSE /\ m.depth = Depth
    BY <1>14, <1>15
  <1>17. /\ p + 1 \in 1 .. Width - 1 /\ cur.low < p + 1 /\ p + 1 <= cur.low + MaxTemps[Depth]
         /\ \A b \in DOMAIN cur.blocks : cur.blocks[b].at < p + 1
    <2>1. /\ cur.top \in Nat /\ cur.low \in Nat /\ cur.top < Width /\ Width \in Nat
          /\ cur.top <= cur.low + MaxTemps[Depth] /\ MaxTemps[Depth] \in Nat
          /\ \A b \in DOMAIN cur.blocks : cur.blocks[b].at \in Nat
      BY <1>1, <1>3, <1>13, TopFacts, Sizes
    <2>2. /\ p + 1 \in 1 .. Width - 1 /\ cur.low < p + 1 /\ p + 1 <= cur.low + MaxTemps[Depth]
      BY <2>1, <1>1, <1>4
    <2>3. \A b \in DOMAIN cur.blocks : cur.blocks[b].at < p + 1
      BY <2>1, <1>4
    <2> QED BY <2>2, <2>3
  <1>18. MakesIn(m, cur')
    BY <1>1, <1>7, <1>16, <1>17 DEF MakesIn
  <1>19. NativeEntry(m)'
    <2>1. m.id \in DOMAIN insts' /\ ~insts'[m.id].made /\ ~insts'[m.id].literal
      BY <1>5, <1>10, <1>12, <1>16
    <2>2. MakesIn(m, Ctx'[m.depth]) /\ m.depth \in 1 .. Depth'
      BY <1>13, <1>16, <1>18
    <2>3. m.op = "make" /\ m.asked \in BOOLEAN /\ m.start \in 1 .. Width - 1
      BY <1>16, <1>17
    <2>4. MakeOK(m)' BY ONLY <2>1, <2>2, <2>3 DEF MakeOK
    <2> QED BY <2>4 DEF NativeEntry
  <1>20. ASSUME NEW j \in DOMAIN native, native[j].op = "make" PROVE native[j].id # m.id
    <2>1. NativeEntry(native[j]) BY <1>3 DEF Entries
    <2>2. MakeOK(native[j]) BY <1>20, <2>1, EntryOps
    <2> QED BY <1>2, <1>16, <2>2 DEF MakeOK
  <1>21. Inv' BY <1>3, CodeSteps
  <1>22. Written BY <1>1, Unwritten
  <1>23. Steady /\ ~Dropper(m) BY <1>1, <1>6, <1>16 DEF Steady, Dropper
  <1>24. native' = Append(native, m) BY <1>1, <1>15
  <1>25. /\ args' \in 0 .. Width /\ scopes' = scopes /\ active' = active
         /\ status' = status /\ missed' = missed
    BY <1>1, <1>3 DEF Typed
  <1> HIDE DEF DInv
  <1> QED BY <1>1, <1>6, <1>11, <1>16, <1>19, <1>20, <1>21, <1>22, <1>23, <1>24, <1>25, PushKeeps

LEMMA LeaveScopeKeeps ==
  ASSUME DInv, NEW then \in {"exit", "iterate"}, LeaveScope(then)
  PROVE  DInv'
PROOF
  <1> DEFINE n == DropTo(Last(scopes), then)
             b == Len(cur.blocks)
  <1>1. /\ At({"script", "body"}) /\ Executing /\ cur.code.at \in {"script", "body"}
        /\ cur.blocks # <<>>
        /\ native' = Append(native, n)
        /\ cur' = [cur EXCEPT !.top = Last(cur.blocks).at]
        /\ UNCHANGED <<regs, frames, implicit, args, scopes, active, heap, status, missed>>
    BY DEF LeaveScope, At
  <1>2. Typed /\ Windows /\ Scoped /\ Inv BY DEF DInv
  <1>3. cur \in Contexts /\ Laid(Depth, cur) BY <1>2, LaidHere
  <1>4. /\ b \in Nat /\ b >= 1 /\ DOMAIN cur.blocks = 1 .. b /\ Last(cur.blocks) = cur.blocks[b]
        /\ cur.base \in Nat /\ cur.under \in Nat
        /\ \A c \in 1 .. b : cur.blocks[c].at \in Nat
    BY <1>1, <1>3, ContextFields DEF Last
  <1> HIDE DEF b
  <1> DEFINE t == cur.blocks[b].at
  <1>5. cur.code.at \in Running BY <1>1 DEF Running
  <1>6. /\ cur.low <= t /\ t <= cur.top
        /\ \A c \in 1 .. b : cur.blocks[c].at <= t
    <2>1. \A c \in 1 .. b : /\ cur.low <= cur.blocks[c].at /\ cur.blocks[c].at <= cur.top
                           /\ \A j \in c .. b : cur.blocks[c].at <= cur.blocks[j].at
      BY <1>3, <1>4 DEF Laid, b
    <2>2. b \in 1 .. b /\ \A c \in 1 .. b : b \in c .. b BY <1>4
    <2> QED BY <2>1, <2>2
  <1>7. /\ Depth = Len(frames) + 1 /\ Depth \in 1 .. MaxDepth + 1 /\ Len(frames) \in Nat
        /\ Ctx[Depth] = cur /\ Depth' = Depth /\ Ctx'[Depth] = cur'
    BY <1>1, <1>2, TheContexts, Stayed
  <1>8. t \in Nat /\ t <= cur.low + MaxTemps[Depth]
    <2>1. cur.top <= cur.low + MaxTemps[Depth] /\ cur.top \in Nat /\ cur.low \in Nat
      BY <1>2, <1>5, TopFacts
    <2>2. MaxTemps[Depth] \in Nat /\ t \in Nat BY <1>4, <1>7, Sizes
    <2> HIDE DEF t
    <2> QED BY <1>6, <2>1, <2>2
  <1>9. /\ cur' \in Contexts /\ Beside(cur, cur') /\ Alike(cur, cur') /\ Laid(Depth, cur')
    <2>1. \A c \in DOMAIN cur.blocks : cur.blocks[c].at <= t BY <1>4, <1>6
    <2>2. cur' = [cur EXCEPT !.top = t] BY <1>1, <1>4
    <2>3. cur.low <= t BY <1>6
    <2> HIDE DEF t
    <2> QED BY <1>3, <1>5, <1>7, <1>8, <2>1, <2>2, <2>3, TopMoved
  <1>10. StartsIn(scopes, cur, Len(scopes))
    <2>1. Depth \in 1 .. Depth /\ Ceiling(Depth) = Len(scopes) BY <1>7 DEF Ceiling
    <2>2. StartsIn(scopes, Ctx[Depth], Ceiling(Depth)) BY <1>2, <2>1 DEF Scoped
    <2> QED BY <1>7, <2>1, <2>2
  <1>11. scopes \in Seq(0 .. NumRegs - 1) /\ Len(scopes) \in Nat BY <1>2 DEF Typed
  <1>12. /\ Len(scopes) >= 1
         /\ \A c \in 1 .. b : scopes[Len(scopes)] >= cur.base + cur.blocks[c].at
    <2> DEFINE o == Len(scopes)
    <2>1. /\ cur.under + b <= o
          /\ \A c \in 1 .. b : \A q \in o - (b - c) .. o : scopes[q] >= cur.base + cur.blocks[c].at
      BY <1>10 DEF StartsIn, b
    <2>2. o \in Nat /\ b \in Nat /\ b >= 1 /\ cur.under \in Nat BY <1>4, <1>11
    <2> HIDE DEF o
    <2>3. o >= 1 /\ \A c \in 1 .. b : o \in o - (b - c) .. o
      BY ONLY <2>1, <2>2
    <2> QED BY <2>1, <2>3 DEF o
  <1>13. Last(scopes) = scopes[Len(scopes)] /\ Last(scopes) \in Nat
    <2>1. NumRegs \in Nat BY Sizes
    <2> QED BY <1>11, <1>12, <2>1 DEF Last
  <1>14. n = [op |-> "drop", limit |-> Last(scopes), then |-> then, busy |-> 0, depth |-> Depth]
    BY <1>7 DEF DropTo
  <1> HIDE DEF n
  <1>15. PICK m : m = n OBVIOUS
  <1>16. m.op = "drop" /\ m.limit = Last(scopes) /\ m.then = then /\ m.busy = 0 /\ m.depth = Depth
    BY <1>14, <1>15
  <1>17. DropsIn(m, cur')
    <2>1. cur'.code = cur.code /\ cur'.base = cur.base /\ cur'.blocks = cur.blocks
      BY <1>9 DEF Alike
    <2>2. \A c \in DOMAIN cur.blocks : m.limit >= cur.base + cur.blocks[c].at
      BY <1>4, <1>12, <1>13, <1>16
    <2> QED BY <1>1, <1>16, <2>1, <2>2 DEF DropsIn
  <1>18. NativeEntry(m)'
    <2>1. Len(active') \in Nat BY <1>1, <1>2 DEF Typed
    <2> QED BY <1>7, <1>13, <1>16, <1>17, <2>1 DEF NativeEntry, DropOK
  <1>19. Inv' BY <1>2, CodeSteps DEF ExitScope, UpdateIter
  <1>20. Written BY <1>1, Unwritten
  <1>21. Steady /\ ~Dropper(m) BY <1>1, <1>9, <1>16 DEF Steady, Dropper
  <1>22. native' = Append(native, m) BY <1>1, <1>15
  <1>23. /\ args' \in 0 .. Width /\ scopes' = scopes /\ active' = active
         /\ status' = status /\ missed' = missed
    BY <1>1, <1>2 DEF Typed
  <1>24. HeapGrows /\ NoneEnds BY <1>1, <1>2, HeapStays
  <1> QED BY <1>1, <1>9, <1>16, <1>18, <1>19, <1>20, <1>21, <1>22, <1>23, <1>24, PushKeeps

LEMMA ReturnKeeps ==
  ASSUME DInv, NEW v \in Returnable, Return(v)
  PROVE  DInv'
PROOF
  <1> DEFINE n == DropTo(cur.base, "return")
  <1>1. /\ At({"body"}) /\ Executing /\ cur.code.at = "body"
        /\ regs' = [regs EXCEPT ![cur.base - 1] = v]
        /\ native' = Append(native, n)
        /\ cur' = [Place("leaving") EXCEPT !.top = 0, !.low = 0, !.blocks = <<>>]
        /\ UNCHANGED <<frames, implicit, args, scopes, active, heap, status, missed>>
    BY DEF Return, At
  <1>2. Typed /\ Windows /\ Inv BY DEF DInv
  <1>3. cur \in Contexts /\ Laid(Depth, cur) BY <1>2, LaidHere
  <1>4. /\ Depth = Len(frames) + 1 /\ Depth \in 1 .. MaxDepth + 1 /\ Len(frames) \in Nat
        /\ Depth' = Depth /\ Ctx'[Depth] = cur'
    BY <1>1, <1>2, TheContexts, Stayed
  <1>5. /\ cur' \in Contexts /\ cur'.base = cur.base /\ cur'.since = cur.since
        /\ cur'.under = cur.under /\ cur'.blocks = <<>> /\ cur'.low = 0
        /\ cur'.top = 0 /\ cur'.code.at = "leaving" /\ cur'.code.by = cur.code.by
        /\ cur'.code.fun = cur.code.fun
    <2>1. 0 \in Nat /\ <<>> \in Seq([at : Nat, since : Nat]) OBVIOUS
    <2> QED BY <1>1, <1>3, <2>1 DEF Contexts, Place, Places
  <1>6. Beside(cur, cur') BY <1>5 DEF Beside
  <1>7. Laid(Depth, cur')
    <2>1. Width > 0 /\ DOMAIN cur'.blocks = {} BY <1>5, Sizes
    <2>2. Depth # 1 BY <1>1, <1>3 DEF Laid
    <2>3. cur.code.fun \in Callables
      BY <1>3, <1>4, <2>2 DEF Laid
    <2> QED BY <1>5, <2>1, <2>2, <2>3 DEF Laid, Running
  <1>8. ValueOK(v)
    <2>1. CASE v = Void BY <2>1, PlainValues
    <2>2. CASE cur.top > cur.low /\ v = Latest
      <3>1. /\ cur.top \in Nat /\ cur.low \in Nat /\ cur.top < Width
        BY <1>2, TopFacts
      <3>2. cur.top - 1 \in Nat /\ cur.top - 1 < Width BY <2>2, <3>1, Sizes
      <3>3. status \notin {"over", "aborted"} BY <1>1, CodeAlone DEF DInv
      <3>4. Reg(cur.top - 1) \in DOMAIN regs BY <1>2, <3>2, <3>3, InThisWindow DEF Typed
      <3> QED BY <1>2, <2>2, <3>4 DEF Typed, Latest
    <2> QED BY <2>1, <2>2 DEF Returnable
  <1>9. HeapGrows /\ NoneEnds BY <1>1, <1>2, HeapStays
  <1>10. Written
    <2>1. ValueOK(v)' BY <1>8, <1>9, ValueKept
    <2> QED BY <1>1, <2>1, Writes
  <1>11. n = [op |-> "drop", limit |-> cur.base, then |-> "return", busy |-> 0, depth |-> Depth]
    BY <1>4 DEF DropTo
  <1> HIDE DEF n
  <1>12. PICK m : m = n OBVIOUS
  <1>13. m.op = "drop" /\ m.limit = cur.base /\ m.then = "return" /\ m.busy = 0 /\ m.depth = Depth
    BY <1>11, <1>12
  <1>14. DropsIn(m, cur') BY <1>5, <1>13 DEF DropsIn
  <1>15. NativeEntry(m)'
    <2>1. Len(active') \in Nat /\ cur.base \in Nat BY <1>1, <1>2, <1>3, ContextFields DEF Typed
    <2> QED BY <1>4, <1>13, <1>14, <2>1 DEF NativeEntry, DropOK
  <1>16. Inv' BY <1>2, CodeSteps
  <1>17. Steady /\ ~Dropper(m) BY <1>1, <1>5, <1>6, <1>13 DEF Steady, Dropper
  <1>18. native' = Append(native, m) BY <1>1, <1>12
  <1>19. /\ args' \in 0 .. Width /\ scopes' = scopes /\ active' = active
         /\ status' = status /\ missed' = missed
    BY <1>1, <1>2 DEF Typed
  <1> QED BY <1>1, <1>7, <1>9, <1>10, <1>13, <1>15, <1>16, <1>17, <1>18, <1>19, PushKeeps
-----------------------------------------------------------------------------
(* Blocks, and the end of default values.                                  *)

(* The windows do not depend on the blocks that the running activation     *)
(* enters or leaves.                                                       *)
LEMMA SameWindow ==
  ASSUME Typed, Windows, Waiting, frames' = frames, cur' \in Contexts,
         cur'.base = cur.base, cur'.code.by = cur.code.by, Laid(Depth, cur'),
         status' = status, status \notin {"over", "aborted"},
         status # "running" /\ Depth = 1 => cur'.blocks = <<>>
  PROVE  Windows' /\ Waiting'
PROOF
  <1>1. /\ Depth' = Depth /\ Ctx'[Depth] = cur'
        /\ \A k \in 1 .. Len(frames) : Ctx'[k] = Ctx[k]
    BY Stayed
  <1>2. Depth = Len(frames) + 1 /\ Len(frames) \in Nat /\ Ctx[Depth] = cur BY TheContexts
  <1>3. \A k \in 1 .. Depth : Ctx'[k].base = Ctx[k].base /\ Ctx'[k].code.by = Ctx[k].code.by
    <2> TAKE k \in 1 .. Depth
    <2>1. CASE k = Depth BY <1>1, <1>2, <2>1
    <2>2. CASE k \in 1 .. Len(frames) BY <1>1, <2>2
    <2> QED BY <1>2, <2>1, <2>2
  <1>4. \A k \in 1 .. Depth : Laid(k, Ctx'[k])
    <2>1. \A k \in 1 .. Len(frames) : Laid(k, Ctx'[k])
      BY <1>1, <1>2 DEF Windows
    <2> QED BY <1>1, <1>2, <2>1
  <1>5. \A k \in 1 .. Depth : Ctx'[k].base <= Ctx'[1].base + (k - 1) * Width
    BY <1>2, <1>3 DEF Windows
  <1>6. \A k \in 2 .. Depth : Ctx'[k].base >= 1
    BY <1>2, <1>3 DEF Windows
  <1>7. \A k, l \in 1 .. Depth : k < l =>
          /\ Ctx'[k].base <= Ctx'[l].base
          /\ \A b \in DOMAIN Ctx'[k].blocks : Ctx'[k].base + Ctx'[k].blocks[b].at <= Ctx'[l].base
    <2> SUFFICES ASSUME NEW k \in 1 .. Depth, NEW l \in 1 .. Depth, k < l
                 PROVE  /\ Ctx'[k].base <= Ctx'[l].base
                        /\ \A b \in DOMAIN Ctx'[k].blocks :
                             Ctx'[k].base + Ctx'[k].blocks[b].at <= Ctx'[l].base
      OBVIOUS
    <2>1. Ctx'[k] = Ctx[k] BY <1>1, <1>2
    <2>2. Ctx'[l].base = Ctx[l].base BY <1>3
    <2> QED BY <2>1, <2>2 DEF Windows
  <1>8. 1 \in 1 .. Depth BY <1>2
  <1>9. /\ status = "running" => Ctx'[1].base = 0
        /\ status \in {"clearing", "destroying"} => Ctx'[1].base <= MaxDepth * Width
    BY <1>3, <1>8 DEF Windows
  <1>10. status # "running" => Ctx'[1].blocks = <<>>
    <2>1. CASE Depth = 1 BY <1>1, <2>1
    <2>2. CASE Depth # 1
      <3>1. 1 \in 1 .. Len(frames) BY <1>2, <2>2
      <3> QED BY <1>1, <3>1 DEF Windows
    <2> QED BY <2>1, <2>2
  <1>11. Windows'
    BY <1>1, <1>4, <1>5, <1>6, <1>7, <1>9, <1>10 DEF Windows
  <1>12. \A k \in 1 .. Len(frames) : Waits(k, Ctx'[k], Ctx'[k + 1])
    <2> TAKE k \in 1 .. Len(frames)
    <2>1. Ctx'[k] = Ctx[k] /\ Waits(k, Ctx[k], Ctx[k + 1]) BY <1>1 DEF Waiting
    <2>2. Ctx'[k + 1].base = Ctx[k + 1].base /\ Ctx'[k + 1].code.by = Ctx[k + 1].code.by
      BY <1>2, <1>3
    <2> QED BY <2>1, <2>2 DEF Waits
  <1> QED BY <1>11, <1>12 DEF Waiting

(* Neither do the fences, but for those of the blocks.                     *)
LEMMA SameFences ==
  ASSUME Typed, Fenced, Near, frames' = frames, cur'.base = cur.base, cur'.since = cur.since,
         FencedIn(active, cur'), active' = active
  PROVE  Fenced' /\ Near'
PROOF
  <1>1. /\ Depth' = Depth /\ Ctx'[Depth] = cur'
        /\ \A k \in 1 .. Len(frames) : Ctx'[k] = Ctx[k]
    BY Stayed
  <1>2. Depth = Len(frames) + 1 /\ Len(frames) \in Nat /\ Ctx[Depth] = cur BY TheContexts
  <1>3. \A k \in 1 .. Depth : Ctx'[k].base = Ctx[k].base /\ Ctx'[k].since = Ctx[k].since
    <2> TAKE k \in 1 .. Depth
    <2>1. CASE k = Depth BY <1>1, <1>2, <2>1
    <2>2. CASE k \in 1 .. Len(frames) BY <1>1, <2>2
    <2> QED BY <1>2, <2>1, <2>2
  <1>4. \A k \in 2 .. Depth : Fence(active', Ctx'[k].base, Ctx'[k].since)
    BY <1>2, <1>3 DEF Fenced
  <1>5. \A k \in 1 .. Depth : FencedIn(active', Ctx'[k])
    <2> TAKE k \in 1 .. Depth
    <2>1. CASE k = Depth BY <1>1, <2>1
    <2>2. CASE k \in 1 .. Len(frames) BY <1>1, <1>2, <2>2 DEF Fenced
    <2> QED BY <1>2, <2>1, <2>2
  <1>6. Fenced' BY <1>1, <1>4, <1>5 DEF Fenced
  <1>7. \A k \in 1 .. Len(frames) : Ctx'[k].base = Ctx[k].base /\ Ctx'[k + 1].base = Ctx[k + 1].base
    BY <1>2, <1>3
  <1>8. Near' BY <1>1, <1>7 DEF Near, NearTo
  <1> QED BY <1>6, <1>8

LEMMA EnterScopeKeeps ==
  ASSUME DInv, EnterScope
  PROVE  DInv'
PROOF
  <1> DEFINE e == [at |-> cur.top, since |-> Len(insts)]
             b == Len(cur.blocks)
             o == Len(scopes)
  <1>1. /\ Executing /\ cur.code.at \in {"script", "body"}
        /\ scopes' = Append(scopes, Reg(cur.top))
        /\ cur' = [cur EXCEPT !.blocks = Append(cur.blocks, e)]
        /\ UNCHANGED <<regs, frames, native, implicit, args, active, heap, status, missed>>
    BY DEF EnterScope, At
  <1>2. /\ Inv /\ Typed /\ Windows /\ Waiting /\ Entries /\ Links /\ Ends /\ Listing
        /\ Busy /\ Unique /\ Counted /\ Fenced /\ Near /\ Scoped
    BY DEF DInv
  <1>3. cur \in Contexts /\ Laid(Depth, cur) BY <1>2, LaidHere
  <1>4. /\ Depth = Len(frames) + 1 /\ Depth \in 1 .. MaxDepth + 1 /\ Len(frames) \in Nat
        /\ Ctx[Depth] = cur /\ Depth' = Depth /\ Ctx'[Depth] = cur'
        /\ \A k \in 1 .. Len(frames) : Ctx'[k] = Ctx[k]
    BY <1>1, <1>2, TheContexts, Stayed
  <1>5. cur.code.at \in Running BY <1>1 DEF Running
  <1>6. /\ cur.top \in Nat /\ cur.low \in Nat /\ cur.top < Width
        /\ DOMAIN cur.blocks = 1 .. b /\ b \in Nat
        /\ \A c \in DOMAIN cur.blocks : cur.blocks[c].at \in Nat /\ cur.blocks[c].at <= cur.top
        /\ cur.low <= cur.top /\ cur.top <= cur.low + MaxTemps[Depth]
    BY <1>2, <1>5, TopFacts
  <1>7. insts \in Seq(Instances) /\ Len(insts) \in Nat /\ DOMAIN insts = 1 .. Len(insts)
        /\ scopes \in Seq(0 .. NumRegs - 1) /\ o \in Nat
    BY <1>2 DEF Typed
  <1>8. e \in [at : Nat, since : Nat] /\ e.at = cur.top /\ e.since = Len(insts)
    BY <1>6, <1>7
  <1> HIDE DEF e
  <1>9. cur.blocks \in Seq([at : Nat, since : Nat]) /\ cur.base \in Nat /\ cur.under \in Nat
    BY <1>3, ContextFields
  <1> DEFINE B == Append(cur.blocks, e)
  <1>10. /\ B \in Seq([at : Nat, since : Nat]) /\ Len(B) = b + 1 /\ DOMAIN B = 1 .. b + 1
         /\ \A c \in 1 .. b : B[c] = cur.blocks[c]
         /\ B[b + 1] = e
    BY <1>8, <1>9
  <1> HIDE DEF B
  <1>11. /\ cur' \in Contexts /\ cur'.base = cur.base /\ cur'.top = cur.top /\ cur'.low = cur.low
         /\ cur'.since = cur.since /\ cur'.under = cur.under /\ cur'.code = cur.code
         /\ cur'.blocks = B
    BY <1>1, <1>3, <1>10 DEF Contexts, B
  <1>12. /\ Len(scopes') = o + 1 /\ scopes'[o + 1] = cur.base + cur.top
         /\ \A p \in 1 .. o : scopes'[p] = scopes[p]
         /\ scopes' \in Seq(0 .. NumRegs - 1)
    <2>1. status \notin {"over", "aborted"} BY <1>1, CodeAlone DEF DInv
    <2>2. Reg(cur.top) \in 0 .. NumRegs - 1 BY <1>2, <1>6, <2>1, InThisWindow
    <2> QED BY <1>1, <1>7, <2>2 DEF Reg
  <1> HIDE DEF b, o
  <1>13. Laid(Depth, cur')
    <2>1. \A i \in DOMAIN B :
            /\ cur.low <= B[i].at /\ B[i].at <= cur.top
            /\ \A j \in i .. b + 1 : B[i].at <= B[j].at
      <3>1. \A i \in 1 .. b : cur.low <= cur.blocks[i].at /\ cur.blocks[i].at <= cur.top
                              /\ \A j \in i .. b : cur.blocks[i].at <= cur.blocks[j].at
        BY <1>3, <1>6 DEF Laid, b
      <3>2. B[b + 1].at = cur.top BY <1>8, <1>10
      <3>3. \A i \in 1 .. b + 1 : cur.low <= B[i].at /\ B[i].at <= cur.top
        <4> TAKE i \in 1 .. b + 1
        <4>1. CASE i = b + 1 BY <1>6, <3>2, <4>1
        <4>2. CASE i \in 1 .. b
          <5>1. B[i] = cur.blocks[i] BY <1>10, <4>2
          <5> QED BY <3>1, <4>2, <5>1
        <4> QED BY <1>6, <4>1, <4>2
      <3>4. ASSUME NEW i \in 1 .. b + 1, NEW j \in i .. b + 1 PROVE B[i].at <= B[j].at
        <4>1. CASE j = b + 1 BY <3>2, <3>3, <4>1
        <4>2. CASE j # b + 1
          <5>1. i \in 1 .. b /\ j \in i .. b /\ j \in 1 .. b BY <1>6, <4>2
          <5> QED BY <1>10, <3>1, <5>1
        <4> QED BY <4>1, <4>2
      <3> QED BY <1>10, <3>3, <3>4
    <2>2. cur.code.at \notin {"default", "gather", "entry", "leaving"}
          /\ cur.code.at \in {"script", "body"}
      BY <1>1
    <2>3. PICK x : x = cur' OBVIOUS
    <2>4. /\ x.low = cur.low /\ x.top = cur.top /\ x.code = cur.code /\ Len(x.blocks) = b + 1
          /\ \A i \in DOMAIN x.blocks :
               /\ cur.low <= x.blocks[i].at /\ x.blocks[i].at <= cur.top
               /\ \A j \in i .. b + 1 : x.blocks[i].at <= x.blocks[j].at
      BY <1>10, <1>11, <2>1, <2>3
    <2>5. Laid(Depth, x)
      BY ONLY <1>3, <2>2, <2>4 DEF Laid
    <2> QED BY <2>3, <2>5
  <1>14. status \notin {"over", "aborted"} /\ (status # "running" => Depth # 1)
    <2>1. status # "running" => Depth >= 2 BY <1>1, CodeAlone DEF DInv
    <2> QED BY <1>1, <2>1, CodeAlone DEF DInv
  <1>15. Windows' /\ Waiting'
    BY <1>1, <1>2, <1>11, <1>13, <1>14, SameWindow
  <1>16. HeapGrows /\ NoneEnds BY <1>1, <1>2, HeapStays
  <1>17. Typed'
    <2>1. Written BY <1>1, Unwritten
    <2>2. /\ DOMAIN regs' = 0 .. NumRegs - 1
          /\ \A r \in DOMAIN regs' : \E v : regs'[r] = v /\ ValueOK(v)'
      BY <1>2, <1>16, <2>1, RegsKept DEF Written, Typed
    <2> QED BY <1>1, <1>2, <1>11, <1>12, <1>16, <2>2, TypedAgain DEF HeapGrows, Typed
  <1>18. /\ \A i \in DOMAIN native : \E m : m = native[i] /\ NativeEntry(m)'
         /\ \A i \in DOMAIN native : Dropper(native[i]) =>
              Ctx'[native[i].depth + 1].base = Ctx[native[i].depth + 1].base
    BY <1>1, <1>11, <1>16, Undisturbed
  <1>19. native' = native /\ active' = active /\ frames' = frames /\ status' = status
         /\ missed' = missed /\ implicit' = implicit /\ insts' = insts
    BY <1>1 DEF heap
  <1>20. Entries'
    <2>1. \A i \in DOMAIN native' : \E m : m = native'[i] /\ NativeEntry(m)'
      BY <1>18, <1>19
    <2> QED BY <2>1 DEF Entries
  <1>21. Links' /\ Ends' /\ Inv' BY <1>2, <1>4, <1>19 DEF Links, Ends, Inv
  <1>22. Listing' /\ Unique' /\ Counted' BY <1>2, <1>16, <1>19, CountsKept
  <1>23. Busy'
    <2>1. \A i \in 1 .. Len(native) - 1 : i \in DOMAIN native BY <1>2, TheNative
    <2> QED BY <1>2, <1>18, <1>19, <2>1 DEF Busy
  <1>24. FencedIn(active, cur')
    <2> SUFFICES ASSUME NEW c \in 1 .. b + 1
                 PROVE  Fence(active, cur.base + B[c].at, B[c].since)
      BY <1>10, <1>11 DEF FencedIn
    <2>1. CASE c = b + 1
      <3>1. B[c].since = Len(insts) BY <1>8, <1>10, <2>1
      <3>2. \A j \in DOMAIN active : active[j].id <= Len(insts)
        BY <1>2, <1>7 DEF Listing, Listed
      <3>3. \A j \in DOMAIN active : \A i \in 1 .. j : i \in DOMAIN active
        <4>1. DOMAIN active = 1 .. Len(active) /\ Len(active) \in Nat BY <1>2 DEF Typed
        <4> QED BY <4>1
      <3> QED BY <3>1, <3>2, <3>3 DEF Fence
    <2>2. CASE c \in 1 .. b
      <3>1. Depth \in 1 .. Depth /\ c \in DOMAIN cur.blocks BY <1>4, <1>6, <2>2
      <3> QED BY <1>2, <1>4, <1>10, <2>2, <3>1 DEF Fenced, FencedIn
    <2> QED BY <1>6, <2>1, <2>2
  <1>25. Fenced' /\ Near' BY <1>2, <1>11, <1>19, <1>24, SameFences
  <1>26. Scoped'
    <2>1. StartsIn(scopes, cur, o)
      <3>1. Depth \in 1 .. Depth /\ Ceiling(Depth) = o BY <1>4 DEF Ceiling, o
      <3> QED BY <1>2, <1>4, <3>1 DEF Scoped
    <2>2. cur.under + b <= o
          /\ \A c \in 1 .. b : \A p \in o - (b - c) .. o : scopes[p] >= cur.base + cur.blocks[c].at
      BY <2>1 DEF StartsIn, b
    <2>3. cur.under + (b + 1) <= o + 1 BY <1>6, <1>7, <1>9, <2>2
    <2>4. ASSUME NEW c \in 1 .. b + 1, NEW p \in (o + 1) - ((b + 1) - c) .. o + 1
          PROVE  scopes'[p] >= cur.base + B[c].at
      <3>1. B[c].at \in Nat /\ B[c].at <= cur.top
        <4>1. CASE c = b + 1 BY <1>6, <1>8, <1>10, <4>1
        <4>2. CASE c \in 1 .. b BY <1>6, <1>10, <4>2
        <4> QED BY <1>6, <4>1, <4>2
      <3>2. CASE p = o + 1
        <4> DEFINE x == B[c].at
        <4> HIDE DEF x
        <4>1. x \in Nat /\ x <= cur.top /\ scopes'[p] = cur.base + cur.top
          BY <1>12, <3>1, <3>2 DEF x
        <4>2. cur.base + cur.top >= cur.base + x BY ONLY <4>1, <1>6, <1>9
        <4> QED BY <4>1, <4>2 DEF x
      <3>3. CASE p # o + 1
        <4>1. c \in 1 .. b /\ p \in o - (b - c) .. o /\ p \in 1 .. o
          BY <1>6, <1>7, <1>9, <2>2, <3>3
        <4>2. scopes'[p] = scopes[p] /\ B[c] = cur.blocks[c] BY <1>10, <1>12, <4>1
        <4> QED BY <2>2, <4>1, <4>2
      <3> QED BY <3>2, <3>3
    <2>5. StartsIn(scopes', cur', o + 1)
      BY <1>10, <1>11, <1>12, <2>3, <2>4 DEF StartsIn
    <2>6. ASSUME NEW k \in 1 .. Len(frames) PROVE StartsIn(scopes', Ctx'[k], Ceiling(k)')
      <3> DEFINE x == Ctx[k]  v == Ceiling(k)  n == Len(x.blocks)
      <3>1. StartsIn(scopes, x, v)
        <4>1. k \in 1 .. Depth BY <1>4
        <4> QED BY <1>2, <4>1 DEF Scoped
      <3>2. Ctx'[k] = x /\ k # Depth /\ k + 1 \in 1 .. Depth /\ k \in 1 .. Depth BY <1>4
      <3>3. v = Ctx[k + 1].under BY <3>2 DEF Ceiling
      <3>4. Ceiling(k)' = v
        <4>1. Ctx'[k + 1].under = Ctx[k + 1].under
          <5>1. CASE k + 1 = Depth BY <1>4, <1>11, <5>1
          <5>2. CASE k + 1 \in 1 .. Len(frames) BY <1>4, <5>2
          <5> QED BY <1>4, <3>2, <5>1, <5>2
        <4> QED BY <1>4, <3>2, <3>3, <4>1 DEF Ceiling
      <3>5. x \in Contexts /\ Ctx[k + 1] \in Contexts BY <1>2, <3>2, TheContexts
      <3>6. v \in Nat /\ n \in Nat /\ x.under \in Nat BY <3>3, <3>5, ContextFields
      <3> HIDE DEF x, v, n
      <3>7. x.under + n <= v /\ v <= o
            /\ \A c \in 1 .. n : \A p \in v - (n - c) .. v : scopes[p] >= x.base + x.blocks[c].at
        BY <3>1 DEF StartsIn, n, o
      <3>8. \A c \in 1 .. n : \A p \in v - (n - c) .. v : p \in 1 .. o
        BY ONLY <3>6, <3>7, <1>7
      <3>9. v <= o + 1 BY ONLY <3>6, <3>7, <1>7
      <3>10. StartsIn(scopes', x, v)
        BY <1>12, <3>7, <3>8, <3>9 DEF StartsIn, n
      <3> QED BY <3>2, <3>4, <3>10
    <2>7. \A k \in 1 .. Depth : StartsIn(scopes', Ctx'[k], Ceiling(k)')
      <3> TAKE k \in 1 .. Depth
      <3>1. CASE k = Depth
        <4>1. Ceiling(k)' = o + 1 BY <1>4, <1>12, <3>1 DEF Ceiling
        <4> QED BY <1>4, <2>5, <3>1, <4>1
      <3>2. CASE k \in 1 .. Len(frames) BY <2>6, <3>2
      <3> QED BY <1>4, <3>1, <3>2
    <2>8. \A k \in 1 .. Depth : Ctx'[k].under = Ctx[k].under /\ Ctx'[k].base = Ctx[k].base
      <3> TAKE k \in 1 .. Depth
      <3>1. CASE k = Depth BY <1>4, <1>11, <3>1
      <3>2. CASE k \in 1 .. Len(frames) BY <1>4, <3>2
      <3> QED BY <1>4, <3>1, <3>2
    <2>9. Ctx'[1].under = 0
      <3>1. 1 \in 1 .. Depth BY <1>4
      <3> QED BY <1>2, <2>8, <3>1 DEF Scoped
    <2>10. ASSUME NEW k \in 2 .. Depth, NEW p \in Ctx'[k].under + 1 .. o + 1
           PROVE  scopes'[p] >= Ctx'[k].base
      <3>1. k \in 1 .. Depth /\ Ctx[k] \in Contexts BY <1>2, <1>4, TheContexts
      <3>2. Ctx[k].under \in Nat /\ Ctx[k].base \in Nat BY <3>1, ContextFields
      <3>3. CASE p = o + 1
        <4>1. Ctx[k].base <= cur.base
          <5>1. CASE k = Depth BY <1>4, <3>2, <5>1
          <5>2. CASE k # Depth
            <6>1. k < Depth /\ Depth \in 1 .. Depth BY <1>4, <5>2
            <6> QED BY <1>2, <1>4, <3>1, <6>1 DEF Windows
          <5> QED BY <5>1, <5>2
        <4>2. cur.base + cur.top >= Ctx[k].base BY <1>6, <1>9, <3>2, <4>1
        <4> QED BY <1>12, <2>8, <3>1, <3>3, <4>2
      <3>4. CASE p # o + 1
        <4>1. p \in Ctx[k].under + 1 .. o /\ p \in 1 .. o
          <5>1. p \in Ctx[k].under + 1 .. o + 1 BY <2>8, <3>1
          <5> QED BY <1>7, <3>2, <3>4, <5>1
        <4>2. scopes[p] >= Ctx[k].base BY <1>2, <4>1 DEF Scoped, o
        <4> QED BY <1>12, <2>8, <3>1, <4>1, <4>2
      <3> QED BY <3>3, <3>4
    <2>11. \A k, l \in 1 .. Depth : k < l => Ctx'[k].under <= Ctx'[l].under
      BY <1>2, <2>8 DEF Scoped
    <2> QED BY <1>4, <1>12, <2>7, <2>9, <2>10, <2>11 DEF Scoped
  <1> QED BY <1>15, <1>17, <1>20, <1>21, <1>22, <1>23, <1>25, <1>26 DEF DInv

(* A call that nothing waits for leaves the stack when its code takes over.*)
LEMMA UnboundPop ==
  ASSUME DInv, Executing, native # <<>>, ~Binds(native[Len(native)]), native' = Front(native),
         Inv', Steady, Laid(Depth, cur'), Written,
         UNCHANGED <<args, scopes, active, heap, status, missed>>
  PROVE  DInv'
PROOF
  <1>1. /\ Inv /\ Typed /\ Windows /\ Waiting /\ Entries /\ Links /\ Ends /\ Listing
        /\ Busy /\ Unique /\ Counted /\ Fenced /\ Near /\ Scoped
    BY DEF DInv
  <1>2. /\ Len(native) \in Nat /\ Len(native) >= 1 /\ Len(native') = Len(native) - 1
        /\ DOMAIN native = 1 .. Len(native) /\ DOMAIN native' = 1 .. Len(native) - 1
        /\ \A i \in 1 .. Len(native) - 1 : native'[i] = native[i]
    BY <1>1, OneLess
  <1>3. \A i \in DOMAIN native : ~Binds(native[i])
    <2> SUFFICES ASSUME NEW i \in DOMAIN native PROVE ~Binds(native[i]) OBVIOUS
    <2>1. Len(native) \in DOMAIN native /\ (i = Len(native) \/ i < Len(native)) BY <1>2
    <2> QED BY <1>1, <2>1 DEF Links
  <1>4. /\ \A i \in DOMAIN native : native[i].op = "call"
        /\ \A i \in DOMAIN native' :
             i \in DOMAIN native /\ native'[i] = native[i] /\ native'[i].op = "call" /\ ~Binds(native'[i])
    BY <1>2, <1>3 DEF Binds
  <1>5. status = "running"
    <2>1. 1 \in DOMAIN native BY <1>2
    <2>2. native[1].op # "drop" BY <1>4, <2>1
    <2> QED BY <1>1, <2>2 DEF Ends
  <1>6. HeapGrows /\ NoneEnds BY <1>1, HeapStays
  <1>7. Windows' /\ Waiting' BY <1>1, <1>5, SteadyWindows
  <1>8. Typed'
    <2>1. /\ DOMAIN regs' = 0 .. NumRegs - 1
          /\ \A r \in DOMAIN regs' : \E v : regs'[r] = v /\ ValueOK(v)'
      BY <1>1, <1>6, RegsKept DEF Written, Typed
    <2> QED BY <1>1, <1>6, <2>1, TypedAgain DEF Steady, HeapGrows, Typed
  <1>9. Entries'
    <2>1. \A i \in DOMAIN native' : \E m : m = native'[i] /\ NativeEntry(m)'
      <3> TAKE i \in DOMAIN native'
      <3>1. NativeEntry(native[i]) /\ native[i].op = "call" /\ native'[i] = native[i]
        BY <1>1, <1>4 DEF Entries
      <3>2. PICK m : m = native[i] OBVIOUS
      <3>3. NativeEntry(m) /\ m.op = "call" BY <3>1, <3>2
      <3>4. NativeEntry(m)' BY <1>6, <3>3, EntryKept
      <3> QED BY <3>1, <3>2, <3>4
    <2> QED BY <2>1 DEF Entries
  <1>10. Links'
    <2>1. \A i \in 1 .. Len(native') - 1 : Linked(native'[i], native'[i + 1])
      <3> TAKE i \in 1 .. Len(native') - 1
      <3>1. i \in DOMAIN native' BY <1>2
      <3> QED BY <1>4, <3>1 DEF Linked
    <2>2. native' # <<>> => Len(native') \in DOMAIN native'
      <3> HAVE native' # <<>>
      <3>1. Len(native') # 0 BY TheNative
      <3> QED BY <1>2, <3>1
    <2> QED BY <1>4, <2>1, <2>2 DEF Links
  <1>11. Ends' BY <1>5 DEF Ends
  <1>12. \A i \in DOMAIN native : ~Dropper(native[i]) BY <1>4 DEF Dropper
  <1>13. \A i \in DOMAIN native' : ~Dropper(native'[i]) BY <1>4 DEF Dropper
  <1>14. Busy'
    <2>1. \A i \in 1 .. Len(native') - 1 : i \in DOMAIN native' BY <1>2
    <2>2. native' # <<>> => Len(native') \in DOMAIN native'
      <3> HAVE native' # <<>>
      <3>1. Len(native') # 0 BY TheNative
      <3> QED BY <1>2, <3>1
    <2> QED BY <1>13, <2>1, <2>2 DEF Busy
  <1>15. \A b : ~BeingDropped(native, b) /\ ~BeingDropped(native', b)
    BY <1>12, <1>13 DEF BeingDropped
  <1>16. insts' = insts BY DEF heap
  <1>17. Listing' /\ Unique'
    <2>1. \A i \in DOMAIN native' : native'[i].op # "make" BY <1>4
    <2> QED BY <1>1, <1>16, <2>1 DEF Listing, Listed, Unique
  <1>18. Counted' BY <1>1, <1>15, <1>16 DEF Counted
  <1>19. Fenced' /\ Near' BY <1>1, SteadyFences
  <1>20. Scoped' BY <1>1, SteadyScopes
  <1> QED BY <1>7, <1>8, <1>9, <1>10, <1>11, <1>14, <1>17, <1>18, <1>19, <1>20 DEF DInv

LEMMA DefaultDoneKeeps ==
  ASSUME DInv, DefaultDone
  PROVE  DInv'
PROOF
  <1> DEFINE window == [cur EXCEPT !.low = cur.top, !.code.n = cur.top]
             c == native[Len(native)]
  <1>1. /\ Executing /\ cur.code.at = "default" /\ native # <<>> /\ c.op = "call"
        /\ cur.top = cur.code.n + 1
        /\ Last(native) = c
        /\ UNCHANGED <<frames, implicit, args, scopes, active, heap, status, missed>>
    BY DEF DefaultDone, At, Doing, Last
  <1>2. /\ Inv /\ Typed /\ Windows /\ Entries
    BY DEF DInv
  <1>3. cur \in Contexts /\ Laid(Depth, cur) BY <1>2, LaidHere
  <1>4. Depth \in 1 .. MaxDepth + 1 /\ Depth # 1 /\ MaxTemps[Depth] \in Nat
    <2>1. Depth # 1 BY <1>1, <1>3 DEF Laid
    <2> QED BY <1>2, <2>1, TheContexts, Sizes
  <1>5. /\ cur.top \in Nat /\ cur.top < Width /\ cur.blocks = <<>>
        /\ cur.low < cur.code.self + cur.code.fun.max /\ cur.low = cur.code.n
        /\ cur.code.self \in 0 .. 1 /\ cur.code.fun \in Callables /\ cur.code.fun.max \in Nat
    <2>1. cur.top \in Nat /\ cur.code.self \in 0 .. 1 BY <1>3, ContextFields
    <2>2. cur.code.fun \in Callables BY <1>3, <1>4 DEF Laid
    <2> QED BY <1>1, <1>3, <2>1, <2>2, CallableFields DEF Laid
  <1>6. cur.top <= cur.code.self + cur.code.fun.max
    <2>1. cur.low \in Nat BY <1>3, ContextFields
    <2> QED BY <1>1, <1>5, <2>1
  <1>7. \A w : w = window =>
          /\ w \in Contexts /\ w.base = cur.base /\ w.top = cur.top /\ w.low = cur.top
          /\ w.since = cur.since /\ w.under = cur.under /\ w.blocks = cur.blocks
          /\ w.code.at = "default" /\ w.code.fun = cur.code.fun /\ w.code.self = cur.code.self
          /\ w.code.by = cur.code.by /\ w.code.n = cur.top
    <2> TAKE w
    <2> HAVE w = window
    <2> DEFINE C == [at : Places, fun : Callables \cup {NoFun}, self : 0 .. 1,
                     by : {"code", "make", "drop"}, n : Nat, promised : BOOLEAN]
               code == [cur.code EXCEPT !.n = cur.top]
    <2>1. cur.code \in C BY <1>3, ContextFields
    <2>2. /\ code \in C /\ code.at = "default" /\ code.fun = cur.code.fun
          /\ code.self = cur.code.self /\ code.by = cur.code.by /\ code.n = cur.top
      BY <1>1, <1>5, <2>1
    <2>3. w = [cur EXCEPT !.low = cur.top, !.code = code]
      BY <1>3 DEF Contexts
    <2> HIDE DEF code
    <2> QED BY <1>3, <1>5, <2>2, <2>3 DEF Contexts
  <1>8. HeapGrows /\ NoneEnds BY <1>1, <1>2, HeapStays
  <1>9. Inv' BY <1>2, CodeSteps
  <1>10. CASE cur.top - cur.code.self < cur.code.fun.max
    <2>1. cur' = window /\ regs' = regs /\ native' = native BY <1>10 DEF DefaultDone
    <2>2. /\ cur' \in Contexts /\ Beside(cur, cur')
      BY <1>7, <2>1 DEF Beside
    <2>3. Laid(Depth, cur')
      <3>1. cur.top < cur.code.self + cur.code.fun.max BY <1>5, <1>10
      <3>2. cur.top <= cur.top + MaxTemps[Depth] BY <1>4, <1>5
      <3>3. PICK x : x = cur' OBVIOUS
      <3>4. /\ x.top = cur.top /\ x.low = cur.top /\ x.blocks = <<>> /\ x.code.at = "default"
            /\ x.code.fun = cur.code.fun /\ x.code.self = cur.code.self /\ x.code.n = cur.top
        BY <1>5, <1>7, <2>1, <3>3
      <3>5. Laid(Depth, x)
        BY ONLY <1>4, <1>5, <3>1, <3>2, <3>4 DEF Laid, Running
      <3> QED BY <3>3, <3>5
    <2>4. Local BY <1>1, <1>8, <2>1, <2>2, <2>3 DEF Local, Steady
    <2> QED BY <1>1, <2>1, <2>4, Unwritten, LocalStep
  <1>11. CASE ~(cur.top - cur.code.self < cur.code.fun.max)
    <2>1. Settle(c, window, regs, Front(native)) BY <1>1, <1>11 DEF DefaultDone
    <2>2. PICK a \in {"gather", "entry"} : cur' = [window EXCEPT !.code.at = a]
      BY <2>1 DEF Settle
    <2> HIDE DEF window
    <2>3. PICK w : w = window OBVIOUS
    <2>4. /\ w \in Contexts /\ w.base = cur.base /\ w.top = cur.top /\ w.low = cur.top
          /\ w.since = cur.since /\ w.under = cur.under /\ w.blocks = cur.blocks
          /\ w.code.at = "default" /\ w.code.fun = cur.code.fun /\ w.code.self = cur.code.self
          /\ w.code.by = cur.code.by /\ w.code.n = cur.top
      BY <1>7, <2>3
    <2>5. /\ cur' \in Contexts /\ cur'.base = cur.base /\ cur'.top = cur.top /\ cur'.low = cur.top
          /\ cur'.since = cur.since /\ cur'.under = cur.under /\ cur'.blocks = cur.blocks
          /\ cur'.code.at = a /\ cur'.code.fun = cur.code.fun /\ cur'.code.self = cur.code.self
          /\ cur'.code.by = cur.code.by
      BY <2>2, <2>3, <2>4 DEF Contexts, Places
    <2>6. Beside(cur, cur') BY <2>5 DEF Beside
    <2>7. Laid(Depth, cur')
      <3>1. PICK x : x = cur' OBVIOUS
      <3>2. /\ x.top = cur.top /\ x.low = cur.top /\ x.blocks = <<>> /\ x.code.at = a
            /\ x.code.fun = cur.code.fun /\ x.code.self = cur.code.self
        BY <1>5, <2>5, <3>1
      <3>3. cur.top <= cur.code.self + cur.code.fun.max + 1 BY <1>5, <1>6
      <3>4. Laid(Depth, x)
        BY ONLY <1>4, <1>5, <3>2, <3>3 DEF Laid, Running
      <3> QED BY <3>1, <3>4
    <2>8. Steady BY <1>1, <2>5, <2>6 DEF Steady
    <2>9. CASE native' = Append(Front(native), c) /\ regs' = regs
      <3>1. native' = native
        <4>1. PICK S : native \in Seq(S) BY <1>2 DEF Inv, NativeOK
        <4>2. Len(native) \in Nat /\ Len(native) # 0 BY <1>1, <4>1
        <4>3. Front(native) \in Seq(S) /\ Len(Front(native)) = Len(native) - 1
          BY <1>1, <4>1, FrontIsSeq
        <4>4. \A i \in 1 .. Len(native) - 1 : Front(native)[i] = native[i]
          BY <1>1, <1>2, Popped DEF Inv
        <4>5. PICK f : f = Front(native) OBVIOUS
        <4>6. c \in S BY <4>1, <4>2
        <4>7. PICK d : d = c OBVIOUS
        <4>8. /\ Append(f, d) \in Seq(S) /\ Len(Append(f, d)) = Len(native)
              /\ \A i \in 1 .. Len(native) - 1 : Append(f, d)[i] = native[i]
              /\ Append(f, d)[Len(native)] = d
          BY ONLY <4>2, <4>3, <4>4, <4>5, <4>6, <4>7
        <4>9. \A i \in 1 .. Len(native) : Append(f, d)[i] = native[i]
          BY <4>2, <4>7, <4>8
        <4>10. Append(f, d) = native
          BY ONLY <4>1, <4>8, <4>9, SeqEqual
        <4> QED BY <2>9, <4>5, <4>7, <4>10
      <3>2. Local BY <1>1, <1>8, <2>7, <2>8, <3>1 DEF Local
      <3> QED BY <1>1, <2>9, <3>2, Unwritten, LocalStep
    <2>10. CASE /\ native' = Front(native) /\ c.by = "code" /\ ~c.was
                /\ regs' = IF c.self = 1 THEN [regs EXCEPT ![window.base + c.start - 1] = c.copy]
                                         ELSE regs
      <3>1. ~Binds(c) BY <1>1, <2>10 DEF Binds
      <3>2. Written
        <4>1. CASE c.self # 1 BY <2>10, <4>1, Unwritten
        <4>2. CASE c.self = 1
          <5>1. PICK v : v = c.copy OBVIOUS
          <5>2. Len(native) \in DOMAIN native BY <1>1, <1>2, TheNative
          <5>3. CallOK(c) BY <1>1, <1>2, <5>2, EntryOps DEF Entries
          <5>4. ValueOK(v) BY <5>1, <5>3 DEF CallOK
          <5>5. ValueOK(v)' BY <1>8, <5>4, ValueKept
          <5>6. regs' = [regs EXCEPT ![window.base + c.start - 1] = v] BY <2>10, <4>2, <5>1
          <5> QED BY <5>5, <5>6, Writes
        <4> QED BY <4>1, <4>2
      <3> QED BY <1>1, <1>9, <2>7, <2>8, <2>10, <3>1, <3>2, UnboundPop
    <2> QED BY <2>1, <2>9, <2>10 DEF Settle
  <1> QED BY <1>10, <1>11
-----------------------------------------------------------------------------
(* The end of a C++ function that makes or drops instances.                *)

(* It runs in the running activation, and what is below it in callers.     *)
LEMMA BelowTop ==
  ASSUME DInv, native # <<>>, native[Len(native)].op # "call"
  PROVE  /\ native[Len(native)].depth = Depth
         /\ \A i \in 1 .. Len(native) - 1 :
              native[i].op # "call" => native[i].depth \in 1 .. Len(frames)
         /\ Len(native) > 1 => /\ native[Len(native) - 1].op = "call"
                               /\ Binds(native[Len(native) - 1]) => native[Len(native) - 1].depth = Depth
         /\ \A i \in 1 .. Len(native) - 1 : Binds(native[i]) => Len(native) > 1 /\ native[Len(native) - 1].depth = Depth
PROOF
  <1>1. Inv /\ Typed /\ Entries /\ Links BY DEF DInv
  <1>2. /\ Len(native) \in Nat /\ DOMAIN native = 1 .. Len(native) /\ Len(native) # 0
    BY <1>1, TheNative
  <1>3. Depth = Len(frames) + 1 /\ Len(frames) \in Nat BY <1>1, TheContexts
  <1>4. Binds(native[Len(native)]) BY DEF Binds
  <1>5. native[Len(native)].depth = Depth BY <1>1, <1>4 DEF Links
  <1> DEFINE l == Len(native) - 1
  <1>6. ASSUME l >= 1
        PROVE  /\ native[l].op = "call"
               /\ Binds(native[l]) => native[l].depth = Depth
    <2>1. l \in 1 .. Len(native) - 1 /\ l + 1 = Len(native) /\ l \in DOMAIN native BY <1>2, <1>6
    <2>2. Linked(native[l], native[l + 1]) BY <1>1, <2>1 DEF Links
    <2>3. native[l].op = "call" BY <2>1, <2>2 DEF Linked
    <2>4. NativeEntry(native[l]) BY <1>1, <2>1 DEF Entries
    <2>5. native[l].depth \in Int BY <2>4, EntryOps
    <2>6. Binds(native[l]) => Depth = native[l].depth + 0
      BY <1>5, <2>1, <2>2 DEF Linked
    <2> QED BY <2>3, <2>5, <2>6
  <1>7. ASSUME NEW i \in 1 .. l, Binds(native[i])
        PROVE  /\ l >= 1 /\ Binds(native[l])
               /\ native[i].op # "call" => native[i].depth < native[l].depth
    <2>1. l >= 1 /\ i \in DOMAIN native /\ l \in DOMAIN native BY <1>2
    <2>2. i = l \/ i < l BY <2>1
    <2>3. \A a, b \in DOMAIN native : a < b /\ Binds(native[a]) =>
            /\ Binds(native[b])
            /\ native[b].op = "call" => native[a].depth < native[b].depth
      BY <1>1 DEF Links
    <2> QED BY <1>6, <1>7, <2>1, <2>2, <2>3
  <1>8. ASSUME NEW i \in 1 .. l, native[i].op # "call"
        PROVE  native[i].depth \in 1 .. Len(frames)
    <2>1. Binds(native[i]) BY <1>8 DEF Binds
    <2>2. l >= 1 /\ Binds(native[l]) /\ native[i].depth < native[l].depth BY <1>7, <1>8, <2>1
    <2>3. native[l].depth = Depth BY <1>6, <2>2
    <2>4. NativeEntry(native[i]) BY <1>1, <1>2 DEF Entries
    <2>5. native[i].depth \in 1 .. Depth BY <1>8, <2>4, EntryOps
    <2> QED BY <1>3, <2>2, <2>3, <2>5
  <1>9. \A i \in 1 .. l : Binds(native[i]) => l >= 1 /\ native[l].depth = Depth
    BY <1>6, <1>7
  <1>10. l >= 1 <=> Len(native) > 1 BY <1>2
  <1> QED BY <1>5, <1>6, <1>8, <1>9, <1>10

LEMMA KeptBelow ==
  ASSUME DInv, frames' = frames, cur'.base = cur.base, HeapGrows, status' = status,
         NEW i \in DOMAIN native,
         native[i].op # "call" => native[i].depth \in 1 .. Len(frames),
         native[i].op = "make" => ~insts'[native[i].id].made /\ ~insts'[native[i].id].literal,
         native[i].op = "drop" => native[i].busy \in 0 .. Len(active')
  PROVE  /\ \E m : m = native[i] /\ NativeEntry(m)'
         /\ Dropper(native[i]) =>
              Ctx'[native[i].depth + 1].base = Ctx[native[i].depth + 1].base
PROOF
  <1>0. Typed /\ Entries BY DEF DInv
  <1>1. /\ Depth' = Depth /\ Ctx'[Depth] = cur'
        /\ \A k \in 1 .. Len(frames) : Ctx'[k] = Ctx[k]
    BY <1>0, Stayed
  <1>2. Depth = Len(frames) + 1 /\ Len(frames) \in Nat /\ Ctx[Depth] = cur BY <1>0, TheContexts
  <1>3. \E m : m = native[i] /\ NativeEntry(m)'
    <2>1. NativeEntry(native[i]) BY <1>0 DEF Entries
    <2>2. PICK n : n = native[i] OBVIOUS
    <2>3. n.op # "call" => Ctx'[n.depth] = Ctx[n.depth] /\ n.depth \in 1 .. Depth'
      BY <1>1, <1>2, <2>2
    <2>4. NativeEntry(n) BY <2>1, <2>2
    <2>5. n.op = "make" => ~insts'[n.id].made /\ ~insts'[n.id].literal /\ MakesIn(n, Ctx[n.depth])
      BY <2>2, <2>4, EntryOps DEF MakeOK
    <2>6. n.op = "drop" => n.busy \in 0 .. Len(active') /\ DropsIn(n, Ctx[n.depth])
      BY <2>2, <2>4, EntryOps DEF DropOK
    <2>7. NativeEntry(n)' BY <2>3, <2>4, <2>5, <2>6, EntryKept
    <2> QED BY <2>2, <2>7
  <1>4. ASSUME Dropper(native[i])
        PROVE  Ctx'[native[i].depth + 1].base = Ctx[native[i].depth + 1].base
    <2>1. native[i].depth \in 1 .. Len(frames) BY <1>4 DEF Dropper
    <2>2. CASE native[i].depth + 1 = Depth BY <1>1, <1>2, <2>2
    <2>3. CASE native[i].depth + 1 \in 1 .. Len(frames) BY <1>1, <2>3
    <2> QED BY <1>2, <2>1, <2>2, <2>3
  <1> QED BY <1>3, <1>4

(* The stack without its top.                                              *)
LEMMA PopLinks ==
  ASSUME DInv, native # <<>>, native[Len(native)].op # "call",
         native[Len(native)].op = "drop" => native[Len(native)].then \notin {"clear", "destroy"},
         native' = Front(native), frames' = frames, implicit' = implicit, status' = status
  PROVE  Inv' /\ Links' /\ Ends'
PROOF
  <1>1. Inv /\ Typed /\ Entries /\ Links /\ Ends BY DEF DInv
  <1>2. /\ Len(native) \in Nat /\ Len(native) >= 1 /\ Len(native') = Len(native) - 1
        /\ DOMAIN native = 1 .. Len(native) /\ DOMAIN native' = 1 .. Len(native) - 1
        /\ \A i \in 1 .. Len(native) - 1 : native'[i] = native[i]
        /\ native' = <<>> <=> Len(native) = 1
        /\ Last(native) = native[Len(native)]
    BY <1>1, OneLess
  <1>3. Inv'
    <2>1. NativeOK(Front(native), implicit) BY <1>1, <1>2, Popped DEF Inv
    <2> QED BY <2>1 DEF Inv
  <1>4. Depth' = Depth BY DEF Depth
  <1>5. Links'
    <2>1. \A i \in 1 .. Len(native') - 1 : Linked(native'[i], native'[i + 1])
      <3> TAKE i \in 1 .. Len(native') - 1
      <3>1. i \in 1 .. Len(native) - 1 /\ i + 1 \in 1 .. Len(native) - 1 BY <1>2
      <3>2. Linked(native[i], native[i + 1]) BY <1>1, <3>1 DEF Links
      <3> QED BY <1>2, <3>1, <3>2
    <2>2. \A i, j \in DOMAIN native' : i < j /\ Binds(native'[i]) =>
            /\ Binds(native'[j])
            /\ native'[i].depth <= native'[j].depth
            /\ native'[j].op = "call" => native'[i].depth < native'[j].depth
      <3> TAKE i, j \in DOMAIN native'
      <3>1. /\ i \in DOMAIN native /\ j \in DOMAIN native
            /\ native'[i] = native[i] /\ native'[j] = native[j]
        BY <1>2
      <3> QED BY <1>1, <3>1 DEF Links
    <2>3. native' # <<>> /\ Binds(native'[Len(native')]) => native'[Len(native')].depth = Depth'
      <3> HAVE native' # <<>> /\ Binds(native'[Len(native')])
      <3>1. Len(native') = Len(native) - 1 /\ Len(native) > 1 /\ native'[Len(native')] = native[Len(native) - 1]
        BY <1>2
      <3> QED BY <1>4, <3>1, BelowTop
    <2> QED BY <2>1, <2>2, <2>3 DEF Links
  <1>6. Ends'
    <2>1. status \notin {"over", "aborted"} BY <1>1 DEF Ends
    <2>2. status # "running" => native' # <<>> /\ native'[1] = native[1]
      <3> HAVE status # "running"
      <3>1. native[1].op = "drop" /\ native[1].then \in {"clear", "destroy"} BY <1>1 DEF Ends
      <3>2. Len(native) # 1 BY <3>1
      <3>3. 1 \in 1 .. Len(native) - 1 BY <1>2, <3>2
      <3> QED BY <1>2, <3>2, <3>3
    <2> QED BY <1>1, <2>1, <2>2 DEF Ends
  <1> QED BY <1>3, <1>5, <1>6

(* Front keeps the elements before the last one.                           *)
LEMMA FrontAt ==
  ASSUME NEW S, NEW n \in Seq(S)
  PROVE  \A i \in 1 .. Len(n) - 1 : Front(n)[i] = n[i]
PROOF
  BY DEF Front

(* A scope that is left with its last block.                               *)
LEMMA ScopesWithout ==
  ASSUME Typed, Scoped, cur.blocks # <<>>, frames' = frames,
         cur' = [cur EXCEPT !.blocks = Front(cur.blocks)], scopes' = Front(scopes)
  PROVE  Scoped' /\ scopes' \in Seq(0 .. NumRegs - 1)
PROOF
  <1> DEFINE b == Len(cur.blocks)  o == Len(scopes)
  <1>1. cur \in Contexts /\ scopes \in Seq(0 .. NumRegs - 1) BY DEF Typed
  <1>2. cur.blocks \in Seq([at : Nat, since : Nat]) /\ cur.base \in Nat /\ cur.under \in Nat
        /\ b \in Nat /\ b # 0 /\ o \in Nat
    BY <1>1, ContextFields
  <1>3. /\ Front(cur.blocks) \in Seq([at : Nat, since : Nat]) /\ Len(Front(cur.blocks)) = b - 1
        /\ \A c \in 1 .. b - 1 : Front(cur.blocks)[c] = cur.blocks[c]
    <2>1. \A c \in 1 .. b - 1 : Front(cur.blocks)[c] = cur.blocks[c]
      BY <1>2, FrontAt
    <2> QED BY <1>2, <2>1, FrontIsSeq
  <1>4. /\ Depth = Len(frames) + 1 /\ Depth \in 1 .. MaxDepth + 1 /\ Len(frames) \in Nat
        /\ Ctx[Depth] = cur /\ Depth' = Depth /\ Ctx'[Depth] = cur'
        /\ \A k \in 1 .. Len(frames) : Ctx'[k] = Ctx[k]
    BY TheContexts, Stayed
  <1>5. /\ cur'.base = cur.base /\ cur'.under = cur.under /\ cur'.blocks = Front(cur.blocks)
    BY <1>1 DEF Contexts
  <1>6. StartsIn(scopes, cur, o)
    <2>1. Depth \in 1 .. Depth /\ Ceiling(Depth) = o BY <1>4 DEF Ceiling
    <2> QED BY <1>4, <2>1 DEF Scoped
  <1>7. cur.under + b <= o
        /\ \A c \in 1 .. b : \A p \in o - (b - c) .. o : scopes[p] >= cur.base + cur.blocks[c].at
    BY <1>6 DEF StartsIn
  <1> HIDE DEF b
  <1>8. o >= 1 /\ cur.under <= o - 1 BY <1>2, <1>7
  <1>9. /\ Len(scopes') = o - 1 /\ scopes' \in Seq(0 .. NumRegs - 1)
        /\ \A p \in 1 .. o - 1 : scopes'[p] = scopes[p]
    <2>1. scopes # <<>> BY <1>1, <1>8
    <2>2. \A p \in 1 .. o - 1 : Front(scopes)[p] = scopes[p] BY <1>1, <1>8 DEF Front
    <2> QED BY <1>1, <2>1, <2>2, FrontIsSeq
  <1> HIDE DEF o
  <1>10. \A k \in 1 .. Depth : Ctx'[k].under = Ctx[k].under /\ Ctx'[k].base = Ctx[k].base
    <2> TAKE k \in 1 .. Depth
    <2>1. CASE k = Depth BY <1>4, <1>5, <2>1
    <2>2. CASE k \in 1 .. Len(frames) BY <1>4, <2>2
    <2> QED BY <1>4, <2>1, <2>2
  <1>11. StartsIn(scopes', cur', o - 1)
    <2>1. cur.under + (b - 1) <= o - 1 BY <1>2, <1>7
    <2>2. ASSUME NEW c \in 1 .. b - 1, NEW p \in (o - 1) - ((b - 1) - c) .. o - 1
          PROVE  scopes'[p] >= cur.base + Front(cur.blocks)[c].at
      <3>1. b \in Nat /\ o \in Nat /\ b <= o /\ b >= 1
        <4>1. PICK u : u = cur.under OBVIOUS
        <4>2. u \in Nat /\ b \in Nat /\ b # 0 /\ o \in Nat /\ u + b <= o BY <1>2, <1>7, <4>1
        <4> QED BY ONLY <4>2
      <3>2. c \in 1 .. b - 1 /\ p \in (o - 1) - ((b - 1) - c) .. o - 1 OBVIOUS
      <3>3. c \in 1 .. b /\ p \in o - (b - c) .. o /\ p \in 1 .. o - 1 BY ONLY <3>1, <3>2
      <3> QED BY <1>3, <1>7, <1>9, <3>3
    <2>3. PICK x : x = cur' OBVIOUS
    <2>4. /\ x.base = cur.base /\ x.under = cur.under /\ Len(x.blocks) = b - 1
          /\ x.blocks = Front(cur.blocks)
      BY <1>3, <1>5, <2>3
    <2>5. PICK s : s = scopes' OBVIOUS
    <2>6. Len(s) = o - 1
          /\ \A c \in 1 .. b - 1 : \A p \in (o - 1) - ((b - 1) - c) .. o - 1 :
               s[p] >= x.base + x.blocks[c].at
      BY <1>9, <2>2, <2>4, <2>5
    <2>7. o - 1 <= o - 1 BY <1>2 DEF o
    <2>8. StartsIn(s, x, o - 1)
      BY ONLY <2>1, <2>4, <2>6, <2>7 DEF StartsIn
    <2> QED BY <2>3, <2>5, <2>8
  <1>12. ASSUME NEW k \in 1 .. Len(frames) PROVE StartsIn(scopes', Ctx'[k], Ceiling(k)')
    <2> DEFINE x == Ctx[k]  v == Ceiling(k)  n == Len(x.blocks)
    <2>1. k \in 1 .. Depth /\ k # Depth /\ k + 1 \in 1 .. Depth /\ Ctx'[k] = x BY <1>4
    <2>2. StartsIn(scopes, x, v) BY <2>1 DEF Scoped
    <2>3. v = Ctx[k + 1].under /\ Ceiling(k)' = v
      BY <1>4, <1>10, <2>1 DEF Ceiling
    <2>4. x \in Contexts /\ Ctx[k + 1] \in Contexts BY <2>1, TheContexts
    <2>5. v \in Nat /\ n \in Nat /\ x.under \in Nat BY <2>3, <2>4, ContextFields
    <2>6. v <= cur.under
      <3>1. CASE k + 1 = Depth BY <1>2, <1>4, <2>3, <3>1
      <3>2. CASE k + 1 # Depth
        <4>1. k + 1 < Depth /\ Depth \in 1 .. Depth BY <1>4, <2>1, <3>2
        <4> QED BY <1>4, <2>1, <2>3, <4>1 DEF Scoped
      <3> QED BY <3>1, <3>2
    <2> HIDE DEF x, v, n
    <2>7. x.under + n <= v /\ v <= Len(scopes)
          /\ \A c \in 1 .. n : \A p \in v - (n - c) .. v : scopes[p] >= x.base + x.blocks[c].at
      BY <2>2 DEF StartsIn, n
    <2>8. v <= o - 1 BY <1>2, <1>8, <2>5, <2>6 DEF o
    <2>9. \A c \in 1 .. n : \A p \in v - (n - c) .. v : p \in 1 .. o - 1
      BY ONLY <2>5, <2>7, <2>8, <1>2 DEF o
    <2>10. StartsIn(scopes', x, v)
      BY <1>9, <2>7, <2>8, <2>9 DEF StartsIn, n
    <2> QED BY <2>1, <2>3, <2>10
  <1>13. \A k \in 1 .. Depth : StartsIn(scopes', Ctx'[k], Ceiling(k)')
    <2> TAKE k \in 1 .. Depth
    <2>1. CASE k = Depth
      <3>1. Ceiling(k)' = o - 1 BY <1>4, <1>9, <2>1 DEF Ceiling
      <3> QED BY <1>4, <1>11, <2>1, <3>1
    <2>2. CASE k \in 1 .. Len(frames) BY <1>12, <2>2
    <2> QED BY <1>4, <2>1, <2>2
  <1>14. Ctx'[1].under = 0
    <2>1. 1 \in 1 .. Depth BY <1>4
    <2> QED BY <1>10, <2>1 DEF Scoped
  <1>15. ASSUME NEW k \in 2 .. Depth, NEW p \in Ctx'[k].under + 1 .. o - 1
         PROVE  scopes'[p] >= Ctx'[k].base
    <2>1. k \in 1 .. Depth /\ Ctx[k] \in Contexts BY <1>4, TheContexts
    <2>2. Ctx[k].under \in Nat BY <2>1, ContextFields
    <2>3. p \in Ctx[k].under + 1 .. o - 1 BY <1>10, <2>1
    <2>4. p \in Ctx[k].under + 1 .. Len(scopes) /\ p \in 1 .. o - 1
      <3>1. PICK u : u = Ctx[k].under OBVIOUS
      <3>2. u \in Nat /\ o \in Nat /\ p \in u + 1 .. o - 1 BY <1>2, <2>2, <2>3, <3>1
      <3>3. p \in u + 1 .. o /\ p \in 1 .. o - 1 BY ONLY <3>2
      <3> QED BY <3>1, <3>3 DEF o
    <2>5. scopes[p] >= Ctx[k].base BY <2>4 DEF Scoped
    <2> QED BY <1>9, <1>10, <2>1, <2>4, <2>5
  <1>16. \A k, l \in 1 .. Depth : k < l => Ctx'[k].under <= Ctx'[l].under
    BY <1>10 DEF Scoped
  <1>17. Scoped' BY <1>4, <1>9, <1>13, <1>14, <1>15, <1>16 DEF Scoped
  <1> QED BY <1>9, <1>17

(* What a dropInstances that has found nothing more to drop knows.         *)
LEMMA DropsDoneFacts ==
  ASSUME DInv, NEW then, DropsDone(then)
  PROVE  /\ native # <<>> /\ Last(native) = native[Len(native)] /\ Len(native) \in DOMAIN native
         /\ native[Len(native)].op = "drop" /\ native[Len(native)].then = then
         /\ native[Len(native)].busy = 0 /\ ~Dropper(native[Len(native)])
         /\ native[Len(native)].depth = Depth
         /\ DropOK(native[Len(native)]) /\ DropsIn(native[Len(native)], cur)
         /\ ~Dropping(native[Len(native)])
         /\ status \notin {"over", "aborted"}
PROOF
  <1>1. Inv /\ Typed /\ Entries /\ Links /\ Ends BY DEF DInv
  <1>2. native # <<>> /\ Last(native) = native[Len(native)] /\ native[Len(native)].op = "drop"
        /\ native[Len(native)].then = then /\ native[Len(native)].busy = 0
        /\ ~Dropping(native[Len(native)])
    BY DEF DropsDone, Doing, Last
  <1>3. Len(native) \in DOMAIN native
    <2>1. Len(native) \in Nat /\ DOMAIN native = 1 .. Len(native) /\ Len(native) # 0
      BY <1>1, <1>2, TheNative
    <2> QED BY <2>1
  <1>4. native[Len(native)].depth = Depth BY <1>2, BelowTop
  <1>5. DropOK(native[Len(native)]) BY <1>1, <1>2, <1>3, EntryOps DEF Entries
  <1>6. Ctx[Depth] = cur BY <1>1, TheContexts
  <1>7. DropsIn(native[Len(native)], cur) BY <1>4, <1>5, <1>6 DEF DropOK
  <1> QED BY <1>1, <1>2, <1>3, <1>4, <1>5, <1>7 DEF Dropper, Ends

LEMMA ScopeLeftKeeps ==
  ASSUME DInv, ScopeLeft
  PROVE  DInv'
PROOF
  <1> DEFINE d == native[Len(native)]
  <1>0. PICK then \in {"exit", "iterate"} : DropsDone(then)
    BY DEF ScopeLeft
  <1>1. /\ native # <<>> /\ Len(native) \in DOMAIN native
        /\ d.op = "drop" /\ d.then = then
        /\ ~Dropper(d) /\ DropsIn(d, cur)
        /\ status \notin {"over", "aborted"}
    BY <1>0, DropsDoneFacts
  <1>2. /\ Inv /\ Typed /\ Windows /\ Waiting /\ Entries /\ Links /\ Ends /\ Listing
        /\ Busy /\ Unique /\ Counted /\ Fenced /\ Near /\ Scoped
    BY DEF DInv
  <1>3. /\ native' = Front(native)
        /\ UNCHANGED <<regs, frames, implicit, args, active, heap, status, missed>>
        /\ \/ scopes' = Front(scopes) /\ cur' = [cur EXCEPT !.blocks = Front(cur.blocks)]
           \/ scopes' = scopes /\ cur' = cur
    BY DEF ScopeLeft
  <1>4. /\ Len(native) \in Nat /\ Len(native) >= 1 /\ Len(native') = Len(native) - 1
        /\ DOMAIN native = 1 .. Len(native) /\ DOMAIN native' = 1 .. Len(native) - 1
        /\ \A i \in 1 .. Len(native) - 1 : native'[i] = native[i]
    BY <1>1, <1>2, <1>3, OneLess
  <1>5. Inv' /\ Links' /\ Ends'
    BY <1>1, <1>3, PopLinks
  <1>6. cur.blocks # <<>> /\ cur.code.at \in {"script", "body"}
    BY <1>0, <1>1 DEF DropsIn
  <1>7. cur \in Contexts /\ Laid(Depth, cur) BY <1>2, LaidHere
  <1>8. /\ Depth = Len(frames) + 1 /\ Depth \in 1 .. MaxDepth + 1 /\ Len(frames) \in Nat
        /\ Ctx[Depth] = cur
    BY <1>2, TheContexts
  <1>9. /\ cur' \in Contexts /\ cur'.base = cur.base /\ cur'.since = cur.since
        /\ cur'.code = cur.code /\ Laid(Depth, cur') /\ FencedIn(active, cur')
        /\ status # "running" /\ Depth = 1 => cur'.blocks = <<>>
        /\ Scoped' /\ scopes' \in Seq(0 .. NumRegs - 1)
    <2>1. Depth \in 1 .. Depth BY <1>8
    <2>2. FencedIn(active, cur) BY <1>2, <1>8, <2>1 DEF Fenced
    <2>3. status # "running" /\ Depth = 1 => cur.blocks = <<>> BY <1>2, <1>8 DEF Windows
    <2>4. CASE scopes' = scopes /\ cur' = cur
      <3>1. Steady BY <1>3, <1>7, <2>4 DEF Steady, Beside
      <3>2. Scoped' BY <1>2, <2>4, <3>1, SteadyScopes
      <3> QED BY <1>2, <1>7, <2>2, <2>3, <2>4, <3>2 DEF Typed
    <2>5. CASE scopes' = Front(scopes) /\ cur' = [cur EXCEPT !.blocks = Front(cur.blocks)]
      <3> DEFINE b == Len(cur.blocks)  B == Front(cur.blocks)
      <3>1. cur.blocks \in Seq([at : Nat, since : Nat]) /\ b \in Nat /\ b # 0
            /\ DOMAIN cur.blocks = 1 .. b
        BY <1>6, <1>7, ContextFields
      <3>2. /\ B \in Seq([at : Nat, since : Nat]) /\ Len(B) = b - 1 /\ DOMAIN B = 1 .. b - 1
            /\ \A c \in 1 .. b - 1 : B[c] = cur.blocks[c]
        <4>1. B \in Seq([at : Nat, since : Nat]) /\ Len(B) = b - 1
          BY <1>6, <3>1, FrontIsSeq
        <4>2. \A c \in 1 .. b - 1 : B[c] = cur.blocks[c] BY <3>1, FrontAt
        <4> HIDE DEF B, b
        <4>3. DOMAIN B = 1 .. b - 1 BY <4>1
        <4> QED BY <4>1, <4>2, <4>3
      <3>3. /\ cur' \in Contexts /\ cur'.base = cur.base /\ cur'.since = cur.since
            /\ cur'.code = cur.code /\ cur'.blocks = B /\ cur'.top = cur.top /\ cur'.low = cur.low
        BY <1>7, <2>5, <3>2 DEF Contexts
      <3>4. Scoped' /\ scopes' \in Seq(0 .. NumRegs - 1)
        BY <1>2, <1>3, <1>6, <2>5, ScopesWithout
      <3> HIDE DEF b, B
      <3>5. FencedIn(active, cur')
        <4>1. ASSUME NEW c \in 1 .. b - 1 PROVE Fence(active, cur.base + B[c].at, B[c].since)
          <5>1. c \in 1 .. b BY <3>1
          <5>2. Fence(active, cur.base + cur.blocks[c].at, cur.blocks[c].since)
            BY <2>2, <3>1, <5>1 DEF FencedIn
          <5> QED BY <3>2, <5>2
        <4>2. PICK x : x = cur' OBVIOUS
        <4>3. x.base = cur.base /\ x.blocks = B BY <3>3, <4>2
        <4>4. FencedIn(active, x) BY <3>2, <4>1, <4>3 DEF FencedIn
        <4> QED BY <4>2, <4>4
      <3>6. Laid(Depth, cur')
        <4>1. \A i \in 1 .. b :
                /\ cur.low <= cur.blocks[i].at /\ cur.blocks[i].at <= cur.top
                /\ \A j \in i .. b : cur.blocks[i].at <= cur.blocks[j].at
          BY <1>7, <3>1 DEF Laid, b
        <4>2. ASSUME NEW i \in 1 .. b - 1
              PROVE  /\ cur.low <= B[i].at /\ B[i].at <= cur.top
                     /\ \A j \in i .. b - 1 : B[i].at <= B[j].at
          <5>1. i \in 1 .. b /\ \A j \in i .. b - 1 : j \in i .. b /\ j \in 1 .. b - 1 BY <3>1
          <5> QED BY <3>2, <4>1, <5>1
        <4>3. PICK x : x = cur' OBVIOUS
        <4>4. /\ x.low = cur.low /\ x.top = cur.top /\ x.code = cur.code /\ Len(x.blocks) = b - 1
              /\ \A i \in DOMAIN x.blocks :
                   /\ cur.low <= x.blocks[i].at /\ x.blocks[i].at <= cur.top
                   /\ \A j \in i .. b - 1 : x.blocks[i].at <= x.blocks[j].at
          BY <3>2, <3>3, <4>2, <4>3
        <4>5. Laid(Depth, x) BY ONLY <1>6, <1>7, <4>4 DEF Laid
        <4> QED BY <4>3, <4>5
      <3>7. ~(status # "running" /\ Depth = 1) BY <1>6, <2>3
      <3> QED BY <3>3, <3>4, <3>5, <3>6, <3>7
    <2> QED BY <1>3, <2>4, <2>5
  <1>10. Windows' /\ Waiting' BY <1>1, <1>2, <1>3, <1>9, SameWindow
  <1>11. Fenced' /\ Near' BY <1>2, <1>3, <1>9, SameFences
  <1>12. HeapGrows /\ NoneEnds /\ insts' = insts BY <1>2, <1>3, HeapStays DEF heap
  <1>13. Typed'
    <2>1. Written BY <1>3, Unwritten
    <2>2. /\ DOMAIN regs' = 0 .. NumRegs - 1
          /\ \A r \in DOMAIN regs' : \E v : regs'[r] = v /\ ValueOK(v)'
      BY <1>2, <1>12, <2>1, RegsKept DEF Written, Typed
    <2> QED BY <1>2, <1>3, <1>9, <1>12, <2>2, TypedAgain DEF HeapGrows, Typed
  <1>14. ASSUME NEW i \in 1 .. Len(native) - 1
         PROVE  /\ \E m : m = native[i] /\ NativeEntry(m)'
                /\ Dropper(native[i]) =>
                     Ctx'[native[i].depth + 1].base = Ctx[native[i].depth + 1].base
    <2>1. i \in DOMAIN native BY <1>4
    <2>2. native[i].op # "call" => native[i].depth \in 1 .. Len(frames) BY <1>1, BelowTop
    <2>3. NativeEntry(native[i]) BY <1>2, <2>1 DEF Entries
    <2>4. native[i].op = "make" => ~insts'[native[i].id].made /\ ~insts'[native[i].id].literal
      BY <1>12, <2>3, EntryOps DEF MakeOK
    <2>5. native[i].op = "drop" => native[i].busy \in 0 .. Len(active')
      BY <1>3, <2>3, EntryOps DEF DropOK
    <2> QED BY <1>3, <1>9, <1>12, <2>1, <2>2, <2>4, <2>5, KeptBelow
  <1>15. Entries'
    <2>1. \A i \in DOMAIN native' : \E m : m = native'[i] /\ NativeEntry(m)'
      BY <1>4, <1>14
    <2> QED BY <2>1 DEF Entries
  <1>16. \A i \in DOMAIN native' : i \in DOMAIN native /\ native'[i] = native[i] BY <1>4
  <1>17. Busy'
    <2>1. ASSUME NEW i \in 1 .. Len(native') - 1, Dropper(native'[i])
          PROVE  DropsBelow(active', native'[i].busy, Ctx'[native'[i].depth + 1].base)
      <3>1. i \in 1 .. Len(native) - 1 /\ native'[i] = native[i] BY <1>4
      <3>2. DropsBelow(active, native[i].busy, Ctx[native[i].depth + 1].base)
        BY <1>2, <2>1, <3>1 DEF Busy
      <3> QED BY <1>3, <1>14, <2>1, <3>1, <3>2
    <2>2. native' # <<>> => ~Dropper(native'[Len(native')])
      <3> HAVE native' # <<>>
      <3>1. Len(native') # 0 BY <1>5, TheNative
      <3>2. Len(native) > 1 /\ native'[Len(native')] = native[Len(native) - 1] BY <1>4, <3>1
      <3> QED BY <1>1, <3>2, BelowTop DEF Dropper
    <2>3. \A i, j \in DOMAIN native' : i < j /\ Dropper(native'[i]) /\ Dropper(native'[j]) =>
            native'[i].busy < native'[j].busy
      BY <1>2, <1>16 DEF Busy
    <2> QED BY <2>1, <2>2, <2>3 DEF Busy
  <1>18. Listing' /\ Unique'
    BY <1>2, <1>3, <1>12, <1>16 DEF Listing, Listed, Unique
  <1>19. Counted'
    <2>1. \A b : BeingDropped(native', b) <=> BeingDropped(native, b)
      <3> TAKE b
      <3>1. BeingDropped(native', b) => BeingDropped(native, b)
        BY <1>16 DEF BeingDropped
      <3>2. BeingDropped(native, b) => BeingDropped(native', b)
        <4> HAVE BeingDropped(native, b)
        <4>1. PICK i \in DOMAIN native : Dropper(native[i]) /\ native[i].busy = b
          BY DEF BeingDropped
        <4>2. i # Len(native) BY <1>1, <4>1
        <4>3. i \in DOMAIN native' BY <1>4, <4>2
        <4> QED BY <1>16, <4>1, <4>3 DEF BeingDropped
      <3> QED BY <3>1, <3>2
    <2> QED BY <1>2, <1>3, <1>12, <2>1 DEF Counted
  <1> QED BY <1>5, <1>9, <1>10, <1>11, <1>13, <1>15, <1>17, <1>18, <1>19 DEF DInv

LEMMA MadeKeeps ==
  ASSUME DInv, Made
  PROVE  DInv'
PROOF
  <1> DEFINE m == native[Len(native)]
             a == [addr |-> Reg(m.start - 1), id |-> m.id]
  <1>1. /\ native # <<>> /\ m.op = "make" /\ Last(native) = m
        /\ native' = Front(native)
        /\ cur' = [cur EXCEPT !.top = m.start]
        /\ insts' = [insts EXCEPT ![m.id].field = IF m.asked THEN regs[Reg(m.start)] # Invalid ELSE @,
                                  ![m.id].made = TRUE]
        /\ active' = IF insts[m.id].of.drop THEN Append(active, a) ELSE active
        /\ UNCHANGED <<regs, frames, implicit, args, scopes, bound, status, missed>>
    BY DEF Made, Doing, Last
  <1>2. /\ Inv /\ Typed /\ Windows /\ Waiting /\ Entries /\ Links /\ Ends /\ Listing
        /\ Busy /\ Unique /\ Counted /\ Fenced /\ Near /\ Scoped
    BY DEF DInv
  <1>3. /\ Len(native) \in Nat /\ Len(native) >= 1 /\ Len(native') = Len(native) - 1
        /\ DOMAIN native = 1 .. Len(native) /\ DOMAIN native' = 1 .. Len(native) - 1
        /\ \A i \in 1 .. Len(native) - 1 : native'[i] = native[i]
    BY <1>1, <1>2, OneLess
  <1>4. Inv' /\ Links' /\ Ends'
    BY <1>1, PopLinks
  <1>5. m.depth = Depth /\ MakeOK(m)
    <2>1. Len(native) \in DOMAIN native BY <1>3
    <2> QED BY <1>1, <1>2, <2>1, BelowTop, EntryOps DEF Entries
  <1>6. /\ Depth = Len(frames) + 1 /\ Depth \in 1 .. MaxDepth + 1 /\ Len(frames) \in Nat
        /\ Ctx[Depth] = cur /\ Depth' = Depth /\ Ctx'[Depth] = cur'
        /\ \A k \in 1 .. Len(frames) : Ctx'[k] = Ctx[k]
    BY <1>1, <1>2, TheContexts, Stayed
  <1>7. cur \in Contexts /\ Laid(Depth, cur) BY <1>2, LaidHere
  <1>8. /\ m.id \in DOMAIN insts /\ ~insts[m.id].made /\ ~insts[m.id].literal
        /\ m.start \in 1 .. Width - 1 /\ m.asked \in BOOLEAN
        /\ cur.code.at \in Running /\ cur.low < m.start /\ m.start <= cur.low + MaxTemps[Depth]
        /\ \A b \in DOMAIN cur.blocks : cur.blocks[b].at < m.start
    BY <1>5, <1>6 DEF MakeOK, MakesIn
  <1>9. status \notin {"over", "aborted"} BY <1>1, <1>2 DEF Ends
  <1>10. PICK i0, s0 : i0 = m.id /\ s0 = m.start OBVIOUS
  <1>11. /\ s0 \in Nat /\ s0 >= 1 /\ s0 < Width /\ cur.low \in Nat /\ cur.base \in Nat
         /\ cur.blocks \in Seq([at : Nat, since : Nat]) /\ DOMAIN cur.blocks = 1 .. Len(cur.blocks)
         /\ \A b \in DOMAIN cur.blocks : cur.blocks[b].at \in Nat
         /\ Width \in Nat
    <2>1. s0 \in 1 .. Width - 1 BY <1>8, <1>10
    <2>2. Width \in Nat BY Sizes
    <2>3. s0 \in Nat /\ s0 >= 1 /\ s0 < Width BY ONLY <2>1, <2>2
    <2>4. PICK x : x = cur OBVIOUS
    <2>5. x \in Contexts BY <1>7, <2>4
    <2>6. /\ x.low \in Nat /\ x.base \in Nat
          /\ x.blocks \in Seq([at : Nat, since : Nat]) /\ DOMAIN x.blocks = 1 .. Len(x.blocks)
          /\ \A b \in DOMAIN x.blocks : x.blocks[b].at \in Nat
      BY <2>5, ContextFields
    <2> QED BY <2>2, <2>3, <2>4, <2>6
  <1>12. /\ cur' \in Contexts /\ Beside(cur, cur') /\ Alike(cur, cur') /\ Laid(Depth, cur')
    <2>1. cur.low <= s0 /\ s0 <= cur.low + MaxTemps[Depth] /\ \A b \in DOMAIN cur.blocks : cur.blocks[b].at <= s0
      <3>1. cur.low < s0 /\ s0 <= cur.low + MaxTemps[Depth] /\ \A b \in DOMAIN cur.blocks : cur.blocks[b].at < s0
        BY <1>8, <1>10
      <3> HIDE DEF m
      <3>2. PICK x, y : x = cur.low /\ y = s0 OBVIOUS
      <3>3. x \in Nat /\ y \in Nat /\ x < y BY <1>11, <3>1, <3>2
      <3>4. x <= y BY ONLY <3>3
      <3>5. \A b \in DOMAIN cur.blocks : cur.blocks[b].at <= s0
        <4> TAKE b \in DOMAIN cur.blocks
        <4>1. cur.blocks[b].at \in Nat /\ cur.blocks[b].at < s0 /\ s0 \in Nat BY <1>11, <3>1
        <4> QED BY ONLY <4>1
      <3> QED BY <3>1, <3>2, <3>4, <3>5
    <2>2. cur' = [cur EXCEPT !.top = s0] BY <1>1, <1>10
    <2> QED BY <1>6, <1>7, <1>8, <1>11, <2>1, <2>2, TopMoved
  <1>13. Steady BY <1>1, <1>12 DEF Steady
  <1>14. Windows' /\ Waiting' BY <1>1, <1>2, <1>9, <1>12, <1>13, SteadyWindows
  <1>15. Scoped' BY <1>1, <1>2, <1>13, SteadyScopes
  <1>16. insts \in Seq(Instances) /\ bound \in [Types -> 0 .. Len(insts)]
         /\ active \in Seq([addr : 0 .. NumRegs - 1, id : Nat])
    BY <1>2 DEF Typed
  <1>17. /\ insts' \in Seq(Instances) /\ Len(insts') = Len(insts) /\ DOMAIN insts' = DOMAIN insts
         /\ i0 \in DOMAIN insts
         /\ \A j \in DOMAIN insts : insts'[j].of = insts[j].of /\ insts'[j].drops = insts[j].drops
                                    /\ insts'[j].literal = insts[j].literal
                                    /\ (j # i0 => insts'[j] = insts[j])
         /\ insts'[i0].made
    <2>1. PICK f \in BOOLEAN : insts' = [insts EXCEPT ![i0].field = f, ![i0].made = TRUE]
      <3>0. i0 \in DOMAIN insts /\ insts \in Seq(Instances) BY <1>8, <1>10, <1>16
      <3>1. insts[i0] \in Instances BY <3>0
      <3>2. insts[i0].field \in BOOLEAN BY <3>1 DEF Instances
      <3>3. insts' = [insts EXCEPT ![i0].field = IF m.asked THEN regs[Reg(m.start)] # Invalid ELSE @,
                                   ![i0].made = TRUE]
        BY <1>1, <1>10
      <3>4. PICK g : g = (regs[Reg(m.start)] # Invalid) OBVIOUS
      <3>5. g \in BOOLEAN BY <3>4
      <3>6. PICK q \in BOOLEAN : q = m.asked BY <1>8
      <3>7. PICK f \in BOOLEAN : f = IF q THEN g ELSE insts[i0].field BY <3>2, <3>5
      <3>8. insts' = [insts EXCEPT ![i0].field = IF q THEN g ELSE @, ![i0].made = TRUE]
        BY <3>3, <3>4, <3>6
      <3>9. [insts EXCEPT ![i0].field = IF q THEN g ELSE @, ![i0].made = TRUE]
             = [insts EXCEPT ![i0].field = f, ![i0].made = TRUE]
        BY ONLY <3>7
      <3> QED BY <3>7, <3>8, <3>9
    <2> DEFINE e == [insts[i0] EXCEPT !.field = f, !.made = TRUE]
    <2>2. i0 \in DOMAIN insts BY <1>8, <1>10
    <2>3. insts' = [insts EXCEPT ![i0] = e] BY <2>1, <2>2
    <2>4. insts[i0] \in Instances BY <1>16, <2>2
    <2>5. e \in Instances /\ e.made /\ e.of = insts[i0].of /\ e.drops = insts[i0].drops
          /\ e.literal = insts[i0].literal
      BY <2>4 DEF Instances
    <2> HIDE DEF e, m, a
    <2>6. insts' \in Seq(Instances) /\ Len(insts') = Len(insts) /\ DOMAIN insts' = DOMAIN insts
      BY <1>16, <2>2, <2>3, <2>5
    <2>7. insts'[i0] = e BY <2>2, <2>3
    <2>8. \A j \in DOMAIN insts : j # i0 => insts'[j] = insts[j] BY <2>2, <2>3
    <2>9. \A j \in DOMAIN insts : insts'[j].of = insts[j].of /\ insts'[j].drops = insts[j].drops
                                  /\ insts'[j].literal = insts[j].literal
      BY <2>5, <2>7, <2>8
    <2> QED BY <2>2, <2>5, <2>6, <2>7, <2>8, <2>9
  <1>18. HeapGrows BY <1>1, <1>16, <1>17 DEF HeapGrows
  <1>19. /\ a.addr = cur.base + (s0 - 1) /\ a.id = i0
         /\ a \in [addr : 0 .. NumRegs - 1, id : Nat]
    <2>1. s0 - 1 \in Nat /\ s0 - 1 < Width BY <1>11, Sizes
    <2>2. Reg(s0 - 1) \in 0 .. NumRegs - 1 BY <1>2, <1>9, <2>1, InThisWindow
    <2>3. i0 \in Nat BY <1>16, <1>17
    <2> QED BY <1>10, <2>2, <2>3 DEF Reg
  <1>20. PICK A, n : A = active' /\ n = Len(active) OBVIOUS
  <1> HIDE DEF a
  <1>21. /\ n \in Nat /\ DOMAIN active = 1 .. n
         /\ \/ A = active /\ ~insts[i0].of.drop
            \/ /\ Len(A) = n + 1 /\ DOMAIN A = 1 .. n + 1 /\ A[n + 1] = a /\ insts[i0].of.drop
               /\ \A j \in 1 .. n : A[j] = active[j]
         /\ A \in Seq([addr : 0 .. NumRegs - 1, id : Nat])
    <2>1. A = IF insts[i0].of.drop THEN Append(active, a) ELSE active BY <1>1, <1>10, <1>20
    <2> DEFINE S == [addr : 0 .. NumRegs - 1, id : Nat]
    <2>2. active \in Seq(S) /\ a \in S BY <1>16, <1>19
    <2> HIDE DEF m, S
    <2>3. n \in Nat /\ DOMAIN active = 1 .. n BY <1>20, <2>2
    <2>4. CASE ~insts[i0].of.drop BY <2>1, <2>2, <2>3, <2>4 DEF S
    <2>5. CASE insts[i0].of.drop
      <3>1. A = Append(active, a) BY <2>1, <2>5
      <3>2. /\ Len(A) = n + 1 /\ DOMAIN A = 1 .. n + 1 /\ A[n + 1] = a /\ A \in Seq(S)
            /\ \A j \in 1 .. n : A[j] = active[j]
        BY ONLY <1>20, <2>2, <2>3, <3>1
      <3> QED BY <2>3, <2>5, <3>2 DEF S
    <2> QED BY <2>4, <2>5
  <1> HIDE DEF m
  <1>22. /\ \A j \in DOMAIN active : j \in DOMAIN A /\ A[j] = active[j]
         /\ \A j \in DOMAIN A : j \in DOMAIN active \/ (j = n + 1 /\ A[j] = a /\ insts[i0].of.drop)
         /\ Len(A) \in Nat /\ Len(A) >= n /\ DOMAIN A = 1 .. Len(A)
         /\ Len(A) \in {n, n + 1}
    BY <1>20, <1>21
  <1>23. Typed'
    <2>1. Written BY <1>1, Unwritten
    <2>2. /\ DOMAIN regs' = 0 .. NumRegs - 1
          /\ \A r \in DOMAIN regs' : \E v : regs'[r] = v /\ ValueOK(v)'
      BY <1>2, <1>18, <2>1, RegsKept DEF Written, Typed
    <2>3. active' \in Seq([addr : 0 .. NumRegs - 1, id : Nat]) BY <1>20, <1>21
    <2> QED BY <1>1, <1>2, <1>12, <1>18, <2>2, <2>3, TypedAgain DEF HeapGrows, Typed
  <1>24. ASSUME NEW i \in 1 .. Len(native) - 1
         PROVE  /\ i \in DOMAIN native /\ i # Len(native)
                /\ \E x : x = native[i] /\ NativeEntry(x)'
                /\ Dropper(native[i]) =>
                     Ctx'[native[i].depth + 1].base = Ctx[native[i].depth + 1].base
                /\ native[i].op = "make" => native[i].id # i0
                /\ Dropper(native[i]) => native[i].busy \in 1 .. n /\ native[i].depth + 1 \in 1 .. Depth
    <2>1. i \in DOMAIN native /\ i # Len(native) /\ Len(native) \in DOMAIN native BY <1>3
    <2>2. native[i].op # "call" => native[i].depth \in 1 .. Len(frames)
      BY <1>1, BelowTop DEF m
    <2>3. NativeEntry(native[i]) BY <1>2, <2>1 DEF Entries
    <2>4. native[i].op = "make" => native[i].id # i0
      BY <1>1, <1>2, <1>10, <2>1 DEF Unique, m
    <2>5. native[i].op = "make" => ~insts'[native[i].id].made /\ ~insts'[native[i].id].literal
      BY <1>17, <2>3, <2>4, EntryOps DEF MakeOK
    <2>6. native[i].op = "drop" => native[i].busy \in 0 .. n
      BY <1>20, <2>3, EntryOps DEF DropOK
    <2>7. native[i].op = "drop" => native[i].busy \in 0 .. Len(active')
      <3> HAVE native[i].op = "drop"
      <3>1. PICK u : u = native[i].busy OBVIOUS
      <3>2. u \in 0 .. n BY <2>6, <3>1
      <3>3. PICK l : l = Len(A) OBVIOUS
      <3>4. l \in Nat /\ l >= n /\ n \in Nat BY <1>21, <1>22, <3>3
      <3>5. u \in 0 .. l BY ONLY <3>2, <3>4
      <3>6. Len(active') = l BY <1>20, <3>3
      <3> QED BY <3>1, <3>5, <3>6
    <2>8. cur'.base = cur.base BY <1>12 DEF Beside
    <2>9. /\ \E x : x = native[i] /\ NativeEntry(x)'
          /\ Dropper(native[i]) =>
               Ctx'[native[i].depth + 1].base = Ctx[native[i].depth + 1].base
      BY <1>1, <1>18, <2>1, <2>2, <2>5, <2>7, <2>8, KeptBelow
    <2>10. Dropper(native[i]) => native[i].busy \in 1 .. n /\ native[i].depth + 1 \in 1 .. Depth
      <3> HAVE Dropper(native[i])
      <3>1. PICK u, d : u = native[i].busy /\ d = native[i].depth OBVIOUS
      <3>2. u \in 0 .. n /\ u # 0 /\ d \in 1 .. Len(frames) BY <2>2, <2>6, <3>1 DEF Dropper
      <3>3. n \in Nat /\ Len(frames) \in Nat /\ Depth = Len(frames) + 1 BY <1>6, <1>21
      <3>4. u \in 1 .. n /\ d + 1 \in 1 .. Depth BY ONLY <3>2, <3>3
      <3> QED BY <3>1, <3>4
    <2> QED BY <2>1, <2>4, <2>9, <2>10
  <1>25. Entries'
    <2>1. \A i \in DOMAIN native' : \E x : x = native'[i] /\ NativeEntry(x)'
      BY <1>3, <1>24
    <2> QED BY <2>1 DEF Entries
  <1>26. \A i \in DOMAIN native' : i \in 1 .. Len(native) - 1 /\ i \in DOMAIN native /\ native'[i] = native[i] BY <1>3
  <1>27. \A k \in 1 .. Depth : /\ Ctx[k].base \in Nat /\ Ctx[k].base <= cur.base
                               /\ Ctx'[k].base = Ctx[k].base /\ Ctx'[k].since = Ctx[k].since
                               /\ Ctx'[k].blocks = Ctx[k].blocks
    <2> TAKE k \in 1 .. Depth
    <2>1. Ctx[k].base \in Nat BY <1>2, TheContexts, ContextFields
    <2>2. CASE k = Depth BY <1>6, <1>12, <2>1, <2>2 DEF Alike
    <2>3. CASE k \in 1 .. Len(frames)
      <3>1. k < Depth /\ Depth \in 1 .. Depth BY <1>6, <2>3
      <3> QED BY <1>2, <1>6, <2>1, <2>3, <3>1 DEF Windows
    <2> QED BY <1>6, <2>2, <2>3
  <1>28. a.addr \in Nat /\ cur.base <= a.addr /\ a.addr + 1 < cur.base + Width
    <2>1. s0 \in Nat /\ s0 >= 1 /\ s0 < Width /\ Width \in Nat /\ cur.base \in Nat BY <1>11, Sizes
    <2>2. PICK w : w = a.addr OBVIOUS
    <2>3. w = cur.base + (s0 - 1) BY <1>19, <2>2
    <2>4. w \in Nat /\ cur.base <= w /\ w + 1 < cur.base + Width BY ONLY <2>1, <2>3
    <2> QED BY <2>2, <2>4
  <1>29. Busy'
    <2>1. ASSUME NEW i \in 1 .. Len(native') - 1, Dropper(native'[i])
          PROVE  DropsBelow(A, native'[i].busy, Ctx'[native'[i].depth + 1].base)
      <3>1. i \in 1 .. Len(native) - 1 /\ native'[i] = native[i] BY <1>3
      <3> DEFINE b == native[i].busy  base == Ctx[native[i].depth + 1].base
      <3>2. DropsBelow(active, b, base)
        BY <1>2, <2>1, <3>1 DEF Busy
      <3>3. b \in 1 .. n /\ native[i].depth + 1 \in 1 .. Depth /\ Ctx'[native[i].depth + 1].base = base
        BY <1>24, <2>1, <3>1
      <3>4. base \in Nat /\ base <= a.addr
        <4>1. base \in Nat /\ base <= cur.base BY <1>27, <3>3
        <4>2. cur.base \in Nat /\ cur.base <= a.addr /\ a.addr \in Nat BY <1>11, <1>28
        <4>3. PICK x, y, z : x = base /\ y = cur.base /\ z = a.addr OBVIOUS
        <4>4. x \in Nat /\ y \in Nat /\ z \in Nat /\ x <= y /\ y <= z BY <4>1, <4>2, <4>3
        <4>5. x \in Nat /\ x <= z BY ONLY <4>4
        <4> QED BY <4>3, <4>5
      <3> HIDE DEF b, base
      <3>5. A[b].addr < base BY <1>21, <1>22, <3>2, <3>3 DEF DropsBelow
      <3>6. ASSUME NEW j \in b + 1 .. Len(A) PROVE A[j].addr >= base
        <4>1. j \in DOMAIN A BY <1>22, <3>3
        <4>2. CASE j \in DOMAIN active
          <5>1. j \in b + 1 .. Len(active) BY <1>20, <1>21, <3>3, <4>2
          <5> QED BY <1>22, <3>2, <4>2, <5>1 DEF DropsBelow
        <4>3. CASE A[j] = a BY <3>4, <4>3, <1>28
        <4> QED BY <1>22, <4>1, <4>2, <4>3
      <3>7. DropsBelow(A, b, base) BY <3>5, <3>6 DEF DropsBelow
      <3> QED BY <3>1, <3>3, <3>7 DEF b
    <2>2. native' # <<>> => ~Dropper(native'[Len(native')])
      <3> HAVE native' # <<>>
      <3>1. Len(native') # 0 BY <1>4, TheNative
      <3>2. Len(native) > 1 /\ native'[Len(native')] = native[Len(native) - 1] BY <1>3, <3>1
      <3> QED BY <1>1, <3>2, BelowTop DEF Dropper, m
    <2>3. \A i, j \in DOMAIN native' : i < j /\ Dropper(native'[i]) /\ Dropper(native'[j]) =>
            native'[i].busy < native'[j].busy
      BY <1>2, <1>26 DEF Busy
    <2> QED BY <1>20, <2>1, <2>2, <2>3 DEF Busy
  <1>30. Listing'
    <2>1. ASSUME NEW j \in DOMAIN A
          PROVE A[j].id \in DOMAIN insts' /\ insts'[A[j].id].made /\ insts'[A[j].id].of.drop
      <3>1. CASE j \in DOMAIN active
        <4>1. PICK l : l = active[j].id OBVIOUS
        <4>2. l \in DOMAIN insts /\ insts[l].made /\ insts[l].of.drop
          BY <1>2, <3>1, <4>1 DEF Listing, Listed
        <4> QED BY <1>17, <1>22, <3>1, <4>1, <4>2
      <3>2. CASE A[j] = a /\ insts[i0].of.drop BY <1>17, <1>19, <3>2
      <3> QED BY <1>22, <3>1, <3>2
    <2> QED BY <1>20, <2>1 DEF Listing, Listed
  <1>31. Unique'
    <2>1. \A i \in DOMAIN insts' : insts'[i].made => ~insts'[i].literal
      BY <1>2, <1>8, <1>10, <1>17 DEF Unique
    <2> QED BY <1>2, <1>26, <2>1 DEF Unique
  <1>32. Counted'
    <2> SUFFICES ASSUME ~missed
                 PROVE  /\ \A i, j \in DOMAIN A : A[i].id = A[j].id => i = j
                        /\ \A j \in DOMAIN A :
                             insts'[A[j].id].drops = IF BeingDropped(native', j) THEN 1 ELSE 0
                        /\ \A i \in DOMAIN insts' :
                             /\ insts'[i].drops <= 1
                             /\ ~insts'[i].made => insts'[i].drops = 0
                             /\ insts'[i].made /\ insts'[i].of.drop /\ insts'[i].drops = 0 =>
                                  \E j \in DOMAIN A : A[j].id = i
      <3>1. missed' = missed /\ A = active' BY <1>1, <1>20
      <3> QED BY <3>1 DEF Counted, BeingDropped
    <2>0. ~insts[i0].made /\ i0 \in DOMAIN insts BY <1>8, <1>10
    <2>1. \A j \in DOMAIN active : active[j].id # i0 /\ active[j].id \in DOMAIN insts
      BY <1>2, <2>0 DEF Listing, Listed
    <2>2. \A b : BeingDropped(native', b) <=> BeingDropped(native, b)
      <3> TAKE b
      <3>1. BeingDropped(native', b) => BeingDropped(native, b)
        BY <1>26 DEF BeingDropped
      <3>2. BeingDropped(native, b) => BeingDropped(native', b)
        <4> HAVE BeingDropped(native, b)
        <4>1. PICK i \in DOMAIN native : Dropper(native[i]) /\ native[i].busy = b
          BY DEF BeingDropped
        <4>2. i # Len(native) BY <1>1, <4>1 DEF Dropper, m
        <4>3. i \in DOMAIN native' BY <1>3, <4>2
        <4> QED BY <1>26, <4>1, <4>3 DEF BeingDropped
      <3> QED BY <3>1, <3>2
    <2>3. \A i, j \in DOMAIN A : A[i].id = A[j].id => i = j
      <3>1. \A i, j \in DOMAIN active : active[i].id = active[j].id => i = j BY <1>2 DEF Counted
      <3> QED BY <1>19, <1>22, <2>1, <3>1
    <2>4. ASSUME NEW j \in DOMAIN A
          PROVE  insts'[A[j].id].drops = IF BeingDropped(native', j) THEN 1 ELSE 0
      <3>1. CASE j \in DOMAIN active
        <4>1. insts[active[j].id].drops = IF BeingDropped(native, j) THEN 1 ELSE 0
          BY <1>2, <3>1 DEF Counted
        <4> QED BY <1>17, <1>22, <2>1, <2>2, <3>1, <4>1
      <3>2. CASE j = n + 1 /\ A[j] = a
        <4>1. insts[i0].drops = 0 BY <1>2, <2>0 DEF Counted
        <4>2. ~BeingDropped(native', j)
          <5> SUFFICES ASSUME NEW i \in DOMAIN native', Dropper(native'[i]), native'[i].busy = j
                       PROVE FALSE
            BY DEF BeingDropped
          <5>1. native'[i].busy \in 1 .. n BY <1>24, <1>26
          <5> QED BY <1>21, <3>2, <5>1
        <4> QED BY <1>17, <1>19, <3>2, <4>1, <4>2
      <3> QED BY <1>22, <3>1, <3>2
    <2>5. ASSUME NEW i \in DOMAIN insts'
          PROVE  /\ insts'[i].drops <= 1
                 /\ ~insts'[i].made => insts'[i].drops = 0
                 /\ insts'[i].made /\ insts'[i].of.drop /\ insts'[i].drops = 0 =>
                      \E j \in DOMAIN A : A[j].id = i
      <3>1. i \in DOMAIN insts /\ insts'[i].drops = insts[i].drops /\ insts'[i].of = insts[i].of
        BY <1>17
      <3>2. /\ insts[i].drops <= 1
            /\ ~insts[i].made => insts[i].drops = 0
            /\ insts[i].made /\ insts[i].of.drop /\ insts[i].drops = 0 =>
                 \E j \in DOMAIN active : active[j].id = i
        BY <1>2, <3>1 DEF Counted
      <3>3. CASE i = i0
        <4>1. insts[i0].of.drop => n + 1 \in DOMAIN A /\ A[n + 1].id = i0
          BY <1>19, <1>21
        <4> QED BY <1>17, <3>1, <3>2, <3>3, <4>1
      <3>4. CASE i # i0
        <4>1. insts'[i].made = insts[i].made BY <1>17, <3>1, <3>4
        <4> QED BY <1>22, <3>1, <3>2, <4>1
      <3> QED BY <3>3, <3>4
    <2> QED BY <2>3, <2>4, <2>5
  <1>33. ASSUME NEW limit, NEW since, Fence(active, limit, since), ~(a.addr < limit)
         PROVE  Fence(A, limit, since)
    <2> SUFFICES ASSUME NEW j \in DOMAIN A, A[j].addr < limit, NEW i \in 1 .. j
                 PROVE  A[i].id <= since
      BY DEF Fence
    <2>1. j \in DOMAIN active BY <1>22, <1>33
    <2>2. i \in DOMAIN active BY <1>21, <2>1
    <2> QED BY <1>22, <1>33, <2>1, <2>2 DEF Fence
  <1>34. Fenced'
    <2>1. \A k \in 2 .. Depth : Fence(A, Ctx'[k].base, Ctx'[k].since)
      <3> TAKE k \in 2 .. Depth
      <3>1. k \in 1 .. Depth BY <1>6
      <3>2. Ctx[k].base <= a.addr /\ Ctx[k].base \in Nat BY <1>11, <1>27, <1>28, <3>1
      <3>3. Fence(active, Ctx[k].base, Ctx[k].since) BY <1>2 DEF Fenced
      <3>4. ~(a.addr < Ctx[k].base) BY <1>28, <3>2
      <3> QED BY <1>27, <1>33, <3>1, <3>3, <3>4
    <2>2. \A k \in 1 .. Depth : FencedIn(A, Ctx'[k])
      <3> TAKE k \in 1 .. Depth
      <3> SUFFICES ASSUME NEW b \in DOMAIN Ctx[k].blocks
                   PROVE  Fence(A, Ctx[k].base + Ctx[k].blocks[b].at, Ctx[k].blocks[b].since)
        BY <1>27 DEF FencedIn
      <3> DEFINE l == Ctx[k].base + Ctx[k].blocks[b].at
      <3>1. Fence(active, l, Ctx[k].blocks[b].since) BY <1>2 DEF Fenced, FencedIn
      <3>2. Ctx[k].blocks[b].at \in Nat /\ Ctx[k].base \in Nat
        <4>1. Ctx[k] \in Contexts BY <1>2, TheContexts
        <4> QED BY <4>1, ContextFields
      <3>3. l \in Nat /\ l <= a.addr
        <4>1. CASE k = Depth
          <5>1. cur.blocks[b].at < s0 /\ cur.blocks[b].at \in Nat /\ l = cur.base + cur.blocks[b].at
            BY <1>6, <1>8, <1>10, <1>11, <4>1
          <5>2. PICK x : x = cur.blocks[b].at OBVIOUS
          <5>3. x < s0 /\ x \in Nat /\ l = cur.base + x /\ a.addr = cur.base + (s0 - 1)
            BY <1>19, <5>1, <5>2
          <5> HIDE DEF l
          <5> QED BY <1>11, <5>3
        <4>2. CASE k \in 1 .. Len(frames)
          <5>1. k < Depth /\ Depth \in 1 .. Depth BY <1>6, <4>2
          <5>2. l <= Ctx[Depth].base BY <1>2, <5>1 DEF Windows
          <5>3. l \in Nat BY <3>2
          <5> HIDE DEF l
          <5> QED BY <1>6, <1>11, <1>28, <5>2, <5>3
        <4> QED BY <1>6, <4>1, <4>2
      <3> HIDE DEF l
      <3>4. ~(a.addr < l) BY <1>28, <3>3
      <3>5. Fence(A, l, Ctx[k].blocks[b].since) BY <1>33, <3>1, <3>4
      <3> QED BY <3>5 DEF l
    <2> QED BY <1>6, <1>20, <2>1, <2>2 DEF Fenced
  <1>35. Near'
    <2>1. \A j \in DOMAIN A : A[j].addr + 1 < cur.base + Width
      <3>1. \A j \in DOMAIN active : active[j].addr + 1 < cur.base + Width BY <1>2 DEF Near
      <3> QED BY <1>22, <1>28, <3>1
    <2>2. ASSUME NEW k \in 1 .. Len(frames)
          PROVE  NearTo(A, Ctx'[k].base, Ctx'[k + 1].base)
      <3>1. k \in 1 .. Depth /\ k + 1 \in 1 .. Depth BY <1>6
      <3>2. NearTo(active, Ctx[k].base, Ctx[k + 1].base) BY <1>2 DEF Near
      <3>3. Ctx[k + 1].base \in Nat /\ Ctx[k + 1].base <= cur.base BY <1>27, <3>1
      <3>4. ~(a.addr < Ctx[k + 1].base) BY <1>11, <1>28, <3>3
      <3>5. ASSUME NEW j \in DOMAIN A, NEW i \in j .. Len(A), A[i].addr < Ctx[k + 1].base
            PROVE  A[j].addr + 1 < Ctx[k].base + Width
        <4>1. i \in DOMAIN A BY <1>22
        <4>2. i \in DOMAIN active BY <1>22, <3>4, <3>5, <4>1
        <4>3. j \in DOMAIN active /\ i \in j .. Len(active)
          <5>1. j \in 1 .. Len(A) /\ Len(A) \in Nat /\ i \in 1 .. n /\ i \in j .. Len(A) /\ n \in Nat
            BY <1>21, <1>22, <3>5, <4>2
          <5>2. j \in 1 .. n /\ i \in j .. n BY ONLY <5>1
          <5> QED BY <1>20, <1>21, <5>2
        <4> QED BY <1>22, <3>2, <3>5, <4>2, <4>3 DEF NearTo
      <3>6. NearTo(A, Ctx[k].base, Ctx[k + 1].base) BY <3>5 DEF NearTo
      <3> QED BY <1>27, <3>1, <3>6
    <2>3. cur'.base = cur.base BY <1>12 DEF Beside
    <2> QED BY <1>1, <1>20, <2>1, <2>2, <2>3 DEF Near
  <1> QED BY <1>4, <1>14, <1>15, <1>23, <1>25, <1>29, <1>30, <1>31, <1>32, <1>34, <1>35 DEF DInv
-----------------------------------------------------------------------------
(* Lists of instances that get shorter.                                    *)

LEMMA Shorter ==
  ASSUME NEW S, NEW l \in Seq(S), NEW s, Len(s) \in Nat, DOMAIN s = 1 .. Len(s),
         Len(s) <= Len(l), \A j \in 1 .. Len(s) : s[j] = l[j]
  PROVE  /\ \A limit, since : Fence(l, limit, since) => Fence(s, limit, since)
         /\ \A x : FencedIn(l, x) => FencedIn(s, x)
         /\ \A base, limit : NearTo(l, base, limit) => NearTo(s, base, limit)
PROOF
  <1>1. Len(l) \in Nat /\ DOMAIN l = 1 .. Len(l) OBVIOUS
  <1>2. \A j \in DOMAIN s : j \in DOMAIN l /\ s[j] = l[j] BY <1>1
  <1>3. ASSUME NEW limit, NEW since, Fence(l, limit, since)
        PROVE  Fence(s, limit, since)
    <2> SUFFICES ASSUME NEW j \in DOMAIN s, s[j].addr < limit, NEW i \in 1 .. j
                 PROVE  s[i].id <= since
      BY DEF Fence
    <2>1. i \in DOMAIN s OBVIOUS
    <2> QED BY <1>2, <1>3, <2>1 DEF Fence
  <1>4. \A x : FencedIn(l, x) => FencedIn(s, x) BY <1>3 DEF FencedIn
  <1>5. ASSUME NEW base, NEW limit, NearTo(l, base, limit)
        PROVE  NearTo(s, base, limit)
    <2> SUFFICES ASSUME NEW j \in DOMAIN s, NEW i \in j .. Len(s), s[i].addr < limit
                 PROVE  s[j].addr + 1 < base + Width
      BY DEF NearTo
    <2>1. i \in DOMAIN s /\ i \in j .. Len(l) BY <1>1
    <2>2. l[i].addr < limit BY <1>2, <2>1
    <2> QED BY <1>2, <1>5, <2>1, <2>2 DEF NearTo
  <1> QED BY <1>3, <1>4, <1>5

(* The links of a stack of C++ functions over depth activations.           *)
LinksOf(n, depth) ==
  /\ \A i \in 1 .. Len(n) - 1 : Linked(n[i], n[i + 1])
  /\ \A i, j \in DOMAIN n : i < j /\ Binds(n[i]) =>
       /\ Binds(n[j])
       /\ n[i].depth <= n[j].depth
       /\ n[j].op = "call" => n[i].depth < n[j].depth
  /\ n # <<>> /\ Binds(n[Len(n)]) => n[Len(n)].depth = depth

LEMMA TheLinks ==
  /\ Links <=> LinksOf(native, Depth)
  /\ Links' <=> LinksOf(native', Depth')
PROOF
  BY DEF Links, LinksOf, Linked, Binds

(* The topmost C++ function goes on.                                       *)
LEMMA TopReplaced ==
  ASSUME Inv, Links, native # <<>>, native[Len(native)].op # "call",
         NEW x, x.op = native[Len(native)].op, x.depth = native[Len(native)].depth,
         NEW n, n # <<>>, Len(n) = Len(native), DOMAIN n = 1 .. Len(native),
         \A i \in 1 .. Len(native) - 1 : n[i] = native[i],
         n[Len(native)] = x
  PROVE  LinksOf(n, Depth)
PROOF
  <1>1. Len(native) \in Nat /\ Len(native) >= 1 /\ DOMAIN native = 1 .. Len(native)
    BY TheNative
  <1>2. \A i \in DOMAIN n : \/ i \in 1 .. Len(native) - 1 /\ n[i] = native[i]
                            \/ i = Len(native) /\ n[i] = x
    BY <1>1
  <1>3. \A i \in DOMAIN n : /\ n[i].op = native[i].op /\ n[i].depth = native[i].depth
                            /\ Binds(n[i]) <=> Binds(native[i])
    BY <1>2 DEF Binds
  <1>4. ASSUME NEW i \in 1 .. Len(n) - 1 PROVE Linked(n[i], n[i + 1])
    <2>1. i \in 1 .. Len(native) - 1 /\ i + 1 \in DOMAIN n /\ n[i] = native[i] BY <1>1
    <2>2. Linked(native[i], native[i + 1]) BY <2>1 DEF Links
    <2>3. CASE i + 1 \in 1 .. Len(native) - 1 BY <1>2, <2>1, <2>2, <2>3
    <2>4. CASE i + 1 = Len(native)
      <3>1. native[i].op = "call" BY <2>2, <2>4 DEF Linked
      <3> QED BY <1>3, <2>1, <2>2, <3>1 DEF Linked
    <2>5. Len(native) \in Nat /\ i \in 1 .. Len(native) - 1 BY <1>1, <2>1
    <2>6. i + 1 \in 1 .. Len(native) - 1 \/ i + 1 = Len(native) BY ONLY <2>5
    <2> QED BY <2>3, <2>4, <2>6
  <1>5. ASSUME NEW i \in DOMAIN n, NEW j \in DOMAIN n, i < j, Binds(n[i])
        PROVE  /\ Binds(n[j])
               /\ n[i].depth <= n[j].depth
               /\ n[j].op = "call" => n[i].depth < n[j].depth
    <2>1. i \in DOMAIN native /\ j \in DOMAIN native /\ Binds(native[i]) BY <1>1, <1>3, <1>5
    <2>2. /\ Binds(native[j])
          /\ native[i].depth <= native[j].depth
          /\ native[j].op = "call" => native[i].depth < native[j].depth
      BY <1>5, <2>1 DEF Links
    <2> QED BY <1>3, <2>2
  <1>6. Binds(n[Len(n)]) => n[Len(n)].depth = Depth
    <2>1. Binds(native[Len(native)]) => native[Len(native)].depth = Depth BY DEF Links
    <2> QED BY <1>1, <1>3, <2>1
  <1> QED BY <1>4, <1>5, <1>6 DEF LinksOf

LEMMA DroppedKeeps ==
  ASSUME DInv, Dropped
  PROVE  DInv'
PROOF
  <1>1. /\ native # <<>> /\ Last(native).op = "drop" /\ Last(native).busy # 0
        /\ active' = Front(active)
        /\ native' = [native EXCEPT ![Len(native)].busy = 0]
        /\ UNCHANGED <<regs, cur, frames, implicit, args, scopes, heap, status, missed>>
    BY DEF Dropped, Doing
  <1>2. /\ Inv /\ Typed /\ Windows /\ Waiting /\ Entries /\ Links /\ Ends /\ Listing
        /\ Busy /\ Unique /\ Counted /\ Fenced /\ Near /\ Scoped
    BY DEF DInv
  <1>3. /\ Len(native) \in Nat /\ Len(native) >= 1 /\ DOMAIN native = 1 .. Len(native)
        /\ Last(native) = native[Len(native)] /\ \E S : native \in Seq(S)
    BY <1>1, <1>2, TheNative
  <1>4. PICK l : l = Len(native) OBVIOUS
  <1>5. PICK d : d = native[l] OBVIOUS
  <1>6. PICK x : x = [d EXCEPT !.busy = 0] OBVIOUS
  <1>7. d.op = "drop" /\ d.busy # 0 /\ l \in Nat /\ l >= 1 /\ l \in DOMAIN native
    BY <1>1, <1>3, <1>4, <1>5
  <1>8. d = [op |-> "drop", limit |-> d.limit, then |-> d.then, busy |-> d.busy, depth |-> d.depth]
    BY <1>1, <1>2, <1>3, <1>4, <1>5, OnDrop DEF Doing
  <1>9. /\ x.op = "drop" /\ x.limit = d.limit /\ x.then = d.then /\ x.busy = 0 /\ x.depth = d.depth
    BY <1>6, <1>8
  <1>10. /\ DOMAIN native' = 1 .. l /\ Len(native') = l /\ native' # <<>>
         /\ native'[l] = x
         /\ \A i \in 1 .. l - 1 : native'[i] = native[i]
    <2>1. native' = [native EXCEPT ![l] = x] BY <1>1, <1>4, <1>5, <1>6
    <2>2. DOMAIN native' = DOMAIN native BY <2>1
    <2>3. Inv' BY <1>2, DropSteps
    <2>4. PICK S : native' \in Seq(S) BY <2>3 DEF Inv, NativeOK
    <2>5. Len(native') = l BY <1>3, <1>4, <2>2, <2>4
    <2>6. native' # <<>> BY <1>7, <2>4, <2>5
    <2> QED BY <1>3, <1>4, <1>7, <2>1, <2>2, <2>5, <2>6
  <1>11. Inv' BY <1>2, DropSteps
  <1>12. Links'
    <2>1. Depth' = Depth BY <1>1 DEF Depth
    <2>2. /\ native[Len(native)].op = "drop" /\ x.op = native[Len(native)].op
          /\ x.depth = native[Len(native)].depth
      BY <1>4, <1>5, <1>7, <1>9
    <2>3. PICK n : n = native' OBVIOUS
    <2>4. /\ n # <<>> /\ Len(n) = Len(native) /\ DOMAIN n = 1 .. Len(native)
          /\ \A i \in 1 .. Len(native) - 1 : n[i] = native[i]
          /\ n[Len(native)] = x
      BY <1>4, <1>10, <2>3
    <2>5. LinksOf(n, Depth)
      BY <1>1, <1>2, <2>2, <2>4, TopReplaced
    <2>6. LinksOf(native', Depth) BY <2>3, <2>5
    <2> QED BY <2>1, <2>6, TheLinks
  <1>13. Ends'
    <2>1. status # "running" => native[1].op = "drop" /\ native[1].then \in {"clear", "destroy"}
      BY <1>1, <1>2 DEF Ends
    <2>2. native'[1].op = native[1].op /\ (native[1].op = "drop" => native'[1].then = native[1].then)
      <3>1. CASE l = 1 BY <1>5, <1>7, <1>9, <1>10, <3>1
      <3>2. CASE 1 \in 1 .. l - 1 BY <1>10, <3>2
      <3> QED BY <1>7, <3>1, <3>2
    <2>3. status \notin {"over", "aborted"} BY <1>1, <1>2 DEF Ends
    <2> QED BY <1>1, <1>10, <2>1, <2>2, <2>3 DEF Ends
  <1>14. PICK A, n : A = active' /\ n = Len(active) OBVIOUS
  <1>15. /\ n \in Nat /\ n >= 1 /\ DOMAIN active = 1 .. n /\ Len(A) = n - 1 /\ DOMAIN A = 1 .. n - 1
         /\ \A j \in 1 .. n - 1 : A[j] = active[j]
         /\ A \in Seq([addr : 0 .. NumRegs - 1, id : Nat])
         /\ d.busy = n
    <2> DEFINE S == [addr : 0 .. NumRegs - 1, id : Nat]
    <2>1. active \in Seq(S) BY <1>2 DEF Typed
    <2> HIDE DEF S
    <2>2. d.busy = n BY <1>1, <1>2, <1>4, <1>5, <1>7, <1>14 DEF Busy, Dropper
    <2>3. n \in Nat /\ DOMAIN active = 1 .. n BY <1>14, <2>1
    <2>4. n >= 1 /\ active # <<>> BY <1>7, <1>14, <2>1, <2>2, <2>3
    <2>5. A = Front(active) BY <1>1, <1>14
    <2>6. A \in Seq(S) /\ Len(A) = n - 1 BY <1>14, <2>1, <2>4, <2>5, FrontIsSeq
    <2>7. \A j \in 1 .. n - 1 : A[j] = active[j] BY <1>14, <2>1, <2>5, FrontAt
    <2> QED BY <2>2, <2>3, <2>4, <2>6, <2>7 DEF S
  <1>16. HeapGrows /\ NoneEnds BY <1>1, <1>2, HeapStays
  <1>17. Depth' = Depth /\ Ctx' = Ctx BY <1>1 DEF Depth, Ctx
  <1>18. Windows' /\ Waiting' /\ Scoped'
    <2>1. Windows' BY <1>1, <1>2, <1>17 DEF Windows, Laid
    <2>2. Waiting' BY <1>1, <1>2, <1>17 DEF Waiting, Waits
    <2>3. Scoped' BY <1>1, <1>2, <1>17 DEF Scoped, StartsIn, Ceiling
    <2> QED BY <2>1, <2>2, <2>3
  <1>19. Typed'
    <2>1. active' \in Seq([addr : 0 .. NumRegs - 1, id : Nat]) BY <1>14, <1>15
    <2>2. \A r \in DOMAIN regs' : ValueOK(regs[r]) <=> ValueOK(regs[r])'
      BY <1>1 DEF ValueOK, IsInst, heap
    <2>3. \A r \in DOMAIN regs' : \E v : regs'[r] = v /\ ValueOK(v)'
      BY <1>1, <1>2, <1>16, Unwritten, RegsKept DEF Written
    <2> QED BY <1>1, <1>2, <2>1, <2>3, TypedAgain DEF Typed, heap
  <1>20. \A i \in DOMAIN native' : \/ i \in 1 .. l - 1 /\ i \in DOMAIN native /\ native'[i] = native[i]
                                   \/ i = l /\ native'[i] = x
    BY <1>3, <1>4, <1>7, <1>10
  <1>21. ASSUME NEW i \in 1 .. l - 1
         PROVE  /\ i \in DOMAIN native /\ i < l
                /\ \E y : y = native[i] /\ NativeEntry(y)'
                /\ Dropper(native[i]) => /\ native[i].busy \in 1 .. n - 1
                                         /\ Ctx'[native[i].depth + 1].base = Ctx[native[i].depth + 1].base
    <2>1. i \in DOMAIN native /\ i < l BY <1>3, <1>4, <1>7
    <2>2. native[i].op # "call" => native[i].depth \in 1 .. Len(frames)
      BY <1>1, <1>4, <1>5, <1>7, BelowTop
    <2>3. NativeEntry(native[i]) BY <1>2, <2>1 DEF Entries
    <2>4. native[i].op = "make" => ~insts'[native[i].id].made /\ ~insts'[native[i].id].literal
      BY <1>1, <2>3, EntryOps DEF MakeOK, heap
    <2>5. native[i].op = "drop" => native[i].busy \in 0 .. n - 1
      <3> HAVE native[i].op = "drop"
      <3>1. PICK u : u = native[i].busy OBVIOUS
      <3>2. u \in 0 .. n BY <1>14, <2>3, <3>1, EntryOps DEF DropOK
      <3>3. u # 0 => u < n
        <4>1. Dropper(native[l]) BY <1>5, <1>7 DEF Dropper
        <4>2. u # 0 => Dropper(native[i]) BY <3>1 DEF Dropper
        <4> QED BY <1>2, <1>5, <1>7, <1>15, <2>1, <3>1, <4>1, <4>2 DEF Busy
      <3>4. u \in 0 .. n - 1 BY ONLY <1>15, <3>2, <3>3
      <3> QED BY <3>1, <3>4
    <2>6. native[i].op = "drop" => native[i].busy \in 0 .. Len(active')
      BY <1>14, <1>15, <2>5
    <2>7. cur'.base = cur.base BY <1>1
    <2>8. /\ \E y : y = native[i] /\ NativeEntry(y)'
          /\ Dropper(native[i]) =>
               Ctx'[native[i].depth + 1].base = Ctx[native[i].depth + 1].base
      BY <1>1, <1>16, <2>1, <2>2, <2>4, <2>6, <2>7, KeptBelow
    <2>9. Dropper(native[i]) => native[i].busy \in 1 .. n - 1
      <3> HAVE Dropper(native[i])
      <3>1. PICK u : u = native[i].busy OBVIOUS
      <3>2. u \in 0 .. n - 1 /\ u # 0 BY <2>5, <3>1 DEF Dropper
      <3>3. u \in 1 .. n - 1 BY ONLY <1>15, <3>2
      <3> QED BY <3>1, <3>3
    <2> QED BY <2>1, <2>8, <2>9
  <1>22. Entries'
    <2>1. NativeEntry(x)'
      <3>1. NativeEntry(d) BY <1>2, <1>5, <1>7 DEF Entries
      <3>2. DropOK(d) BY <1>7, <3>1, EntryOps
      <3>3. 0 \in 0 .. Len(active') BY <1>14, <1>15
      <3>4. Len(active)' = Len(active') OBVIOUS
      <3> QED BY <1>1, <1>9, <1>17, <3>2, <3>3 DEF NativeEntry, DropOK, DropsIn
    <2>2. \A i \in DOMAIN native' : \E y : y = native'[i] /\ NativeEntry(y)'
      BY <1>20, <1>21, <2>1
    <2> QED BY <2>2 DEF Entries
  <1>23. Busy'
    <2>1. ASSUME NEW i \in 1 .. Len(native') - 1, Dropper(native'[i])
          PROVE  DropsBelow(A, native'[i].busy, Ctx'[native'[i].depth + 1].base)
      <3>1. i \in 1 .. l - 1 /\ native'[i] = native[i] BY <1>10
      <3>2. PICK b, base : b = native[i].busy /\ base = Ctx[native[i].depth + 1].base OBVIOUS
      <3>3. DropsBelow(active, b, base) BY <1>2, <1>4, <2>1, <3>1, <3>2 DEF Busy
      <3>4. b \in 1 .. n - 1 /\ Ctx'[native[i].depth + 1].base = base
        BY <1>21, <2>1, <3>1, <3>2
      <3>5. \A j \in b + 1 .. Len(A) : j \in b + 1 .. Len(active) /\ j \in 1 .. n - 1
        <4>1. Len(A) = n - 1 /\ Len(active) = n BY <1>14, <1>15
        <4>2. n \in Nat /\ n >= 1 BY <1>15
        <4> QED BY ONLY <3>4, <4>1, <4>2
      <3>6. DropsBelow(A, b, base) BY <1>15, <3>3, <3>4, <3>5 DEF DropsBelow
      <3> QED BY <3>1, <3>2, <3>4, <3>6
    <2>2. ~Dropper(native'[Len(native')]) BY <1>9, <1>10 DEF Dropper
    <2>3. \A i, j \in DOMAIN native' : i < j /\ Dropper(native'[i]) /\ Dropper(native'[j]) =>
            native'[i].busy < native'[j].busy
      <3>1. ~Dropper(x) BY <1>9 DEF Dropper
      <3> QED BY <1>2, <1>20, <3>1 DEF Busy
    <2> QED BY <1>14, <2>1, <2>2, <2>3 DEF Busy
  <1>24. Listing'
    <2>1. \A j \in DOMAIN A : j \in DOMAIN active /\ A[j] = active[j] BY <1>15
    <2> QED BY <1>1, <1>2, <1>14, <2>1 DEF Listing, Listed, heap
  <1>25. Unique'
    <2>1. \A i \in DOMAIN native' : native'[i].op = "make" => i \in DOMAIN native /\ native'[i] = native[i]
      BY <1>9, <1>20
    <2> QED BY <1>1, <1>2, <2>1 DEF Unique, heap
  <1>26. Counted'
    <2> SUFFICES ASSUME ~missed
                 PROVE  /\ \A i, j \in DOMAIN A : A[i].id = A[j].id => i = j
                        /\ \A j \in DOMAIN A :
                             insts[A[j].id].drops = IF BeingDropped(native', j) THEN 1 ELSE 0
                        /\ \A i \in DOMAIN insts :
                             /\ insts[i].drops <= 1
                             /\ ~insts[i].made => insts[i].drops = 0
                             /\ insts[i].made /\ insts[i].of.drop /\ insts[i].drops = 0 =>
                                  \E j \in DOMAIN A : A[j].id = i
      <3>1. missed' = missed /\ A = active' /\ insts' = insts BY <1>1, <1>14 DEF heap
      <3> QED BY <3>1 DEF Counted, BeingDropped
    <2>1. \A j \in DOMAIN A : j \in DOMAIN active /\ A[j] = active[j] /\ j \in 1 .. n - 1 BY <1>15
    <2>2. \A b \in 1 .. n - 1 : BeingDropped(native', b) <=> BeingDropped(native, b)
      <3> TAKE b \in 1 .. n - 1
      <3>1. BeingDropped(native', b) => BeingDropped(native, b)
        <4>1. ~Dropper(x) BY <1>9 DEF Dropper
        <4> QED BY <1>20, <4>1 DEF BeingDropped
      <3>2. BeingDropped(native, b) => BeingDropped(native', b)
        <4> HAVE BeingDropped(native, b)
        <4>1. PICK i \in DOMAIN native : Dropper(native[i]) /\ native[i].busy = b
          BY DEF BeingDropped
        <4>2. b # n BY <1>15
        <4>3. i # l BY <1>5, <1>15, <4>1, <4>2
        <4>4. i \in 1 .. l - 1 /\ i \in DOMAIN native' BY <1>3, <1>4, <1>10, <4>3
        <4> QED BY <1>10, <4>1, <4>4 DEF BeingDropped
      <3> QED BY <3>1, <3>2
    <2>3. \A i, j \in DOMAIN A : A[i].id = A[j].id => i = j BY <1>2, <2>1 DEF Counted
    <2>4. \A j \in DOMAIN A : insts[A[j].id].drops = IF BeingDropped(native', j) THEN 1 ELSE 0
      BY <1>2, <2>1, <2>2 DEF Counted
    <2>5. ASSUME NEW i \in DOMAIN insts
          PROVE  /\ insts[i].drops <= 1
                 /\ ~insts[i].made => insts[i].drops = 0
                 /\ insts[i].made /\ insts[i].of.drop /\ insts[i].drops = 0 =>
                      \E j \in DOMAIN A : A[j].id = i
      <3>1. /\ insts[i].drops <= 1
            /\ ~insts[i].made => insts[i].drops = 0
            /\ insts[i].made /\ insts[i].of.drop /\ insts[i].drops = 0 =>
                 \E j \in DOMAIN active : active[j].id = i
        BY <1>2, <2>5 DEF Counted
      <3>2. n \in DOMAIN active /\ insts[active[n].id].drops = 1
        <4>1. BeingDropped(native, n) BY <1>5, <1>7, <1>15 DEF BeingDropped, Dropper
        <4>2. n \in DOMAIN active BY <1>15
        <4> QED BY <1>2, <4>1, <4>2 DEF Counted
      <3>3. ASSUME insts[i].drops = 0, NEW j \in DOMAIN active, active[j].id = i
            PROVE  j \in DOMAIN A /\ A[j].id = i
        <4>1. j # n BY <3>2, <3>3
        <4> QED BY <1>15, <3>3, <4>1
      <3> QED BY <3>1, <3>3
    <2> QED BY <2>3, <2>4, <2>5
  <1>27. Fenced' /\ Near'
    <2>1. active \in Seq([addr : 0 .. NumRegs - 1, id : Nat]) BY <1>2 DEF Typed
    <2>2. /\ \A limit, since : Fence(active, limit, since) => Fence(A, limit, since)
          /\ \A y : FencedIn(active, y) => FencedIn(A, y)
          /\ \A base, limit : NearTo(active, base, limit) => NearTo(A, base, limit)
      <3>1. Len(A) \in Nat /\ DOMAIN A = 1 .. Len(A) /\ Len(A) <= Len(active)
            /\ \A j \in 1 .. Len(A) : A[j] = active[j]
        BY <1>14, <1>15
      <3> QED BY <2>1, <3>1, Shorter
    <2>3. Fenced' BY <1>2, <1>14, <1>17, <2>2 DEF Fenced
    <2>4. \A j \in DOMAIN A : A[j].addr + 1 < cur.base + Width
      <3> TAKE j \in DOMAIN A
      <3>1. j \in DOMAIN active /\ A[j] = active[j] BY <1>15
      <3>2. active[j].addr + 1 < cur.base + Width BY <1>2, <3>1 DEF Near
      <3> QED BY <3>1, <3>2
    <2>5. Near' BY <1>1, <1>2, <1>14, <1>17, <2>2, <2>4 DEF Near
    <2> QED BY <2>3, <2>5
  <1> QED BY <1>11, <1>12, <1>13, <1>18, <1>19, <1>22, <1>23, <1>24, <1>25, <1>26, <1>27 DEF DInv
=============================================================================
