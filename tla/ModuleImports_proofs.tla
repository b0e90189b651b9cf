------------------------- MODULE ModuleImports_proofs -------------------------
(***************************************************************************)
(* Proofs about ModuleImports, for any files, programs and faults.         *)
(***************************************************************************)
EXTENDS ModuleImports, SequenceTheorems, TLAPS

(* Whatever happens to its file, a module being evaluated has its pending  *)
(* entry: only the end of its own evaluation takes it out.                 *)
EvaluatedIsPending ==
  \A i \in DOMAIN stack : pending[stack[i].file] > 0

IInv == TypeOK /\ NoCircularImport /\ EvaluatedIsPending

-----------------------------------------------------------------------------
(* The innermost VM moves on: the files on the stack stay as they are.     *)
LEMMA TopChanges ==
  ASSUME IInv, stack # <<>>, NEW new \in Seq(Frames), stack' = new,
         Len(new) = Len(stack),
         \A i \in DOMAIN stack : new[i].file = stack[i].file,
         pending' \in [Files -> 0 .. MaxPending],
         \A f \in Files : pending'[f] >= pending[f]
  PROVE  NoCircularImport' /\ EvaluatedIsPending'
<1>1. DOMAIN new = DOMAIN stack
  BY DEF IInv, TypeOK
<1>2. \A i \in DOMAIN stack : stack[i] \in Frames
  BY DEF IInv, TypeOK
<1>3. \A i \in DOMAIN stack : stack[i].file \in Files
  BY <1>2 DEF Frames
<1>4. NoCircularImport'
  BY <1>1 DEF IInv, NoCircularImport
<1>5. ASSUME NEW i \in DOMAIN new
      PROVE  pending'[new[i].file] > 0
  <2>1. new[i].file = stack[i].file /\ stack[i].file \in Files
    BY <1>1, <1>3
  <2>2. pending[stack[i].file] > 0
    BY <1>1 DEF IInv, EvaluatedIsPending
  <2>3. pending[stack[i].file] \in Nat /\ pending'[stack[i].file] \in Nat
    BY <2>1 DEF IInv, TypeOK
  <2> QED
    BY <2>1, <2>2, <2>3
<1> QED
  BY <1>4, <1>5 DEF EvaluatedIsPending

(* The frames and their elements.                                          *)
LEMMA TopFacts ==
  ASSUME TypeOK, stack # <<>>
  PROVE  /\ Len(stack) \in DOMAIN stack /\ Top \in Frames
         /\ Len(stack) \in Nat \ {0}
<1>1. stack \in Seq(Frames)
  BY DEF TypeOK
<1>2. Len(stack) \in Nat \ {0} /\ Len(stack) \in DOMAIN stack
  BY <1>1
<1> QED
  BY <1>1, <1>2 DEF Top

(* A change of the innermost frame that keeps its file.                    *)
LEMMA ExceptTop ==
  ASSUME TypeOK, stack # <<>>, NEW top \in Frames, top.file = Top.file
  PROVE  /\ [stack EXCEPT ![Len(stack)] = top] \in Seq(Frames)
         /\ Len([stack EXCEPT ![Len(stack)] = top]) = Len(stack)
         /\ \A i \in DOMAIN stack : [stack EXCEPT ![Len(stack)] = top][i].file = stack[i].file
<1>1. stack \in Seq(Frames) /\ Len(stack) \in DOMAIN stack
  BY TopFacts DEF TypeOK
<1> QED
  BY <1>1 DEF Top

(* The initial state satisfies the invariant.                              *)
LEMMA InitIInv == Init => IInv
<1> SUFFICES ASSUME Init PROVE IInv
  OBVIOUS
<1>1. <<>> \in Seq(Frames) /\ <<>> \in Seq(Files) /\ DOMAIN <<>> = {}
  OBVIOUS
<1>2. MaxPending \in Nat \ {0}
  BY ImportsAssumption
<1>3. disk \in [Files -> Nat]
  BY DEF Init, Absent
<1>4. pending \in [Files -> 0 .. MaxPending] /\ cached \in [Files -> Nat]
  BY <1>2 DEF Init, Absent
<1>5. /\ faults \in FaultSets /\ lastVersion \in [Files -> Nat] /\ running \in BOOLEAN
      /\ moduleError \in BOOLEAN /\ reports \in BOOLEAN
  BY <1>3 DEF Init
<1>6. mainTodo \in Seq(Files) /\ stack \in Seq(Frames)
  BY <1>1 DEF Init
<1>7. TypeOK
  BY <1>3, <1>4, <1>5, <1>6 DEF TypeOK
<1> QED
  BY <1>1, <1>7 DEF Init, IInv, NoCircularImport, EvaluatedIsPending

(* Steps that leave the stack and the pending imports alone.               *)
LEMMA SameStack ==
  ASSUME IInv, TypeOK', UNCHANGED <<stack, pending>>
  PROVE  IInv'
BY DEF IInv, NoCircularImport, EvaluatedIsPending

(* Files are written and deleted at any time.                              *)
LEMMA EnvironmentStep == IInv /\ Environment => IInv'
<1> SUFFICES ASSUME IInv, NEW f \in Files, Write(f) \/ Delete(f)
             PROVE  IInv'
  BY DEF Environment
<1>1. TypeOK
  BY DEF IInv
<1>2. lastVersion[f] + 1 \in Nat /\ 0 \in Nat
  BY <1>1 DEF TypeOK
<1>3. UNCHANGED <<faults, running, mainTodo, stack, pending, cached, moduleError, reports>>
  BY DEF Write, Delete, tables
<1>4. disk' \in [Files -> Nat] /\ lastVersion' \in [Files -> Nat]
  BY <1>1, <1>2 DEF TypeOK, Write, Delete, Absent
<1>5. TypeOK'
  BY <1>1, <1>3, <1>4 DEF TypeOK
<1> QED
  BY <1>3, <1>5, SameStack

(* A script or a line starts and finishes.                                 *)
LEMMA StartFinishStep == IInv /\ (Start \/ Finish) => IInv'
<1> SUFFICES ASSUME IInv, Start \/ Finish PROVE IInv'
  OBVIOUS
<1>1. TypeOK
  BY DEF IInv
<1>2. UNCHANGED <<faults, disk, lastVersion, stack, pending, cached, reports>>
  BY DEF Start, Finish, tables
<1>3. mainTodo' \in Seq(Files) /\ running' \in BOOLEAN /\ moduleError' \in BOOLEAN
  BY <1>1, ImportsAssumption DEF TypeOK, Start, Finish
<1>4. TypeOK'
  BY <1>1, <1>2, <1>3 DEF TypeOK
<1> QED
  BY <1>2, <1>4, SameStack

(* What Throw does: the innermost VM is over.                              *)
LEMMA ThrowFacts ==
  ASSUME IInv, Throw, pending' \in [Files -> 0 .. MaxPending],
         \A f \in Files : pending'[f] >= pending[f]
  PROVE  /\ stack' \in Seq(Frames) /\ mainTodo' \in Seq(Files) /\ running' \in BOOLEAN
         /\ reports' \in BOOLEAN /\ NoCircularImport' /\ EvaluatedIsPending'
<1>1. TypeOK
  BY DEF IInv
<1> reports' \in BOOLEAN
  BY DEF Throw
<1>2. CASE stack = <<>>
  <2>1. stack' = <<>> /\ running' = FALSE /\ mainTodo' = <<>>
    BY <1>2 DEF Throw
  <2>2. <<>> \in Seq(Files) /\ <<>> \in Seq(Frames) /\ DOMAIN <<>> = {}
    OBVIOUS
  <2> QED
    BY <2>1, <2>2 DEF NoCircularImport, EvaluatedIsPending
<1>3. CASE stack # <<>>
  <2> DEFINE top == [Top EXCEPT !.over = TRUE, !.whole = FALSE]
             new == [stack EXCEPT ![Len(stack)] = top]
  <2>1. Top \in Frames /\ Len(stack) \in DOMAIN stack
    BY <1>1, <1>3, TopFacts
  <2>2. top \in Frames /\ top.file = Top.file
    BY <2>1 DEF Frames
  <2>3. stack' = new
    BY <1>1, <1>3, <2>1 DEF Throw, Top, TypeOK
  <2>4. mainTodo' = mainTodo /\ running' = running
    BY <1>3 DEF Throw
  <2> HIDE DEF top
  <2>5. /\ new \in Seq(Frames) /\ Len(new) = Len(stack)
        /\ \A i \in DOMAIN stack : new[i].file = stack[i].file
    BY <1>1, <1>3, <2>2, ExceptTop
  <2> HIDE DEF new
  <2>6. NoCircularImport' /\ EvaluatedIsPending'
    BY <1>3, <2>3, <2>5, TopChanges
  <2> QED
    BY <1>1, <2>3, <2>4, <2>5, <2>6 DEF TypeOK
<1> QED
  BY <1>2, <1>3

(* What Continue does: the innermost VM is past its import.                *)
LEMMA AdvancedFacts ==
  ASSUME TypeOK, stack # <<>>, Todo # <<>>
  PROVE  /\ Advanced \in Seq(Frames) /\ Len(Advanced) = Len(stack)
         /\ \A i \in DOMAIN stack : Advanced[i].file = stack[i].file
<1> DEFINE top == [Top EXCEPT !.todo = Tail(@)]
<1>1. Top \in Frames /\ Len(stack) \in DOMAIN stack /\ stack \in Seq(Frames)
  BY TopFacts DEF TypeOK
<1>2. Top.todo \in Seq(Files) /\ Top.todo # <<>>
  BY <1>1 DEF Frames, Todo
<1>3. Tail(Top.todo) \in Seq(Files)
  BY <1>2
<1>4. top \in Frames /\ top.file = Top.file
  BY <1>1, <1>3 DEF Frames
<1>5. Advanced = [stack EXCEPT ![Len(stack)] = top]
  BY <1>1 DEF Advanced, Top
<1> HIDE DEF top
<1> QED
  BY <1>4, <1>5, ExceptTop

(* A circular import is cut off.                                           *)
LEMMA UsePendingStep ==
  ASSUME IInv, NEW f \in Files, UsePending(f)
  PROVE  IInv'
<1>1. TypeOK
  BY DEF IInv
<1>2. Throw /\ UNCHANGED <<faults, disk, lastVersion, pending, cached>> /\ moduleError' = TRUE
  BY DEF UsePending, tables
<1>3. pending' \in [Files -> 0 .. MaxPending] /\ \A g \in Files : pending'[g] >= pending[g]
  BY <1>1, <1>2 DEF TypeOK
<1>4. /\ stack' \in Seq(Frames) /\ mainTodo' \in Seq(Files) /\ running' \in BOOLEAN
      /\ reports' \in BOOLEAN /\ NoCircularImport' /\ EvaluatedIsPending'
  BY <1>2, <1>3, ThrowFacts
<1>5. TypeOK'
  BY <1>1, <1>2, <1>3, <1>4 DEF TypeOK
<1> QED
  BY <1>4, <1>5 DEF IInv

(* A module that is already there.                                         *)
LEMMA UseCachedStep ==
  ASSUME IInv, NEW f \in Files, UseCached(f)
  PROVE  IInv'
<1>1. TypeOK
  BY DEF IInv
<1>2. Continue /\ UNCHANGED <<faults, disk, lastVersion, pending, cached, moduleError, reports>> /\ Todo # <<>>
  BY DEF UseCached, tables, Executing
<1>3. CASE stack = <<>>
  <2>1. mainTodo' = Tail(mainTodo) /\ UNCHANGED <<stack, running>> /\ mainTodo # <<>>
    BY <1>2, <1>3 DEF Continue, Todo
  <2>2. mainTodo' \in Seq(Files)
    BY <1>1, <2>1 DEF TypeOK
  <2>3. TypeOK'
    BY <1>1, <1>2, <2>1, <2>2 DEF TypeOK
  <2> QED
    BY <1>2, <2>1, <2>3, SameStack
<1>4. CASE stack # <<>>
  <2>1. stack' = Advanced /\ UNCHANGED <<mainTodo, running>>
    BY <1>2, <1>4 DEF Continue
  <2>2. /\ Advanced \in Seq(Frames) /\ Len(Advanced) = Len(stack)
        /\ \A i \in DOMAIN stack : Advanced[i].file = stack[i].file
    BY <1>1, <1>2, <1>4, AdvancedFacts
  <2>3. pending' \in [Files -> 0 .. MaxPending] /\ \A g \in Files : pending'[g] >= pending[g]
    BY <1>1, <1>2 DEF TypeOK
  <2>4. NoCircularImport' /\ EvaluatedIsPending'
    BY <1>4, <2>1, <2>2, <2>3, TopChanges
  <2>5. TypeOK'
    BY <1>1, <1>2, <2>1, <2>2 DEF TypeOK
  <2> QED
    BY <2>4, <2>5 DEF IInv
<1> QED
  BY <1>3, <1>4

(* A missing file leaves a pending entry behind.                           *)
LEMMA UseMissingStep ==
  ASSUME IInv, NEW f \in Files, UseMissing(f)
  PROVE  IInv'
<1>1. TypeOK /\ MaxPending \in Nat
  BY ImportsAssumption DEF IInv
<1>2. Throw /\ UNCHANGED <<faults, disk, lastVersion, cached, moduleError>>
  BY DEF UseMissing
<1>3. pending' = [pending EXCEPT ![f] = IF @ < MaxPending THEN @ + 1 ELSE @]
  BY DEF UseMissing
<1>4. pending' \in [Files -> 0 .. MaxPending] /\ \A g \in Files : pending'[g] >= pending[g]
  BY <1>1, <1>3 DEF TypeOK
<1>5. /\ stack' \in Seq(Frames) /\ mainTodo' \in Seq(Files) /\ running' \in BOOLEAN
      /\ reports' \in BOOLEAN /\ NoCircularImport' /\ EvaluatedIsPending'
  BY <1>2, <1>4, ThrowFacts
<1>6. TypeOK'
  BY <1>1, <1>2, <1>4, <1>5 DEF TypeOK
<1> QED
  BY <1>5, <1>6 DEF IInv

(* A module is read: it was not pending, so it is not on the stack.        *)
LEMMA UseLoadStep ==
  ASSUME IInv, NEW f \in Files, NEW todo \in Programs, NEW result \in Results,
         UseLoad(f, todo, result)
  PROVE  IInv'
<1> DEFINE base == IF stack = <<>> THEN <<>> ELSE Advanced
           new == Frame(f, todo, result)
<1>1. TypeOK /\ NoCircularImport /\ EvaluatedIsPending /\ MaxPending \in Nat \ {0}
  BY ImportsAssumption DEF IInv
<1>2. /\ pending' = [pending EXCEPT ![f] = @ + 1] /\ ~(pending[f] > 0)
      /\ Todo # <<>> /\ stack' = Append(base, new)
      /\ UNCHANGED <<faults, disk, lastVersion, running, cached, moduleError>>
      /\ reports' = (reports \/ result # "good")
  BY DEF UseLoad, IsPending, Executing
<1>3. pending[f] = 0 /\ pending \in [Files -> 0 .. MaxPending]
  BY <1>1, <1>2 DEF TypeOK
<1>4. /\ pending' \in [Files -> 0 .. MaxPending] /\ pending'[f] > 0
      /\ \A g \in Files : pending'[g] >= pending[g]
  BY <1>1, <1>2, <1>3
<1>5. new \in Frames /\ new.file = f
  BY <1>1, ImportsAssumption DEF Frame, Frames, TypeOK
<1>6. stack \in Seq(Frames) /\ \A i \in DOMAIN stack : stack[i].file \in Files
  <2>1. stack \in Seq(Frames) /\ \A i \in DOMAIN stack : stack[i] \in Frames
    BY <1>1 DEF TypeOK
  <2> QED
    BY <2>1 DEF Frames
<1>7. /\ base \in Seq(Frames) /\ Len(base) = Len(stack)
      /\ \A i \in DOMAIN stack : base[i].file = stack[i].file
  <2>1. CASE stack = <<>>
    BY <2>1
  <2>2. CASE stack # <<>>
    BY <1>1, <1>2, <2>2, AdvancedFacts
  <2> QED
    BY <2>1, <2>2
<1>8. mainTodo' \in Seq(Files)
  <2>1. CASE stack = <<>>
    <3>1. mainTodo' = Tail(mainTodo) /\ mainTodo # <<>> /\ mainTodo \in Seq(Files)
      BY <1>1, <1>2, <2>1 DEF UseLoad, Todo, TypeOK
    <3> QED
      BY <3>1
  <2>2. CASE stack # <<>>
    BY <1>1, <2>2 DEF UseLoad, TypeOK
  <2> QED
    BY <2>1, <2>2
<1> HIDE DEF base, new
<1>9. /\ stack' \in Seq(Frames) /\ Len(stack') = Len(stack) + 1 /\ Len(stack) \in Nat
      /\ DOMAIN stack' = 1 .. Len(stack) + 1 /\ DOMAIN stack = 1 .. Len(stack)
      /\ stack'[Len(stack) + 1] = new
      /\ \A i \in DOMAIN stack : stack'[i] = base[i]
  BY <1>2, <1>5, <1>6, <1>7
<1>10. \A i \in DOMAIN stack' : \/ i = Len(stack) + 1 /\ stack'[i].file = f
                                \/ i \in DOMAIN stack /\ stack'[i].file = stack[i].file
  BY <1>5, <1>7, <1>9
<1>11. \A i \in DOMAIN stack : stack[i].file # f
  BY <1>1, <1>3 DEF EvaluatedIsPending
<1>12. NoCircularImport'
  BY <1>1, <1>10, <1>11 DEF NoCircularImport
<1>13. EvaluatedIsPending'
  <2> SUFFICES ASSUME NEW i \in DOMAIN stack' PROVE pending'[stack'[i].file] > 0
    BY DEF EvaluatedIsPending
  <2>1. CASE stack'[i].file = f
    BY <1>4, <2>1
  <2>2. CASE i \in DOMAIN stack /\ stack'[i].file = stack[i].file
    <3> DEFINE g == stack[i].file
    <3>1. g \in Files /\ pending[g] > 0
      BY <1>1, <1>6, <2>2 DEF EvaluatedIsPending
    <3>2. pending[g] \in Nat /\ pending'[g] \in Nat /\ pending'[g] >= pending[g]
      BY <1>1, <1>3, <1>4, <3>1
    <3> QED
      BY <2>2, <3>1, <3>2
  <2> QED
    BY <1>10, <2>1, <2>2
<1>14. TypeOK'
  BY <1>1, <1>2, <1>4, <1>8, <1>9 DEF TypeOK
<1> QED
  BY <1>12, <1>13, <1>14 DEF IInv

(* A runtime error in a module.                                            *)
LEMMA RunErrorStep == IInv /\ RunError => IInv'
<1> SUFFICES ASSUME IInv, RunError PROVE IInv'
  OBVIOUS
<1>1. TypeOK
  BY DEF IInv
<1>2. Throw /\ UNCHANGED <<faults, disk, lastVersion, pending, cached, moduleError>>
  BY DEF RunError, tables
<1>3. pending' \in [Files -> 0 .. MaxPending] /\ \A g \in Files : pending'[g] >= pending[g]
  BY <1>1, <1>2 DEF TypeOK
<1>4. /\ stack' \in Seq(Frames) /\ mainTodo' \in Seq(Files) /\ running' \in BOOLEAN
      /\ reports' \in BOOLEAN /\ NoCircularImport' /\ EvaluatedIsPending'
  BY <1>2, <1>3, ThrowFacts
<1>5. TypeOK'
  BY <1>1, <1>2, <1>3, <1>4 DEF TypeOK
<1> QED
  BY <1>4, <1>5 DEF IInv

(* A module has been executed.                                             *)
LEMMA EndStep == IInv /\ End => IInv'
<1> SUFFICES ASSUME IInv, End PROVE IInv'
  OBVIOUS
<1> DEFINE top == [Top EXCEPT !.over = TRUE]
           new == [stack EXCEPT ![Len(stack)] = top]
<1>1. TypeOK /\ stack # <<>>
  BY DEF IInv, End
<1>2. Top \in Frames /\ Len(stack) \in DOMAIN stack
  BY <1>1, TopFacts
<1>3. top \in Frames /\ top.file = Top.file
  BY <1>2 DEF Frames
<1>4. stack' = new /\ UNCHANGED <<faults, disk, lastVersion, running, mainTodo, pending, cached, moduleError, reports>>
  BY <1>1, <1>2 DEF End, tables, Top, TypeOK
<1> HIDE DEF top
<1>5. /\ new \in Seq(Frames) /\ Len(new) = Len(stack)
      /\ \A i \in DOMAIN stack : new[i].file = stack[i].file
  BY <1>1, <1>3, ExceptTop
<1> HIDE DEF new
<1>6. pending' \in [Files -> 0 .. MaxPending] /\ \A g \in Files : pending'[g] >= pending[g]
  BY <1>1, <1>4 DEF TypeOK
<1>7. NoCircularImport' /\ EvaluatedIsPending'
  BY <1>1, <1>4, <1>5, <1>6, TopChanges
<1>8. TypeOK'
  BY <1>1, <1>4, <1>5 DEF TypeOK
<1> QED
  BY <1>7, <1>8 DEF IInv

(* The rest of getModule takes one pending entry of the file out: no other *)
(* module being evaluated is of that file.                                 *)
LEMMA ReturnStep == IInv /\ Return => IInv'
<1> SUFFICES ASSUME IInv, Return PROVE IInv'
  OBVIOUS
<1> DEFINE n == Len(stack)
           g == Top.file
<1>1. TypeOK /\ NoCircularImport /\ EvaluatedIsPending /\ stack # <<>>
  BY DEF IInv, Return
<1>2. /\ stack \in Seq(Frames) /\ n \in Nat \ {0} /\ n \in DOMAIN stack /\ Top \in Frames
      /\ DOMAIN stack = 1 .. n /\ stack[n] = Top
  BY <1>1, TopFacts DEF TypeOK, Top
<1>3. g \in Files /\ Top.version \in Nat /\ Top.whole \in BOOLEAN
  BY <1>2 DEF Frames
<1>4. UNCHANGED <<faults, disk, lastVersion, running, mainTodo>>
  BY DEF Return
<1>5. moduleError' \in BOOLEAN /\ reports' \in BOOLEAN
  <2>1. reports \in BOOLEAN /\ moduleError \in BOOLEAN
    BY <1>1 DEF TypeOK
  <2> QED
    BY <2>1 DEF Return, Failed
<1>6. cached' \in [Files -> Nat]
  BY <1>1, <1>3 DEF Return, TypeOK
<1>7. /\ pending' \in [Files -> 0 .. MaxPending]
      /\ \A f \in Files \ {g} : pending'[f] = pending[f]
  <2>1. pending \in [Files -> 0 .. MaxPending] /\ MaxPending \in Nat
    BY <1>1, ImportsAssumption DEF TypeOK
  <2>2. pending' = IF IsPending(g) THEN [pending EXCEPT ![g] = @ - 1] ELSE pending
    BY DEF Return, Release
  <2>3. IsPending(g) => pending[g] > 0
    BY DEF IsPending
  <2> HIDE DEF g
  <2> QED
    BY <1>3, <2>1, <2>2, <2>3
<1>8. /\ stack' \in Seq(Frames)
      /\ \A i \in DOMAIN stack' : i \in 1 .. n - 1 /\ stack'[i].file = stack[i].file
  <2>1. CASE n = 1
    <3>1. stack' = <<>>
      BY <2>1 DEF Return
    <3> QED
      BY <3>1
  <2>2. CASE n # 1
    <3> DEFINE front == Front(stack)
               below == [front[n - 1] EXCEPT !.whole = @ /\ Top.whole]
    <3>1. stack' = [front EXCEPT ![n - 1].whole = @ /\ Top.whole]
      BY <2>2 DEF Return
    <3>2. /\ front \in Seq(Frames) /\ DOMAIN front = 1 .. n - 1
          /\ \A i \in 1 .. n - 1 : front[i] = stack[i]
      BY <1>2, <2>2 DEF Front
    <3>3. n - 1 \in 1 .. n - 1 /\ front[n - 1] \in Frames
      BY <1>2, <2>2, <3>2
    <3>4. below \in Frames /\ below.file = front[n - 1].file
      BY <1>3, <3>3 DEF Frames
    <3>5. stack' = [front EXCEPT ![n - 1] = below]
      BY <3>1, <3>2, <3>3
    <3> HIDE DEF front, below
    <3> QED
      BY <3>2, <3>3, <3>4, <3>5
  <2> QED
    BY <2>1, <2>2
<1> HIDE DEF n
<1>9. \A i \in 1 .. n - 1 : i \in DOMAIN stack /\ i # n
  BY <1>2
<1>10. \A i \in 1 .. n - 1 : stack[i].file \in Files \ {g}
  <2> SUFFICES ASSUME NEW i \in 1 .. n - 1 PROVE stack[i].file \in Files \ {g}
    OBVIOUS
  <2>1. i \in DOMAIN stack /\ i # n /\ stack[i] \in Frames
    BY <1>2, <1>9
  <2>2. stack[i].file # stack[n].file
    BY <1>1, <1>2, <2>1 DEF NoCircularImport
  <2> QED
    BY <1>2, <2>1, <2>2 DEF Frames
<1>11. NoCircularImport'
  BY <1>1, <1>8, <1>9 DEF NoCircularImport
<1>12. EvaluatedIsPending'
  BY <1>1, <1>7, <1>8, <1>9, <1>10 DEF EvaluatedIsPending
<1>13. TypeOK'
  BY <1>1, <1>4, <1>5, <1>6, <1>7, <1>8 DEF TypeOK
<1> QED
  BY <1>11, <1>12, <1>13 DEF IInv

-----------------------------------------------------------------------------
(* Every step of the file system and of the interpreter keeps IInv.        *)
LEMMA NextIInv == IInv /\ [Next]_vars => IInv'
<1> SUFFICES ASSUME IInv, [Next]_vars PROVE IInv'
  OBVIOUS
<1>1. CASE UNCHANGED vars
  BY <1>1 DEF vars, tables, IInv, TypeOK, NoCircularImport, EvaluatedIsPending
<1>2. CASE Environment
  BY <1>2, EnvironmentStep
<1>3. CASE Start \/ Finish
  BY <1>3, StartFinishStep
<1>4. CASE Use
  BY <1>4, UsePendingStep, UseCachedStep, UseMissingStep, UseLoadStep DEF Use
<1>5. CASE RunError \/ End \/ Return
  BY <1>5, RunErrorStep, EndStep, ReturnStep
<1> QED
  BY <1>1, <1>2, <1>3, <1>4, <1>5 DEF Next, Interpreter

(* The invariant: distinct files on the stack, each with its entry.        *)
THEOREM InvariantHolds == Spec => []IInv
BY InitIInv, NextIInv, PTL DEF Spec

(* The tables and the VMs keep their types, whatever fails.                *)
THEOREM TypeCorrect == Spec => []TypeOK
<1>1. IInv => TypeOK
  BY DEF IInv
<1> QED
  BY <1>1, InvariantHolds, PTL

(* No file is ever evaluated twice at a time: for any number of files and  *)
(* versions, any import sequences, whatever is deleted, created or failing *)
(* in the meantime, and although missing files leave pending entries.      *)
THEOREM NoCircular == Spec => []NoCircularImport
<1>1. IInv => NoCircularImport
  BY DEF IInv
<1> QED
  BY <1>1, InvariantHolds, PTL

-----------------------------------------------------------------------------
(* While no file is missing, an entry is there for a module that is being  *)
(* evaluated, and there is one for each.                                   *)
EntryIsEvaluated ==
  "missing" \notin faults =>
    \A f \in Files :
      /\ Exists(f)
      /\ pending[f] \in {0, 1}
      /\ pending[f] > 0 => \E i \in DOMAIN stack : stack[i].file = f

SInv == IInv /\ EntryIsEvaluated

(* It is so at the start.                                                  *)
LEMMA InitEntries == Init => EntryIsEvaluated
<1> SUFFICES ASSUME Init, "missing" \notin faults, NEW f \in Files
             PROVE  Exists(f) /\ pending[f] = 0
  BY DEF EntryIsEvaluated
<1> QED
  BY DEF Init, Exists, Absent

(* A step that leaves the entries and the files on the stack.              *)
LEMMA SameEntries ==
  ASSUME EntryIsEvaluated, UNCHANGED <<faults, pending>>,
         \A f \in Files : Exists(f) => Exists(f)',
         DOMAIN stack' = DOMAIN stack,
         \A i \in DOMAIN stack : stack'[i].file = stack[i].file
  PROVE  EntryIsEvaluated'
BY DEF EntryIsEvaluated

(* A change of the innermost frame leaves the files on the stack.          *)
LEMMA TopOnly ==
  ASSUME TypeOK,
         \/ stack' = stack
         \/ stack # <<>> /\ Throw
         \/ stack # <<>> /\ stack' = Advanced /\ Todo # <<>>
         \/ End
  PROVE  /\ DOMAIN stack' = DOMAIN stack
         /\ \A i \in DOMAIN stack : stack'[i].file = stack[i].file
<1>1. CASE stack' = stack
  BY <1>1
<1>2. CASE stack # <<>> /\ Throw
  <2>1. Len(stack) \in DOMAIN stack /\ stack[Len(stack)] \in Frames
    BY <1>2, TopFacts DEF Top
  <2>2. stack' = [stack EXCEPT ![Len(stack)].over = TRUE, ![Len(stack)].whole = FALSE]
    BY <1>2 DEF Throw
  <2> QED
    BY <2>1, <2>2 DEF Frames, TypeOK
<1>3. CASE stack # <<>> /\ stack' = Advanced /\ Todo # <<>>
  <2>1. Advanced \in Seq(Frames) /\ Len(Advanced) = Len(stack) /\ stack \in Seq(Frames)
    BY <1>3, AdvancedFacts DEF TypeOK
  <2> QED
    BY <1>3, <2>1, AdvancedFacts
<1>4. CASE End
  <2>1. Len(stack) \in DOMAIN stack /\ stack[Len(stack)] \in Frames
    BY <1>4, TopFacts DEF Top, End
  <2>2. stack' = [stack EXCEPT ![Len(stack)].over = TRUE]
    BY <1>4 DEF End
  <2> QED
    BY <2>1, <2>2 DEF Frames, TypeOK
<1> QED
  BY <1>1, <1>2, <1>3, <1>4

(* A file that is written exists.                                          *)
LEMMA WriteEntries ==
  ASSUME SInv, NEW f \in Files, Write(f)
  PROVE  EntryIsEvaluated'
<1>1. lastVersion[f] \in Nat /\ disk \in [Files -> Nat]
  BY DEF SInv, IInv, TypeOK
<1>2. \A g \in Files : Exists(g) => Exists(g)'
  BY <1>1 DEF Write, Exists, Absent
<1>3. UNCHANGED <<faults, pending, stack>>
  BY DEF Write, tables
<1> QED
  BY <1>2, <1>3, SameEntries DEF SInv

(* The steps of the interpreter that add no entry and take none out.       *)
LEMMA OtherEntries ==
  ASSUME SInv,
         \/ Start \/ Finish \/ RunError \/ End
         \/ \E f \in Files : UsePending(f) \/ UseCached(f)
  PROVE  EntryIsEvaluated'
<1>1. TypeOK
  BY DEF SInv, IInv
<1>2. UNCHANGED <<faults, disk, pending>>
  BY DEF Start, Finish, RunError, End, UsePending, UseCached, tables
<1>3. \A f \in Files : Exists(f) => Exists(f)'
  BY <1>2 DEF Exists
<1>4. /\ DOMAIN stack' = DOMAIN stack
      /\ \A i \in DOMAIN stack : stack'[i].file = stack[i].file
  <2>1. CASE Start \/ Finish
    BY <1>1, <2>1, TopOnly DEF Start, Finish
  <2>2. CASE End
    BY <1>1, <2>2, TopOnly
  <2>3. CASE Throw
    BY <1>1, <2>3, TopOnly DEF Throw
  <2>4. CASE Continue /\ Todo # <<>>
    BY <1>1, <2>4, TopOnly DEF Continue
  <2> QED
    BY <2>1, <2>2, <2>3, <2>4 DEF RunError, UsePending, UseCached, Executing
<1> QED
  BY <1>2, <1>3, <1>4, SameEntries DEF SInv

(* A module that is read gets its entry and its frame.                     *)
LEMMA LoadEntries ==
  ASSUME SInv, NEW f \in Files, NEW todo \in Programs, NEW result \in Results,
         UseLoad(f, todo, result)
  PROVE  EntryIsEvaluated'
<1> DEFINE base == IF stack = <<>> THEN <<>> ELSE Advanced
           new == Frame(f, todo, result)
<1>1. TypeOK /\ EntryIsEvaluated
  BY DEF SInv, IInv
<1>2. /\ pending' = [pending EXCEPT ![f] = @ + 1] /\ ~(pending[f] > 0)
      /\ Todo # <<>> /\ stack' = Append(base, new) /\ UNCHANGED <<faults, disk>>
  BY DEF UseLoad, IsPending, Executing
<1>3. pending \in [Files -> 0 .. MaxPending] /\ MaxPending \in Nat /\ pending[f] = 0
  BY <1>1, <1>2, ImportsAssumption DEF TypeOK
<1>4. pending'[f] = 1 /\ \A g \in Files \ {f} : pending'[g] = pending[g]
  BY <1>2, <1>3
<1>5. new.file = f
  BY DEF Frame
<1>6. /\ base \in Seq(Frames) /\ Len(base) = Len(stack) /\ stack \in Seq(Frames)
      /\ \A i \in DOMAIN stack : base[i].file = stack[i].file
  <2>1. stack \in Seq(Frames)
    BY <1>1 DEF TypeOK
  <2>2. CASE stack = <<>>
    BY <2>1, <2>2
  <2>3. CASE stack # <<>>
    BY <1>1, <1>2, <2>1, <2>3, AdvancedFacts
  <2> QED
    BY <2>2, <2>3
<1> HIDE DEF base, new
<1>7. /\ Len(stack) + 1 \in DOMAIN stack' /\ stack'[Len(stack) + 1].file = f
      /\ \A i \in DOMAIN stack : i \in DOMAIN stack' /\ stack'[i].file = stack[i].file
  BY <1>2, <1>5, <1>6
<1> SUFFICES ASSUME "missing" \notin faults, NEW g \in Files
             PROVE  /\ disk[g] # Absent /\ pending'[g] \in {0, 1}
                    /\ pending'[g] > 0 => \E i \in DOMAIN stack' : stack'[i].file = g
  BY <1>2 DEF EntryIsEvaluated, Exists
<1>8. CASE g = f
  BY <1>1, <1>4, <1>7, <1>8 DEF EntryIsEvaluated, Exists
<1>9. CASE g # f
  BY <1>1, <1>4, <1>7, <1>9 DEF EntryIsEvaluated, Exists
<1> QED
  BY <1>8, <1>9

(* The module that is over gives its entry back, and no other module being *)
(* evaluated is of its file.                                               *)
LEMMA ReturnEntries == SInv /\ Return => EntryIsEvaluated'
<1> SUFFICES ASSUME SInv, Return, "missing" \notin faults, NEW f \in Files
             PROVE  /\ disk[f] # Absent /\ pending'[f] \in {0, 1}
                    /\ pending'[f] > 0 => \E i \in DOMAIN stack' : stack'[i].file = f
  BY DEF EntryIsEvaluated, Exists, Return
<1> DEFINE n == Len(stack)
<1>1. TypeOK /\ EvaluatedIsPending /\ EntryIsEvaluated /\ stack # <<>>
  BY DEF SInv, IInv, Return
<1>2. /\ stack \in Seq(Frames) /\ n \in Nat \ {0} /\ n \in DOMAIN stack /\ Top \in Frames
      /\ DOMAIN stack = 1 .. n /\ stack[n] = Top
  BY <1>1, TopFacts DEF TypeOK, Top
<1>3. Top.file \in Files /\ pending[Top.file] > 0 /\ Top.whole \in BOOLEAN
  BY <1>1, <1>2 DEF Frames, EvaluatedIsPending
<1>4. IsPending(Top.file) /\ pending[Top.file] = 1
  BY <1>1, <1>3 DEF EntryIsEvaluated, IsPending
<1>5. pending' = [pending EXCEPT ![Top.file] = @ - 1] /\ pending \in [Files -> 0 .. MaxPending]
  BY <1>1, <1>4 DEF Return, Release, TypeOK
<1>6. \A i \in 1 .. n - 1 : i \in DOMAIN stack' /\ stack'[i].file = stack[i].file
  <2>1. CASE n = 1
    BY <2>1
  <2>2. CASE n # 1
    <3> DEFINE front == Front(stack)
    <3>1. stack' = [front EXCEPT ![n - 1].whole = @ /\ Top.whole]
      BY <2>2 DEF Return
    <3>2. /\ front \in Seq(Frames) /\ DOMAIN front = 1 .. n - 1
          /\ \A i \in 1 .. n - 1 : front[i] = stack[i]
      BY <1>2, <2>2 DEF Front
    <3>3. n - 1 \in 1 .. n - 1 /\ front[n - 1] \in Frames
      BY <1>2, <2>2, <3>2
    <3> HIDE DEF front
    <3> QED
      BY <1>3, <3>1, <3>2, <3>3 DEF Frames
  <2> QED
    BY <2>1, <2>2
<1> HIDE DEF n
<1>7. CASE f = Top.file
  <2>1. pending'[f] = 0
    BY <1>3, <1>4, <1>5, <1>7
  <2> QED
    BY <1>1, <2>1 DEF EntryIsEvaluated, Exists
<1>8. CASE f # Top.file
  <2>1. pending'[f] = pending[f]
    BY <1>5, <1>8
  <2>2. \A i \in DOMAIN stack : stack[i].file = f => i \in 1 .. n - 1
    BY <1>2, <1>8
  <2> QED
    BY <1>1, <1>6, <2>1, <2>2 DEF EntryIsEvaluated, Exists
<1> QED
  BY <1>7, <1>8

(* Where no file is missing there is no deletion, and no import of a       *)
(* missing file.                                                           *)
LEMMA NextEntries == SInv /\ [Next]_vars => SInv'
<1> SUFFICES ASSUME SInv, [Next]_vars PROVE SInv'
  OBVIOUS
<1>1. IInv'
  BY NextIInv DEF SInv
<1>2. EntryIsEvaluated'
  <2>1. CASE UNCHANGED vars
    BY <2>1 DEF vars, tables, SInv, EntryIsEvaluated, Exists
  <2>2. CASE \E f \in Files : Write(f)
    BY <2>2, WriteEntries
  <2>3. CASE \E f \in Files : Delete(f)
    BY <2>3 DEF Delete, EntryIsEvaluated
  <2>4. CASE \E f \in Files : UseMissing(f)
    BY <2>4 DEF UseMissing, SInv, EntryIsEvaluated
  <2>5. CASE \E f \in Files, todo \in Programs, result \in Results : UseLoad(f, todo, result)
    BY <2>5, LoadEntries
  <2>6. CASE Return
    BY <2>6, ReturnEntries
  <2>7. CASE \/ Start \/ Finish \/ RunError \/ End
             \/ \E f \in Files : UsePending(f) \/ UseCached(f)
    BY <2>7, OtherEntries
  <2> QED
    BY <2>1, <2>2, <2>3, <2>4, <2>5, <2>6, <2>7 DEF Next, Environment, Interpreter, Use
<1> QED
  BY <1>1, <1>2 DEF SInv

(* While no file is missing, an import is refused as circular only if its  *)
(* file is being evaluated, and always then: whatever the modules import,  *)
(* however deep, and whatever errors stop them or keep them from running.  *)
THEOREM OnlyCircularRefused == Spec => []PendingIsStack
<1>1. Init => SInv
  BY InitIInv, InitEntries DEF SInv
<1>2. SInv => PendingIsStack
  <2> SUFFICES ASSUME SInv, "missing" \notin faults, NEW f \in Files
               PROVE  pending[f] > 0 <=> \E i \in DOMAIN stack : stack[i].file = f
    BY DEF PendingIsStack
  <2> QED
    BY DEF SInv, IInv, EvaluatedIsPending, EntryIsEvaluated
<1> QED
  BY <1>1, <1>2, NextEntries, PTL DEF Spec

-----------------------------------------------------------------------------
(* Nothing is evaluated between lines.  While modules do not fail as they  *)
(* run and no file is missing, a module being evaluated that is not whole  *)
(* has left an error to be reported or has set moduleError, so that        *)
(* neither it nor those that import it are cached.                         *)
IdleIsEmpty == ~running => stack = <<>>
FailureIsKnown ==
  faults = {} => reports \/ moduleError \/ \A i \in DOMAIN stack : stack[i].whole

WInv == SInv /\ IdleIsEmpty /\ FailureIsKnown

(* It is so at the start.                                                  *)
LEMMA InitKnown == Init => IdleIsEmpty /\ FailureIsKnown
<1> SUFFICES ASSUME Init PROVE IdleIsEmpty /\ FailureIsKnown
  OBVIOUS
<1>1. stack = <<>> /\ DOMAIN <<>> = {}
  BY DEF Init
<1> QED
  BY <1>1 DEF IdleIsEmpty, FailureIsKnown

(* A change of the innermost frame that keeps whether its module is whole. *)
LEMMA WholeKept ==
  ASSUME TypeOK, stack # <<>>, (stack' = Advanced /\ Todo # <<>>) \/ End
  PROVE  /\ stack' # <<>> /\ DOMAIN stack' = DOMAIN stack
         /\ \A i \in DOMAIN stack : stack'[i].whole = stack[i].whole
<1>1. stack \in Seq(Frames) /\ Len(stack) \in DOMAIN stack /\ stack[Len(stack)] \in Frames
  BY TopFacts DEF TypeOK, Top
<1>2. \/ stack' = [stack EXCEPT ![Len(stack)].todo = Tail(@)]
      \/ stack' = [stack EXCEPT ![Len(stack)].over = TRUE]
  BY DEF Advanced, End
<1>3. DOMAIN stack' = DOMAIN stack
  BY <1>1, <1>2
<1>4. \A i \in DOMAIN stack : stack'[i].whole = stack[i].whole
  BY <1>1, <1>2 DEF Frames
<1>5. stack' # <<>>
  BY <1>1, <1>3
<1> QED
  BY <1>3, <1>4, <1>5

(* The steps between imports.                                              *)
LEMMA PlainKnown ==
  ASSUME WInv, Environment \/ Start \/ Finish \/ End
  PROVE  IdleIsEmpty' /\ FailureIsKnown'
<1>1. TypeOK /\ IdleIsEmpty /\ FailureIsKnown
  BY DEF WInv, SInv, IInv
<1>2. CASE Environment
  <2>1. UNCHANGED <<faults, running, stack, reports, moduleError>>
    BY <1>2 DEF Environment, Write, Delete
  <2> QED
    BY <1>1, <2>1 DEF IdleIsEmpty, FailureIsKnown
<1>3. CASE Start \/ Finish
  <2>1. stack = <<>> /\ stack' = <<>> /\ DOMAIN <<>> = {}
    BY <1>1, <1>3 DEF Start, Finish, IdleIsEmpty
  <2> QED
    BY <2>1 DEF IdleIsEmpty, FailureIsKnown
<1>4. CASE End
  <2>1. stack # <<>> /\ UNCHANGED <<faults, running, reports, moduleError>>
    BY <1>4 DEF End
  <2>2. /\ stack' # <<>> /\ DOMAIN stack' = DOMAIN stack
        /\ \A i \in DOMAIN stack : stack'[i].whole = stack[i].whole
    BY <1>1, <1>4, <2>1, WholeKept
  <2> QED
    BY <1>1, <2>1, <2>2 DEF IdleIsEmpty, FailureIsKnown
<1> QED
  BY <1>2, <1>3, <1>4

(* What ends a module early: a runtime error and a missing file are faults *)
(* of their own, and the circular import sets moduleError.                 *)
LEMMA ThrowKnown ==
  ASSUME WInv, RunError \/ \E f \in Files : UsePending(f) \/ UseMissing(f)
  PROVE  IdleIsEmpty' /\ FailureIsKnown'
<1>1. TypeOK /\ IdleIsEmpty /\ EntryIsEvaluated
  BY DEF WInv, SInv, IInv
<1>2. Throw /\ faults' = faults
  BY DEF RunError, UsePending, UseMissing
<1>3. IdleIsEmpty'
  <2>1. CASE stack = <<>>
    BY <1>2, <2>1 DEF Throw, IdleIsEmpty
  <2>2. CASE stack # <<>>
    <3>1. running' = running
      BY <1>2, <2>2 DEF Throw
    <3> QED
      BY <1>1, <2>2, <3>1 DEF IdleIsEmpty
  <2> QED
    BY <2>1, <2>2
<1>4. CASE \E f \in Files : UsePending(f)
  <2>1. moduleError'
    BY <1>4 DEF UsePending
  <2> QED
    BY <1>3, <2>1 DEF FailureIsKnown
<1>5. CASE RunError \/ \E f \in Files : UseMissing(f)
  <2>1. faults # {}
    BY <1>1, <1>5 DEF RunError, UseMissing, EntryIsEvaluated
  <2> QED
    BY <1>2, <1>3, <2>1 DEF FailureIsKnown
<1> QED
  BY <1>4, <1>5

(* A module that is already there changes nothing.                         *)
LEMMA CachedKnown ==
  ASSUME WInv, NEW f \in Files, UseCached(f)
  PROVE  IdleIsEmpty' /\ FailureIsKnown'
<1>1. TypeOK /\ IdleIsEmpty /\ FailureIsKnown
  BY DEF WInv, SInv, IInv
<1>2. /\ Continue /\ Todo # <<>>
      /\ UNCHANGED <<faults, reports, moduleError>>
  BY DEF UseCached, Executing
<1>3. running' = running
  BY <1>2 DEF Continue
<1>4. CASE stack = <<>>
  <2>1. stack' = stack
    BY <1>2, <1>4 DEF Continue
  <2> QED
    BY <1>1, <1>2, <1>3, <2>1 DEF IdleIsEmpty, FailureIsKnown
<1>5. CASE stack # <<>>
  <2>1. stack' = Advanced
    BY <1>2, <1>5 DEF Continue
  <2>2. /\ stack' # <<>> /\ DOMAIN stack' = DOMAIN stack
        /\ \A i \in DOMAIN stack : stack'[i].whole = stack[i].whole
    BY <1>1, <1>2, <1>5, <2>1, WholeKept
  <2> QED
    BY <1>1, <1>2, <1>3, <1>5, <2>2 DEF IdleIsEmpty, FailureIsKnown
<1> QED
  BY <1>4, <1>5

(* A module that the parser or the compiler complains about leaves their   *)
(* errors to be reported.                                                  *)
LEMMA LoadKnown ==
  ASSUME WInv, NEW f \in Files, NEW todo \in Programs, NEW result \in Results,
         UseLoad(f, todo, result)
  PROVE  IdleIsEmpty' /\ FailureIsKnown'
<1> DEFINE base == IF stack = <<>> THEN <<>> ELSE Advanced
           new == Frame(f, todo, result)
<1>1. TypeOK /\ IdleIsEmpty /\ FailureIsKnown /\ stack \in Seq(Frames)
  BY DEF WInv, SInv, IInv, TypeOK
<1>2. /\ stack' = Append(base, new) /\ Todo # <<>>
      /\ reports' = (reports \/ result # "good")
      /\ UNCHANGED <<faults, running, moduleError>>
      /\ IF stack = <<>> THEN running ELSE ~Top.over
  BY DEF UseLoad, Executing
<1>3. new.whole = (result = "good")
  BY DEF Frame
<1>4. /\ base \in Seq(Frames) /\ Len(base) = Len(stack)
      /\ \A i \in DOMAIN stack : base[i].whole = stack[i].whole
  <2>1. CASE stack = <<>>
    BY <2>1
  <2>2. CASE stack # <<>>
    <3>1. Advanced \in Seq(Frames) /\ Len(Advanced) = Len(stack)
      BY <1>1, <1>2, <2>2, AdvancedFacts
    <3>2. Len(stack) \in DOMAIN stack /\ stack[Len(stack)] \in Frames
      BY <1>1, <2>2, TopFacts DEF Top
    <3>3. \A i \in DOMAIN stack : Advanced[i].whole = stack[i].whole
      BY <1>1, <3>2 DEF Advanced, Frames
    <3> QED
      BY <2>2, <3>1, <3>3
  <2> QED
    BY <2>1, <2>2
<1> HIDE DEF base, new
<1>5. /\ DOMAIN stack' = 1 .. Len(stack) + 1 /\ Len(stack) \in Nat
      /\ DOMAIN stack = 1 .. Len(stack) /\ stack'[Len(stack) + 1] = new
      /\ \A i \in DOMAIN stack : stack'[i].whole = stack[i].whole
  BY <1>1, <1>2, <1>4
<1>6. running
  BY <1>1, <1>2 DEF IdleIsEmpty
<1>7. IdleIsEmpty'
  BY <1>2, <1>6 DEF IdleIsEmpty
<1>8. FailureIsKnown'
  <2> SUFFICES ASSUME faults = {}, ~reports, ~moduleError, result = "good",
                      NEW i \in DOMAIN stack'
               PROVE  stack'[i].whole
    BY <1>2 DEF FailureIsKnown
  <2>1. CASE i = Len(stack) + 1
    BY <1>3, <1>5, <2>1
  <2>2. CASE i \in DOMAIN stack
    BY <1>1, <1>5, <2>2 DEF FailureIsKnown
  <2> QED
    BY <1>5, <2>1, <2>2
<1> QED
  BY <1>7, <1>8

(* The rest of getModule passes the failure on, in moduleError.            *)
LEMMA ReturnKnown ==
  ASSUME WInv, Return
  PROVE  IdleIsEmpty' /\ FailureIsKnown'
<1>1. /\ TypeOK /\ IdleIsEmpty /\ FailureIsKnown /\ stack # <<>>
      /\ UNCHANGED <<faults, running>> /\ moduleError' = Failed
  BY DEF WInv, SInv, IInv, Return
<1>2. IdleIsEmpty'
  BY <1>1 DEF IdleIsEmpty
<1>3. FailureIsKnown'
  <2> SUFFICES ASSUME faults = {}, ~Failed, NEW i \in DOMAIN stack'
               PROVE  stack'[i].whole
    BY <1>1 DEF FailureIsKnown
  <2>1. \A j \in DOMAIN stack : stack[j].whole
    BY <1>1 DEF FailureIsKnown, Failed
  <2>2. /\ stack \in Seq(Frames) /\ Len(stack) \in Nat \ {0} /\ Top = stack[Len(stack)]
        /\ DOMAIN stack = 1 .. Len(stack) /\ Len(stack) \in DOMAIN stack
    BY <1>1, TopFacts DEF TypeOK, Top
  <2>3. CASE Len(stack) = 1
    <3>1. stack' = <<>>
      BY <2>3 DEF Return
    <3> QED
      BY <3>1
  <2>4. CASE Len(stack) # 1
    <3> DEFINE front == Front(stack)
               n == Len(stack)
    <3>1. stack' = [front EXCEPT ![n - 1].whole = @ /\ Top.whole]
      BY <2>4 DEF Return
    <3>2. /\ front \in Seq(Frames) /\ DOMAIN front = 1 .. n - 1
          /\ \A j \in 1 .. n - 1 : front[j] = stack[j] /\ front[j] \in Frames
      BY <2>2, <2>4 DEF Front
    <3>3. \A j \in 1 .. n - 1 : front[j].whole
      BY <2>1, <2>2, <3>2
    <3>4. Top.whole
      BY <2>1, <2>2
    <3> HIDE DEF front, n
    <3> QED
      BY <3>1, <3>2, <3>3, <3>4 DEF Frames
  <2> QED
    BY <2>3, <2>4
<1> QED
  BY <1>2, <1>3

(* Every step keeps the failures known.                                    *)
LEMMA NextKnown == WInv /\ [Next]_vars => WInv'
<1> SUFFICES ASSUME WInv, [Next]_vars PROVE WInv'
  OBVIOUS
<1>1. SInv'
  BY NextEntries DEF WInv
<1>2. IdleIsEmpty' /\ FailureIsKnown'
  <2>1. CASE UNCHANGED vars
    BY <2>1 DEF vars, WInv, IdleIsEmpty, FailureIsKnown
  <2>2. CASE Environment \/ Start \/ Finish \/ End
    BY <2>2, PlainKnown
  <2>3. CASE RunError \/ \E f \in Files : UsePending(f) \/ UseMissing(f)
    BY <2>3, ThrowKnown
  <2>4. CASE \E f \in Files : UseCached(f)
    BY <2>4, CachedKnown
  <2>5. CASE \E f \in Files, todo \in Programs, result \in Results : UseLoad(f, todo, result)
    BY <2>5, LoadKnown
  <2>6. CASE Return
    BY <2>6, ReturnKnown
  <2> QED
    BY <2>1, <2>2, <2>3, <2>4, <2>5, <2>6 DEF Next, Interpreter, Use
<1> QED
  BY <1>1, <1>2 DEF WInv

(* Only the module that is over is cached, and then only if it is whole.   *)
LEMMA CachedIsWhole ==
  ASSUME WInv, [Next]_vars, faults = {}, NEW f \in Files, cached'[f] # cached[f]
  PROVE  Top.file = f /\ Top.whole
<1>1. Return
  BY DEF vars, tables, Next, Environment, Interpreter, Use, Write, Delete, Start, Finish,
         UsePending, UseCached, UseMissing, UseLoad, RunError, End
<1>2. TypeOK /\ FailureIsKnown /\ stack # <<>>
  BY <1>1 DEF WInv, SInv, IInv, Return
<1>3. ~Failed /\ cached' = [cached EXCEPT ![Top.file] = Top.version]
  BY <1>1 DEF Return
<1>4. Top.file = f
  BY <1>2, <1>3 DEF TypeOK
<1>5. Len(stack) \in DOMAIN stack
  BY <1>2, TopFacts
<1>6. Top.whole
  BY <1>2, <1>3, <1>5 DEF FailureIsKnown, Failed, Top
<1> QED
  BY <1>4, <1>6

(* While no module fails as it runs and no file is missing, only whole     *)
(* modules are cached: whatever the parser and the compiler complain of,   *)
(* whatever imports each other, for any number of modules and versions.    *)
THEOREM WholeCached == Spec => CacheIsWhole
<1>1. Init => WInv
  BY InitIInv, InitEntries, InitKnown DEF WInv, SInv
<1>2. WInv /\ [Next]_vars
      => [faults = {} => \A f \in Files : cached'[f] # cached[f] => Top.file = f /\ Top.whole]_vars
  BY CachedIsWhole
<1> QED
  BY <1>1, <1>2, NextKnown, PTL DEF Spec, CacheIsWhole
=============================================================================
