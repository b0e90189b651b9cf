--------------------------- MODULE ClosureVM_proofs ---------------------------
(***************************************************************************)
(* Proofs about ClosureVM, for every number of registers, frames, cells    *)
(* and closures and whatever early exits the programs use: the stacks and  *)
(* the cells are well formed, no two variables in scope share a register,  *)
(* a captured variable is reached through its own register until its scope *)
(* ends, and all its closures share one cell.  The last part is about      *)
(* programs without early exits in which no function falls off its end     *)
(* with its first parameter captured: they implement CapturedVariables.    *)
(***************************************************************************)
EXTENDS ClosureVM, SequenceTheorems, TLAPS

(* What the stacks have to do with one another: a frame's blocks lie above *)
(* those of its callers, the first context is the script's, and every open *)
(* block other than a function's own has its entry in scopeStarts, so that *)
(* OP_EXIT_SCOPE finds one to pop, whatever early exits left behind.       *)
StackShape ==
  /\ cur.base \in Len(frames) + 1 .. Len(blocks)
  /\ \A i \in DOMAIN frames : frames[i].base \in i .. cur.base - 1
  /\ \A i, j \in DOMAIN frames : i < j => frames[i].base < frames[j].base
  /\ Script.base = 1
  /\ Len(scopeStarts) + Len(frames) + 1 >= Len(blocks)
  /\ \A k \in DOMAIN blocks : blocks[k].loop => blocks[k].start + 2 <= NumRegs

(* Every captured variable has its cell, and a capture instruction follows *)
(* the OP_CLOSURE it belongs to.                                           *)
ClosureShape ==
  /\ \A k \in DOMAIN closures : Len(closures[k].cells) = Len(closures[k].vars)
  /\ pending > 0 => closures # <<>>

IInv == TypeOK /\ SortedActive /\ ActiveIffOpen /\ StackShape /\ ClosureShape

-----------------------------------------------------------------------------
(* Sequences.                                                              *)

(* What captureValue's insertion makes of activeCells.                     *)
LEMMA InsertAtFacts ==
  ASSUME NEW S, NEW s \in Seq(S), NEW e \in S, NEW p \in 1 .. Len(s) + 1
  PROVE  /\ InsertAt(s, p, e) \in Seq(S)
         /\ Len(InsertAt(s, p, e)) = Len(s) + 1
         /\ \A i \in 1 .. Len(s) + 1 :
              InsertAt(s, p, e)[i] = IF i < p THEN s[i] ELSE IF i = p THEN e ELSE s[i - 1]
<1> DEFINE left == SubSeq(s, 1, p - 1)
           right == SubSeq(s, p, Len(s))
<1>1. /\ left \in Seq(S) /\ Len(left) = p - 1
      /\ \A i \in 1 .. p - 1 : left[i] = s[i]
  BY SubSeqProperties
<1>2. /\ right \in Seq(S) /\ Len(right) = Len(s) - p + 1
      /\ \A i \in 1 .. Len(s) - p + 1 : right[i] = s[p + i - 1]
  BY SubSeqProperties
<1>3. /\ <<e>> \in Seq(S) /\ Len(<<e>>) = 1 /\ <<e>>[1] = e
  OBVIOUS
<1> HIDE DEF left, right
<1>4. /\ left \o <<e>> \in Seq(S) /\ Len(left \o <<e>>) = p
      /\ \A i \in 1 .. p - 1 : (left \o <<e>>)[i] = s[i]
      /\ (left \o <<e>>)[p] = e
  BY <1>1, <1>3
<1>5. InsertAt(s, p, e) = (left \o <<e>>) \o right
  BY DEF InsertAt, left, right
<1> DEFINE front == left \o <<e>>
<1>6. front \in Seq(S) /\ Len(front) = p
  BY <1>4
<1> HIDE DEF front
<1>7. /\ front \o right \in Seq(S)
      /\ Len(front \o right) = Len(s) + 1
      /\ \A i \in 1 .. Len(s) + 1 :
           (front \o right)[i] = IF i <= p THEN front[i] ELSE right[i - p]
  BY <1>2, <1>6
<1>8. ASSUME NEW i \in 1 .. Len(s) + 1, i > p
      PROVE  right[i - p] = s[i - 1]
  <2>1. i - p \in 1 .. Len(s) - p + 1 /\ p + (i - p) - 1 = i - 1
    BY <1>8
  <2> QED
    BY <2>1, <1>2
<1> QED
  BY <1>4, <1>5, <1>7, <1>8 DEF front

(* Front, and the other prefixes a scope exit or a return leaves.          *)
LEMMA PrefixFacts ==
  ASSUME NEW S, NEW s \in Seq(S), NEW m \in 0 .. Len(s)
  PROVE  /\ SubSeq(s, 1, m) \in Seq(S)
         /\ Len(SubSeq(s, 1, m)) = m
         /\ \A i \in 1 .. m : SubSeq(s, 1, m)[i] = s[i]
BY SubSeqProperties

(* Front, the prefix that popping one entry leaves.                        *)
LEMMA FrontFacts ==
  ASSUME NEW S, NEW s \in Seq(S), s # <<>>
  PROVE  /\ Front(s) \in Seq(S) /\ Last(s) \in S /\ Len(s) > 0
         /\ Len(Front(s)) = Len(s) - 1
         /\ \A i \in 1 .. Len(s) - 1 : Front(s)[i] = s[i]
<1>1. Len(s) \in Nat /\ Len(s) > 0
  OBVIOUS
<1>2. Len(s) - 1 \in 0 .. Len(s)
  BY <1>1
<1>3. /\ Front(s) \in Seq(S) /\ Len(Front(s)) = Len(s) - 1
      /\ \A i \in 1 .. Len(s) - 1 : Front(s)[i] = s[i]
  BY <1>2, PrefixFacts DEF Front
<1>4. Last(s) \in S
  BY <1>1 DEF Last
<1> QED
  BY <1>1, <1>3, <1>4

-----------------------------------------------------------------------------
(* Cells.                                                                  *)

(* closeCells keeps the list of open cells sorted and exact, and leaves no *)
(* cell open at or above the limit.                                        *)
LEMMA CloseCellsFacts ==
  ASSUME TypeOK, SortedActive, ActiveIffOpen,
         NEW limit \in Nat, NEW file, CloseCells(limit, file),
         \A r \in Addr : file[r] \in Values
  PROVE  /\ cells' \in Seq(Cell) /\ Len(cells') = Len(cells)
         /\ activeCells' \in Seq(DOMAIN cells')
         /\ SortedActive' /\ ActiveIffOpen'
         /\ \A i \in DOMAIN activeCells' : cells'[activeCells'[i]].loc < limit
<1>0. cells \in Seq(Cell) /\ activeCells \in Seq(DOMAIN cells)
  BY DEF TypeOK
<1> PICK m \in 0 .. Len(activeCells) :
      LET closing == {activeCells[i] : i \in m + 1 .. Len(activeCells)} IN
      /\ \A i \in m + 1 .. Len(activeCells) : ~Below(i, limit)
      /\ m > 0 => Below(m, limit)
      /\ activeCells' = SubSeq(activeCells, 1, m)
      /\ cells' = [c \in DOMAIN cells |-> IF c \in closing THEN Close(c, file) ELSE cells[c]]
  BY DEF CloseCells
<1> DEFINE closing == {activeCells[i] : i \in m + 1 .. Len(activeCells)}
<1>1. /\ activeCells' \in Seq(DOMAIN cells) /\ Len(activeCells') = m
      /\ \A i \in 1 .. m : activeCells'[i] = activeCells[i]
  BY <1>0, PrefixFacts
<1>2. /\ DOMAIN activeCells = 1 .. Len(activeCells) /\ DOMAIN cells = 1 .. Len(cells)
      /\ Len(activeCells) \in Nat /\ Len(cells) \in Nat
      /\ \A c \in DOMAIN cells : cells[c] \in Cell
      /\ \A i \in DOMAIN activeCells : activeCells[i] \in DOMAIN cells
  BY <1>0
<1>3. \A i \in DOMAIN activeCells : LocationOf(i) \in Addr
  BY <1>2 DEF LocationOf, ActiveIffOpen, Cell
<1>4. \A c \in closing : Close(c, file) \in Cell
  <2> TAKE c \in closing
  <2>1. PICK i \in m + 1 .. Len(activeCells) : c = activeCells[i]
    OBVIOUS
  <2>2. cells[c].loc \in Addr
    BY <2>1, <1>2, <1>3 DEF LocationOf
  <2> QED
    BY <2>2 DEF Close, Cell
<1>5. /\ DOMAIN cells' = 1 .. Len(cells)
      /\ \A c \in DOMAIN cells : cells'[c] \in Cell
  BY <1>2, <1>4
<1>6. cells' \in Seq(Cell) /\ Len(cells') = Len(cells)
  <2>1. cells' = [c \in 1 .. Len(cells) |-> cells'[c]]
    BY <1>2
  <2> QED
    BY <2>1, <1>2, <1>5, IsASeq
<1>7. \A i \in 1 .. m : activeCells[i] \notin closing
  <2> SUFFICES ASSUME NEW i \in 1 .. m, NEW j \in m + 1 .. Len(activeCells),
                      activeCells[i] = activeCells[j]
               PROVE  FALSE
    OBVIOUS
  <2>1. LocationOf(i) < LocationOf(j)
    BY <1>2 DEF SortedActive
  <2> QED
    BY <2>1, <1>2, <1>3 DEF LocationOf, Addr
<1>8. \A i \in 1 .. m : cells'[activeCells'[i]] = cells[activeCells[i]]
  BY <1>1, <1>2, <1>7
<1>9. SortedActive'
  <2> SUFFICES ASSUME NEW i \in 1 .. m, NEW j \in 1 .. m, i < j
               PROVE  cells'[activeCells'[i]].loc < cells'[activeCells'[j]].loc
    <3>1. DOMAIN activeCells' = 1 .. m
      BY <1>1
    <3> QED
      BY <3>1 DEF SortedActive, LocationOf
  <2>1. LocationOf(i) < LocationOf(j)
    BY <1>2 DEF SortedActive
  <2> QED
    BY <2>1, <1>8 DEF LocationOf
<1>10. ActiveIffOpen'
  <2> SUFFICES ASSUME NEW c \in DOMAIN cells
               PROVE  cells'[c].loc # Closed <=> \E i \in 1 .. m : activeCells'[i] = c
    <3>1. DOMAIN activeCells' = 1 .. m
      BY <1>1
    <3>2. DOMAIN cells' = DOMAIN cells
      BY <1>2, <1>5
    <3> QED
      BY <3>1, <3>2 DEF ActiveIffOpen
  <2>1. CASE c \in closing
    <3>1. cells'[c].loc = Closed
      BY <2>1 DEF Close
    <3> QED
      BY <2>1, <3>1, <1>1, <1>7
  <2>2. CASE c \notin closing
    <3>1. cells'[c] = cells[c]
      BY <2>2
    <3>2. (\E i \in DOMAIN activeCells : activeCells[i] = c)
            <=> \E i \in 1 .. m : activeCells[i] = c
      <4>1. \A i \in DOMAIN activeCells : activeCells[i] = c => i \notin m + 1 .. Len(activeCells)
        BY <2>2
      <4>2. \A i \in 1 .. Len(activeCells) : i \in 1 .. m \/ i \in m + 1 .. Len(activeCells)
        BY <1>2
      <4>3. \A i \in 1 .. m : i \in 1 .. Len(activeCells)
        BY <1>2
      <4> HIDE DEF closing
      <4> QED
        BY <1>2, <4>1, <4>2, <4>3
    <3> QED
      BY <3>1, <3>2, <1>1 DEF ActiveIffOpen
  <2> QED
    BY <2>1, <2>2
<1>11. \A i \in DOMAIN activeCells' : cells'[activeCells'[i]].loc < limit
  <2> SUFFICES ASSUME NEW i \in 1 .. m
               PROVE  LocationOf(i) < limit
    BY <1>1, <1>8 DEF LocationOf
  <2>1. m \in DOMAIN activeCells /\ i \in DOMAIN activeCells /\ LocationOf(m) < limit
    BY <1>2 DEF Below
  <2>2. i = m \/ LocationOf(i) < LocationOf(m)
    BY <2>1, <1>2 DEF SortedActive
  <2>3. LocationOf(i) \in Int /\ LocationOf(m) \in Int
    BY <2>1, <1>3 DEF Addr
  <2> QED
    BY <2>1, <2>2, <2>3
<1>12. activeCells' \in Seq(DOMAIN cells')
  BY <1>1, <1>2, <1>5
<1> QED
  BY <1>6, <1>9, <1>10, <1>11, <1>12

(* A new cell goes where lower_bound puts it, and the list stays sorted.   *)
LEMMA NewCellFacts ==
  ASSUME TypeOK, SortedActive, ActiveIffOpen,
         NEW addr \in Addr, NEW v, NewCell(addr, v),
         ~ \E i \in DOMAIN activeCells : Found(i, addr)
  PROVE  /\ cells' \in Seq(Cell) /\ Len(cells') = Len(cells) + 1
         /\ activeCells' \in Seq(DOMAIN cells')
         /\ SortedActive' /\ ActiveIffOpen'
<1> DEFINE new == Len(cells) + 1
<1>0. /\ cells \in Seq(Cell) /\ activeCells \in Seq(DOMAIN cells)
      /\ Len(cells) \in Nat /\ Len(activeCells) \in Nat
      /\ DOMAIN activeCells = 1 .. Len(activeCells) /\ DOMAIN cells = 1 .. Len(cells)
      /\ \A i \in DOMAIN activeCells : activeCells[i] \in DOMAIN cells
      /\ \A c \in DOMAIN cells : cells[c] \in Cell
      /\ new \in Nat
  BY DEF TypeOK
<1>1. \A i \in DOMAIN activeCells : LocationOf(i) \in Addr
  BY <1>0 DEF LocationOf, ActiveIffOpen, Cell
<1>2. [loc |-> addr, obj |-> Nil] \in Cell
  BY DEF Cell, Values
<1>3. /\ cells' \in Seq(Cell) /\ Len(cells') = new /\ DOMAIN cells' = 1 .. new
      /\ \A c \in 1 .. Len(cells) : cells'[c] = cells[c]
      /\ cells'[new].loc = addr
  BY <1>0, <1>2, AppendProperties DEF NewCell
<1> PICK p \in 1 .. Len(activeCells) + 1 :
      /\ LowerBound(p, addr)
      /\ activeCells' = InsertAt(activeCells, p, new)
  BY DEF NewCell
<1>4. activeCells \in Seq(1 .. new) /\ new \in 1 .. new
  BY <1>0, SeqMonotonic
<1>5. /\ activeCells' \in Seq(1 .. new)
      /\ Len(activeCells') = Len(activeCells) + 1
      /\ \A i \in 1 .. Len(activeCells) + 1 :
           /\ i < p => activeCells'[i] = activeCells[i]
           /\ i = p => activeCells'[i] = new
           /\ i > p => activeCells'[i] = activeCells[i - 1]
  <2> DEFINE S == 1 .. new
             t == InsertAt(activeCells, p, new)
  <2>1. activeCells \in Seq(S) /\ new \in S
    BY <1>4
  <2> HIDE DEF S
  <2>2. /\ t \in Seq(S)
        /\ Len(t) = Len(activeCells) + 1
        /\ \A i \in 1 .. Len(activeCells) + 1 :
             t[i] = IF i < p THEN activeCells[i]
                    ELSE IF i = p THEN new ELSE activeCells[i - 1]
    <3>1. p \in 1 .. Len(activeCells) + 1
      OBVIOUS
    <3> HIDE DEF new
    <3> QED
      BY ONLY <2>1, <3>1, InsertAtFacts
  <2>3. activeCells' = t
    OBVIOUS
  <2> HIDE DEF t
  <2>4. ASSUME NEW i \in 1 .. Len(activeCells) + 1
        PROVE  /\ i < p => activeCells'[i] = activeCells[i]
               /\ i = p => activeCells'[i] = new
               /\ i > p => activeCells'[i] = activeCells[i - 1]
    BY <2>2, <2>3, <1>0
  <2> QED
    BY <2>2, <2>3, <2>4 DEF S
<1>6. \A i \in DOMAIN activeCells : LocationOf(i) # addr
  <2> SUFFICES ASSUME NEW i \in DOMAIN activeCells, LocationOf(i) = addr
               PROVE  Found(i, addr)
    OBVIOUS
  <2> QED
    BY DEF Found, SortedActive
<1>7. \A i \in DOMAIN activeCells : /\ i < p => LocationOf(i) < addr
                                    /\ i >= p => LocationOf(i) > addr
  BY <1>0, <1>1, <1>6 DEF LowerBound, Addr
<1> DEFINE loc(i) == cells'[activeCells'[i]].loc
<1>8. \A i \in 1 .. Len(activeCells) + 1 :
        /\ i < p => i \in DOMAIN activeCells /\ loc(i) = LocationOf(i)
        /\ i = p => loc(i) = addr
        /\ i > p => i - 1 \in DOMAIN activeCells /\ loc(i) = LocationOf(i - 1)
  <2> SUFFICES ASSUME NEW i \in 1 .. Len(activeCells) + 1
               PROVE  /\ i < p => i \in DOMAIN activeCells /\ loc(i) = LocationOf(i)
                      /\ i = p => loc(i) = addr
                      /\ i > p => i - 1 \in DOMAIN activeCells /\ loc(i) = LocationOf(i - 1)
    OBVIOUS
  <2>1. CASE i < p
    <3>1. i \in DOMAIN activeCells /\ activeCells'[i] = activeCells[i]
      BY <2>1, <1>0, <1>5, SMTT(30)
    <3> QED
      BY <2>1, <3>1, <1>0, <1>3 DEF LocationOf
  <2>2. CASE i = p
    BY <2>2, <1>3, <1>5
  <2>3. CASE i > p
    <3>1. i - 1 \in DOMAIN activeCells
      BY <2>3, <1>0
    <3>2. activeCells'[i] = activeCells[i - 1]
      BY <2>3, <1>5
    <3> QED
      BY <2>3, <3>1, <3>2, <1>0, <1>3 DEF LocationOf
  <2> QED
    BY <2>1, <2>2, <2>3
<1>8a. DOMAIN activeCells' = 1 .. Len(activeCells) + 1
  BY <1>0, <1>5
<1>9. SortedActive'
  <2> SUFFICES ASSUME NEW i \in 1 .. Len(activeCells) + 1,
                      NEW j \in 1 .. Len(activeCells) + 1, i < j
               PROVE  loc(i) < loc(j)
    BY <1>8a DEF SortedActive, LocationOf
  <2> HIDE DEF loc
  <2>1. CASE j < p
    BY <2>1, <1>8 DEF SortedActive
  <2>2. CASE j = p
    BY <2>2, <1>7, <1>8
  <2>3. CASE i < p /\ j > p
    <3>1. LocationOf(i) < addr /\ addr < LocationOf(j - 1)
      BY <2>3, <1>7, <1>8
    <3> QED
      BY <2>3, <3>1, <1>1, <1>8 DEF Addr
  <2>4. CASE i = p
    <3>1. addr < LocationOf(j - 1)
      BY <2>4, <1>7, <1>8
    <3> QED
      BY <2>4, <3>1, <1>8
  <2>5. CASE i > p
    <3>1. LocationOf(i - 1) < LocationOf(j - 1)
      BY <2>5, <1>8 DEF SortedActive
    <3> QED
      BY <2>5, <3>1, <1>8
  <2> QED
    BY <2>1, <2>2, <2>3, <2>4, <2>5
<1>10. ActiveIffOpen'
  <2> SUFFICES ASSUME NEW c \in 1 .. new
               PROVE  cells'[c].loc # Closed
                        <=> \E i \in 1 .. Len(activeCells) + 1 : activeCells'[i] = c
    BY <1>3, <1>8a DEF ActiveIffOpen
  <2>1. CASE c = new
    <3>1. activeCells'[p] = new
      BY <1>5
    <3> QED
      BY <2>1, <3>1, <1>3 DEF Addr, Closed
  <2>2. CASE c \in 1 .. Len(cells)
    <3>1. cells'[c].loc # Closed <=> \E i \in DOMAIN activeCells : activeCells[i] = c
      BY <2>2, <1>0, <1>3 DEF ActiveIffOpen
    <3>2. ASSUME NEW i \in DOMAIN activeCells, activeCells[i] = c
          PROVE  \E k \in 1 .. Len(activeCells) + 1 : activeCells'[k] = c
      <4>1. CASE i < p
        <5>1. i \in 1 .. Len(activeCells) + 1 /\ activeCells'[i] = activeCells[i]
          BY <4>1, <1>0, <1>5, SMTT(30)
        <5> QED
          BY <3>2, <5>1
      <4>2. CASE i >= p
        <5>1. i + 1 \in 1 .. Len(activeCells) + 1 /\ activeCells'[i + 1] = activeCells[i]
          <6>1. i + 1 \in 1 .. Len(activeCells) + 1 /\ i + 1 > p /\ (i + 1) - 1 = i
            BY <4>2, <1>0
          <6> QED
            BY <6>1, <1>5
        <5> QED
          BY <3>2, <5>1
      <4> QED
        BY <4>1, <4>2, <1>0
    <3>3. ASSUME NEW k \in 1 .. Len(activeCells) + 1, activeCells'[k] = c
          PROVE  \E i \in DOMAIN activeCells : activeCells[i] = c
      <4>1. k # p
        BY <2>2, <3>3, <1>0, <1>5
      <4>2. CASE k < p
        <5>1. k \in DOMAIN activeCells
          BY <4>2, <1>0
        <5> QED
          BY <3>3, <4>2, <5>1, <1>5
      <4>3. CASE k > p
        <5>1. k - 1 \in DOMAIN activeCells
          BY <4>3, <1>0
        <5>2. activeCells'[k] = activeCells[k - 1]
          BY <4>3, <1>5
        <5> QED
          BY <3>3, <5>1, <5>2
      <4> QED
        BY <4>1, <4>2, <4>3
    <3> QED
      BY <3>1, <3>2, <3>3
  <2> QED
    BY <2>1, <2>2, <1>0
<1> QED
  BY <1>3, <1>5, <1>9, <1>10

(* captureValue returns an allocated cell, found or made.                  *)
LEMMA CaptureValueFacts ==
  ASSUME TypeOK, SortedActive, ActiveIffOpen,
         NEW addr \in Addr, NEW v \in DOMAIN home, CaptureValue(addr, v)
  PROVE  /\ cells' \in Seq(Cell) /\ Len(cells') >= Len(cells)
         /\ activeCells' \in Seq(DOMAIN cells')
         /\ SortedActive' /\ ActiveIffOpen'
         /\ \E c \in DOMAIN cells' : AddCell(c, v)
<1>1. CASE \E i \in DOMAIN activeCells :
             Found(i, addr) /\ AddCell(activeCells[i], v) /\ UNCHANGED memory
  <2>1. /\ cells' = cells /\ activeCells' = activeCells
        /\ cells \in Seq(Cell) /\ activeCells \in Seq(DOMAIN cells)
    BY <1>1 DEF memory, TypeOK
  <2>2. \E c \in DOMAIN cells : AddCell(c, v)
    BY <1>1, <2>1
  <2>3. SortedActive' /\ ActiveIffOpen'
    BY <2>1 DEF SortedActive, ActiveIffOpen, LocationOf
  <2> QED
    BY <2>1, <2>2, <2>3
<1>2. CASE /\ ~ \E i \in DOMAIN activeCells : Found(i, addr)
           /\ NewCell(addr, v)
  <2>1. /\ cells' \in Seq(Cell) /\ Len(cells') = Len(cells) + 1
        /\ activeCells' \in Seq(DOMAIN cells') /\ SortedActive' /\ ActiveIffOpen'
    BY <1>2, NewCellFacts
  <2>2. Len(cells) \in Nat
    BY DEF TypeOK
  <2>3. AddCell(Len(cells) + 1, v) /\ Len(cells) + 1 \in DOMAIN cells'
    BY <1>2, <2>1, <2>2 DEF NewCell
  <2> QED
    BY <2>1, <2>2, <2>3
<1> QED
  BY <1>1, <1>2 DEF CaptureValue

-----------------------------------------------------------------------------
(* Types.                                                                  *)

(* The elements of the stacks and of the heap.                             *)
LEMMA ElementTypes ==
  ASSUME TypeOK
  PROVE  /\ \A k \in DOMAIN closures : /\ closures[k].cells \in Seq(DOMAIN cells)
                                      /\ closures[k].vars \in Seq(DOMAIN home)
         /\ \A k \in DOMAIN blocks : /\ blocks[k].start \in 0 .. NumRegs
                                    /\ blocks[k].loop \in BOOLEAN
                                    /\ blocks[k].vars \subseteq DOMAIN home
         /\ \A c \in DOMAIN cells : /\ cells[c].loc \in Addr \cup {Closed}
                                   /\ cells[c].obj \in Values
<1>1. \A k \in DOMAIN closures : closures[k] \in Closure
  BY DEF TypeOK
<1>2. \A k \in DOMAIN blocks : blocks[k] \in BlockRecord
  BY DEF TypeOK
<1>3. \A c \in DOMAIN cells : cells[c] \in Cell
  BY DEF TypeOK
<1> QED
  BY <1>1, <1>2, <1>3 DEF Closure, BlockRecord, Cell

(* The sets the ghosts and the heap are typed with only grow.              *)
LEMMA TypesGrow ==
  ASSUME TypeOK, closures' \in Seq(Closure'), Len(closures) <= Len(closures'),
         DOMAIN home \subseteq DOMAIN home'
  PROVE  /\ cur \in Context' /\ frames \in Seq(Context')
         /\ blocks \in Seq(BlockRecord')
<1>1. Context \subseteq Context'
  <2>1. Len(closures) \in Nat /\ Len(closures') \in Nat
    BY DEF TypeOK
  <2> QED
    BY <2>1 DEF Context
<1>2. BlockRecord \subseteq BlockRecord'
  BY DEF BlockRecord
<1> QED
  BY <1>1, <1>2, SeqMonotonic DEF TypeOK

(* So do the closures themselves.                                          *)
LEMMA ClosuresGrow ==
  ASSUME TypeOK, DOMAIN home \subseteq DOMAIN home', DOMAIN cells \subseteq DOMAIN cells'
  PROVE  closures \in Seq(Closure')
<1>1. Closure \subseteq Closure'
  <2>1. Seq(DOMAIN cells) \subseteq Seq(DOMAIN cells')
    BY SeqMonotonic
  <2>2. Seq(DOMAIN home) \subseteq Seq(DOMAIN home')
    BY SeqMonotonic
  <2> QED
    BY <2>1, <2>2 DEF Closure
<1> QED
  BY <1>1, SeqMonotonic DEF TypeOK

(* addCell appends one cell and one variable to the newest closure.        *)
LEMMA AddCellFacts ==
  ASSUME TypeOK, ClosureShape, home' = home, DOMAIN cells \subseteq DOMAIN cells',
         NEW c \in DOMAIN cells', NEW v \in DOMAIN home, AddCell(c, v), pending > 0
  PROVE  /\ closures' \in Seq(Closure') /\ Len(closures') = Len(closures)
         /\ \A k \in DOMAIN closures' : Len(closures'[k].cells) = Len(closures'[k].vars)
<1> DEFINE n == Len(closures)
           old == closures[n]
           new == [cells |-> Append(old.cells, c), vars |-> Append(old.vars, v)]
<1>1. /\ closures \in Seq(Closure') /\ n \in Nat /\ n > 0 /\ DOMAIN closures = 1 .. n
  BY ClosuresGrow DEF ClosureShape, TypeOK
<1>2. closures' = [closures EXCEPT ![n] = new]
  BY DEF AddCell
<1>3. old \in Closure'
  BY <1>1
<1>4. /\ old.cells \in Seq(DOMAIN cells') /\ old.vars \in Seq(DOMAIN home')
      /\ Len(old.cells) = Len(old.vars)
  <2>1. n \in DOMAIN closures
    BY <1>1
  <2>2. Len(old.cells) = Len(old.vars)
    BY <2>1 DEF ClosureShape
  <2> HIDE DEF old
  <2>3. old.cells \in Seq(DOMAIN cells') /\ old.vars \in Seq(DOMAIN home')
    BY <1>3 DEF Closure
  <2> QED
    BY <2>2, <2>3
<1>5. /\ new \in Closure' /\ Len(new.cells) = Len(new.vars)
  <2> HIDE DEF old
  <2>1. /\ Append(old.cells, c) \in Seq(DOMAIN cells')
        /\ Len(Append(old.cells, c)) = Len(old.cells) + 1
    BY ONLY <1>4, c \in DOMAIN cells', AppendProperties
  <2>2. v \in DOMAIN home'
    OBVIOUS
  <2>3. /\ Append(old.vars, v) \in Seq(DOMAIN home')
        /\ Len(Append(old.vars, v)) = Len(old.vars) + 1
    BY ONLY <1>4, <2>2, AppendProperties
  <2> QED
    BY <1>4, <2>1, <2>3 DEF Closure
<1> HIDE DEF new, old
<1>6. closures' \in Seq(Closure') /\ Len(closures') = n /\ DOMAIN closures' = 1 .. n
  BY <1>1, <1>2, <1>5, ExceptSeq
<1>7. \A k \in 1 .. n : closures'[k] = IF k = n THEN new ELSE closures[k]
  BY <1>1, <1>2
<1> QED
  BY <1>1, <1>5, <1>6, <1>7 DEF ClosureShape

(* What an instruction can name is declared or allocated.                  *)
LEMMA NamesFacts ==
  ASSUME IInv
  PROVE  /\ Visible \subseteq DOMAIN home /\ Capturable \subseteq DOMAIN home
         /\ OwnCells \in Seq(DOMAIN cells)
         /\ \A j \in DOMAIN OwnCells : closures[cur.closure].vars[j] \in DOMAIN home
<1>1. /\ Len(blocks) \in Nat /\ DOMAIN blocks = 1 .. Len(blocks)
      /\ cur.base \in 1 .. Len(blocks)
      /\ \A k \in DOMAIN blocks : blocks[k].vars \subseteq DOMAIN home
  BY ElementTypes DEF IInv, TypeOK, StackShape
<1>2. \A K \in SUBSET DOMAIN blocks : DeclaredIn(K) \subseteq DOMAIN home
  BY <1>1 DEF DeclaredIn
<1>3. {1} \cup cur.base .. Len(blocks) \in SUBSET DOMAIN blocks
  BY <1>1
<1>4. Visible \subseteq DOMAIN home
  BY <1>2, <1>3 DEF Visible
<1>5. Capturable \subseteq DOMAIN home
  BY <1>1, <1>2, <1>3 DEF Capturable
<1>6. CASE InFunction /\ cur.closure # 0
  <2>1. cur.closure \in DOMAIN closures
    BY <1>6 DEF IInv, TypeOK, Context
  <2>2. /\ closures[cur.closure].cells \in Seq(DOMAIN cells)
        /\ closures[cur.closure].vars \in Seq(DOMAIN home)
        /\ Len(closures[cur.closure].cells) = Len(closures[cur.closure].vars)
    BY <2>1, ElementTypes DEF IInv, ClosureShape
  <2>3. OwnCells = closures[cur.closure].cells
    BY <1>6 DEF OwnCells
  <2> QED
    BY <1>4, <1>5, <2>2, <2>3
<1>7. CASE ~(InFunction /\ cur.closure # 0)
  <2>1. OwnCells = <<>>
    BY <1>7 DEF OwnCells
  <2> QED
    BY <1>4, <1>5, <2>1
<1> QED
  BY <1>6, <1>7

-----------------------------------------------------------------------------
(* The invariant is inductive.                                             *)

(* The machine starts in the invariant.                                    *)
LEMMA InitIInv == Init => IInv
<1> SUFFICES ASSUME Init PROVE IInv
  OBVIOUS
<1> USE ConstantsAssumption DEF Init
<1>1. TypeOK
  BY DEF TypeOK, Values, Context, BlockRecord, Addr
<1>2. SortedActive /\ ActiveIffOpen
  BY DEF SortedActive, ActiveIffOpen
<1>3. StackShape
  BY DEF StackShape, Script, InFunction
<1>4. ClosureShape
  BY DEF ClosureShape
<1> QED
  BY <1>1, <1>2, <1>3, <1>4 DEF IInv

(* A step that moves a value and nothing else.                             *)
LEMMA ValueStep ==
  ASSUME IInv, UNCHANGED <<control, activeCells, closures, pending, home>>,
         regs' \in [Addr -> Values], ret' \in Values,
         cells' \in Seq(Cell), DOMAIN cells' = DOMAIN cells,
         \A c \in DOMAIN cells : cells'[c].loc = cells[c].loc
  PROVE  IInv'
<1> USE DEF control, IInv
<1>1. TypeOK'
  BY DEF TypeOK, Context, Closure, BlockRecord
<1>2. SortedActive' /\ ActiveIffOpen'
  <2>1. \A i \in DOMAIN activeCells : activeCells[i] \in DOMAIN cells
    BY DEF TypeOK
  <2> QED
    BY <2>1 DEF SortedActive, ActiveIffOpen, LocationOf
<1>3. StackShape' /\ ClosureShape'
  BY DEF StackShape, ClosureShape, Script, InFunction
<1> QED
  BY <1>1, <1>2, <1>3

(* OP_GET_LOCAL and OP_GET_GLOBAL keep the invariant.                      *)
LEMMA ReadStep ==
  ASSUME IInv, NEW v \in Visible, GetLocal(v)
  PROVE  IInv'
<1>1. home[v] \in Addr /\ regs' = regs /\ regs \in [Addr -> Values]
      /\ UNCHANGED <<control, memory, closures, pending, home>>
  BY NamesFacts DEF GetLocal, IInv, TypeOK
<1>2. ret' \in Values
  BY <1>1 DEF GetLocal
<1> QED
  BY <1>1, <1>2, ValueStep DEF memory, IInv, TypeOK

(* OP_SET_LOCAL and OP_SET_GLOBAL keep the invariant.                      *)
LEMMA WriteStep ==
  ASSUME IInv, NEW v \in Visible, NEW x \in Vals, SetLocal(v, x)
  PROVE  IInv'
<1>1. regs' \in [Addr -> Values]
  BY DEF SetLocal, IInv, TypeOK, Values
<1> QED
  BY <1>1, ValueStep DEF SetLocal, memory, IInv, TypeOK

(* OP_GET_CELL keeps the invariant.                                        *)
LEMMA CellReadStep ==
  ASSUME IInv, NEW c \in DOMAIN cells, GetCell(c)
  PROVE  IInv'
<1>1. /\ cells[c].loc \in Addr \cup {Closed} /\ cells[c].obj \in Values
      /\ regs \in [Addr -> Values]
  BY ElementTypes DEF IInv, TypeOK
<1>2. ret' \in Values
  BY <1>1 DEF GetCell
<1> QED
  BY <1>1, <1>2, ValueStep DEF GetCell, memory, IInv, TypeOK

(* OP_SET_CELL keeps the invariant: it moves no cell.                      *)
LEMMA CellWriteStep ==
  ASSUME IInv, NEW c \in DOMAIN cells, NEW x \in Vals, SetCell(c, x)
  PROVE  IInv'
<1>1. /\ cells \in Seq(Cell) /\ regs \in [Addr -> Values] /\ ret' \in Values
      /\ UNCHANGED <<control, activeCells, closures, pending, home>>
      /\ DOMAIN cells = 1 .. Len(cells) /\ Len(cells) \in Nat
      /\ cells[c] \in Cell /\ x \in Values
  BY DEF SetCell, IInv, TypeOK, Values
<1>2. CASE cells[c].loc = Closed
  <2> DEFINE new == [cells[c] EXCEPT !.obj = x]
  <2>1. new \in Cell /\ new.loc = cells[c].loc
    BY <1>1 DEF Cell
  <2>2. cells' = [cells EXCEPT ![c] = new] /\ regs' = regs
    BY <1>2 DEF SetCell
  <2> HIDE DEF new
  <2>3. /\ cells' \in Seq(Cell) /\ DOMAIN cells' = DOMAIN cells
        /\ \A d \in DOMAIN cells : cells'[d].loc = cells[d].loc
    BY <1>1, <2>1, <2>2, ExceptSeq
  <2> QED
    BY <1>1, <2>2, <2>3, ValueStep
<1>3. CASE cells[c].loc # Closed
  <2>1. cells' = cells /\ regs' \in [Addr -> Values]
    BY <1>1, <1>3 DEF SetCell
  <2> QED
    BY <1>1, <2>1, ValueStep
<1> QED
  BY <1>2, <1>3

(* A refused call keeps the invariant.                                     *)
LEMMA CallTooDeepStep ==
  ASSUME IInv, CallTooDeep
  PROVE  IInv'
<1>1. regs' \in [Addr -> Values]
  BY DEF CallTooDeep, IInv, TypeOK, Values
<1> QED
  BY <1>1, ValueStep DEF CallTooDeep, memory, IInv, TypeOK

(* OP_CLOSURE keeps the invariant: the new closure has no cell yet.        *)
LEMMA MakeClosureStep ==
  ASSUME IInv, NEW n \in 1 .. MaxCaptures, MakeClosure(n)
  PROVE  IInv'
<1> DEFINE new == [cells |-> <<>>, vars |-> <<>>]
<1>1. /\ UNCHANGED <<regs, control, memory, home, ret>>
      /\ closures' = Append(closures, new) /\ pending' = n
  BY DEF MakeClosure
<1>2. TypeOK /\ cells' = cells /\ activeCells' = activeCells
  BY <1>1 DEF IInv, memory
<1>3. closures \in Seq(Closure')
  BY <1>1, <1>2, ClosuresGrow
<1>4. new \in Closure'
  BY DEF Closure
<1>5. /\ closures' \in Seq(Closure') /\ Len(closures') = Len(closures) + 1
      /\ closures' # <<>>
      /\ \A k \in DOMAIN closures' : Len(closures'[k].cells) = Len(closures'[k].vars)
  <2>1. /\ closures' \in Seq(Closure') /\ Len(closures') = Len(closures) + 1
        /\ closures' # <<>>
        /\ \A k \in 1 .. Len(closures) : closures'[k] = closures[k]
        /\ closures'[Len(closures) + 1] = new
    BY <1>1, <1>3, <1>4, AppendProperties
  <2>2. Len(closures) \in Nat /\ DOMAIN closures = 1 .. Len(closures)
    BY <1>2 DEF TypeOK
  <2> QED
    BY <2>1, <2>2 DEF IInv, ClosureShape
<1>6. Len(closures) \in Nat
  BY <1>2 DEF TypeOK
<1>7. cur \in Context' /\ frames \in Seq(Context') /\ blocks \in Seq(BlockRecord')
  BY <1>1, <1>2, <1>5, <1>6, TypesGrow
<1>8. TypeOK'
  <2>1. pending' \in Nat
    BY <1>1, ConstantsAssumption
  <2> QED
    BY <1>1, <1>2, <1>5, <1>7, <2>1 DEF TypeOK, control
<1>9. SortedActive' /\ ActiveIffOpen'
  BY <1>2 DEF IInv, SortedActive, ActiveIffOpen, LocationOf
<1>10. StackShape'
  BY <1>1 DEF IInv, StackShape, control, Script, InFunction
<1> QED
  BY <1>5, <1>8, <1>9, <1>10 DEF IInv, ClosureShape

(* Both kinds of capture append a cell to the newest closure.              *)
LEMMA AddCellStep ==
  ASSUME IInv, UNCHANGED <<regs, control, home, ret>>,
         pending > 0, pending' = pending - 1,
         cells' \in Seq(Cell), Len(cells') >= Len(cells),
         activeCells' \in Seq(DOMAIN cells'), SortedActive', ActiveIffOpen',
         NEW c \in DOMAIN cells', NEW v \in DOMAIN home, AddCell(c, v)
  PROVE  IInv'
<1>1. TypeOK /\ ClosureShape /\ home' = home
  BY DEF IInv
<1>2. Len(cells) \in Nat /\ Len(cells') \in Nat /\ Len(closures) \in Nat
      /\ DOMAIN cells = 1 .. Len(cells) /\ DOMAIN cells' = 1 .. Len(cells')
  BY <1>1 DEF TypeOK
<1>3. DOMAIN cells \subseteq DOMAIN cells'
  BY <1>2
<1>4. /\ closures' \in Seq(Closure') /\ Len(closures') = Len(closures)
      /\ \A k \in DOMAIN closures' : Len(closures'[k].cells) = Len(closures'[k].vars)
  BY <1>1, <1>3, AddCellFacts
<1>5. cur \in Context' /\ frames \in Seq(Context') /\ blocks \in Seq(BlockRecord')
  BY <1>1, <1>2, <1>4, TypesGrow
<1>6. TypeOK'
  <2>1. pending' \in Nat
    BY <1>1 DEF TypeOK
  <2> QED
    BY <1>1, <1>4, <1>5, <2>1 DEF TypeOK, control
<1>7. StackShape'
  BY DEF IInv, StackShape, control, Script, InFunction
<1>8. ClosureShape'
  <2>1. closures' # <<>>
    BY <1>1, <1>2, <1>4 DEF ClosureShape
  <2> QED
    BY <1>4, <2>1 DEF ClosureShape
<1> QED
  BY <1>6, <1>7, <1>8 DEF IInv

(* OP_CAPTURE_LOCAL keeps the invariant.                                   *)
LEMMA CaptureLocalStep ==
  ASSUME IInv, NEW v \in Capturable, CaptureLocal(v)
  PROVE  IInv'
<1>1. v \in DOMAIN home /\ home[v] \in Addr
  BY NamesFacts DEF IInv, TypeOK
<1>2. CaptureValue(home[v], v)
  BY DEF CaptureLocal
<1>3. /\ cells' \in Seq(Cell) /\ Len(cells') >= Len(cells)
      /\ activeCells' \in Seq(DOMAIN cells') /\ SortedActive' /\ ActiveIffOpen'
      /\ \E c \in DOMAIN cells' : AddCell(c, v)
  BY <1>1, <1>2, CaptureValueFacts DEF IInv
<1> QED
  BY <1>1, <1>3, AddCellStep DEF CaptureLocal

(* OP_CAPTURE_CELL keeps the invariant.                                    *)
LEMMA CaptureCellStep ==
  ASSUME IInv, NEW j \in DOMAIN OwnCells, CaptureCell(j)
  PROVE  IInv'
<1> DEFINE c == OwnCells[j]
           v == closures[cur.closure].vars[j]
<1>1. c \in DOMAIN cells /\ v \in DOMAIN home
  BY NamesFacts
<1>2. cells' = cells /\ activeCells' = activeCells /\ AddCell(c, v)
  BY DEF CaptureCell, memory
<1>3. /\ cells' \in Seq(Cell) /\ Len(cells') >= Len(cells) /\ c \in DOMAIN cells'
      /\ activeCells' \in Seq(DOMAIN cells') /\ SortedActive' /\ ActiveIffOpen'
  BY <1>1, <1>2 DEF IInv, TypeOK, SortedActive, ActiveIffOpen, LocationOf
<1> HIDE DEF c, v
<1> QED
  BY <1>1, <1>2, <1>3, AddCellStep DEF CaptureCell

(* A step of the control opcodes: what it must establish.                  *)
LEMMA ControlStep ==
  ASSUME IInv, UNCHANGED <<closures, pending, ret>>,
         regs' \in [Addr -> Values],
         cells' \in Seq(Cell), Len(cells') = Len(cells),
         activeCells' \in Seq(DOMAIN cells'), SortedActive', ActiveIffOpen',
         home' \in Seq(Addr), DOMAIN home \subseteq DOMAIN home',
         cur' \in Context, frames' \in Seq(Context), Len(frames') <= MaxDepth,
         scopeStarts' \in Seq(Addr), blocks' \in Seq(BlockRecord'), StackShape'
  PROVE  IInv'
<1>1. TypeOK /\ ClosureShape
  BY DEF IInv
<1>2. DOMAIN cells \subseteq DOMAIN cells'
  BY <1>1 DEF TypeOK
<1>3. closures' \in Seq(Closure')
  BY <1>1, <1>2, ClosuresGrow
<1>4. Context' = Context
  BY DEF Context
<1>5. TypeOK'
  BY <1>1, <1>3, <1>4 DEF TypeOK
<1>6. ClosureShape'
  BY <1>1 DEF ClosureShape
<1> QED
  BY <1>5, <1>6 DEF IInv

(* The heap of a step that leaves it alone.                                *)
LEMMA HeapUnchanged ==
  ASSUME IInv, UNCHANGED memory
  PROVE  /\ cells' \in Seq(Cell) /\ Len(cells') = Len(cells)
         /\ activeCells' \in Seq(DOMAIN cells') /\ SortedActive' /\ ActiveIffOpen'
BY DEF memory, IInv, TypeOK, SortedActive, ActiveIffOpen, LocationOf

(* The heap of a step that cleans up from a limit on.                      *)
LEMMA HeapClosed ==
  ASSUME IInv, NEW limit \in Nat, NEW file \in [Addr -> Values], CloseCells(limit, file)
  PROVE  /\ cells' \in Seq(Cell) /\ Len(cells') = Len(cells)
         /\ activeCells' \in Seq(DOMAIN cells') /\ SortedActive' /\ ActiveIffOpen'
<1>1. \A r \in Addr : file[r] \in Values
  OBVIOUS
<1> QED
  BY <1>1, CloseCellsFacts DEF IInv

(* A declaration gives the variable its register and the block its name.   *)
LEMMA BindFacts ==
  ASSUME TypeOK, NEW r \in Addr, Bind(r)
  PROVE  /\ home' \in Seq(Addr) /\ DOMAIN home \subseteq DOMAIN home'
         /\ Len(home) + 1 \in DOMAIN home'
         /\ BlockRecord \subseteq BlockRecord'
<1>1. /\ home \in Seq(Addr) /\ Len(home) \in Nat /\ DOMAIN home = 1 .. Len(home)
      /\ home' = Append(home, r)
  BY DEF TypeOK, Bind
<1>2. home' \in Seq(Addr) /\ Len(home') = Len(home) + 1
  BY <1>1, AppendProperties
<1>3. DOMAIN home \subseteq DOMAIN home' /\ Len(home) + 1 \in DOMAIN home'
  BY <1>1, <1>2
<1> QED
  BY <1>2, <1>3 DEF BlockRecord

(* The sizes and the elements the control steps compute with.              *)
LEMMA ControlTypes ==
  ASSUME IInv
  PROVE  /\ cur \in Context /\ frames \in Seq(Context) /\ blocks \in Seq(BlockRecord)
         /\ scopeStarts \in Seq(Addr) /\ home \in Seq(Addr)
         /\ regs \in [Addr -> Values] /\ ret \in Values
         /\ Len(frames) \in Nat /\ DOMAIN frames = 1 .. Len(frames)
         /\ Len(blocks) \in Nat \ {0} /\ DOMAIN blocks = 1 .. Len(blocks)
         /\ Len(scopeStarts) \in Nat /\ Len(home) \in Nat
         /\ cur.base \in 1 .. Len(blocks) /\ cur.base > Len(frames)
         /\ cur.nextReg \in 0 .. NumRegs /\ cur.scopeStart \in 0 .. NumRegs
         /\ cur.window \in 0 .. NumRegs /\ NumRegs \in Nat \ {0}
<1>1. /\ cur \in Context /\ frames \in Seq(Context) /\ blocks \in Seq(BlockRecord)
      /\ scopeStarts \in Seq(Addr) /\ home \in Seq(Addr)
      /\ regs \in [Addr -> Values] /\ ret \in Values
  BY DEF IInv, TypeOK
<1>2. /\ cur.nextReg \in 0 .. NumRegs /\ cur.scopeStart \in 0 .. NumRegs
      /\ cur.window \in 0 .. NumRegs /\ NumRegs \in Nat \ {0}
  BY <1>1, ConstantsAssumption DEF Context
<1>3. cur.base \in Len(frames) + 1 .. Len(blocks)
  BY DEF IInv, StackShape
<1> QED
  BY <1>1, <1>2, <1>3

(* The shape of the stacks after a step that neither calls nor returns.    *)
LEMMA SameFrames ==
  ASSUME IInv, frames' = frames, cur'.base = cur.base,
         blocks' \in Seq(BlockRecord'), scopeStarts' \in Seq(Addr),
         Len(blocks') >= cur.base,
         Len(scopeStarts') + Len(frames) + 1 >= Len(blocks'),
         \A k \in 1 .. Len(blocks') : blocks'[k].loop => blocks'[k].start + 2 <= NumRegs
  PROVE  StackShape'
<1>1. cur.base \in Len(frames) + 1 .. Len(blocks')
  BY ControlTypes
<1>2. Script'.base = 1
  BY DEF Script, InFunction, IInv, StackShape
<1>3. DOMAIN blocks' = 1 .. Len(blocks')
  OBVIOUS
<1> QED
  BY <1>1, <1>2, <1>3 DEF StackShape, IInv

(* A declaration keeps the invariant.                                      *)
LEMMA DeclareStep ==
  ASSUME IInv, NEW x \in Vals, Declare(x)
  PROVE  IInv'
<1> DEFINE r == cur.nextReg
           n == Len(blocks)
           new == [blocks[n] EXCEPT !.vars = @ \cup {Len(home) + 1}]
<1>1. /\ r \in Addr /\ Bind(r) /\ TypeOK
      /\ regs' = [regs EXCEPT ![r] = x] /\ cur' = [cur EXCEPT !.nextReg = r + 1]
      /\ blocks' = [blocks EXCEPT ![n] = new]
      /\ UNCHANGED <<frames, scopeStarts, memory, closures, pending, ret>>
  BY ControlTypes DEF Declare, Addr, IInv
<1>2. /\ home' \in Seq(Addr) /\ DOMAIN home \subseteq DOMAIN home'
      /\ Len(home) + 1 \in DOMAIN home' /\ BlockRecord \subseteq BlockRecord'
  BY <1>1, BindFacts
<1>3. /\ new \in BlockRecord' /\ new.loop = blocks[n].loop /\ new.start = blocks[n].start
  <2>1. blocks[n] \in BlockRecord'
    BY <1>2, ControlTypes
  <2> QED
    BY <1>2, <2>1 DEF BlockRecord
<1>4. /\ blocks' \in Seq(BlockRecord') /\ Len(blocks') = n
      /\ \A k \in 1 .. n : /\ blocks'[k].loop = blocks[k].loop
                           /\ blocks'[k].start = blocks[k].start
  <2>1. blocks \in Seq(BlockRecord') /\ n \in 1 .. Len(blocks)
    BY <1>2, ControlTypes, SeqMonotonic
  <2> HIDE DEF new, n
  <2>2. /\ blocks' \in Seq(BlockRecord') /\ Len(blocks') = Len(blocks)
        /\ \A k \in 1 .. Len(blocks) : blocks'[k] = IF k = n THEN new ELSE blocks[k]
    BY <1>1, <1>3, <2>1, ExceptSeq
  <2> QED
    BY <1>3, <2>2 DEF n
<1>5. cur' \in Context /\ cur'.base = cur.base
  <2>1. r + 1 \in 0 .. NumRegs
    BY <1>1, ControlTypes DEF Addr
  <2> QED
    BY <1>1, <2>1, ControlTypes DEF Context
<1>6. regs' \in [Addr -> Values]
  BY <1>1, ControlTypes DEF Values
<1>7. StackShape'
  <2>1. \A k \in 1 .. Len(blocks) : blocks[k].loop => blocks[k].start + 2 <= NumRegs
    BY ControlTypes DEF IInv, StackShape
  <2>2. Len(scopeStarts) + Len(frames) + 1 >= Len(blocks)
    BY DEF IInv, StackShape
  <2> QED
    BY <1>1, <1>4, <1>5, <2>1, <2>2, ControlTypes, SameFrames
<1> QED
  BY <1>1, <1>2, <1>4, <1>5, <1>6, <1>7, HeapUnchanged, ControlTypes, ControlStep
     DEF IInv, TypeOK

(* A new innermost block.                                                  *)
LEMMA AppendBlock ==
  ASSUME IInv, BlockRecord \subseteq BlockRecord', NEW b \in BlockRecord',
         b.loop => b.start + 2 <= NumRegs, blocks' = Append(blocks, b)
  PROVE  /\ blocks' \in Seq(BlockRecord') /\ Len(blocks') = Len(blocks) + 1
         /\ \A k \in 1 .. Len(blocks') : blocks'[k].loop => blocks'[k].start + 2 <= NumRegs
<1>1. blocks \in Seq(BlockRecord')
  BY ControlTypes, SeqMonotonic
<1>2. /\ blocks' \in Seq(BlockRecord') /\ Len(blocks') = Len(blocks) + 1
      /\ \A k \in 1 .. Len(blocks) : blocks'[k] = blocks[k]
      /\ blocks'[Len(blocks) + 1] = b
  BY <1>1, AppendProperties
<1>3. \A k \in 1 .. Len(blocks) : blocks[k].loop => blocks[k].start + 2 <= NumRegs
  BY ControlTypes DEF IInv, StackShape
<1>4. ASSUME NEW k \in 1 .. Len(blocks'), blocks'[k].loop
      PROVE  blocks'[k].start + 2 <= NumRegs
  <2>1. CASE k = Len(blocks) + 1
    BY <1>2, <1>4, <2>1
  <2>2. CASE k # Len(blocks) + 1
    <3>1. k \in 1 .. Len(blocks)
      BY <1>2, <2>2, ControlTypes
    <3> QED
      BY <1>2, <1>3, <1>4, <3>1
  <2> QED
    BY <2>1, <2>2
<1> QED
  BY <1>2, <1>4

(* OP_ENTER_SCOPE keeps the invariant.                                     *)
LEMMA EnterScopeStep ==
  ASSUME IInv, EnterScope
  PROVE  IInv'
<1> DEFINE r == cur.nextReg
           new == [start |-> r, loop |-> FALSE, vars |-> {}]
<1>1. /\ r \in Addr /\ new \in BlockRecord /\ ~new.loop
      /\ blocks' = Append(blocks, new) /\ scopeStarts' = Append(scopeStarts, r)
      /\ cur' = [cur EXCEPT !.scopeStart = r]
      /\ UNCHANGED <<regs, frames, memory, closures, pending, home, ret>>
  BY ControlTypes DEF EnterScope, PushScope, Addr, BlockRecord
<1>2. BlockRecord' = BlockRecord
  BY <1>1 DEF BlockRecord
<1>3. /\ blocks' \in Seq(BlockRecord') /\ Len(blocks') = Len(blocks) + 1
      /\ \A k \in 1 .. Len(blocks') : blocks'[k].loop => blocks'[k].start + 2 <= NumRegs
  <2> HIDE DEF new
  <2> QED
    BY <1>1, <1>2, AppendBlock
<1>4. scopeStarts' \in Seq(Addr) /\ Len(scopeStarts') = Len(scopeStarts) + 1
  BY <1>1, ControlTypes, AppendProperties
<1>5. cur' \in Context /\ cur'.base = cur.base
  BY <1>1, ControlTypes DEF Context
<1>6. StackShape'
  <2>1. Len(scopeStarts) + Len(frames) + 1 >= Len(blocks)
    BY DEF IInv, StackShape
  <2> QED
    BY <1>1, <1>3, <1>4, <1>5, <2>1, ControlTypes, SameFrames
<1> QED
  BY <1>1, <1>3, <1>4, <1>5, <1>6, HeapUnchanged, ControlTypes, ControlStep
     DEF IInv, TypeOK

(* The start of a for statement keeps the invariant.                       *)
LEMMA EnterForStep ==
  ASSUME IInv, NEW x \in Vals, EnterFor(x)
  PROVE  IInv'
<1> DEFINE r == cur.nextReg
           new == [start |-> r, loop |-> TRUE, vars |-> {Len(home) + 1}]
<1>1. /\ r + 1 < NumRegs /\ Bind(r) /\ TypeOK
      /\ blocks' = Append(blocks, new) /\ scopeStarts' = Append(scopeStarts, r)
      /\ cur' = [PushScope(cur, r) EXCEPT !.nextReg = r + 2]
      /\ regs' = [regs EXCEPT ![r] = x, ![r + 1] = Nil]
      /\ UNCHANGED <<frames, memory, closures, pending, ret>>
  BY DEF EnterFor, IInv
<1>1a. r \in Addr /\ r + 1 \in Addr /\ r + 2 \in 0 .. NumRegs
  <2>1. r + 1 < NumRegs
    BY <1>1
  <2>2. r \in 0 .. NumRegs /\ NumRegs \in Nat
    BY ControlTypes
  <2> QED
    BY <2>1, <2>2 DEF Addr
<1>2. /\ home' \in Seq(Addr) /\ DOMAIN home \subseteq DOMAIN home'
      /\ Len(home) + 1 \in DOMAIN home' /\ BlockRecord \subseteq BlockRecord'
  BY <1>1, <1>1a, BindFacts
<1>3. /\ blocks' \in Seq(BlockRecord') /\ Len(blocks') = Len(blocks) + 1
      /\ \A k \in 1 .. Len(blocks') : blocks'[k].loop => blocks'[k].start + 2 <= NumRegs
  <2>1. new \in BlockRecord' /\ new.start + 2 <= NumRegs
    <3>1. r \in 0 .. NumRegs /\ r + 2 <= NumRegs
      BY <1>1a, ControlTypes
    <3>2. {Len(home) + 1} \in SUBSET DOMAIN home'
      BY <1>2
    <3> QED
      BY <3>1, <3>2 DEF BlockRecord
  <2> HIDE DEF new
  <2> QED
    BY <1>1, <1>2, <2>1, AppendBlock
<1>4. scopeStarts' \in Seq(Addr) /\ Len(scopeStarts') = Len(scopeStarts) + 1
  BY <1>1, <1>1a, ControlTypes, AppendProperties
<1>5. cur' \in Context /\ cur'.base = cur.base
  <2>1. PushScope(cur, r) \in Context /\ PushScope(cur, r).base = cur.base
    BY <1>1a, ControlTypes DEF Context, PushScope, Addr
  <2> QED
    BY <1>1, <1>1a, <2>1 DEF Context
<1>6. regs' \in [Addr -> Values]
  BY <1>1, ControlTypes DEF Values
<1>7. StackShape'
  <2>1. Len(scopeStarts) + Len(frames) + 1 >= Len(blocks)
    BY DEF IInv, StackShape
  <2>2. frames' = frames /\ Len(blocks') >= cur.base
    BY <1>1, <1>3, ControlTypes
  <2>3. Len(scopeStarts') + Len(frames) + 1 >= Len(blocks')
    BY <1>3, <1>4, <2>1, ControlTypes
  <2> QED
    BY <1>3, <1>4, <1>5, <2>2, <2>3, SameFrames
<1> QED
  BY <1>1, <1>2, <1>3, <1>4, <1>5, <1>6, <1>7, HeapUnchanged, ControlTypes, ControlStep
     DEF IInv, TypeOK

(* The blocks that remain when the innermost ones are left.                *)
LEMMA PrefixBlocks ==
  ASSUME IInv, NEW k \in 1 .. Len(blocks), blocks' = SubSeq(blocks, 1, k), home' = home
  PROVE  /\ blocks' \in Seq(BlockRecord') /\ Len(blocks') = k
         /\ \A i \in 1 .. k : blocks'[i].loop => blocks'[i].start + 2 <= NumRegs
<1>1. /\ blocks' \in Seq(BlockRecord) /\ Len(blocks') = k
      /\ \A i \in 1 .. k : blocks'[i] = blocks[i]
  BY ControlTypes, PrefixFacts
<1>2. \A i \in 1 .. Len(blocks) : blocks[i].loop => blocks[i].start + 2 <= NumRegs
  BY ControlTypes DEF IInv, StackShape
<1>3. BlockRecord' = BlockRecord
  BY DEF BlockRecord
<1> QED
  BY <1>1, <1>2, <1>3, ControlTypes

(* An open block that is not a function's own has its entry.               *)
LEMMA EntryToPop ==
  ASSUME IInv, Len(blocks) > cur.base
  PROVE  /\ scopeStarts # <<>> /\ Len(scopeStarts) + Len(frames) >= Len(blocks) - 1
         /\ ScopeLimit \in Addr
<1>1. Len(scopeStarts) + Len(frames) + 1 >= Len(blocks)
  BY DEF IInv, StackShape
<1>2. Len(scopeStarts) > 0
  BY <1>1, ControlTypes
<1> QED
  BY <1>1, <1>2, ControlTypes, FrontFacts DEF ScopeLimit

(* OP_EXIT_SCOPE keeps the invariant: it has an entry to pop.              *)
LEMMA ExitScopeStep ==
  ASSUME IInv, ExitScope
  PROVE  IInv'
<1>1. /\ Len(blocks) > cur.base /\ CloseCells(ScopeLimit, regs)
      /\ scopeStarts' = Front(scopeStarts) /\ blocks' = SubSeq(blocks, 1, Len(blocks) - 1)
      /\ cur' = [cur EXCEPT !.nextReg = cur.scopeStart]
      /\ UNCHANGED <<regs, frames, closures, pending, home, ret>>
  BY DEF ExitScope, Front
<1>2. ScopeLimit \in Nat /\ scopeStarts # <<>>
      /\ Len(scopeStarts) + Len(frames) >= Len(blocks) - 1
  BY <1>1, EntryToPop DEF Addr
<1>3. scopeStarts' \in Seq(Addr) /\ Len(scopeStarts') = Len(scopeStarts) - 1
  BY <1>1, <1>2, ControlTypes, FrontFacts
<1>4. /\ blocks' \in Seq(BlockRecord') /\ Len(blocks') = Len(blocks) - 1
      /\ \A i \in 1 .. Len(blocks') : blocks'[i].loop => blocks'[i].start + 2 <= NumRegs
  <2>1. Len(blocks) - 1 \in 1 .. Len(blocks)
    BY <1>1, ControlTypes
  <2> QED
    BY <1>1, <2>1, PrefixBlocks
<1>5. cur' \in Context /\ cur'.base = cur.base
  BY <1>1, ControlTypes DEF Context
<1>6. StackShape'
  <2>1. frames' = frames /\ Len(blocks') >= cur.base
    BY <1>1, <1>4, ControlTypes
  <2>2. Len(scopeStarts') + Len(frames) + 1 >= Len(blocks')
    BY <1>2, <1>3, <1>4, ControlTypes
  <2> QED
    BY <1>3, <1>4, <1>5, <2>1, <2>2, SameFrames
<1>7. /\ cells' \in Seq(Cell) /\ Len(cells') = Len(cells)
      /\ activeCells' \in Seq(DOMAIN cells') /\ SortedActive' /\ ActiveIffOpen'
  BY <1>1, <1>2, HeapClosed, ControlTypes
<1> QED
  BY <1>1, <1>3, <1>4, <1>5, <1>6, <1>7, ControlTypes, ControlStep DEF IInv, TypeOK

(* A break or a continue keeps the invariant.                              *)
LEMMA LeaveStep ==
  ASSUME IInv, NEW k \in DOMAIN blocks, Leave(k)
  PROVE  IInv'
<1>1. /\ k \in cur.base .. Len(blocks) - 1 /\ blocks' = SubSeq(blocks, 1, k)
      /\ cur' = [cur EXCEPT !.nextReg = cur.scopeStart]
      /\ UNCHANGED <<regs, frames, scopeStarts, memory, closures, pending, home, ret>>
  BY DEF Leave
<1>2. /\ blocks' \in Seq(BlockRecord') /\ Len(blocks') = k
      /\ \A i \in 1 .. k : blocks'[i].loop => blocks'[i].start + 2 <= NumRegs
  BY <1>1, ControlTypes, PrefixBlocks
<1>3. cur' \in Context /\ cur'.base = cur.base
  BY <1>1, ControlTypes DEF Context
<1>4. StackShape'
  <2>1. Len(scopeStarts) + Len(frames) + 1 >= Len(blocks)
    BY DEF IInv, StackShape
  <2> QED
    BY <1>1, <1>2, <1>3, <2>1, ControlTypes, SameFrames
<1> QED
  BY <1>1, <1>2, <1>3, <1>4, HeapUnchanged, ControlTypes, ControlStep DEF IInv, TypeOK

(* The next iteration of a loop keeps the invariant.                       *)
LEMMA UpdateIterStep ==
  ASSUME IInv, NEW x \in Vals, UpdateIter(x)
  PROVE  IInv'
<1> DEFINE n == Len(blocks)
           r == blocks[n].start
           new == [blocks[n] EXCEPT !.vars = {Len(home) + 1}]
<1>1. /\ n > cur.base /\ blocks[n].loop /\ Bind(r) /\ TypeOK
      /\ CloseCells(ScopeLimit, regs)
      /\ blocks' = [blocks EXCEPT ![n] = new]
      /\ cur' = [cur EXCEPT !.scopeStart = r, !.nextReg = r + 2]
      /\ regs' = [regs EXCEPT ![r] = x]
      /\ UNCHANGED <<frames, scopeStarts, closures, pending, ret>>
  BY DEF UpdateIter, Block, IInv
<1>2. n \in 1 .. Len(blocks) /\ blocks[n] \in BlockRecord /\ r \in 0 .. NumRegs
  <2>1. n \in 1 .. Len(blocks)
    BY ControlTypes
  <2>2. blocks[n] \in BlockRecord
    BY <2>1, ControlTypes
  <2> QED
    BY <2>1, <2>2 DEF BlockRecord
<1>3. \A k \in 1 .. n : blocks[k].loop => blocks[k].start + 2 <= NumRegs
  BY ControlTypes DEF IInv, StackShape
<1>4. r \in Addr /\ r + 2 \in 0 .. NumRegs
  <2> HIDE DEF r
  <2>1. r + 2 <= NumRegs
    BY <1>1, <1>2, <1>3 DEF r
  <2> QED
    BY <1>2, <2>1, ControlTypes DEF Addr
<1>5. /\ home' \in Seq(Addr) /\ DOMAIN home \subseteq DOMAIN home'
      /\ Len(home) + 1 \in DOMAIN home' /\ BlockRecord \subseteq BlockRecord'
  <2> HIDE DEF r
  <2> QED
    BY <1>1, <1>4, BindFacts
<1>6. /\ blocks' \in Seq(BlockRecord') /\ Len(blocks') = n
      /\ \A k \in 1 .. n : blocks'[k].loop => blocks'[k].start + 2 <= NumRegs
  <2>1. new \in BlockRecord' /\ new.start = r /\ new.loop = blocks[n].loop
    BY <1>2, <1>5 DEF BlockRecord
  <2>2. blocks \in Seq(BlockRecord')
    BY <1>5, ControlTypes, SeqMonotonic
  <2> HIDE DEF new
  <2>3. /\ blocks' \in Seq(BlockRecord') /\ Len(blocks') = Len(blocks)
        /\ \A k \in 1 .. Len(blocks) : blocks'[k] = IF k = n THEN new ELSE blocks[k]
    BY <1>1, <1>2, <2>1, <2>2, ExceptSeq
  <2> QED
    BY <1>3, <2>1, <2>3
<1>7. cur' \in Context /\ cur'.base = cur.base
  <2> HIDE DEF r
  <2> QED
    BY <1>1, <1>2, <1>4, ControlTypes DEF Context
<1>8. regs' \in [Addr -> Values]
  BY <1>1, ControlTypes DEF Values
<1>9. StackShape'
  <2>1. Len(scopeStarts) + Len(frames) + 1 >= Len(blocks)
    BY DEF IInv, StackShape
  <2> QED
    BY <1>1, <1>6, <1>7, <2>1, ControlTypes, SameFrames
<1>10. ScopeLimit \in Nat
  BY <1>1, EntryToPop DEF Addr
<1>11. /\ cells' \in Seq(Cell) /\ Len(cells') = Len(cells)
       /\ activeCells' \in Seq(DOMAIN cells') /\ SortedActive' /\ ActiveIffOpen'
  BY <1>1, <1>10, HeapClosed, ControlTypes
<1> QED
  BY <1>1, <1>5, <1>6, <1>7, <1>8, <1>9, <1>11, ControlTypes, ControlStep DEF IInv, TypeOK

(* A call keeps the invariant: the depth check bounds the frames.          *)
LEMMA CallStep ==
  ASSUME IInv, NEW c \in 0 .. Len(closures),
         NEW args \in {<<>>} \cup {<<x>> : x \in Vals}, Call(c, args)
  PROVE  IInv'
<1> DEFINE w == cur.nextReg + 1
           top == w + Len(args)
           n == Len(home)
           new == [start |-> w, loop |-> FALSE, vars |-> n + 1 .. n + Len(args)]
           callee == [window |-> w, closure |-> c, base |-> Len(blocks) + 1,
                      nextReg |-> top + 1, scopeStart |-> w]
<1>1. /\ args \in Seq(Vals) /\ Len(args) \in 0 .. 1
      /\ \A i \in 1 .. Len(args) : args[i] \in Vals
  <2>1. CASE args = <<>>
    BY <2>1
  <2>2. CASE \E x \in Vals : args = <<x>>
    BY <2>2
  <2> QED
    BY <2>1, <2>2
<1>2. /\ Len(frames) < MaxDepth /\ top < NumRegs
      /\ regs' = [r \in Addr |-> IF r \in w .. top - 1 THEN args[r - w + 1]
                                 ELSE IF r \in {w - 1, top} THEN Nil ELSE regs[r]]
      /\ frames' = Append(frames, cur) /\ cur' = callee
      /\ blocks' = Append(blocks, new)
      /\ home' = home \o [i \in 1 .. Len(args) |-> w + i - 1]
      /\ UNCHANGED <<scopeStarts, memory, closures, pending, ret>>
  BY DEF Call, DepthAllows
<1>3. /\ w \in Addr /\ top \in Addr /\ top + 1 \in 0 .. NumRegs
      /\ w \in 0 .. NumRegs /\ top = w + Len(args)
  <2>1. top < NumRegs
    BY <1>2
  <2>2. Len(args) \in Nat
    BY <1>1
  <2>3. cur.nextReg \in Nat /\ NumRegs \in Nat
    BY ControlTypes
  <2>4. w \in Nat \ {0} /\ top = w + Len(args)
    BY <2>3
  <2> HIDE DEF w, top
  <2> QED
    BY <2>1, <2>2, <2>3, <2>4 DEF Addr
<1> HIDE DEF w, top
<1>4. /\ home' \in Seq(Addr) /\ DOMAIN home \subseteq DOMAIN home'
      /\ n + 1 .. n + Len(args) \subseteq DOMAIN home'
  <2> DEFINE added == [i \in 1 .. Len(args) |-> w + i - 1]
  <2>1. \A i \in 1 .. Len(args) : w + i - 1 \in Addr
    BY <1>1, <1>3 DEF Addr
  <2>2. added \in Seq(Addr) /\ Len(added) = Len(args)
    BY <1>1, <2>1
  <2> HIDE DEF added
  <2>3. home' = home \o added
    BY <1>2 DEF added
  <2>4. home \in Seq(Addr) /\ n \in Nat /\ DOMAIN home = 1 .. n
    BY ControlTypes
  <2> HIDE DEF n
  <2>5. home' \in Seq(Addr) /\ Len(home') = Len(home) + Len(args)
    <3>1. home \o added \in Seq(Addr) /\ Len(home \o added) = Len(home) + Len(added)
      BY <2>2, <2>4, ConcatProperties
    <3> QED
      BY <2>2, <2>3, <3>1
  <2>6. DOMAIN home' = 1 .. n + Len(args)
    BY <2>5 DEF n
  <2> QED
    BY <1>1, <2>4, <2>5, <2>6
<1>5. BlockRecord \subseteq BlockRecord'
  BY <1>4 DEF BlockRecord
<1>6. /\ blocks' \in Seq(BlockRecord') /\ Len(blocks') = Len(blocks) + 1
      /\ \A k \in 1 .. Len(blocks') : blocks'[k].loop => blocks'[k].start + 2 <= NumRegs
  <2>1. new \in BlockRecord' /\ ~new.loop
    BY <1>3, <1>4 DEF BlockRecord
  <2> HIDE DEF new
  <2> QED
    BY <1>2, <1>5, <2>1, AppendBlock
<1>7. /\ frames' \in Seq(Context) /\ Len(frames') = Len(frames) + 1
      /\ \A i \in 1 .. Len(frames) : frames'[i] = frames[i]
      /\ frames'[Len(frames) + 1] = cur
  <2>1. frames' = Append(frames, cur) /\ frames \in Seq(Context) /\ cur \in Context
    BY <1>2, ControlTypes
  <2> QED
    BY <2>1, AppendProperties
<1>8. cur' \in Context /\ cur'.base = Len(blocks) + 1
  <2>1. Len(blocks) + 1 \in Nat \ {0}
    BY ControlTypes
  <2>2. callee \in Context
    BY <1>3, <2>1 DEF Context
  <2> QED
    BY <1>2, <2>2
<1>9. Len(frames') <= MaxDepth
  <2>1. Len(frames) \in Nat /\ MaxDepth \in Nat
    BY ControlTypes, ConstantsAssumption
  <2>2. Len(frames) < MaxDepth /\ Len(frames') = Len(frames) + 1
    BY <1>2, <1>7
  <2> QED
    BY <2>1, <2>2
<1>10. regs' \in [Addr -> Values]
  <2>1. ASSUME NEW r \in Addr, r \in w .. top - 1
        PROVE  args[r - w + 1] \in Vals
    <3>1. r - w + 1 \in 1 .. Len(args)
      BY <1>1, <1>3, <2>1 DEF Addr
    <3> QED
      BY <1>1, <3>1
  <2> QED
    BY <1>2, <2>1, ControlTypes DEF Values
<1>11. StackShape'
  <2>1. /\ \A i \in DOMAIN frames : frames[i].base \in i .. cur.base - 1
        /\ \A i, j \in DOMAIN frames : i < j => frames[i].base < frames[j].base
        /\ Script.base = 1
        /\ Len(scopeStarts) + Len(frames) + 1 >= Len(blocks)
    BY DEF IInv, StackShape
  <2>2. cur'.base \in Len(frames') + 1 .. Len(blocks')
    BY <1>6, <1>7, <1>8, ControlTypes, SMTT(30)
  <2>3. DOMAIN frames' = 1 .. Len(frames) + 1 /\ DOMAIN blocks' = 1 .. Len(blocks')
    BY <1>6, <1>7, ControlTypes
  <2>4. ASSUME NEW i \in DOMAIN frames'
        PROVE  frames'[i].base \in i .. cur'.base - 1
    <3>1. CASE i = Len(frames) + 1
      BY <3>1, <1>7, <1>8, ControlTypes
    <3>2. CASE i \in 1 .. Len(frames)
      <4>1. frames[i].base \in i .. cur.base - 1
        BY <3>2, <2>1, ControlTypes
      <4> QED
        BY <3>2, <4>1, <1>7, <1>8, ControlTypes, SMTT(30)
    <3> QED
      BY <3>1, <3>2, <2>3, ControlTypes
  <2>5. ASSUME NEW i \in DOMAIN frames', NEW j \in DOMAIN frames', i < j
        PROVE  frames'[i].base < frames'[j].base
    <3>1. i \in 1 .. Len(frames) /\ frames'[i] = frames[i]
      BY <2>3, <2>5, <1>7, ControlTypes, SMTT(30)
    <3>2. CASE j = Len(frames) + 1
      BY <3>1, <3>2, <2>1, <1>7, ControlTypes, SMTT(30)
    <3>3. CASE j \in 1 .. Len(frames)
      BY <3>1, <3>3, <2>1, <2>5, <1>7, ControlTypes
    <3> QED
      BY <3>2, <3>3, <2>3, ControlTypes, SMTT(30)
  <2>6. Script'.base = 1
    <3>1. frames'[1].base = 1 /\ frames' # <<>>
      <4>1. CASE frames = <<>>
        <5>1. Len(frames) = 0 /\ cur.base = 1
          BY <4>1, <2>1 DEF Script, InFunction
        <5> QED
          BY <5>1, <1>7
      <4>2. CASE frames # <<>>
        <5>1. 1 \in 1 .. Len(frames)
          BY <4>2, ControlTypes
        <5> QED
          BY <4>2, <5>1, <2>1, <1>7 DEF Script, InFunction
      <4> QED
        BY <4>1, <4>2
    <3> QED
      BY <3>1 DEF Script, InFunction
  <2>7. Len(scopeStarts') + Len(frames') + 1 >= Len(blocks')
    BY <1>2, <1>6, <1>7, <2>1, ControlTypes
  <2> QED
    BY <1>6, <2>2, <2>3, <2>4, <2>5, <2>6, <2>7 DEF StackShape
<1> HIDE DEF w, top, n, new, callee
<1> QED
  BY <1>2, <1>4, <1>6, <1>7, <1>8, <1>9, <1>10, <1>11, HeapUnchanged, ControlTypes, ControlStep

(* A function is left by a return statement or at the end of its body; the *)
(* registers below its callee's slot stay as they are, and in a program    *)
(* without early exits so do those of its captured variables.              *)
LEMMA EndsOfFunctions ==
  ASSUME IInv, Return \/ FallOff
  PROVE  \E file \in [Addr -> Values] :
           /\ OpReturn(file)
           /\ \A r \in Addr : r < cur.window - 1 => file[r] = regs[r]
           /\ Leaves = {} =>
                /\ Len(blocks) = cur.base
                /\ \A i \in DOMAIN activeCells : LocationOf(i) >= cur.window =>
                      file[LocationOf(i)] = regs[LocationOf(i)]
<1>1. /\ regs \in [Addr -> Values] /\ ret \in Values /\ Nil \in Values
      /\ cur.window \in Nat
      /\ \A i \in DOMAIN activeCells : LocationOf(i) \in Addr /\ LocationOf(i) \in Nat
  <2>1. \A i \in DOMAIN activeCells : LocationOf(i) \in Addr
    BY ElementTypes DEF IInv, TypeOK, LocationOf, ActiveIffOpen, Cell
  <2>2. cur.window \in Nat /\ ret \in Values /\ regs \in [Addr -> Values]
    BY ControlTypes DEF IInv, TypeOK
  <2> QED
    BY <2>1, <2>2 DEF Addr, Values
<1>2. CASE Return
  <2> DEFINE file == [regs EXCEPT ![cur.window - 1] = ret]
  <2>1. file \in [Addr -> Values] /\ OpReturn(file)
    BY <1>1, <1>2 DEF Return
  <2>2. \A r \in Addr : r # cur.window - 1 => file[r] = regs[r]
    BY <1>1
  <2>3. \A r \in Addr : r < cur.window - 1 \/ r >= cur.window => r # cur.window - 1
    BY <1>1 DEF Addr
  <2>4. Leaves = {} => Len(blocks) = cur.base
    BY <1>2 DEF Return
  <2> HIDE DEF file
  <2> QED
    BY <1>1, <2>1, <2>2, <2>3, <2>4
<1>3. CASE FallOff
  <2> DEFINE file == [regs EXCEPT ![cur.window - 1] = Nil, ![cur.window] = Nil]
  <2>1. file \in [Addr -> Values] /\ OpReturn(file)
    BY <1>1, <1>3 DEF FallOff
  <2>2. \A r \in Addr : r \notin {cur.window - 1, cur.window} => file[r] = regs[r]
    BY <1>1
  <2>3. \A r \in Addr : r < cur.window - 1 \/ (r >= cur.window /\ r # cur.window)
                         => r \notin {cur.window - 1, cur.window}
    BY <1>1 DEF Addr
  <2>4. Leaves = {} => /\ Len(blocks) = cur.base
                       /\ \A i \in DOMAIN activeCells : LocationOf(i) # cur.window
    BY <1>3 DEF FallOff, FirstParameterCaptured
  <2> HIDE DEF file
  <2> QED
    BY <1>1, <2>1, <2>2, <2>3, <2>4
<1> QED
  BY <1>2, <1>3

(* OP_RETURN keeps the invariant, from any depth of blocks.                *)
LEMMA ReturnStep ==
  ASSUME IInv, NEW file \in [Addr -> Values], OpReturn(file)
  PROVE  IInv'
<1> DEFINE n == Len(frames)
           caller == frames[n]
<1>1. /\ frames # <<>> /\ CloseCells(cur.window, file)
      /\ regs' = file
      /\ cur' = caller /\ frames' = SubSeq(frames, 1, n - 1)
      /\ blocks' = SubSeq(blocks, 1, cur.base - 1)
      /\ UNCHANGED <<scopeStarts, closures, pending, home, ret>>
  BY DEF OpReturn, InFunction, FrameLimit, Last, Front
<1>2. n \in 1 .. Len(frames) /\ n - 1 \in 0 .. Len(frames)
  BY <1>1, ControlTypes
<1>3. /\ \A i \in 1 .. n : frames[i].base \in i .. cur.base - 1
      /\ \A i, j \in 1 .. n : i < j => frames[i].base < frames[j].base
      /\ Script.base = 1
      /\ Len(scopeStarts) + n + 1 >= Len(blocks)
  BY ControlTypes DEF IInv, StackShape
<1>4. caller \in Context /\ caller.base \in n .. cur.base - 1
  <2>1. frames \in Seq(Context)
    BY ControlTypes
  <2> QED
    BY <1>2, <1>3, <2>1
<1>5. cur.base - 1 \in 1 .. Len(blocks)
  <2>1. cur.base \in 1 .. Len(blocks) /\ Len(blocks) \in Nat /\ n >= 1
    BY <1>2, ControlTypes
  <2> QED
    BY <1>4, <2>1
<1>6. /\ blocks' \in Seq(BlockRecord') /\ Len(blocks') = cur.base - 1
      /\ \A i \in 1 .. Len(blocks') : blocks'[i].loop => blocks'[i].start + 2 <= NumRegs
  BY <1>1, <1>5, PrefixBlocks
<1>7. /\ frames' \in Seq(Context) /\ Len(frames') = n - 1
      /\ \A i \in 1 .. n - 1 : frames'[i] = frames[i]
  BY <1>1, <1>2, ControlTypes, PrefixFacts
<1> HIDE DEF caller
<1>8. regs' \in [Addr -> Values]
  BY <1>1, ControlTypes
<1>9. Len(frames') <= MaxDepth
  BY <1>7, ControlTypes, ConstantsAssumption, SMTT(30) DEF IInv, TypeOK
<1>10. StackShape'
  <2>1. DOMAIN frames' = 1 .. n - 1 /\ DOMAIN blocks' = 1 .. Len(blocks') /\ n \in Nat
    BY <1>6, <1>7, ControlTypes
  <2>2. cur'.base \in Len(frames') + 1 .. Len(blocks')
    BY <1>1, <1>4, <1>6, <1>7
  <2>3. ASSUME NEW i \in 1 .. n - 1
        PROVE  frames'[i].base \in i .. cur'.base - 1
    <3>1. i \in 1 .. n /\ n \in 1 .. n /\ i < n
      BY <2>1
    <3>2. frames[i].base < caller.base /\ frames[i].base \in i .. cur.base - 1
      BY <3>1, <1>3 DEF caller
    <3> QED
      BY <3>2, <1>1, <1>4, <1>7
  <2>4. ASSUME NEW i \in 1 .. n - 1, NEW j \in 1 .. n - 1, i < j
        PROVE  frames'[i].base < frames'[j].base
    <3>1. i \in 1 .. n /\ j \in 1 .. n
      BY <2>1
    <3> QED
      BY <3>1, <2>4, <1>3, <1>7
  <2>5. Script'.base = 1
    <3>1. frames[1].base = 1
      BY <1>1, <1>3 DEF Script, InFunction
    <3>2. CASE n = 1
      BY <3>1, <3>2, <1>1, <1>7 DEF Script, InFunction, caller
    <3>3. CASE n # 1
      <4>1. 1 \in 1 .. n - 1 /\ frames' # <<>>
        BY <3>3, <1>2, <1>7, <2>1
      <4> QED
        BY <3>1, <4>1, <1>7 DEF Script, InFunction
    <3> QED
      BY <3>2, <3>3
  <2>6. Len(scopeStarts') + Len(frames') + 1 >= Len(blocks')
    <3>1. /\ cur.base \in 1 .. Len(blocks) /\ Len(blocks) \in Nat /\ n \in Nat
          /\ Len(scopeStarts) \in Nat
      BY ControlTypes
    <3>2. Len(scopeStarts') = Len(scopeStarts)
      BY <1>1
    <3> QED
      BY <3>1, <3>2, <1>3, <1>6, <1>7
  <2> QED
    BY <1>6, <2>1, <2>2, <2>3, <2>4, <2>5, <2>6 DEF StackShape
<1>11. /\ cells' \in Seq(Cell) /\ Len(cells') = Len(cells)
       /\ activeCells' \in Seq(DOMAIN cells') /\ SortedActive' /\ ActiveIffOpen'
  BY <1>1, HeapClosed, ControlTypes
<1> HIDE DEF n
<1> QED
  BY <1>1, <1>4, <1>6, <1>7, <1>8, <1>9, <1>10, <1>11, ControlTypes, ControlStep

(* clearVM keeps the invariant, whatever it finds on the stacks.           *)
LEMMA ClearStep ==
  ASSUME IInv, ClearVM, pending' = pending
  PROVE  IInv'
<1>1. /\ scopeStarts' = <<>> /\ frames' = <<>> /\ blocks' = <<blocks[1]>>
      /\ cur' = [Script EXCEPT !.closure = cur.closure,
                   !.nextReg = IF ScriptBlocks > 1 THEN Script.scopeStart ELSE @]
      /\ UNCHANGED <<regs, closures, home, ret>>
  BY DEF ClearVM
<1>2. /\ cells' \in Seq(Cell) /\ Len(cells') = Len(cells)
      /\ activeCells' \in Seq(DOMAIN cells') /\ SortedActive' /\ ActiveIffOpen'
  <2>1. CASE scopeStarts = <<>>
    BY <2>1, HeapUnchanged DEF ClearVM
  <2>2. CASE scopeStarts # <<>>
    <3>1. PICK i \in DOMAIN scopeStarts : CloseCells(scopeStarts[i], regs)
      BY <2>2 DEF ClearVM
    <3>2. scopeStarts[i] \in Nat
      BY ControlTypes DEF Addr
    <3> QED
      BY <3>1, <3>2, HeapClosed, ControlTypes
  <2> QED
    BY <2>1, <2>2
<1>3. Script \in Context /\ Script.base = 1
  <2>1. CASE frames = <<>>
    BY <2>1, ControlTypes DEF Script, InFunction, IInv, StackShape
  <2>2. CASE frames # <<>>
    <3>1. 1 \in 1 .. Len(frames)
      BY <2>2, ControlTypes
    <3>2. frames[1] \in Context
      BY <3>1, ControlTypes
    <3> QED
      BY <2>2, <3>2 DEF Script, InFunction, IInv, StackShape
  <2> QED
    BY <2>1, <2>2
<1>4. cur.closure \in 0 .. Len(closures)
  BY ControlTypes DEF Context
<1>5. cur' \in Context /\ cur'.base = 1
  <2> DEFINE reg == IF ScriptBlocks > 1 THEN Script.scopeStart ELSE Script.nextReg
  <2>1. reg \in 0 .. NumRegs
    BY <1>3 DEF Context
  <2>2. cur' = [Script EXCEPT !.closure = cur.closure, !.nextReg = reg]
    BY <1>1, <1>3
  <2> HIDE DEF reg
  <2> QED
    BY <1>3, <1>4, <2>1, <2>2 DEF Context
<1>6. blocks[1] \in BlockRecord /\ 1 \in DOMAIN blocks /\ BlockRecord' = BlockRecord
  <2>1. 1 \in DOMAIN blocks /\ blocks \in Seq(BlockRecord)
    BY ControlTypes
  <2>2. home' = home
    BY <1>1
  <2>3. BlockRecord' = BlockRecord
    BY <2>2 DEF BlockRecord
  <2> QED
    BY <2>1, <2>3
<1>7. /\ blocks' \in Seq(BlockRecord') /\ Len(blocks') = 1 /\ DOMAIN blocks' = {1}
      /\ blocks'[1] = blocks[1]
  BY <1>1, <1>6
<1>8. blocks[1].loop => blocks[1].start + 2 <= NumRegs
  BY <1>6 DEF IInv, StackShape
<1>9. StackShape'
  BY <1>1, <1>5, <1>7, <1>8 DEF StackShape, Script, InFunction
<1>10. Len(frames') <= MaxDepth /\ frames' \in Seq(Context) /\ scopeStarts' \in Seq(Addr)
  BY <1>1, ConstantsAssumption
<1> QED
  BY <1>1, <1>2, <1>5, <1>7, <1>9, <1>10, ControlTypes, ControlStep DEF IInv, TypeOK

(* Every step keeps the invariant.                                         *)
LEMMA NextIInv == IInv /\ [Next]_vars => IInv'
<1> SUFFICES ASSUME IInv, [Next]_vars PROVE IInv'
  OBVIOUS
<1>1. CASE \E x \in Vals : Declare(x) \/ EnterFor(x) \/ UpdateIter(x)
  BY <1>1, DeclareStep, EnterForStep, UpdateIterStep
<1>2. CASE \E v \in Visible : GetLocal(v)
  BY <1>2, ReadStep
<1>3. CASE \E v \in Visible, x \in Vals : SetLocal(v, x)
  BY <1>3, WriteStep
<1>4. \A j \in DOMAIN OwnCells : OwnCells[j] \in DOMAIN cells
  BY NamesFacts
<1>5. CASE \E j \in DOMAIN OwnCells : GetCell(OwnCells[j])
  BY <1>4, <1>5, CellReadStep
<1>6. CASE \E j \in DOMAIN OwnCells, x \in Vals : SetCell(OwnCells[j], x)
  BY <1>4, <1>6, CellWriteStep
<1>7. CASE \E n \in 1 .. MaxCaptures : MakeClosure(n)
  BY <1>7, MakeClosureStep
<1>8. CASE \E v \in Capturable : CaptureLocal(v)
  BY <1>8, CaptureLocalStep
<1>9. CASE \E j \in DOMAIN OwnCells : CaptureCell(j)
  BY <1>9, CaptureCellStep
<1>10. CASE \E c \in 0 .. Len(closures), args \in {<<>>} \cup {<<x>> : x \in Vals} :
              Call(c, args)
  BY <1>10, CallStep
<1>11. CASE CallTooDeep
  BY <1>11, CallTooDeepStep
<1>12. CASE Return \/ FallOff
  <2>1. PICK file \in [Addr -> Values] : OpReturn(file)
    BY <1>12, EndsOfFunctions
  <2> QED
    BY <2>1, ReturnStep
<1>13. CASE EnterScope
  BY <1>13, EnterScopeStep
<1>14. CASE ExitScope
  BY <1>14, ExitScopeStep
<1>15. CASE \E k \in DOMAIN blocks : Leave(k)
  BY <1>15, LeaveStep
<1>16. CASE Error \/ EndLine
  <2>1. ClearVM
    BY <1>16 DEF Error, EndLine
  <2>2. pending = 0 /\ pending' = pending
    BY <1>16, <2>1 DEF Error, EndLine, Idle, ClearVM
  <2> QED
    BY <2>1, <2>2, ClearStep
<1>17. CASE UNCHANGED vars
  <2>1. /\ UNCHANGED <<control, activeCells, closures, pending, home>>
        /\ regs' = regs /\ ret' = ret /\ cells' = cells
    BY <1>17 DEF vars, control
  <2> QED
    BY <2>1, ValueStep DEF IInv, TypeOK
<1> QED
  BY <1>1, <1>2, <1>3, <1>5, <1>6, <1>7, <1>8, <1>9, <1>10, <1>11, <1>12, <1>13,
     <1>14, <1>15, <1>16, <1>17 DEF Next

(* The machine's state is well formed in every execution, whatever early   *)
(* exits programs use: every opcode finds the stack entries it pops.       *)
THEOREM InvariantHolds == Spec => []IInv
<1>1. Init => IInv
  BY InitIInv
<1>2. IInv /\ [Next]_vars => IInv'
  BY NextIInv
<1> QED
  BY <1>1, <1>2, PTL DEF Spec

(* Types, and with them the bound of the frame stack.                      *)
THEOREM TypeCorrect == Spec => []TypeOK
<1>1. IInv => TypeOK
  BY DEF IInv
<1> QED
  BY <1>1, InvariantHolds, PTL

(* The open cells are always in strictly increasing address order, so the  *)
(* scan of captureValue and the loop of closeCells may stop where they do. *)
THEOREM CellsSorted == Spec => []SortedActive
<1>1. IInv => SortedActive
  BY DEF IInv
<1> QED
  BY <1>1, InvariantHolds, PTL

(* activeCells lists exactly the cells that still point at a register.     *)
THEOREM CellsListed == Spec => []ActiveIffOpen
<1>1. IInv => ActiveIffOpen
  BY DEF IInv
<1> QED
  BY <1>1, InvariantHolds, PTL

(* A return leaves no cell of its frame open, even when it leaves blocks   *)
(* without their OP_EXIT_SCOPE: the one clean-up that ignores scopeStarts. *)
THEOREM ReturnsClose == Spec => ReturnClosesFrame
<1>1. ASSUME IInv, [Next]_vars
      PROVE  [Return \/ FallOff => \A i \in DOMAIN activeCells' :
                cells'[activeCells'[i]].loc < cur.window]_vars
  <2> SUFFICES ASSUME Return \/ FallOff
               PROVE  \A i \in DOMAIN activeCells' : cells'[activeCells'[i]].loc < cur.window
    OBVIOUS
  <2>1. PICK file \in [Addr -> Values] : OpReturn(file)
    BY <1>1, EndsOfFunctions
  <2>2. CloseCells(cur.window, file) /\ cur.window \in Nat /\ \A r \in Addr : file[r] \in Values
    BY <1>1, <2>1, ControlTypes DEF OpReturn, FrameLimit
  <2> QED
    BY <1>1, <2>2, CloseCellsFacts DEF IInv
<1> QED
  BY <1>1, InvariantHolds, PTL DEF Spec, ReturnClosesFrame

-----------------------------------------------------------------------------
(* Where variables live: an invariant of its own on top of the machine's.  *)

(* The blocks lie one above the other in the register file: a block starts *)
(* above every variable of the blocks around it.                           *)
BlocksNest ==
  /\ \A k, l \in DOMAIN blocks : k < l =>
       /\ blocks[k].start <= blocks[l].start
       /\ \A v \in blocks[k].vars : home[v] < blocks[l].start
  /\ \A k \in DOMAIN blocks : \A v, w \in blocks[k].vars :
       /\ blocks[k].start <= home[v]
       /\ v # w => home[v] # home[w]

(* The scope starts that early exits left behind, under or among the live  *)
(* ones.                                                                   *)
Stale == Len(scopeStarts) + Len(frames) + 1 - Len(blocks)

(* The last block of the i-th caller.                                      *)
CallerTop(i) == IF i = Len(frames) THEN cur.base - 1 ELSE frames[i + 1].base - 1

(* The i-th context c, whose last block is "top": its window starts at its *)
(* first block, its next register lies above its variables, and an inner   *)
(* block k finds, in the entry that its exit will pop and in every later   *)
(* one, a limit that is not below its own start.                           *)
ContextFits(i, c, top) ==
  /\ blocks[c.base].start = c.window
  /\ blocks[top].start <= c.scopeStart
  /\ c.scopeStart <= c.nextReg
  /\ \A v \in blocks[top].vars : home[v] < c.nextReg
  /\ \A k \in c.base + 1 .. top : \A j \in DOMAIN scopeStarts :
       j >= Stale + k - i => blocks[k].start <= scopeStarts[j]

Layout ==
  /\ ContextFits(Len(frames) + 1, cur, Len(blocks))
  /\ \A i \in DOMAIN frames : ContextFits(i, frames[i], CallerTop(i))

(* Globals are reached by register from everywhere and never captured.     *)
GlobalsUncaptured == Held \cap blocks[1].vars = {}

VInv ==
  /\ IInv /\ BlocksNest /\ Layout /\ GlobalsUncaptured
  /\ NeverClosedEarly /\ OneCellPerVariable

-----------------------------------------------------------------------------
(* What the invariant's parts compute with.                                *)

(* A variable that is declared keeps its register.                         *)
HomesKept ==
  /\ DOMAIN home \subseteq DOMAIN home'
  /\ \A v \in DOMAIN home : home'[v] = home[v]

(* The numbers and the sets in the control state.                          *)
LEMMA Numbers ==
  ASSUME IInv
  PROVE  /\ Stale \in Nat
         /\ Len(home) \in Nat /\ DOMAIN home = 1 .. Len(home)
         /\ \A v \in DOMAIN home : home[v] \in Nat
         /\ Len(scopeStarts) \in Nat /\ DOMAIN scopeStarts = 1 .. Len(scopeStarts)
         /\ \A j \in DOMAIN scopeStarts : scopeStarts[j] \in Nat
         /\ cur.window \in Nat /\ cur.nextReg \in Nat /\ cur.scopeStart \in Nat
         /\ \A k \in 1 .. Len(blocks) : /\ blocks[k].start \in Nat
                                       /\ blocks[k].vars \subseteq DOMAIN home
<1>1. \A k \in 1 .. Len(blocks) : /\ blocks[k].start \in Nat
                                  /\ blocks[k].vars \subseteq DOMAIN home
  <2>1. DOMAIN blocks = 1 .. Len(blocks) /\ NumRegs \in Nat
    BY ControlTypes
  <2>2. \A k \in DOMAIN blocks : /\ blocks[k].start \in 0 .. NumRegs
                                 /\ blocks[k].vars \subseteq DOMAIN home
    BY ElementTypes DEF IInv
  <2> QED
    BY <2>1, <2>2
<1>2. Stale \in Nat
  BY ControlTypes DEF Stale, IInv, StackShape
<1>3. \A v \in DOMAIN home : home[v] \in Nat
  BY ControlTypes DEF Addr
<1>4. \A j \in DOMAIN scopeStarts : scopeStarts[j] \in Nat
  BY ControlTypes DEF Addr
<1> QED
  BY <1>1, <1>2, <1>3, <1>4, ControlTypes

(* The callers, each with the blocks of its own.                           *)
LEMMA CallerFacts ==
  ASSUME IInv, NEW i \in DOMAIN frames
  PROVE  /\ i \in 1 .. Len(frames)
         /\ frames[i].base \in 1 .. cur.base - 1
         /\ CallerTop(i) \in frames[i].base .. cur.base - 1
         /\ frames[i].scopeStart \in Nat /\ frames[i].nextReg \in Nat
<1>1. /\ i \in 1 .. Len(frames) /\ i \in Nat
      /\ frames[i].base \in Nat /\ cur.base \in Nat
      /\ frames[i].scopeStart \in Nat /\ frames[i].nextReg \in Nat
  <2>1. i \in 1 .. Len(frames) /\ frames[i] \in Context /\ NumRegs \in Nat /\ cur \in Context
    BY ControlTypes
  <2> QED
    BY <2>1 DEF Context
<1>2. \A j \in DOMAIN frames : frames[j].base \in j .. cur.base - 1
  BY DEF IInv, StackShape
<1>3. CASE i = Len(frames)
  BY <1>1, <1>2, <1>3 DEF CallerTop
<1>4. CASE i # Len(frames)
  <2>1. i + 1 \in DOMAIN frames /\ i < i + 1
    BY <1>1, <1>4, ControlTypes, SMTT(30)
  <2>2. frames[i].base < frames[i + 1].base
    BY <2>1 DEF IInv, StackShape
  <2> QED
    BY <1>1, <1>2, <1>4, <2>1, <2>2 DEF CallerTop
<1> QED
  BY <1>3, <1>4

(* A variable is live when some open block declares it.                    *)
LEMMA LiveFacts ==
  ASSUME IInv
  PROVE  \A v : v \in Live <=> \E k \in 1 .. Len(blocks) : v \in blocks[k].vars
BY ControlTypes DEF Live, DeclaredIn

(* Captured variables are declared ones, and captured cells exist.         *)
LEMMA CaptureFacts ==
  ASSUME IInv
  PROVE  \A kp \in Captures : /\ CapturedVar(kp) \in DOMAIN home
                              /\ CapturedCell(kp) \in DOMAIN cells
                              /\ CapturedVar(kp) \in Held
<1> SUFFICES ASSUME NEW kp \in Captures
             PROVE  /\ CapturedVar(kp) \in DOMAIN home
                    /\ CapturedCell(kp) \in DOMAIN cells
  BY DEF Held
<1>1. PICK k \in DOMAIN closures : kp \in {k} \X DOMAIN closures[k].vars
  BY DEF Captures
<1>2. kp[1] = k /\ kp[2] \in DOMAIN closures[k].vars
  BY <1>1
<1>3. /\ closures[k].cells \in Seq(DOMAIN cells) /\ closures[k].vars \in Seq(DOMAIN home)
      /\ Len(closures[k].cells) = Len(closures[k].vars)
  BY ElementTypes DEF IInv, ClosureShape
<1> QED
  BY <1>2, <1>3 DEF CapturedVar, CapturedCell

(* closeCells closes the cells at or above its limit, and no others.       *)
LEMMA CloseCellsEffect ==
  ASSUME IInv, NEW limit \in Nat, NEW file, CloseCells(limit, file)
  PROVE  /\ DOMAIN cells' = DOMAIN cells
         /\ \A c \in DOMAIN cells :
              cells'[c] = IF cells[c].loc >= limit THEN Close(c, file) ELSE cells[c]
<1> PICK m \in 0 .. Len(activeCells) :
      LET closing == {activeCells[i] : i \in m + 1 .. Len(activeCells)} IN
      /\ \A i \in m + 1 .. Len(activeCells) : ~Below(i, limit)
      /\ m > 0 => Below(m, limit)
      /\ cells' = [c \in DOMAIN cells |-> IF c \in closing THEN Close(c, file) ELSE cells[c]]
  BY DEF CloseCells
<1> DEFINE closing == {activeCells[i] : i \in m + 1 .. Len(activeCells)}
<1>1. /\ DOMAIN activeCells = 1 .. Len(activeCells) /\ Len(activeCells) \in Nat
      /\ \A i \in DOMAIN activeCells : activeCells[i] \in DOMAIN cells
      /\ \A c \in DOMAIN cells : cells[c].loc \in Addr \cup {Closed}
  BY ElementTypes DEF IInv, TypeOK
<1>2. \A i \in DOMAIN activeCells : LocationOf(i) \in Addr
  BY <1>1 DEF LocationOf, IInv, ActiveIffOpen
<1>3. ASSUME NEW c \in closing PROVE cells[c].loc >= limit
  <2>1. PICK i \in m + 1 .. Len(activeCells) : c = activeCells[i]
    BY <1>3
  <2>2. ~Below(i, limit) /\ LocationOf(i) \in Addr
    BY <1>1, <1>2
  <2> QED
    BY <2>1, <2>2 DEF Below, LocationOf, Addr
<1>4. ASSUME NEW c \in DOMAIN cells, c \notin closing, cells[c].loc >= limit
      PROVE  FALSE
  <2>1. cells[c].loc # Closed
    BY <1>4 DEF Closed
  <2>2. PICK i \in DOMAIN activeCells : activeCells[i] = c
    BY <2>1 DEF IInv, ActiveIffOpen
  <2>3. i \in 1 .. m
    BY <1>1, <1>4, <2>2
  <2>4. m \in DOMAIN activeCells /\ LocationOf(m) < limit
    BY <1>1, <2>3 DEF Below
  <2>5. i = m \/ LocationOf(i) < LocationOf(m)
    BY <2>3, <2>4 DEF IInv, SortedActive
  <2>6. LocationOf(i) < limit
    BY <1>2, <2>2, <2>4, <2>5 DEF Addr
  <2> QED
    BY <1>2, <1>4, <2>2, <2>6 DEF LocationOf, Addr
<1> QED
  BY <1>3, <1>4

-----------------------------------------------------------------------------
(* What keeps each part of the invariant.                                  *)

(* The blocks stay nested when the innermost of them changes, or becomes   *)
(* another one, as long as it stays above the variables below it.          *)
LEMMA NestKept ==
  ASSUME IInv, BlocksNest, HomesKept,
         NEW m \in 1 .. Len(blocks) + 1, Len(blocks') = m, DOMAIN blocks' = 1 .. m,
         \A k \in 1 .. m - 1 : blocks'[k] = blocks[k],
         \A k \in 1 .. m - 1 : /\ blocks[k].start <= blocks'[m].start
                               /\ \A v \in blocks[k].vars : home[v] < blocks'[m].start,
         \A v, w \in blocks'[m].vars : /\ blocks'[m].start <= home'[v]
                                       /\ v # w => home'[v] # home'[w]
  PROVE  BlocksNest'
<1>1. \A k \in 1 .. m - 1 : k \in 1 .. Len(blocks) /\ blocks[k].vars \subseteq DOMAIN home
  BY Numbers, ControlTypes
<1>2. \A k \in 1 .. m - 1 : \A v \in blocks[k].vars : home'[v] = home[v]
  BY <1>1 DEF HomesKept
<1>3. ASSUME NEW k \in 1 .. m, NEW l \in 1 .. m, k < l
      PROVE  /\ blocks'[k].start <= blocks'[l].start
             /\ \A v \in blocks'[k].vars : home'[v] < blocks'[l].start
  <2>1. k \in 1 .. m - 1 /\ blocks'[k] = blocks[k]
    BY <1>3
  <2>2. CASE l = m
    BY <1>2, <2>1, <2>2
  <2>3. CASE l # m
    <3>1. l \in 1 .. m - 1 /\ k \in DOMAIN blocks /\ l \in DOMAIN blocks
      BY <1>1, <2>1, <2>3, ControlTypes
    <3> QED
      BY <1>2, <1>3, <2>1, <3>1 DEF BlocksNest
  <2> QED
    BY <2>2, <2>3
<1>4. ASSUME NEW k \in 1 .. m, NEW v \in blocks'[k].vars, NEW w \in blocks'[k].vars
      PROVE  /\ blocks'[k].start <= home'[v]
             /\ v # w => home'[v] # home'[w]
  <2>1. CASE k = m
    BY <1>4, <2>1
  <2>2. CASE k # m
    <3>1. k \in 1 .. m - 1 /\ k \in DOMAIN blocks
      BY <1>1, <2>2, ControlTypes
    <3> QED
      BY <1>2, <1>4, <3>1 DEF BlocksNest
  <2> QED
    BY <2>1, <2>2
<1> QED
  BY <1>3, <1>4 DEF BlocksNest

(* The callers' part of the layout survives a step of the running function:*)
(* it changes blocks of its own only, and pushes limits of its own window. *)
LEMMA CallersKept ==
  ASSUME IInv, BlocksNest, Layout, HomesKept, frames' = frames, cur'.base = cur.base,
         \A k \in 1 .. cur.base - 1 : blocks'[k] = blocks[k],
         Stale' \in Nat, Stale' >= Stale,
         \A j \in DOMAIN scopeStarts' :
           \/ j \in DOMAIN scopeStarts /\ scopeStarts'[j] = scopeStarts[j]
           \/ scopeStarts'[j] >= cur.window,
         DOMAIN scopeStarts' \subseteq Nat, \A j \in DOMAIN scopeStarts' : scopeStarts'[j] \in Nat
  PROVE  \A i \in DOMAIN frames' : ContextFits(i, frames[i], CallerTop(i))'
<1> SUFFICES ASSUME NEW i \in DOMAIN frames
             PROVE  ContextFits(i, frames[i], CallerTop(i))'
  OBVIOUS
<1> DEFINE c == frames[i]
           top == CallerTop(i)
<1>1. /\ ContextFits(i, c, top) /\ CallerTop(i)' = top
      /\ blocks[cur.base].start = cur.window
  BY DEF Layout, CallerTop, ContextFits
<1>2. /\ i \in 1 .. Len(frames) /\ c.base \in 1 .. cur.base - 1 /\ top \in c.base .. cur.base - 1
  BY CallerFacts
<1>3. cur.base \in 1 .. Len(blocks) /\ Len(blocks) \in Nat /\ DOMAIN blocks = 1 .. Len(blocks)
  BY ControlTypes
<1> HIDE DEF c, top
<1>4. \A k \in c.base .. top : k \in 1 .. cur.base - 1 /\ k \in DOMAIN blocks /\ blocks'[k] = blocks[k]
  BY <1>2, <1>3
<1>5. blocks'[c.base] = blocks[c.base] /\ blocks'[top] = blocks[top] /\ top \in 1 .. Len(blocks)
  BY <1>2, <1>3, <1>4
<1>6. \A v \in blocks[top].vars : home'[v] = home[v]
  BY <1>5, Numbers DEF HomesKept
<1>7. ASSUME NEW k \in c.base + 1 .. top, NEW j \in DOMAIN scopeStarts',
             j >= Stale' + k - i
      PROVE  blocks[k].start <= scopeStarts'[j]
  <2>1. k \in 1 .. cur.base - 1 /\ k \in DOMAIN blocks /\ k < cur.base /\ k \in Nat /\ i \in Nat
        /\ k \in c.base .. top
    <3>1. k \in c.base .. top /\ i \in Nat
      BY <1>2
    <3> QED
      BY <1>3, <1>4, <3>1
  <2>2. CASE j \in DOMAIN scopeStarts /\ scopeStarts'[j] = scopeStarts[j]
    <3>1. j >= Stale + k - i
      BY <1>7, <2>1, <2>2, Numbers
    <3> QED
      BY <1>1, <2>2, <3>1 DEF ContextFits
  <2>3. CASE scopeStarts'[j] >= cur.window
    <3>1. blocks[k].start <= blocks[cur.base].start
      BY <1>3, <2>1 DEF BlocksNest
    <3>2. blocks[k].start \in Nat /\ blocks[cur.base].start \in Nat
      BY <1>3, <2>1, Numbers
    <3> QED
      BY <1>1, <2>3, <3>1, <3>2
  <2> QED
    BY <2>2, <2>3
<1>8. \A k \in c.base + 1 .. top : blocks'[k] = blocks[k]
  BY <1>2, <1>4
<1>9. frames'[i] = c /\ CallerTop(i)' = top
  BY <1>1 DEF c
<1>10. ASSUME NEW k \in c.base + 1 .. top, NEW j \in DOMAIN scopeStarts', j >= Stale' + k - i
       PROVE  blocks'[k].start <= scopeStarts'[j]
  BY <1>7, <1>8, <1>10
<1> QED
  BY <1>1, <1>5, <1>6, <1>9, <1>10 DEF ContextFits

(* The captures stand: no closure gets a cell.                             *)
CapturesSame ==
  /\ Captures' = Captures
  /\ \A kp \in Captures : /\ CapturedVar(kp)' = CapturedVar(kp)
                          /\ CapturedCell(kp)' = CapturedCell(kp)

(* The captures stay right when the captured variables that are still live *)
(* were live before and the cells at their registers stay where they are.  *)
LEMMA CapturesKept ==
  ASSUME VInv, CapturesSame, HomesKept,
         \A v \in Held : v \in Live' =>
           /\ v \in Live
           /\ \A c \in DOMAIN cells : cells[c].loc = home[v] => cells'[c].loc = home[v],
         \A v \in Held : v \in blocks'[1].vars => v \in blocks[1].vars
  PROVE  GlobalsUncaptured' /\ NeverClosedEarly' /\ OneCellPerVariable'
<1>1. Held' = Held
  BY DEF CapturesSame, Held
<1>2. GlobalsUncaptured'
  BY <1>1 DEF VInv, GlobalsUncaptured
<1>3. NeverClosedEarly'
  <2> SUFFICES ASSUME NEW kp \in Captures, CapturedVar(kp) \in Live'
               PROVE  cells'[CapturedCell(kp)].loc = home'[CapturedVar(kp)]
    BY DEF CapturesSame, NeverClosedEarly
  <2> DEFINE v == CapturedVar(kp)
             c == CapturedCell(kp)
  <2>1. v \in DOMAIN home /\ c \in DOMAIN cells /\ v \in Held
    BY CaptureFacts DEF VInv
  <2>2. v \in Live /\ cells[c].loc = home[v]
    BY <2>1 DEF VInv, NeverClosedEarly
  <2> HIDE DEF v, c
  <2>3. v \in Live'
    BY DEF v
  <2> QED
    BY <2>1, <2>2, <2>3 DEF v, c, HomesKept
<1>4. OneCellPerVariable'
  BY DEF VInv, OneCellPerVariable, CapturesSame
<1> QED
  BY <1>2, <1>3, <1>4

(* A step that touches neither the control state nor the cells' places.    *)
LEMMA QuietStep ==
  ASSUME VInv, IInv', UNCHANGED <<control, home>>, CapturesSame,
         \A c \in DOMAIN cells : cells'[c].loc = cells[c].loc
  PROVE  VInv'
<1>1. UNCHANGED <<cur, frames, scopeStarts, blocks, home>>
  BY DEF control
<1>2. BlocksNest' /\ Layout'
  BY <1>1 DEF VInv, BlocksNest, Layout, ContextFits, CallerTop, Stale
<1>3. Live' = Live /\ HomesKept
  BY <1>1 DEF Live, DeclaredIn, HomesKept
<1>4. GlobalsUncaptured' /\ NeverClosedEarly' /\ OneCellPerVariable'
  BY <1>1, <1>3, CapturesKept
<1> QED
  BY <1>2, <1>4 DEF VInv

(* A step that creates no closure and extends none.                        *)
LEMMA ClosuresSame ==
  ASSUME closures' = closures
  PROVE  CapturesSame
BY DEF CapturesSame, Captures, CapturedVar, CapturedCell

(* OP_CLOSURE captures nothing by itself.                                  *)
LEMMA MakeClosureCaptures ==
  ASSUME IInv, NEW n, MakeClosure(n)
  PROVE  CapturesSame
<1> DEFINE new == [cells |-> <<>>, vars |-> <<>>]
<1>1. /\ closures' = Append(closures, new) /\ closures \in Seq(Closure)
      /\ Len(closures) \in Nat /\ DOMAIN closures = 1 .. Len(closures)
  BY DEF MakeClosure, IInv, TypeOK
<1>2. /\ DOMAIN closures' = DOMAIN closures \cup {Len(closures) + 1}
      /\ \A k \in DOMAIN closures : closures'[k] = closures[k]
      /\ closures'[Len(closures) + 1].vars = <<>>
  BY <1>1, AppendProperties
<1>3. Captures' = Captures
  <2>1. DOMAIN closures'[Len(closures) + 1].vars = {}
    BY <1>2
  <2>2. \A kp : kp \in Captures' <=> \E k \in DOMAIN closures' :
                                       kp \in {k} \X DOMAIN closures'[k].vars
    BY DEF Captures
  <2>3. \A kp : kp \in Captures <=> \E k \in DOMAIN closures :
                                      kp \in {k} \X DOMAIN closures[k].vars
    BY DEF Captures
  <2>4. \A kp : kp \in Captures' <=> kp \in Captures
    BY <1>2, <2>1, <2>2, <2>3
  <2> QED
    BY <2>4
<1>4. \A kp \in Captures : kp[1] \in DOMAIN closures
  BY DEF Captures
<1> QED
  BY <1>2, <1>3, <1>4 DEF CapturesSame, CapturedVar, CapturedCell

(* addCell makes one new capture.                                          *)
LEMMA AddCellCaptures ==
  ASSUME IInv, pending > 0, NEW c, NEW v, AddCell(c, v)
  PROVE  \E new : /\ Captures' = Captures \cup {new}
                  /\ CapturedVar(new)' = v /\ CapturedCell(new)' = c
                  /\ \A kp \in Captures : /\ CapturedVar(kp)' = CapturedVar(kp)
                                          /\ CapturedCell(kp)' = CapturedCell(kp)
<1> DEFINE n == Len(closures)
           old == closures[n]
           m == Len(old.vars)
           ext == [cells |-> Append(old.cells, c), vars |-> Append(old.vars, v)]
<1>1. /\ closures \in Seq(Closure) /\ n \in Nat /\ DOMAIN closures = 1 .. n /\ n \in DOMAIN closures
  BY DEF IInv, TypeOK, ClosureShape
<1>2. /\ old.cells \in Seq(DOMAIN cells) /\ old.vars \in Seq(DOMAIN home)
      /\ Len(old.cells) = m /\ m \in Nat
  BY <1>1, ElementTypes DEF IInv, ClosureShape
<1>3. /\ DOMAIN closures' = DOMAIN closures
      /\ \A k \in DOMAIN closures : closures'[k] = IF k = n THEN ext ELSE closures[k]
  BY <1>1 DEF AddCell
<1>4. /\ DOMAIN ext.vars = DOMAIN old.vars \cup {m + 1} /\ DOMAIN old.vars = 1 .. m
      /\ \A j \in 1 .. m : ext.vars[j] = old.vars[j] /\ ext.cells[j] = old.cells[j]
      /\ ext.vars[m + 1] = v /\ ext.cells[m + 1] = c
  <2>1. /\ Append(old.vars, v) \in Seq(DOMAIN home \cup {v})
        /\ Len(Append(old.vars, v)) = m + 1
        /\ \A j \in 1 .. m : Append(old.vars, v)[j] = old.vars[j]
        /\ Append(old.vars, v)[m + 1] = v
    <3>1. old.vars \in Seq(DOMAIN home \cup {v})
      BY <1>2, SeqMonotonic
    <3> QED
      BY <3>1, AppendProperties
  <2>2. /\ \A j \in 1 .. m : Append(old.cells, c)[j] = old.cells[j]
        /\ Append(old.cells, c)[m + 1] = c
    <3>1. old.cells \in Seq(DOMAIN cells \cup {c})
      BY <1>2, SeqMonotonic
    <3> QED
      BY <1>2, <3>1, AppendProperties
  <2>3. DOMAIN old.vars = 1 .. m
    BY <1>2
  <2> HIDE DEF old, m
  <2> QED
    BY <1>2, <2>1, <2>2, <2>3
<1> HIDE DEF ext
<1> PICK new : new = <<n, m + 1>>
  OBVIOUS
<1>5. Captures' = Captures \cup {new}
  <2>1. \A kp : kp \in Captures' <=> \E k \in DOMAIN closures' :
                                       kp \in {k} \X DOMAIN closures'[k].vars
    BY DEF Captures
  <2>2. \A kp : kp \in Captures <=> \E k \in DOMAIN closures :
                                      kp \in {k} \X DOMAIN closures[k].vars
    BY DEF Captures
  <2>3. \A k \in DOMAIN closures : DOMAIN closures'[k].vars =
          DOMAIN closures[k].vars \cup (IF k = n THEN {m + 1} ELSE {})
    BY <1>3, <1>4
  <2> HIDE DEF m, n
  <2>4. ASSUME NEW kp \in Captures' PROVE kp \in Captures \/ kp = <<n, m + 1>>
    <3>1. PICK k \in DOMAIN closures : kp \in {k} \X DOMAIN closures'[k].vars
      BY <1>3, <2>1
    <3>2. kp[2] \in DOMAIN closures[k].vars \/ (k = n /\ kp[2] = m + 1)
      BY <2>3, <3>1
    <3> QED
      BY <2>2, <3>1, <3>2
  <2>5. ASSUME NEW kp \in Captures PROVE kp \in Captures'
    BY <1>3, <2>1, <2>2, <2>3
  <2>6. <<n, m + 1>> \in Captures'
    BY <1>1, <1>3, <2>1, <2>3
  <2> QED
    BY <2>4, <2>5, <2>6
<1>6. CapturedVar(new)' = v /\ CapturedCell(new)' = c
  BY <1>1, <1>3, <1>4 DEF CapturedVar, CapturedCell
<1>7. ASSUME NEW kp \in Captures
      PROVE  CapturedVar(kp)' = CapturedVar(kp) /\ CapturedCell(kp)' = CapturedCell(kp)
  <2>1. kp[1] \in DOMAIN closures /\ kp[2] \in DOMAIN closures[kp[1]].vars
    BY DEF Captures
  <2>2. CASE kp[1] = n
    <3>1. kp[2] \in 1 .. m /\ closures'[kp[1]] = ext
      BY <1>3, <1>4, <2>1, <2>2
    <3> QED
      BY <1>4, <2>2, <3>1 DEF CapturedVar, CapturedCell
  <2>3. CASE kp[1] # n
    BY <1>3, <2>1, <2>3 DEF CapturedVar, CapturedCell
  <2> QED
    BY <2>2, <2>3
<1> QED
  BY <1>5, <1>6, <1>7

(* The captures stay right when a live variable is captured in the cell    *)
(* that points at its register.                                            *)
LEMMA CaptureKept ==
  ASSUME VInv, IInv', UNCHANGED <<control, home>>, pending > 0,
         NEW c, NEW v, AddCell(c, v), v \notin blocks[1].vars,
         \A d \in DOMAIN cells : cells'[d].loc = cells[d].loc,
         v \in Live => cells'[c].loc = home[v],
         \A kp \in Captures : CapturedVar(kp) = v => CapturedCell(kp) = c
  PROVE  VInv'
<1>1. UNCHANGED <<cur, frames, scopeStarts, blocks, home>>
  BY DEF control
<1>2. BlocksNest' /\ Layout'
  BY <1>1 DEF VInv, BlocksNest, Layout, ContextFits, CallerTop, Stale
<1>3. Live' = Live
  BY <1>1 DEF Live, DeclaredIn
<1>4. PICK new : /\ Captures' = Captures \cup {new}
                 /\ CapturedVar(new)' = v /\ CapturedCell(new)' = c
                 /\ \A kp \in Captures : /\ CapturedVar(kp)' = CapturedVar(kp)
                                         /\ CapturedCell(kp)' = CapturedCell(kp)
  BY AddCellCaptures DEF VInv
<1>5. Held' = Held \cup {v}
  BY <1>4 DEF Held
<1>6. GlobalsUncaptured'
  BY <1>1, <1>5 DEF GlobalsUncaptured, VInv
<1>7. NeverClosedEarly'
  <2> SUFFICES ASSUME NEW kp \in Captures', CapturedVar(kp)' \in Live
               PROVE  cells'[CapturedCell(kp)'].loc = home[CapturedVar(kp)']
    BY <1>1, <1>3 DEF NeverClosedEarly
  <2>1. CASE kp \in Captures
    <3>1. CapturedCell(kp) \in DOMAIN cells
      BY <2>1, CaptureFacts DEF VInv
    <3> QED
      BY <1>4, <2>1, <3>1 DEF VInv, NeverClosedEarly
  <2>2. CASE kp \notin Captures
    BY <1>4, <2>2
  <2> QED
    BY <2>1, <2>2
<1>8. OneCellPerVariable'
  <2> SUFFICES ASSUME NEW kp \in Captures', NEW lq \in Captures',
                      CapturedVar(kp)' = CapturedVar(lq)'
               PROVE  CapturedCell(kp)' = CapturedCell(lq)'
    BY DEF OneCellPerVariable
  <2> QED
    BY <1>4 DEF VInv, OneCellPerVariable
<1> QED
  BY <1>2, <1>6, <1>7, <1>8 DEF VInv

(* captureValue returns the cell that points at the register: the open one *)
(* if there is one, and a new one otherwise.                               *)
LEMMA CaptureFinds ==
  ASSUME IInv, NEW addr \in Addr, NEW v, CaptureValue(addr, v)
  PROVE  \E c : /\ AddCell(c, v) /\ cells'[c].loc = addr
                /\ \A d \in DOMAIN cells : /\ cells'[d] = cells[d]
                                           /\ cells[d].loc = addr => d = c
<1>1. /\ cells \in Seq(Cell) /\ Len(cells) \in Nat /\ DOMAIN cells = 1 .. Len(cells)
      /\ \A i \in DOMAIN activeCells : activeCells[i] \in DOMAIN cells
      /\ DOMAIN activeCells \subseteq Nat
  BY DEF IInv, TypeOK
<1>2. ASSUME NEW d \in DOMAIN cells, cells[d].loc = addr
      PROVE  \E i \in DOMAIN activeCells : activeCells[i] = d /\ Found(i, addr)
  <2>1. PICK i \in DOMAIN activeCells : activeCells[i] = d
    BY <1>2 DEF IInv, ActiveIffOpen, Addr, Closed
  <2>2. LocationOf(i) = addr
    BY <1>2, <2>1 DEF LocationOf
  <2>3. \A j \in DOMAIN activeCells : j > i => LocationOf(j) > addr
    <3> SUFFICES ASSUME NEW j \in DOMAIN activeCells, j > i
                 PROVE  LocationOf(j) > addr
      OBVIOUS
    <3>1. i < j
      BY <1>1
    <3>2. LocationOf(i) < LocationOf(j)
      BY <3>1 DEF IInv, SortedActive
    <3> QED
      BY <2>2, <3>2
  <2> QED
    BY <2>1, <2>2, <2>3 DEF Found
<1>3. CASE \E i \in DOMAIN activeCells :
             Found(i, addr) /\ AddCell(activeCells[i], v) /\ UNCHANGED memory
  <2>1. PICK i \in DOMAIN activeCells :
               Found(i, addr) /\ AddCell(activeCells[i], v) /\ UNCHANGED memory
    BY <1>3
  <2>2. cells' = cells /\ LocationOf(i) = addr
    BY <2>1 DEF memory, Found
  <2>3. ASSUME NEW d \in DOMAIN cells, cells[d].loc = addr
        PROVE  d = activeCells[i]
    <3>1. PICK j \in DOMAIN activeCells : activeCells[j] = d /\ Found(j, addr)
      BY <1>2, <2>3
    <3>2. ~(j > i) /\ ~(i > j)
      BY <2>1, <3>1 DEF Found, Addr
    <3>3. i = j
      BY <3>2, <1>1
    <3> QED
      BY <3>1, <3>3
  <2> QED
    BY <2>1, <2>2, <2>3 DEF LocationOf
<1>4. CASE /\ ~ \E i \in DOMAIN activeCells : Found(i, addr)
           /\ NewCell(addr, v)
  <2> DEFINE cell == [loc |-> addr, obj |-> Nil]
  <2>1. cells' = Append(cells, cell) /\ AddCell(Len(cells) + 1, v)
    BY <1>4 DEF NewCell
  <2>2. cell \in Cell
    BY DEF Cell, Values
  <2> HIDE DEF cell
  <2>3. /\ \A d \in DOMAIN cells : cells'[d] = cells[d]
        /\ cells'[Len(cells) + 1] = cell
    BY <1>1, <2>1, <2>2, AppendProperties
  <2>4. cells'[Len(cells) + 1].loc = addr
    BY <2>3 DEF cell
  <2>5. \A d \in DOMAIN cells : cells[d].loc # addr
    BY <1>2, <1>4
  <2> QED
    BY <2>1, <2>3, <2>4, <2>5
<1> QED
  BY <1>3, <1>4 DEF CaptureValue

-----------------------------------------------------------------------------
(* The control steps.                                                      *)

(* The running function's registers: every block starts at or below        *)
(* scopeStart, and every live variable lies below nextReg.                 *)
LEMMA RunningFacts ==
  ASSUME IInv, BlocksNest, Layout
  PROVE  /\ blocks[cur.base].start = cur.window
         /\ cur.scopeStart <= cur.nextReg
         /\ \A k \in 1 .. Len(blocks) :
              /\ blocks[k].start <= blocks[Len(blocks)].start
              /\ blocks[k].start <= cur.scopeStart
              /\ \A v \in blocks[k].vars : home[v] < cur.nextReg
<1> DEFINE n == Len(blocks)
<1>1. n \in Nat \ {0} /\ DOMAIN blocks = 1 .. n
  BY ControlTypes
<1>2. /\ blocks[cur.base].start = cur.window
      /\ blocks[n].start <= cur.scopeStart /\ cur.scopeStart <= cur.nextReg
      /\ \A v \in blocks[n].vars : home[v] < cur.nextReg
  BY DEF Layout, ContextFits
<1>3. /\ cur.scopeStart \in Nat /\ cur.nextReg \in Nat
      /\ \A k \in 1 .. n : blocks[k].start \in Nat /\ blocks[k].vars \subseteq DOMAIN home
      /\ \A v \in DOMAIN home : home[v] \in Nat
  BY Numbers
<1>4. ASSUME NEW k \in 1 .. n
      PROVE  /\ blocks[k].start <= blocks[n].start
             /\ blocks[k].start <= cur.scopeStart
             /\ \A v \in blocks[k].vars : home[v] < cur.nextReg
  <2>1. CASE k = n
    BY <1>2, <1>3, <2>1, <1>1
  <2>2. CASE k # n
    <3>1. k \in DOMAIN blocks /\ n \in DOMAIN blocks /\ k < n
      <4> HIDE DEF n
      <4> QED
        BY <1>1, <2>2
    <3>2. /\ blocks[k].start <= blocks[n].start
          /\ \A v \in blocks[k].vars : home[v] < blocks[n].start
      BY <3>1 DEF BlocksNest
    <3>3. blocks[k].start \in Nat /\ blocks[n].start \in Nat
          /\ \A v \in blocks[k].vars : home[v] \in Nat
      BY <1>1, <1>3, <3>1
    <3> HIDE DEF n
    <3> QED
      BY <1>2, <1>3, <3>2, <3>3
  <2> QED
    BY <2>1, <2>2
<1> QED
  BY <1>2, <1>4

(* A step of the running function that opens, changes or leaves blocks of  *)
(* its own keeps them nested and the layout of every context.              *)
LEMMA OwnStep ==
  ASSUME VInv, HomesKept, frames' = frames,
         cur'.base = cur.base, cur'.window = cur.window,
         NEW m \in cur.base .. Len(blocks) + 1, Len(blocks') = m, DOMAIN blocks' = 1 .. m,
         \A k \in 1 .. m - 1 : blocks'[k] = blocks[k],
         blocks'[m].start = IF m <= Len(blocks) THEN blocks[m].start ELSE cur.nextReg,
         blocks'[m].start <= cur'.scopeStart, cur'.scopeStart <= cur'.nextReg,
         \A v, w \in blocks'[m].vars : /\ blocks'[m].start <= home'[v]
                                       /\ home'[v] < cur'.nextReg
                                       /\ v # w => home'[v] # home'[w],
         Stale' \in Nat, Stale' >= Stale,
         m > Len(blocks) => Stale' = Stale,
         scopeStarts' \in Seq(Addr),
         \A j \in DOMAIN scopeStarts' :
           \/ j \in DOMAIN scopeStarts /\ scopeStarts'[j] = scopeStarts[j]
           \/ j = Len(scopeStarts) + 1 /\ scopeStarts'[j] = cur.nextReg
  PROVE  BlocksNest' /\ Layout'
<1> DEFINE n == Len(blocks)
           start(k) == blocks[k].start
<1>1. /\ IInv /\ BlocksNest /\ Layout
      /\ n \in Nat \ {0} /\ DOMAIN blocks = 1 .. n
      /\ cur.base \in 1 .. n /\ m \in 1 .. n + 1
      /\ Len(frames) \in Nat
  BY ControlTypes DEF VInv
<1>2. /\ blocks[cur.base].start = cur.window
      /\ cur.scopeStart <= cur.nextReg
      /\ \A k \in 1 .. n : /\ blocks[k].start <= blocks[n].start
                           /\ blocks[k].start <= cur.scopeStart
                           /\ \A v \in blocks[k].vars : home[v] < cur.nextReg
  BY <1>1, RunningFacts
<1>3. /\ Stale \in Nat
      /\ Len(scopeStarts) \in Nat /\ DOMAIN scopeStarts = 1 .. Len(scopeStarts)
      /\ \A j \in DOMAIN scopeStarts : scopeStarts[j] \in Nat
      /\ cur.window \in Nat /\ cur.nextReg \in Nat /\ cur.scopeStart \in Nat
      /\ \A k \in 1 .. n : blocks[k].start \in Nat
  BY <1>1, Numbers
<1>4. /\ DOMAIN scopeStarts' \subseteq Nat
      /\ \A j \in DOMAIN scopeStarts' : scopeStarts'[j] \in Nat
  <2>1. \A j \in DOMAIN scopeStarts' : scopeStarts'[j] \in Addr /\ j \in Nat
    OBVIOUS
  <2> QED
    BY <2>1 DEF Addr
<1>5. \A k \in 1 .. m - 1 : /\ blocks[k].start <= blocks'[m].start
                            /\ \A v \in blocks[k].vars : home[v] < blocks'[m].start
  <2> SUFFICES ASSUME NEW k \in 1 .. m - 1
               PROVE  /\ blocks[k].start <= blocks'[m].start
                      /\ \A v \in blocks[k].vars : home[v] < blocks'[m].start
    OBVIOUS
  <2>1. CASE m <= n
    <3>1. k \in DOMAIN blocks /\ m \in DOMAIN blocks /\ k < m
      BY <1>1, <2>1
    <3> QED
      BY <2>1, <3>1, <1>1 DEF BlocksNest
  <2>2. CASE ~(m <= n)
    <3>1. k \in 1 .. n /\ blocks'[m].start = cur.nextReg
      BY <1>1, <2>2
    <3>2. blocks[k].start <= cur.nextReg
      BY <1>2, <1>3, <3>1
    <3> QED
      BY <1>2, <3>1, <3>2
  <2> QED
    BY <2>1, <2>2
<1>6. BlocksNest'
  <2>1. /\ m \in 1 .. Len(blocks) + 1 /\ Len(blocks') = m /\ DOMAIN blocks' = 1 .. m
        /\ \A k \in 1 .. m - 1 : blocks'[k] = blocks[k]
        /\ \A v, w \in blocks'[m].vars : /\ blocks'[m].start <= home'[v]
                                         /\ v # w => home'[v] # home'[w]
    BY <1>1
  <2>2. IInv /\ BlocksNest /\ HomesKept
    BY <1>1
  <2> QED
    BY ONLY <1>5, <2>1, <2>2, NestKept
<1>7. \A i \in DOMAIN frames' : ContextFits(i, frames[i], CallerTop(i))'
  <2>1. \A k \in 1 .. cur.base - 1 : blocks'[k] = blocks[k]
    BY <1>1
  <2>2. cur.window <= cur.nextReg
    BY <1>1, <1>2, <1>3, SMTT(30)
  <2>3. \A j \in DOMAIN scopeStarts' :
           \/ j \in DOMAIN scopeStarts /\ scopeStarts'[j] = scopeStarts[j]
           \/ scopeStarts'[j] >= cur.window
    BY <1>3, <2>2
  <2> QED
    BY <1>1, <1>4, <2>1, <2>3, CallersKept
<1>8. blocks'[cur.base].start = cur.window
  <2>1. CASE cur.base = m
    BY <1>1, <1>2, <2>1
  <2>2. CASE cur.base # m
    <3>1. cur.base \in 1 .. m - 1
      BY <1>1, <2>2
    <3> QED
      BY <1>2, <3>1
  <2> QED
    BY <2>1, <2>2
<1>9. ASSUME NEW k \in cur.base + 1 .. m, NEW j \in DOMAIN scopeStarts',
             j >= Stale' + k - (Len(frames) + 1)
      PROVE  blocks'[k].start <= scopeStarts'[j]
  <2>0. k \in Nat /\ j \in Nat /\ Len(frames) \in Nat
    BY <1>1, <1>4
  <2>1. CASE k <= n
    <3>1. k \in cur.base + 1 .. n /\ k \in 1 .. n
      BY <1>1, <2>1
    <3>2. blocks'[k].start = blocks[k].start
      <4>1. CASE k = m
        BY <2>1, <4>1
      <4>2. CASE k # m
        <5>1. k \in 1 .. m - 1
          BY <1>1, <4>2
        <5> QED
          BY <5>1
      <4> QED
        BY <4>1, <4>2
    <3>3. j >= Stale + k - (Len(frames) + 1)
      BY <1>3, <1>9, <2>0
    <3>4. CASE j \in DOMAIN scopeStarts /\ scopeStarts'[j] = scopeStarts[j]
      <4>1. blocks[k].start <= scopeStarts[j]
        BY <3>1, <3>3, <3>4, <1>1 DEF Layout, ContextFits
      <4> QED
        BY <3>2, <3>4, <4>1
    <3>5. CASE scopeStarts'[j] = cur.nextReg
      BY <1>2, <1>3, <3>1, <3>2, <3>5, SMTT(30)
    <3> QED
      BY <3>4, <3>5
  <2>2. CASE ~(k <= n)
    <3>1. k = m /\ m = n + 1 /\ blocks'[m].start = cur.nextReg /\ Stale' = Stale
      BY <1>1, <2>0, <2>2
    <3>2. j >= Len(scopeStarts) + 1
      BY <1>1, <1>3, <1>9, <2>0, <3>1 DEF Stale
    <3>3. j \notin DOMAIN scopeStarts
      BY <1>3, <3>2
    <3> QED
      BY <1>3, <3>1, <3>3
  <2> QED
    BY <2>1, <2>2
<1>10. ContextFits(Len(frames) + 1, cur, Len(blocks))'
  <2>1. /\ Len(frames') = Len(frames) /\ Len(blocks') = m /\ cur'.base = cur.base
        /\ \A v \in blocks'[m].vars : home'[v] < cur'.nextReg
    OBVIOUS
  <2> QED
    BY <1>8, <1>9, <2>1 DEF ContextFits
<1> QED
  BY <1>6, <1>7, <1>10 DEF Layout

(* A variable that is live after such a step, and not new, was so before,  *)
(* in a block at or below the innermost one that remains.                  *)
LEMMA LiveBelow ==
  ASSUME IInv, NEW m \in Nat, DOMAIN blocks' = 1 .. m,
         \A k \in 1 .. m - 1 : k \in 1 .. Len(blocks) /\ blocks'[k] = blocks[k],
         NEW v \in Live', v \in blocks'[m].vars => m \in 1 .. Len(blocks) /\ v \in blocks[m].vars
  PROVE  /\ v \in Live
         /\ \E k \in 1 .. m : /\ k \in 1 .. Len(blocks) /\ v \in blocks[k].vars
                              /\ k = m => v \in blocks'[m].vars
<1>1. PICK k \in 1 .. m : v \in blocks'[k].vars
  BY DEF Live, DeclaredIn
<1>2. k \in 1 .. Len(blocks) /\ v \in blocks[k].vars
  BY <1>1
<1> QED
  BY <1>1, <1>2, LiveFacts

(* OP_ENTER_SCOPE.                                                         *)
LEMMA EnterScopeVars ==
  ASSUME VInv, IInv', EnterScope
  PROVE  VInv'
<1> DEFINE r == cur.nextReg
           n == Len(blocks)
           new == [start |-> r, loop |-> FALSE, vars |-> {}]
<1>1. /\ IInv /\ blocks' = Append(blocks, new) /\ scopeStarts' = Append(scopeStarts, r)
      /\ cur' = [cur EXCEPT !.scopeStart = r] /\ home' = home /\ frames' = frames
      /\ UNCHANGED <<closures, memory>> /\ r \in Addr
  BY ControlTypes DEF EnterScope, PushScope, VInv, Addr
<1>2. cur'.base = cur.base /\ cur'.window = cur.window /\ cur'.scopeStart = r /\ cur'.nextReg = r
  BY <1>1, ControlTypes DEF Context
<1>3. /\ Len(blocks') = n + 1 /\ DOMAIN blocks' = 1 .. n + 1
      /\ \A k \in 1 .. n : blocks'[k] = blocks[k]
      /\ blocks'[n + 1] = new
  BY <1>1, ControlTypes, AppendProperties
<1>4. /\ scopeStarts' \in Seq(Addr) /\ Len(scopeStarts') = Len(scopeStarts) + 1
      /\ \A j \in DOMAIN scopeStarts' :
           \/ j \in DOMAIN scopeStarts /\ scopeStarts'[j] = scopeStarts[j]
           \/ j = Len(scopeStarts) + 1 /\ scopeStarts'[j] = r
  BY <1>1, ControlTypes, AppendProperties
<1>5. Stale' = Stale /\ Stale \in Nat
  BY <1>1, <1>3, <1>4, ControlTypes, Numbers DEF Stale
<1>6. HomesKept
  BY <1>1 DEF HomesKept
<1>7. BlocksNest' /\ Layout'
  <2> DEFINE m == n + 1
  <2>1. m \in cur.base .. n + 1 /\ ~(m <= n) /\ m > n /\ r \in Nat /\ \A k \in 1 .. m - 1 : k \in 1 .. n
    BY <1>1, ControlTypes, Numbers
  <2>2. blocks'[m].start = r /\ blocks'[m].vars = {}
    BY <1>3
  <2>3. Len(blocks') = m /\ DOMAIN blocks' = 1 .. m /\ \A k \in 1 .. m - 1 : blocks'[k] = blocks[k]
    BY <1>3, <2>1
  <2> HIDE DEF m, r
  <2>4. r <= r /\ Stale >= Stale
    BY <1>5, <2>1
  <2> QED
    BY <1>1, <1>2, <1>4, <1>5, <1>6, <2>1, <2>2, <2>3, <2>4, OwnStep DEF r
<1>8. \A v \in Held : v \in Live' => v \in Live
  <2>1. \A k \in 1 .. (n + 1) - 1 : k \in 1 .. Len(blocks) /\ blocks'[k] = blocks[k]
    BY <1>1, <1>3, ControlTypes
  <2>2. blocks'[n + 1].vars = {} /\ n + 1 \in Nat
    BY <1>1, <1>3, ControlTypes
  <2> QED
    BY <1>1, <1>3, <2>1, <2>2, LiveBelow
<1>9. blocks'[1] = blocks[1] /\ CapturesSame
  BY <1>1, <1>3, ControlTypes, ClosuresSame
<1>10. GlobalsUncaptured' /\ NeverClosedEarly' /\ OneCellPerVariable'
  BY <1>1, <1>6, <1>8, <1>9, CapturesKept DEF memory
<1> QED
  BY <1>7, <1>10 DEF VInv

(* A declared variable takes a number no variable has had.                 *)
LEMMA BindKeeps ==
  ASSUME IInv, NEW r \in Addr, Bind(r)
  PROVE  /\ HomesKept /\ home'[Len(home) + 1] = r
         /\ Len(home) + 1 \notin DOMAIN home
         /\ home' \in Seq(Addr) /\ Len(home') = Len(home) + 1
<1>1. /\ home \in Seq(Addr) /\ Len(home) \in Nat /\ DOMAIN home = 1 .. Len(home)
      /\ home' = Append(home, r)
  BY Numbers, ControlTypes DEF Bind
<1>2. /\ home' \in Seq(Addr) /\ Len(home') = Len(home) + 1
      /\ \A i \in 1 .. Len(home) : home'[i] = home[i]
      /\ home'[Len(home) + 1] = r
  BY <1>1, AppendProperties
<1> QED
  BY <1>1, <1>2 DEF HomesKept

(* A declaration takes the register that is next, above every variable.    *)
LEMMA DeclareVars ==
  ASSUME VInv, IInv', NEW x \in Vals, Declare(x)
  PROVE  VInv'
<1> DEFINE r == cur.nextReg
           n == Len(blocks)
           v == Len(home) + 1
           new == [blocks[n] EXCEPT !.vars = @ \cup {v}]
<1>1. /\ IInv /\ r \in Addr /\ Bind(r)
      /\ cur' = [cur EXCEPT !.nextReg = r + 1]
      /\ blocks' = [blocks EXCEPT ![n] = new]
      /\ frames' = frames /\ scopeStarts' = scopeStarts
      /\ UNCHANGED <<closures, memory>>
  BY ControlTypes DEF Declare, Addr, VInv
<1>2. /\ HomesKept /\ home'[v] = r /\ v \notin DOMAIN home
  BY <1>1, BindKeeps
<1>3. /\ cur'.base = cur.base /\ cur'.window = cur.window
      /\ cur'.scopeStart = cur.scopeStart /\ cur'.nextReg = r + 1
  BY <1>1, ControlTypes DEF Context
<1>4. /\ n \in 1 .. Len(blocks) /\ n \in cur.base .. n /\ DOMAIN blocks' = 1 .. n /\ Len(blocks') = n
      /\ \A k \in 1 .. n - 1 : k \in 1 .. Len(blocks) /\ blocks'[k] = blocks[k]
      /\ blocks'[n].start = blocks[n].start
      /\ blocks'[n].vars = blocks[n].vars \cup {v}
  <2>1. /\ blocks \in Seq(BlockRecord) /\ n \in Nat \ {0} /\ DOMAIN blocks = 1 .. n
        /\ cur.base \in 1 .. n
    BY <1>1, ControlTypes
  <2>2. blocks[n] \in BlockRecord
    BY <2>1
  <2>3. new.start = blocks[n].start /\ new.vars = blocks[n].vars \cup {v}
    BY <2>2 DEF BlockRecord
  <2>4. DOMAIN blocks' = 1 .. n /\ Len(blocks') = n /\ blocks'[n] = new
        /\ \A k \in 1 .. n - 1 : blocks'[k] = blocks[k]
    <3>1. blocks \in Seq(BlockRecord \cup {new})
      BY <2>1, SeqMonotonic
    <3>2. /\ blocks' \in Seq(BlockRecord \cup {new}) /\ Len(blocks') = n
          /\ \A k \in 1 .. n : blocks'[k] = IF k = n THEN new ELSE blocks[k]
      <4> HIDE DEF new
      <4> QED
        BY <1>1, <2>1, <3>1, ExceptSeq
    <3> HIDE DEF new, n
    <3> QED
      BY <2>1, <3>2
  <2> HIDE DEF new
  <2> QED
    BY <2>1, <2>3, <2>4
<1>5. /\ blocks[n].start <= cur.scopeStart /\ cur.scopeStart <= r
      /\ \A u \in blocks[n].vars : home[u] < r
      /\ r \in Nat /\ blocks[n].start \in Nat /\ cur.scopeStart \in Nat
      /\ blocks[n].vars \subseteq DOMAIN home
      /\ \A u \in DOMAIN home : home[u] \in Nat
  BY <1>1, <1>4, RunningFacts, Numbers DEF VInv
<1>6. BlocksNest' /\ Layout'
  <2>1. Stale' = Stale /\ Stale \in Nat /\ Stale' >= Stale
    BY <1>1, <1>4, Numbers DEF Stale
  <2>2. \A u, w \in blocks[n].vars : /\ blocks[n].start <= home[u]
                                     /\ u # w => home[u] # home[w]
    BY <1>1, <1>4, ControlTypes DEF VInv, BlocksNest
  <2>3. \A u \in blocks[n].vars : home'[u] = home[u] /\ u # v
    BY <1>2, <1>5 DEF HomesKept
  <2> HIDE DEF n, v, r
  <2>4. ASSUME NEW u \in blocks'[n].vars, NEW w \in blocks'[n].vars
        PROVE  /\ blocks'[n].start <= home'[u] /\ home'[u] < cur'.nextReg
               /\ u # w => home'[u] # home'[w]
    <3>1. CASE u = v
      BY <1>2, <1>3, <1>4, <1>5, <2>3, <3>1
    <3>2. CASE u # v
      <4>1. u \in blocks[n].vars /\ home[u] \in Nat
        BY <1>4, <1>5, <3>2
      <4>2. CASE w = v
        BY <1>2, <1>3, <1>4, <1>5, <2>2, <2>3, <4>1, <4>2
      <4>3. CASE w # v
        <5>1. w \in blocks[n].vars
          BY <1>4, <4>3
        <5> QED
          BY <1>3, <1>4, <1>5, <2>2, <2>3, <4>1, <5>1
      <4> QED
        BY <4>2, <4>3
    <3> QED
      BY <3>1, <3>2
  <2>5. scopeStarts' \in Seq(Addr)
    BY <1>1, ControlTypes
  <2>6. blocks'[n].start <= cur'.scopeStart /\ cur'.scopeStart <= cur'.nextReg
    BY <1>3, <1>4, <1>5
  <2>7. n \in cur.base .. Len(blocks) + 1 /\ n <= Len(blocks) /\ ~(n > Len(blocks))
    BY <1>1, <1>4, ControlTypes DEF n
  <2> QED
    BY <1>1, <1>2, <1>3, <1>4, <2>1, <2>4, <2>5, <2>6, <2>7, OwnStep
<1>7. ASSUME NEW u \in DOMAIN home, u \in Live' PROVE u \in Live
  <2>1. n \in Nat /\ (u \in blocks'[n].vars => u \in blocks[n].vars)
    BY <1>2, <1>4, <1>7
  <2> HIDE DEF n, v
  <2> QED
    BY <1>1, <1>4, <1>7, <2>1, LiveBelow
<1>8. Held \subseteq DOMAIN home /\ CapturesSame
  BY <1>1, CaptureFacts, ClosuresSame DEF Held
<1>9. ASSUME NEW u \in Held, u \in blocks'[1].vars PROVE u \in blocks[1].vars
  <2>1. CASE n = 1
    BY <1>2, <1>4, <1>8, <1>9, <2>1
  <2>2. CASE n # 1
    <3>1. 1 \in 1 .. n - 1
      BY <1>1, <2>2, ControlTypes
    <3> QED
      BY <1>4, <1>9, <3>1
  <2> QED
    BY <2>1, <2>2
<1>10. GlobalsUncaptured' /\ NeverClosedEarly' /\ OneCellPerVariable'
  BY <1>1, <1>2, <1>7, <1>8, <1>9, CapturesKept DEF memory
<1> QED
  BY <1>6, <1>10 DEF VInv

(* The captures after a step that opens blocks or leaves some, and closes  *)
(* no cell or those from a limit on that lies above what remains live.     *)
LEMMA CapturesBelow ==
  ASSUME VInv, closures' = closures, HomesKept,
         NEW m \in Nat \ {0}, DOMAIN blocks' = 1 .. m,
         \A k \in 1 .. m - 1 : k \in 1 .. Len(blocks) /\ blocks'[k] = blocks[k],
         \A u \in blocks'[m].vars : u \in DOMAIN home =>
           m \in 1 .. Len(blocks) /\ u \in blocks[m].vars,
         \/ UNCHANGED memory
         \/ \E limit \in Nat : \E file :
              /\ CloseCells(limit, file)
              /\ \A k \in 1 .. m : k \in 1 .. Len(blocks) =>
                   \A u \in blocks[k].vars : (k = m => u \in blocks'[m].vars) => home[u] < limit
  PROVE  GlobalsUncaptured' /\ NeverClosedEarly' /\ OneCellPerVariable'
<1>1. IInv /\ Held \subseteq DOMAIN home /\ CapturesSame
  BY CaptureFacts, ClosuresSame DEF Held, VInv
<1>2. ASSUME NEW u \in Held, u \in Live'
      PROVE  /\ u \in Live
             /\ \E k \in 1 .. m : /\ k \in 1 .. Len(blocks) /\ u \in blocks[k].vars
                                  /\ k = m => u \in blocks'[m].vars
  BY <1>1, <1>2, LiveBelow
<1>3. ASSUME NEW u \in Held, u \in Live', NEW c \in DOMAIN cells, cells[c].loc = home[u]
      PROVE  cells'[c].loc = home[u]
  <2>1. CASE UNCHANGED memory
    BY <1>3, <2>1 DEF memory
  <2>2. CASE ~UNCHANGED memory
    <3>0. PICK limit \in Nat : \E file :
              /\ CloseCells(limit, file)
              /\ \A k \in 1 .. m : k \in 1 .. Len(blocks) =>
                   \A w \in blocks[k].vars : (k = m => w \in blocks'[m].vars) => home[w] < limit
      BY <2>2
    <3>1. PICK file :
              /\ CloseCells(limit, file)
              /\ \A k \in 1 .. m : k \in 1 .. Len(blocks) =>
                   \A w \in blocks[k].vars : (k = m => w \in blocks'[m].vars) => home[w] < limit
      BY <3>0
    <3>2. home[u] < limit /\ home[u] \in Nat
      BY <1>1, <1>2, <1>3, <3>1, Numbers
    <3>3. cells'[c] = IF cells[c].loc >= limit THEN Close(c, file) ELSE cells[c]
      BY <1>1, <3>1, CloseCellsEffect
    <3>4. ~(cells[c].loc >= limit)
      BY <1>3, <3>2
    <3> QED
      BY <1>3, <3>3, <3>4
  <2> QED
    BY <2>1, <2>2
<1>4. ASSUME NEW u \in Held, u \in blocks'[1].vars PROVE u \in blocks[1].vars
  <2>1. CASE m = 1
    BY <1>1, <1>4, <2>1
  <2>2. CASE m # 1
    <3>1. 1 \in 1 .. m - 1
      BY <2>2
    <3> QED
      BY <1>4, <3>1
  <2> QED
    BY <2>1, <2>2
<1> QED
  BY <1>1, <1>2, <1>3, <1>4, CapturesKept

(* The start of a for statement.                                           *)
LEMMA EnterForVars ==
  ASSUME VInv, IInv', NEW x \in Vals, EnterFor(x)
  PROVE  VInv'
<1> DEFINE r == cur.nextReg
           n == Len(blocks)
           m == n + 1
           v == Len(home) + 1
           new == [start |-> r, loop |-> TRUE, vars |-> {v}]
<1>1. /\ IInv /\ r + 1 < NumRegs /\ Bind(r)
      /\ blocks' = Append(blocks, new) /\ scopeStarts' = Append(scopeStarts, r)
      /\ cur' = [PushScope(cur, r) EXCEPT !.nextReg = r + 2] /\ frames' = frames
      /\ UNCHANGED <<closures, memory>>
  BY DEF EnterFor, VInv
<1>2. r \in Addr /\ r \in Nat /\ n \in Nat \ {0} /\ cur.base \in 1 .. n
  BY <1>1, ControlTypes, Numbers DEF Addr
<1>3. /\ HomesKept /\ home'[v] = r /\ v \notin DOMAIN home
  BY <1>1, <1>2, BindKeeps
<1>4. cur'.base = cur.base /\ cur'.window = cur.window /\ cur'.scopeStart = r /\ cur'.nextReg = r + 2
  <2>1. cur \in Context
    BY <1>1, ControlTypes
  <2>2. cur' = [cur EXCEPT !.scopeStart = r, !.nextReg = r + 2]
    BY <1>1, <2>1 DEF PushScope, Context
  <2> QED
    BY <2>1, <2>2 DEF Context
<1>5. /\ Len(blocks') = m /\ DOMAIN blocks' = 1 .. m /\ blocks'[m] = new
      /\ \A k \in 1 .. m - 1 : k \in 1 .. Len(blocks) /\ blocks'[k] = blocks[k]
  <2>1. blocks \in Seq(BlockRecord \cup {new})
    BY <1>1, ControlTypes, SeqMonotonic
  <2> HIDE DEF new
  <2> QED
    BY <1>1, <1>2, <2>1, AppendProperties
<1>6. /\ scopeStarts' \in Seq(Addr) /\ Len(scopeStarts') = Len(scopeStarts) + 1
      /\ \A j \in DOMAIN scopeStarts' :
           \/ j \in DOMAIN scopeStarts /\ scopeStarts'[j] = scopeStarts[j]
           \/ j = Len(scopeStarts) + 1 /\ scopeStarts'[j] = r
  BY <1>1, <1>2, ControlTypes, AppendProperties
<1>7. Stale' = Stale /\ Stale \in Nat
  BY <1>1, <1>5, <1>6, ControlTypes, Numbers DEF Stale
<1>8. /\ m \in cur.base .. Len(blocks) + 1 /\ ~(m <= Len(blocks)) /\ m \in Nat \ {0}
      /\ blocks'[m].start = r /\ blocks'[m].vars = {v}
  BY <1>2, <1>5
<1>9. BlocksNest' /\ Layout'
  <2>1. \A u, w \in blocks'[m].vars : /\ blocks'[m].start <= home'[u] /\ home'[u] < cur'.nextReg
                                      /\ u # w => home'[u] # home'[w]
    BY <1>2, <1>3, <1>4, <1>8
  <2>2. Stale' >= Stale /\ blocks'[m].start <= cur'.scopeStart /\ cur'.scopeStart <= cur'.nextReg
    BY <1>2, <1>4, <1>7, <1>8
  <2> HIDE DEF m, r, v, new
  <2> QED
    BY <1>1, <1>3, <1>4, <1>5, <1>6, <1>7, <1>8, <2>1, <2>2, OwnStep DEF r
<1>10. \A u \in blocks'[m].vars : u \notin DOMAIN home
  BY <1>3, <1>8
<1>11. GlobalsUncaptured' /\ NeverClosedEarly' /\ OneCellPerVariable'
  <2> HIDE DEF m, r, v, new
  <2> QED
    BY <1>1, <1>3, <1>5, <1>8, <1>10, CapturesBelow
<1> QED
  BY <1>9, <1>11 DEF VInv

(* The entry that the exit of the innermost block pops is not below the    *)
(* block's start, so it lies above the variables of every other block.     *)
LEMMA LimitAbove ==
  ASSUME VInv, Len(blocks) > cur.base
  PROVE  /\ ScopeLimit \in Nat /\ Block.start <= ScopeLimit
         /\ \A k \in 1 .. Len(blocks) - 1 : \A v \in blocks[k].vars : home[v] < ScopeLimit
<1> DEFINE n == Len(blocks)
           s == Len(scopeStarts)
<1>1. /\ IInv /\ BlocksNest /\ n \in Nat \ {0} /\ DOMAIN blocks = 1 .. n /\ cur.base \in 1 .. n
      /\ Len(frames) \in Nat
  BY ControlTypes DEF VInv
<1>2. scopeStarts # <<>> /\ ScopeLimit \in Addr
  BY <1>1, EntryToPop
<1>3. s \in DOMAIN scopeStarts /\ ScopeLimit = scopeStarts[s] /\ ScopeLimit \in Nat
  BY <1>1, <1>2, ControlTypes DEF ScopeLimit, Last, Addr
<1>4. s >= Stale + n - (Len(frames) + 1) /\ n \in cur.base + 1 .. n
  BY <1>1, <1>3, Numbers DEF Stale
<1>5. blocks[n].start <= ScopeLimit
  BY <1>3, <1>4 DEF VInv, Layout, ContextFits
<1>6. ASSUME NEW k \in 1 .. n - 1, NEW v \in blocks[k].vars
      PROVE  home[v] < ScopeLimit
  <2>1. k \in DOMAIN blocks /\ n \in DOMAIN blocks /\ k < n
    <3> HIDE DEF n
    <3> QED
      BY <1>1
  <2>2. home[v] < blocks[n].start
    BY <1>1, <2>1 DEF BlocksNest
  <2>3. home[v] \in Nat /\ blocks[n].start \in Nat
    BY <1>1, <2>1, Numbers
  <2> HIDE DEF n
  <2> QED
    BY <1>3, <1>5, <2>2, <2>3
<1> QED
  BY <1>3, <1>5, <1>6 DEF Block

(* OP_EXIT_SCOPE.                                                          *)
LEMMA ExitScopeVars ==
  ASSUME VInv, IInv', ExitScope
  PROVE  VInv'
<1> DEFINE n == Len(blocks)
           m == n - 1
<1>1. /\ IInv /\ BlocksNest /\ n > cur.base /\ CloseCells(ScopeLimit, regs)
      /\ scopeStarts' = Front(scopeStarts) /\ blocks' = SubSeq(blocks, 1, n - 1)
      /\ cur' = [cur EXCEPT !.nextReg = cur.scopeStart]
      /\ frames' = frames /\ home' = home /\ closures' = closures
  BY DEF ExitScope, Front, VInv
<1>2. n \in Nat \ {0} /\ DOMAIN blocks = 1 .. n /\ cur.base \in 1 .. n
  BY <1>1, ControlTypes
<1>3. /\ m \in cur.base .. Len(blocks) + 1 /\ m \in Nat \ {0} /\ m \in 1 .. Len(blocks)
      /\ m <= Len(blocks) /\ ~(m > Len(blocks)) /\ m \in 0 .. Len(blocks) /\ m < n
  BY <1>1, <1>2
<1>4. /\ Len(blocks') = m /\ DOMAIN blocks' = 1 .. m /\ blocks'[m] = blocks[m]
      /\ \A k \in 1 .. m - 1 : k \in 1 .. Len(blocks) /\ blocks'[k] = blocks[k]
  <2>1. /\ blocks' \in Seq(BlockRecord) /\ Len(blocks') = m
        /\ \A k \in 1 .. m : blocks'[k] = blocks[k]
    <3>1. blocks \in Seq(BlockRecord) /\ blocks' = SubSeq(blocks, 1, m)
      BY <1>1, ControlTypes
    <3> QED
      BY <1>3, <3>1, PrefixFacts
  <2> QED
    BY <1>2, <1>3, <2>1
<1>5. scopeStarts # <<>>
  BY <1>1, EntryToPop
<1>6. /\ scopeStarts' \in Seq(Addr) /\ Len(scopeStarts') = Len(scopeStarts) - 1
      /\ \A j \in DOMAIN scopeStarts' : j \in DOMAIN scopeStarts /\ scopeStarts'[j] = scopeStarts[j]
  <2>1. /\ scopeStarts' \in Seq(Addr) /\ Len(scopeStarts') = Len(scopeStarts) - 1
        /\ \A j \in 1 .. Len(scopeStarts) - 1 : scopeStarts'[j] = scopeStarts[j]
    BY <1>1, <1>5, ControlTypes, FrontFacts
  <2>2. DOMAIN scopeStarts' = 1 .. Len(scopeStarts) - 1
    BY <2>1
  <2> QED
    BY <1>1, <2>1, <2>2, Numbers
<1>7. Stale' = Stale /\ Stale \in Nat /\ Stale' >= Stale
  <2>1. Stale' = (Len(scopeStarts) - 1) + Len(frames) + 1 - (n - 1)
    BY <1>1, <1>4, <1>6 DEF Stale
  <2>2. Stale' = Stale
    <3>1. Len(scopeStarts) \in Nat /\ Len(frames) \in Nat
      BY <1>1, ControlTypes
    <3> QED
      BY ONLY <1>2, <2>1, <3>1 DEF Stale
  <2> QED
    BY <1>1, <2>2, Numbers
<1>8. HomesKept
  BY <1>1 DEF HomesKept
<1>9. /\ cur'.base = cur.base /\ cur'.window = cur.window
      /\ cur'.scopeStart = cur.scopeStart /\ cur'.nextReg = cur.scopeStart
  BY <1>1, ControlTypes DEF Context
<1>10. /\ \A u, w \in blocks[m].vars : /\ blocks[m].start <= home[u] /\ home[u] < cur.scopeStart
                                       /\ u # w => home[u] # home[w]
       /\ blocks[m].start <= cur.scopeStart /\ cur.scopeStart <= cur.scopeStart
  <2>1. m \in DOMAIN blocks /\ n \in DOMAIN blocks
    BY <1>2, <1>3
  <2>2. \A u \in blocks[m].vars : home[u] < blocks[n].start
    BY <1>1, <1>3, <2>1 DEF BlocksNest
  <2>3. blocks[n].start <= cur.scopeStart /\ blocks[m].start <= cur.scopeStart
    BY <1>2, <1>3, <2>1, RunningFacts DEF VInv
  <2>4. \A u, w \in blocks[m].vars : /\ blocks[m].start <= home[u]
                                     /\ u # w => home[u] # home[w]
    BY <1>1, <2>1 DEF BlocksNest
  <2>5. blocks[n].start \in Nat /\ cur.scopeStart \in Nat
        /\ \A u \in blocks[m].vars : home[u] \in Nat
    BY <1>1, <1>2, <1>3, <2>1, Numbers
  <2> HIDE DEF n, m
  <2> QED
    BY <2>2, <2>3, <2>4, <2>5
<1>11. BlocksNest' /\ Layout'
  <2>1. \A u, w \in blocks'[m].vars : /\ blocks'[m].start <= home'[u] /\ home'[u] < cur'.nextReg
                                      /\ u # w => home'[u] # home'[w]
    BY <1>1, <1>4, <1>9, <1>10
  <2>2. blocks'[m].start <= cur'.scopeStart /\ cur'.scopeStart <= cur'.nextReg
    BY <1>4, <1>9, <1>10
  <2> HIDE DEF m
  <2> QED
    BY <1>1, <1>3, <1>4, <1>6, <1>7, <1>8, <1>9, <2>1, <2>2, OwnStep, SMTT(30)
<1>12. GlobalsUncaptured' /\ NeverClosedEarly' /\ OneCellPerVariable'
  <2>1. /\ ScopeLimit \in Nat
        /\ \A k \in 1 .. n - 1 : \A u \in blocks[k].vars : home[u] < ScopeLimit
    BY <1>1, LimitAbove
  <2>2. \A k \in 1 .. m : k \in 1 .. Len(blocks) =>
          \A u \in blocks[k].vars : (k = m => u \in blocks'[m].vars) => home[u] < ScopeLimit
    BY <2>1
  <2> HIDE DEF m
  <2> QED
    BY <1>1, <1>3, <1>4, <1>8, <2>1, <2>2, CapturesBelow
<1> QED
  BY <1>11, <1>12 DEF VInv

(* break and continue: the entries they leave behind are limits of the     *)
(* blocks they left, so they lie above the variables that remain.          *)
LEMMA LeaveVars ==
  ASSUME VInv, IInv', NEW m \in DOMAIN blocks, Leave(m)
  PROVE  VInv'
<1> DEFINE n == Len(blocks)
<1>1. /\ IInv /\ BlocksNest /\ m \in cur.base .. n - 1
      /\ blocks' = SubSeq(blocks, 1, m) /\ cur' = [cur EXCEPT !.nextReg = cur.scopeStart]
      /\ frames' = frames /\ home' = home /\ closures' = closures
      /\ scopeStarts' = scopeStarts /\ UNCHANGED memory
  BY DEF Leave, VInv
<1>2. n \in Nat \ {0} /\ DOMAIN blocks = 1 .. n /\ cur.base \in 1 .. n
  BY <1>1, ControlTypes
<1>3. /\ m \in cur.base .. Len(blocks) + 1 /\ m \in Nat \ {0} /\ m \in 1 .. Len(blocks)
      /\ m <= Len(blocks) /\ ~(m > Len(blocks)) /\ m \in 0 .. Len(blocks) /\ m < n
  BY <1>1, <1>2
<1>4. /\ Len(blocks') = m /\ DOMAIN blocks' = 1 .. m /\ blocks'[m] = blocks[m]
      /\ \A k \in 1 .. m - 1 : k \in 1 .. Len(blocks) /\ blocks'[k] = blocks[k]
  <2>1. /\ blocks' \in Seq(BlockRecord) /\ Len(blocks') = m
        /\ \A k \in 1 .. m : blocks'[k] = blocks[k]
    BY <1>1, <1>3, ControlTypes, PrefixFacts
  <2> QED
    BY <1>2, <1>3, <2>1
<1>5. Stale' \in Nat /\ Stale' >= Stale
  <2>1. Stale' = Len(scopeStarts) + Len(frames) + 1 - m
    BY <1>1, <1>4 DEF Stale
  <2>2. Len(scopeStarts) \in Nat /\ Len(frames) \in Nat /\ Stale \in Nat
    BY <1>1, ControlTypes, Numbers
  <2> QED
    BY <1>2, <1>3, <2>1, <2>2 DEF Stale
<1>6. HomesKept
  BY <1>1 DEF HomesKept
<1>7. /\ cur'.base = cur.base /\ cur'.window = cur.window
      /\ cur'.scopeStart = cur.scopeStart /\ cur'.nextReg = cur.scopeStart
  BY <1>1, ControlTypes DEF Context
<1>8. /\ \A u, w \in blocks[m].vars : /\ blocks[m].start <= home[u] /\ home[u] < cur.scopeStart
                                      /\ u # w => home[u] # home[w]
      /\ blocks[m].start <= cur.scopeStart /\ cur.scopeStart <= cur.scopeStart
  <2>1. n \in DOMAIN blocks
    BY <1>2
  <2>2. \A u \in blocks[m].vars : home[u] < blocks[n].start
    BY <1>1, <1>3, <2>1 DEF BlocksNest
  <2>3. blocks[n].start <= cur.scopeStart /\ blocks[m].start <= cur.scopeStart
    BY <1>2, <1>3, <2>1, RunningFacts DEF VInv
  <2>4. \A u, w \in blocks[m].vars : /\ blocks[m].start <= home[u]
                                     /\ u # w => home[u] # home[w]
    BY <1>1, <2>1 DEF BlocksNest
  <2>5. blocks[n].start \in Nat /\ cur.scopeStart \in Nat
        /\ \A u \in blocks[m].vars : home[u] \in Nat
    BY <1>1, <1>2, <1>3, <2>1, Numbers
  <2> HIDE DEF n
  <2> QED
    BY <2>2, <2>3, <2>4, <2>5
<1>9. BlocksNest' /\ Layout'
  <2>1. \A u, w \in blocks'[m].vars : /\ blocks'[m].start <= home'[u] /\ home'[u] < cur'.nextReg
                                      /\ u # w => home'[u] # home'[w]
    BY <1>1, <1>4, <1>7, <1>8
  <2>2. blocks'[m].start <= cur'.scopeStart /\ cur'.scopeStart <= cur'.nextReg
    BY <1>4, <1>7, <1>8
  <2>3. scopeStarts' \in Seq(Addr)
    BY <1>1, ControlTypes
  <2> QED
    BY <1>1, <1>3, <1>4, <1>5, <1>6, <1>7, <2>1, <2>2, <2>3, OwnStep
<1>10. GlobalsUncaptured' /\ NeverClosedEarly' /\ OneCellPerVariable'
  BY <1>1, <1>3, <1>4, <1>6, CapturesBelow
<1> QED
  BY <1>9, <1>10 DEF VInv

(* The next iteration: the loop's register gets a new variable, once the   *)
(* cells from the loop's limit on are closed.                              *)
LEMMA UpdateIterVars ==
  ASSUME VInv, IInv', NEW x \in Vals, UpdateIter(x)
  PROVE  VInv'
<1> DEFINE m == Len(blocks)
           r == blocks[m].start
           v == Len(home) + 1
           new == [blocks[m] EXCEPT !.vars = {v}]
<1>1. /\ IInv /\ m > cur.base /\ blocks[m].loop /\ Bind(r)
      /\ CloseCells(ScopeLimit, regs)
      /\ blocks' = [blocks EXCEPT ![m] = new]
      /\ cur' = [cur EXCEPT !.scopeStart = r, !.nextReg = r + 2]
      /\ frames' = frames /\ scopeStarts' = scopeStarts /\ closures' = closures
  BY DEF UpdateIter, Block, VInv
<1>2. /\ m \in Nat \ {0} /\ DOMAIN blocks = 1 .. m /\ cur.base \in 1 .. m
      /\ m \in cur.base .. Len(blocks) + 1 /\ m <= Len(blocks) /\ ~(m > Len(blocks))
      /\ m \in 1 .. Len(blocks) /\ blocks \in Seq(BlockRecord)
  BY <1>1, ControlTypes
<1>3. r \in Nat /\ r \in Addr
  <2>1. r + 2 <= NumRegs /\ r \in Nat
    BY <1>1, <1>2, Numbers DEF IInv, StackShape
  <2> QED
    BY <2>1, ConstantsAssumption DEF Addr
<1>4. HomesKept /\ home'[v] = r /\ v \notin DOMAIN home
  BY <1>1, <1>3, BindKeeps
<1>5. /\ DOMAIN blocks' = 1 .. m /\ Len(blocks') = m
      /\ \A k \in 1 .. m - 1 : k \in 1 .. Len(blocks) /\ blocks'[k] = blocks[k]
      /\ blocks'[m].start = r /\ blocks'[m].start = blocks[m].start
      /\ blocks'[m].vars = {v}
  <2>1. new.start = r /\ new.vars = {v}
    <3>1. blocks[m] \in BlockRecord
      BY <1>2
    <3> QED
      BY <3>1 DEF BlockRecord
  <2>2. blocks \in Seq(BlockRecord \cup {new})
    BY <1>2, SeqMonotonic
  <2>3. /\ blocks' \in Seq(BlockRecord \cup {new}) /\ Len(blocks') = m
        /\ \A k \in 1 .. m : blocks'[k] = IF k = m THEN new ELSE blocks[k]
    <3> HIDE DEF new
    <3> QED
      BY <1>1, <1>2, <2>2, ExceptSeq
  <2>4. blocks'[m] = new
    BY <1>2, <2>3
  <2>5. DOMAIN blocks' = 1 .. m /\ \A k \in 1 .. m - 1 : blocks'[k] = blocks[k]
    <3> HIDE DEF new, m
    <3> QED
      BY <1>2, <2>3
  <2>6. blocks'[m].start = r /\ blocks'[m].vars = {v}
    BY <2>1, <2>4
  <2>7. \A k \in 1 .. m - 1 : k \in 1 .. Len(blocks)
    BY <1>2
  <2> QED
    BY <2>3, <2>5, <2>6, <2>7
<1>6. cur'.base = cur.base /\ cur'.window = cur.window /\ cur'.scopeStart = r /\ cur'.nextReg = r + 2
  BY <1>1, ControlTypes DEF Context
<1>7. Stale' = Stale /\ Stale \in Nat /\ Stale' >= Stale
  BY <1>1, <1>5, Numbers DEF Stale
<1>8. BlocksNest' /\ Layout'
  <2> HIDE DEF m, r, v, new
  <2>1. \A u, w \in blocks'[m].vars : /\ blocks'[m].start <= home'[u] /\ home'[u] < cur'.nextReg
                                      /\ u # w => home'[u] # home'[w]
    <3>1. blocks'[m].start = r /\ cur'.nextReg = r + 2 /\ r \in Nat
      BY <1>3, <1>5, <1>6
    <3>2. \A u \in blocks'[m].vars : u = v /\ home'[u] = r
      BY <1>4, <1>5
    <3> QED
      BY <3>1, <3>2
  <2>2. blocks'[m].start <= cur'.scopeStart /\ cur'.scopeStart <= cur'.nextReg
    <3>1. blocks'[m].start = r /\ cur'.nextReg = r + 2 /\ cur'.scopeStart = r /\ r \in Nat
      BY <1>3, <1>5, <1>6
    <3> QED
      BY <3>1
  <2>3. scopeStarts' \in Seq(Addr)
    BY <1>1, ControlTypes
  <2> QED
    BY <1>1, <1>2, <1>4, <1>5, <1>6, <1>7, <2>1, <2>2, <2>3, OwnStep
<1>9. GlobalsUncaptured' /\ NeverClosedEarly' /\ OneCellPerVariable'
  <2>1. /\ ScopeLimit \in Nat
        /\ \A k \in 1 .. m - 1 : \A u \in blocks[k].vars : home[u] < ScopeLimit
    BY <1>1, LimitAbove
  <2>2. \A u \in blocks[m].vars : u \in DOMAIN home
    BY <1>1, <1>2, Numbers
  <2> HIDE DEF m, r, v, new
  <2>3. \A k \in 1 .. m : k \in 1 .. Len(blocks) =>
          \A u \in blocks[k].vars : (k = m => u \in blocks'[m].vars) => home[u] < ScopeLimit
    BY <1>2, <1>4, <1>5, <2>1, <2>2
  <2>4. \A u \in blocks'[m].vars : u \notin DOMAIN home
    BY <1>4, <1>5
  <2> QED
    BY <1>1, <1>2, <1>4, <1>5, <2>1, <2>3, <2>4, CapturesBelow
<1> QED
  BY <1>8, <1>9 DEF VInv

(* A context c as the step leaves it.                                      *)
FitsNext(i, c, top) ==
  /\ blocks'[c.base].start = c.window
  /\ blocks'[top].start <= c.scopeStart
  /\ c.scopeStart <= c.nextReg
  /\ \A v \in blocks'[top].vars : home'[v] < c.nextReg
  /\ \A k \in c.base + 1 .. top : \A j \in DOMAIN scopeStarts' :
       j >= Stale' + k - i => blocks'[k].start <= scopeStarts'[j]

(* A call and a return leave the blocks of every other context alone.      *)
LEMMA FitsKept ==
  ASSUME IInv, HomesKept, NEW i \in Nat, NEW c, NEW top,
         ContextFits(i, c, top), c.base \in Nat, top \in c.base .. Len(blocks), c.base >= 1,
         \A k \in c.base .. top : blocks'[k] = blocks[k],
         scopeStarts' = scopeStarts, Stale' \in Nat, Stale' >= Stale
  PROVE  FitsNext(i, c, top)
<1>1. /\ top \in c.base .. top /\ c.base \in c.base .. top /\ top \in 1 .. Len(blocks)
      /\ \A k \in c.base + 1 .. top : k \in c.base .. top /\ k \in Nat
      /\ Len(blocks) \in Nat
  BY ControlTypes, SMTT(30)
<1>2. blocks[top].vars \subseteq DOMAIN home /\ Stale \in Nat
      /\ DOMAIN scopeStarts \subseteq Nat
  BY <1>1, Numbers
<1>3. \A v \in blocks'[top].vars : home'[v] < c.nextReg
  BY <1>1, <1>2 DEF HomesKept, ContextFits
<1>4. ASSUME NEW k \in c.base + 1 .. top, NEW j \in DOMAIN scopeStarts,
             j >= Stale' + k - i
      PROVE  blocks'[k].start <= scopeStarts[j]
  <2>1. k \in Nat /\ j \in Nat /\ blocks'[k] = blocks[k]
    BY <1>1, <1>2
  <2>2. j >= Stale + k - i
    BY <1>2, <1>4, <2>1
  <2> QED
    BY <2>1, <2>2 DEF ContextFits
<1> QED
  BY <1>1, <1>3, <1>4 DEF FitsNext, ContextFits

(* The parameters are new variables, in the registers from the window on.  *)
LEMMA CallHome ==
  ASSUME IInv, NEW c, NEW args \in {<<>>} \cup {<<x>> : x \in Vals}, Call(c, args)
  PROVE  LET w == cur.nextReg + 1
             a == Len(args)
             n == Len(home)
         IN  /\ HomesKept /\ DOMAIN home' = 1 .. n + a /\ Len(home') = n + a
             /\ \A v \in n + 1 .. n + a : home'[v] = w + (v - n) - 1 /\ v \notin DOMAIN home
<1> DEFINE w == cur.nextReg + 1
           a == Len(args)
           n == Len(home)
<1>1. IInv /\ home' = home \o [i \in 1 .. a |-> w + i - 1]
  BY DEF Call
<1>2. /\ a \in Nat /\ w \in Nat /\ n \in Nat /\ DOMAIN home = 1 .. n
  BY Numbers
<1> DEFINE added == [i \in 1 .. a |-> w + i - 1]
<1>3. added \in Seq(Nat) /\ Len(added) = a /\ home \in Seq(Nat)
  <2>1. \A i \in 1 .. a : w + i - 1 \in Nat
    <3> HIDE DEF w, a
    <3> QED
      BY <1>2
  <2>2. home \in Seq(Addr) /\ Addr \subseteq Nat
    BY <1>1, ControlTypes DEF Addr
  <2>3. home \in Seq(Nat)
    BY <2>2, SeqMonotonic
  <2> HIDE DEF w, a
  <2> QED
    BY <1>2, <2>1, <2>3
<1>4. /\ Len(home \o added) = n + a
      /\ \A i \in 1 .. n + a : (home \o added)[i] = IF i <= n THEN home[i] ELSE added[i - n]
  <2>1. n = Len(home)
    OBVIOUS
  <2> HIDE DEF added, n, a
  <2> QED
    BY <1>3, <2>1, ConcatProperties
<1>5. DOMAIN home' = 1 .. n + a
  <2>1. home' \in Seq(Nat)
    <3> HIDE DEF added
    <3>1. home \o added \in Seq(Nat)
      BY <1>3, ConcatProperties
    <3> QED
      BY <1>1, <3>1 DEF added
  <2> QED
    BY <1>1, <1>4, <2>1
<1>6. \A v \in n + 1 .. n + a : home'[v] = w + (v - n) - 1 /\ v \notin DOMAIN home
  BY <1>1, <1>2, <1>4
<1>7. \A v \in 1 .. n : home'[v] = home[v] /\ v \in 1 .. n + a
  BY <1>1, <1>2, <1>4
<1>8. Len(home') = n + a
  BY <1>1, <1>4
<1> QED
  BY <1>2, <1>5, <1>6, <1>7, <1>8 DEF HomesKept

(* A call: the new window starts above every variable.                     *)
LEMMA CallVars ==
  ASSUME VInv, IInv', NEW c, NEW args \in {<<>>} \cup {<<x>> : x \in Vals}, Call(c, args)
  PROVE  VInv'
<1> DEFINE w == cur.nextReg + 1
           a == Len(args)
           n == Len(home)
           m == Len(blocks) + 1
           f == Len(frames)
           new == [start |-> w, loop |-> FALSE, vars |-> n + 1 .. n + a]
<1>1. /\ IInv /\ BlocksNest /\ Layout
      /\ frames' = Append(frames, cur)
      /\ cur' = [window |-> w, closure |-> c, base |-> m, nextReg |-> w + a + 1, scopeStart |-> w]
      /\ blocks' = Append(blocks, new)
      /\ home' = home \o [i \in 1 .. a |-> w + i - 1]
      /\ scopeStarts' = scopeStarts /\ closures' = closures /\ UNCHANGED memory
  BY DEF Call, VInv
<1>2. /\ a \in Nat /\ w \in Nat /\ n \in Nat /\ f \in Nat /\ m \in Nat \ {0}
      /\ cur.nextReg \in Nat /\ DOMAIN home = 1 .. n /\ DOMAIN frames = 1 .. f
      /\ DOMAIN blocks = 1 .. Len(blocks) /\ cur.base \in 1 .. Len(blocks)
      /\ Len(blocks) \in Nat
  <2>1. a \in Nat
    OBVIOUS
  <2>2. /\ cur.nextReg \in Nat /\ n \in Nat /\ f \in Nat /\ Len(blocks) \in Nat
        /\ DOMAIN home = 1 .. n /\ DOMAIN frames = 1 .. f
        /\ DOMAIN blocks = 1 .. Len(blocks) /\ cur.base \in 1 .. Len(blocks)
    BY <1>1, ControlTypes, Numbers
  <2>3. w \in Nat /\ m \in Nat \ {0}
    BY <2>2
  <2> HIDE DEF w, a, n, m, f
  <2> QED
    BY <2>1, <2>2, <2>3
<1>3. /\ HomesKept
      /\ \A v \in n + 1 .. n + a : home'[v] = w + (v - n) - 1 /\ v \notin DOMAIN home
  <2> HIDE DEF w, a, n, f, m, new
  <2> QED
    BY <1>1, CallHome DEF w, a, n
<1>4. /\ Len(blocks') = m /\ DOMAIN blocks' = 1 .. m /\ blocks'[m] = new
      /\ \A k \in 1 .. m - 1 : k \in 1 .. Len(blocks) /\ blocks'[k] = blocks[k]
  <2>1. blocks \in Seq(BlockRecord \cup {new})
    BY <1>1, ControlTypes, SeqMonotonic
  <2> HIDE DEF new
  <2> QED
    BY <1>1, <1>2, <2>1, AppendProperties
<1>5. /\ Len(frames') = f + 1 /\ DOMAIN frames' = 1 .. f + 1 /\ frames'[f + 1] = cur
      /\ \A i \in 1 .. f : frames'[i] = frames[i]
  BY <1>1, <1>2, ControlTypes, AppendProperties
<1>6. Stale' = Stale /\ Stale \in Nat /\ Stale' >= Stale
  <2>1. Stale' = Len(scopeStarts) + (f + 1) + 1 - m
    BY <1>1, <1>4, <1>5 DEF Stale
  <2>2. Stale \in Nat /\ Len(scopeStarts) \in Nat
    BY <1>1, Numbers
  <2> QED
    BY <1>2, <2>1, <2>2, SMTT(30) DEF Stale
<1>7. /\ blocks'[m].start = w /\ blocks'[m].vars = n + 1 .. n + a
      /\ cur'.window = w /\ cur'.base = m /\ cur'.scopeStart = w /\ cur'.nextReg = w + a + 1
  BY <1>1, <1>4
<1>8. \A v \in blocks'[m].vars : /\ v \notin DOMAIN home /\ w <= home'[v] /\ home'[v] < w + a + 1
                                 /\ \A u \in blocks'[m].vars : v # u => home'[v] # home'[u]
  <2> HIDE DEF w, a, n, m, new
  <2>1. \A v \in n + 1 .. n + a : v \in Nat /\ v - n >= 1 /\ v - n <= a
    BY <1>2
  <2>2. \A v \in n + 1 .. n + a : w <= w + (v - n) - 1 /\ w + (v - n) - 1 < w + a + 1
    BY <1>2, <2>1
  <2>3. \A v, u \in n + 1 .. n + a : v # u => w + (v - n) - 1 # w + (u - n) - 1
    BY <1>2, <2>1
  <2> QED
    BY <1>3, <1>7, <2>2, <2>3
<1>9. \A k \in 1 .. m - 1 : /\ blocks[k].start <= w
                            /\ \A v \in blocks[k].vars : home[v] < w
  <2> TAKE k \in 1 .. m - 1
  <2>1. /\ blocks[k].start <= cur.scopeStart /\ cur.scopeStart <= cur.nextReg
        /\ \A v \in blocks[k].vars : home[v] < cur.nextReg
    BY <1>1, <1>4, RunningFacts
  <2>2. /\ blocks[k].start \in Nat /\ cur.scopeStart \in Nat /\ cur.nextReg \in Nat
        /\ \A v \in blocks[k].vars : home[v] \in Nat
    BY <1>1, <1>4, Numbers
  <2> QED
    BY <2>1, <2>2
<1>10. BlocksNest'
  <2>1. m \in 1 .. Len(blocks) + 1
    BY <1>2
  <2>2. \A u, v \in blocks'[m].vars : /\ blocks'[m].start <= home'[u]
                                      /\ u # v => home'[u] # home'[v]
    BY <1>7, <1>8
  <2>3. \A k \in 1 .. m - 1 : /\ blocks[k].start <= blocks'[m].start
                              /\ \A v \in blocks[k].vars : home[v] < blocks'[m].start
    BY <1>7, <1>9
  <2>4. /\ IInv /\ BlocksNest /\ HomesKept /\ Len(blocks') = m /\ DOMAIN blocks' = 1 .. m
        /\ \A k \in 1 .. m - 1 : blocks'[k] = blocks[k]
    BY <1>1, <1>3, <1>4
  <2> HIDE DEF m, w, new
  <2> QED
    BY ONLY <2>1, <2>2, <2>3, <2>4, NestKept
<1>11. ContextFits(Len(frames) + 1, cur, Len(blocks))'
  <2>1. w <= w /\ w <= w + a + 1 /\ m + 1 .. m = {}
    BY <1>2
  <2> HIDE DEF w, a, m, new
  <2> QED
    BY <1>4, <1>7, <1>8, <2>1 DEF ContextFits
<1>12. ASSUME NEW i \in DOMAIN frames'
       PROVE  ContextFits(i, frames[i], CallerTop(i))'
  <2>1. \A k \in 1 .. Len(blocks) : blocks'[k] = blocks[k]
    BY <1>2, <1>4
  <2>2. CASE i = f + 1
    <3>1. CallerTop(i)' = Len(blocks) /\ frames'[i] = cur
      BY <1>2, <1>5, <1>7, <2>2 DEF CallerTop
    <3>2. FitsNext(i, cur, Len(blocks))
      <4>1. /\ ContextFits(i, cur, Len(blocks)) /\ i \in Nat
            /\ cur.base \in Nat /\ Len(blocks) \in cur.base .. Len(blocks) /\ cur.base >= 1
            /\ \A k \in cur.base .. Len(blocks) : blocks'[k] = blocks[k]
        BY <1>1, <1>2, <2>1, <2>2, SMTT(30) DEF Layout
      <4> QED
        BY <1>1, <1>3, <1>6, <4>1, FitsKept
    <3> QED
      BY <3>1, <3>2 DEF FitsNext, ContextFits
  <2>3. CASE i # f + 1
    <3>1. i \in 1 .. f /\ i \in DOMAIN frames /\ i \in Nat /\ i + 1 \in 1 .. f + 1
      BY <1>2, <1>5, <2>3, SMTT(30)
    <3>2. /\ frames'[i] = frames[i]
          /\ frames'[i + 1] = IF i = f THEN cur ELSE frames[i + 1]
      <4>1. i # f => i + 1 \in 1 .. f
        BY <1>2, <3>1
      <4> QED
        BY <1>5, <3>1, <4>1
    <3>3. CallerTop(i)' = CallerTop(i)
      BY <1>5, <2>3, <3>2 DEF CallerTop
    <3>4. FitsNext(i, frames[i], CallerTop(i))
      <4>1. /\ frames[i].base \in 1 .. cur.base - 1
            /\ CallerTop(i) \in frames[i].base .. cur.base - 1
        BY <1>1, <3>1, CallerFacts
      <4>2. /\ frames[i].base \in Nat /\ CallerTop(i) \in frames[i].base .. Len(blocks)
            /\ frames[i].base >= 1
            /\ \A k \in frames[i].base .. CallerTop(i) : blocks'[k] = blocks[k]
        BY <1>2, <2>1, <4>1, SMTT(30)
      <4>3. ContextFits(i, frames[i], CallerTop(i))
        BY <1>1, <3>1 DEF Layout
      <4> QED
        BY <1>1, <1>3, <1>6, <3>1, <4>2, <4>3, FitsKept
    <3> QED
      BY <3>2, <3>3, <3>4 DEF FitsNext, ContextFits
  <2> QED
    BY <2>2, <2>3
<1>13. GlobalsUncaptured' /\ NeverClosedEarly' /\ OneCellPerVariable'
  <2> HIDE DEF m, w, a, n, new
  <2> QED
    BY <1>1, <1>2, <1>3, <1>4, <1>8, CapturesBelow
<1> QED
  BY <1>10, <1>11, <1>12, <1>13 DEF VInv, Layout

(* OP_RETURN: the caller finds its blocks and registers as it left them.   *)
LEMMA ReturnVars ==
  ASSUME VInv, IInv', NEW file, OpReturn(file)
  PROVE  VInv'
<1> DEFINE f == Len(frames)
           m == cur.base - 1
<1>1. /\ IInv /\ BlocksNest /\ Layout
      /\ frames # <<>> /\ CloseCells(cur.window, file)
      /\ cur' = frames[f] /\ frames' = SubSeq(frames, 1, f - 1)
      /\ blocks' = SubSeq(blocks, 1, m)
      /\ scopeStarts' = scopeStarts /\ closures' = closures /\ home' = home
  BY DEF OpReturn, InFunction, FrameLimit, Last, Front, VInv
<1>2. /\ f \in Nat \ {0} /\ f \in DOMAIN frames /\ DOMAIN frames = 1 .. f /\ f - 1 \in 0 .. f
      /\ DOMAIN blocks = 1 .. Len(blocks) /\ cur.base \in 1 .. Len(blocks)
      /\ Len(blocks) \in Nat /\ cur.window \in Nat
  BY <1>1, ControlTypes, Numbers
<1>3. frames[f].base \in 1 .. m /\ CallerTop(f) = m
  BY <1>1, <1>2, CallerFacts DEF CallerTop
<1>4. m \in Nat \ {0} /\ m \in 1 .. Len(blocks) /\ m \in 0 .. Len(blocks) /\ m < cur.base
  BY <1>2, <1>3
<1>5. /\ Len(blocks') = m /\ DOMAIN blocks' = 1 .. m
      /\ \A k \in 1 .. m : k \in 1 .. Len(blocks) /\ blocks'[k] = blocks[k]
  <2>1. /\ blocks' \in Seq(BlockRecord) /\ Len(blocks') = m
        /\ \A k \in 1 .. m : blocks'[k] = blocks[k]
    <3> HIDE DEF m
    <3> QED
      BY <1>1, <1>4, ControlTypes, PrefixFacts
  <2> QED
    BY <1>2, <1>4, <2>1
<1>6. /\ Len(frames') = f - 1 /\ DOMAIN frames' = 1 .. f - 1
      /\ \A i \in 1 .. f - 1 : frames'[i] = frames[i]
  <2>1. /\ frames' \in Seq(Context) /\ Len(frames') = f - 1
        /\ \A i \in 1 .. f - 1 : frames'[i] = frames[i]
    BY <1>1, <1>2, ControlTypes, PrefixFacts
  <2> QED
    BY <2>1
<1>7. Stale' \in Nat /\ Stale' >= Stale
  <2>1. Stale' = Len(scopeStarts) + (f - 1) + 1 - m
    BY <1>1, <1>5, <1>6 DEF Stale
  <2>2. Stale \in Nat /\ Len(scopeStarts) \in Nat
    BY <1>1, Numbers
  <2> QED
    BY <1>2, <1>4, <2>1, <2>2, SMTT(30) DEF Stale
<1>8. HomesKept
  BY <1>1 DEF HomesKept
<1>9. /\ blocks[cur.base].start = cur.window
      /\ \A k \in 1 .. m : \A v \in blocks[k].vars : home[v] < cur.window
  <2>1. blocks[cur.base].start = cur.window
    BY <1>1, RunningFacts
  <2>2. \A k \in 1 .. m : k \in DOMAIN blocks /\ cur.base \in DOMAIN blocks /\ k < cur.base
    BY <1>2, <1>4
  <2> QED
    BY <1>1, <2>1, <2>2 DEF BlocksNest
<1>10. BlocksNest'
  <2> HIDE DEF m
  <2>1. \A k \in 1 .. m - 1 : k \in DOMAIN blocks /\ m \in DOMAIN blocks /\ k < m /\ k \in 1 .. m
    BY <1>2, <1>4
  <2>2. \A k \in 1 .. m - 1 : /\ blocks[k].start <= blocks[m].start
                              /\ \A v \in blocks[k].vars : home[v] < blocks[m].start
    BY <1>1, <2>1 DEF BlocksNest
  <2>3. \A v, u \in blocks[m].vars : /\ blocks[m].start <= home[v]
                                     /\ v # u => home[v] # home[u]
    BY <1>1, <1>2, <1>4 DEF BlocksNest
  <2>4. m \in 1 .. m /\ m \in 1 .. Len(blocks) + 1
    BY <1>2, <1>4
  <2> QED
    BY <1>1, <1>5, <1>8, <2>1, <2>2, <2>3, <2>4, NestKept
<1>11. ASSUME NEW i \in DOMAIN frames
       PROVE  FitsNext(i, frames[i], CallerTop(i))
  <2>1. /\ i \in Nat /\ frames[i].base \in 1 .. m
        /\ CallerTop(i) \in frames[i].base .. m
    BY <1>1, <1>2, CallerFacts
  <2>2. ContextFits(i, frames[i], CallerTop(i))
    BY <1>1 DEF Layout
  <2>3. /\ frames[i].base \in Nat /\ CallerTop(i) \in frames[i].base .. Len(blocks)
        /\ frames[i].base >= 1
        /\ \A k \in frames[i].base .. CallerTop(i) : blocks'[k] = blocks[k]
    <3> HIDE DEF m
    <3> QED
      BY <1>2, <1>4, <1>5, <2>1
  <2> QED
    BY <1>1, <1>7, <1>8, <2>1, <2>2, <2>3, FitsKept
<1>12. ContextFits(Len(frames) + 1, cur, Len(blocks))'
  <2>1. FitsNext(f, frames[f], m)
    BY <1>2, <1>3, <1>11
  <2>2. Len(frames') + 1 = f
    BY <1>2, <1>6
  <2> QED
    BY <1>1, <1>5, <2>1, <2>2 DEF FitsNext, ContextFits
<1>13. ASSUME NEW i \in DOMAIN frames'
       PROVE  ContextFits(i, frames[i], CallerTop(i))'
  <2>1. i \in 1 .. f - 1 /\ i \in DOMAIN frames /\ i # f /\ frames'[i] = frames[i] /\ i \in Nat
    BY <1>2, <1>6
  <2>2. CallerTop(i)' = CallerTop(i)
    <3>1. CASE i = f - 1
      <4>1. i + 1 = f
        BY <1>2, <3>1
      <4> QED
        BY <1>1, <1>6, <2>1, <3>1, <4>1 DEF CallerTop
    <3>2. CASE i # f - 1
      <4>1. i + 1 \in 1 .. f - 1
        BY <1>2, <2>1, <3>2
      <4> QED
        BY <1>6, <2>1, <3>2, <4>1 DEF CallerTop
    <3> QED
      BY <3>1, <3>2
  <2>3. FitsNext(i, frames[i], CallerTop(i))
    BY <1>11, <2>1
  <2> QED
    BY <2>1, <2>2, <2>3 DEF FitsNext, ContextFits
<1>14. GlobalsUncaptured' /\ NeverClosedEarly' /\ OneCellPerVariable'
  <2> HIDE DEF m
  <2>1. m \in 1 .. m /\ \A k \in 1 .. m - 1 : k \in 1 .. m
    BY <1>4
  <2> QED
    BY <1>1, <1>2, <1>4, <1>5, <1>8, <1>9, <2>1, CapturesBelow
<1> QED
  BY <1>10, <1>12, <1>13, <1>14 DEF VInv, Layout

(* clearVM leaves the script's first block, whose variables no closure has *)
(* captured: it may close cells from a limit below some of them on.        *)
LEMMA ClearVars ==
  ASSUME VInv, IInv', ClearVM
  PROVE  VInv'
<1> DEFINE top == CASE Len(frames) = 0 -> Len(blocks)
                    [] Len(frames) = 1 -> cur.base - 1
                    [] OTHER           -> frames[2].base - 1
<1>1. /\ IInv /\ BlocksNest /\ Layout
      /\ scopeStarts' = <<>> /\ frames' = <<>> /\ blocks' = <<blocks[1]>>
      /\ cur' = [Script EXCEPT !.closure = cur.closure,
                   !.nextReg = IF top > 1 THEN Script.scopeStart ELSE @]
      /\ home' = home /\ closures' = closures
  BY DEF ClearVM, ScriptBlocks, VInv
<1>2. /\ Len(blocks') = 1 /\ DOMAIN blocks' = 1 .. 1 /\ blocks'[1] = blocks[1]
      /\ 1 \in DOMAIN blocks /\ DOMAIN blocks = 1 .. Len(blocks) /\ Len(blocks) \in Nat \ {0}
      /\ Len(frames') = 0 /\ DOMAIN frames' = {} /\ Len(scopeStarts') = 0
      /\ DOMAIN scopeStarts' = {}
  BY <1>1, ControlTypes
<1>3. Stale' \in Nat
  BY <1>1, <1>2 DEF Stale
<1>4. HomesKept
  BY <1>1 DEF HomesKept
<1>5. /\ Script \in Context /\ Script.base = 1 /\ top \in 1 .. Len(blocks)
      /\ ContextFits(1, Script, top)
  <2>1. CASE frames = <<>>
    <3>1. Len(frames) = 0 /\ Script = cur
      BY <2>1 DEF Script, InFunction
    <3>2. ContextFits(1, cur, Len(blocks))
      BY <1>1, <3>1 DEF Layout
    <3> QED
      BY <1>1, <1>2, <3>1, <3>2, ControlTypes DEF IInv, StackShape
  <2>2. CASE frames # <<>>
    <3>1. /\ Script = frames[1] /\ 1 \in DOMAIN frames /\ Len(frames) \in Nat \ {0}
          /\ DOMAIN frames = 1 .. Len(frames) /\ frames \in Seq(Context)
      BY <1>1, <2>2, ControlTypes DEF Script, InFunction
    <3>2. top = CallerTop(1)
      BY <3>1 DEF CallerTop
    <3>3. /\ frames[1].base \in 1 .. cur.base - 1
          /\ CallerTop(1) \in frames[1].base .. cur.base - 1
      BY <1>1, <3>1, CallerFacts
    <3>4. cur.base \in 1 .. Len(blocks)
      BY <1>1, ControlTypes
    <3>5. top \in 1 .. Len(blocks)
      BY <1>2, <3>2, <3>3, <3>4
    <3>6. frames[1] \in Context
      BY <3>1
    <3>7. Script.base = 1 /\ ContextFits(1, frames[1], CallerTop(1))
      BY <1>1, <3>1 DEF IInv, StackShape, Layout
    <3> HIDE DEF top
    <3> QED
      BY <3>1, <3>2, <3>5, <3>6, <3>7
  <2> QED
    BY <2>1, <2>2
<1> HIDE DEF top
<1>6. /\ cur'.base = 1 /\ cur'.window = Script.window /\ cur'.scopeStart = Script.scopeStart
      /\ cur'.nextReg = IF top > 1 THEN Script.scopeStart ELSE Script.nextReg
  BY <1>1, <1>5 DEF Context
<1>7. /\ Script.scopeStart \in Nat /\ Script.nextReg \in Nat /\ top \in Nat
      /\ blocks[1].start \in Nat /\ blocks[top].start \in Nat
      /\ \A v \in blocks[1].vars : home[v] \in Nat
  <2>1. Script.scopeStart \in Nat /\ Script.nextReg \in Nat /\ top \in Nat
    BY <1>5, ConstantsAssumption DEF Context
  <2> QED
    BY <1>1, <1>2, <1>5, <2>1, Numbers
<1>8. /\ blocks[1].start <= Script.scopeStart
      /\ cur'.scopeStart <= cur'.nextReg
      /\ \A v \in blocks[1].vars : home[v] < cur'.nextReg
  <2>1. blocks[top].start <= Script.scopeStart /\ Script.scopeStart <= Script.nextReg
    BY <1>5 DEF ContextFits
  <2>2. CASE top > 1
    <3>1. top \in DOMAIN blocks /\ 1 < top
      BY <1>2, <1>5, <2>2
    <3>2. /\ blocks[1].start <= blocks[top].start
          /\ \A v \in blocks[1].vars : home[v] < blocks[top].start
      BY <1>1, <1>2, <3>1 DEF BlocksNest
    <3> QED
      BY <1>6, <1>7, <2>1, <2>2, <3>2
  <2>3. CASE ~(top > 1)
    <3>1. top = 1
      BY <1>5, <2>3
    <3> QED
      BY <1>5, <1>6, <2>1, <3>1 DEF ContextFits
  <2> QED
    BY <2>2, <2>3
<1>9. Layout'
  <2>1. blocks[1].start = Script.window
    BY <1>5 DEF ContextFits
  <2>2. ContextFits(Len(frames) + 1, cur, Len(blocks))'
    BY <1>2, <1>6, <1>8, <1>1, <2>1 DEF ContextFits
  <2> QED
    BY <1>2, <2>2 DEF Layout
<1>10. BlocksNest'
  <2>1. \A v, w \in blocks[1].vars : /\ blocks[1].start <= home[v]
                                     /\ v # w => home[v] # home[w]
    BY <1>1, <1>2 DEF BlocksNest
  <2> QED
    BY <1>1, <1>2, <2>1 DEF BlocksNest
<1>11. \A v : v \in Live' => v \in blocks[1].vars
  BY <1>2 DEF Live, DeclaredIn
<1>12. GlobalsUncaptured' /\ NeverClosedEarly' /\ OneCellPerVariable'
  <2>1. \A v \in Held : v \notin Live'
    BY <1>11 DEF VInv, GlobalsUncaptured
  <2> QED
    BY <1>1, <1>2, <1>4, <2>1, ClosuresSame, CapturesKept
<1> QED
  BY <1>9, <1>10, <1>12 DEF VInv

(* OP_CAPTURE_LOCAL: a variable captured before is found in its cell.      *)
LEMMA CaptureLocalVars ==
  ASSUME VInv, IInv', NEW v \in Capturable, CaptureLocal(v)
  PROVE  VInv'
<1>1. IInv /\ CaptureValue(home[v], v) /\ pending > 0 /\ UNCHANGED <<control, home>>
  BY DEF CaptureLocal, VInv
<1>2. PICK k \in (cur.base .. Len(blocks)) \ {1} : v \in blocks[k].vars
  BY DEF Capturable, DeclaredIn
<1>3. k \in 1 .. Len(blocks) /\ 1 \in DOMAIN blocks /\ k \in DOMAIN blocks /\ 1 < k
  BY <1>1, ControlTypes
<1>4. v \in Live /\ v \in DOMAIN home /\ home[v] \in Addr
  BY <1>1, <1>2, <1>3, LiveFacts, Numbers, ControlTypes
<1>5. v \notin blocks[1].vars
  <2> SUFFICES ASSUME v \in blocks[1].vars PROVE FALSE
    OBVIOUS
  <2>1. home[v] < blocks[k].start /\ blocks[k].start <= home[v]
    BY <1>2, <1>3 DEF VInv, BlocksNest
  <2>2. home[v] \in Nat /\ blocks[k].start \in Nat
    BY <1>1, <1>3, <1>4, Numbers
  <2> QED
    BY <2>1, <2>2
<1>6. PICK c : /\ AddCell(c, v) /\ cells'[c].loc = home[v]
               /\ \A d \in DOMAIN cells : /\ cells'[d] = cells[d]
                                          /\ cells[d].loc = home[v] => d = c
  BY <1>1, <1>4, CaptureFinds
<1>7. ASSUME NEW kp \in Captures, CapturedVar(kp) = v
      PROVE  CapturedCell(kp) = c
  <2>1. CapturedCell(kp) \in DOMAIN cells
    BY <1>1, CaptureFacts
  <2>2. cells[CapturedCell(kp)].loc = home[v]
    BY <1>4, <1>7 DEF VInv, NeverClosedEarly
  <2> QED
    BY <1>6, <2>1, <2>2
<1> QED
  BY <1>1, <1>5, <1>6, <1>7, CaptureKept

(* OP_CAPTURE_CELL: the new closure shares the cell of the running one.    *)
LEMMA CaptureCellVars ==
  ASSUME VInv, IInv', NEW j \in DOMAIN OwnCells, CaptureCell(j)
  PROVE  VInv'
<1> DEFINE own == closures[cur.closure]
<1>1. /\ IInv /\ pending > 0 /\ UNCHANGED <<control, home>> /\ cells' = cells
      /\ AddCell(OwnCells[j], own.vars[j])
  BY DEF CaptureCell, VInv, memory
<1>2. cur.closure \in DOMAIN closures /\ OwnCells = own.cells
  <2>1. InFunction /\ cur.closure # 0
    BY DEF OwnCells
  <2>2. cur.closure \in 0 .. Len(closures) /\ closures \in Seq(Closure)
    BY <1>1 DEF IInv, TypeOK, Context
  <2>3. OwnCells = own.cells
    BY <2>1 DEF OwnCells
  <2> QED
    BY <2>1, <2>2, <2>3
<1>3. PICK kp : kp = <<cur.closure, j>>
  OBVIOUS
<1>4. kp \in Captures /\ CapturedVar(kp) = own.vars[j] /\ CapturedCell(kp) = OwnCells[j]
  <2>1. DOMAIN own.vars = DOMAIN own.cells
    <3>1. /\ own.cells \in Seq(DOMAIN cells) /\ own.vars \in Seq(DOMAIN home)
          /\ Len(own.cells) = Len(own.vars)
      BY <1>1, <1>2, ElementTypes DEF IInv, ClosureShape
    <3> HIDE DEF own
    <3> QED
      BY <3>1
  <2> QED
    BY <1>2, <1>3, <2>1 DEF Captures, CapturedVar, CapturedCell
<1> HIDE DEF own
<1>5. own.vars[j] \notin blocks[1].vars
  BY <1>1, <1>4, CaptureFacts DEF VInv, GlobalsUncaptured
<1>6. own.vars[j] \in Live => cells'[OwnCells[j]].loc = home[own.vars[j]]
  BY <1>1, <1>4 DEF VInv, NeverClosedEarly
<1>7. \A lq \in Captures : CapturedVar(lq) = own.vars[j] => CapturedCell(lq) = OwnCells[j]
  BY <1>4 DEF VInv, OneCellPerVariable
<1> QED
  BY <1>1, <1>5, <1>6, <1>7, CaptureKept

(* The machine starts with no variable and no capture.                     *)
LEMMA InitVInv == Init => VInv
<1> SUFFICES ASSUME Init PROVE VInv
  OBVIOUS
<1>1. IInv
  BY InitIInv
<1>2. BlocksNest /\ Layout
  BY DEF Init, BlocksNest, Layout, ContextFits
<1>3. Captures = {}
  BY DEF Init, Captures
<1> QED
  BY <1>1, <1>2, <1>3 DEF VInv, GlobalsUncaptured, Held, NeverClosedEarly, OneCellPerVariable

(* Every step keeps the invariant.                                         *)
LEMMA NextVInv == VInv /\ [Next]_vars => VInv'
<1> SUFFICES ASSUME VInv, [Next]_vars PROVE VInv'
  OBVIOUS
<1>1. IInv /\ IInv'
  BY NextIInv DEF VInv
<1>2. CASE \E x \in Vals : Declare(x) \/ EnterFor(x) \/ UpdateIter(x)
  BY <1>1, <1>2, DeclareVars, EnterForVars, UpdateIterVars
<1>3. CASE \/ \E v \in Visible : GetLocal(v)
           \/ \E v \in Visible, x \in Vals : SetLocal(v, x)
           \/ CallTooDeep
           \/ UNCHANGED vars
  <2>1. UNCHANGED <<control, home, cells, closures>>
    BY <1>3 DEF GetLocal, SetLocal, CallTooDeep, memory, control, vars
  <2> QED
    BY <1>1, <2>1, ClosuresSame, QuietStep
<1>4. CASE \E j \in DOMAIN OwnCells : GetCell(OwnCells[j])
  <2>1. UNCHANGED <<control, home, cells, closures>>
    BY <1>4 DEF GetCell, memory
  <2> QED
    BY <1>1, <2>1, ClosuresSame, QuietStep
<1>5. CASE \E j \in DOMAIN OwnCells, x \in Vals : SetCell(OwnCells[j], x)
  <2>1. PICK c \in DOMAIN cells, x \in Vals : SetCell(c, x)
    BY <1>1, <1>5, NamesFacts
  <2>2. UNCHANGED <<control, home, closures>>
    BY <2>1 DEF SetCell
  <2>3. \A d \in DOMAIN cells : cells'[d].loc = cells[d].loc
    <3>1. cells[c] \in Cell
      BY <1>1 DEF IInv, TypeOK
    <3> QED
      BY <2>1, <3>1 DEF SetCell, Cell
  <2> QED
    BY <1>1, <2>2, <2>3, ClosuresSame, QuietStep
<1>6. CASE \E n \in 1 .. MaxCaptures : MakeClosure(n)
  <2>1. UNCHANGED <<control, home, cells>>
    BY <1>6 DEF MakeClosure, memory
  <2> QED
    BY <1>1, <1>6, <2>1, MakeClosureCaptures, QuietStep
<1>7. CASE \E v \in Capturable : CaptureLocal(v)
  BY <1>1, <1>7, CaptureLocalVars
<1>8. CASE \E j \in DOMAIN OwnCells : CaptureCell(j)
  BY <1>1, <1>8, CaptureCellVars
<1>9. CASE \E c \in 0 .. Len(closures), args \in {<<>>} \cup {<<x>> : x \in Vals} : Call(c, args)
  BY <1>1, <1>9, CallVars
<1>10. CASE Return \/ FallOff
  <2>1. PICK file \in [Addr -> Values] : OpReturn(file)
    BY <1>1, <1>10, EndsOfFunctions
  <2> QED
    BY <1>1, <2>1, ReturnVars
<1>11. CASE EnterScope
  BY <1>1, <1>11, EnterScopeVars
<1>12. CASE ExitScope
  BY <1>1, <1>12, ExitScopeVars
<1>13. CASE \E k \in DOMAIN blocks : Leave(k)
  BY <1>1, <1>13, LeaveVars
<1>14. CASE Error \/ EndLine
  <2>1. ClearVM
    BY <1>14 DEF Error, EndLine
  <2> QED
    BY <1>1, <2>1, ClearVars
<1> QED
  BY <1>2, <1>3, <1>4, <1>5, <1>6, <1>7, <1>8, <1>9, <1>10, <1>11, <1>12, <1>13, <1>14
     DEF Next

-----------------------------------------------------------------------------
(* Where variables live.                                                   *)

(* The layout keeps the registers of live variables apart.                 *)
LEMMA LiveDisjoint == VInv => RegistersDisjoint
<1> SUFFICES ASSUME VInv, NEW v \in Live, NEW w \in Live
             PROVE  home[v] < cur.nextReg /\ (v # w => home[v] # home[w])
  BY DEF RegistersDisjoint
<1>1. PICK k \in 1 .. Len(blocks) : v \in blocks[k].vars
  BY LiveFacts DEF VInv
<1>2. PICK l \in 1 .. Len(blocks) : w \in blocks[l].vars
  BY LiveFacts DEF VInv
<1>3. home[v] < cur.nextReg
  BY <1>1, RunningFacts DEF VInv
<1>4. /\ k \in DOMAIN blocks /\ l \in DOMAIN blocks
      /\ home[v] \in Nat /\ home[w] \in Nat
      /\ blocks[k].start \in Nat /\ blocks[l].start \in Nat
  BY <1>1, <1>2, Numbers, ControlTypes DEF VInv
<1>5. CASE k = l
  BY <1>1, <1>2, <1>3, <1>4, <1>5 DEF VInv, BlocksNest
<1>6. CASE k < l
  <2>1. home[v] < blocks[l].start /\ blocks[l].start <= home[w]
    BY <1>1, <1>2, <1>4, <1>6 DEF VInv, BlocksNest
  <2> QED
    BY <1>3, <1>4, <2>1
<1>7. CASE l < k
  <2>1. home[w] < blocks[k].start /\ blocks[k].start <= home[v]
    BY <1>1, <1>2, <1>4, <1>7 DEF VInv, BlocksNest
  <2> QED
    BY <1>3, <1>4, <2>1
<1> QED
  BY <1>5, <1>6, <1>7

(* The invariant holds in every execution, whatever early exits are taken. *)
THEOREM VariablesLaidOut == Spec => []VInv
<1>1. Init => VInv
  BY InitVInv
<1>2. VInv /\ [Next]_vars => VInv'
  BY NextVInv
<1> QED
  BY <1>1, <1>2, PTL DEF Spec

(* No two variables in scope share a register, and the registers from      *)
(* nextReg on, where temporaries and callees go, hold none: popScope may   *)
(* free the registers from the last pushed scope's start only, and break   *)
(* and continue may leave entries of scopeStarts behind.                   *)
THEOREM RegistersNeverShared == Spec => []RegistersDisjoint
BY LiveDisjoint, VariablesLaidOut, PTL

(* A captured variable that is still in scope is reached through its own   *)
(* register: no exit, iteration, return or error closes its cell early.    *)
THEOREM CellsStayOpen == Spec => []NeverClosedEarly
<1>1. VInv => NeverClosedEarly
  BY DEF VInv
<1> QED
  BY <1>1, VariablesLaidOut, PTL

(* All the closures that capture a variable, at whatever time and through  *)
(* whatever other closures, share one cell.                                *)
THEOREM CellsShared == Spec => []OneCellPerVariable
<1>1. VInv => OneCellPerVariable
  BY DEF VInv
<1> QED
  BY <1>1, VariablesLaidOut, PTL

-----------------------------------------------------------------------------
(* Programs without early exits: every scope start is popped by the exit   *)
(* of the block that pushed it, so the machine implements the abstract     *)
(* variables of CapturedVariables.                                         *)

(* The inner blocks of the i-th context c have their entries in place.     *)
EntriesExact(i, c, top) ==
  \A k \in c.base + 1 .. top : scopeStarts[k - i] = blocks[k].start

(* Nothing is left in scopeStarts but the entries of the open blocks, each *)
(* caller's below those of the functions it called, and a callee's window  *)
(* starts right after its caller's next register.                          *)
Structured ==
  /\ Stale = 0
  /\ EntriesExact(Len(frames) + 1, cur, Len(blocks))
  /\ \A i \in DOMAIN frames :
       /\ EntriesExact(i, frames[i], CallerTop(i))
       /\ CallerTop(i) - i <= cur.base - (Len(frames) + 1)
       /\ \A j \in DOMAIN frames : i < j => CallerTop(i) - i <= frames[j].base - j
       /\ (IF i = Len(frames) THEN cur.window ELSE frames[i + 1].window) = frames[i].nextReg + 1

(* An open cell is the cell of a variable that is still in scope, and no   *)
(* two variables share a cell.                                             *)
CellsOwned ==
  /\ \A c \in DOMAIN cells : cells[c].loc # Closed =>
       \E kp \in Captures : CapturedCell(kp) = c /\ CapturedVar(kp) \in Live
  /\ \A kp, lq \in Captures :
       CapturedCell(kp) = CapturedCell(lq) => CapturedVar(kp) = CapturedVar(lq)

SInv ==
  /\ Leaves = {}
  /\ VInv /\ Structured /\ CellsOwned
  /\ Len(home) <= MaxVars

-----------------------------------------------------------------------------
(* The stack of scope starts.                                              *)

(* A step of the running function that opens a block or leaves one, with   *)
(* the entry that goes with it.                                            *)
LEMMA EntriesKept ==
  ASSUME SInv, frames' = frames, cur'.base = cur.base, cur'.window = cur.window,
         NEW m \in cur.base .. Len(blocks) + 1, Len(blocks') = m,
         \A k \in 1 .. m : blocks'[k].start =
           IF k <= Len(blocks) THEN blocks[k].start ELSE cur.nextReg,
         Stale' = 0, scopeStarts' \in Seq(Addr),
         \A j \in DOMAIN scopeStarts' : scopeStarts'[j] =
           IF j <= Len(scopeStarts) THEN scopeStarts[j] ELSE cur.nextReg
  PROVE  Structured'
<1> DEFINE f == Len(frames)
<1>1. /\ IInv /\ f \in Nat /\ Len(blocks) \in Nat /\ cur.base \in 1 .. Len(blocks) /\ cur.base > f
      /\ DOMAIN frames = 1 .. f /\ Len(scopeStarts) \in Nat /\ m \in Nat
  BY ControlTypes DEF SInv, VInv
<1>2. Len(scopeStarts) = Len(blocks) - f - 1
  BY <1>1 DEF SInv, Structured, Stale
<1>3. DOMAIN scopeStarts' = 1 .. m - f - 1
  <2>1. Len(scopeStarts') \in Nat /\ DOMAIN scopeStarts' = 1 .. Len(scopeStarts')
    OBVIOUS
  <2>2. Len(scopeStarts') + f + 1 - m = 0
    BY DEF Stale
  <2> QED
    BY <1>1, <2>1, <2>2
<1>4. /\ EntriesExact(f + 1, cur, Len(blocks))
      /\ \A i \in DOMAIN frames :
           /\ EntriesExact(i, frames[i], CallerTop(i))
           /\ CallerTop(i) - i <= cur.base - (f + 1)
  BY DEF SInv, Structured
<1>5. ASSUME NEW k \in cur.base + 1 .. m
      PROVE  scopeStarts'[k - (f + 1)] = blocks'[k].start
  <2>1. k \in 1 .. m /\ k - (f + 1) \in DOMAIN scopeStarts' /\ k \in Nat
    BY <1>1, <1>3
  <2>2. CASE k <= Len(blocks)
    <3>1. k - (f + 1) <= Len(scopeStarts) /\ k \in cur.base + 1 .. Len(blocks)
      BY <1>1, <1>2, <2>1, <2>2
    <3> QED
      BY <1>4, <2>1, <2>2, <3>1 DEF EntriesExact
  <2>3. CASE ~(k <= Len(blocks))
    <3>1. ~(k - (f + 1) <= Len(scopeStarts))
      BY <1>1, <1>2, <2>1, <2>3
    <3> QED
      BY <2>1, <2>3, <3>1
  <2> QED
    BY <2>2, <2>3
<1>6. ASSUME NEW i \in DOMAIN frames, NEW k \in frames[i].base + 1 .. CallerTop(i)
      PROVE  scopeStarts'[k - i] = blocks'[k].start
  <2>1. /\ i \in 1 .. f /\ frames[i].base \in 1 .. cur.base - 1
        /\ CallerTop(i) \in frames[i].base .. cur.base - 1
        /\ frames[i].base >= i
    BY <1>1, CallerFacts DEF IInv, StackShape
  <2>2. /\ k \in Int /\ i + 1 <= k /\ k <= cur.base - 1 /\ k - i <= cur.base - (f + 1)
        /\ cur.base <= m /\ cur.base <= Len(blocks)
    <3>1. CallerTop(i) - i <= cur.base - (f + 1)
      BY <1>4
    <3>2. /\ frames[i].base \in Nat /\ cur.base \in Nat /\ cur.base <= Len(blocks)
          /\ Len(blocks) \in Nat /\ f \in Nat /\ i \in Nat
      BY <1>1, <2>1
    <3> HIDE DEF f
    <3>3. CallerTop(i) \in Int /\ CallerTop(i) <= cur.base - 1 /\ frames[i].base >= i
      BY ONLY <2>1, <3>2
    <3>4. k \in Int /\ frames[i].base + 1 <= k /\ k <= CallerTop(i)
      BY ONLY k \in frames[i].base + 1 .. CallerTop(i), <3>2, <3>3
    <3>5. i + 1 <= k /\ k <= cur.base - 1
      BY ONLY <3>2, <3>3, <3>4
    <3>6. k - i <= cur.base - (f + 1)
      BY ONLY <3>1, <3>2, <3>3, <3>4
    <3>7. cur.base <= m
      BY ONLY m \in cur.base .. Len(blocks) + 1, <3>2
    <3> QED
      BY <3>2, <3>4, <3>5, <3>6, <3>7
  <2>3. /\ k \in 1 .. m /\ k <= Len(blocks) /\ k - i \in 1 .. m - f - 1
        /\ k - i <= Len(scopeStarts)
    <3>1. i \in Nat /\ i >= 1
      BY <1>1, <2>1
    <3>2. f \in Nat /\ m \in Nat /\ Len(blocks) \in Nat /\ cur.base \in Nat
      BY <1>1
    <3> HIDE DEF f
    <3>3. k \in 1 .. m /\ k <= Len(blocks)
      BY ONLY <2>2, <3>1, <3>2
    <3>4. k - i \in 1 .. m - f - 1
      BY ONLY <2>2, <3>1, <3>2
    <3>5. k - i <= Len(scopeStarts)
      BY ONLY <1>2, <2>2, <3>1, <3>2
    <3> QED
      BY <3>3, <3>4, <3>5
  <2> QED
    BY <1>3, <1>4, <2>3 DEF EntriesExact
<1>7. \A i \in DOMAIN frames : CallerTop(i)' = CallerTop(i)
  BY DEF CallerTop
<1> QED
  BY <1>5, <1>6, <1>7 DEF Structured, EntriesExact, SInv

(* A declaration, a new block and a new iteration, and the end of a block. *)
LEMMA BlockStructured ==
  ASSUME SInv, VInv',
         (\E x \in Vals : Declare(x) \/ EnterFor(x) \/ UpdateIter(x)) \/ EnterScope \/ ExitScope
  PROVE  Structured'
<1> DEFINE n == Len(blocks)
           s == Len(scopeStarts)
<1>1. /\ IInv /\ n \in Nat \ {0} /\ DOMAIN blocks = 1 .. n /\ cur.base \in 1 .. n
      /\ blocks \in Seq(BlockRecord) /\ cur \in Context
      /\ scopeStarts \in Seq(Addr) /\ s \in Nat /\ DOMAIN scopeStarts = 1 .. s
      /\ Len(frames) \in Nat /\ s + Len(frames) + 1 - n = 0
      /\ blocks' \in Seq(BlockRecord') /\ scopeStarts' \in Seq(Addr)
  BY ControlTypes, Numbers DEF SInv, VInv, Structured, Stale, IInv, TypeOK
<1>2. CASE \E x \in Vals : Declare(x) \/ UpdateIter(x)
  <2>1. /\ frames' = frames /\ scopeStarts' = scopeStarts
        /\ cur'.base = cur.base /\ cur'.window = cur.window
    BY <1>1, <1>2 DEF Declare, UpdateIter, Context
  <2>2. PICK V : blocks' = [blocks EXCEPT ![n].vars = V]
    BY <1>2 DEF Declare, UpdateIter
  <2>3. Len(blocks') = n /\ \A k \in 1 .. n : blocks'[k].start = blocks[k].start
    <3>1. DOMAIN blocks' = 1 .. n
      BY <1>1, <2>2
    <3>2. \A k \in 1 .. n : blocks[k] \in BlockRecord
      BY <1>1
    <3>3. Len(blocks') = n
      BY <1>1, <3>1
    <3> QED
      BY <1>1, <2>2, <3>2, <3>3 DEF BlockRecord
  <2>4. Stale' = 0
    BY <1>1, <2>1, <2>3 DEF Stale
  <2>5. n \in cur.base .. Len(blocks) + 1 /\ \A k \in 1 .. n : k <= Len(blocks)
        /\ \A j \in DOMAIN scopeStarts' : j <= Len(scopeStarts)
    BY <1>1, <2>1
  <2> HIDE DEF n
  <2> QED
    BY <1>1, <2>1, <2>3, <2>4, <2>5, EntriesKept
<1>3. CASE (\E x \in Vals : EnterFor(x)) \/ EnterScope
  <2>1. /\ frames' = frames /\ scopeStarts' = Append(scopeStarts, cur.nextReg)
        /\ cur'.base = cur.base /\ cur'.window = cur.window
    BY <1>1, <1>3 DEF EnterFor, EnterScope, PushScope, Context
  <2>2. PICK b : b.start = cur.nextReg /\ blocks' = Append(blocks, b)
    BY <1>3 DEF EnterFor, EnterScope
  <2>3. /\ Len(blocks') = n + 1 /\ blocks'[n + 1] = b
        /\ \A k \in 1 .. n : blocks'[k] = blocks[k]
    <3>1. blocks \in Seq(BlockRecord \cup {b})
      BY <1>1, SeqMonotonic
    <3> QED
      BY <2>2, <3>1, AppendProperties
  <2>4. /\ Len(scopeStarts') = s + 1 /\ scopeStarts'[s + 1] = cur.nextReg
        /\ \A j \in 1 .. s : scopeStarts'[j] = scopeStarts[j]
    <3>1. scopeStarts \in Seq(Addr \cup {cur.nextReg})
      BY <1>1, SeqMonotonic
    <3> QED
      BY <2>1, <3>1, AppendProperties
  <2>5. Stale' = 0
    <3>1. Stale' = (s + 1) + Len(frames) + 1 - (n + 1)
      BY <2>1, <2>3, <2>4 DEF Stale
    <3> HIDE DEF s, n
    <3> QED
      BY <1>1, <3>1
  <2>6. \A k \in 1 .. n + 1 : blocks'[k].start = IF k <= n THEN blocks[k].start ELSE cur.nextReg
    <3> TAKE k \in 1 .. n + 1
    <3>1. k <= n => k \in 1 .. n
      OBVIOUS
    <3>2. ~(k <= n) => k = n + 1
      BY <1>1
    <3> QED
      BY <2>2, <2>3, <3>1, <3>2
  <2>7. \A j \in DOMAIN scopeStarts' :
           scopeStarts'[j] = IF j <= s THEN scopeStarts[j] ELSE cur.nextReg
    <3> TAKE j \in DOMAIN scopeStarts'
    <3>1. j \in 1 .. s + 1
      BY <1>1, <2>4
    <3>2. (j <= s => j \in 1 .. s) /\ (~(j <= s) => j = s + 1)
      BY <1>1, <3>1
    <3> QED
      BY <2>4, <3>2
  <2>8. n + 1 \in cur.base .. Len(blocks) + 1
    BY <1>1
  <2> QED
    BY <1>1, <2>1, <2>3, <2>5, <2>6, <2>7, <2>8, EntriesKept
<1>4. CASE ExitScope
  <2>1. /\ frames' = frames /\ scopeStarts' = Front(scopeStarts)
        /\ cur'.base = cur.base /\ cur'.window = cur.window
        /\ blocks' = SubSeq(blocks, 1, n - 1) /\ n > cur.base
    BY <1>1, <1>4 DEF ExitScope, Front, Context
  <2>2. n - 1 \in 1 .. n /\ n - 1 \in cur.base .. n + 1 /\ n - 1 \in 0 .. Len(blocks)
    BY <1>1, <2>1
  <2>3. Len(blocks') = n - 1 /\ \A k \in 1 .. n - 1 : blocks'[k] = blocks[k]
    BY <1>1, <2>1, <2>2, PrefixFacts
  <2>4. scopeStarts # <<>>
    BY <1>1, <2>1, EntryToPop
  <2>5. /\ Len(scopeStarts') = s - 1
        /\ \A j \in 1 .. s - 1 : scopeStarts'[j] = scopeStarts[j]
    BY <1>1, <2>1, <2>4, FrontFacts
  <2>6. Stale' = 0
    <3>1. Stale' = (s - 1) + Len(frames) + 1 - (n - 1)
      BY <2>1, <2>3, <2>5 DEF Stale
    <3> HIDE DEF s, n
    <3> QED
      BY <1>1, <3>1
  <2>7. \A k \in 1 .. n - 1 : k <= Len(blocks)
    BY <1>1
  <2>8. \A j \in DOMAIN scopeStarts' : j <= s /\ scopeStarts'[j] = scopeStarts[j]
    <3>1. DOMAIN scopeStarts' = 1 .. s - 1
      BY <1>1, <2>5
    <3> QED
      BY <1>1, <2>5, <3>1
  <2> QED
    BY <1>1, <2>1, <2>2, <2>3, <2>6, <2>7, <2>8, EntriesKept
<1> QED
  BY <1>2, <1>3, <1>4

(* A call: the new context has no entries yet.                             *)
LEMMA CallStructured ==
  ASSUME SInv, NEW c, NEW args \in {<<>>} \cup {<<x>> : x \in Vals}, Call(c, args)
  PROVE  Structured'
<1> DEFINE n == Len(blocks)
           f == Len(frames)
<1>1. /\ IInv /\ n \in Nat /\ f \in Nat /\ DOMAIN blocks = 1 .. n /\ DOMAIN frames = 1 .. f
      /\ cur.base \in 1 .. n /\ Len(scopeStarts) \in Nat
      /\ Len(scopeStarts) + f + 1 - n = 0
      /\ blocks \in Seq(BlockRecord) /\ frames \in Seq(Context)
  BY ControlTypes DEF SInv, VInv, Structured, Stale, IInv, TypeOK
<1>2. /\ frames' = Append(frames, cur) /\ scopeStarts' = scopeStarts
      /\ cur'.base = n + 1 /\ cur'.window = cur.nextReg + 1
  BY DEF Call
<1>3. PICK b : blocks' = Append(blocks, b)
  BY DEF Call
<1>4. Len(blocks') = n + 1 /\ \A k \in 1 .. n : blocks'[k] = blocks[k]
  <2>1. blocks \in Seq(BlockRecord \cup {b})
    BY <1>1, SeqMonotonic
  <2> QED
    BY <1>3, <2>1, AppendProperties
<1>5. /\ Len(frames') = f + 1 /\ DOMAIN frames' = 1 .. f + 1 /\ frames'[f + 1] = cur
      /\ \A i \in 1 .. f : frames'[i] = frames[i]
  BY <1>1, <1>2, ControlTypes, AppendProperties
<1>6. Stale' = 0
  <2>1. Stale' = Len(scopeStarts) + (f + 1) + 1 - (n + 1)
    BY <1>2, <1>4, <1>5 DEF Stale
  <2> HIDE DEF n, f
  <2> QED
    BY <1>1, <2>1
<1>7. /\ EntriesExact(f + 1, cur, n)
      /\ \A i \in 1 .. f :
           /\ EntriesExact(i, frames[i], CallerTop(i))
           /\ CallerTop(i) - i <= cur.base - (f + 1)
           /\ CallerTop(i) \in frames[i].base .. cur.base - 1
           /\ frames[i].base \in Nat /\ frames[i].base > 0
           /\ \A j \in 1 .. f : i < j => CallerTop(i) - i <= frames[j].base - j
           /\ (IF i = f THEN cur.window ELSE frames[i + 1].window) = frames[i].nextReg + 1
  <2>1. \A i \in 1 .. f : /\ CallerTop(i) \in frames[i].base .. cur.base - 1
                          /\ frames[i].base \in 1 .. cur.base - 1
    BY <1>1, CallerFacts
  <2>2. \A i \in 1 .. f : frames[i].base \in Nat /\ frames[i].base > 0
    BY <1>1, <2>1
  <2>3. EntriesExact(f + 1, cur, n)
    BY DEF SInv, Structured
  <2>4. \A i \in 1 .. f :
           /\ EntriesExact(i, frames[i], CallerTop(i))
           /\ CallerTop(i) - i <= cur.base - (f + 1)
           /\ \A j \in 1 .. f : i < j => CallerTop(i) - i <= frames[j].base - j
           /\ (IF i = f THEN cur.window ELSE frames[i + 1].window) = frames[i].nextReg + 1
    BY <1>1 DEF SInv, Structured
  <2> QED
    BY <2>1, <2>2, <2>3, <2>4
<1> n = Len(blocks) /\ f = Len(frames)
  OBVIOUS
<1> HIDE DEF n, f
<1>8. /\ \A i : i = f + 1 => CallerTop(i)' = n
      /\ \A i \in 1 .. f : CallerTop(i)' = CallerTop(i)
  <2>1. ASSUME NEW i, i = f + 1 PROVE CallerTop(i)' = n
    <3>1. cur'.base - 1 = n
      BY <1>1, <1>2
    <3> QED
      BY <1>5, <2>1, <3>1 DEF CallerTop
  <2>2. ASSUME NEW i \in 1 .. f PROVE CallerTop(i)' = CallerTop(i)
    <3>1. i # f + 1 /\ i \in Nat
      BY <1>1
    <3>2. i = f => frames'[i + 1] = cur
      BY <1>5
    <3>3. i # f => i + 1 \in 1 .. f
      <4>1. f \in Nat
        BY <1>1
      <4> QED
        BY ONLY <4>1, i \in 1 .. f
    <3> QED
      BY <1>5, <3>1, <3>2, <3>3 DEF CallerTop
  <2> QED
    BY <2>1, <2>2
<1>9. EntriesExact(Len(frames) + 1, cur, Len(blocks))'
  <2>1. cur'.base + 1 .. Len(blocks') = {}
    BY <1>1, <1>2, <1>4
  <2> QED
    BY <2>1 DEF EntriesExact
<1>10. \A i \in 1 .. f + 1 : i = f + 1 \/ i \in 1 .. f
  BY <1>1
<1>11. ASSUME NEW i \in 1 .. f + 1
       PROVE  EntriesExact(i, frames[i], CallerTop(i))'
  <2>1. CASE i = f + 1
    <3>1. frames'[i] = cur /\ CallerTop(i)' = n
      BY <1>5, <1>8, <2>1
    <3>2. \A k \in cur.base + 1 .. n : k \in 1 .. n
      BY <1>1
    <3> QED
      BY <1>2, <1>4, <1>7, <2>1, <3>1, <3>2 DEF EntriesExact
  <2>2. CASE i \in 1 .. f
    <3>1. frames'[i] = frames[i] /\ CallerTop(i)' = CallerTop(i)
      BY <1>5, <1>8, <2>2
    <3>2. \A k \in frames[i].base + 1 .. CallerTop(i) : k \in 1 .. n
      <4>1. CallerTop(i) \in frames[i].base .. cur.base - 1 /\ frames[i].base \in Nat
        BY <1>7, <2>2
      <4>2. n \in Nat /\ cur.base \in 1 .. n
        BY <1>1
      <4> QED
        BY ONLY <4>1, <4>2
    <3>3. EntriesExact(i, frames[i], CallerTop(i))
      BY <1>7, <2>2
    <3> QED
      BY <1>2, <1>4, <3>1, <3>2, <3>3 DEF EntriesExact
  <2> QED
    BY <1>10, <2>1, <2>2
<1>12. ASSUME NEW i \in 1 .. f + 1
       PROVE  CallerTop(i)' - i <= n + 1 - (f + 1 + 1)
  <2>1. CASE i = f + 1
    <3>1. CallerTop(i)' = n /\ n \in Nat /\ f \in Nat
      BY <1>1, <1>8, <2>1
    <3> QED
      BY ONLY <2>1, <3>1
  <2>2. CASE i \in 1 .. f
    <3>1. /\ CallerTop(i) - i <= cur.base - (f + 1) /\ CallerTop(i)' = CallerTop(i)
          /\ CallerTop(i) \in frames[i].base .. cur.base - 1 /\ frames[i].base \in Nat
      BY <1>7, <1>8, <2>2
    <3> QED
      BY <1>1, <2>2, <3>1
  <2> QED
    BY <1>10, <2>1, <2>2
<1>13. ASSUME NEW i \in 1 .. f + 1, NEW j \in 1 .. f + 1, i < j
       PROVE  CallerTop(i)' - i <= frames'[j].base - j
  <2>1. i \in 1 .. f
    BY <1>1, <1>13
  <2>2. CallerTop(i)' = CallerTop(i)
    BY <1>8, <2>1
  <2>3. CASE j = f + 1
    BY <1>5, <1>7, <2>1, <2>2, <2>3
  <2>4. CASE j \in 1 .. f
    BY <1>5, <1>7, <1>13, <2>1, <2>2, <2>4
  <2> QED
    BY <1>10, <2>3, <2>4
<1>14. ASSUME NEW i \in 1 .. f + 1
       PROVE  (IF i = f + 1 THEN cur'.window ELSE frames'[i + 1].window) = frames'[i].nextReg + 1
  <2>1. CASE i = f + 1
    BY <1>2, <1>5, <2>1
  <2>2. CASE i \in 1 .. f
    <3>1. i # f + 1 /\ (i # f => i + 1 \in 1 .. f)
      BY <1>1, <2>2
    <3>2. frames'[i + 1] = IF i = f THEN cur ELSE frames[i + 1]
      BY <1>5, <3>1
    <3> QED
      BY <1>5, <1>7, <2>2, <3>1, <3>2
  <2> QED
    BY <1>10, <2>1, <2>2
<1>15. /\ Len(frames') = f + 1 /\ DOMAIN frames' = 1 .. f + 1 /\ cur'.base = n + 1
  BY <1>2, <1>5
<1>16. ASSUME NEW i \in DOMAIN frames'
       PROVE  /\ EntriesExact(i, frames[i], CallerTop(i))'
              /\ CallerTop(i)' - i <= cur'.base - (Len(frames') + 1)
              /\ \A j \in DOMAIN frames' : i < j => CallerTop(i)' - i <= frames'[j].base - j
              /\ (IF i = Len(frames') THEN cur'.window ELSE frames'[i + 1].window)
                   = frames'[i].nextReg + 1
  <2>1. i \in 1 .. f + 1
    BY <1>15
  <2>2. CallerTop(i)' - i <= cur'.base - (Len(frames') + 1)
    BY <1>12, <1>15, <2>1
  <2>3. \A j \in DOMAIN frames' : i < j => CallerTop(i)' - i <= frames'[j].base - j
    BY <1>13, <1>15, <2>1
  <2>4. (IF i = Len(frames') THEN cur'.window ELSE frames'[i + 1].window) = frames'[i].nextReg + 1
    BY <1>14, <1>15, <2>1
  <2> QED
    BY <1>11, <2>1, <2>2, <2>3, <2>4
<1> QED
  BY ONLY <1>6, <1>9, <1>16 DEF Structured

(* A return: the caller's entries are the last again.                      *)
LEMMA ReturnStructured ==
  ASSUME SInv, NEW file, OpReturn(file), Len(blocks) = cur.base
  PROVE  Structured'
<1> DEFINE n == Len(blocks)
           f == Len(frames)
           m == cur.base - 1
<1>1. /\ IInv /\ n \in Nat /\ f \in Nat \ {0} /\ DOMAIN blocks = 1 .. n /\ DOMAIN frames = 1 .. f
      /\ cur.base \in 1 .. n /\ Len(scopeStarts) \in Nat
      /\ Len(scopeStarts) + f + 1 - n = 0
      /\ frames \in Seq(Context) /\ blocks \in Seq(BlockRecord)
  <2>1. frames # <<>> /\ frames \in Seq(Context)
    BY DEF OpReturn, InFunction, SInv, VInv, IInv, TypeOK
  <2>2. f \in Nat \ {0}
    BY <2>1
  <2> QED
    BY <2>1, <2>2, ControlTypes DEF SInv, VInv, Structured, Stale, IInv, TypeOK
<1>2. /\ frames' = SubSeq(frames, 1, f - 1) /\ scopeStarts' = scopeStarts
      /\ cur' = frames[f] /\ blocks' = SubSeq(blocks, 1, m) /\ n = cur.base
  BY DEF OpReturn, Last, Front, SInv
<1>3. /\ \A i \in 1 .. f :
           /\ EntriesExact(i, frames[i], CallerTop(i))
           /\ CallerTop(i) \in frames[i].base .. cur.base - 1
           /\ frames[i].base \in 1 .. cur.base - 1
           /\ \A j \in 1 .. f : i < j => CallerTop(i) - i <= frames[j].base - j
           /\ (IF i = f THEN cur.window ELSE frames[i + 1].window) = frames[i].nextReg + 1
      /\ CallerTop(f) = m
  <2>1. \A i \in 1 .. f : /\ CallerTop(i) \in frames[i].base .. cur.base - 1
                          /\ frames[i].base \in 1 .. cur.base - 1
    BY <1>1, CallerFacts
  <2>2. CallerTop(f) = m
    BY DEF CallerTop
  <2> QED
    BY <1>1, <2>1, <2>2 DEF SInv, Structured
<1> n = Len(blocks) /\ f = Len(frames) /\ m = cur.base - 1
  OBVIOUS
<1> HIDE DEF n, f, m
<1>4. f \in 1 .. f /\ m \in 1 .. n /\ m \in 0 .. n /\ f - 1 \in 0 .. f
  <2>1. frames[f].base \in 1 .. cur.base - 1
    <3>1. f \in 1 .. f
      BY <1>1
    <3> QED
      BY <1>3, <3>1
  <2>2. cur.base \in 1 .. n /\ n \in Nat /\ f \in Nat \ {0} /\ m = cur.base - 1
    BY <1>1
  <2>3. cur.base \in Nat /\ cur.base > 1
    BY <2>1, <2>2
  <2>4. PICK b \in Nat : b = cur.base
    BY <2>3
  <2> QED
    BY ONLY <2>2, <2>3, <2>4
<1>5. Len(blocks') = m /\ \A k \in 1 .. m : blocks'[k] = blocks[k]
  <2>1. m \in 0 .. Len(blocks) /\ blocks \in Seq(BlockRecord) /\ blocks' = SubSeq(blocks, 1, m)
    BY <1>1, <1>2, <1>4
  <2> QED
    BY ONLY <2>1, PrefixFacts
<1>6. /\ Len(frames') = f - 1 /\ DOMAIN frames' = 1 .. f - 1
      /\ \A i \in 1 .. f - 1 : frames'[i] = frames[i]
  <2>1. /\ frames' \in Seq(Context) /\ Len(frames') = f - 1
        /\ \A i \in 1 .. f - 1 : frames'[i] = frames[i]
    <3>1. f - 1 \in 0 .. Len(frames) /\ frames \in Seq(Context) /\ frames' = SubSeq(frames, 1, f - 1)
      BY <1>1, <1>2, <1>4
    <3> QED
      BY ONLY <3>1, PrefixFacts
  <2> QED
    BY <2>1
<1>7. Stale' = 0
  <2>1. Stale' = Len(scopeStarts) + (f - 1) + 1 - m
    BY <1>2, <1>5, <1>6 DEF Stale
  <2>2. /\ Len(scopeStarts) \in Nat /\ f \in Nat /\ cur.base \in Nat /\ n = cur.base
        /\ Len(scopeStarts) + f + 1 - n = 0 /\ m = cur.base - 1
    BY <1>1, <1>2
  <2> QED
    BY ONLY <2>1, <2>2
<1>8. \A i \in 1 .. f - 1 : CallerTop(i)' = CallerTop(i) /\ i \in 1 .. f /\ i < f
  <2> TAKE i \in 1 .. f - 1
  <2>1. i # f /\ i \in 1 .. f /\ i < f
    <3>1. f \in Nat
      BY <1>1
    <3> QED
      BY ONLY <3>1, i \in 1 .. f - 1
  <2>2. CASE i = f - 1
    <3>1. i + 1 = f
      BY <1>1, <2>2
    <3> QED
      BY <1>2, <1>6, <2>1, <2>2, <3>1 DEF CallerTop
  <2>3. CASE i # f - 1
    <3>1. i + 1 \in 1 .. f - 1
      <4>1. f \in Nat
        BY <1>1
      <4> QED
        BY ONLY <2>3, <4>1, i \in 1 .. f - 1
    <3> QED
      BY <1>6, <2>1, <2>3, <3>1 DEF CallerTop
  <2> QED
    BY <2>2, <2>3
<1>9. EntriesExact(Len(frames) + 1, cur, Len(blocks))'
  <2>1. Len(frames') + 1 = f
    BY <1>1, <1>6
  <2>2. EntriesExact(f, frames[f], m)
    BY <1>3, <1>4
  <2>3. \A k \in frames[f].base + 1 .. m : k \in 1 .. m
    <3>1. frames[f].base \in 1 .. cur.base - 1
      BY <1>3, <1>4
    <3> QED
      BY <3>1
  <2> QED
    BY <1>2, <1>5, <2>1, <2>2, <2>3 DEF EntriesExact
<1>10. ASSUME NEW i \in 1 .. f - 1
       PROVE  EntriesExact(i, frames[i], CallerTop(i))'
  <2>1. /\ EntriesExact(i, frames[i], CallerTop(i)) /\ frames'[i] = frames[i]
        /\ CallerTop(i)' = CallerTop(i)
    BY <1>3, <1>6, <1>8
  <2>2. \A k \in frames[i].base + 1 .. CallerTop(i) : k \in 1 .. m
    <3>1. frames[i].base \in 1 .. cur.base - 1 /\ CallerTop(i) \in frames[i].base .. cur.base - 1
      BY <1>3, <1>8
    <3> QED
      BY ONLY <3>1, m = cur.base - 1
  <2> QED
    BY <1>2, <1>5, <2>1, <2>2 DEF EntriesExact
<1>11. ASSUME NEW i \in 1 .. f - 1
       PROVE  /\ CallerTop(i)' - i <= cur'.base - (f - 1 + 1)
              /\ \A j \in 1 .. f - 1 : i < j => CallerTop(i)' - i <= frames'[j].base - j
  <2>1. CallerTop(i)' = CallerTop(i) /\ i \in 1 .. f /\ i < f /\ f - 1 + 1 = f
    BY <1>1, <1>8
  <2>2. \A j \in 1 .. f - 1 : j \in 1 .. f /\ frames'[j] = frames[j]
    BY <1>6, <1>8
  <2> QED
    BY <1>2, <1>3, <1>4, <2>1, <2>2
<1>12. ASSUME NEW i \in 1 .. f - 1
       PROVE  (IF i = f - 1 THEN cur'.window ELSE frames'[i + 1].window) = frames'[i].nextReg + 1
  <2>1. i \in 1 .. f /\ i # f
    BY <1>1, <1>8
  <2>2. frames[i + 1].window = frames[i].nextReg + 1
    BY <1>3, <2>1
  <2>3. CASE i = f - 1
    <3>1. i + 1 = f
      BY <1>1, <2>3
    <3> QED
      BY <1>2, <1>6, <2>2, <2>3, <3>1
  <2>4. CASE i # f - 1
    <3>1. i + 1 \in 1 .. f - 1
      BY <1>1, <2>1, <2>4
    <3> QED
      BY <1>6, <2>2, <2>4, <3>1
  <2> QED
    BY <2>3, <2>4
<1>13. Len(frames') = f - 1 /\ DOMAIN frames' = 1 .. f - 1
  BY <1>6
<1> QED
  BY ONLY <1>7, <1>9, <1>10, <1>11, <1>12, <1>13 DEF Structured

(* The end of a line: without early exits no entries are left.             *)
LEMMA EndLineStructured ==
  ASSUME SInv, EndLine
  PROVE  /\ Structured'
         /\ UNCHANGED <<regs, memory, frames, scopeStarts, blocks, closures, home, ret>>
<1>1. /\ IInv /\ frames = <<>> /\ Len(blocks) = 1 /\ ClearVM
      /\ scopeStarts \in Seq(Addr) /\ blocks \in Seq(BlockRecord)
  BY DEF EndLine, InFunction, SInv, VInv, IInv, TypeOK
<1>2. scopeStarts = <<>>
  <2>1. Len(scopeStarts) = 0
    <3>1. Len(scopeStarts) + 0 + 1 - 1 = 0 /\ Len(scopeStarts) \in Nat
      BY <1>1 DEF SInv, Structured, Stale
    <3> QED
      BY <3>1
  <2> QED
    BY <1>1, <2>1
<1>3. blocks = <<blocks[1]>>
  BY <1>1
<1>4. /\ UNCHANGED <<regs, memory, closures, home, ret>>
      /\ scopeStarts' = scopeStarts /\ frames' = frames /\ blocks' = blocks
      /\ cur' = [cur EXCEPT !.closure = cur.closure]
  <2>1. Script = cur /\ ScriptBlocks = 1
    BY <1>1 DEF Script, InFunction, ScriptBlocks
  <2>2. cur' = [cur EXCEPT !.closure = cur.closure, !.nextReg = @]
    BY <1>1, <2>1 DEF ClearVM
  <2>3. cur \in Context
    BY <1>1 DEF IInv, TypeOK
  <2>4. cur' = [cur EXCEPT !.closure = cur.closure]
    BY <2>2, <2>3 DEF Context
  <2> QED
    BY <1>1, <1>2, <1>3, <2>4 DEF ClearVM
<1>5. cur' = cur
  <2>1. cur \in Context
    BY <1>1 DEF IInv, TypeOK
  <2> QED
    BY <1>4, <2>1 DEF Context
<1>6. Structured'
  BY <1>4, <1>5 DEF Structured, EntriesExact, CallerTop, Stale, SInv
<1> QED
  BY <1>4, <1>6

-----------------------------------------------------------------------------
(* Cells and their owners.                                                 *)

(* A variable that goes out of scope leaves no open cell behind.           *)
DeadClosed ==
  \A u \in Live : u \notin Live' =>
    \A c \in DOMAIN cells : cells[c].loc = home[u] => cells'[c].loc = Closed

(* Open cells keep their owners when nothing is captured and no cell is    *)
(* opened.                                                                 *)
LEMMA OwnedKept ==
  ASSUME SInv, CapturesSame, DOMAIN cells' = DOMAIN cells, DeadClosed,
         \A c \in DOMAIN cells : cells'[c].loc # Closed => cells[c].loc # Closed
  PROVE  CellsOwned'
<1>1. ASSUME NEW c \in DOMAIN cells, cells'[c].loc # Closed
      PROVE  \E kp \in Captures' : CapturedCell(kp)' = c /\ CapturedVar(kp)' \in Live'
  <2>1. PICK kp \in Captures : CapturedCell(kp) = c /\ CapturedVar(kp) \in Live
    BY <1>1 DEF SInv, CellsOwned
  <2>2. cells[c].loc = home[CapturedVar(kp)]
    BY <2>1 DEF SInv, VInv, NeverClosedEarly
  <2>3. CapturedVar(kp) \in Live'
    BY <1>1, <2>1, <2>2 DEF DeadClosed
  <2> QED
    BY <2>1, <2>3 DEF CapturesSame
<1>2. \A kp, lq \in Captures' :
         CapturedCell(kp)' = CapturedCell(lq)' => CapturedVar(kp)' = CapturedVar(lq)'
  BY DEF SInv, CellsOwned, CapturesSame
<1> QED
  BY <1>1, <1>2 DEF CellsOwned

(* So they do when v is captured in the cell c that is its own, or new.    *)
LEMMA OwnedCaptured ==
  ASSUME SInv, UNCHANGED blocks, pending > 0, NEW c, NEW v, AddCell(c, v),
         \A d \in DOMAIN cells : cells'[d] = cells[d],
         \/ DOMAIN cells' = DOMAIN cells
         \/ DOMAIN cells' = DOMAIN cells \cup {c} /\ v \in Live,
         \A kp \in Captures : CapturedCell(kp) = c => CapturedVar(kp) = v
  PROVE  CellsOwned'
<1>1. PICK new : /\ Captures' = Captures \cup {new}
                 /\ CapturedVar(new)' = v /\ CapturedCell(new)' = c
                 /\ \A kp \in Captures : /\ CapturedVar(kp)' = CapturedVar(kp)
                                         /\ CapturedCell(kp)' = CapturedCell(kp)
  BY AddCellCaptures DEF SInv, VInv
<1>2. Live' = Live
  BY DEF Live, DeclaredIn
<1>3. ASSUME NEW d \in DOMAIN cells', cells'[d].loc # Closed
      PROVE  \E kp \in Captures' : CapturedCell(kp)' = d /\ CapturedVar(kp)' \in Live'
  <2>1. CASE d \in DOMAIN cells
    <3>1. PICK kp \in Captures : CapturedCell(kp) = d /\ CapturedVar(kp) \in Live
      BY <1>3, <2>1 DEF SInv, CellsOwned
    <3> QED
      BY <1>1, <1>2, <3>1
  <2>2. CASE d \notin DOMAIN cells
    <3>1. d = c /\ v \in Live
      BY <2>2
    <3> QED
      BY <1>1, <1>2, <3>1
  <2> QED
    BY <2>1, <2>2
<1>4. ASSUME NEW kp \in Captures', NEW lq \in Captures', CapturedCell(kp)' = CapturedCell(lq)'
      PROVE  CapturedVar(kp)' = CapturedVar(lq)'
  <2>1. \A mr \in Captures' : CapturedCell(mr)' = c => CapturedVar(mr)' = v
    BY <1>1
  <2>2. CASE CapturedCell(kp)' = c
    BY <1>4, <2>1, <2>2
  <2>3. CASE CapturedCell(kp)' # c
    <3>1. kp \in Captures /\ lq \in Captures
      BY <1>1, <1>4, <2>3
    <3> QED
      BY <1>1, <1>4, <3>1 DEF SInv, CellsOwned
  <2> QED
    BY <2>2, <2>3
<1> QED
  BY <1>3, <1>4 DEF CellsOwned

(* OP_CAPTURE_LOCAL: an open cell at the variable's register is its own.   *)
LEMMA CaptureLocalOwned ==
  ASSUME SInv, NEW v \in Capturable, CaptureLocal(v)
  PROVE  CellsOwned' /\ v \in Live /\ cells \in Seq(Cell)
<1>1. /\ IInv /\ VInv /\ CaptureValue(home[v], v) /\ pending > 0 /\ UNCHANGED blocks
      /\ cells \in Seq(Cell)
  BY DEF CaptureLocal, SInv, VInv, control, IInv, TypeOK
<1>2. v \in Live /\ v \in DOMAIN home /\ home[v] \in Addr
  <2>1. PICK k \in (cur.base .. Len(blocks)) \ {1} : v \in blocks[k].vars
    BY DEF Capturable, DeclaredIn
  <2>2. k \in 1 .. Len(blocks)
    BY <1>1, ControlTypes
  <2> QED
    BY <1>1, <2>1, <2>2, LiveFacts, Numbers, ControlTypes
<1>3. CASE \E i \in DOMAIN activeCells :
             Found(i, home[v]) /\ AddCell(activeCells[i], v) /\ UNCHANGED memory
  <2>1. PICK i \in DOMAIN activeCells :
             Found(i, home[v]) /\ AddCell(activeCells[i], v) /\ UNCHANGED memory
    BY <1>3
  <2>2. PICK c : c = activeCells[i]
    OBVIOUS
  <2>3. /\ cells' = cells /\ c \in DOMAIN cells /\ cells[c].loc = home[v] /\ AddCell(c, v)
    BY <1>1, <2>1, <2>2 DEF memory, Found, LocationOf, IInv, TypeOK
  <2>4. ASSUME NEW kp \in Captures, CapturedCell(kp) = c
        PROVE  CapturedVar(kp) = v
    <3>1. cells[c].loc # Closed
      BY <1>2, <2>3 DEF Addr, Closed
    <3>2. PICK lq \in Captures : CapturedCell(lq) = c /\ CapturedVar(lq) \in Live
      BY <2>3, <3>1 DEF SInv, CellsOwned
    <3>3. home[CapturedVar(lq)] = home[v]
      BY <2>3, <3>2 DEF SInv, VInv, NeverClosedEarly
    <3>4. CapturedVar(lq) = v
      BY <1>1, <1>2, <3>2, <3>3, LiveDisjoint DEF RegistersDisjoint
    <3>5. CapturedVar(kp) = CapturedVar(lq)
      BY <2>4, <3>2 DEF SInv, CellsOwned
    <3> QED
      BY <3>4, <3>5
  <2>5. CellsOwned'
    BY <1>1, <2>3, <2>4, OwnedCaptured
  <2> QED
    BY <1>1, <1>2, <2>5
<1>4. CASE NewCell(home[v], v)
  <2> DEFINE cell == [loc |-> home[v], obj |-> Nil]
             c == Len(cells) + 1
  <2>1. cells' = Append(cells, cell) /\ AddCell(c, v)
    BY <1>4 DEF NewCell
  <2>2. cells \in Seq(Cell \cup {cell})
    BY <1>1, SeqMonotonic
  <2>3. /\ DOMAIN cells' = DOMAIN cells \cup {c} /\ c \notin DOMAIN cells
        /\ \A d \in DOMAIN cells : cells'[d] = cells[d]
    <3> HIDE DEF cell
    <3> QED
      BY <2>1, <2>2, AppendProperties
  <2>4. \A kp \in Captures : CapturedCell(kp) # c
    BY <1>1, <2>3, CaptureFacts
  <2>5. CellsOwned'
    <3> HIDE DEF c, cell
    <3> QED
      BY <1>1, <1>2, <2>1, <2>3, <2>4, OwnedCaptured
  <2> QED
    BY <1>1, <1>2, <2>5
<1> QED
  BY <1>1, <1>3, <1>4 DEF CaptureValue

(* The cells of the running closure are cells of its captures.             *)
LEMMA OwnCapture ==
  ASSUME IInv, NEW j \in DOMAIN OwnCells
  PROVE  \E kp \in Captures : /\ CapturedCell(kp) = OwnCells[j]
                              /\ CapturedVar(kp) = closures[cur.closure].vars[j]
<1> DEFINE own == closures[cur.closure]
<1>1. cur.closure \in DOMAIN closures /\ OwnCells = own.cells
  <2>1. InFunction /\ cur.closure # 0
    BY DEF OwnCells
  <2>2. cur.closure \in 0 .. Len(closures) /\ closures \in Seq(Closure)
    BY DEF IInv, TypeOK, Context
  <2>3. OwnCells = own.cells
    BY <2>1 DEF OwnCells
  <2> QED
    BY <2>1, <2>2, <2>3
<1>2. DOMAIN own.vars = DOMAIN own.cells
  <2>1. /\ own.cells \in Seq(DOMAIN cells) /\ own.vars \in Seq(DOMAIN home)
        /\ Len(own.cells) = Len(own.vars)
    BY <1>1, ElementTypes DEF IInv, ClosureShape
  <2> HIDE DEF own
  <2> QED
    BY <2>1
<1>3. PICK kp : kp = <<cur.closure, j>>
  OBVIOUS
<1> QED
  BY <1>1, <1>2, <1>3 DEF Captures, CapturedVar, CapturedCell

(* OP_CAPTURE_CELL: the new closure shares a cell with the running one.    *)
LEMMA CaptureCellOwned ==
  ASSUME SInv, NEW j \in DOMAIN OwnCells, CaptureCell(j)
  PROVE  CellsOwned'
<1>1. PICK c, v : /\ c = OwnCells[j] /\ v = closures[cur.closure].vars[j]
  OBVIOUS
<1>2. AddCell(c, v) /\ pending > 0 /\ UNCHANGED blocks /\ cells' = cells
  BY <1>1 DEF CaptureCell, control, memory
<1>3. PICK kp \in Captures : CapturedCell(kp) = c /\ CapturedVar(kp) = v
  BY <1>1, OwnCapture DEF SInv, VInv
<1>4. \A lq \in Captures : CapturedCell(lq) = c => CapturedVar(lq) = v
  BY <1>3 DEF SInv, CellsOwned
<1> QED
  BY <1>2, <1>4, OwnedCaptured

-----------------------------------------------------------------------------
(* What the control steps do to variables.                                 *)

(* Cells stay as they are or are closed.                                   *)
CellsMoved ==
  /\ DOMAIN cells' = DOMAIN cells
  /\ \A c \in DOMAIN cells :
       \/ cells'[c] = cells[c]
       \/ cells[c].loc # Closed /\ cells'[c] = Close(c, regs)

(* No variable comes back, and those that stay in scope keep their values. *)
LiveStay ==
  \A u \in DOMAIN home : u \in Live' => u \in Live /\ regs'[home[u]] = regs[home[u]]

(* At most one variable is new, and then it has a value.                   *)
OneBorn ==
  \/ DOMAIN home' = DOMAIN home
  \/ /\ DOMAIN home' = DOMAIN home \cup {Len(home) + 1}
     /\ Len(home) + 1 \in Live'
     /\ regs'[home'[Len(home) + 1]] \in Vals

Turned ==
  /\ CapturesSame /\ HomesKept /\ CellsMoved /\ DeadClosed /\ LiveStay /\ OneBorn
  /\ Len(home') <= MaxVars /\ ret' = ret

(* The cells from limit on are closed with the values they had.            *)
ClosedFrom(limit) ==
  \E file \in [Addr -> Values] :
    /\ CloseCells(limit, file)
    /\ \A i \in DOMAIN activeCells : LocationOf(i) >= limit =>
          file[LocationOf(i)] = regs[LocationOf(i)]

(* They are the cells at or above it.                                      *)
LEMMA ClosedFromEffect ==
  ASSUME IInv, NEW limit \in Nat, ClosedFrom(limit)
  PROVE  /\ DOMAIN cells' = DOMAIN cells
         /\ \A c \in DOMAIN cells :
              cells'[c] = IF cells[c].loc >= limit THEN Close(c, regs) ELSE cells[c]
<1>1. PICK file \in [Addr -> Values] :
        /\ CloseCells(limit, file)
        /\ \A i \in DOMAIN activeCells : LocationOf(i) >= limit =>
              file[LocationOf(i)] = regs[LocationOf(i)]
  BY DEF ClosedFrom
<1>2. /\ DOMAIN cells' = DOMAIN cells
      /\ \A c \in DOMAIN cells :
           cells'[c] = IF cells[c].loc >= limit THEN Close(c, file) ELSE cells[c]
  BY <1>1, CloseCellsEffect
<1>3. ASSUME NEW c \in DOMAIN cells, cells[c].loc >= limit
      PROVE  Close(c, file) = Close(c, regs)
  <2>1. cells[c].loc # Closed
    BY <1>3 DEF Closed
  <2>2. PICK i \in DOMAIN activeCells : activeCells[i] = c
    BY <2>1 DEF IInv, ActiveIffOpen
  <2> QED
    BY <1>1, <1>3, <2>2 DEF LocationOf, Close
<1> QED
  BY <1>2, <1>3

(* A scope exit and an iteration close cells before they write a register. *)
LEMMA ClosedWithRegisters ==
  ASSUME IInv, NEW limit, CloseCells(limit, regs)
  PROVE  ClosedFrom(limit)
BY ControlTypes DEF ClosedFrom

(* The innermost block's cells are closed when its variables may be gone.  *)
LEMMA BlockDies ==
  ASSUME SInv, ClosedFrom(Block.start),
         \A k \in 1 .. Len(blocks) - 1 : k \in DOMAIN blocks' /\ blocks'[k].vars = blocks[k].vars
  PROVE  CellsMoved /\ DeadClosed
<1>1. IInv /\ Len(blocks) \in Nat \ {0} /\ Block.start \in Nat /\ DOMAIN blocks = 1 .. Len(blocks)
  <2>1. IInv /\ Len(blocks) \in Nat \ {0} /\ DOMAIN blocks = 1 .. Len(blocks)
    BY ControlTypes DEF SInv, VInv
  <2>2. Len(blocks) \in 1 .. Len(blocks)
    BY <2>1
  <2> QED
    BY <2>1, <2>2, Numbers DEF Block
<1>2. /\ DOMAIN cells' = DOMAIN cells
      /\ \A c \in DOMAIN cells :
           cells'[c] = IF cells[c].loc >= Block.start THEN Close(c, regs) ELSE cells[c]
  BY <1>1, ClosedFromEffect
<1>3. \A c \in DOMAIN cells : cells[c].loc >= Block.start => cells[c].loc # Closed
  BY <1>1 DEF Closed
<1>4. ASSUME NEW u \in Live, u \notin Live', NEW c \in DOMAIN cells, cells[c].loc = home[u]
      PROVE  cells'[c].loc = Closed
  <2>1. PICK k \in 1 .. Len(blocks) : u \in blocks[k].vars
    BY <1>1, LiveFacts
  <2>2. ~(k \in 1 .. Len(blocks) - 1)
    BY <1>4, <2>1 DEF Live, DeclaredIn
  <2>3. k = Len(blocks)
    <3>1. Len(blocks) \in Nat
      BY <1>1
    <3> QED
      BY ONLY <2>1, <2>2, <3>1
  <2>4. Block.start <= home[u]
    BY <1>1, <2>1, <2>3 DEF SInv, VInv, BlocksNest, Block
  <2>5. u \in DOMAIN home /\ home[u] \in Nat
    BY <1>1, <2>1, Numbers
  <2>6. cells'[c] = Close(c, regs)
    BY <1>1, <1>2, <1>4, <2>4, <2>5
  <2> QED
    BY <2>6 DEF Close
<1> QED
  BY <1>2, <1>3, <1>4 DEF CellsMoved, DeadClosed

(* A step that opens blocks or changes or leaves the innermost one.        *)
LEMMA ControlTurn ==
  ASSUME SInv, HomesKept, closures' = closures, ret' = ret, Len(home') <= MaxVars, OneBorn,
         NEW m \in Nat \ {0}, DOMAIN blocks' = 1 .. m,
         \A k \in 1 .. m - 1 : k \in 1 .. Len(blocks) /\ blocks'[k] = blocks[k],
         \A u \in blocks'[m].vars : u \in DOMAIN home =>
           m \in 1 .. Len(blocks) /\ u \in blocks[m].vars,
         \/ UNCHANGED memory /\ \A k \in 1 .. Len(blocks) :
                                   k \in 1 .. m /\ blocks[k].vars \subseteq blocks'[k].vars
         \/ ClosedFrom(Block.start) /\ \A k \in 1 .. Len(blocks) - 1 :
                                          k \in 1 .. m /\ blocks'[k].vars = blocks[k].vars,
         \A u \in Live : u \in Live' => regs'[home[u]] = regs[home[u]]
  PROVE  Turned
<1>1. IInv /\ CapturesSame
  BY ClosuresSame DEF SInv, VInv
<1>2. LiveStay
  <2>1. \A u \in DOMAIN home : u \in Live' => u \in Live
    BY <1>1, LiveBelow
  <2> QED
    BY <2>1 DEF LiveStay
<1>3. CellsMoved /\ DeadClosed
  <2>1. CASE UNCHANGED memory /\ \A k \in 1 .. Len(blocks) :
                                   k \in 1 .. m /\ blocks[k].vars \subseteq blocks'[k].vars
    <3>1. \A u \in Live : u \in Live'
      <4> TAKE u \in Live
      <4>1. PICK k \in 1 .. Len(blocks) : u \in blocks[k].vars
        BY <1>1, LiveFacts
      <4>2. k \in DOMAIN blocks' /\ u \in blocks'[k].vars
        BY <2>1, <4>1
      <4> QED
        BY <4>2 DEF Live, DeclaredIn
    <3> QED
      BY <2>1, <3>1 DEF memory, CellsMoved, DeadClosed
  <2>2. CASE ClosedFrom(Block.start) /\ \A k \in 1 .. Len(blocks) - 1 :
                                          k \in 1 .. m /\ blocks'[k].vars = blocks[k].vars
    BY <2>2, BlockDies
  <2> QED
    BY <2>1, <2>2
<1> QED
  BY <1>1, <1>2, <1>3 DEF Turned

(* In structured programs the entry on top is the innermost block's, and a *)
(* function returns from its outermost block.                              *)
LEMMA LimitExact ==
  ASSUME SInv
  PROVE  /\ Len(blocks) > cur.base => ScopeLimit = Block.start
         /\ Len(blocks) = cur.base => FrameLimit = Block.start
<1>1. /\ IInv /\ Len(blocks) \in Nat /\ Len(frames) \in Nat /\ cur.base \in 1 .. Len(blocks)
      /\ Len(scopeStarts) \in Nat
      /\ Len(scopeStarts) + Len(frames) + 1 - Len(blocks) = 0
  BY ControlTypes DEF SInv, VInv, Structured, Stale
<1>2. ASSUME Len(blocks) > cur.base PROVE ScopeLimit = Block.start
  <2>1. Len(blocks) \in cur.base + 1 .. Len(blocks)
    BY <1>1, <1>2
  <2>2. Len(blocks) - (Len(frames) + 1) = Len(scopeStarts)
    BY <1>1
  <2>3. scopeStarts[Len(scopeStarts)] = blocks[Len(blocks)].start
    BY <2>1, <2>2 DEF SInv, Structured, EntriesExact
  <2> QED
    BY <2>3 DEF ScopeLimit, Last, Block
<1>3. ASSUME Len(blocks) = cur.base PROVE FrameLimit = Block.start
  BY <1>3 DEF SInv, VInv, Layout, ContextFits, FrameLimit, Block
<1> QED
  BY <1>2, <1>3

(* Registers from nextReg on may be written: no live variable is there.    *)
LEMMA AboveLive ==
  ASSUME SInv
  PROVE  \A u \in Live : /\ home[u] \in Nat /\ home[u] < cur.nextReg
                          /\ u \in DOMAIN home /\ home[u] \in Addr
<1>1. VInv /\ IInv
  BY DEF SInv, VInv
<1>2. \A u \in Live : u \in DOMAIN home
  BY <1>1, LiveFacts, Numbers
<1>3. \A u \in Live : home[u] < cur.nextReg
  BY <1>1, LiveDisjoint DEF RegistersDisjoint
<1> QED
  BY <1>1, <1>2, <1>3, Numbers, ControlTypes

(* Declarations, new blocks and for statements.                            *)
LEMMA OpenTurned ==
  ASSUME SInv, (\E x \in Vals : Declare(x) \/ EnterFor(x)) \/ EnterScope
  PROVE  Turned
<1> DEFINE n == Len(blocks)
           r == cur.nextReg
           v == Len(home) + 1
<1>1. /\ IInv /\ n \in Nat \ {0} /\ DOMAIN blocks = 1 .. n /\ blocks \in Seq(BlockRecord)
      /\ r \in Nat /\ regs \in [Addr -> Values] /\ Len(home) \in Nat /\ Len(home) <= MaxVars
      /\ DOMAIN home = 1 .. Len(home) /\ MaxVars \in Nat
  BY ControlTypes, Numbers, ConstantsAssumption DEF SInv, VInv, IInv, TypeOK
<1>2. CASE \E x \in Vals : Declare(x)
  <2>1. PICK x \in Vals : Declare(x)
    BY <1>2
  <2>2. r \in Addr /\ Bind(r) /\ regs' = [regs EXCEPT ![r] = x]
        /\ blocks' = [blocks EXCEPT ![n].vars = @ \cup {v}]
        /\ UNCHANGED memory /\ closures' = closures /\ ret' = ret
    <3>1. r < NumRegs
      BY <2>1 DEF Declare
    <3>2. r \in Addr
      BY <1>1, <3>1, ConstantsAssumption DEF Addr
    <3> QED
      BY <2>1, <3>2 DEF Declare
  <2>3. /\ HomesKept /\ home'[v] = r /\ v \notin DOMAIN home
        /\ home' \in Seq(Addr) /\ Len(home') = v
    BY <1>1, <2>2, BindKeeps
  <2>4. Len(home') <= MaxVars
    BY <1>1, <2>2, <2>3 DEF Bind
  <2>5. /\ DOMAIN blocks' = 1 .. n
        /\ \A k \in 1 .. n : blocks'[k] = IF k = n THEN [blocks[n] EXCEPT !.vars = @ \cup {v}] ELSE blocks[k]
    BY <1>1, <2>2
  <2>6. blocks'[n].vars = blocks[n].vars \cup {v}
    <3>1. n \in 1 .. n /\ blocks[n] \in BlockRecord
      BY <1>1
    <3> QED
      BY <2>5, <3>1 DEF BlockRecord
  <2>7. \A k \in 1 .. n - 1 : k \in 1 .. Len(blocks) /\ blocks'[k] = blocks[k]
    <3> HIDE DEF n, v
    <3>1. \A k \in 1 .. n - 1 : k \in 1 .. n /\ k # n
      BY <1>1
    <3> QED
      BY <2>5, <3>1 DEF n
  <2>8. \A k \in 1 .. n : blocks[k].vars \subseteq blocks'[k].vars
    BY <2>5, <2>6
  <2>9. OneBorn
    <3>1. DOMAIN home' = DOMAIN home \cup {v}
      BY <1>1, <2>3
    <3>2. v \in Live'
      <4>1. n \in DOMAIN blocks' /\ v \in blocks'[n].vars
        BY <1>1, <2>5, <2>6
      <4> QED
        BY <4>1 DEF Live, DeclaredIn
    <3>3. regs'[home'[v]] = x
      BY <1>1, <2>2, <2>3
    <3> QED
      BY <3>1, <3>2, <3>3 DEF OneBorn
  <2>10. \A u \in Live : regs'[home[u]] = regs[home[u]]
    BY <1>1, <2>2, AboveLive
  <2>11. \A u \in blocks'[n].vars : u \in DOMAIN home => n \in 1 .. Len(blocks) /\ u \in blocks[n].vars
    BY <1>1, <2>3, <2>6
  <2> HIDE DEF n, v, r
  <2> QED
    BY <1>1, <2>2, <2>3, <2>4, <2>5, <2>7, <2>8, <2>9, <2>10, <2>11, ControlTurn DEF n
<1>3. CASE (\E x \in Vals : EnterFor(x)) \/ EnterScope
  <2>1. PICK b : /\ blocks' = Append(blocks, b) /\ UNCHANGED memory
                 /\ closures' = closures /\ ret' = ret
                 /\ b.vars = {} \/ b.vars = {v}
    BY <1>3 DEF EnterFor, EnterScope
  <2>2. /\ DOMAIN blocks' = 1 .. n + 1 /\ blocks'[n + 1] = b
        /\ \A k \in 1 .. n : blocks'[k] = blocks[k]
    <3>1. blocks \in Seq(BlockRecord \cup {b})
      BY <1>1, SeqMonotonic
    <3> QED
      BY <1>1, <2>1, <3>1, AppendProperties
  <2>3. /\ HomesKept /\ OneBorn /\ Len(home') <= MaxVars
        /\ \A u \in Live : regs'[home[u]] = regs[home[u]]
    <3>1. CASE EnterScope
      BY <1>1, <3>1 DEF EnterScope, HomesKept, OneBorn
    <3>2. CASE \E x \in Vals : EnterFor(x)
      <4>1. PICK x \in Vals : EnterFor(x)
        BY <3>2
      <4>2. /\ r \in Addr /\ r + 1 \in Addr /\ Bind(r) /\ regs' = [regs EXCEPT ![r] = x, ![r + 1] = Nil]
            /\ blocks'[n + 1].vars = {v}
        <5>1. r + 1 < NumRegs
          BY <4>1 DEF EnterFor
        <5>2. r \in Addr /\ r + 1 \in Addr
          BY <1>1, <5>1, ConstantsAssumption DEF Addr
        <5>3. Bind(r) /\ regs' = [regs EXCEPT ![r] = x, ![r + 1] = Nil]
          BY <4>1 DEF EnterFor
        <5>4. PICK d : d.vars = {v} /\ blocks' = Append(blocks, d)
          BY <4>1 DEF EnterFor
        <5>5. blocks'[n + 1] = d
          <6>1. blocks \in Seq(BlockRecord \cup {d})
            BY <1>1, SeqMonotonic
          <6> QED
            BY <5>4, <6>1, AppendProperties
        <5> QED
          BY <5>2, <5>3, <5>4, <5>5
      <4>3. /\ HomesKept /\ home'[v] = r /\ v \notin DOMAIN home
            /\ home' \in Seq(Addr) /\ Len(home') = v
        BY <1>1, <4>2, BindKeeps
      <4>4. Len(home') <= MaxVars /\ DOMAIN home' = DOMAIN home \cup {v}
        BY <1>1, <4>2, <4>3 DEF Bind
      <4>5. v \in Live'
        <5>1. n + 1 \in DOMAIN blocks' /\ v \in blocks'[n + 1].vars
          BY <1>1, <2>2, <4>2
        <5> QED
          BY <5>1 DEF Live, DeclaredIn
      <4>6. regs'[home'[v]] = x
        BY <1>1, <4>2, <4>3
      <4>7. \A u \in Live : regs'[home[u]] = regs[home[u]]
        <5>1. \A u \in Live : home[u] \in Addr /\ home[u] # r /\ home[u] # r + 1
          BY <1>1, AboveLive
        <5> QED
          BY <1>1, <4>2, <5>1
      <4> QED
        BY <4>3, <4>4, <4>5, <4>6, <4>7 DEF OneBorn
    <3> QED
      BY <1>3, <3>1, <3>2
  <2>4. /\ n + 1 \in Nat \ {0}
        /\ \A k \in 1 .. (n + 1) - 1 : k \in 1 .. Len(blocks) /\ blocks'[k] = blocks[k]
        /\ \A k \in 1 .. Len(blocks) : k \in 1 .. n + 1 /\ blocks[k].vars \subseteq blocks'[k].vars
    BY <1>1, <2>2
  <2>5. \A u \in blocks'[n + 1].vars : u \notin DOMAIN home
    BY <1>1, <2>1, <2>2
  <2> HIDE DEF n, v, r
  <2> QED
    BY <1>1, <2>1, <2>2, <2>3, <2>4, <2>5, ControlTurn
<1> QED
  BY <1>2, <1>3

(* Calls.                                                                  *)
LEMMA CallTurned ==
  ASSUME SInv, NEW c, NEW args \in {<<>>} \cup {<<x>> : x \in Vals}, Call(c, args)
  PROVE  Turned
<1> DEFINE n == Len(blocks)
           w == cur.nextReg + 1
           a == Len(args)
           h == Len(home)
           top == w + a
           b == [start |-> w, loop |-> FALSE, vars |-> h + 1 .. h + a]
<1>1. /\ IInv /\ n \in Nat \ {0} /\ DOMAIN blocks = 1 .. n /\ blocks \in Seq(BlockRecord)
      /\ cur.nextReg \in Nat /\ regs \in [Addr -> Values] /\ h \in Nat
      /\ DOMAIN home = 1 .. h
  BY ControlTypes, Numbers DEF SInv, VInv, IInv, TypeOK
<1>2. /\ blocks' = Append(blocks, b) /\ closures' = closures /\ UNCHANGED memory /\ ret' = ret
      /\ regs' = [r \in Addr |-> IF r \in w .. top - 1 THEN args[r - w + 1]
                                 ELSE IF r \in {w - 1, top} THEN Nil ELSE regs[r]]
      /\ top < NumRegs /\ h + a <= MaxVars
  BY DEF Call
<1>3. /\ HomesKept /\ DOMAIN home' = 1 .. h + a /\ Len(home') = h + a
      /\ \A v \in h + 1 .. h + a : home'[v] = w + (v - h) - 1 /\ v \notin DOMAIN home
  BY <1>1, CallHome
<1>4. /\ DOMAIN blocks' = 1 .. n + 1 /\ blocks'[n + 1] = b
      /\ \A k \in 1 .. n : blocks'[k] = blocks[k]
  <2>1. blocks \in Seq(BlockRecord \cup {b})
    BY <1>1, SeqMonotonic
  <2> HIDE DEF b
  <2> QED
    BY <1>1, <1>2, <2>1, AppendProperties
<1>5. a = 0 \/ (a = 1 /\ args[1] \in Vals)
  OBVIOUS
<1>6. blocks'[n + 1].vars = h + 1 .. h + a
  BY <1>4
<1> HIDE DEF b, w, a, h, top
<1>7. OneBorn
  <2>1. CASE a = 0
    BY <1>1, <1>3, <2>1 DEF OneBorn
  <2>2. CASE a = 1
    <3>1. DOMAIN home' = DOMAIN home \cup {h + 1}
      BY <1>1, <1>3, <2>2
    <3>2. h + 1 \in Live'
      <4>1. n + 1 \in DOMAIN blocks' /\ h + 1 \in blocks'[n + 1].vars
        BY <1>1, <1>4, <1>6, <2>2
      <4> QED
        BY <4>1 DEF Live, DeclaredIn
    <3>3. home'[h + 1] = w
      <4>1. h + 1 \in h + 1 .. h + a /\ w + ((h + 1) - h) - 1 = w
        BY <1>1, <2>2 DEF w
      <4> QED
        BY <1>3, <4>1
    <3>4. w \in Addr /\ w \in w .. top - 1 /\ w - w + 1 = 1
      <4>1. w \in Nat /\ top = w + 1 /\ NumRegs \in Nat
        BY <1>1, <2>2, ConstantsAssumption DEF w, top
      <4>2. w \in 0 .. NumRegs - 1 /\ w \in w .. top - 1 /\ w - w + 1 = 1
        <5>1. top < NumRegs
          BY <1>2
        <5> QED
          BY ONLY <4>1, <5>1
      <4> QED
        BY <4>2 DEF Addr
    <3>5. regs'[w] \in Vals
      BY <1>2, <1>5, <2>2, <3>4
    <3> QED
      BY <3>1, <3>2, <3>3, <3>5 DEF OneBorn, h
  <2> QED
    BY <1>5, <2>1, <2>2
<1>8. \A u \in Live : regs'[home[u]] = regs[home[u]]
  <2> TAKE u \in Live
  <2>1. home[u] \in Nat /\ home[u] < cur.nextReg /\ home[u] \in Addr
    BY AboveLive
  <2>2. a \in Nat
    BY <1>5
  <2>3. home[u] \notin w .. top - 1 /\ home[u] \notin {w - 1, top}
    BY <1>1, <2>1, <2>2 DEF w, top
  <2> QED
    BY <1>2, <2>1, <2>3
<1>9. /\ n + 1 \in Nat \ {0}
      /\ \A k \in 1 .. (n + 1) - 1 : k \in 1 .. Len(blocks) /\ blocks'[k] = blocks[k]
      /\ \A k \in 1 .. Len(blocks) : k \in 1 .. n + 1 /\ blocks[k].vars \subseteq blocks'[k].vars
  BY <1>1, <1>4
<1>10. \A u \in blocks'[n + 1].vars : u \notin DOMAIN home
  BY <1>3, <1>6
<1>11. Len(home') <= MaxVars
  BY <1>2, <1>3
<1> HIDE DEF n
<1> QED
  BY <1>2, <1>3, <1>4, <1>7, <1>8, <1>9, <1>10, <1>11, ControlTurn

(* Ends of blocks, iterations and returns.                                 *)
LEMMA CloseTurned ==
  ASSUME SInv, VInv', ExitScope \/ Return \/ FallOff \/ \E x \in Vals : UpdateIter(x)
  PROVE  Turned
<1> DEFINE n == Len(blocks)
           r == blocks[n].start
           v == Len(home) + 1
<1>1. /\ IInv /\ n \in Nat \ {0} /\ DOMAIN blocks = 1 .. n /\ blocks \in Seq(BlockRecord)
      /\ regs \in [Addr -> Values] /\ Len(home) \in Nat /\ Len(home) <= MaxVars
      /\ DOMAIN home = 1 .. Len(home) /\ MaxVars \in Nat /\ cur.base \in 1 .. n
  BY ControlTypes, Numbers, ConstantsAssumption DEF SInv, VInv, IInv, TypeOK
<1>2. CASE ExitScope \/ Return \/ FallOff
  <2>0. ASSUME ~ExitScope
        PROVE  \E file \in [Addr -> Values] :
                 /\ OpReturn(file) /\ n = cur.base
                 /\ \A r0 \in Addr : r0 < cur.window - 1 => file[r0] = regs[r0]
                 /\ \A i \in DOMAIN activeCells : LocationOf(i) >= cur.window =>
                       file[LocationOf(i)] = regs[LocationOf(i)]
    BY <1>1, <1>2, <2>0, EndsOfFunctions DEF SInv
  <2>1. /\ blocks' = SubSeq(blocks, 1, n - 1) /\ closures' = closures /\ home' = home /\ ret' = ret
        /\ n - 1 \in 1 .. n /\ n - 1 \in 0 .. Len(blocks)
    <3>1. CASE ExitScope
      BY <1>1, <3>1 DEF ExitScope, Front
    <3>2. CASE ~ExitScope
      <4>0. PICK file \in [Addr -> Values] : OpReturn(file) /\ n = cur.base
        BY <2>0, <3>2
      <4>1. cur.base = n /\ frames # <<>> /\ frames \in Seq(Context)
        BY <1>1, <4>0 DEF OpReturn, InFunction, IInv, TypeOK
      <4>2. Len(frames) \in DOMAIN frames
        BY <4>1
      <4>3. frames[Len(frames)].base \in 1 .. cur.base - 1
        BY <1>1, <4>2, CallerFacts
      <4> QED
        <5>1. n - 1 \in 1 .. n /\ n - 1 \in 0 .. Len(blocks)
          BY <1>1, <4>1, <4>3
        <5>2. /\ blocks' = SubSeq(blocks, 1, cur.base - 1) /\ closures' = closures
              /\ home' = home /\ ret' = ret
          BY <4>0 DEF OpReturn
        <5> QED
          BY <4>1, <5>1, <5>2
    <3> QED
      BY <3>1, <3>2
  <2>2. Len(blocks') = n - 1 /\ \A k \in 1 .. n - 1 : blocks'[k] = blocks[k]
    BY <1>1, <2>1, PrefixFacts
  <2>3. DOMAIN blocks' = 1 .. n - 1
    <3>1. blocks' \in Seq(BlockRecord)
      BY <1>1, <2>1, PrefixFacts
    <3> QED
      BY <2>2, <3>1
  <2>4. ClosedFrom(Block.start)
    <3>1. CASE ExitScope
      BY <1>1, <3>1, LimitExact, ClosedWithRegisters DEF ExitScope
    <3>2. CASE ~ExitScope
      <4>1. PICK file \in [Addr -> Values] :
              /\ OpReturn(file) /\ n = cur.base
              /\ \A i \in DOMAIN activeCells : LocationOf(i) >= cur.window =>
                    file[LocationOf(i)] = regs[LocationOf(i)]
        BY <2>0, <3>2
      <4>2. cur.window = Block.start
        BY <4>1, LimitExact DEF FrameLimit
      <4>3. CloseCells(Block.start, file)
        BY <4>1, <4>2 DEF OpReturn, FrameLimit
      <4> QED
        BY <4>1, <4>2, <4>3 DEF ClosedFrom
    <3> QED
      BY <3>1, <3>2
  <2>5. \A u \in Live : u \in Live' => regs'[home[u]] = regs[home[u]]
    <3>1. CASE ExitScope
      BY <3>1 DEF ExitScope
    <3>2. CASE ~ExitScope
      <4>0. PICK file \in [Addr -> Values] :
              /\ OpReturn(file)
              /\ \A r0 \in Addr : r0 < cur.window - 1 => file[r0] = regs[r0]
        BY <2>0, <3>2
      <4>1. \A u \in Live' : home'[u] < cur'.nextReg
        <5>1. RegistersDisjoint'
          BY LiveDisjoint, PTL
        <5> QED
          BY <5>1 DEF RegistersDisjoint
      <4>2. cur.window = cur'.nextReg + 1 /\ cur'.nextReg \in Nat
        <5>1. frames # <<>> /\ cur' = frames[Len(frames)] /\ frames \in Seq(Context)
          BY <1>1, <4>0 DEF OpReturn, InFunction, Last, IInv, TypeOK
        <5>2. Len(frames) \in DOMAIN frames
          BY <5>1
        <5>3. frames[Len(frames)].nextReg \in Nat
          BY <1>1, <5>2, CallerFacts
        <5> QED
          BY <5>1, <5>2, <5>3 DEF SInv, Structured
      <4>3. regs' = file
        BY <4>0 DEF OpReturn
      <4> QED
        <5> TAKE u \in Live
        <5> HAVE u \in Live'
        <5>1. home[u] \in Nat /\ home[u] \in Addr /\ home[u] < cur'.nextReg
          BY <2>1, <4>1, AboveLive
        <5>2. home[u] < cur.window - 1
          BY <4>2, <5>1
        <5> QED
          BY <4>0, <4>3, <5>1, <5>2
    <3> QED
      BY <3>1, <3>2
  <2>6. HomesKept /\ OneBorn /\ Len(home') <= MaxVars
    BY <1>1, <2>1 DEF HomesKept, OneBorn
  <2>7. /\ n - 1 \in Nat \ {0}
        /\ \A k \in 1 .. (n - 1) - 1 : k \in 1 .. Len(blocks) /\ blocks'[k] = blocks[k]
        /\ \A u \in blocks'[n - 1].vars : n - 1 \in 1 .. Len(blocks) /\ u \in blocks[n - 1].vars
        /\ \A k \in 1 .. Len(blocks) - 1 : k \in 1 .. n - 1 /\ blocks'[k].vars = blocks[k].vars
    BY <1>1, <2>1, <2>2
  <2> HIDE DEF n
  <2> QED
    BY <2>1, <2>3, <2>4, <2>5, <2>6, <2>7, ControlTurn
<1>3. CASE \E x \in Vals : UpdateIter(x)
  <2>1. PICK x \in Vals : UpdateIter(x)
    BY <1>3
  <2>2. /\ n > cur.base /\ blocks[n].loop /\ Bind(r) /\ CloseCells(ScopeLimit, regs)
        /\ blocks' = [blocks EXCEPT ![n].vars = {v}]
        /\ regs' = [regs EXCEPT ![r] = x] /\ closures' = closures /\ ret' = ret
    BY <2>1 DEF UpdateIter, Block
  <2>3. ClosedFrom(Block.start)
    BY <1>1, <2>2, LimitExact, ClosedWithRegisters
  <2>4. r \in Nat /\ r \in Addr
    <3>1. r + 2 <= NumRegs /\ r \in Nat
      BY <1>1, <2>2, Numbers DEF IInv, StackShape
    <3> QED
      BY <3>1, ConstantsAssumption DEF Addr
  <2>5. /\ HomesKept /\ home'[v] = r /\ v \notin DOMAIN home
        /\ home' \in Seq(Addr) /\ Len(home') = v
    BY <1>1, <2>2, <2>4, BindKeeps
  <2>6. Len(home') <= MaxVars /\ DOMAIN home' = DOMAIN home \cup {v}
    BY <1>1, <2>2, <2>5 DEF Bind
  <2>7. /\ DOMAIN blocks' = 1 .. n
        /\ \A k \in 1 .. n : blocks'[k] = IF k = n THEN [blocks[n] EXCEPT !.vars = {v}] ELSE blocks[k]
    BY <1>1, <2>2
  <2>8. blocks'[n].vars = {v}
    <3>1. n \in 1 .. n /\ blocks[n] \in BlockRecord
      BY <1>1
    <3> QED
      BY <2>7, <3>1 DEF BlockRecord
  <2>9. \A k \in 1 .. n - 1 : k \in 1 .. n /\ blocks'[k] = blocks[k]
    <3> HIDE DEF n, v, r
    <3>1. \A k \in 1 .. n - 1 : k \in 1 .. n /\ k # n
      BY <1>1
    <3> QED
      BY <2>7, <3>1
  <2>10. OneBorn
    <3>1. v \in Live'
      <4>1. n \in DOMAIN blocks' /\ v \in blocks'[n].vars
        BY <1>1, <2>7, <2>8
      <4> QED
        BY <4>1 DEF Live, DeclaredIn
    <3>2. regs'[home'[v]] = x
      BY <1>1, <2>2, <2>4, <2>5
    <3> QED
      BY <2>6, <3>1, <3>2 DEF OneBorn
  <2>11. ASSUME NEW u \in Live, u \in Live' PROVE regs'[home[u]] = regs[home[u]]
    <3>1. PICK k \in 1 .. n : u \in blocks'[k].vars
      BY <2>7, <2>11 DEF Live, DeclaredIn
    <3>2. u \in DOMAIN home /\ home[u] \in Nat /\ home[u] \in Addr
      BY AboveLive
    <3>3. k # n
      BY <2>5, <2>8, <3>1, <3>2
    <3>4. k \in 1 .. n - 1 /\ k < n
      <4> HIDE DEF n
      <4> QED
        BY <1>1, <3>1, <3>3
    <3>5. u \in blocks[k].vars
      BY <2>9, <3>1, <3>4
    <3>6. home[u] < r
      BY <1>1, <3>1, <3>4, <3>5 DEF SInv, VInv, BlocksNest
    <3> QED
      BY <1>1, <2>2, <2>4, <3>2, <3>6
  <2>12. \A u \in blocks'[n].vars : u \notin DOMAIN home
    BY <2>5, <2>8
  <2>13. \A k \in 1 .. Len(blocks) - 1 : k \in 1 .. n /\ blocks'[k].vars = blocks[k].vars
    BY <2>9
  <2>14. \A k \in 1 .. n - 1 : k \in 1 .. Len(blocks) /\ blocks'[k] = blocks[k]
    BY <2>9
  <2> HIDE DEF n, v, r
  <2> QED
    BY <1>1, <2>2, <2>3, <2>5, <2>6, <2>7, <2>10, <2>11, <2>12, <2>13, <2>14, ControlTurn
<1> QED
  BY <1>2, <1>3

-----------------------------------------------------------------------------
(* What the other steps do to variables.                                   *)

(* A captured variable is in its own register while it is in scope, and    *)
(* its cell is closed afterwards.                                          *)
LEMMA CellPlace ==
  ASSUME SInv, NEW kp \in Captures
  PROVE  /\ CapturedCell(kp) \in DOMAIN cells
         /\ CapturedVar(kp) \in Live =>
              /\ cells[CapturedCell(kp)].loc = home[CapturedVar(kp)]
              /\ cells[CapturedCell(kp)].loc # Closed
         /\ CapturedVar(kp) \notin Live => cells[CapturedCell(kp)].loc = Closed
<1>1. CapturedCell(kp) \in DOMAIN cells
  BY CaptureFacts DEF SInv, VInv
<1>2. ASSUME CapturedVar(kp) \in Live
      PROVE  /\ cells[CapturedCell(kp)].loc = home[CapturedVar(kp)]
             /\ cells[CapturedCell(kp)].loc # Closed
  <2>1. cells[CapturedCell(kp)].loc = home[CapturedVar(kp)]
    BY <1>2 DEF SInv, VInv, NeverClosedEarly
  <2>2. home[CapturedVar(kp)] \in Nat
    BY <1>2, AboveLive
  <2> QED
    BY <2>1, <2>2 DEF Closed
<1>3. ASSUME CapturedVar(kp) \notin Live, cells[CapturedCell(kp)].loc # Closed
      PROVE  FALSE
  <2>1. PICK lq \in Captures : CapturedCell(lq) = CapturedCell(kp) /\ CapturedVar(lq) \in Live
    BY <1>1, <1>3 DEF SInv, CellsOwned
  <2>2. CapturedVar(lq) = CapturedVar(kp)
    BY <2>1 DEF SInv, CellsOwned
  <2> QED
    BY <1>3, <2>1, <2>2
<1> QED
  BY <1>1, <1>2, <1>3

(* One more closure holds v.                                               *)
CapturedOne(v) ==
  /\ v \in Live \cup Held
  /\ Held' = Held \cup {v}
  /\ \A kp \in Captures : /\ kp \in Captures'
                          /\ CapturedVar(kp)' = CapturedVar(kp)
                          /\ CapturedCell(kp)' = CapturedCell(kp)
  /\ \A c \in DOMAIN cells : cells'[c] = cells[c]
  /\ UNCHANGED <<regs, control, home, ret>>

(* The variable w gets the value x, in its register or in its cell.        *)
Written(w, x) ==
  /\ CapturesSame
  /\ UNCHANGED <<control, home, ret>>
  /\ \/ /\ w \in Live
        /\ regs' = [regs EXCEPT ![home[w]] = x]
        /\ cells' = cells
     \/ \E kp \in Captures :
          /\ CapturedVar(kp) = w /\ w \notin Live
          /\ cells' = [cells EXCEPT ![CapturedCell(kp)].obj = x]
          /\ regs' = regs

(* The variable w is read, from its register or from its cell.             *)
Fetched(w) ==
  /\ CapturesSame
  /\ UNCHANGED <<control, home, regs, cells>>
  /\ \/ w \in Live /\ ret' = regs[home[w]]
     \/ \E kp \in Captures : /\ CapturedVar(kp) = w /\ w \notin Live
                             /\ ret' = cells[CapturedCell(kp)].obj

LEMMA VisibleLive ==
  ASSUME SInv
  PROVE  Visible \subseteq Live
<1>1. {1} \cup cur.base .. Len(blocks) \subseteq DOMAIN blocks
  BY ControlTypes DEF SInv, VInv
<1> QED
  BY <1>1 DEF Visible, Live, DeclaredIn

(* Reads.                                                                  *)
LEMMA ReadFetches ==
  ASSUME SInv, \/ \E v \in Visible : GetLocal(v)
               \/ \E j \in DOMAIN OwnCells : GetCell(OwnCells[j])
  PROVE  \E w \in Live \cup Held : Fetched(w)
<1>1. CASE \E v \in Visible : GetLocal(v)
  <2>1. PICK v \in Visible : GetLocal(v)
    BY <1>1
  <2>2. CapturesSame
    BY <2>1, ClosuresSame DEF GetLocal
  <2> QED
    BY <2>1, <2>2, VisibleLive DEF GetLocal, Fetched, memory
<1>2. CASE \E j \in DOMAIN OwnCells : GetCell(OwnCells[j])
  <2>1. PICK j \in DOMAIN OwnCells : GetCell(OwnCells[j])
    BY <1>2
  <2>2. PICK kp \in Captures : CapturedCell(kp) = OwnCells[j]
    BY OwnCapture DEF SInv, VInv
  <2>3. CapturesSame /\ UNCHANGED <<control, home, regs, cells>>
    BY <2>1, ClosuresSame DEF GetCell, memory
  <2>4. CapturedVar(kp) \in Held
    BY DEF Held
  <2>5. ret' = IF cells[CapturedCell(kp)].loc = Closed THEN cells[CapturedCell(kp)].obj
               ELSE regs[cells[CapturedCell(kp)].loc]
    BY <2>1, <2>2 DEF GetCell
  <2> QED
    BY <2>3, <2>4, <2>5, CellPlace DEF Fetched
<1> QED
  BY <1>1, <1>2

(* Assignments.                                                            *)
LEMMA AssignWrites ==
  ASSUME SInv, \/ \E v \in Visible, x \in Vals : SetLocal(v, x)
               \/ \E j \in DOMAIN OwnCells, x \in Vals : SetCell(OwnCells[j], x)
  PROVE  \E w \in Live \cup Held, x \in Vals : Written(w, x)
<1>1. CASE \E v \in Visible, x \in Vals : SetLocal(v, x)
  <2>1. PICK v \in Visible, x \in Vals : SetLocal(v, x)
    BY <1>1
  <2>2. CapturesSame
    BY <2>1, ClosuresSame DEF SetLocal
  <2> QED
    BY <2>1, <2>2, VisibleLive DEF SetLocal, Written, memory
<1>2. CASE \E j \in DOMAIN OwnCells, x \in Vals : SetCell(OwnCells[j], x)
  <2>1. PICK j \in DOMAIN OwnCells, x \in Vals : SetCell(OwnCells[j], x)
    BY <1>2
  <2>2. PICK kp \in Captures : CapturedCell(kp) = OwnCells[j]
    BY OwnCapture DEF SInv, VInv
  <2>3. CapturesSame /\ UNCHANGED <<control, home, ret>>
    BY <2>1, ClosuresSame DEF SetCell
  <2>4. CapturedVar(kp) \in Held
    BY DEF Held
  <2>5. IF cells[CapturedCell(kp)].loc = Closed
        THEN cells' = [cells EXCEPT ![CapturedCell(kp)].obj = x] /\ UNCHANGED regs
        ELSE regs' = [regs EXCEPT ![cells[CapturedCell(kp)].loc] = x] /\ UNCHANGED cells
    BY <2>1, <2>2 DEF SetCell
  <2>6. Written(CapturedVar(kp), x)
    BY <2>3, <2>5, CellPlace DEF Written
  <2> QED
    BY <2>4, <2>6
<1> QED
  BY <1>1, <1>2

(* Captures.                                                               *)
LEMMA CaptureHolds ==
  ASSUME SInv, \/ \E v \in Capturable : CaptureLocal(v)
               \/ \E j \in DOMAIN OwnCells : CaptureCell(j)
  PROVE  CellsOwned' /\ \E v : CapturedOne(v)
<1>1. ASSUME NEW c, NEW v \in Live \cup Held, AddCell(c, v), pending > 0,
             \A d \in DOMAIN cells : cells'[d] = cells[d],
             UNCHANGED <<regs, control, home, ret>>
      PROVE  CapturedOne(v)
  <2>1. PICK new : /\ Captures' = Captures \cup {new}
                   /\ CapturedVar(new)' = v /\ CapturedCell(new)' = c
                   /\ \A kp \in Captures : /\ CapturedVar(kp)' = CapturedVar(kp)
                                           /\ CapturedCell(kp)' = CapturedCell(kp)
    BY <1>1, AddCellCaptures DEF SInv, VInv
  <2>2. Held' = Held \cup {v}
    BY <2>1 DEF Held
  <2> QED
    BY <1>1, <2>1, <2>2 DEF CapturedOne
<1>2. CASE \E v \in Capturable : CaptureLocal(v)
  <2>1. PICK v \in Capturable : CaptureLocal(v)
    BY <1>2
  <2>2. CellsOwned' /\ v \in Live /\ cells \in Seq(Cell)
    BY <2>1, CaptureLocalOwned
  <2>3. pending > 0 /\ UNCHANGED <<regs, control, home, ret>> /\ CaptureValue(home[v], v)
    BY <2>1 DEF CaptureLocal
  <2>4. CASE \E i \in DOMAIN activeCells : AddCell(activeCells[i], v) /\ UNCHANGED memory
    BY <1>1, <2>2, <2>3, <2>4 DEF memory
  <2>5. CASE NewCell(home[v], v)
    <3>1. PICK new : cells' = Append(cells, new)
      BY <2>5 DEF NewCell
    <3>2. cells \in Seq(Cell \cup {new})
      BY <2>2, SeqMonotonic
    <3>3. \A d \in DOMAIN cells : cells'[d] = cells[d]
      BY <3>1, <3>2, AppendProperties
    <3>4. AddCell(Len(cells) + 1, v)
      BY <2>5 DEF NewCell
    <3> QED
      BY <1>1, <2>2, <2>3, <3>3, <3>4
  <2> QED
    BY <2>2, <2>3, <2>4, <2>5 DEF CaptureValue
<1>3. CASE \E j \in DOMAIN OwnCells : CaptureCell(j)
  <2>1. PICK j \in DOMAIN OwnCells : CaptureCell(j)
    BY <1>3
  <2>2. closures[cur.closure].vars[j] \in Held
    BY OwnCapture DEF SInv, VInv, Held
  <2>3. /\ AddCell(OwnCells[j], closures[cur.closure].vars[j]) /\ pending > 0
        /\ UNCHANGED <<regs, control, home, ret>> /\ cells' = cells
    BY <2>1 DEF CaptureCell, memory
  <2>4. CapturedOne(closures[cur.closure].vars[j])
    BY <1>1, <2>2, <2>3
  <2> QED
    BY <2>1, <2>4, CaptureCellOwned
<1> QED
  BY <1>2, <1>3

(* Steps that change no variable.                                          *)
LEMMA QuietTurned ==
  ASSUME SInv, \/ CallTooDeep \/ EndLine \/ UNCHANGED vars
               \/ \E n \in 1 .. MaxCaptures : MakeClosure(n)
  PROVE  Turned /\ Structured'
<1>1. /\ IInv /\ regs \in [Addr -> Values] /\ cur.nextReg \in Nat /\ Len(home) <= MaxVars
  BY ControlTypes DEF SInv, VInv
<1>2. /\ UNCHANGED <<frames, scopeStarts, blocks, home, cells, ret>> /\ CapturesSame
      /\ Structured'
  <2>1. CASE EndLine
    BY <2>1, EndLineStructured, ClosuresSame DEF memory
  <2>2. CASE CallTooDeep \/ UNCHANGED vars
    <3>1. UNCHANGED <<cur, frames, scopeStarts, blocks, home, cells, closures, ret>>
      BY <2>2 DEF CallTooDeep, vars, control, memory
    <3>2. Structured'
      BY <3>1 DEF SInv, Structured, EntriesExact, CallerTop, Stale
    <3> QED
      BY <3>1, <3>2, ClosuresSame
  <2>3. CASE \E n \in 1 .. MaxCaptures : MakeClosure(n)
    <3>1. UNCHANGED <<cur, frames, scopeStarts, blocks, home, cells, ret>>
      BY <2>3 DEF MakeClosure, control, memory
    <3>2. Structured'
      BY <3>1 DEF SInv, Structured, EntriesExact, CallerTop, Stale
    <3> QED
      BY <1>1, <2>3, <3>1, <3>2, MakeClosureCaptures
  <2> QED
    BY <2>1, <2>2, <2>3
<1>3. \A u \in Live : regs'[home[u]] = regs[home[u]]
  <2>1. CASE CallTooDeep
    BY <1>1, <2>1, AboveLive DEF CallTooDeep
  <2>2. CASE EndLine
    BY <2>2, EndLineStructured
  <2>3. CASE UNCHANGED vars \/ \E n \in 1 .. MaxCaptures : MakeClosure(n)
    BY <2>3 DEF vars, MakeClosure
  <2> QED
    BY <2>1, <2>2, <2>3
<1>4. Live' = Live /\ HomesKept
  BY <1>2 DEF Live, DeclaredIn, HomesKept
<1> QED
  BY <1>1, <1>2, <1>3, <1>4 DEF Turned, CellsMoved, DeadClosed, LiveStay, OneBorn

-----------------------------------------------------------------------------
(* The invariant of programs without early exits.                          *)

(* What a step of such a program does to its variables.                    *)
VariablesStep ==
  \/ Turned
  \/ \E v : CapturedOne(v)
  \/ \E w \in Live \cup Held, x \in Vals : Written(w, x)
  \/ \E w \in Live \cup Held : Fetched(w)

LEMMA InitSInv == Leaves = {} /\ Init => SInv
<1> SUFFICES ASSUME Leaves = {}, Init PROVE SInv
  OBVIOUS
<1>1. VInv
  BY InitVInv
<1>2. Structured
  BY DEF Init, Structured, Stale, EntriesExact
<1>3. Captures = {} /\ cells = <<>>
  BY DEF Init, Captures
<1>4. CellsOwned
  BY <1>3 DEF CellsOwned
<1>5. Len(home) <= MaxVars
  BY ConstantsAssumption DEF Init
<1> QED
  BY <1>1, <1>2, <1>4, <1>5 DEF SInv

LEMMA TurnedOwned ==
  ASSUME SInv, Turned
  PROVE  CellsOwned'
<1>1. \A c \in DOMAIN cells : cells'[c].loc # Closed => cells[c].loc # Closed
  BY DEF Turned, CellsMoved, Close
<1> QED
  BY <1>1, OwnedKept DEF Turned, CellsMoved

(* A read or an assignment leaves the stacks and the cells' places alone.  *)
LEMMA AccessKeeps ==
  ASSUME SInv, NEW w, \/ \E x \in Vals : Written(w, x)
                      \/ Fetched(w)
  PROVE  CellsOwned' /\ Structured' /\ Len(home') <= MaxVars
<1>1. CapturesSame /\ UNCHANGED <<control, home>>
  BY DEF Written, Fetched
<1>2. Structured'
  BY <1>1 DEF control, SInv, Structured, EntriesExact, CallerTop, Stale
<1>3. DOMAIN cells' = DOMAIN cells /\ \A c \in DOMAIN cells : cells'[c].loc = cells[c].loc
  <2>1. CASE cells' = cells
    BY <2>1
  <2>2. CASE \E x \in Vals, c \in DOMAIN cells : cells' = [cells EXCEPT ![c].obj = x]
    <3>1. PICK x \in Vals, c \in DOMAIN cells : cells' = [cells EXCEPT ![c].obj = x]
      BY <2>2
    <3>2. cells[c] \in Cell
      BY DEF SInv, VInv, IInv, TypeOK
    <3> QED
      BY <3>1, <3>2 DEF Cell
  <2>3. \A kp \in Captures : CapturedCell(kp) \in DOMAIN cells
    BY CaptureFacts DEF SInv, VInv
  <2> QED
    BY <2>1, <2>2, <2>3 DEF Written, Fetched
<1>4. DeadClosed
  BY <1>1 DEF control, DeadClosed, Live, DeclaredIn
<1>5. CellsOwned'
  BY <1>1, <1>3, <1>4, OwnedKept
<1>6. Len(home') <= MaxVars
  BY <1>1 DEF SInv
<1> QED
  BY <1>2, <1>5, <1>6

(* Every step keeps the invariant and is one of the four kinds.            *)
LEMMA NextSInv == SInv /\ [Next]_vars => SInv' /\ VariablesStep
<1> SUFFICES ASSUME SInv, [Next]_vars PROVE SInv' /\ VariablesStep
  OBVIOUS
<1>1. VInv' /\ Leaves = {}
  BY NextVInv DEF SInv
<1>2. CASE Turned /\ Structured'
  BY <1>1, <1>2, TurnedOwned DEF SInv, Turned, VariablesStep
<1>3. CASE \/ \E v \in Capturable : CaptureLocal(v)
           \/ \E j \in DOMAIN OwnCells : CaptureCell(j)
  <2>1. CellsOwned' /\ \E v : CapturedOne(v)
    BY <1>3, CaptureHolds
  <2>2. UNCHANGED <<control, home>>
    BY <2>1 DEF CapturedOne
  <2>3. Structured' /\ Len(home') <= MaxVars
    BY <2>2 DEF control, SInv, Structured, EntriesExact, CallerTop, Stale
  <2> QED
    BY <1>1, <2>1, <2>3 DEF SInv, VariablesStep
<1>4. CASE \E w \in Live \cup Held : Fetched(w) \/ \E x \in Vals : Written(w, x)
  <2>1. CellsOwned' /\ Structured' /\ Len(home') <= MaxVars
    BY <1>4, AccessKeeps
  <2> QED
    BY <1>1, <1>4, <2>1 DEF SInv, VariablesStep
<1>5. CASE (\E x \in Vals : Declare(x) \/ EnterFor(x)) \/ EnterScope
  BY <1>1, <1>2, <1>5, BlockStructured, OpenTurned
<1>6. CASE (\E x \in Vals : UpdateIter(x)) \/ ExitScope
  BY <1>1, <1>2, <1>6, BlockStructured, CloseTurned
<1>7. CASE Return \/ FallOff
  <2>1. PICK file \in [Addr -> Values] : OpReturn(file) /\ Len(blocks) = cur.base
    BY <1>1, <1>7, EndsOfFunctions DEF SInv, VInv
  <2>2. Structured'
    BY <2>1, ReturnStructured
  <2>3. Turned
    BY <1>1, <1>7, CloseTurned
  <2> QED
    BY <1>2, <2>2, <2>3
<1>8. CASE \E c \in 0 .. Len(closures), args \in {<<>>} \cup {<<x>> : x \in Vals} : Call(c, args)
  BY <1>2, <1>8, CallStructured, CallTurned
<1>9. CASE \/ CallTooDeep \/ EndLine \/ UNCHANGED vars
           \/ \E n \in 1 .. MaxCaptures : MakeClosure(n)
  BY <1>2, <1>9, QuietTurned
<1>10. CASE \/ \E v \in Visible : GetLocal(v)
            \/ \E j \in DOMAIN OwnCells : GetCell(OwnCells[j])
  BY <1>4, <1>10, ReadFetches
<1>11. CASE \/ \E v \in Visible, x \in Vals : SetLocal(v, x)
            \/ \E j \in DOMAIN OwnCells, x \in Vals : SetCell(OwnCells[j], x)
  BY <1>4, <1>11, AssignWrites
<1>12. ~Error /\ \A k \in DOMAIN blocks : ~Leave(k)
  BY <1>1 DEF Error, Leave
<1> QED
  BY <1>3, <1>5, <1>6, <1>7, <1>8, <1>9, <1>10, <1>11, <1>12 DEF Next

(* Without early exits the scope starts are those of the open blocks and   *)
(* every open cell is that of a variable in scope.                         *)
THEOREM ScopesStructured == Leaves = {} /\ Spec => []SInv
<1>1. Leaves = {} /\ Init => SInv
  BY InitSInv
<1>2. SInv /\ [Next]_vars => SInv'
  BY NextSInv
<1> QED
  BY <1>1, <1>2, PTL DEF Spec

-----------------------------------------------------------------------------
(* The refinement of CapturedVariables.                                    *)

(* What a variable contains: its register's value while it is in scope,    *)
(* and any of its cells' afterwards.                                       *)
ContentIs ==
  /\ \A u \in 1 .. MaxVars :
       /\ u \notin DOMAIN home => Content(u) = "unborn"
       /\ u \in Live => Content(u) = regs[home[u]]
       /\ u \in DOMAIN home /\ u \notin Live \cup Held => Content(u) = "gone"
       /\ u \in Live \cup Held => Content(u) \in Values
  /\ \A kp \in Captures : CapturedVar(kp) \notin Live =>
       Content(CapturedVar(kp)) = cells[CapturedCell(kp)].obj
  /\ Live \cup Held \subseteq DOMAIN home
  /\ DOMAIN home \subseteq 1 .. MaxVars

LEMMA ContentFacts == SInv => ContentIs
<1> SUFFICES ASSUME SInv PROVE ContentIs
  OBVIOUS
<1>1. /\ IInv /\ home \in Seq(Addr) /\ regs \in [Addr -> Values]
      /\ \A c \in DOMAIN cells : cells[c].obj \in Values
  BY ElementTypes DEF SInv, VInv, IInv, TypeOK
<1>2. Live \cup Held \subseteq DOMAIN home
  BY <1>1, AboveLive, CaptureFacts DEF Held
<1>3. DOMAIN home \subseteq 1 .. MaxVars
  <2>1. DOMAIN home = 1 .. Len(home) /\ Len(home) \in Nat /\ MaxVars \in Nat /\ Len(home) <= MaxVars
    BY <1>1, ConstantsAssumption DEF SInv
  <2> QED
    BY ONLY <2>1
<1>4. ASSUME NEW u, u \in Live
      PROVE  Content(u) = regs[home[u]] /\ Content(u) \in Values
  <2>1. u \in DOMAIN home /\ home[u] \in Addr
    BY <1>4, AboveLive
  <2> QED
    BY <1>1, <1>4, <2>1 DEF Content
<1>5. ASSUME NEW kp \in Captures, CapturedVar(kp) \notin Live
      PROVE  /\ Content(CapturedVar(kp)) = cells[CapturedCell(kp)].obj
             /\ Content(CapturedVar(kp)) \in Values
  <2>1. PICK v : v = CapturedVar(kp)
    OBVIOUS
  <2>2. PICK lq : lq = CHOOSE mq \in Captures : CapturedVar(mq) = v
    OBVIOUS
  <2>3. lq \in Captures /\ CapturedVar(lq) = v
    BY <2>1, <2>2
  <2>4. CapturedCell(lq) = CapturedCell(kp)
    BY <2>1, <2>3 DEF SInv, VInv, OneCellPerVariable
  <2>5. cells[CapturedCell(lq)].loc = Closed /\ CapturedCell(lq) \in DOMAIN cells
    BY <1>5, <2>1, <2>3, CellPlace
  <2>6. v \in DOMAIN home /\ v \in Held
    BY <1>1, <2>1, CaptureFacts
  <2>7. Content(v) = cells[CapturedCell(lq)].obj
    BY <1>5, <2>1, <2>2, <2>5, <2>6 DEF Content
  <2> QED
    BY <1>1, <2>1, <2>4, <2>5, <2>7
<1>6. ASSUME NEW u \in Live \cup Held
      PROVE  Content(u) \in Values
  BY <1>4, <1>5, <1>6 DEF Held
<1>7. \A u : u \notin DOMAIN home => Content(u) = "unborn"
  BY DEF Content
<1>8. \A u : u \in DOMAIN home /\ u \notin Live \cup Held => Content(u) = "gone"
  BY DEF Content
<1> QED
  BY <1>2, <1>3, <1>4, <1>5, <1>6, <1>7, <1>8 DEF ContentIs

(* A declared variable keeps its content when blocks come and go, unless   *)
(* its scope ends and no closure holds it.                                 *)
LEMMA TurnedContent ==
  ASSUME SInv, ContentIs, ContentIs', Turned, NEW u \in DOMAIN home
  PROVE  Content(u)' = IF u \in Live /\ u \notin Live' /\ u \notin Held
                       THEN "gone" ELSE Content(u)
<1>1. /\ u \in 1 .. MaxVars /\ u \in DOMAIN home' /\ home'[u] = home[u]
      /\ u \in Live' => u \in Live /\ regs'[home[u]] = regs[home[u]]
      /\ CapturesSame
  BY DEF Turned, HomesKept, LiveStay, ContentIs
<1>2. Held' = Held
  BY <1>1 DEF CapturesSame, Held
<1>3. CASE u \in Live'
  BY <1>1, <1>3 DEF ContentIs
<1>4. CASE u \notin Live' /\ u \in Held
  <2>1. PICK kp \in Captures : CapturedVar(kp) = u
    BY <1>4 DEF Held
  <2>2. PICK c : c = CapturedCell(kp)
    OBVIOUS
  <2>3. c \in DOMAIN cells
    BY <2>1, <2>2, CellPlace
  <2>4. Content(u)' = cells'[c].obj
    BY <1>1, <1>4, <2>1, <2>2 DEF CapturesSame, ContentIs
  <2>5. CASE u \in Live
    <3>1. cells[c].loc = home[u] /\ cells[c].loc # Closed
      BY <2>1, <2>2, <2>5, CellPlace
    <3>2. cells'[c].loc = Closed
      BY <1>4, <2>3, <2>5, <3>1 DEF Turned, DeadClosed
    <3>3. cells'[c] = Close(c, regs)
      BY <2>3, <3>1, <3>2 DEF Turned, CellsMoved
    <3>4. cells'[c].obj = regs[home[u]]
      BY <3>1, <3>3 DEF Close
    <3> QED
      BY <1>1, <1>4, <2>4, <2>5, <3>4 DEF ContentIs
  <2>6. CASE u \notin Live
    <3>1. cells[c].loc = Closed
      BY <2>1, <2>2, <2>6, CellPlace
    <3>2. cells'[c] = cells[c]
      BY <2>3, <3>1 DEF Turned, CellsMoved
    <3>3. Content(u) = cells[c].obj
      BY <2>1, <2>2, <2>6 DEF ContentIs
    <3> QED
      BY <2>4, <2>6, <3>2, <3>3
  <2> QED
    BY <2>5, <2>6
<1>5. CASE u \notin Live' /\ u \notin Held
  <2>1. Content(u)' = "gone"
    BY <1>1, <1>2, <1>5 DEF ContentIs
  <2>2. u \notin Live => Content(u) = "gone"
    BY <1>1, <1>5 DEF ContentIs
  <2> QED
    BY <1>5, <2>1, <2>2
<1> QED
  BY <1>3, <1>4, <1>5

(* Blocks that come and go are declarations and ends of scopes.            *)
LEMMA TurnoverStep ==
  ASSUME SInv, ContentIs, ContentIs', Turned
  PROVE  Abstract!Turnover
<1> DEFINE lost == {u \in Live : u \notin Live' /\ u \notin Held}
           store == [u \in 1 .. MaxVars |-> Content(u)]
<1>1. Held' = Held /\ ret' = ret
  BY DEF Turned, CapturesSame, Held
<1>2. \A u \in DOMAIN home : Content(u)' = IF u \in lost THEN "gone" ELSE Content(u)
  BY TurnedContent
<1>3. \A u \in 1 .. MaxVars : u \notin DOMAIN home => u \notin lost /\ Content(u) = "unborn"
  BY DEF ContentIs
<1>4. \A u \in 1 .. MaxVars : u \notin DOMAIN home' => Content(u)' = "unborn"
  BY DEF ContentIs
<1>5. lost \in SUBSET (Abstract!Reachable \ Held)
  <2> SUFFICES ASSUME NEW u \in lost PROVE u \in Abstract!Reachable \ Held
    OBVIOUS
  <2>1. u \in 1 .. MaxVars /\ u \in Live /\ u \notin Held
    BY DEF ContentIs
  <2>2. Content(u) \in Values
    BY <2>1 DEF ContentIs
  <2> QED
    BY <2>1, <2>2, MarkersAssumption DEF Abstract!Reachable
<1> HIDE DEF lost
<1>6. CASE DOMAIN home' = DOMAIN home
  <2>1. \A u \in 1 .. MaxVars : Content(u)' = IF u \in lost THEN "gone" ELSE Content(u)
    BY <1>2, <1>3, <1>4, <1>6
  <2>2. Abstract!Death(lost)
    BY <1>1, <2>1 DEF Abstract!Death
  <2> QED
    BY <1>5, <2>2 DEF Abstract!Turnover
<1>7. CASE /\ DOMAIN home' = DOMAIN home \cup {Len(home) + 1}
           /\ Len(home) + 1 \in Live' /\ regs'[home'[Len(home) + 1]] \in Vals
  <2>1. PICK v, x : v = Len(home) + 1 /\ x = regs'[home'[v]]
    OBVIOUS
  <2>2. v \in 1 .. MaxVars /\ x \in Vals /\ v \in Live' /\ v \notin DOMAIN home
    <3>1. home \in Seq(Addr)
      BY ControlTypes DEF SInv, VInv
    <3> QED
      BY <1>7, <2>1, <3>1 DEF ContentIs
  <2>3. Content(v)' = x /\ Content(v) = "unborn"
    BY <1>3, <2>1, <2>2 DEF ContentIs
  <2>4. \A u \in 1 .. MaxVars :
           Content(u)' = IF u = v THEN x ELSE IF u \in lost THEN "gone" ELSE Content(u)
    BY <1>2, <1>3, <1>4, <1>7, <2>1, <2>3
  <2>5. Abstract!Birth(v, x, lost)
    BY <1>1, <2>2, <2>3, <2>4 DEF Abstract!Birth
  <2> QED
    BY <1>5, <2>2, <2>5 DEF Abstract!Turnover
<1> QED
  BY <1>6, <1>7 DEF Turned, OneBorn

(* A variable in scope or held by a closure can be reached.                *)
LEMMA InReach ==
  ASSUME ContentIs, NEW v \in Live \cup Held
  PROVE  v \in Abstract!Reachable
<1>1. v \in 1 .. MaxVars /\ Content(v) \in Values
  BY DEF ContentIs
<1> QED
  BY <1>1, MarkersAssumption DEF Abstract!Reachable

(* A capture changes no variable.                                          *)
LEMMA CaptureRefines ==
  ASSUME SInv, ContentIs, ContentIs', NEW v, CapturedOne(v)
  PROVE  Abstract!Capture
<1>1. /\ v \in Live \cup Held /\ Held' = Held \cup {v} /\ home' = home /\ regs' = regs
      /\ ret' = ret /\ Live' = Live
  BY DEF CapturedOne, control, Live, DeclaredIn
<1>2. ASSUME NEW u \in 1 .. MaxVars
      PROVE  Content(u)' = Content(u)
  <2>1. CASE u \in Live
    BY <1>1, <2>1 DEF ContentIs
  <2>2. CASE u \notin Live /\ u \in Held
    <3>1. PICK kp \in Captures : CapturedVar(kp) = u
      BY <2>2 DEF Held
    <3>2. /\ kp \in Captures' /\ CapturedVar(kp)' = u /\ CapturedCell(kp)' = CapturedCell(kp)
          /\ cells'[CapturedCell(kp)] = cells[CapturedCell(kp)]
      BY <3>1, CellPlace DEF CapturedOne
    <3>3. Content(u)' = cells'[CapturedCell(kp)].obj
      BY <1>1, <2>2, <3>2 DEF ContentIs
    <3>4. Content(u) = cells[CapturedCell(kp)].obj
      BY <2>2, <3>1 DEF ContentIs
    <3> QED
      BY <3>2, <3>3, <3>4
  <2>3. CASE u \in DOMAIN home /\ u \notin Live \cup Held
    BY <1>1, <2>3 DEF ContentIs
  <2>4. CASE u \notin DOMAIN home
    BY <1>1, <2>4 DEF ContentIs
  <2> QED
    BY <2>1, <2>2, <2>3, <2>4
<1>3. v \in Abstract!Reachable
  BY <1>1, InReach
<1> QED
  BY <1>1, <1>2, <1>3 DEF Abstract!Capture

(* An assignment, wherever the variable is, changes it and no other.       *)
LEMMA AssignRefines ==
  ASSUME SInv, ContentIs, ContentIs', NEW w \in Live \cup Held, NEW x \in Vals, Written(w, x)
  PROVE  Abstract!Assign
<1>1. /\ home' = home /\ ret' = ret /\ Live' = Live /\ CapturesSame
  BY DEF Written, control, Live, DeclaredIn
<1>2. Held' = Held
  BY <1>1 DEF CapturesSame, Held
<1>3. regs \in [Addr -> Values] /\ \A c \in DOMAIN cells : cells[c] \in Cell
  BY DEF SInv, VInv, IInv, TypeOK
<1>4. ASSUME NEW u \in 1 .. MaxVars
      PROVE  Content(u)' = IF u = w THEN x ELSE Content(u)
  <2>1. CASE u \in Live
    <3>1. Content(u)' = regs'[home[u]] /\ Content(u) = regs[home[u]] /\ home[u] \in Addr
      BY <1>1, <2>1, AboveLive DEF ContentIs
    <3>2. CASE w \in Live
      <4>1. regs' = [regs EXCEPT ![home[w]] = x]
        BY <3>2 DEF Written
      <4>2. u # w => home[u] # home[w]
        BY <2>1, <3>2, LiveDisjoint DEF SInv, RegistersDisjoint
      <4> QED
        BY <1>3, <3>1, <4>1, <4>2
    <3>3. CASE w \notin Live
      BY <2>1, <3>1, <3>3 DEF Written
    <3> QED
      BY <3>2, <3>3
  <2>2. CASE u \notin Live /\ u \in Held
    <3>1. PICK kp \in Captures : CapturedVar(kp) = u
      BY <2>2 DEF Held
    <3>2. /\ Content(u)' = cells'[CapturedCell(kp)].obj
          /\ Content(u) = cells[CapturedCell(kp)].obj
          /\ CapturedCell(kp) \in DOMAIN cells
      BY <1>1, <2>2, <3>1, CellPlace DEF ContentIs, CapturesSame
    <3>3. CASE w \in Live
      BY <2>2, <3>2, <3>3 DEF Written
    <3>4. CASE w \notin Live
      <4>1. PICK lq \in Captures : /\ CapturedVar(lq) = w
                                   /\ cells' = [cells EXCEPT ![CapturedCell(lq)].obj = x]
        BY <3>4 DEF Written
      <4>2. u = w <=> CapturedCell(kp) = CapturedCell(lq)
        BY <3>1, <4>1 DEF SInv, VInv, OneCellPerVariable, CellsOwned
      <4> QED
        BY <1>3, <3>2, <4>1, <4>2 DEF Cell
    <3> QED
      BY <3>3, <3>4
  <2>3. CASE u \in DOMAIN home /\ u \notin Live \cup Held
    BY <1>1, <1>2, <2>3 DEF ContentIs
  <2>4. CASE u \notin DOMAIN home
    BY <1>1, <2>4 DEF ContentIs
  <2> QED
    BY <2>1, <2>2, <2>3, <2>4
<1>5. w \in Abstract!Reachable
  BY InReach
<1> QED
  BY <1>1, <1>2, <1>4, <1>5 DEF Abstract!Assign

(* A read returns the variable's content, wherever the variable is.        *)
LEMMA ReadRefines ==
  ASSUME SInv, ContentIs, ContentIs', NEW w \in Live \cup Held, Fetched(w)
  PROVE  Abstract!Read
<1>1. /\ home' = home /\ Live' = Live /\ CapturesSame /\ regs' = regs /\ cells' = cells
  BY DEF Fetched, control, Live, DeclaredIn
<1>2. Held' = Held
  BY <1>1 DEF CapturesSame, Held
<1>3. ASSUME NEW u \in 1 .. MaxVars
      PROVE  Content(u)' = Content(u)
  <2>1. CASE u \in Live
    BY <1>1, <2>1 DEF ContentIs
  <2>2. CASE u \notin Live /\ u \in Held
    <3>1. PICK kp \in Captures : CapturedVar(kp) = u
      BY <2>2 DEF Held
    <3> QED
      BY <1>1, <2>2, <3>1 DEF ContentIs, CapturesSame
  <2>3. CASE u \in DOMAIN home /\ u \notin Live \cup Held
    BY <1>1, <1>2, <2>3 DEF ContentIs
  <2>4. CASE u \notin DOMAIN home
    BY <1>1, <2>4 DEF ContentIs
  <2> QED
    BY <2>1, <2>2, <2>3, <2>4
<1>4. w \in Abstract!Reachable /\ w \in 1 .. MaxVars
  BY InReach DEF ContentIs
<1>5. ret' = Content(w)
  BY <1>4 DEF Fetched, ContentIs
<1> QED
  BY <1>2, <1>3, <1>4, <1>5 DEF Abstract!Read

-----------------------------------------------------------------------------
(* Programs without early exits.                                           *)

(* OP_UPDATE_ITER cleans up from the loop's own register on: its entry is  *)
(* the last of scopeStarts.  With early exits it need not be, and the      *)
(* closures of two iterations may share a variable (loops_after_return).   *)
THEOREM IterationsApart == Leaves = {} /\ Spec => IterationsIndependent
<1>1. ASSUME SInv, [Next]_vars
      PROVE  [(\E x \in Vals : UpdateIter(x)) =>
                 \A i \in DOMAIN activeCells' : cells'[activeCells'[i]].loc # Block.start]_vars
  <2> SUFFICES ASSUME \E x \in Vals : UpdateIter(x)
               PROVE  \A i \in DOMAIN activeCells' : cells'[activeCells'[i]].loc # Block.start
    OBVIOUS
  <2>1. CloseCells(Block.start, regs) /\ \A r \in Addr : regs[r] \in Values
    BY <1>1, LimitExact, ControlTypes DEF UpdateIter, SInv, VInv
  <2>2. Block.start \in Nat
    <3>1. Len(blocks) \in 1 .. Len(blocks)
      BY <1>1, ControlTypes DEF SInv, VInv
    <3> QED
      BY <1>1, <3>1, Numbers DEF Block, SInv, VInv
  <2>3. \A i \in DOMAIN activeCells' : cells'[activeCells'[i]].loc < Block.start
    BY <1>1, <2>1, <2>2, CloseCellsFacts DEF SInv, VInv, IInv
  <2> QED
    BY <2>2, <2>3
<1> QED
  BY <1>1, ScopesStructured, PTL DEF Spec, IterationsIndependent

(* Every step of the machine is a step of the abstract variables.          *)
LEMMA StepRefines ==
  ASSUME SInv, ContentIs, ContentIs', VariablesStep
  PROVE  [Abstract!Next]_(Abstract!vars)
<1>1. CASE Turned
  BY <1>1, TurnoverStep DEF Abstract!Next
<1>2. CASE \E v : CapturedOne(v)
  BY <1>2, CaptureRefines DEF Abstract!Next
<1>3. CASE \E w \in Live \cup Held, x \in Vals : Written(w, x)
  BY <1>3, AssignRefines DEF Abstract!Next
<1>4. CASE \E w \in Live \cup Held : Fetched(w)
  BY <1>4, ReadRefines DEF Abstract!Next
<1> QED
  BY <1>1, <1>2, <1>3, <1>4 DEF VariablesStep

(* For programs without early exits, registers that are reused and cells   *)
(* that are closed when a scope ends implement variables that live for as  *)
(* long as their scope is open or some closure holds them.  Leaves = {}    *)
(* also excludes the functions that fall off their end with their first    *)
(* parameter captured, which lose it.                                      *)
THEOREM MachineImplementsVariables == Leaves = {} /\ Spec => ImplementsVariables
<1>1. Init => Abstract!Init
  <2> SUFFICES ASSUME Init PROVE Abstract!Init
    OBVIOUS
  <2>1. Held = {}
    BY DEF Init, Held, Captures
  <2>2. \A u \in 1 .. MaxVars : Content(u) = "unborn"
    BY DEF Init, Content
  <2> QED
    BY <2>1, <2>2 DEF Init, Abstract!Init
<1>2. SInv => ContentIs
  BY ContentFacts
<1>3. SInv /\ ContentIs /\ ContentIs' /\ [Next]_vars => [Abstract!Next]_(Abstract!vars)
  BY NextSInv, StepRefines
<1>4. SInv /\ [Next]_vars => SInv'
  BY NextSInv
<1> QED
  BY <1>1, <1>2, <1>3, <1>4, ScopesStructured, PTL
     DEF Spec, ImplementsVariables, Abstract!Spec
=============================================================================
