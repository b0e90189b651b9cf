----------------------- MODULE ReplDeclarations_proofs -----------------------
(***************************************************************************)
(* Proofs about ReplDeclarations, for any names, numbers of registers,     *)
(* lengths of a line and sets of features: types and the VM's note of a    *)
(* declaration; then what a line that fails leaves of the names of earlier *)
(* lines and of its own; and that the roll-back is exact in sessions where *)
(* lines declare new names and only initialisers fail: the compiler knows  *)
(* the variables whose declarations the VM has executed, and they keep     *)
(* their registers.                                                        *)
(***************************************************************************)
EXTENDS ReplDeclarations, SequenceTheorems, TLAPS

(* The instructions that lines are compiled to.                            *)
Starts == [op : {"DEF_START"}, index : Nat]
Ends == [op : {"DEF_END"}]
Loads == [op : {"LOAD"}, reg : Regs, name : Names]
Homes == UNION {[S -> Regs] : S \in SUBSET Names}
Evals == [op : {"EVAL"}, temps : SUBSET Int, home : Homes, inner : SUBSET Nat, fresh : SUBSET Names]
Imports == [op : {"MODULE"}, temps : SUBSET Int, home : Homes, inner : SUBSET Nat,
            fresh : SUBSET Names, entry : BOOLEAN]
Instr == Starts \cup Ends \cup Loads \cup Evals \cup Imports

(* A declaration that is started is ended further down.                    *)
Bracketed(c) ==
  \A i \in DOMAIN c : c[i].op = "DEF_START" => \E j \in DOMAIN c : j > i /\ c[j].op = "DEF_END"

(* There is room for the second register of each function still hoisted.   *)
Room == phase = "compiling" => nextReg + Len(hoisted) < NumRegs

(* A declaration being run ends in the code that is still to be run.       *)
EndAhead ==
  phase = "running" /\ inDeclaration =>
    \E j \in DOMAIN code : j >= ip /\ code[j].op = "DEF_END"

TInv ==
  /\ TypeOK /\ NoStaleDeclaration
  /\ code \in Seq(Instr) /\ Bracketed(code)
  /\ Room /\ EndAhead

-----------------------------------------------------------------------------
(* Instructions.                                                           *)

LEMMA InstrFacts ==
  ASSUME NEW x \in Instr
  PROVE  /\ x.op = "DEF_START" => x.index \in Nat
         /\ x.op = "LOAD" => x.reg \in Regs /\ x.name \in Names
         /\ x.op \in {"EVAL", "MODULE"} => DOMAIN x.home \subseteq Names /\ x.inner \subseteq Nat
<1>1. CASE x \in Starts
  BY <1>1 DEF Starts
<1>2. CASE x \in Ends
  BY <1>2 DEF Ends
<1>3. CASE x \in Loads
  BY <1>3 DEF Loads
<1>4. CASE x \in Evals
  <2>1. x.home \in Homes /\ x.inner \subseteq Nat /\ x.op = "EVAL"
    BY <1>4 DEF Evals
  <2> QED
    BY <2>1 DEF Homes
<1>5. CASE x \in Imports
  <2>1. x.home \in Homes /\ x.inner \subseteq Nat /\ x.op = "MODULE"
    BY <1>5 DEF Imports
  <2> QED
    BY <2>1 DEF Homes
<1> QED
  BY <1>1, <1>2, <1>3, <1>4, <1>5 DEF Instr

(* The instructions that statements are made of.                           *)
LEMMA InstrTypes ==
  /\ \A i \in Nat : DefStart(i) \in Instr
  /\ DefEnd \in Instr
  /\ \A r \in Regs, n \in Names : Load(r, n) \in Instr
  /\ \A temps \in SUBSET Int, home \in Homes, inner \in SUBSET Nat, fresh \in SUBSET Names :
       Eval(temps, home, inner, fresh) \in Instr
  /\ \A temps \in SUBSET Int, home \in Homes, entry \in BOOLEAN :
       Import(temps, home, entry) \in Instr
<1>1. \A i \in Nat : DefStart(i) \in Starts
  BY DEF DefStart, Starts
<1>2. DefEnd \in Ends
  BY DEF DefEnd, Ends
<1>3. \A r \in Regs, n \in Names : Load(r, n) \in Loads
  BY DEF Load, Loads
<1>4. \A temps \in SUBSET Int, home \in Homes, inner \in SUBSET Nat, fresh \in SUBSET Names :
       Eval(temps, home, inner, fresh) \in Evals
  BY DEF Eval, Evals
<1>5. \A temps \in SUBSET Int, home \in Homes, entry \in BOOLEAN :
       Import(temps, home, entry) \in Imports
  <2> SUFFICES ASSUME NEW temps \in SUBSET Int, NEW home \in Homes, NEW entry \in BOOLEAN
               PROVE  Import(temps, home, entry) \in Imports
    OBVIOUS
  <2>1. DOMAIN home \in SUBSET Names /\ {} \in SUBSET Nat
    BY DEF Homes
  <2> QED
    BY <2>1 DEF Import, Imports
<1> QED
  BY <1>1, <1>2, <1>3, <1>4, <1>5 DEF Instr

(* The code d is c and a declaration that is noted with k and does m.      *)
Wrapped(c, d, k, m) ==
  /\ d \in Seq(Instr) /\ Len(d) = Len(c) + Len(m) + 2
  /\ \A i \in 1 .. Len(c) : d[i] = c[i]
  /\ d[Len(c) + 1] = DefStart(k)
  /\ \A i \in 1 .. Len(m) : d[Len(c) + 1 + i] = m[i]
  /\ d[Len(c) + Len(m) + 2] = DefEnd

LEMMA WrapMany ==
  ASSUME NEW c \in Seq(Instr), NEW k \in Nat, NEW m \in Seq(Instr)
  PROVE  Wrapped(c, c \o <<DefStart(k)>> \o m \o <<DefEnd>>, k, m)
<1>1. DefStart(k) \in Instr /\ DefEnd \in Instr
  BY InstrTypes
<1> DEFINE s == <<DefStart(k)>>
<1>2. s = <<DefStart(k)>>
  OBVIOUS
<1> HIDE DEF s
<1> DEFINE e == <<DefEnd>>
<1>3. e = <<DefEnd>>
  OBVIOUS
<1> HIDE DEF e
<1>4. s \in Seq(Instr) /\ e \in Seq(Instr)
  BY <1>1, <1>2, <1>3
<1>l. Len(s) = 1 /\ s[1] = DefStart(k) /\ Len(e) = 1 /\ e[1] = DefEnd
  BY <1>2, <1>3
<1> DEFINE a == c \o s
<1>5. a = c \o s
  OBVIOUS
<1> HIDE DEF a
<1> DEFINE b == a \o m
<1>6. b = a \o m
  OBVIOUS
<1> HIDE DEF b
<1> DEFINE d == b \o e
<1>7. d = b \o e
  OBVIOUS
<1> HIDE DEF d
<1>a. a \in Seq(Instr)
  BY <1>4, <1>5
<1>b. b \in Seq(Instr)
  BY <1>a, <1>6
<1>8. /\ Len(a) = Len(c) + Len(s) /\ \A i \in 1 .. Len(c) : a[i] = c[i]
      /\ \A i \in 1 .. Len(s) : a[Len(c) + i] = s[i]
  BY <1>4, <1>5
<1>9. /\ Len(b) = Len(a) + Len(m) /\ \A i \in 1 .. Len(a) : b[i] = a[i]
      /\ \A i \in 1 .. Len(m) : b[Len(a) + i] = m[i]
  BY <1>a, <1>6
<1>10. /\ d \in Seq(Instr) /\ Len(d) = Len(b) + Len(e) /\ \A i \in 1 .. Len(b) : d[i] = b[i]
       /\ \A i \in 1 .. Len(e) : d[Len(b) + i] = e[i]
  BY <1>4, <1>7, <1>b
<1>11. Len(c) \in Nat /\ Len(m) \in Nat
  OBVIOUS
<1>12. Wrapped(c, d, k, m)
  BY <1>a, <1>b, <1>l, <1>8, <1>9, <1>10, <1>11 DEF Wrapped
<1> QED
  BY <1>12 DEF s, e, a, b, d

LEMMA WrapOne ==
  ASSUME NEW c \in Seq(Instr), NEW k \in Nat, NEW x \in Instr
  PROVE  Wrapped(c, c \o <<DefStart(k), x, DefEnd>>, k, <<x>>)
<1>1. DefStart(k) \in Instr /\ DefEnd \in Instr
  BY InstrTypes
<1> DEFINE t == <<DefStart(k), x, DefEnd>>
<1>2. t = <<DefStart(k), x, DefEnd>>
  OBVIOUS
<1> HIDE DEF t
<1>3. t \in Seq(Instr)
  BY <1>1, <1>2
<1>l. Len(t) = 3 /\ t[1] = DefStart(k) /\ t[2] = x /\ t[3] = DefEnd
  BY <1>2
<1> DEFINE d == c \o t
<1>4. d = c \o t
  OBVIOUS
<1> HIDE DEF d
<1>5. /\ d \in Seq(Instr) /\ Len(d) = Len(c) + Len(t) /\ \A i \in 1 .. Len(c) : d[i] = c[i]
      /\ \A i \in 1 .. Len(t) : d[Len(c) + i] = t[i]
  BY <1>3, <1>4
<1> DEFINE m == <<x>>
<1>6. m = <<x>>
  OBVIOUS
<1> HIDE DEF m
<1>7. Len(m) = 1 /\ m[1] = x /\ Len(c) \in Nat
  BY <1>6
<1>8. Wrapped(c, d, k, m)
  BY <1>3, <1>l, <1>5, <1>7 DEF Wrapped
<1> QED
  BY <1>8 DEF t, d, m

LEMMA WrapNone ==
  ASSUME NEW c \in Seq(Instr), NEW k \in Nat
  PROVE  Wrapped(c, c \o <<DefStart(k), DefEnd>>, k, <<>>)
<1>1. DefStart(k) \in Instr /\ DefEnd \in Instr
  BY InstrTypes
<1> DEFINE t == <<DefStart(k), DefEnd>>
<1>2. t = <<DefStart(k), DefEnd>>
  OBVIOUS
<1> HIDE DEF t
<1>3. t \in Seq(Instr)
  BY <1>1, <1>2
<1>l. Len(t) = 2 /\ t[1] = DefStart(k) /\ t[2] = DefEnd
  BY <1>2
<1> DEFINE d == c \o t
<1>4. d = c \o t
  OBVIOUS
<1> HIDE DEF d
<1>5. /\ d \in Seq(Instr) /\ Len(d) = Len(c) + Len(t) /\ \A i \in 1 .. Len(c) : d[i] = c[i]
      /\ \A i \in 1 .. Len(t) : d[Len(c) + i] = t[i]
  BY <1>3, <1>4
<1>6. Len(<<>>) = 0 /\ Len(c) \in Nat
  OBVIOUS
<1>7. Wrapped(c, d, k, <<>>)
  BY <1>3, <1>l, <1>5, <1>6 DEF Wrapped
<1> QED
  BY <1>7 DEF t, d

(* A declaration keeps the code bracketed.                                 *)
LEMMA WrappedBracketed ==
  ASSUME NEW c \in Seq(Instr), Bracketed(c), NEW d, NEW k \in Nat, NEW m \in Seq(Instr),
         Wrapped(c, d, k, m), \A i \in DOMAIN m : m[i].op # "DEF_START"
  PROVE  d \in Seq(Instr) /\ Bracketed(d)
<1> DEFINE last == Len(c) + Len(m) + 2
<1>1. DefEnd.op = "DEF_END" /\ d[last] = DefEnd
  BY DEF DefEnd, Wrapped
<1>2. d \in Seq(Instr) /\ DOMAIN d = 1 .. last /\ last \in Nat \ {0}
  BY DEF Wrapped
<1> HIDE DEF last
<1> SUFFICES ASSUME NEW i \in DOMAIN d, d[i].op = "DEF_START"
             PROVE  last \in DOMAIN d /\ last > i /\ d[last].op = "DEF_END"
  BY <1>2 DEF Bracketed
<1>3. i # last
  BY <1>1
<1> QED
  BY <1>1, <1>2, <1>3

(* So does an instruction that starts none.                                *)
LEMMA AppendedBracketed ==
  ASSUME NEW c \in Seq(Instr), Bracketed(c), NEW x \in Instr, x.op # "DEF_START"
  PROVE  Append(c, x) \in Seq(Instr) /\ Bracketed(Append(c, x))
<1> DEFINE d == Append(c, x)
<1>1. /\ d \in Seq(Instr) /\ Len(c) \in Nat /\ DOMAIN d = 1 .. Len(c) + 1
      /\ d[Len(c) + 1] = x /\ \A i \in 1 .. Len(c) : d[i] = c[i]
  OBVIOUS
<1> HIDE DEF d
<1> SUFFICES ASSUME NEW i \in DOMAIN d, d[i].op = "DEF_START"
             PROVE  \E j \in DOMAIN d : j > i /\ d[j].op = "DEF_END"
  BY <1>1 DEF Bracketed, d
<1>2. i \in DOMAIN c /\ c[i].op = "DEF_START"
  BY <1>1
<1>3. PICK j \in DOMAIN c : j > i /\ c[j].op = "DEF_END"
  BY <1>2 DEF Bracketed
<1>4. j \in DOMAIN d /\ d[j] = c[j]
  BY <1>1, <1>3
<1> QED
  BY <1>3, <1>4

-----------------------------------------------------------------------------
(* The start of a line.                                                    *)

(* What a line may hoist, or declare at a time.                            *)
Lists == {<<>>} \cup {<<n>> : n \in Names} \cup (Names \X Names)

LEMMA ListFacts ==
  ASSUME NEW ns \in Lists
  PROVE  /\ ns \in Seq(Names) /\ Len(ns) \in {0, 1, 2}
         /\ DOMAIN ns = 1 .. Len(ns) /\ \A i \in DOMAIN ns : ns[i] \in Names
<1>1. CASE ns = <<>>
  BY <1>1
<1>2. CASE \E n \in Names : ns = <<n>>
  BY <1>2
<1>3. CASE ns \in Names \X Names
  <2>1. PICK m \in Names, n \in Names : ns = <<m, n>>
    BY <1>3
  <2> QED
    BY <2>1
<1> QED
  BY <1>1, <1>2, <1>3 DEF Lists

(* The last of the positions of a name.                                    *)
LEMMA LastPosition ==
  ASSUME NEW ns \in Lists, NEW n \in ToSet(ns)
  PROVE  /\ Max({i \in DOMAIN ns : ns[i] = n}) \in DOMAIN ns
         /\ ns[Max({i \in DOMAIN ns : ns[i] = n})] = n
<1> DEFINE S == {i \in DOMAIN ns : ns[i] = n}
<1>1. DOMAIN ns = 1 .. Len(ns) /\ Len(ns) \in {0, 1, 2}
  BY ListFacts
<1>2. S # {} /\ S \subseteq {1, 2}
  BY <1>1 DEF ToSet
<1> HIDE DEF S
<1>3. \E x \in S : \A y \in S : x >= y
  <2>1. CASE 2 \in S
    BY <1>2, <2>1
  <2>2. CASE 2 \notin S
    <3>1. 1 \in S /\ \A y \in S : y = 1
      BY <1>2, <2>2
    <3> QED
      BY <3>1
  <2> QED
    BY <2>1, <2>2
<1>4. Max(S) \in S
  BY <1>3 DEF Max
<1> QED
  BY <1>4 DEF S

(* The roll-back takes names out, and gives registers back.                *)
LEMMA ClearedFacts ==
  ASSUME TypeOK
  PROVE  /\ Cleared \in [Names -> Regs \cup {None}]
         /\ ClearedNextReg \subseteq Regs
<1>1. Cleared \in [Names -> Regs \cup {None}]
  BY DEF TypeOK, Cleared
<1>2. ASSUME clearIndex < Len(declaredVars)
      PROVE  declaredVars[clearIndex + 1].reg \in Regs
  <2>1. declaredVars[clearIndex + 1] \in Entry
    BY <1>2 DEF TypeOK
  <2> QED
    BY <2>1 DEF Entry
<1>3. nextReg \in Regs
  BY DEF TypeOK
<1> QED
  BY <1>1, <1>2, <1>3 DEF ClearedNextReg

LEMMA StartLineTypes ==
  ASSUME TInv, NEW parseError \in BOOLEAN, NEW fns \in Lists, StartLine(parseError, fns)
  PROVE  TInv'
<1>1. TypeOK /\ NoStaleDeclaration /\ phase = "idle" /\ phase' = "compiling"
  BY DEF TInv, StartLine
<1>2. PICK r \in ClearedNextReg :
        /\ r + 2 * Len(fns) < NumRegs
        /\ varLocations' = [n \in Names |->
             IF n \in ToSet(fns) THEN r + Max({i \in DOMAIN fns : fns[i] = n}) - 1
             ELSE Cleared[n]]
        /\ nextReg' = r + Len(fns)
        /\ declaredVars' = LineEntries(fns, r)
  BY DEF StartLine
<1>3. /\ fns \in Seq(Names) /\ Len(fns) \in Nat /\ DOMAIN fns = 1 .. Len(fns)
      /\ \A i \in DOMAIN fns : fns[i] \in Names
  BY ListFacts
<1>4. r \in 0 .. NumRegs - 1 /\ NumRegs \in Nat
  BY <1>1, <1>2, ClearedFacts, ReplAssumption DEF Regs
<1>5. \A i \in DOMAIN fns : r + i - 1 \in Regs
  BY <1>2, <1>3, <1>4 DEF Regs
<1>6. varLocations' \in [Names -> Regs \cup {None}]
  <2>1. \A n \in ToSet(fns) : r + Max({i \in DOMAIN fns : fns[i] = n}) - 1 \in Regs
    BY <1>5, LastPosition
  <2> QED
    BY <1>1, <1>2, <2>1, ClearedFacts
<1>7. nextReg' \in Regs /\ nextReg' + Len(fns) < NumRegs
  BY <1>2, <1>3, <1>4 DEF Regs
<1>8. declaredVars' \in Seq(Entry)
  <2>1. \A i \in DOMAIN fns : [name |-> fns[i], reg |-> r + i - 1] \in Entry
    BY <1>3, <1>5 DEF Entry
  <2>2. declaredVars' \in [1 .. Len(fns) -> Entry]
    BY <1>2, <1>3, <2>1 DEF LineEntries, HoistEntries
  <2> QED
    BY <1>3, <2>2
<1>9. /\ clearDeclaredVars' \in BOOLEAN /\ clearIndex' \in Nat /\ hitError' \in BOOLEAN
      /\ hoisted' = fns /\ stmts' \in 0 .. MaxStmts /\ code' = <<>>
      /\ before' \subseteq Names /\ executed' \subseteq Names
      /\ UNCHANGED <<features, ip, inDeclaration, vmClearIndex, regs>>
  <2>1. /\ clearDeclaredVars' = FALSE /\ clearIndex' = 0 /\ hitError' = parseError
        /\ hoisted' = fns /\ stmts' = 0 /\ code' = <<>>
        /\ before' = Known(Cleared) /\ executed' = executed \cap Known(Cleared)
        /\ UNCHANGED <<features, ip, inDeclaration, vmClearIndex, regs>>
    BY DEF StartLine, vmVars
  <2>2. Known(Cleared) \subseteq Names
    BY DEF Known
  <2>3. 0 \in 0 .. MaxStmts
    BY ReplAssumption
  <2> QED
    BY <2>1, <2>2, <2>3
<1>10. TypeOK'
  BY <1>1, <1>3, <1>6, <1>7, <1>8, <1>9 DEF TypeOK
<1>11. code' \in Seq(Instr) /\ Bracketed(code')
  BY <1>9 DEF Bracketed
<1>12. NoStaleDeclaration' /\ Room' /\ EndAhead'
  BY <1>1, <1>7, <1>9 DEF NoStaleDeclaration, Room, EndAhead
<1> QED
  BY <1>10, <1>11, <1>12 DEF TInv

-----------------------------------------------------------------------------
(* Statements.                                                             *)

(* What every statement leaves, and what it has to show.                   *)
LEMMA StatementTypes ==
  ASSUME TInv, phase = "compiling", UNCHANGED <<phase, staticVars, vmVars, ghosts>>,
         varLocations' \in [Names -> Regs \cup {None}],
         nextReg' \in Regs, nextReg' + Len(hoisted') < NumRegs,
         declaredVars' \in Seq(Entry), hitError' \in BOOLEAN, hoisted' \in Seq(Names),
         stmts' \in 0 .. MaxStmts, code' \in Seq(Instr), Bracketed(code')
  PROVE  TInv'
<1>1. TypeOK /\ NoStaleDeclaration
  BY DEF TInv
<1>2. UNCHANGED <<features, phase, clearDeclaredVars, clearIndex, ip, inDeclaration,
                  vmClearIndex, regs, before, executed>>
  BY DEF staticVars, vmVars, ghosts
<1>3. TypeOK'
  BY <1>1, <1>2 DEF TypeOK
<1>4. NoStaleDeclaration' /\ Room' /\ EndAhead'
  BY <1>1, <1>2 DEF NoStaleDeclaration, Room, EndAhead
<1> QED
  BY <1>3, <1>4 DEF TInv

(* What a statement of its own finds.                                      *)
LEMMA CompilingFacts ==
  ASSUME TInv, NEW k \in Nat, Compiling(k)
  PROVE  /\ phase = "compiling" /\ UNCHANGED <<phase, staticVars, vmVars, ghosts>>
         /\ nextReg \in Nat /\ NumRegs \in Nat /\ nextReg + k < NumRegs
         /\ hoisted' = <<>> /\ Len(hoisted') = 0 /\ hoisted' \in Seq(Names)
         /\ stmts' \in 0 .. MaxStmts
<1>1. nextReg \in Regs /\ stmts \in 0 .. MaxStmts /\ NumRegs \in Nat /\ MaxStmts \in Nat
  BY ReplAssumption DEF TInv, TypeOK
<1>2. stmts < MaxStmts /\ stmts' = stmts + 1
  BY DEF Compiling
<1> QED
  BY <1>1, <1>2 DEF Compiling, Regs

(* The names of a declaration that are not declared yet.                   *)
LEMMA NewNamesFacts ==
  ASSUME TInv, NEW ns \in Lists, nextReg + Len(ns) < NumRegs
  PROVE  /\ NewNames(ns) = {n \in ToSet(ns) : varLocations[n] = None}
         /\ ToSet(ns) \subseteq Names
         /\ Home(ns) \in [ToSet(ns) -> Regs]
<1>1. /\ Len(ns) \in {0, 1, 2} /\ DOMAIN ns = 1 .. Len(ns) /\ \A i \in DOMAIN ns : ns[i] \in Names
  BY ListFacts
<1>2. /\ nextReg \in 0 .. NumRegs - 1 /\ NumRegs \in Nat
      /\ varLocations \in [Names -> Regs \cup {None}]
  BY ReplAssumption DEF TInv, TypeOK, Regs
<1>3. \A i \in DOMAIN ns : nextReg + i - 1 \in Regs
  BY <1>1, <1>2 DEF Regs
<1>4. NewNames(ns) = {n \in ToSet(ns) : varLocations[n] = None}
  <2>1. ASSUME NEW n \in ToSet(ns), varLocations[n] = None
        PROVE  \E i \in DOMAIN ns : IsNew(ns, i) /\ ns[i] = n
    <3>1. CASE 1 \in DOMAIN ns /\ ns[1] = n
      BY <2>1, <3>1 DEF IsNew
    <3>2. CASE ~(1 \in DOMAIN ns /\ ns[1] = n)
      <4>1. 2 \in DOMAIN ns /\ ns[2] = n
        BY <1>1, <3>2 DEF ToSet
      <4>2. \A j \in 1 .. 2 - 1 : ns[j] # ns[2]
        BY <1>1, <3>2, <4>1
      <4> QED
        BY <2>1, <4>1, <4>2 DEF IsNew
    <3> QED
      BY <3>1, <3>2
  <2>2. ASSUME NEW n \in NewNames(ns)
        PROVE  n \in ToSet(ns) /\ varLocations[n] = None
    BY <2>2 DEF NewNames, IsNew, ToSet
  <2> QED
    BY <2>1, <2>2 DEF NewNames
<1>5. ToSet(ns) \subseteq Names
  BY <1>1 DEF ToSet
<1>6. \A n \in NewNames(ns) :
        nextReg + (CHOOSE i \in DOMAIN ns : IsNew(ns, i) /\ ns[i] = n) - 1 \in Regs
  <2> SUFFICES ASSUME NEW n \in NewNames(ns)
               PROVE  (CHOOSE i \in DOMAIN ns : IsNew(ns, i) /\ ns[i] = n) \in DOMAIN ns
    BY <1>3
  <2> QED
    BY DEF NewNames
<1>7. Home(ns) \in [ToSet(ns) -> Regs]
  BY <1>2, <1>4, <1>5, <1>6 DEF Home
<1> QED
  BY <1>4, <1>5, <1>7

LEMMA VarDeclTypes ==
  ASSUME TInv, NEW ns \in Lists, NEW init \in BOOLEAN, VarDecl(ns, init)
  PROVE  TInv'
<1>1. /\ Len(ns) \in {0, 1, 2} /\ DOMAIN ns = 1 .. Len(ns) /\ \A i \in DOMAIN ns : ns[i] \in Names
  BY ListFacts
<1>2. Compiling(Len(ns)) /\ Len(ns) \in Nat
  BY <1>1 DEF VarDecl
<1>3. TypeOK /\ code \in Seq(Instr) /\ Bracketed(code)
  BY DEF TInv
<1>4. nextReg \in Nat /\ NumRegs \in Nat /\ nextReg + Len(ns) < NumRegs
  BY <1>2, CompilingFacts
<1>5. /\ NewNames(ns) \subseteq ToSet(ns) /\ ToSet(ns) \subseteq Names
      /\ Home(ns) \in [ToSet(ns) -> Regs]
  BY <1>4, NewNamesFacts
<1>6. varLocations' \in [Names -> Regs \cup {None}]
  BY <1>3, <1>5 DEF VarDecl, TypeOK
<1>7. nextReg' \in Regs /\ nextReg' < NumRegs
  BY <1>1, <1>4 DEF VarDecl, Regs
<1>8. declaredVars' \in Seq(Entry)
  <2>1. \A i \in {1, 2} : NewEntry(ns, i) \in Seq(Entry)
    <3> SUFFICES ASSUME NEW i \in {1, 2}, IsNew(ns, i)
                 PROVE  [name |-> ns[i], reg |-> nextReg + i - 1] \in Entry
      BY DEF NewEntry
    <3>1. i \in DOMAIN ns
      BY DEF IsNew
    <3> QED
      BY <1>1, <1>4, <3>1 DEF Entry, Regs
  <2>2. declaredVars \in Seq(Entry) /\ NewEntry(ns, 1) \in Seq(Entry) /\ NewEntry(ns, 2) \in Seq(Entry)
    BY <1>3, <2>1 DEF TypeOK
  <2>3. declaredVars' = declaredVars \o NewEntry(ns, 1) \o NewEntry(ns, 2)
    BY DEF VarDecl
  <2> QED
    BY <2>2, <2>3
<1>9. Index \in Nat
  BY <1>3 DEF Index, TypeOK
<1>10. code' \in Seq(Instr) /\ Bracketed(code')
  <2> DEFINE m == IF init THEN <<Eval(Spare(ns), Home(ns), {0}, NewNames(ns))>>
                  ELSE [i \in DOMAIN ns |-> Load(Home(ns)[ns[i]], ns[i])]
  <2>1. code' = code \o <<DefStart(Index)>> \o m \o <<DefEnd>>
    BY DEF VarDecl
  <2>2. m \in Seq(Instr) /\ \A i \in DOMAIN m : m[i].op # "DEF_START"
    <3>1. CASE init
      <4>1. Spare(ns) \in SUBSET Int
        BY <1>1, <1>4 DEF Spare
      <4>2. Home(ns) \in Homes /\ {0} \in SUBSET Nat /\ NewNames(ns) \in SUBSET Names
        BY <1>5 DEF Homes
      <4> DEFINE x == Eval(Spare(ns), Home(ns), {0}, NewNames(ns))
      <4>3. x \in Instr /\ x.op = "EVAL"
        BY <4>1, <4>2, InstrTypes DEF Eval
      <4> HIDE DEF x
      <4>4. <<x>> \in Seq(Instr) /\ \A i \in DOMAIN <<x>> : <<x>>[i].op # "DEF_START"
        BY <4>3
      <4>5. m = <<x>>
        BY <3>1 DEF x
      <4> HIDE DEF m
      <4> QED
        BY <4>4, <4>5
    <3>2. CASE ~init
      <4>1. \A i \in 1 .. Len(ns) : Load(Home(ns)[ns[i]], ns[i]) \in Instr
        BY <1>1, <1>5, InstrTypes DEF ToSet
      <4>2. m \in [1 .. Len(ns) -> Instr]
        BY <1>1, <3>2, <4>1
      <4>3. m \in Seq(Instr)
        BY <1>2, <4>2
      <4>4. \A i \in DOMAIN m : m[i].op # "DEF_START"
        BY <1>1, <3>2 DEF Load
      <4> QED
        BY <4>3, <4>4
    <3> QED
      BY <3>1, <3>2
  <2> HIDE DEF m
  <2>3. Wrapped(code, code', Index, m)
    BY <1>3, <1>9, <2>1, <2>2, WrapMany
  <2> QED
    BY <1>3, <1>9, <2>2, <2>3, WrappedBracketed
<1>11. hitError' \in BOOLEAN
  BY <1>3 DEF VarDecl, TypeOK
<1>12. nextReg' + Len(hoisted') < NumRegs
  BY <1>2, <1>4, <1>7, CompilingFacts DEF Regs
<1> QED
  BY <1>2, <1>6, <1>7, <1>8, <1>10, <1>11, <1>12, CompilingFacts, StatementTypes

LEMMA VarDeclErrorTypes ==
  ASSUME TInv, NEW k \in Slips, VarDeclError(k)
  PROVE  TInv'
<1>1. TypeOK /\ code \in Seq(Instr) /\ Bracketed(code) /\ k \in {0, 1, -1}
  BY DEF TInv, Slips
<1>2. Compiling(1) /\ nextReg + k >= 0 /\ nextReg' = nextReg + k
  BY DEF VarDeclError
<1>3. nextReg \in Nat /\ NumRegs \in Nat /\ nextReg + 1 < NumRegs /\ Len(hoisted') = 0
  BY <1>2, CompilingFacts
<1>4. nextReg' \in Regs /\ nextReg' + Len(hoisted') < NumRegs
  BY <1>1, <1>2, <1>3 DEF Regs
<1>5. Index \in Nat
  BY <1>1 DEF Index, TypeOK
<1>6. code' \in Seq(Instr) /\ Bracketed(code')
  <2>1. Wrapped(code, code', Index, <<>>)
    BY <1>1, <1>5, WrapNone DEF VarDeclError
  <2>2. <<>> \in Seq(Instr) /\ DOMAIN <<>> = {}
    OBVIOUS
  <2> QED
    BY <1>1, <1>5, <2>1, <2>2, WrappedBracketed
<1>7. varLocations' \in [Names -> Regs \cup {None}] /\ declaredVars' \in Seq(Entry) /\ hitError' \in BOOLEAN
  BY <1>1 DEF VarDeclError, TypeOK
<1> QED
  BY <1>2, <1>4, <1>6, <1>7, CompilingFacts, StatementTypes

(* A function's declaration, a statement of its own or hoisted.            *)
LEMMA CompileFuncTypes ==
  ASSUME TInv, NEW n \in Names, NEW ok \in BOOLEAN, nextReg + 1 < NumRegs, CompileFunc(n, ok)
  PROVE  /\ varLocations' \in [Names -> Regs \cup {None}] /\ nextReg' \in {nextReg, nextReg + 1}
         /\ declaredVars' \in Seq(Entry) /\ hitError' \in BOOLEAN
         /\ code' \in Seq(Instr) /\ Bracketed(code')
<1> DEFINE known == varLocations[n] # None
           slot == IF known THEN varLocations[n] ELSE nextReg
           declared == IF known THEN declaredVars ELSE Append(declaredVars, [name |-> n, reg |-> slot])
           undo == ~hitError /\ ~ok
<1>1. TypeOK /\ code \in Seq(Instr) /\ Bracketed(code)
  BY DEF TInv
<1>2. slot \in Regs
  BY <1>1 DEF TypeOK
<1>3. declared \in Seq(Entry)
  <2>1. [name |-> n, reg |-> slot] \in Entry /\ declaredVars \in Seq(Entry)
    BY <1>1, <1>2 DEF Entry, TypeOK
  <2> HIDE DEF slot
  <2> QED
    BY <2>1
<1>4. /\ nextReg' = IF known THEN nextReg ELSE nextReg + 1
      /\ code' = code \o <<DefStart(Index), Load(slot, n), DefEnd>>
      /\ hitError' = (hitError \/ ~ok)
      /\ undo => declared # <<>>
      /\ varLocations' = [varLocations EXCEPT ![n] = IF undo THEN None ELSE slot]
      /\ declaredVars' = IF undo THEN Front(declared) ELSE declared
  BY DEF CompileFunc
<1> HIDE DEF known, slot, declared, undo
<1>5. declaredVars' \in Seq(Entry)
  <2>1. CASE undo
    BY <1>3, <1>4, <2>1 DEF Front
  <2>2. CASE ~undo
    BY <1>3, <1>4, <2>2
  <2> QED
    BY <2>1, <2>2
<1>6. code' \in Seq(Instr) /\ Bracketed(code')
  <2> DEFINE x == Load(slot, n)
             m == <<x>>
  <2>1. x \in Instr /\ x.op # "DEF_START"
    BY <1>2, InstrTypes DEF Load
  <2> HIDE DEF x
  <2>2. m \in Seq(Instr) /\ \A i \in DOMAIN m : m[i].op # "DEF_START"
    BY <2>1
  <2>3. Index \in Nat
    BY <1>1 DEF Index, TypeOK
  <2>4. Wrapped(code, code', Index, m)
    BY <1>1, <1>4, <2>1, <2>3, WrapOne DEF x
  <2> HIDE DEF m
  <2> QED
    BY <1>1, <2>2, <2>3, <2>4, WrappedBracketed
<1>7. varLocations' \in [Names -> Regs \cup {None}] /\ hitError' \in BOOLEAN
  <2>1. varLocations \in [Names -> Regs \cup {None}] /\ hitError \in BOOLEAN
    BY <1>1 DEF TypeOK
  <2> QED
    BY <1>2, <1>4, <2>1
<1> QED
  BY <1>4, <1>5, <1>6, <1>7

LEMMA FuncDeclTypes ==
  ASSUME TInv, NEW n \in Names, NEW ok \in BOOLEAN, FuncDecl(n, ok)
  PROVE  TInv'
<1>1. Compiling(1) /\ CompileFunc(n, ok)
  BY DEF FuncDecl
<1>2. nextReg \in Nat /\ NumRegs \in Nat /\ nextReg + 1 < NumRegs
  BY <1>1, CompilingFacts
<1>h. Len(hoisted') = 0
  BY <1>1, CompilingFacts
<1>3. nextReg' \in {nextReg, nextReg + 1}
  BY <1>1, <1>2, CompileFuncTypes
<1>4. nextReg' \in Regs /\ nextReg' + Len(hoisted') < NumRegs
  <2>1. CASE nextReg' = nextReg
    BY <1>2, <1>h, <2>1 DEF Regs
  <2>2. CASE nextReg' = nextReg + 1
    BY <1>2, <1>h, <2>2 DEF Regs
  <2> QED
    BY <1>3, <2>1, <2>2
<1> QED
  BY <1>1, <1>2, <1>4, CompileFuncTypes, CompilingFacts, StatementTypes

LEMMA HoistedFuncDeclTypes ==
  ASSUME TInv, NEW ok \in BOOLEAN, HoistedFuncDecl(ok)
  PROVE  TInv'
<1>1. /\ phase = "compiling" /\ hoisted # <<>> /\ CompileFunc(Head(hoisted), ok)
      /\ hoisted' = Tail(hoisted) /\ UNCHANGED <<phase, stmts, staticVars, vmVars, ghosts>>
  BY DEF HoistedFuncDecl
<1>2. /\ hoisted \in Seq(Names) /\ nextReg \in Regs /\ nextReg + Len(hoisted) < NumRegs
      /\ stmts \in 0 .. MaxStmts
  BY <1>1 DEF TInv, TypeOK, Room
<1>h. hoisted \in Seq(Names) /\ hoisted # <<>> /\ hoisted' = Tail(hoisted)
  BY <1>1, <1>2
<1>3. Head(hoisted) \in Names /\ hoisted' \in Seq(Names) /\ Len(hoisted') = Len(hoisted) - 1
      /\ Len(hoisted) \in Nat \ {0}
  BY <1>h
<1>4. nextReg \in Nat /\ NumRegs \in Nat /\ nextReg + 1 < NumRegs
  BY <1>2, <1>3, ReplAssumption DEF Regs
<1>5. nextReg' \in {nextReg, nextReg + 1}
  BY <1>1, <1>3, <1>4, CompileFuncTypes
<1>6. nextReg' \in Regs /\ nextReg' + Len(hoisted') < NumRegs
  BY <1>2, <1>3, <1>4, <1>5 DEF Regs
<1>7. stmts' \in 0 .. MaxStmts
  BY <1>1, <1>2
<1> QED
  BY <1>1, <1>3, <1>4, <1>6, <1>7, CompileFuncTypes, StatementTypes

LEMMA TypeDeclTypes ==
  ASSUME TInv, NEW n \in Names, NEW ok \in BOOLEAN, TypeDecl(n, ok)
  PROVE  TInv'
<1>1. /\ TypeOK /\ code \in Seq(Instr) /\ Bracketed(code) /\ Compiling(1)
      /\ nextReg' = nextReg + 1 /\ code' = Append(code, Load(nextReg, n))
      /\ hitError' = (hitError \/ ~ok) /\ DefVar(n, nextReg)
  BY DEF TInv, TypeDecl
<1>2. nextReg \in Nat /\ NumRegs \in Nat /\ nextReg + 1 < NumRegs /\ Len(hoisted') = 0
  BY <1>1, CompilingFacts
<1>3. nextReg \in Regs /\ nextReg' \in Regs /\ nextReg' + Len(hoisted') < NumRegs
  BY <1>1, <1>2 DEF Regs
<1>4. code' \in Seq(Instr) /\ Bracketed(code')
  <2>1. Load(nextReg, n) \in Instr /\ Load(nextReg, n).op # "DEF_START"
    BY <1>3, InstrTypes DEF Load
  <2> QED
    BY <1>1, <2>1, AppendedBracketed
<1>5. varLocations' \in [Names -> Regs \cup {None}] /\ declaredVars' \in Seq(Entry) /\ hitError' \in BOOLEAN
  BY <1>1, <1>3 DEF DefVar, TypeOK, Entry
<1> QED
  BY <1>1, <1>3, <1>4, <1>5, CompilingFacts, StatementTypes

(* An import of n into register r, with a register temp besides.           *)
LEMMA UseTypes ==
  ASSUME TInv, NEW n \in Names, NEW r \in Nat, NEW temp \in Nat, NEW entry \in BOOLEAN,
         NEW k \in Nat, Compiling(k), r < nextReg + k,
         nextReg' = nextReg + k, DefVar(n, r), UNCHANGED hitError,
         code' = code \o <<DefStart(Index), Import({temp}, [m \in {n} |-> r], entry), DefEnd>>
  PROVE  TInv'
<1>1. TypeOK /\ code \in Seq(Instr) /\ Bracketed(code)
  BY DEF TInv
<1>2. nextReg \in Nat /\ NumRegs \in Nat /\ nextReg + k < NumRegs /\ Len(hoisted') = 0
  BY CompilingFacts
<1>3. r \in Regs /\ nextReg' \in Regs /\ nextReg' + Len(hoisted') < NumRegs
  BY <1>2 DEF Regs
<1>4. Index \in Nat
  BY <1>1 DEF Index, TypeOK
<1>5. code' \in Seq(Instr) /\ Bracketed(code')
  <2> DEFINE x == Import({temp}, [m \in {n} |-> r], entry)
             c == <<x>>
  <2>1. {temp} \in SUBSET Int /\ [m \in {n} |-> r] \in Homes
    <3>1. [m \in {n} |-> r] \in [{n} -> Regs] /\ {n} \in SUBSET Names
      BY <1>3
    <3>2. [m \in {n} |-> r] \in Homes
      BY <3>1 DEF Homes
    <3>3. {temp} \in SUBSET Int
      OBVIOUS
    <3> QED
      BY <3>2, <3>3
  <2>2. x \in Instr
    BY <2>1, InstrTypes
  <2>3. x.op # "DEF_START"
    BY DEF Import
  <2>4. code' = code \o <<DefStart(Index), x, DefEnd>>
    OBVIOUS
  <2> HIDE DEF x
  <2>5. c \in Seq(Instr) /\ \A i \in DOMAIN c : c[i].op # "DEF_START"
    BY <2>2, <2>3
  <2>6. Wrapped(code, code', Index, c)
    BY <1>1, <1>4, <2>2, <2>4, WrapOne
  <2> HIDE DEF c
  <2> QED
    BY <1>1, <1>4, <2>5, <2>6, WrappedBracketed
<1>6. varLocations' \in [Names -> Regs \cup {None}] /\ declaredVars' \in Seq(Entry) /\ hitError' \in BOOLEAN
  BY <1>1, <1>3 DEF DefVar, TypeOK, Entry
<1> QED
  BY <1>3, <1>5, <1>6, CompilingFacts, StatementTypes

LEMMA UseModuleTypes ==
  ASSUME TInv, NEW n \in Names, UseModule(n) \/ UseModuleEntry(n)
  PROVE  TInv'
<1>1. nextReg \in Nat
  BY DEF TInv, TypeOK, Regs
<1>2. CASE UseModule(n)
  <2>1. /\ nextReg + 1 \in Nat /\ nextReg < nextReg + 1 /\ Compiling(1) /\ nextReg' = nextReg + 1
        /\ DefVar(n, nextReg) /\ UNCHANGED hitError
        /\ code' = code \o <<DefStart(Index), Import({nextReg + 1}, [m \in {n} |-> nextReg], FALSE), DefEnd>>
    BY <1>1, <1>2 DEF UseModule
  <2> QED
    BY <1>1, <2>1, UseTypes
<1>3. CASE UseModuleEntry(n)
  <2>1. /\ nextReg + 1 \in Nat /\ nextReg + 1 < nextReg + 2 /\ Compiling(2) /\ nextReg' = nextReg + 2
        /\ DefVar(n, nextReg + 1) /\ UNCHANGED hitError
        /\ code' = code \o <<DefStart(Index), Import({nextReg}, [m \in {n} |-> nextReg + 1], TRUE), DefEnd>>
    BY <1>1, <1>3 DEF UseModuleEntry
  <2> QED
    BY <1>1, <2>1, UseTypes
<1> QED
  BY <1>2, <1>3

LEMMA OtherStatementTypes ==
  ASSUME TInv, \/ ExprStmt
               \/ \E k \in Slips : StmtError(k)
  PROVE  TInv'
<1>1. TypeOK /\ code \in Seq(Instr) /\ Bracketed(code)
  BY DEF TInv
<1>2. UNCHANGED <<varLocations, declaredVars>>
  BY DEF ExprStmt, StmtError
<1>3. varLocations' \in [Names -> Regs \cup {None}] /\ declaredVars' \in Seq(Entry)
  BY <1>1, <1>2 DEF TypeOK
<1>4. CASE ExprStmt
  <2>1. Compiling(1) /\ UNCHANGED <<nextReg, hitError>>
        /\ code' = Append(code, Eval({nextReg}, NoVariable, {0, Index}, {}))
    BY <1>4 DEF ExprStmt
  <2>2. nextReg \in Nat /\ NumRegs \in Nat /\ nextReg + 1 < NumRegs /\ Len(hoisted') = 0
    BY <2>1, CompilingFacts
  <2>3. nextReg' \in Regs /\ nextReg' + Len(hoisted') < NumRegs /\ hitError' \in BOOLEAN
    BY <1>1, <2>1, <2>2 DEF Regs, TypeOK
  <2>4. {nextReg} \in SUBSET Int /\ NoVariable \in Homes /\ {0, Index} \in SUBSET Nat
    <3>1. NoVariable \in [{} -> Regs]
      BY DEF NoVariable
    <3>2. NoVariable \in Homes
      BY <3>1 DEF Homes
    <3>3. Index \in Nat
      BY <1>1 DEF Index, TypeOK
    <3> QED
      BY <2>2, <3>2, <3>3
  <2> DEFINE x == Eval({nextReg}, NoVariable, {0, Index}, {})
  <2>5. x \in Instr /\ x.op # "DEF_START"
    BY <2>4, InstrTypes DEF Eval
  <2> HIDE DEF x
  <2>6. code' \in Seq(Instr) /\ Bracketed(code')
    BY <1>1, <2>1, <2>5, AppendedBracketed DEF x
  <2> QED
    BY <1>3, <2>1, <2>3, <2>6, CompilingFacts, StatementTypes
<1>5. CASE \E k \in Slips : StmtError(k)
  <2>1. PICK k \in {0, -1} : /\ Compiling(0) /\ nextReg + k >= 0 /\ nextReg' = nextReg + k
                             /\ hitError' = TRUE /\ UNCHANGED code
    BY <1>5 DEF StmtError
  <2>2. nextReg \in Nat /\ NumRegs \in Nat /\ nextReg + 0 < NumRegs /\ Len(hoisted') = 0
    BY <2>1, CompilingFacts
  <2>3. nextReg' \in Regs /\ nextReg' + Len(hoisted') < NumRegs /\ hitError' \in BOOLEAN
    BY <2>1, <2>2 DEF Regs
  <2> QED
    BY <1>1, <1>3, <2>1, <2>3, CompilingFacts, StatementTypes
<1> QED
  BY <1>4, <1>5

(* The end of compile(): the code is run from its start, or dropped.       *)
LEMMA FinishCompileTypes == TInv /\ FinishCompile => TInv'
<1> SUFFICES ASSUME TInv, FinishCompile PROVE TInv'
  OBVIOUS
<1>1. TypeOK /\ NoStaleDeclaration /\ code \in Seq(Instr) /\ Bracketed(code) /\ ~inDeclaration
  BY DEF TInv, NoStaleDeclaration, FinishCompile
<1>2. /\ UNCHANGED <<varLocations, nextReg, declaredVars, hitError, hoisted, stmts, clearIndex,
                     inDeclaration, vmClearIndex, regs, features, before, executed>>
      /\ phase' \in {"idle", "running"} /\ ip' = 1
      /\ code' = <<>> \/ code' = code
      /\ clearDeclaredVars' = Reject \/ clearDeclaredVars' = clearDeclaredVars
  BY DEF FinishCompile, ghosts
<1>3. code' \in Seq(Instr) /\ Bracketed(code') /\ Len(code') \in Nat
  <2>1. CASE code' = <<>>
    BY <2>1 DEF Bracketed
  <2>2. CASE code' = code
    BY <1>1, <2>2
  <2> QED
    BY <1>2, <2>1, <2>2
<1>4. clearDeclaredVars' \in BOOLEAN
  BY <1>1, <1>2 DEF Reject, TypeOK
<1>5. TypeOK'
  BY <1>1, <1>2, <1>3, <1>4 DEF TypeOK
<1>6. NoStaleDeclaration' /\ Room' /\ EndAhead'
  BY <1>1, <1>2 DEF NoStaleDeclaration, Room, EndAhead
<1> QED
  BY <1>3, <1>5, <1>6 DEF TInv

-----------------------------------------------------------------------------
(* The VM.                                                                 *)

(* The instruction that is fetched.                                        *)
LEMMA Fetched ==
  ASSUME TInv, NEW op, Fetch(op)
  PROVE  /\ phase = "running" /\ ip \in DOMAIN code /\ code[ip] \in Instr /\ code[ip].op \in op
         /\ ip \in Nat /\ ip + 1 \in 1 .. Len(code) + 1
<1>1. phase = "running" /\ ip \in DOMAIN code /\ code[ip].op \in op /\ code \in Seq(Instr)
  BY DEF Fetch, TInv
<1> QED
  BY <1>1

(* What the VM leaves as it is when it goes on, or stops.                  *)
LEMMA RunTypes ==
  ASSUME TInv, phase = "running", UNCHANGED <<compilerVars, features, before>>,
         phase' \in {"running", "idle", "crashed"},
         phase' = "running" => ip' \in 1 .. Len(code) + 1,
         clearDeclaredVars' \in BOOLEAN, clearIndex' \in Nat,
         inDeclaration' \in BOOLEAN, vmClearIndex' \in Nat,
         regs' \in [Regs -> Content], executed' \subseteq Names,
         phase' = "idle" => ~inDeclaration', EndAhead'
  PROVE  TInv'
<1>1. TypeOK /\ code \in Seq(Instr) /\ Bracketed(code)
  BY DEF TInv
<1>2. UNCHANGED <<features, varLocations, nextReg, declaredVars, hitError, hoisted, stmts, code, before>>
  BY DEF compilerVars
<1>3. TypeOK'
  BY <1>1, <1>2 DEF TypeOK
<1>4. NoStaleDeclaration' /\ Room'
  BY DEF NoStaleDeclaration, Room
<1>5. code' \in Seq(Instr) /\ Bracketed(code')
  BY <1>1, <1>2
<1> QED
  BY <1>3, <1>4, <1>5 DEF TInv

(* A step past an instruction that ends no declaration leaves the end of   *)
(* the one that is open ahead.                                             *)
LEMMA StillAhead ==
  ASSUME TInv, phase = "running", ip \in DOMAIN code, code[ip].op # "DEF_END",
         UNCHANGED code, ip' = ip + 1, inDeclaration' => inDeclaration
  PROVE  EndAhead'
<1> SUFFICES ASSUME inDeclaration
             PROVE  \E j \in DOMAIN code : j >= ip + 1 /\ code[j].op = "DEF_END"
  BY DEF EndAhead
<1>1. PICK j \in DOMAIN code : j >= ip /\ code[j].op = "DEF_END"
  BY DEF TInv, EndAhead
<1>2. j # ip /\ j \in Nat /\ ip \in Nat
  BY <1>1 DEF TInv
<1> QED
  BY <1>1, <1>2

LEMMA RunDefTypes == TInv /\ (RunDefStart \/ RunDefEnd) => TInv'
<1> SUFFICES ASSUME TInv, RunDefStart \/ RunDefEnd PROVE TInv'
  OBVIOUS
<1>1. TypeOK
  BY DEF TInv
<1>2. /\ Fetch({"DEF_START"}) \/ Fetch({"DEF_END"})
      /\ ip' = ip + 1 /\ UNCHANGED <<phase, compilerVars, staticVars, features, before, regs, executed>>
  BY DEF RunDefStart, RunDefEnd, Advance
<1>3. /\ phase = "running" /\ ip \in DOMAIN code /\ code[ip] \in Instr /\ ip \in Nat
      /\ ip + 1 \in 1 .. Len(code) + 1
  BY <1>2, Fetched
<1>4. UNCHANGED <<clearDeclaredVars, clearIndex, code>>
  BY <1>2 DEF staticVars, compilerVars
<1>5. inDeclaration' \in BOOLEAN /\ vmClearIndex' \in Nat /\ EndAhead'
  <2>1. CASE RunDefStart
    <3>1. code[ip].op = "DEF_START" /\ inDeclaration' = TRUE /\ vmClearIndex' = code[ip].index
      BY <2>1 DEF RunDefStart, Fetch
    <3>2. PICK j \in DOMAIN code : j > ip /\ code[j].op = "DEF_END"
      BY <1>3, <3>1 DEF TInv, Bracketed
    <3>3. j >= ip + 1
      BY <1>3, <3>2 DEF TInv
    <3>4. EndAhead'
      BY <1>2, <1>4, <3>2, <3>3 DEF EndAhead
    <3> QED
      BY <1>3, <3>1, <3>4, InstrFacts
  <2>2. CASE RunDefEnd
    BY <1>1, <2>2 DEF RunDefEnd, TypeOK, EndAhead
  <2> QED
    BY <2>1, <2>2
<1>6. clearDeclaredVars' \in BOOLEAN /\ clearIndex' \in Nat /\ regs' \in [Regs -> Content] /\ executed' \subseteq Names
  BY <1>1, <1>2, <1>4 DEF TypeOK
<1> QED
  BY <1>2, <1>3, <1>5, <1>6, RunTypes

LEMMA RunLoadTypes == TInv /\ RunLoad => TInv'
<1> SUFFICES ASSUME TInv, RunLoad PROVE TInv'
  OBVIOUS
<1>1. TypeOK
  BY DEF TInv
<1>2. /\ Fetch({"LOAD"}) /\ ip' = ip + 1
      /\ UNCHANGED <<phase, compilerVars, staticVars, features, before, inDeclaration, vmClearIndex>>
      /\ regs' = [regs EXCEPT ![code[ip].reg] = code[ip].name]
      /\ executed' = executed \cup {code[ip].name}
  BY DEF RunLoad, Advance
<1>3. /\ phase = "running" /\ ip \in DOMAIN code /\ code[ip] \in Instr /\ code[ip].op = "LOAD"
      /\ ip + 1 \in 1 .. Len(code) + 1
  BY <1>2, Fetched
<1>4. code[ip].reg \in Regs /\ code[ip].name \in Names
  BY <1>3, InstrFacts
<1>5. UNCHANGED <<clearDeclaredVars, clearIndex, code>>
  BY <1>2 DEF staticVars, compilerVars
<1>6. regs' \in [Regs -> Content] /\ executed' \subseteq Names
  BY <1>1, <1>2, <1>4 DEF TypeOK, Content
<1>7. /\ clearDeclaredVars' \in BOOLEAN /\ clearIndex' \in Nat /\ inDeclaration' \in BOOLEAN
      /\ vmClearIndex' \in Nat
  BY <1>1, <1>2, <1>5 DEF TypeOK
<1>8. EndAhead'
  BY <1>2, <1>3, <1>5, StillAhead
<1> QED
  BY <1>2, <1>3, <1>6, <1>7, <1>8, RunTypes

(* Values arrive, or none.                                                 *)
LEMMA StoreTypes ==
  ASSUME TypeOK, DOMAIN code[ip].home \subseteq Names
  PROVE  /\ Store => regs' \in [Regs -> Content] /\ executed' \subseteq Names
         /\ StoreNothing => regs' \in [Regs -> Content]
<1>1. regs \in [Regs -> Content] /\ executed \subseteq Names
  BY DEF TypeOK
<1>2. Temp \in Content /\ Names \subseteq Content
  BY DEF Content
<1>3. ASSUME Store
      PROVE  regs' \in [Regs -> Content] /\ executed' \subseteq Names
  <2> DEFINE home == code[ip].home
  <2>1. /\ regs' = [r \in Regs |->
             IF \E n \in DOMAIN home : home[n] = r THEN CHOOSE n \in DOMAIN home : home[n] = r
             ELSE IF r \in code[ip].temps THEN Temp ELSE regs[r]]
        /\ executed' = executed \cup DOMAIN home
    BY <1>3 DEF Store
  <2> HIDE DEF home
  <2>2. \A r \in Regs : (\E n \in DOMAIN home : home[n] = r)
                         => (CHOOSE n \in DOMAIN home : home[n] = r) \in DOMAIN home
    OBVIOUS
  <2>3. DOMAIN home \subseteq Names
    BY DEF home
  <2> QED
    BY <1>1, <1>2, <2>1, <2>2, <2>3
<1>4. ASSUME StoreNothing
      PROVE  regs' \in [Regs -> Content]
  BY <1>1, <1>2, <1>4 DEF StoreNothing
<1> QED
  BY <1>3, <1>4

LEMMA ErrorResetTypes ==
  ASSUME TypeOK, NEW open \in BOOLEAN, NEW i \in Nat, ErrorReset(open, i)
  PROVE  /\ clearDeclaredVars' \in BOOLEAN /\ clearIndex' \in Nat
         /\ inDeclaration' = FALSE /\ vmClearIndex' \in Nat
BY DEF TypeOK, ErrorReset

(* The notes that nested code may leave.                                   *)
LEMMA NestedFacts ==
  ASSUME TInv, Fetch({"EVAL", "MODULE"})
  PROVE  /\ phase = "running" /\ ip \in DOMAIN code /\ code[ip].op # "DEF_END"
         /\ ip + 1 \in 1 .. Len(code) + 1
         /\ DOMAIN code[ip].home \subseteq Names /\ Nested \subseteq Nat
<1>1. /\ phase = "running" /\ ip \in DOMAIN code /\ code[ip] \in Instr
      /\ code[ip].op \in {"EVAL", "MODULE"} /\ ip + 1 \in 1 .. Len(code) + 1
  BY Fetched
<1>2. DOMAIN code[ip].home \subseteq Names /\ code[ip].inner \subseteq Nat
  BY <1>1, InstrFacts
<1> QED
  BY <1>1, <1>2 DEF Nested

LEMMA RunEvalTypes == TInv /\ RunEval => TInv'
<1> SUFFICES ASSUME TInv, RunEval PROVE TInv'
  OBVIOUS
<1>1. TypeOK /\ Fetch({"EVAL"})
  BY DEF TInv, RunEval
<1>2. Fetch({"EVAL", "MODULE"})
  BY <1>1 DEF Fetch
<1>3. /\ Store /\ ip' = ip + 1
      /\ UNCHANGED <<phase, compilerVars, staticVars, features, before>>
      /\ \/ UNCHANGED <<inDeclaration, vmClearIndex>>
         \/ \E i \in Nested : inDeclaration' = FALSE /\ vmClearIndex' = i
  BY DEF RunEval, Advance
<1>4. UNCHANGED <<clearDeclaredVars, clearIndex, code>>
  BY <1>3 DEF staticVars, compilerVars
<1>5. /\ inDeclaration' \in BOOLEAN /\ vmClearIndex' \in Nat
      /\ inDeclaration' => inDeclaration
  <2>1. inDeclaration \in BOOLEAN /\ vmClearIndex \in Nat /\ Nested \subseteq Nat
    BY <1>1, <1>2, NestedFacts DEF TypeOK
  <2>2. CASE UNCHANGED <<inDeclaration, vmClearIndex>>
    BY <2>1, <2>2
  <2>3. CASE \E i \in Nested : inDeclaration' = FALSE /\ vmClearIndex' = i
    BY <2>1, <2>3
  <2> QED
    BY <1>3, <2>2, <2>3
<1>6. clearDeclaredVars' \in BOOLEAN /\ clearIndex' \in Nat
  BY <1>1, <1>4 DEF TypeOK
<1>7. regs' \in [Regs -> Content] /\ executed' \subseteq Names
  BY <1>1, <1>2, <1>3, NestedFacts, StoreTypes
<1>8. EndAhead'
  BY <1>2, <1>3, <1>4, <1>5, NestedFacts, StillAhead
<1>9. /\ phase = "running" /\ phase' = "running" /\ ip' \in 1 .. Len(code) + 1
      /\ UNCHANGED <<compilerVars, features, before>>
  BY <1>2, <1>3, NestedFacts
<1> QED
  BY <1>5, <1>6, <1>7, <1>8, <1>9, RunTypes

LEMMA RunErrorTypes == TInv /\ (RunEvalError \/ RunImportFails) => TInv'
<1> SUFFICES ASSUME TInv, RunEvalError \/ RunImportFails PROVE TInv'
  OBVIOUS
<1>1. TypeOK
  BY DEF TInv
<1>2. Fetch({"EVAL", "MODULE"})
  BY DEF RunEvalError, RunImportFails, Fetch
<1>3. /\ StoreNothing /\ UNCHANGED <<compilerVars, features, before, executed>>
      /\ \E open \in BOOLEAN, i \in Nat : ErrorReset(open, i)
      /\ (phase' = "idle") \/ (phase' = phase /\ ip' = ip + 1)
  <2>1. inDeclaration \in BOOLEAN /\ vmClearIndex \in Nat /\ Nested \subseteq Nat
    BY <1>1, <1>2, NestedFacts DEF TypeOK
  <2>2. CASE RunEvalError
    <3>1. \E open \in BOOLEAN, i \in Nat : ErrorReset(open, i)
      BY <2>1, <2>2 DEF RunEvalError
    <3> QED
      BY <2>2, <3>1 DEF RunEvalError, ghosts
  <2>3. CASE RunImportFails
    <3>1. ErrorReset(inDeclaration, vmClearIndex)
      BY <2>3 DEF RunImportFails
    <3>2. (phase' = "idle") \/ (phase' = phase /\ ip' = ip + 1)
      BY <2>3 DEF RunImportFails
    <3> QED
      BY <2>1, <2>3, <3>1, <3>2 DEF RunImportFails, ghosts
  <2> QED
    BY <2>2, <2>3
<1>4. /\ clearDeclaredVars' \in BOOLEAN /\ clearIndex' \in Nat
      /\ inDeclaration' = FALSE /\ vmClearIndex' \in Nat
  BY <1>1, <1>3, ErrorResetTypes
<1>5. regs' \in [Regs -> Content] /\ executed' \subseteq Names
  BY <1>1, <1>2, <1>3, NestedFacts, StoreTypes DEF TypeOK
<1>6. EndAhead'
  BY <1>4 DEF EndAhead
<1> QED
  BY <1>2, <1>3, <1>4, <1>5, <1>6, NestedFacts, RunTypes

LEMMA RunImportTypes ==
  ASSUME TInv, NEW compiled \in BOOLEAN, RunImport(compiled)
  PROVE  TInv'
<1>1. TypeOK /\ Fetch({"MODULE"})
  BY DEF TInv, RunImport
<1>2. Fetch({"EVAL", "MODULE"})
  BY <1>1 DEF Fetch
<1>3. /\ Store /\ ip' = ip + 1
      /\ UNCHANGED <<phase, compilerVars, inDeclaration, vmClearIndex, features, before>>
  BY DEF RunImport
<1>4. clearDeclaredVars' \in BOOLEAN /\ clearIndex' \in Nat
  <2>1. clearDeclaredVars \in BOOLEAN /\ clearIndex \in Nat
    BY <1>1 DEF TypeOK
  <2>2. CASE compiled
    <3>1. clearDeclaredVars' = FALSE /\ clearIndex' = 0
      BY <2>2 DEF RunImport
    <3> QED
      BY <3>1
  <2>3. CASE ~compiled
    <3>1. UNCHANGED staticVars
      BY <2>3 DEF RunImport
    <3> QED
      BY <2>1, <3>1 DEF staticVars
  <2> QED
    BY <2>2, <2>3
<1>5. inDeclaration' \in BOOLEAN /\ vmClearIndex' \in Nat /\ UNCHANGED code
  BY <1>1, <1>3 DEF TypeOK, compilerVars
<1>6. regs' \in [Regs -> Content] /\ executed' \subseteq Names
  BY <1>1, <1>2, <1>3, NestedFacts, StoreTypes
<1>7. EndAhead'
  BY <1>2, <1>3, <1>5, NestedFacts, StillAhead
<1> QED
  BY <1>2, <1>3, <1>4, <1>5, <1>6, <1>7, NestedFacts, RunTypes

LEMMA HaltTypes == TInv /\ Halt => TInv'
<1> SUFFICES ASSUME TInv, Halt PROVE TInv'
  OBVIOUS
<1>1. TypeOK /\ phase = "running" /\ ip > Len(code) /\ phase' = "idle"
      /\ UNCHANGED <<compilerVars, staticVars, vmVars, ghosts>>
  BY DEF TInv, Halt
<1>2. UNCHANGED <<features, before, executed, clearDeclaredVars, clearIndex, ip, inDeclaration,
                  vmClearIndex, regs, code>>
  BY <1>1 DEF staticVars, vmVars, ghosts, compilerVars
<1>3. ~inDeclaration
  <2> SUFFICES ASSUME inDeclaration PROVE FALSE
    OBVIOUS
  <2>1. PICK j \in DOMAIN code : j >= ip
    BY <1>1 DEF TInv, EndAhead
  <2>2. code \in Seq(Instr) /\ ip \in Nat
    BY <1>1 DEF TInv, TypeOK
  <2> QED
    BY <1>1, <2>1, <2>2
<1>4. EndAhead'
  BY <1>1 DEF EndAhead
<1>5. /\ clearDeclaredVars' \in BOOLEAN /\ clearIndex' \in Nat /\ inDeclaration' \in BOOLEAN
      /\ vmClearIndex' \in Nat /\ regs' \in [Regs -> Content] /\ executed' \subseteq Names
  BY <1>1, <1>2 DEF TypeOK
<1> QED
  BY <1>1, <1>2, <1>3, <1>4, <1>5, RunTypes

LEMMA CrashTypes ==
  ASSUME TInv, phase' = "crashed", UNCHANGED <<compilerVars, staticVars, vmVars, ghosts>>
  PROVE  TInv'
<1>1. TypeOK /\ code \in Seq(Instr) /\ Bracketed(code)
  BY DEF TInv
<1>2. UNCHANGED <<features, varLocations, nextReg, declaredVars, hitError, hoisted, stmts, code, before,
                  executed, clearDeclaredVars, clearIndex, ip, inDeclaration, vmClearIndex, regs>>
  BY DEF compilerVars, staticVars, vmVars, ghosts
<1>3. TypeOK'
  BY <1>1, <1>2 DEF TypeOK
<1>4. NoStaleDeclaration' /\ Room' /\ EndAhead'
  BY DEF NoStaleDeclaration, Room, EndAhead
<1> QED
  BY <1>1, <1>2, <1>3, <1>4 DEF TInv

(* A session begins.                                                       *)
LEMMA FreshTypes ==
  ASSUME features \in FeatureSets, phase = "idle", varLocations = [n \in Names |-> None], nextReg = 1,
         declaredVars = <<>>, hoisted = <<>>, clearDeclaredVars = FALSE, clearIndex = 0,
         hitError = FALSE, stmts = 0, code = <<>>, ip = 1, inDeclaration = FALSE, vmClearIndex = 0,
         regs = [r \in Regs |-> IF r = 0 THEN Builtin ELSE Temp], before = {}, executed = {}
  PROVE  TInv
<1>1. 1 \in Regs /\ 0 \in 0 .. MaxStmts
  BY ReplAssumption DEF Regs
<1>2. regs \in [Regs -> Content]
  BY DEF Content
<1>3. TypeOK
  <2>1. varLocations \in [Names -> Regs \cup {None}]
    OBVIOUS
  <2>2. <<>> \in Seq(Entry) /\ <<>> \in Seq(Names) /\ {} \subseteq Names /\ 0 \in Nat
    OBVIOUS
  <2> QED
    BY <1>1, <1>2, <2>1, <2>2 DEF TypeOK
<1>4. Bracketed(code)
  BY DEF Bracketed
<1>5. NoStaleDeclaration /\ Room /\ EndAhead
  BY DEF NoStaleDeclaration, Room, EndAhead
<1> QED
  BY <1>3, <1>4, <1>5 DEF TInv

LEMMA InitTypes == Init => TInv
BY FreshTypes DEF Init

LEMMA RestartTypes == TInv /\ Restart => TInv'
<1> SUFFICES ASSUME TInv, Restart PROVE TInv'
  OBVIOUS
<1>1. features' \in FeatureSets
  BY DEF TInv, TypeOK, Restart
<1>2. 1 \in Regs /\ 0 \in 0 .. MaxStmts
  BY ReplAssumption DEF Regs
<1>3. regs' \in [Regs -> Content]
  BY DEF Content, Restart
<1>4. TypeOK'
  <2>1. varLocations' \in [Names -> Regs \cup {None}]
    BY DEF Restart
  <2>2. /\ phase' = "idle" /\ nextReg' = 1 /\ declaredVars' = <<>> /\ hoisted' = <<>>
        /\ clearDeclaredVars' = FALSE /\ clearIndex' = 0 /\ hitError' = FALSE /\ stmts' = 0
        /\ inDeclaration' = FALSE /\ vmClearIndex' = 0 /\ before' = {} /\ executed' = {}
    BY DEF Restart
  <2>3. <<>> \in Seq(Entry) /\ <<>> \in Seq(Names) /\ {} \subseteq Names /\ 0 \in Nat
    OBVIOUS
  <2> QED
    BY <1>1, <1>2, <1>3, <2>1, <2>2, <2>3 DEF TypeOK
<1>5. code' = <<>> /\ Bracketed(code')
  BY DEF Bracketed, Restart
<1>6. NoStaleDeclaration' /\ Room' /\ EndAhead'
  BY DEF NoStaleDeclaration, Room, EndAhead, Restart
<1> QED
  BY <1>4, <1>5, <1>6 DEF TInv

-----------------------------------------------------------------------------
(* Every step keeps the types.                                             *)

LEMMA NextTypes == TInv /\ Next => TInv'
<1> SUFFICES ASSUME TInv, Next PROVE TInv'
  OBVIOUS
<1>1. ASSUME NEW parseError \in BOOLEAN, NEW fns \in Lists, StartLine(parseError, fns)
      PROVE  TInv'
  BY <1>1, StartLineTypes
<1>2. ASSUME NEW ns \in Lists, NEW init \in BOOLEAN, VarDecl(ns, init)
      PROVE  TInv'
  BY <1>2, VarDeclTypes
<1>3. ASSUME NEW n \in Names, UseModule(n) \/ UseModuleEntry(n)
      PROVE  TInv'
  BY <1>3, UseModuleTypes
<1>4. ASSUME NEW n \in Names, NEW ok \in BOOLEAN, FuncDecl(n, ok)
      PROVE  TInv'
  BY <1>4, FuncDeclTypes
<1>5. ASSUME NEW n \in Names, NEW ok \in BOOLEAN, TypeDecl(n, ok)
      PROVE  TInv'
  BY <1>5, TypeDeclTypes
<1>6. ASSUME NEW ok \in BOOLEAN, HoistedFuncDecl(ok)
      PROVE  TInv'
  BY <1>6, HoistedFuncDeclTypes
<1>7. ASSUME NEW k \in Slips, VarDeclError(k)
      PROVE  TInv'
  BY <1>7, VarDeclErrorTypes
<1>8. ASSUME NEW k \in Slips, StmtError(k)
      PROVE  TInv'
  BY <1>8, OtherStatementTypes
<1>9. CASE ExprStmt
  BY <1>9, OtherStatementTypes
<1>10. CASE FinishCompile
  BY <1>10, FinishCompileTypes
<1>11. CASE RunDefStart \/ RunDefEnd
  BY <1>11, RunDefTypes
<1>12. CASE RunLoad
  BY <1>12, RunLoadTypes
<1>13. CASE RunEval
  BY <1>13, RunEvalTypes
<1>14. CASE RunEvalError \/ RunImportFails
  BY <1>14, RunErrorTypes
<1>15. ASSUME NEW compiled \in BOOLEAN, RunImport(compiled)
       PROVE  TInv'
  BY <1>15, RunImportTypes
<1>16. CASE Halt
  BY <1>16, HaltTypes
<1>17. CASE Restart
  BY <1>17, RestartTypes
<1>18. ASSUME \/ StartLineCrash
              \/ \E n \in Names : FuncDeclCrash(n)
              \/ RunImportCrash
       PROVE  TInv'
  <2>1. phase' = "crashed" /\ UNCHANGED <<compilerVars, staticVars, vmVars, ghosts>>
    BY <1>18 DEF StartLineCrash, FuncDeclCrash, RunImportCrash
  <2> QED
    BY <2>1, CrashTypes
<1> QED
  BY <1>1, <1>2, <1>3, <1>4, <1>5, <1>6, <1>7, <1>8, <1>9, <1>10, <1>11, <1>12, <1>13, <1>14, <1>15,
     <1>16, <1>17, <1>18 DEF Next, Lists

LEMMA StutterTypes == TInv /\ UNCHANGED vars => TInv'
<1> SUFFICES ASSUME TInv, UNCHANGED vars PROVE TInv'
  OBVIOUS
<1>1. UNCHANGED <<features, phase, varLocations, nextReg, declaredVars, hitError, hoisted, stmts, code,
                  before, executed, clearDeclaredVars, clearIndex, ip, inDeclaration, vmClearIndex, regs>>
  BY DEF vars, compilerVars, staticVars, vmVars, ghosts
<1>2. TypeOK /\ NoStaleDeclaration /\ code \in Seq(Instr) /\ Bracketed(code) /\ Room /\ EndAhead
  BY DEF TInv
<1>3. TypeOK'
  BY <1>1, <1>2 DEF TypeOK
<1>4. NoStaleDeclaration' /\ Room' /\ EndAhead' /\ Bracketed(code')
  BY <1>1, <1>2 DEF NoStaleDeclaration, Room, EndAhead
<1> QED
  BY <1>1, <1>2, <1>3, <1>4 DEF TInv

LEMMA AlwaysTyped == Spec => []TInv
<1>1. TInv /\ [Next]_vars => TInv'
  BY NextTypes, StutterTypes
<1> QED
  BY InitTypes, <1>1, PTL DEF Spec

(* The state always has its type, and whatever fails in a line, no note of *)
(* a declaration outlives it: the end of the code follows every start of a *)
(* declaration, and an error takes the note back (errorReset).             *)
THEOREM TypeCorrect == Spec => []TypeOK
<1>1. TInv => TypeOK
  BY DEF TInv
<1> QED
  BY AlwaysTyped, <1>1, PTL

THEOREM NoteEndsWithLine == Spec => []NoStaleDeclaration
<1>1. TInv => NoStaleDeclaration
  BY DEF TInv
<1> QED
  BY AlwaysTyped, <1>1, PTL

-----------------------------------------------------------------------------
(* The names that a failed line leaves.                                    *)

(* The names of a list of declarations.                                    *)
NamesOf(d) == {d[i].name : i \in DOMAIN d}

(* A line declares no name of an earlier line again: none can be replaced  *)
(* by it, or be taken back with it.                                        *)
LineIsNew ==
  "redeclare" \notin features /\ phase # "crashed" =>
    /\ before \subseteq Known(varLocations)
    /\ NamesOf(declaredVars) \cap before = {}
    /\ \A i \in DOMAIN hoisted : hoisted[i] \notin before

(* declaredVars is all that a line has added, and a line with an error is  *)
(* never run, so that it is taken back from the first declaration on.      *)
LineIsListed ==
  {"redeclare", "hoist"} \cap features = {} /\ phase # "crashed" =>
    /\ hoisted = <<>>
    /\ Known(varLocations) = before \cup NamesOf(declaredVars)
    /\ phase = "compiling" => ~clearDeclaredVars /\ clearIndex = 0
    /\ phase = "running" => ~hitError
    /\ phase = "idle" /\ hitError =>
         clearIndex = 0 /\ (clearDeclaredVars \/ declaredVars = <<>>)

RInv == LineIsNew /\ LineIsListed

(* A statement declares the names S, which are new.                        *)
Declares(S) ==
  /\ S \cap Known(varLocations) = {}
  /\ Known(varLocations') = Known(varLocations) \cup S
  /\ NamesOf(declaredVars') = NamesOf(declaredVars) \cup S

LEMMA RegIsSome == \A r \in Regs : r # None
BY ReplAssumption DEF Regs

-----------------------------------------------------------------------------
(* Lists of declarations.                                                  *)

LEMMA NamesOfCat ==
  ASSUME NEW d \in Seq(Entry), NEW e \in Seq(Entry)
  PROVE  NamesOf(d \o e) = NamesOf(d) \cup NamesOf(e)
<1> DEFINE c == d \o e
<1>1. /\ DOMAIN c = 1 .. Len(d) + Len(e) /\ DOMAIN d = 1 .. Len(d) /\ DOMAIN e = 1 .. Len(e)
      /\ Len(d) \in Nat /\ Len(e) \in Nat
  OBVIOUS
<1>2. \A i \in 1 .. Len(d) : c[i] = d[i]
  OBVIOUS
<1>3. \A i \in 1 .. Len(e) : c[Len(d) + i] = e[i]
  OBVIOUS
<1> HIDE DEF c
<1>4. \A i \in DOMAIN c : i \in DOMAIN d \/ (i - Len(d) \in DOMAIN e /\ i = Len(d) + (i - Len(d)))
  BY <1>1
<1>5. \A i \in DOMAIN c : c[i].name \in NamesOf(d) \cup NamesOf(e)
  <2> SUFFICES ASSUME NEW i \in DOMAIN c PROVE c[i].name \in NamesOf(d) \cup NamesOf(e)
    OBVIOUS
  <2>1. CASE i \in DOMAIN d
    BY <1>1, <1>2, <2>1 DEF NamesOf
  <2>2. CASE i - Len(d) \in DOMAIN e /\ i = Len(d) + (i - Len(d))
    <3>1. c[i] = e[i - Len(d)]
      BY <1>1, <1>3, <2>2
    <3> QED
      BY <2>2, <3>1 DEF NamesOf
  <2> QED
    BY <1>4, <2>1, <2>2
<1>6. \A i \in DOMAIN d : d[i].name \in NamesOf(c)
  <2> SUFFICES ASSUME NEW i \in DOMAIN d PROVE d[i].name \in NamesOf(c)
    OBVIOUS
  <2>1. i \in DOMAIN c /\ c[i] = d[i]
    BY <1>1, <1>2
  <2> QED
    BY <2>1 DEF NamesOf
<1>7. \A i \in DOMAIN e : e[i].name \in NamesOf(c)
  <2> SUFFICES ASSUME NEW i \in DOMAIN e PROVE e[i].name \in NamesOf(c)
    OBVIOUS
  <2>1. Len(d) + i \in DOMAIN c /\ c[Len(d) + i] = e[i]
    BY <1>1, <1>3
  <2> QED
    BY <2>1 DEF NamesOf
<1>8. NamesOf(c) = NamesOf(d) \cup NamesOf(e)
  BY <1>5, <1>6, <1>7 DEF NamesOf
<1> QED
  BY <1>8 DEF c

LEMMA NamesOfOne ==
  ASSUME NEW x
  PROVE  NamesOf(<<x>>) = {x.name}
BY DEF NamesOf

LEMMA NamesOfNone == NamesOf(<<>>) = {}
BY DEF NamesOf

LEMMA NamesOfAppend ==
  ASSUME NEW d \in Seq(Entry), NEW x \in Entry
  PROVE  NamesOf(Append(d, x)) = NamesOf(d) \cup {x.name} /\ Front(Append(d, x)) = d
<1>1. Append(d, x) = d \o <<x>> /\ <<x>> \in Seq(Entry)
  OBVIOUS
<1>2. NamesOf(Append(d, x)) = NamesOf(d) \cup {x.name}
  BY <1>1, NamesOfCat, NamesOfOne
<1>3. Front(Append(d, x)) = d
  <2>1. /\ Len(Append(d, x)) = Len(d) + 1 /\ Len(d) \in Nat
        /\ \A i \in 1 .. Len(d) : Append(d, x)[i] = d[i]
    OBVIOUS
  <2>2. Front(Append(d, x)) = SubSeq(Append(d, x), 1, Len(d))
    BY <2>1 DEF Front
  <2> QED
    BY <2>1, <2>2
<1> QED
  BY <1>2, <1>3

LEMMA NamesOfFront ==
  ASSUME NEW d \in Seq(Entry), d # <<>>
  PROVE  NamesOf(Front(d)) \subseteq NamesOf(d)
<1>1. Len(d) \in Nat /\ Len(d) > 0 /\ DOMAIN d = 1 .. Len(d)
  OBVIOUS
<1>2. /\ DOMAIN Front(d) = 1 .. Len(d) - 1
      /\ \A i \in 1 .. Len(d) - 1 : Front(d)[i] = d[i]
  BY <1>1 DEF Front
<1> QED
  BY <1>1, <1>2 DEF NamesOf

-----------------------------------------------------------------------------
(* What statements declare.                                                *)

LEMMA DefVarDeclares ==
  ASSUME TypeOK, NEW n \in Names, NEW r \in Regs, varLocations[n] = None, DefVar(n, r)
  PROVE  Declares({n})
<1>1. varLocations \in [Names -> Regs \cup {None}] /\ declaredVars \in Seq(Entry)
  BY DEF TypeOK
<1>2. /\ varLocations' = [varLocations EXCEPT ![n] = r]
      /\ declaredVars' = Append(declaredVars, [name |-> n, reg |-> r])
  BY DEF DefVar
<1>3. [name |-> n, reg |-> r] \in Entry /\ [name |-> n, reg |-> r].name = n
  BY DEF Entry
<1>4. NamesOf(declaredVars') = NamesOf(declaredVars) \cup {n}
  BY <1>1, <1>2, <1>3, NamesOfAppend
<1>5. {n} \cap Known(varLocations) = {} /\ Known(varLocations') = Known(varLocations) \cup {n}
  BY <1>1, <1>2, RegIsSome DEF Known
<1> QED
  BY <1>4, <1>5 DEF Declares

(* The names of the two entries that make can add.                         *)
LEMMA NewEntryFacts ==
  ASSUME TInv, NEW ns \in Lists, nextReg + Len(ns) < NumRegs
  PROVE  /\ NewEntry(ns, 1) \in Seq(Entry) /\ NewEntry(ns, 2) \in Seq(Entry)
         /\ NamesOf(NewEntry(ns, 1)) \cup NamesOf(NewEntry(ns, 2)) = NewNames(ns)
<1>1. /\ Len(ns) \in {0, 1, 2} /\ DOMAIN ns = 1 .. Len(ns) /\ \A i \in DOMAIN ns : ns[i] \in Names
  BY ListFacts
<1>2. nextReg \in 0 .. NumRegs - 1 /\ NumRegs \in Nat
  BY ReplAssumption DEF TInv, TypeOK, Regs
<1>3. \A i \in DOMAIN ns : [name |-> ns[i], reg |-> nextReg + i - 1] \in Entry
  BY <1>1, <1>2 DEF Entry, Regs
<1>4. \A i \in {1, 2} : NewEntry(ns, i) \in Seq(Entry)
  <2> SUFFICES ASSUME NEW i \in {1, 2} PROVE NewEntry(ns, i) \in Seq(Entry)
    OBVIOUS
  <2>1. CASE IsNew(ns, i)
    <3>1. i \in DOMAIN ns
      BY <2>1 DEF IsNew
    <3>2. [name |-> ns[i], reg |-> nextReg + i - 1] \in Entry
      BY <1>3, <3>1
    <3> QED
      BY <2>1, <3>2 DEF NewEntry
  <2>2. CASE ~IsNew(ns, i)
    BY <2>2 DEF NewEntry
  <2> QED
    BY <2>1, <2>2
<1>5. \A i \in {1, 2} : NamesOf(NewEntry(ns, i)) = IF IsNew(ns, i) THEN {ns[i]} ELSE {}
  BY NamesOfOne, NamesOfNone DEF NewEntry
<1>6. NewNames(ns) = {ns[i] : i \in {j \in {1, 2} : IsNew(ns, j)}}
  <2>1. \A j : j \in DOMAIN ns => j \in {1, 2}
    BY <1>1
  <2>2. \A j : IsNew(ns, j) => j \in DOMAIN ns
    BY DEF IsNew
  <2> QED
    BY <2>1, <2>2 DEF NewNames
<1> QED
  BY <1>4, <1>5, <1>6

LEMMA VarDeclDeclares ==
  ASSUME TInv, NEW ns \in Lists, NEW init \in BOOLEAN, VarDecl(ns, init)
  PROVE  Declares(NewNames(ns))
<1>1. Len(ns) \in {0, 1, 2} /\ Compiling(Len(ns)) /\ Len(ns) \in Nat
  BY ListFacts DEF VarDecl
<1>2. nextReg + Len(ns) < NumRegs
  BY <1>1, CompilingFacts
<1>3. /\ NewNames(ns) = {n \in ToSet(ns) : varLocations[n] = None}
      /\ ToSet(ns) \subseteq Names /\ Home(ns) \in [ToSet(ns) -> Regs]
  BY <1>2, NewNamesFacts
<1>4. varLocations \in [Names -> Regs \cup {None}] /\ declaredVars \in Seq(Entry)
  BY DEF TInv, TypeOK
<1>5. /\ varLocations' = [n \in Names |-> IF n \in NewNames(ns) THEN Home(ns)[n] ELSE varLocations[n]]
      /\ declaredVars' = declaredVars \o NewEntry(ns, 1) \o NewEntry(ns, 2)
  BY DEF VarDecl
<1>6. NamesOf(declaredVars') = NamesOf(declaredVars) \cup NewNames(ns)
  <2> DEFINE a == NewEntry(ns, 1)
             b == NewEntry(ns, 2)
  <2>1. a \in Seq(Entry) /\ b \in Seq(Entry) /\ NamesOf(a) \cup NamesOf(b) = NewNames(ns)
    BY <1>2, NewEntryFacts
  <2>2. declaredVars' = (declaredVars \o a) \o b
    BY <1>5
  <2> HIDE DEF a, b
  <2>3. declaredVars \o a \in Seq(Entry) /\ NamesOf(declaredVars \o a) = NamesOf(declaredVars) \cup NamesOf(a)
    BY <1>4, <2>1, NamesOfCat
  <2>4. NamesOf(declaredVars') = NamesOf(declaredVars \o a) \cup NamesOf(b)
    BY <2>1, <2>2, <2>3, NamesOfCat
  <2> QED
    BY <2>1, <2>3, <2>4
<1>7. \A n \in NewNames(ns) : Home(ns)[n] # None
  BY <1>3, RegIsSome
<1>8. Known(varLocations') = Known(varLocations) \cup NewNames(ns) /\ NewNames(ns) \cap Known(varLocations) = {}
  BY <1>3, <1>5, <1>7 DEF Known
<1> QED
  BY <1>6, <1>8 DEF Declares

(* A function is declared, or taken back with the first error.             *)
LEMMA CompileFuncEffect ==
  ASSUME TInv, NEW n \in Names, NEW ok \in BOOLEAN, nextReg + 1 < NumRegs, CompileFunc(n, ok)
  PROVE  /\ \A m \in Names : m # n => varLocations'[m] = varLocations[m]
         /\ NamesOf(declaredVars') \subseteq NamesOf(declaredVars) \cup {n}
         /\ varLocations[n] = None => Declares(IF ~hitError /\ ~ok THEN {} ELSE {n})
<1> DEFINE known == varLocations[n] # None
           slot == IF known THEN varLocations[n] ELSE nextReg
           declared == IF known THEN declaredVars ELSE Append(declaredVars, [name |-> n, reg |-> slot])
           undo == ~hitError /\ ~ok
<1>1. varLocations \in [Names -> Regs \cup {None}] /\ declaredVars \in Seq(Entry) /\ nextReg \in Regs
  BY DEF TInv, TypeOK
<1>2. slot \in Regs
  BY <1>1
<1>3. /\ undo => declared # <<>>
      /\ varLocations' = [varLocations EXCEPT ![n] = IF undo THEN None ELSE slot]
      /\ declaredVars' = IF undo THEN Front(declared) ELSE declared
  BY DEF CompileFunc
<1> DEFINE x == [name |-> n, reg |-> slot]
<1>4. x \in Entry /\ x.name = n
  BY <1>2 DEF Entry
<1> HIDE DEF x
<1>5. /\ known => declared = declaredVars
      /\ ~known => declared = Append(declaredVars, x)
  BY DEF x
<1> HIDE DEF slot, declared
<1>6. /\ declared \in Seq(Entry) /\ NamesOf(declared) \subseteq NamesOf(declaredVars) \cup {n}
      /\ ~known => NamesOf(declared) = NamesOf(declaredVars) \cup {n} /\ Front(declared) = declaredVars
  <2>1. CASE known
    BY <1>1, <1>5, <2>1
  <2>2. CASE ~known
    <3>1. declared = Append(declaredVars, x) /\ declared \in Seq(Entry)
      BY <1>1, <1>4, <1>5, <2>2
    <3> QED
      BY <1>1, <1>4, <2>2, <3>1, NamesOfAppend
  <2> QED
    BY <2>1, <2>2
<1>7. NamesOf(declaredVars') \subseteq NamesOf(declaredVars) \cup {n}
  <2>1. CASE undo
    <3>1. NamesOf(Front(declared)) \subseteq NamesOf(declared)
      BY <1>3, <1>6, <2>1, NamesOfFront
    <3> QED
      BY <1>3, <1>6, <2>1, <3>1
  <2>2. CASE ~undo
    BY <1>3, <1>6, <2>2
  <2> QED
    BY <2>1, <2>2
<1>8. \A m \in Names : m # n => varLocations'[m] = varLocations[m]
  BY <1>1, <1>3
<1>9. ASSUME varLocations[n] = None
      PROVE  Declares(IF ~hitError /\ ~ok THEN {} ELSE {n})
  <2>1. ~known
    BY <1>9
  <2>2. CASE undo
    <3>1. declaredVars' = declaredVars /\ varLocations' = [varLocations EXCEPT ![n] = None]
      BY <1>3, <1>6, <2>1, <2>2
    <3>2. varLocations' = varLocations
      BY <1>1, <1>9, <3>1
    <3> QED
      BY <2>2, <3>1, <3>2 DEF Declares
  <2>3. CASE ~undo
    <3>1. declaredVars' = declared /\ varLocations' = [varLocations EXCEPT ![n] = slot]
      BY <1>3, <2>3
    <3>2. Known(varLocations') = Known(varLocations) \cup {n} /\ {n} \cap Known(varLocations) = {}
      BY <1>1, <1>2, <1>9, <3>1, RegIsSome DEF Known
    <3> QED
      BY <1>6, <2>1, <2>3, <3>1, <3>2 DEF Declares
  <2> QED
    BY <2>2, <2>3
<1> QED
  BY <1>7, <1>8, <1>9

-----------------------------------------------------------------------------
(* The actions.                                                            *)

(* A statement that declares only new names, if the session declares none  *)
(* twice.                                                                  *)
LEMMA StatementKeeps ==
  ASSUME TInv, RInv, phase = "compiling", UNCHANGED <<phase, hoisted, staticVars, vmVars, ghosts>>,
         "redeclare" \notin features => \E S \in SUBSET Names : Declares(S)
  PROVE  RInv'
<1>1. UNCHANGED <<phase, hoisted, features, before, clearDeclaredVars, clearIndex>>
  BY DEF staticVars, ghosts
<1>2. LineIsNew'
  <2> SUFFICES ASSUME "redeclare" \notin features
               PROVE  /\ before \subseteq Known(varLocations')
                      /\ NamesOf(declaredVars') \cap before = {}
                      /\ \A i \in DOMAIN hoisted : hoisted[i] \notin before
    BY <1>1 DEF LineIsNew
  <2>1. PICK S \in SUBSET Names : Declares(S)
    OBVIOUS
  <2>2. /\ before \subseteq Known(varLocations) /\ NamesOf(declaredVars) \cap before = {}
        /\ \A i \in DOMAIN hoisted : hoisted[i] \notin before
    BY DEF RInv, LineIsNew
  <2> QED
    BY <2>1, <2>2 DEF Declares
<1>3. LineIsListed'
  <2> SUFFICES ASSUME {"redeclare", "hoist"} \cap features = {}
               PROVE  /\ hoisted = <<>>
                      /\ Known(varLocations') = before \cup NamesOf(declaredVars')
                      /\ ~clearDeclaredVars /\ clearIndex = 0
    BY <1>1 DEF LineIsListed
  <2>1. PICK S \in SUBSET Names : Declares(S)
    OBVIOUS
  <2>2. /\ hoisted = <<>> /\ Known(varLocations) = before \cup NamesOf(declaredVars)
        /\ ~clearDeclaredVars /\ clearIndex = 0
    BY DEF RInv, LineIsListed
  <2> QED
    BY <2>1, <2>2 DEF Declares
<1> QED
  BY <1>2, <1>3 DEF RInv

LEMMA NothingDeclared ==
  ASSUME UNCHANGED <<varLocations, declaredVars>>
  PROVE  Declares({})
BY DEF Declares

LEMMA StatementsKeep ==
  ASSUME TInv, RInv,
         \/ \E ns \in Lists, init \in BOOLEAN : VarDecl(ns, init)
         \/ \E n \in Names : UseModule(n) \/ UseModuleEntry(n)
         \/ \E n \in Names, ok \in BOOLEAN : FuncDecl(n, ok) \/ TypeDecl(n, ok)
         \/ \E k \in Slips : VarDeclError(k) \/ StmtError(k)
         \/ ExprStmt
  PROVE  RInv'
<1> DEFINE Kept == phase = "compiling" /\ UNCHANGED <<phase, hoisted, staticVars, vmVars, ghosts>>
<1>0. TypeOK /\ nextReg \in Nat /\ NumRegs \in Nat
  BY ReplAssumption DEF TInv, TypeOK, Regs
<1>1. ASSUME NEW k, Compiling(k)
      PROVE  Kept
  BY <1>1 DEF Compiling
<1>2. ASSUME NEW n \in Names, MayDeclare(n), "redeclare" \notin features
      PROVE  varLocations[n] = None
  BY <1>2 DEF MayDeclare
<1>3. ASSUME NEW ns \in Lists, NEW init \in BOOLEAN, VarDecl(ns, init)
      PROVE  RInv'
  <2>1. Declares(NewNames(ns)) /\ Compiling(Len(ns)) /\ Len(ns) \in Nat
    <3>1. Declares(NewNames(ns))
      BY <1>3, VarDeclDeclares
    <3>2. Compiling(Len(ns))
      BY <1>3 DEF VarDecl
    <3>3. Len(ns) \in Nat
      BY ListFacts
    <3> QED
      BY <3>1, <3>2, <3>3
  <2>2. NewNames(ns) \in SUBSET Names
    <3>1. nextReg + Len(ns) < NumRegs
      BY <2>1, CompilingFacts
    <3> QED
      BY <3>1, NewNamesFacts
  <2>3. Kept
    BY <1>1, <2>1
  <2> QED
    BY <2>1, <2>2, <2>3, StatementKeeps
<1>4. ASSUME NEW n \in Names, NEW k \in Nat, NEW r \in Regs, MayDeclare(n), Compiling(k), DefVar(n, r)
      PROVE  RInv'
  <2>1. Kept
    BY <1>1, <1>4
  <2>2. "redeclare" \notin features => Declares({n}) /\ {n} \in SUBSET Names
    BY <1>0, <1>2, <1>4, DefVarDeclares
  <2> QED
    BY <2>1, <2>2, StatementKeeps
<1>5. ASSUME NEW n \in Names, UseModule(n) \/ UseModuleEntry(n)
      PROVE  RInv'
  <2>1. CASE UseModule(n)
    <3>1. MayDeclare(n) /\ Compiling(1) /\ DefVar(n, nextReg)
      BY <2>1 DEF UseModule
    <3>2. nextReg \in Regs
      BY DEF TInv, TypeOK
    <3> QED
      BY <1>4, <3>1, <3>2
  <2>2. CASE UseModuleEntry(n)
    <3>1. MayDeclare(n) /\ Compiling(2) /\ DefVar(n, nextReg + 1)
      BY <2>2 DEF UseModuleEntry
    <3>2. nextReg + 2 < NumRegs
      BY <3>1, CompilingFacts
    <3>3. nextReg + 1 \in Regs
      BY <1>0, <3>2 DEF Regs
    <3> QED
      BY <1>4, <3>1, <3>3
  <2> QED
    BY <1>5, <2>1, <2>2
<1>6. ASSUME NEW n \in Names, NEW ok \in BOOLEAN, FuncDecl(n, ok)
      PROVE  RInv'
  <2>1. MayDeclare(n) /\ Compiling(1) /\ CompileFunc(n, ok)
    BY <1>6 DEF FuncDecl
  <2>2. nextReg + 1 < NumRegs
    BY <2>1, CompilingFacts
  <2>3. Kept
    BY <1>1, <2>1
  <2>4. "redeclare" \notin features => \E S \in SUBSET Names : Declares(S)
    <3> SUFFICES ASSUME "redeclare" \notin features PROVE \E S \in SUBSET Names : Declares(S)
      OBVIOUS
    <3>1. Declares(IF ~hitError /\ ~ok THEN {} ELSE {n})
      BY <1>2, <2>1, <2>2, CompileFuncEffect
    <3>2. (IF ~hitError /\ ~ok THEN {} ELSE {n}) \in SUBSET Names
      OBVIOUS
    <3> QED
      BY <3>1, <3>2
  <2> QED
    BY <2>3, <2>4, StatementKeeps
<1>7. ASSUME NEW n \in Names, NEW ok \in BOOLEAN, TypeDecl(n, ok)
      PROVE  RInv'
  <2>1. MayDeclare(n) /\ Compiling(1) /\ DefVar(n, nextReg)
    BY <1>7 DEF TypeDecl
  <2>2. nextReg \in Regs
    BY DEF TInv, TypeOK
  <2> QED
    BY <1>4, <2>1, <2>2
<1>8. ASSUME (\E k \in Slips : VarDeclError(k) \/ StmtError(k)) \/ ExprStmt
      PROVE  RInv'
  <2>1. (\E k : Compiling(k)) /\ UNCHANGED <<varLocations, declaredVars>>
    BY <1>8 DEF VarDeclError, StmtError, ExprStmt
  <2>2. Kept
    BY <1>1, <2>1
  <2>3. Declares({}) /\ {} \in SUBSET Names
    BY <2>1, NothingDeclared
  <2> QED
    BY <2>2, <2>3, StatementKeeps
<1> QED
  BY <1>3, <1>5, <1>6, <1>7, <1>8

LEMMA HoistedKeeps ==
  ASSUME TInv, RInv, NEW ok \in BOOLEAN, HoistedFuncDecl(ok)
  PROVE  RInv'
<1> DEFINE n == Head(hoisted)
<1>1. /\ phase = "compiling" /\ hoisted # <<>> /\ CompileFunc(n, ok) /\ hoisted' = Tail(hoisted)
      /\ UNCHANGED <<phase, features, before>>
  BY DEF HoistedFuncDecl, ghosts
<1>2. /\ hoisted \in Seq(Names) /\ nextReg \in Nat /\ NumRegs \in Nat /\ nextReg + Len(hoisted) < NumRegs
  BY <1>1, ReplAssumption DEF TInv, TypeOK, Room, Regs
<1>3. Len(hoisted) \in Nat /\ Len(hoisted) > 0
  BY <1>1, <1>2
<1>4. /\ n \in Names /\ n = hoisted[1] /\ 1 \in DOMAIN hoisted
      /\ \A i \in DOMAIN Tail(hoisted) : i + 1 \in DOMAIN hoisted /\ Tail(hoisted)[i] = hoisted[i + 1]
  BY <1>2, <1>3
<1>5. nextReg + 1 < NumRegs
  BY <1>2, <1>3
<1> HIDE DEF n
<1>6. /\ \A m \in Names : m # n => varLocations'[m] = varLocations[m]
      /\ NamesOf(declaredVars') \subseteq NamesOf(declaredVars) \cup {n}
  BY <1>1, <1>4, <1>5, CompileFuncEffect
<1>7. LineIsNew'
  <2> SUFFICES ASSUME "redeclare" \notin features
               PROVE  /\ before \subseteq Known(varLocations')
                      /\ NamesOf(declaredVars') \cap before = {}
                      /\ \A i \in DOMAIN hoisted' : hoisted'[i] \notin before
    BY <1>1 DEF LineIsNew
  <2>1. /\ before \subseteq Known(varLocations) /\ NamesOf(declaredVars) \cap before = {}
        /\ \A i \in DOMAIN hoisted : hoisted[i] \notin before
    BY <1>1 DEF RInv, LineIsNew
  <2>2. n \notin before
    BY <1>4, <2>1
  <2>3. \A i \in DOMAIN hoisted' : hoisted'[i] \notin before
    BY <1>1, <1>4, <2>1
  <2>4. before \subseteq Known(varLocations')
    BY <1>6, <2>1, <2>2 DEF Known
  <2> QED
    BY <1>6, <2>1, <2>2, <2>3, <2>4
<1>8. LineIsListed'
  <2>1. {"redeclare", "hoist"} \cap features # {}
    BY <1>1 DEF RInv, LineIsListed
  <2> QED
    BY <1>1, <2>1 DEF LineIsListed
<1> QED
  BY <1>7, <1>8 DEF RInv

LEMMA FinishKeeps == TInv /\ RInv /\ FinishCompile => RInv'
<1> SUFFICES ASSUME TInv, RInv, FinishCompile PROVE RInv'
  OBVIOUS
<1>1. /\ phase = "compiling" /\ phase' \in {"idle", "running"}
      /\ UNCHANGED <<varLocations, declaredVars, hitError, hoisted, clearIndex, features, before>>
      /\ hitError => phase' = "idle" /\ clearDeclaredVars' = Reject
      /\ ~hitError => phase' = "running"
  BY DEF FinishCompile, ghosts
<1>2. LineIsNew'
  BY <1>1 DEF RInv, LineIsNew
<1>3. LineIsListed'
  <2>1. Reject <=> clearDeclaredVars \/ declaredVars # <<>>
    BY DEF Reject
  <2> QED
    BY <1>1, <2>1 DEF RInv, LineIsListed
<1> QED
  BY <1>2, <1>3 DEF RInv

LEMMA RunKeeps ==
  ASSUME TInv, RInv, phase = "running", phase' \in {"running", "idle", "crashed"},
         UNCHANGED <<compilerVars, features, before>>
  PROVE  RInv'
<1>1. UNCHANGED <<varLocations, declaredVars, hitError, hoisted>>
  BY DEF compilerVars
<1>2. LineIsNew'
  BY <1>1 DEF RInv, LineIsNew
<1>3. LineIsListed'
  BY <1>1 DEF RInv, LineIsListed
<1> QED
  BY <1>2, <1>3 DEF RInv

LEMMA CrashKeeps == phase' = "crashed" => RInv'
BY DEF RInv, LineIsNew, LineIsListed

LEMMA FreshKeeps ==
  ASSUME phase = "idle", varLocations = [n \in Names |-> None], declaredVars = <<>>, hoisted = <<>>,
         hitError = FALSE, before = {}
  PROVE  RInv
<1>1. Known(varLocations) = {}
  BY DEF Known
<1>2. LineIsNew /\ LineIsListed
  BY <1>1, NamesOfNone DEF LineIsNew, LineIsListed
<1> QED
  BY <1>2 DEF RInv

LEMMA RestartKeeps == Restart => RInv'
<1> SUFFICES ASSUME Restart PROVE RInv'
  OBVIOUS
<1>1. /\ phase' = "idle" /\ varLocations' = [n \in Names |-> None] /\ declaredVars' = <<>>
      /\ hoisted' = <<>> /\ hitError' = FALSE /\ before' = {}
  BY DEF Restart
<1>2. Known(varLocations') = {}
  BY <1>1 DEF Known
<1>3. LineIsNew' /\ LineIsListed'
  BY <1>1, <1>2, NamesOfNone DEF LineIsNew, LineIsListed
<1> QED
  BY <1>3 DEF RInv

LEMMA StartLineKeeps ==
  ASSUME TInv, RInv, NEW parseError \in BOOLEAN, NEW fns \in Lists, StartLine(parseError, fns)
  PROVE  RInv'
<1>1. PICK r \in ClearedNextReg :
        /\ varLocations' = [n \in Names |->
             IF n \in ToSet(fns) THEN r + Max({i \in DOMAIN fns : fns[i] = n}) - 1
             ELSE Cleared[n]]
        /\ declaredVars' = LineEntries(fns, r)
  BY DEF StartLine
<1>2. /\ phase' = "compiling" /\ hoisted' = fns /\ clearDeclaredVars' = FALSE /\ clearIndex' = 0
      /\ before' = Known(Cleared) /\ UNCHANGED features
      /\ fns # <<>> => "hoist" \in features
      /\ "redeclare" \in features \/ \A i \in DOMAIN fns : Cleared[fns[i]] = None
  BY DEF StartLine
<1>3. fns \in Seq(Names) /\ \A i \in DOMAIN fns : fns[i] \in Names
  BY ListFacts
<1>4. NamesOf(declaredVars') = {fns[i] : i \in DOMAIN fns}
  BY <1>1 DEF LineEntries, HoistEntries, NamesOf
<1>5. LineIsNew'
  <2> SUFFICES ASSUME "redeclare" \notin features
               PROVE  /\ before' \subseteq Known(varLocations')
                      /\ NamesOf(declaredVars') \cap before' = {}
                      /\ \A i \in DOMAIN hoisted' : hoisted'[i] \notin before'
    BY <1>2 DEF LineIsNew
  <2>1. \A i \in DOMAIN fns : fns[i] \notin before'
    BY <1>2 DEF Known
  <2>2. \A n \in before' : n \in Names /\ n \notin ToSet(fns) /\ Cleared[n] # None
    BY <1>2, <2>1 DEF Known, ToSet
  <2>3. before' \subseteq Known(varLocations')
    BY <1>1, <2>2 DEF Known
  <2> QED
    BY <1>2, <1>4, <2>1, <2>3
<1>6. LineIsListed'
  <2> SUFFICES ASSUME {"redeclare", "hoist"} \cap features = {}
               PROVE  /\ hoisted' = <<>>
                      /\ Known(varLocations') = before' \cup NamesOf(declaredVars')
    BY <1>2 DEF LineIsListed
  <2>1. fns = <<>>
    BY <1>2
  <2>2. NamesOf(declaredVars') = {} /\ ToSet(fns) = {}
    BY <1>4, <2>1 DEF ToSet
  <2>3. Known(varLocations') = Known(Cleared)
    BY <1>1, <2>2 DEF Known
  <2> QED
    BY <1>2, <2>1, <2>2, <2>3
<1> QED
  BY <1>5, <1>6 DEF RInv

LEMMA NextKeeps == TInv /\ RInv /\ Next => RInv'
<1> SUFFICES ASSUME TInv, RInv, Next PROVE RInv'
  OBVIOUS
<1>1. ASSUME NEW parseError \in BOOLEAN, NEW fns \in Lists, StartLine(parseError, fns)
      PROVE  RInv'
  BY <1>1, StartLineKeeps
<1>2. ASSUME \/ \E ns \in Lists, init \in BOOLEAN : VarDecl(ns, init)
             \/ \E n \in Names : UseModule(n) \/ UseModuleEntry(n)
             \/ \E n \in Names, ok \in BOOLEAN : FuncDecl(n, ok) \/ TypeDecl(n, ok)
             \/ \E k \in Slips : VarDeclError(k) \/ StmtError(k)
             \/ ExprStmt
      PROVE  RInv'
  BY <1>2, StatementsKeep
<1>3. ASSUME NEW ok \in BOOLEAN, HoistedFuncDecl(ok)
      PROVE  RInv'
  BY <1>3, HoistedKeeps
<1>4. CASE FinishCompile
  BY <1>4, FinishKeeps
<1>5. ASSUME \/ RunDefStart \/ RunDefEnd \/ RunLoad \/ RunEval \/ RunEvalError
             \/ \E compiled \in BOOLEAN : RunImport(compiled)
             \/ RunImportFails \/ Halt
      PROVE  RInv'
  <2>1. phase = "running" /\ phase' \in {"running", "idle"}
    BY <1>5 DEF RunDefStart, RunDefEnd, RunLoad, RunEval, RunEvalError, RunImport, RunImportFails, Halt,
                Fetch, Advance
  <2>2. UNCHANGED <<compilerVars, features, before>>
    BY <1>5 DEF RunDefStart, RunDefEnd, RunLoad, RunEval, RunEvalError, RunImport, RunImportFails, Halt,
                Advance, ghosts
  <2> QED
    BY <2>1, <2>2, RunKeeps
<1>6. CASE Restart
  BY <1>6, RestartKeeps
<1>7. ASSUME \/ StartLineCrash
             \/ \E n \in Names : FuncDeclCrash(n)
             \/ RunImportCrash
      PROVE  RInv'
  <2>1. phase' = "crashed"
    BY <1>7 DEF StartLineCrash, FuncDeclCrash, RunImportCrash
  <2> QED
    BY <2>1, CrashKeeps
<1> QED
  BY <1>1, <1>2, <1>3, <1>4, <1>5, <1>6, <1>7 DEF Next, Lists

LEMMA AlwaysListed == Spec => [](TInv /\ RInv)
<1>1. Init => RInv
  BY FreshKeeps DEF Init
<1>2. RInv /\ UNCHANGED vars => RInv'
  <2> SUFFICES ASSUME RInv, UNCHANGED vars PROVE RInv'
    OBVIOUS
  <2>1. UNCHANGED <<phase, features, before, hoisted, varLocations, declaredVars, hitError,
                    clearDeclaredVars, clearIndex>>
    BY DEF vars, compilerVars, staticVars, ghosts
  <2>2. LineIsNew'
    BY <2>1 DEF RInv, LineIsNew
  <2>3. LineIsListed'
    BY <2>1 DEF RInv, LineIsListed
  <2> QED
    BY <2>2, <2>3 DEF RInv
<1>3. TInv /\ RInv /\ [Next]_vars => RInv'
  BY <1>2, NextKeeps
<1> QED
  BY <1>1, <1>3, AlwaysTyped, PTL DEF Spec

-----------------------------------------------------------------------------
(* What the roll-back takes out of the table is in declaredVars.           *)
LEMMA ClearedNames ==
  ASSUME TypeOK
  PROVE  /\ \A n \in Names : n \notin NamesOf(declaredVars) => Cleared[n] = varLocations[n]
         /\ clearDeclaredVars /\ clearIndex = 0 =>
              \A n \in NamesOf(declaredVars) \cap Names : Cleared[n] = None
<1>1. declaredVars \in Seq(Entry) /\ clearIndex \in Nat
  BY DEF TypeOK
<1>2. Len(declaredVars) \in Nat /\ DOMAIN declaredVars = 1 .. Len(declaredVars)
  BY <1>1
<1>3. \A i \in clearIndex + 1 .. Len(declaredVars) : i \in DOMAIN declaredVars
  BY <1>1, <1>2
<1>4. ASSUME NEW n \in Names, n \notin NamesOf(declaredVars)
      PROVE  Cleared[n] = varLocations[n]
  BY <1>3, <1>4 DEF Cleared, NamesOf
<1>5. ASSUME clearDeclaredVars, clearIndex = 0, NEW n \in Names, n \in NamesOf(declaredVars)
      PROVE  Cleared[n] = None
  <2>1. PICK i \in DOMAIN declaredVars : declaredVars[i].name = n
    BY <1>5 DEF NamesOf
  <2>2. i \in clearIndex + 1 .. Len(declaredVars)
    BY <1>2, <1>5
  <2> QED
    BY <1>5, <2>1, <2>2 DEF Cleared
<1> QED
  BY <1>4, <1>5

(* Whatever fails in a line, in any way, the next line finds every variable*)
(* of the earlier lines in the compiler's table (clearDeclarations takes   *)
(* back only what the line added), unless the line declared a name again.  *)
THEOREM EarlierLinesStay == Spec => []EarlierLinesKept
<1>1. TInv /\ RInv => EarlierLinesKept
  <2> SUFFICES ASSUME TInv, RInv, phase = "idle", "redeclare" \notin features, NEW n \in before
               PROVE  n \in Known(Cleared)
    BY DEF EarlierLinesKept
  <2>1. n \in Known(varLocations) /\ n \notin NamesOf(declaredVars)
    BY DEF RInv, LineIsNew
  <2>2. Cleared[n] = varLocations[n]
    BY <2>1, ClearedNames DEF TInv, Known
  <2> QED
    BY <2>1, <2>2 DEF Known
<1> QED
  BY AlwaysListed, <1>1, PTL

(* After a line with a compile-time error, compile() takes back all that   *)
(* the line declared and nothing else, however the session went before, if *)
(* lines declare only new names and no closed functions.                   *)
THEOREM RejectedLineTakenBack == Spec => []RejectedLineUndone
<1>1. TInv /\ RInv => RejectedLineUndone
  <2> SUFFICES ASSUME TInv, RInv, phase = "idle", hitError, {"redeclare", "hoist"} \cap features = {}
               PROVE  Known(Cleared) = before
    BY DEF RejectedLineUndone
  <2>1. /\ Known(varLocations) = before \cup NamesOf(declaredVars)
        /\ clearIndex = 0 /\ (clearDeclaredVars \/ declaredVars = <<>>)
    BY DEF RInv, LineIsListed
  <2>2. NamesOf(declaredVars) \cap before = {}
    BY DEF RInv, LineIsNew
  <2>3. before \subseteq Names
    BY DEF TInv, TypeOK
  <2>4. /\ \A n \in Names : n \notin NamesOf(declaredVars) => Cleared[n] = varLocations[n]
        /\ clearDeclaredVars => \A n \in NamesOf(declaredVars) \cap Names : Cleared[n] = None
    BY <2>1, ClearedNames DEF TInv
  <2>5. CASE clearDeclaredVars
    BY <2>1, <2>2, <2>3, <2>4, <2>5 DEF Known
  <2>6. CASE declaredVars = <<>>
    <3>1. NamesOf(declaredVars) = {}
      BY <2>6, NamesOfNone
    <3> QED
      BY <2>1, <2>4, <3>1 DEF Known
  <2> QED
    BY <2>1, <2>5, <2>6
<1> QED
  BY AlwaysListed, <1>1, PTL

-----------------------------------------------------------------------------
(* The roll-back is exact.                                                 *)

(* The names that get their values from an instruction, and from those     *)
(* before position i.                                                      *)
Gives(x) ==
  IF x.op = "LOAD" THEN {x.name}
  ELSE IF x.op \in {"EVAL", "MODULE"} THEN DOMAIN x.home ELSE {}

GivenBelow(c, i) == UNION {Gives(c[j]) : j \in {k \in DOMAIN c : k < i}}

FirstNames(d, k) == {d[i].name : i \in 1 .. k}

Distinct(d) == \A i, j \in DOMAIN d : d[i].name = d[j].name => i = j

(* The code c declares the list d, in order: every note of a declaration   *)
(* counts the names that have their values by then, and what can fail      *)
(* comes right after a note.                                               *)
Matches(c, d) ==
  /\ Distinct(d)
  /\ NamesOf(d) = GivenBelow(c, Len(c) + 1)
  /\ \A i \in DOMAIN c :
       /\ c[i].op = "DEF_START" =>
            c[i].index \in 0 .. Len(d) /\ FirstNames(d, c[i].index) = GivenBelow(c, i)
       /\ c[i].op \in {"EVAL", "MODULE"} => i - 1 \in DOMAIN c /\ c[i - 1].op = "DEF_START"

(* The VM knows in which declaration it is.                                *)
NoteIsRight ==
  ip - 1 \in DOMAIN code /\ code[ip - 1].op = "DEF_START" =>
    inDeclaration /\ vmClearIndex = code[ip - 1].index

XInv ==
  features \subseteq {"slip"} /\ phase # "crashed" =>
    /\ phase \in {"compiling", "running"} /\ ~hitError => Matches(code, declaredVars)
    /\ phase = "compiling" => executed = before
    /\ phase = "running" =>
         ~clearDeclaredVars /\ executed = before \cup GivenBelow(code, ip) /\ NoteIsRight
    /\ phase = "idle" => Known(Cleared) = executed

-----------------------------------------------------------------------------
(* The table that a roll-back of the list d from entry k on leaves.        *)
RolledBack(table, d, clear, k) ==
  [n \in Names |-> IF clear /\ \E i \in k + 1 .. Len(d) : d[i].name = n THEN None ELSE table[n]]

(* A roll-back from entry k on takes back the names of the later entries.   *)
LEMMA RolledBackNames ==
  ASSUME NEW k \in 0 .. Len(declaredVars),
         varLocations \in [Names -> Regs \cup {None}], declaredVars \in Seq(Entry),
         before \subseteq Names, Known(varLocations) = before \cup NamesOf(declaredVars),
         NamesOf(declaredVars) \cap before = {},
         Distinct(declaredVars) \/ k = 0
  PROVE  /\ Known(RolledBack(varLocations, declaredVars, TRUE, k)) = before \cup FirstNames(declaredVars, k)
         /\ Known(RolledBack(varLocations, declaredVars, FALSE, k)) = Known(varLocations)
<1>1. Len(declaredVars) \in Nat /\ DOMAIN declaredVars = 1 .. Len(declaredVars) /\ k \in Nat /\ k <= Len(declaredVars)
  OBVIOUS
<1>2. \A n \in Names : n \in NamesOf(declaredVars) <=> \E i \in 1 .. Len(declaredVars) : declaredVars[i].name = n
  BY <1>1 DEF NamesOf
<1>3. ASSUME NEW n \in Names
      PROVE  n \in before \cup FirstNames(declaredVars, k)
               <=> n \in Known(varLocations) /\ ~\E i \in k + 1 .. Len(declaredVars) : declaredVars[i].name = n
  <2>1. CASE n \in before
    <3>1. n \notin NamesOf(declaredVars)
      BY <2>1
    <3>2. \A i \in k + 1 .. Len(declaredVars) : i \in 1 .. Len(declaredVars)
      BY <1>1
    <3> QED
      BY <1>2, <2>1, <3>1, <3>2
  <2>2. CASE n \notin before
    <3>1. n \in Known(varLocations) <=> \E i \in 1 .. Len(declaredVars) : declaredVars[i].name = n
      BY <1>2, <2>2
    <3>2. \A i \in 1 .. Len(declaredVars) : i \in 1 .. k \/ i \in k + 1 .. Len(declaredVars)
      BY <1>1
    <3>3. \A i \in 1 .. k : i \in 1 .. Len(declaredVars)
      BY <1>1
    <3>4. ASSUME NEW i \in 1 .. k, declaredVars[i].name = n, NEW j \in k + 1 .. Len(declaredVars), declaredVars[j].name = n
          PROVE  FALSE
      <4>1. i \in DOMAIN declaredVars /\ j \in DOMAIN declaredVars /\ i # j
        BY <1>1
      <4>2. k # 0
        OBVIOUS
      <4> QED
        BY <3>4, <4>1, <4>2 DEF Distinct
    <3>5. n \in FirstNames(declaredVars, k) <=> \E i \in 1 .. k : declaredVars[i].name = n
      BY DEF FirstNames
    <3> QED
      BY <2>2, <3>1, <3>2, <3>3, <3>4, <3>5
  <2> QED
    BY <2>1, <2>2
<1>4. FirstNames(declaredVars, k) \subseteq Names
  <2>1. \A i \in 1 .. k : i \in 1 .. Len(declaredVars)
    BY <1>1
  <2>2. \A i \in 1 .. Len(declaredVars) : declaredVars[i] \in Entry
    BY <1>1
  <2>3. \A x \in Entry : x.name \in Names
    BY DEF Entry
  <2> QED
    BY <2>1, <2>2, <2>3 DEF FirstNames
<1>5. Known(RolledBack(varLocations, declaredVars, TRUE, k)) = before \cup FirstNames(declaredVars, k)
  BY <1>3, <1>4 DEF Known, RolledBack
<1>6. Known(RolledBack(varLocations, declaredVars, FALSE, k)) = Known(varLocations)
  BY DEF Known, RolledBack
<1> QED
  BY <1>5, <1>6

LEMMA FirstNone == ASSUME NEW d PROVE FirstNames(d, 0) = {}
BY DEF FirstNames

LEMMA FirstOfMore ==
  ASSUME NEW p \in Seq(Entry), NEW q, \A i \in 1 .. Len(p) : q[i] = p[i], NEW k \in 0 .. Len(p)
  PROVE  FirstNames(q, k) = FirstNames(p, k)
<1>1. Len(p) \in Nat
  OBVIOUS
<1>2. \A i \in 1 .. k : i \in 1 .. Len(p)
  BY <1>1
<1>3. \A i \in 1 .. k : q[i] = p[i]
  BY <1>2
<1> QED
  BY <1>3 DEF FirstNames

LEMMA FirstAll == ASSUME NEW d \in Seq(Entry) PROVE FirstNames(d, Len(d)) = NamesOf(d)
BY DEF FirstNames, NamesOf

-----------------------------------------------------------------------------
(* What code gives.                                                        *)

LEMMA GivenNext ==
  ASSUME NEW c \in Seq(Instr), NEW i \in DOMAIN c
  PROVE  GivenBelow(c, i + 1) = GivenBelow(c, i) \cup Gives(c[i])
<1>1. {k \in DOMAIN c : k < i + 1} = {k \in DOMAIN c : k < i} \cup {i}
  OBVIOUS
<1> QED
  BY <1>1 DEF GivenBelow

LEMMA GivenNone == ASSUME NEW c \in Seq(Instr) PROVE GivenBelow(c, 1) = {}
<1>1. {k \in DOMAIN c : k < 1} = {}
  OBVIOUS
<1> QED
  BY <1>1 DEF GivenBelow

LEMMA GivenAll ==
  ASSUME NEW c \in Seq(Instr), NEW i \in Nat, i > Len(c)
  PROVE  GivenBelow(c, i) = GivenBelow(c, Len(c) + 1)
<1>1. {k \in DOMAIN c : k < i} = {k \in DOMAIN c : k < Len(c) + 1}
  OBVIOUS
<1> QED
  BY <1>1 DEF GivenBelow

(* Code that is added at the end gives what it gives.                      *)
LEMMA GivenGrows ==
  ASSUME NEW c \in Seq(Instr), NEW d \in Seq(Instr), Len(c) <= Len(d),
         \A i \in 1 .. Len(c) : d[i] = c[i]
  PROVE  /\ \A i \in 1 .. Len(c) + 1 : GivenBelow(d, i) = GivenBelow(c, i)
         /\ GivenBelow(d, Len(d) + 1)
              = GivenBelow(c, Len(c) + 1) \cup UNION {Gives(d[i]) : i \in Len(c) + 1 .. Len(d)}
<1>1. Len(c) \in Nat /\ Len(d) \in Nat /\ DOMAIN c = 1 .. Len(c) /\ DOMAIN d = 1 .. Len(d)
  OBVIOUS
<1>2. ASSUME NEW i \in 1 .. Len(c) + 1
      PROVE  GivenBelow(d, i) = GivenBelow(c, i)
  <2>1. {k \in DOMAIN d : k < i} = {k \in DOMAIN c : k < i}
    BY <1>1
  <2>2. \A k \in {j \in DOMAIN c : j < i} : d[k] = c[k]
    BY <1>1
  <2> QED
    BY <2>1, <2>2 DEF GivenBelow
<1>3. {k \in DOMAIN d : k < Len(d) + 1} = {k \in DOMAIN d : k < Len(c) + 1} \cup (Len(c) + 1 .. Len(d))
  BY <1>1
<1>4. GivenBelow(d, Len(d) + 1)
        = GivenBelow(d, Len(c) + 1) \cup UNION {Gives(d[i]) : i \in Len(c) + 1 .. Len(d)}
  BY <1>3 DEF GivenBelow
<1>5. Len(c) + 1 \in 1 .. Len(c) + 1
  BY <1>1
<1> QED
  BY <1>2, <1>4, <1>5

LEMMA MatchesGrows ==
  ASSUME NEW c \in Seq(Instr), NEW d \in Seq(Instr), NEW p \in Seq(Entry), NEW q \in Seq(Entry),
         Len(c) <= Len(d), \A i \in 1 .. Len(c) : d[i] = c[i],
         Len(p) <= Len(q), \A i \in 1 .. Len(p) : q[i] = p[i],
         Matches(c, p), Distinct(q),
         NamesOf(q) = NamesOf(p) \cup UNION {Gives(d[i]) : i \in Len(c) + 1 .. Len(d)},
         \A i \in Len(c) + 1 .. Len(d) :
           /\ d[i].op = "DEF_START" => i = Len(c) + 1 /\ d[i].index = Len(p)
           /\ d[i].op \in {"EVAL", "MODULE"} => i = Len(c) + 2 /\ d[i - 1].op = "DEF_START"
  PROVE  Matches(d, q)
<1>1. /\ Len(c) \in Nat /\ Len(d) \in Nat /\ DOMAIN c = 1 .. Len(c) /\ DOMAIN d = 1 .. Len(d)
      /\ Len(p) \in Nat /\ Len(q) \in Nat
  OBVIOUS
<1>2. NamesOf(q) = GivenBelow(d, Len(d) + 1)
  <2>1. NamesOf(p) = GivenBelow(c, Len(c) + 1)
    BY DEF Matches
  <2>2. GivenBelow(d, Len(d) + 1)
          = GivenBelow(c, Len(c) + 1) \cup UNION {Gives(d[i]) : i \in Len(c) + 1 .. Len(d)}
    BY GivenGrows
  <2> QED
    BY <2>1, <2>2
<1>3. ASSUME NEW k \in 0 .. Len(p)
      PROVE  FirstNames(q, k) = FirstNames(p, k)
  BY FirstOfMore
<1>4. ASSUME NEW i \in DOMAIN d
      PROVE  /\ d[i].op = "DEF_START" =>
                  d[i].index \in 0 .. Len(q) /\ FirstNames(q, d[i].index) = GivenBelow(d, i)
             /\ d[i].op \in {"EVAL", "MODULE"} => i - 1 \in DOMAIN d /\ d[i - 1].op = "DEF_START"
  <2>1. CASE i \in DOMAIN c
    <3>1. d[i] = c[i] /\ GivenBelow(d, i) = GivenBelow(c, i)
      BY <1>1, <2>1, GivenGrows, SMTT(30)
    <3>2. /\ c[i].op = "DEF_START" =>
                  c[i].index \in 0 .. Len(p) /\ FirstNames(p, c[i].index) = GivenBelow(c, i)
          /\ c[i].op \in {"EVAL", "MODULE"} => i - 1 \in DOMAIN c /\ c[i - 1].op = "DEF_START"
      BY <2>1 DEF Matches
    <3>3. \A k \in 0 .. Len(p) : k \in 0 .. Len(q)
      BY <1>1
    <3>4. i - 1 \in DOMAIN c => i - 1 \in DOMAIN d /\ d[i - 1] = c[i - 1]
      BY <1>1
    <3> QED
      BY <1>3, <3>1, <3>2, <3>3, <3>4
  <2>2. CASE i \notin DOMAIN c
    <3>1. i \in Len(c) + 1 .. Len(d)
      BY <1>1, <2>2
    <3>2. ASSUME d[i].op = "DEF_START"
          PROVE  d[i].index \in 0 .. Len(q) /\ FirstNames(q, d[i].index) = GivenBelow(d, i)
      <4>1. i = Len(c) + 1 /\ d[i].index = Len(p)
        BY <3>1, <3>2
      <4>2. Len(p) \in 0 .. Len(p) /\ Len(p) \in 0 .. Len(q) /\ Len(c) + 1 \in 1 .. Len(c) + 1
        BY <1>1
      <4>3. FirstNames(q, Len(p)) = NamesOf(p)
        BY <1>3, <4>2, FirstAll
      <4>4. GivenBelow(d, i) = GivenBelow(c, Len(c) + 1)
        BY <4>1, <4>2, GivenGrows
      <4>5. NamesOf(p) = GivenBelow(c, Len(c) + 1)
        BY DEF Matches
      <4> QED
        BY <4>1, <4>2, <4>3, <4>4, <4>5
    <3>3. ASSUME d[i].op \in {"EVAL", "MODULE"}
          PROVE  i - 1 \in DOMAIN d /\ d[i - 1].op = "DEF_START"
      <4>1. i = Len(c) + 2 /\ d[i - 1].op = "DEF_START"
        BY <3>1, <3>3
      <4> QED
        BY <1>1, <4>1
    <3> QED
      BY <3>2, <3>3
  <2> QED
    BY <2>1, <2>2
<1> QED
  BY <1>2, <1>4 DEF Matches

-----------------------------------------------------------------------------
(* Lists that grow.                                                        *)

Longer(p, q) ==
  /\ q \in Seq(Entry) /\ Distinct(q)
  /\ Len(p) <= Len(q) /\ \A i \in 1 .. Len(p) : q[i] = p[i]

LEMMA LongerSame == ASSUME NEW p \in Seq(Entry), Distinct(p) PROVE Longer(p, p)
BY DEF Longer

LEMMA LongerOne ==
  ASSUME NEW p \in Seq(Entry), Distinct(p), NEW x \in Entry, x.name \notin NamesOf(p)
  PROVE  Longer(p, p \o <<x>>) /\ Longer(p, Append(p, x))
<1> DEFINE q == Append(p, x)
<1>1. /\ q \in Seq(Entry) /\ Len(q) = Len(p) + 1 /\ Len(p) \in Nat
      /\ DOMAIN q = 1 .. Len(p) + 1 /\ DOMAIN p = 1 .. Len(p)
      /\ q[Len(p) + 1] = x /\ \A i \in 1 .. Len(p) : q[i] = p[i]
  OBVIOUS
<1>2. p \o <<x>> = q
  OBVIOUS
<1> HIDE DEF q
<1>3. \A i \in 1 .. Len(p) : q[i].name \in NamesOf(p)
  BY <1>1 DEF NamesOf
<1>4. ASSUME NEW i \in DOMAIN q, NEW j \in DOMAIN q, q[i].name = q[j].name
      PROVE  i = j
  <2>1. CASE i \in 1 .. Len(p) /\ j \in 1 .. Len(p)
    <3>1. p[i].name = p[j].name /\ i \in DOMAIN p /\ j \in DOMAIN p
      BY <1>1, <1>4, <2>1
    <3> QED
      BY <3>1 DEF Distinct
  <2>2. CASE i \in 1 .. Len(p) /\ j = Len(p) + 1
    BY <1>1, <1>3, <1>4, <2>2
  <2>3. CASE j \in 1 .. Len(p) /\ i = Len(p) + 1
    BY <1>1, <1>3, <1>4, <2>3
  <2>4. CASE i = Len(p) + 1 /\ j = Len(p) + 1
    BY <2>4
  <2>5. \A k \in DOMAIN q : k \in 1 .. Len(p) \/ k = Len(p) + 1
    BY <1>1
  <2> QED
    BY <2>1, <2>2, <2>3, <2>4, <2>5
<1>5. Distinct(q)
  BY <1>4 DEF Distinct
<1>6. Len(p) <= Len(q)
  BY <1>1
<1>7. Longer(p, q)
  BY <1>1, <1>5, <1>6 DEF Longer
<1> QED
  BY <1>2, <1>7 DEF q

(* What make adds to the list.                                             *)
LEMMA MakeLonger ==
  ASSUME TInv, NEW ns \in Lists, nextReg + Len(ns) < NumRegs,
         Distinct(declaredVars), NamesOf(declaredVars) \subseteq Known(varLocations)
  PROVE  Longer(declaredVars, declaredVars \o NewEntry(ns, 1) \o NewEntry(ns, 2))
<1> DEFINE a == NewEntry(ns, 1)
           b == NewEntry(ns, 2)
<1>1. declaredVars \in Seq(Entry) /\ varLocations \in [Names -> Regs \cup {None}]
  BY DEF TInv, TypeOK
<1>2. /\ Len(ns) \in {0, 1, 2} /\ DOMAIN ns = 1 .. Len(ns) /\ \A i \in DOMAIN ns : ns[i] \in Names
  BY ListFacts
<1>3. \A i \in DOMAIN ns : nextReg + i - 1 \in Regs
  <2>1. nextReg \in 0 .. NumRegs - 1 /\ NumRegs \in Nat
    BY ReplAssumption DEF TInv, TypeOK, Regs
  <2> QED
    BY <1>2, <2>1 DEF Regs
<1> DEFINE x(i) == [name |-> ns[i], reg |-> nextReg + i - 1]
<1>4. \A i \in DOMAIN ns : x(i) \in Entry /\ x(i).name = ns[i]
  BY <1>2, <1>3 DEF Entry
<1>5. \A i \in {1, 2} : IsNew(ns, i) =>
        i \in DOMAIN ns /\ NewEntry(ns, i) = <<x(i)>> /\ ns[i] \notin NamesOf(declaredVars)
  BY DEF IsNew, NewEntry, Known
<1>6. \A i \in {1, 2} : ~IsNew(ns, i) => NewEntry(ns, i) = <<>>
  BY DEF NewEntry
<1>7. IsNew(ns, 2) => ns[1] # ns[2]
  BY DEF IsNew
<1> HIDE DEF x
<1>8. /\ Longer(declaredVars, declaredVars \o a)
      /\ IsNew(ns, 1) => NamesOf(declaredVars \o a) = NamesOf(declaredVars) \cup {ns[1]}
      /\ ~IsNew(ns, 1) => NamesOf(declaredVars \o a) = NamesOf(declaredVars)
  <2>1. CASE IsNew(ns, 1)
    <3>1. a = <<x(1)>> /\ x(1) \in Entry /\ x(1).name = ns[1] /\ ns[1] \notin NamesOf(declaredVars)
      BY <1>4, <1>5, <2>1
    <3>2. <<x(1)>> \in Seq(Entry) /\ NamesOf(<<x(1)>>) = {ns[1]}
      BY <3>1, NamesOfOne
    <3>3. NamesOf(declaredVars \o a) = NamesOf(declaredVars) \cup {ns[1]}
      BY <1>1, <3>1, <3>2, NamesOfCat
    <3> QED
      BY <1>1, <2>1, <3>1, <3>3, LongerOne
  <2>2. CASE ~IsNew(ns, 1)
    <3>1. declaredVars \o a = declaredVars
      BY <1>1, <1>6, <2>2
    <3> QED
      BY <1>1, <2>2, <3>1, LongerSame
  <2> QED
    BY <2>1, <2>2
<1> DEFINE p == declaredVars \o a
<1>9. /\ p \in Seq(Entry) /\ Distinct(p)
      /\ Len(declaredVars) <= Len(p) /\ \A i \in 1 .. Len(declaredVars) : p[i] = declaredVars[i]
  BY <1>8 DEF Longer
<1>10. IsNew(ns, 2) => ns[2] \notin NamesOf(p)
  BY <1>5, <1>7, <1>8
<1>11. p \o b = declaredVars \o NewEntry(ns, 1) \o NewEntry(ns, 2)
  OBVIOUS
<1> HIDE DEF p
<1>12. Longer(p, p \o b)
  <2>1. CASE IsNew(ns, 2)
    <3>1. b = <<x(2)>> /\ x(2) \in Entry /\ x(2).name = ns[2]
      BY <1>4, <1>5, <2>1
    <3> QED
      BY <1>9, <1>10, <2>1, <3>1, LongerOne
  <2>2. CASE ~IsNew(ns, 2)
    <3>1. p \o b = p
      BY <1>6, <1>9, <2>2
    <3> QED
      BY <1>9, <3>1, LongerSame
  <2> QED
    BY <2>1, <2>2
<1> HIDE DEF b
<1> DEFINE q == p \o b
<1>13. /\ q \in Seq(Entry) /\ Distinct(q) /\ Len(p) <= Len(q) /\ \A i \in 1 .. Len(p) : q[i] = p[i]
  BY <1>12 DEF Longer
<1> HIDE DEF q
<1>14. Len(declaredVars) \in Nat /\ Len(p) \in Nat /\ Len(q) \in Nat
  BY <1>1, <1>9, <1>13
<1>15. Len(declaredVars) <= Len(q) /\ \A i \in 1 .. Len(declaredVars) : q[i] = declaredVars[i]
  BY <1>9, <1>13, <1>14
<1>16. Longer(declaredVars, q)
  BY <1>13, <1>15 DEF Longer
<1> QED
  BY <1>11, <1>16 DEF q

-----------------------------------------------------------------------------
(* Code and list grow together.                                            *)

LEMMA Positions ==
  ASSUME NEW n \in Nat, NEW k \in Nat
  PROVE  \A i \in n + 1 .. n + k + 2 : i = n + 1 \/ i = n + k + 2 \/ \E j \in 1 .. k : i = n + 1 + j
<1> SUFFICES ASSUME NEW i \in n + 1 .. n + k + 2, i # n + 1, i # n + k + 2
             PROVE  \E j \in 1 .. k : i = n + 1 + j
  OBVIOUS
<1>1. i - n - 1 \in 1 .. k /\ i = n + 1 + (i - n - 1)
  OBVIOUS
<1> QED
  BY <1>1

LEMMA WrappedMatches ==
  ASSUME NEW c \in Seq(Instr), NEW d, NEW m \in Seq(Instr), NEW p \in Seq(Entry), NEW q,
         Matches(c, p), Wrapped(c, d, Len(p), m), Longer(p, q),
         NamesOf(q) = NamesOf(p) \cup UNION {Gives(m[i]) : i \in DOMAIN m},
         \A i \in DOMAIN m :
           /\ m[i].op # "DEF_START"
           /\ m[i].op \in {"EVAL", "MODULE"} => i = 1
  PROVE  Matches(d, q)
<1> DEFINE n == Len(c)
           last == Len(c) + Len(m) + 2
<1>1. /\ d \in Seq(Instr) /\ Len(d) = last /\ \A i \in 1 .. n : d[i] = c[i]
      /\ d[n + 1] = DefStart(Len(p)) /\ d[last] = DefEnd
      /\ \A i \in 1 .. Len(m) : d[n + 1 + i] = m[i]
  BY DEF Wrapped
<1>2. n \in Nat /\ Len(m) \in Nat /\ DOMAIN m = 1 .. Len(m) /\ Len(p) \in Nat
  OBVIOUS
<1>3. /\ DefStart(Len(p)).op = "DEF_START" /\ DefStart(Len(p)).index = Len(p)
      /\ DefEnd.op = "DEF_END"
      /\ Gives(DefStart(Len(p))) = {} /\ Gives(DefEnd) = {}
  BY DEF DefStart, DefEnd, Gives
<1>4. \A i \in n + 1 .. last : i = n + 1 \/ i = last \/ \E j \in 1 .. Len(m) : i = n + 1 + j
  BY <1>2, Positions
<1>5. n + 1 \in n + 1 .. last /\ last \in n + 1 .. last /\ \A j \in 1 .. Len(m) : n + 1 + j \in n + 1 .. last
  BY <1>2
<1>5a. n + 1 + 1 = n + 2 /\ n + 2 - 1 = n + 1 /\ n <= last
  BY <1>2
<1> HIDE DEF n, last
<1>6. UNION {Gives(d[i]) : i \in n + 1 .. last} = UNION {Gives(m[i]) : i \in DOMAIN m}
  <2>1. ASSUME NEW i \in n + 1 .. last
        PROVE  Gives(d[i]) \subseteq UNION {Gives(m[j]) : j \in DOMAIN m}
    <3>1. CASE i = n + 1 \/ i = last
      BY <1>1, <1>3, <3>1
    <3>2. CASE \E j \in 1 .. Len(m) : i = n + 1 + j
      BY <1>1, <1>2, <3>2
    <3> QED
      BY <1>4, <3>1, <3>2
  <2>2. ASSUME NEW j \in DOMAIN m
        PROVE  \E i \in n + 1 .. last : d[i] = m[j]
    BY <1>1, <1>2, <1>5
  <2>3. \A j \in DOMAIN m : Gives(m[j]) \subseteq UNION {Gives(d[i]) : i \in n + 1 .. last}
    BY <2>2
  <2>4. UNION {Gives(m[j]) : j \in DOMAIN m} \subseteq UNION {Gives(d[i]) : i \in n + 1 .. last}
    BY <2>3
  <2>5. UNION {Gives(d[i]) : i \in n + 1 .. last} \subseteq UNION {Gives(m[j]) : j \in DOMAIN m}
    BY <2>1
  <2> QED
    BY <2>4, <2>5
<1>7. ASSUME NEW i \in n + 1 .. last
      PROVE  /\ d[i].op = "DEF_START" => i = n + 1 /\ d[i].index = Len(p)
             /\ d[i].op \in {"EVAL", "MODULE"} => i = n + 2 /\ d[i - 1].op = "DEF_START"
  <2>1. CASE i = n + 1
    BY <1>1, <1>3, <2>1
  <2>2. CASE i = last
    BY <1>1, <1>3, <2>2
  <2>3. CASE \E j \in 1 .. Len(m) : i = n + 1 + j
    <3>1. PICK j \in 1 .. Len(m) : i = n + 1 + j
      BY <2>3
    <3>2. d[i] = m[j] /\ m[j].op # "DEF_START" /\ m[j].op \in {"EVAL", "MODULE"} => j = 1
      BY <1>1, <1>2, <3>1
    <3>a. j = 1 => i = n + 2 /\ i - 1 = n + 1
      BY <1>2, <1>5a, <3>1
    <3>3. j = 1 => i = n + 2 /\ d[i - 1].op = "DEF_START"
      BY <1>1, <1>3, <3>a
    <3>4. d[i] = m[j] /\ m[j].op # "DEF_START"
      BY <1>1, <1>2, <3>1
    <3> QED
      BY <3>2, <3>3, <3>4
  <2> QED
    BY <1>4, <2>1, <2>2, <2>3
<1>8. /\ q \in Seq(Entry) /\ Distinct(q) /\ Len(p) <= Len(q) /\ \A i \in 1 .. Len(p) : q[i] = p[i]
  BY DEF Longer
<1>9. NamesOf(q) = NamesOf(p) \cup UNION {Gives(d[i]) : i \in n + 1 .. Len(d)}
  BY <1>1, <1>6
<1>10. Len(c) <= Len(d)
  BY <1>1, <1>5a DEF n
<1> QED
  BY <1>1, <1>7, <1>8, <1>9, <1>10, MatchesGrows DEF n

-----------------------------------------------------------------------------
(* Statements.                                                             *)

(* What a line without an error knows while it is compiled.                *)
LEMMA LineFacts ==
  ASSUME TInv, RInv, features \subseteq {"slip"}, phase = "compiling", Matches(code, declaredVars)
  PROVE  /\ code \in Seq(Instr) /\ declaredVars \in Seq(Entry) /\ Index = Len(declaredVars)
         /\ varLocations \in [Names -> Regs \cup {None}] /\ nextReg \in Regs
         /\ Distinct(declaredVars) /\ NamesOf(declaredVars) \subseteq Known(varLocations)
         /\ \A n : MayDeclare(n) => varLocations[n] = None
         /\ \A n \in Names : varLocations[n] = None => n \notin NamesOf(declaredVars)
<1>1. /\ code \in Seq(Instr) /\ declaredVars \in Seq(Entry)
      /\ varLocations \in [Names -> Regs \cup {None}] /\ nextReg \in Regs
  BY DEF TInv, TypeOK
<1>2. {"redeclare", "hoist"} \cap features = {}
  OBVIOUS
<1>3. NamesOf(declaredVars) \subseteq Known(varLocations)
  BY <1>2 DEF RInv, LineIsListed
<1>4. \A n : MayDeclare(n) => varLocations[n] = None
  BY <1>2 DEF MayDeclare
<1>5. \A n \in Names : varLocations[n] = None => n \notin NamesOf(declaredVars)
  BY <1>3 DEF Known
<1> QED
  BY <1>1, <1>3, <1>4, <1>5 DEF Matches, Index

LEMMA VarDeclMatches ==
  ASSUME TInv, RInv, features \subseteq {"slip"}, Matches(code, declaredVars),
         NEW ns \in Lists, NEW init \in BOOLEAN, VarDecl(ns, init)
  PROVE  Matches(code', declaredVars')
<1>1. /\ Len(ns) \in {0, 1, 2} /\ DOMAIN ns = 1 .. Len(ns) /\ \A i \in DOMAIN ns : ns[i] \in Names
  BY ListFacts
<1>2. Compiling(Len(ns)) /\ Len(ns) \in Nat /\ phase = "compiling"
  BY <1>1 DEF VarDecl, Compiling
<1>3. nextReg \in Nat /\ NumRegs \in Nat /\ nextReg + Len(ns) < NumRegs
  BY <1>2, CompilingFacts
<1>4. /\ code \in Seq(Instr) /\ declaredVars \in Seq(Entry) /\ Index = Len(declaredVars)
      /\ Distinct(declaredVars) /\ NamesOf(declaredVars) \subseteq Known(varLocations)
      /\ \A n : MayDeclare(n) => varLocations[n] = None
  BY <1>2, LineFacts
<1>5. NewNames(ns) = ToSet(ns) /\ ToSet(ns) \subseteq Names /\ Home(ns) \in [ToSet(ns) -> Regs]
  <2>1. \A n \in ToSet(ns) : varLocations[n] = None
    BY <1>4 DEF VarDecl
  <2> QED
    BY <1>3, <2>1, NewNamesFacts
<1> DEFINE q == declaredVars \o NewEntry(ns, 1) \o NewEntry(ns, 2)
<1>6. declaredVars' = q
  BY DEF VarDecl
<1>7. Longer(declaredVars, q)
  BY <1>3, <1>4, MakeLonger
<1> HIDE DEF q
<1>8. NamesOf(declaredVars') = NamesOf(declaredVars) \cup NewNames(ns)
  BY VarDeclDeclares DEF Declares
<1> DEFINE m == IF init THEN <<Eval(Spare(ns), Home(ns), {0}, NewNames(ns))>>
                ELSE [i \in DOMAIN ns |-> Load(Home(ns)[ns[i]], ns[i])]
<1>9. code' = code \o <<DefStart(Index)>> \o m \o <<DefEnd>>
  BY DEF VarDecl
<1>10. /\ m \in Seq(Instr)
       /\ UNION {Gives(m[i]) : i \in DOMAIN m} = ToSet(ns)
       /\ \A i \in DOMAIN m : m[i].op # "DEF_START" /\ (m[i].op \in {"EVAL", "MODULE"} => i = 1)
  <2>1. CASE init
    <3> DEFINE x == Eval(Spare(ns), Home(ns), {0}, NewNames(ns))
    <3>1. Spare(ns) \in SUBSET Int
      BY <1>1, <1>3 DEF Spare
    <3>2. Home(ns) \in Homes /\ {0} \in SUBSET Nat /\ NewNames(ns) \in SUBSET Names
      BY <1>5 DEF Homes
    <3>3. x \in Instr /\ x.op = "EVAL" /\ x.home = Home(ns)
      BY <3>1, <3>2, InstrTypes DEF Eval
    <3>4. m = <<x>>
      BY <2>1
    <3> HIDE DEF x, m
    <3>5. Gives(x) = ToSet(ns)
      BY <1>5, <3>3 DEF Gives
    <3>6. m \in Seq(Instr) /\ DOMAIN m = {1} /\ m[1] = x
      BY <3>3, <3>4
    <3> QED
      BY <3>3, <3>5, <3>6
  <2>2. CASE ~init
    <3>1. \A i \in DOMAIN ns : Load(Home(ns)[ns[i]], ns[i]) \in Instr
      BY <1>1, <1>5, InstrTypes DEF ToSet
    <3>2. m = [i \in DOMAIN ns |-> Load(Home(ns)[ns[i]], ns[i])]
      BY <2>2
    <3> HIDE DEF m
    <3>3. m \in Seq(Instr) /\ DOMAIN m = DOMAIN ns
      <4>1. m \in [1 .. Len(ns) -> Instr]
        BY <1>1, <3>1, <3>2
      <4> QED
        BY <1>1, <1>2, <4>1
    <3>4. \A i \in DOMAIN m : m[i].op = "LOAD" /\ m[i].name = ns[i]
      BY <3>2 DEF Load
    <3>5. \A i \in DOMAIN m : Gives(m[i]) = {ns[i]}
      BY <3>4 DEF Gives
    <3>6. UNION {Gives(m[i]) : i \in DOMAIN m} = ToSet(ns)
      BY <3>3, <3>5 DEF ToSet
    <3> QED
      BY <3>3, <3>4, <3>6
  <2> QED
    BY <2>1, <2>2
<1> HIDE DEF m
<1>11. Index \in Nat
  BY <1>4
<1>12. Wrapped(code, code', Len(declaredVars), m)
  BY <1>4, <1>9, <1>10, <1>11, WrapMany
<1>13. NamesOf(q) = NamesOf(declaredVars) \cup UNION {Gives(m[i]) : i \in DOMAIN m}
  BY <1>5, <1>6, <1>8, <1>10
<1> QED
  BY <1>4, <1>6, <1>7, <1>10, <1>12, <1>13, WrappedMatches

(* A declaration of one name n by one instruction x.                       *)
LEMMA OneMatches ==
  ASSUME TInv, RInv, features \subseteq {"slip"}, phase = "compiling", Matches(code, declaredVars),
         NEW n \in Names, NEW r \in Regs, varLocations[n] = None,
         declaredVars' = Append(declaredVars, [name |-> n, reg |-> r]),
         NEW x \in Instr, x.op # "DEF_START", Gives(x) = {n},
         code' = code \o <<DefStart(Index), x, DefEnd>>
  PROVE  Matches(code', declaredVars')
<1> DEFINE e == [name |-> n, reg |-> r]
           m == <<x>>
<1>1. e \in Entry /\ e.name = n
  BY DEF Entry
<1>2. /\ code \in Seq(Instr) /\ declaredVars \in Seq(Entry) /\ Index = Len(declaredVars)
      /\ Distinct(declaredVars) /\ n \notin NamesOf(declaredVars)
  BY LineFacts
<1>3. declaredVars' = Append(declaredVars, e)
  OBVIOUS
<1> HIDE DEF e
<1>4. Longer(declaredVars, declaredVars')
  BY <1>1, <1>2, <1>3, LongerOne
<1>5. NamesOf(declaredVars') = NamesOf(declaredVars) \cup {n}
  BY <1>1, <1>2, <1>3, NamesOfAppend
<1>6. Index \in Nat
  BY <1>2
<1>7. Wrapped(code, code', Len(declaredVars), m)
  BY <1>2, <1>6, WrapOne
<1>8. m \in Seq(Instr) /\ DOMAIN m = {1} /\ m[1] = x
  OBVIOUS
<1> HIDE DEF m
<1>9. UNION {Gives(m[i]) : i \in DOMAIN m} = {n}
  BY <1>8
<1>10. \A i \in DOMAIN m : m[i].op # "DEF_START" /\ (m[i].op \in {"EVAL", "MODULE"} => i = 1)
  BY <1>8
<1> QED
  BY <1>2, <1>4, <1>5, <1>7, <1>8, <1>9, <1>10, WrappedMatches

LEMMA FuncDeclMatches ==
  ASSUME TInv, RInv, features \subseteq {"slip"}, Matches(code, declaredVars),
         NEW n \in Names, NEW ok \in BOOLEAN, FuncDecl(n, ok), ~hitError'
  PROVE  Matches(code', declaredVars')
<1>1. phase = "compiling" /\ MayDeclare(n) /\ CompileFunc(n, ok)
  BY DEF FuncDecl, Compiling
<1>2. varLocations[n] = None /\ nextReg \in Regs
  BY <1>1, LineFacts
<1>3. /\ hitError' = (hitError \/ ~ok)
      /\ code' = code \o <<DefStart(Index), Load(nextReg, n), DefEnd>>
      /\ ~(~hitError /\ ~ok) => declaredVars' = Append(declaredVars, [name |-> n, reg |-> nextReg])
  BY <1>1, <1>2 DEF CompileFunc
<1>4. declaredVars' = Append(declaredVars, [name |-> n, reg |-> nextReg])
  BY <1>3
<1> DEFINE x == Load(nextReg, n)
<1>5. x \in Instr /\ x.op # "DEF_START" /\ Gives(x) = {n}
  BY <1>2, InstrTypes DEF Load, Gives
<1>6. code' = code \o <<DefStart(Index), x, DefEnd>>
  BY <1>3
<1> HIDE DEF x
<1> QED
  BY <1>1, <1>2, <1>4, <1>5, <1>6, OneMatches

LEMMA UseModuleMatches ==
  ASSUME TInv, RInv, features \subseteq {"slip"}, Matches(code, declaredVars),
         NEW n \in Names, UseModule(n) \/ UseModuleEntry(n)
  PROVE  Matches(code', declaredVars')
<1>1. nextReg \in Nat /\ NumRegs \in Nat
  BY ReplAssumption DEF TInv, TypeOK, Regs
<1>2. ASSUME NEW r \in Regs, NEW temp \in Nat, NEW entry \in BOOLEAN, phase = "compiling",
             MayDeclare(n), DefVar(n, r),
             code' = code \o <<DefStart(Index), Import({temp}, [m \in {n} |-> r], entry), DefEnd>>
      PROVE  Matches(code', declaredVars')
  <2> DEFINE x == Import({temp}, [m \in {n} |-> r], entry)
  <2>1. {temp} \in SUBSET Int /\ [m \in {n} |-> r] \in Homes
    <3>1. [m \in {n} |-> r] \in [{n} -> Regs] /\ {n} \in SUBSET Names
      OBVIOUS
    <3>2. [m \in {n} |-> r] \in Homes
      BY <3>1 DEF Homes
    <3>3. {temp} \in SUBSET Int
      OBVIOUS
    <3> QED
      BY <3>2, <3>3
  <2>2. x \in Instr
    BY <2>1, InstrTypes
  <2>3. x.op = "MODULE" /\ DOMAIN x.home = {n}
    BY DEF Import
  <2>4. code' = code \o <<DefStart(Index), x, DefEnd>>
    BY <1>2
  <2> HIDE DEF x
  <2>5. x.op # "DEF_START" /\ Gives(x) = {n}
    BY <2>3 DEF Gives
  <2>6. varLocations[n] = None
    BY <1>2, LineFacts
  <2>7. declaredVars' = Append(declaredVars, [name |-> n, reg |-> r])
    BY <1>2 DEF DefVar
  <2> QED
    BY <1>2, <2>2, <2>4, <2>5, <2>6, <2>7, OneMatches
<1>3. CASE UseModule(n)
  <2>1. /\ Compiling(1) /\ MayDeclare(n) /\ DefVar(n, nextReg)
        /\ code' = code \o <<DefStart(Index), Import({nextReg + 1}, [m \in {n} |-> nextReg], FALSE), DefEnd>>
    BY <1>3 DEF UseModule
  <2>2. phase = "compiling" /\ nextReg \in Regs /\ nextReg + 1 \in Nat
    BY <1>1, <2>1 DEF Compiling, TInv, TypeOK
  <2> QED
    BY <1>2, <2>1, <2>2
<1>4. CASE UseModuleEntry(n)
  <2>1. /\ Compiling(2) /\ MayDeclare(n) /\ DefVar(n, nextReg + 1)
        /\ code' = code \o <<DefStart(Index), Import({nextReg}, [m \in {n} |-> nextReg + 1], TRUE), DefEnd>>
    BY <1>4 DEF UseModuleEntry
  <2>2. phase = "compiling" /\ nextReg + 2 < NumRegs
    BY <2>1 DEF Compiling
  <2>3. nextReg + 1 \in Regs
    BY <1>1, <2>2 DEF Regs
  <2> QED
    BY <1>1, <1>2, <2>1, <2>2, <2>3
<1> QED
  BY <1>3, <1>4

(* A type has no note, and nothing that can fail.                          *)
LEMMA TypeDeclMatches ==
  ASSUME TInv, RInv, features \subseteq {"slip"}, Matches(code, declaredVars),
         NEW n \in Names, NEW ok \in BOOLEAN, TypeDecl(n, ok)
  PROVE  Matches(code', declaredVars')
<1> DEFINE e == [name |-> n, reg |-> nextReg]
           x == Load(nextReg, n)
<1>1. /\ phase = "compiling" /\ MayDeclare(n) /\ code' = Append(code, x)
      /\ declaredVars' = Append(declaredVars, e)
  BY DEF TypeDecl, Compiling, DefVar
<1>2. /\ code \in Seq(Instr) /\ declaredVars \in Seq(Entry) /\ nextReg \in Regs
      /\ Distinct(declaredVars) /\ n \notin NamesOf(declaredVars)
  BY <1>1, LineFacts
<1>3. e \in Entry /\ e.name = n
  BY <1>2 DEF Entry
<1>4. x \in Instr /\ x.op = "LOAD" /\ Gives(x) = {n}
  BY <1>2, InstrTypes DEF Load, Gives
<1> HIDE DEF e, x
<1>5. Longer(declaredVars, declaredVars')
  BY <1>1, <1>2, <1>3, LongerOne
<1>6. NamesOf(declaredVars') = NamesOf(declaredVars) \cup {n}
  BY <1>1, <1>2, <1>3, NamesOfAppend
<1>7. /\ code' \in Seq(Instr) /\ Len(code) \in Nat /\ Len(code') = Len(code) + 1
      /\ code'[Len(code) + 1] = x /\ \A i \in 1 .. Len(code) : code'[i] = code[i]
  BY <1>1, <1>2, <1>4
<1>8. /\ declaredVars' \in Seq(Entry) /\ Distinct(declaredVars')
      /\ Len(declaredVars) <= Len(declaredVars')
      /\ \A i \in 1 .. Len(declaredVars) : declaredVars'[i] = declaredVars[i]
  BY <1>5 DEF Longer
<1>9. \A i \in Len(code) + 1 .. Len(code') : i = Len(code) + 1
  BY <1>7
<1>10. Len(code) + 1 \in Len(code) + 1 .. Len(code') /\ Len(code) <= Len(code')
  BY <1>7
<1>11. UNION {Gives(code'[i]) : i \in Len(code) + 1 .. Len(code')} = {n}
  <2>1. Len(code) + 1 .. Len(code') = {Len(code) + 1}
    BY <1>9, <1>10
  <2> QED
    BY <1>4, <1>7, <2>1
<1>12. ASSUME NEW i \in Len(code) + 1 .. Len(code')
       PROVE  code'[i].op = "LOAD"
  BY <1>4, <1>7, <1>9
<1> QED
  BY <1>2, <1>6, <1>7, <1>8, <1>10, <1>11, <1>12, MatchesGrows

LEMMA StatementsFollow ==
  ASSUME TInv, RInv, XInv,
         \/ \E ns \in Lists, init \in BOOLEAN : VarDecl(ns, init)
         \/ \E n \in Names : UseModule(n) \/ UseModuleEntry(n)
         \/ \E n \in Names, ok \in BOOLEAN : FuncDecl(n, ok) \/ TypeDecl(n, ok)
         \/ \E k \in Slips : VarDeclError(k) \/ StmtError(k)
         \/ ExprStmt
  PROVE  XInv'
<1>1. (\E k : Compiling(k)) /\ (~hitError' => ~hitError)
  <2>1. CASE \E ns \in Lists, init \in BOOLEAN : VarDecl(ns, init)
    <3>1. PICK ns \in Lists, init \in BOOLEAN : VarDecl(ns, init)
      BY <2>1
    <3>2. Compiling(Len(ns)) /\ UNCHANGED hitError
      BY <3>1 DEF VarDecl
    <3> QED
      BY <3>2
  <2>2. CASE \E n \in Names : UseModule(n) \/ UseModuleEntry(n)
    BY <2>2 DEF UseModule, UseModuleEntry
  <2>3. CASE \E n \in Names, ok \in BOOLEAN : FuncDecl(n, ok) \/ TypeDecl(n, ok)
    <3>1. PICK n \in Names, ok \in BOOLEAN : FuncDecl(n, ok) \/ TypeDecl(n, ok)
      BY <2>3
    <3>2. Compiling(1) /\ hitError' = (hitError \/ ~ok)
      BY <3>1 DEF FuncDecl, TypeDecl, CompileFunc
    <3> QED
      BY <3>2
  <2>4. CASE \E k \in Slips : VarDeclError(k) \/ StmtError(k)
    BY <2>4 DEF VarDeclError, StmtError
  <2>5. CASE ExprStmt
    BY <2>5 DEF ExprStmt
  <2> QED
    BY <2>1, <2>2, <2>3, <2>4, <2>5
<1>2. phase = "compiling" /\ UNCHANGED <<phase, features, before, executed>>
  BY <1>1 DEF Compiling, ghosts
<1> SUFFICES ASSUME features \subseteq {"slip"}, ~hitError'
             PROVE  Matches(code', declaredVars')
  BY <1>2 DEF XInv
<1>3. Matches(code, declaredVars)
  BY <1>1, <1>2 DEF XInv
<1>4. ASSUME NEW ns \in Lists, NEW init \in BOOLEAN, VarDecl(ns, init)
      PROVE  Matches(code', declaredVars')
  BY <1>3, <1>4, VarDeclMatches
<1>5. ASSUME NEW n \in Names, UseModule(n) \/ UseModuleEntry(n)
      PROVE  Matches(code', declaredVars')
  BY <1>3, <1>5, UseModuleMatches
<1>6. ASSUME NEW n \in Names, NEW ok \in BOOLEAN, FuncDecl(n, ok)
      PROVE  Matches(code', declaredVars')
  BY <1>3, <1>6, FuncDeclMatches
<1>7. ASSUME NEW n \in Names, NEW ok \in BOOLEAN, TypeDecl(n, ok)
      PROVE  Matches(code', declaredVars')
  BY <1>3, <1>7, TypeDeclMatches
<1>8. ~(\E k \in Slips : VarDeclError(k) \/ StmtError(k))
  BY DEF VarDeclError, StmtError
<1>9. ~ExprStmt
  BY DEF ExprStmt
<1> QED
  BY <1>4, <1>5, <1>6, <1>7, <1>8, <1>9

LEMMA HoistedFollows == XInv /\ RInv /\ (\E ok \in BOOLEAN : HoistedFuncDecl(ok)) => XInv'
<1> SUFFICES ASSUME RInv, \E ok \in BOOLEAN : HoistedFuncDecl(ok), features' \subseteq {"slip"}
             PROVE  FALSE
  BY DEF XInv
<1>1. phase = "compiling" /\ hoisted # <<>> /\ UNCHANGED features
  BY DEF HoistedFuncDecl, ghosts
<1>2. {"redeclare", "hoist"} \cap features = {}
  BY <1>1
<1> QED
  BY <1>1, <1>2 DEF RInv, LineIsListed

-----------------------------------------------------------------------------
(* The start and the end of a line.                                        *)

LEMMA StartLineFollows ==
  ASSUME TInv, RInv, XInv, NEW parseError \in BOOLEAN, NEW fns \in Lists, StartLine(parseError, fns)
  PROVE  XInv'
<1>1. /\ phase = "idle" /\ phase' = "compiling" /\ code' = <<>>
      /\ before' = Known(Cleared) /\ executed' = executed \cap Known(Cleared) /\ UNCHANGED features
      /\ fns # <<>> => "hoist" \in features
  BY DEF StartLine
<1>2. PICK r \in ClearedNextReg : declaredVars' = LineEntries(fns, r)
  BY DEF StartLine
<1> SUFFICES ASSUME features \subseteq {"slip"}
             PROVE  executed' = before' /\ Matches(code', declaredVars')
  BY <1>1 DEF XInv
<1>3. executed' = before'
  BY <1>1 DEF XInv
<1>4. DOMAIN declaredVars' = {}
  <2>1. fns = <<>>
    BY <1>1
  <2> QED
    BY <1>2, <2>1 DEF LineEntries, HoistEntries
<1>5. DOMAIN code' = {}
  BY <1>1
<1>6. NamesOf(declaredVars') = {} /\ GivenBelow(code', Len(code') + 1) = {} /\ Distinct(declaredVars')
  BY <1>4, <1>5 DEF NamesOf, GivenBelow, Distinct
<1> QED
  BY <1>3, <1>5, <1>6 DEF Matches

(* What the next line finds, if this one stops here.                       *)
LEMMA ClearedIsRolledBack ==
  /\ Cleared = RolledBack(varLocations, declaredVars, clearDeclaredVars, clearIndex)
  /\ Cleared' = RolledBack(varLocations', declaredVars', clearDeclaredVars', clearIndex')
BY DEF Cleared, RolledBack

(* The table of a line that has been listed.                               *)
LEMMA TableFacts ==
  ASSUME TInv, RInv, features \subseteq {"slip"}, phase # "crashed"
  PROVE  /\ varLocations \in [Names -> Regs \cup {None}] /\ declaredVars \in Seq(Entry)
         /\ before \in SUBSET Names
         /\ Known(varLocations) = before \cup NamesOf(declaredVars)
         /\ NamesOf(declaredVars) \cap before = {}
<1>1. {"redeclare", "hoist"} \cap features = {} /\ "redeclare" \notin features
  OBVIOUS
<1> QED
  BY <1>1 DEF RInv, LineIsListed, LineIsNew, TInv, TypeOK

LEMMA FinishFollows == TInv /\ RInv /\ XInv /\ FinishCompile => XInv'
<1> SUFFICES ASSUME TInv, RInv, XInv, FinishCompile, features \subseteq {"slip"}
             PROVE  XInv'
  BY DEF XInv, FinishCompile, ghosts
<1>1. /\ phase = "compiling" /\ ip' = 1
      /\ UNCHANGED <<varLocations, declaredVars, hitError, clearIndex, features, before, executed>>
      /\ hitError => phase' = "idle" /\ clearDeclaredVars' = Reject
      /\ ~hitError => phase' = "running" /\ UNCHANGED <<code, clearDeclaredVars>>
  BY DEF FinishCompile, ghosts
<1>2. ~clearDeclaredVars /\ clearIndex = 0 /\ executed = before
  <2>1. {"redeclare", "hoist"} \cap features = {}
    OBVIOUS
  <2>2. ~clearDeclaredVars /\ clearIndex = 0
    BY <1>1, <2>1 DEF RInv, LineIsListed
  <2> QED
    BY <1>1, <2>2 DEF XInv
<1>3. CASE hitError
  <2>1. /\ varLocations \in [Names -> Regs \cup {None}] /\ declaredVars \in Seq(Entry)
        /\ before \in SUBSET Names
        /\ Known(varLocations) = before \cup NamesOf(declaredVars)
        /\ NamesOf(declaredVars) \cap before = {}
    BY <1>1, TableFacts
  <2>2. Cleared' = RolledBack(varLocations, declaredVars, Reject, 0)
    BY <1>1, <1>2, <1>3, ClearedIsRolledBack
  <2>3. Known(RolledBack(varLocations, declaredVars, Reject, 0)) = before
    <3>1. 0 \in 0 .. Len(declaredVars)
      BY <2>1
    <3>2. /\ Known(RolledBack(varLocations, declaredVars, TRUE, 0)) = before \cup FirstNames(declaredVars, 0)
          /\ Known(RolledBack(varLocations, declaredVars, FALSE, 0)) = Known(varLocations)
      BY <2>1, <3>1, RolledBackNames
    <3>3. CASE declaredVars # <<>>
      <4>1. Reject = TRUE
        BY <3>3 DEF Reject
      <4> QED
        BY <3>2, <4>1, FirstNone
    <3>4. CASE declaredVars = <<>>
      <4>1. Reject = FALSE
        BY <1>2, <3>4 DEF Reject
      <4>2. NamesOf(declaredVars) = {}
        BY <3>4, NamesOfNone
      <4> QED
        BY <2>1, <3>2, <4>1, <4>2
    <3> QED
      BY <3>3, <3>4
  <2> QED
    BY <1>1, <1>2, <1>3, <2>2, <2>3 DEF XInv
<1>4. CASE ~hitError
  <2>1. Matches(code', declaredVars')
    BY <1>1, <1>4 DEF XInv
  <2>2. GivenBelow(code', ip') = {}
    BY <1>1, <1>4, GivenNone DEF TInv
  <2>3. NoteIsRight'
    <3>1. code' \in Seq(Instr) /\ ip' - 1 = 0
      BY <1>1, <1>4 DEF TInv
    <3>2. ip' - 1 \notin DOMAIN code'
      BY <3>1
    <3> QED
      BY <3>2 DEF NoteIsRight
  <2> QED
    BY <1>1, <1>2, <1>4, <2>1, <2>2, <2>3 DEF XInv
<1> QED
  BY <1>3, <1>4

-----------------------------------------------------------------------------
(* The VM.                                                                 *)

(* What runs in a session where nothing is nested.                         *)
LEMMA RunFacts ==
  ASSUME TInv, XInv, features \subseteq {"slip"}, NEW op, Fetch(op)
  PROVE  /\ phase = "running" /\ ip \in DOMAIN code /\ code[ip] \in Instr /\ code[ip].op \in op
         /\ code \in Seq(Instr) /\ ip \in Nat /\ ip + 1 - 1 = ip
         /\ executed = before \cup GivenBelow(code, ip)
         /\ GivenBelow(code, ip + 1) = GivenBelow(code, ip) \cup Gives(code[ip])
         /\ ~clearDeclaredVars /\ NoteIsRight /\ Nested = {}
<1>1. /\ phase = "running" /\ ip \in DOMAIN code /\ code[ip] \in Instr /\ code[ip].op \in op /\ ip \in Nat
  BY Fetched
<1>2. code \in Seq(Instr) /\ ip + 1 - 1 = ip
  BY <1>1 DEF TInv
<1>3. ~clearDeclaredVars /\ NoteIsRight /\ executed = before \cup GivenBelow(code, ip)
  BY <1>1 DEF XInv
<1>4. Nested = {}
  BY DEF Nested
<1> QED
  BY <1>1, <1>2, <1>3, <1>4, GivenNext

(* The next instruction, when this one has given what it gives.            *)
LEMMA AdvanceFollows ==
  ASSUME TInv, RInv, XInv, features \subseteq {"slip"}, NEW op, Fetch(op),
         UNCHANGED <<phase, compilerVars, features, before>>, ip' = ip + 1,
         ~clearDeclaredVars', executed' = executed \cup Gives(code[ip]),
         code[ip].op = "DEF_START" => inDeclaration' /\ vmClearIndex' = code[ip].index
  PROVE  XInv'
<1>1. /\ phase = "running" /\ ip \in Nat /\ ip + 1 - 1 = ip
      /\ executed = before \cup GivenBelow(code, ip)
      /\ GivenBelow(code, ip + 1) = GivenBelow(code, ip) \cup Gives(code[ip])
  BY RunFacts
<1>2. UNCHANGED <<phase, features, before, code, declaredVars, hitError>>
  BY DEF compilerVars
<1>3. executed' = before' \cup GivenBelow(code', ip')
  BY <1>1, <1>2
<1>4. NoteIsRight'
  BY <1>1, <1>2 DEF NoteIsRight
<1>5. ~hitError => Matches(code', declaredVars')
  BY <1>1, <1>2 DEF XInv
<1> QED
  BY <1>1, <1>2, <1>3, <1>4, <1>5 DEF XInv

LEMMA RunDefFollows == TInv /\ RInv /\ XInv /\ (RunDefStart \/ RunDefEnd) => XInv'
<1> SUFFICES ASSUME TInv, RInv, XInv, RunDefStart \/ RunDefEnd, features \subseteq {"slip"}
             PROVE  XInv'
  BY DEF XInv, RunDefStart, RunDefEnd, Advance
<1>1. /\ UNCHANGED <<phase, compilerVars, features, before, executed, clearDeclaredVars>> /\ ip' = ip + 1
      /\ Fetch({"DEF_START", "DEF_END"})
  BY DEF RunDefStart, RunDefEnd, Advance, staticVars, Fetch
<1>2. ~clearDeclaredVars' /\ code[ip].op \in {"DEF_START", "DEF_END"}
  BY <1>1, RunFacts
<1>3. Gives(code[ip]) = {}
  BY <1>2 DEF Gives
<1>4. code[ip].op = "DEF_START" => inDeclaration' /\ vmClearIndex' = code[ip].index
  BY DEF RunDefStart, RunDefEnd, Fetch
<1>5. executed' = executed \cup Gives(code[ip])
  BY <1>1, <1>3
<1> QED
  BY <1>1, <1>2, <1>4, <1>5, AdvanceFollows

LEMMA RunGiveFollows ==
  TInv /\ RInv /\ XInv /\ (RunLoad \/ RunEval \/ \E compiled \in BOOLEAN : RunImport(compiled)) => XInv'
<1> SUFFICES ASSUME TInv, RInv, XInv, RunLoad \/ RunEval \/ \E compiled \in BOOLEAN : RunImport(compiled),
                    features \subseteq {"slip"}
             PROVE  XInv'
  BY DEF XInv, RunLoad, RunEval, RunImport, Advance
<1>1. /\ UNCHANGED <<phase, compilerVars, features, before>> /\ ip' = ip + 1
      /\ Fetch({"LOAD", "EVAL", "MODULE"})
      /\ clearDeclaredVars' = FALSE \/ UNCHANGED clearDeclaredVars
  BY DEF RunLoad, RunEval, RunImport, Advance, staticVars, Fetch
<1>2. ~clearDeclaredVars' /\ code[ip].op \in {"LOAD", "EVAL", "MODULE"}
  BY <1>1, RunFacts
<1>3. executed' = executed \cup Gives(code[ip])
  BY DEF RunLoad, RunEval, RunImport, Store, Gives, Fetch
<1> QED
  BY <1>1, <1>2, <1>3, AdvanceFollows

(* An error in an initialiser marks the list for its roll-back, from the   *)
(* first entry that has no value on.                                       *)
LEMMA ErrorFacts ==
  ASSUME TInv, RInv, XInv, features \subseteq {"slip"}, RunEvalError
  PROVE  /\ Matches(code, declaredVars) /\ executed = before \cup GivenBelow(code, ip)
         /\ clearDeclaredVars' = TRUE /\ clearIndex' \in 0 .. Len(declaredVars)
         /\ FirstNames(declaredVars, clearIndex') = GivenBelow(code, ip)
<1>1. Fetch({"EVAL", "MODULE"})
  BY DEF RunEvalError
<1>2. /\ phase = "running" /\ ip \in DOMAIN code /\ code[ip].op \in {"EVAL", "MODULE"}
      /\ code \in Seq(Instr) /\ ip \in Nat
      /\ executed = before \cup GivenBelow(code, ip) /\ NoteIsRight /\ Nested = {}
  BY <1>1, RunFacts
<1>3. Matches(code, declaredVars)
  <2>1. ~hitError
    <3>1. {"redeclare", "hoist"} \cap features = {}
      OBVIOUS
    <3> QED
      BY <1>2, <3>1 DEF RInv, LineIsListed
  <2> QED
    BY <1>2, <2>1 DEF XInv
<1> DEFINE k == code[ip - 1].index
<1>4. /\ ip - 1 \in DOMAIN code /\ code[ip - 1].op = "DEF_START"
      /\ k \in 0 .. Len(declaredVars) /\ FirstNames(declaredVars, k) = GivenBelow(code, ip - 1)
  <2>1. ip - 1 \in DOMAIN code /\ code[ip - 1].op = "DEF_START"
    BY <1>2, <1>3 DEF Matches
  <2> QED
    BY <1>3, <2>1 DEF Matches
<1>5. inDeclaration /\ vmClearIndex = k
  BY <1>2, <1>4 DEF NoteIsRight
<1>6. clearDeclaredVars' = TRUE /\ clearIndex' = k
  <2>1. ErrorReset(inDeclaration, vmClearIndex)
    BY <1>2 DEF RunEvalError
  <2> QED
    BY <1>5, <2>1 DEF ErrorReset
<1>7. GivenBelow(code, ip) = FirstNames(declaredVars, k)
  <2>1. ip - 1 + 1 = ip /\ Gives(code[ip - 1]) = {}
    BY <1>2, <1>4 DEF Gives
  <2>2. GivenBelow(code, ip - 1 + 1) = GivenBelow(code, ip - 1) \cup Gives(code[ip - 1])
    BY <1>2, <1>4, GivenNext
  <2> QED
    BY <1>4, <2>1, <2>2
<1> QED
  BY <1>2, <1>3, <1>4, <1>6, <1>7

LEMMA RunErrorFollows == TInv /\ RInv /\ XInv /\ RunEvalError => XInv'
<1> SUFFICES ASSUME TInv, RInv, XInv, RunEvalError, features \subseteq {"slip"}
             PROVE  XInv'
  BY DEF XInv, RunEvalError, ghosts
<1>1. /\ phase = "running" /\ phase' = "idle"
      /\ UNCHANGED <<varLocations, declaredVars, code, features, before, executed>>
  BY DEF RunEvalError, Fetch, compilerVars, ghosts
<1> DEFINE k == clearIndex'
<1>2. /\ Matches(code, declaredVars) /\ executed = before \cup GivenBelow(code, ip)
      /\ clearDeclaredVars' = TRUE /\ k \in 0 .. Len(declaredVars)
      /\ FirstNames(declaredVars, k) = GivenBelow(code, ip)
  BY ErrorFacts
<1>3. Cleared' = RolledBack(varLocations, declaredVars, TRUE, k)
  BY <1>1, <1>2, ClearedIsRolledBack
<1> HIDE DEF k
<1>4. Known(RolledBack(varLocations, declaredVars, TRUE, k)) = before \cup FirstNames(declaredVars, k)
  <2>1. /\ varLocations \in [Names -> Regs \cup {None}] /\ declaredVars \in Seq(Entry)
        /\ before \in SUBSET Names
        /\ Known(varLocations) = before \cup NamesOf(declaredVars)
        /\ NamesOf(declaredVars) \cap before = {}
    BY <1>1, TableFacts
  <2>2. (Distinct(declaredVars) \/ k = 0) /\ k \in 0 .. Len(declaredVars)
    BY <1>2 DEF Matches
  <2> QED
    BY ONLY <2>1, <2>2, RolledBackNames
<1>5. Known(Cleared') = executed'
  BY <1>1, <1>2, <1>3, <1>4
<1> QED
  BY <1>1, <1>5 DEF XInv

LEMMA HaltFollows == TInv /\ RInv /\ XInv /\ Halt => XInv'
<1> SUFFICES ASSUME TInv, RInv, XInv, Halt, features \subseteq {"slip"}
             PROVE  XInv'
  BY DEF XInv, Halt, ghosts
<1>1. /\ phase = "running" /\ phase' = "idle" /\ ip > Len(code)
      /\ UNCHANGED <<varLocations, declaredVars, features, before, executed, clearDeclaredVars, clearIndex>>
  BY DEF Halt, compilerVars, staticVars, ghosts
<1>2. /\ ~clearDeclaredVars /\ executed = before \cup GivenBelow(code, ip)
      /\ NamesOf(declaredVars) = GivenBelow(code, Len(code) + 1)
  <2>1. ~hitError
    <3>1. {"redeclare", "hoist"} \cap features = {}
      OBVIOUS
    <3> QED
      BY <1>1, <3>1 DEF RInv, LineIsListed
  <2>2. Matches(code, declaredVars)
    BY <1>1, <2>1 DEF XInv
  <2> QED
    BY <1>1, <2>2 DEF XInv, Matches
<1>3. GivenBelow(code, ip) = GivenBelow(code, Len(code) + 1)
  <2>1. code \in Seq(Instr) /\ ip \in 1 .. Len(code) + 1
    BY <1>1 DEF TInv, TypeOK
  <2>2. ip \in Nat
    BY <2>1
  <2> QED
    BY <1>1, <2>1, <2>2, GivenAll
<1>4. Known(varLocations) = before \cup NamesOf(declaredVars)
  BY <1>1, TableFacts
<1>5. Known(Cleared') = Known(varLocations)
  BY <1>1, <1>2 DEF Cleared, Known
<1>6. Known(Cleared') = executed'
  BY <1>1, <1>2, <1>3, <1>4, <1>5
<1> QED
  BY <1>1, <1>6 DEF XInv

LEMMA RestartFollows == Restart => XInv'
<1> SUFFICES ASSUME Restart PROVE XInv'
  OBVIOUS
<1>1. /\ phase' = "idle" /\ varLocations' = [n \in Names |-> None] /\ clearDeclaredVars' = FALSE
      /\ executed' = {}
  BY DEF Restart
<1>2. Known(Cleared') = {}
  BY <1>1 DEF Cleared, Known
<1> QED
  BY <1>1, <1>2 DEF XInv

LEMMA NextFollows == TInv /\ RInv /\ XInv /\ Next => XInv'
<1> SUFFICES ASSUME TInv, RInv, XInv, Next PROVE XInv'
  OBVIOUS
<1>1. ASSUME NEW parseError \in BOOLEAN, NEW fns \in Lists, StartLine(parseError, fns)
      PROVE  XInv'
  BY <1>1, StartLineFollows
<1>2. ASSUME \/ \E ns \in Lists, init \in BOOLEAN : VarDecl(ns, init)
             \/ \E n \in Names : UseModule(n) \/ UseModuleEntry(n)
             \/ \E n \in Names, ok \in BOOLEAN : FuncDecl(n, ok) \/ TypeDecl(n, ok)
             \/ \E k \in Slips : VarDeclError(k) \/ StmtError(k)
             \/ ExprStmt
      PROVE  XInv'
  BY <1>2, StatementsFollow
<1>3. ASSUME NEW ok \in BOOLEAN, HoistedFuncDecl(ok)
      PROVE  XInv'
  BY <1>3, HoistedFollows
<1>4. CASE FinishCompile
  BY <1>4, FinishFollows
<1>5. CASE RunDefStart \/ RunDefEnd
  BY <1>5, RunDefFollows
<1>6. ASSUME RunLoad \/ RunEval \/ \E compiled \in BOOLEAN : RunImport(compiled)
      PROVE  XInv'
  BY <1>6, RunGiveFollows
<1>7. CASE RunEvalError
  BY <1>7, RunErrorFollows
<1>8. CASE RunImportFails
  BY <1>8 DEF RunImportFails, XInv, ghosts
<1>9. CASE Halt
  BY <1>9, HaltFollows
<1>10. CASE Restart
  BY <1>10, RestartFollows
<1>11. ASSUME \/ StartLineCrash
              \/ \E n \in Names : FuncDeclCrash(n)
              \/ RunImportCrash
       PROVE  XInv'
  <2>1. phase' = "crashed"
    BY <1>11 DEF StartLineCrash, FuncDeclCrash, RunImportCrash
  <2> QED
    BY <2>1 DEF XInv
<1> QED
  BY <1>1, <1>2, <1>3, <1>4, <1>5, <1>6, <1>7, <1>8, <1>9, <1>10, <1>11 DEF Next, Lists

LEMMA AlwaysExact == Spec => [](TInv /\ RInv /\ XInv)
<1>1. Init => XInv
  <2> SUFFICES ASSUME Init PROVE XInv
    OBVIOUS
  <2>1. phase = "idle" /\ varLocations = [n \in Names |-> None] /\ clearDeclaredVars = FALSE /\ executed = {}
    BY DEF Init
  <2>2. Known(Cleared) = {}
    BY <2>1 DEF Cleared, Known
  <2> QED
    BY <2>1, <2>2 DEF XInv
<1>2. XInv /\ UNCHANGED vars => XInv'
  <2> SUFFICES ASSUME XInv, UNCHANGED vars PROVE XInv'
    OBVIOUS
  <2>1. UNCHANGED <<features, phase, hitError, code, declaredVars, executed, before, clearDeclaredVars,
                    clearIndex, ip, inDeclaration, vmClearIndex, varLocations>>
    BY DEF vars, compilerVars, staticVars, vmVars, ghosts
  <2>2. NoteIsRight' <=> NoteIsRight
    BY <2>1 DEF NoteIsRight
  <2>3. Cleared' = Cleared
    BY <2>1 DEF Cleared
  <2> QED
    BY <2>1, <2>2, <2>3 DEF XInv
<1>3. TInv /\ RInv /\ XInv /\ [Next]_vars => XInv'
  BY <1>2, NextFollows
<1> QED
  BY <1>1, <1>3, AlwaysListed, PTL DEF Spec

(* In a session where lines declare new names and only initialisers fail,  *)
(* a name can be used in the next line exactly if its declaration has been *)
(* executed: the notes of OP_DEF_START count the entries of declaredVars   *)
(* that have their values, so that errorReset rolls back what has none.    *)
THEOREM RollBackIsExact == Spec => []KnownIffExecuted
<1>1. XInv => KnownIffExecuted
  BY DEF XInv, KnownIffExecuted
<1> QED
  BY <1>1, AlwaysExact, PTL

-----------------------------------------------------------------------------
(* The registers of the variables: in such sessions the roll-back leaves   *)
(* them right, so that the variables that can be named keep their values   *)
(* and lie below the next register.                                        *)

(* The table L gives every variable a register of its own below nr, and    *)
(* the list D, which is sorted, says the same of the line's variables;     *)
(* those of earlier lines, B, lie below them.                              *)
TableSound(L, D, B, nr) ==
  /\ nr \in Nat \ {0}
  /\ \A n \in Known(L) : L[n] \in 1 .. nr - 1
  /\ \A m, n \in Known(L) : L[m] = L[n] => m = n
  /\ \A i \in DOMAIN D : D[i].name \in Known(L) /\ L[D[i].name] = D[i].reg
  /\ \A i, j \in DOMAIN D : i < j => D[i].reg < D[j].reg
  /\ \A n \in B, i \in DOMAIN D : L[n] < D[i].reg

(* The instruction at i writes to the registers of L, and what can fail to *)
(* registers of no variable that has its value, of B or by code above i.   *)
SoundAt(c, i, L, B) ==
  /\ Gives(c[i]) \subseteq Known(L)
  /\ c[i].op = "LOAD" => c[i].reg = L[c[i].name]
  /\ c[i].op \in {"EVAL", "MODULE"} =>
       /\ DOMAIN c[i].home # {} /\ c[i].fresh \subseteq DOMAIN c[i].home
       /\ \A n \in DOMAIN c[i].home : c[i].home[n] = L[n]
       /\ DOMAIN c[i].home \cap (B \cup GivenBelow(c, i)) = {}
       /\ 0 \notin c[i].temps
       /\ \A n \in B \cup GivenBelow(c, i) \cup DOMAIN c[i].home : L[n] \notin c[i].temps

CodeSound(c, L, B) == \A i \in DOMAIN c : SoundAt(c, i, L, B)

(* The registers hold the variables N.                                     *)
Holds(N) == regs[0] = Builtin /\ \A n \in N : regs[varLocations[n]] = n

VInv ==
  features = {} /\ phase # "crashed" =>
    /\ TableSound(varLocations, declaredVars, before, nextReg)
    /\ phase \in {"compiling", "running"} /\ ~hitError => CodeSound(code, varLocations, before)
    /\ Holds(executed)
    /\ phase = "idle" /\ clearDeclaredVars => clearIndex < Len(declaredVars)

-----------------------------------------------------------------------------
(* Tables that grow.                                                       *)

LEMMA TableRoom ==
  ASSUME NEW L, NEW D, NEW B, NEW nr, TableSound(L, D, B, nr), NEW k \in Nat, k >= nr
  PROVE  TableSound(L, D, B, k)
<1>1. nr \in Nat \ {0} /\ k \in Nat \ {0}
  BY DEF TableSound
<1>2. \A n \in Known(L) : L[n] \in 1 .. k - 1
  BY <1>1 DEF TableSound
<1> QED
  BY <1>1, <1>2 DEF TableSound

LEMMA TableOne ==
  ASSUME NEW L \in [Names -> Regs \cup {None}], NEW D \in Seq(Entry), NEW B \in SUBSET Known(L), NEW nr,
         TableSound(L, D, B, nr), NEW n \in Names, L[n] = None, NEW r \in Regs, nr <= r,
         NEW k \in Nat, r < k
  PROVE  TableSound([L EXCEPT ![n] = r], Append(D, [name |-> n, reg |-> r]), B, k)
<1> DEFINE L2 == [L EXCEPT ![n] = r]
           e == [name |-> n, reg |-> r]
           D2 == Append(D, e)
<1>1. r \in Nat /\ nr \in Nat \ {0} /\ r # None
  BY RegIsSome DEF TableSound, Regs
<1>2. /\ Known(L2) = Known(L) \cup {n} /\ n \notin Known(L)
      /\ L2[n] = r /\ \A m \in Known(L) : L2[m] = L[m]
  BY <1>1 DEF Known
<1>3. e \in Entry /\ e.name = n /\ e.reg = r
  BY DEF Entry
<1> HIDE DEF L2, e
<1>4. /\ DOMAIN D2 = 1 .. Len(D) + 1 /\ DOMAIN D = 1 .. Len(D) /\ Len(D) \in Nat
      /\ D2[Len(D) + 1] = e /\ \A i \in 1 .. Len(D) : D2[i] = D[i]
  BY <1>3
<1> HIDE DEF D2
<1>5. \A m \in Known(L) : L[m] \in 1 .. nr - 1
  BY DEF TableSound
<1>6. \A i \in 1 .. Len(D) : D[i].name \in Known(L) /\ L[D[i].name] = D[i].reg
  BY <1>4 DEF TableSound
<1>7. k \in Nat \ {0}
  BY <1>1
<1>8. \A m \in Known(L2) : L2[m] \in 1 .. k - 1
  <2>1. \A m \in Known(L) : L2[m] \in 1 .. k - 1
    BY <1>1, <1>2, <1>5
  <2>2. L2[n] \in 1 .. k - 1
    BY <1>1, <1>2
  <2> QED
    BY <1>2, <2>1, <2>2
<1>9. \A l, m \in Known(L2) : L2[l] = L2[m] => l = m
  <2>1. \A m \in Known(L) : L2[m] # r
    BY <1>1, <1>2, <1>5
  <2>2. \A l, m \in Known(L) : L[l] = L[m] => l = m
    BY DEF TableSound
  <2> QED
    BY <1>2, <2>1, <2>2
<1>10. \A i \in DOMAIN D2 : D2[i].name \in Known(L2) /\ L2[D2[i].name] = D2[i].reg
  <2>1. \A i \in 1 .. Len(D) : D2[i].name \in Known(L2) /\ L2[D2[i].name] = D2[i].reg
    BY <1>2, <1>4, <1>6
  <2>2. D2[Len(D) + 1].name \in Known(L2) /\ L2[D2[Len(D) + 1].name] = D2[Len(D) + 1].reg
    BY <1>2, <1>3, <1>4
  <2>3. \A i \in DOMAIN D2 : i \in 1 .. Len(D) \/ i = Len(D) + 1
    BY <1>4
  <2> QED
    BY <2>1, <2>2, <2>3
<1>11. \A i \in 1 .. Len(D) : D[i].reg \in Nat /\ D[i].reg < r
  BY <1>1, <1>5, <1>6
<1>12. \A i, j \in DOMAIN D2 : i < j => D2[i].reg < D2[j].reg
  <2> SUFFICES ASSUME NEW i \in DOMAIN D2, NEW j \in DOMAIN D2, i < j PROVE D2[i].reg < D2[j].reg
    OBVIOUS
  <2>1. i \in 1 .. Len(D) /\ D2[i] = D[i]
    BY <1>4
  <2>2. CASE j \in 1 .. Len(D)
    <3>1. D2[j] = D[j] /\ i \in DOMAIN D /\ j \in DOMAIN D
      BY <1>4, <2>1, <2>2
    <3>2. D[i].reg < D[j].reg
      BY <3>1 DEF TableSound
    <3> QED
      BY <2>1, <3>1, <3>2
  <2>3. CASE j = Len(D) + 1
    BY <1>3, <1>4, <1>11, <2>1, <2>3
  <2>4. j \in 1 .. Len(D) \/ j = Len(D) + 1
    BY <1>4
  <2> QED
    BY <2>2, <2>3, <2>4
<1>13. \A m \in B, i \in DOMAIN D2 : L2[m] < D2[i].reg
  <2> SUFFICES ASSUME NEW m \in B, NEW i \in DOMAIN D2 PROVE L2[m] < D2[i].reg
    OBVIOUS
  <2>1. m \in Known(L) /\ L2[m] = L[m] /\ L[m] \in 1 .. nr - 1
    BY <1>2, <1>5
  <2>2. CASE i \in 1 .. Len(D)
    <3>1. L[m] < D[i].reg
      BY <1>4, <2>2 DEF TableSound
    <3> QED
      BY <1>4, <2>1, <2>2, <3>1
  <2>3. CASE i = Len(D) + 1
    BY <1>1, <1>3, <1>4, <2>1, <2>3
  <2>4. i \in 1 .. Len(D) \/ i = Len(D) + 1
    BY <1>4
  <2> QED
    BY <2>2, <2>3, <2>4
<1>14. TableSound(L2, D2, B, k)
  BY <1>7, <1>8, <1>9, <1>10, <1>12, <1>13 DEF TableSound
<1> QED
  BY <1>14 DEF L2, D2, e

-----------------------------------------------------------------------------
(* Code that grows.                                                        *)

LEMMA CodeSoundGrows ==
  ASSUME NEW c \in Seq(Instr), NEW d \in Seq(Instr), Len(c) <= Len(d),
         \A i \in 1 .. Len(c) : d[i] = c[i],
         NEW L, NEW M, NEW B \in SUBSET Known(L), Known(L) \subseteq Known(M),
         \A n \in Known(L) : M[n] = L[n],
         CodeSound(c, L, B),
         \A i \in Len(c) + 1 .. Len(d) : SoundAt(d, i, M, B)
  PROVE  CodeSound(d, M, B)
<1> SUFFICES ASSUME NEW i \in DOMAIN d PROVE SoundAt(d, i, M, B)
  BY DEF CodeSound
<1>1. Len(c) \in Nat /\ Len(d) \in Nat /\ DOMAIN c = 1 .. Len(c) /\ DOMAIN d = 1 .. Len(d)
  OBVIOUS
<1>2. CASE i \in Len(c) + 1 .. Len(d)
  BY <1>2
<1>3. CASE i \in DOMAIN c
  <2>1. i \in 1 .. Len(c) /\ i \in 1 .. Len(c) + 1
    BY <1>1, <1>3
  <2>2. d[i] = c[i]
    BY <2>1
  <2>3. GivenBelow(d, i) = GivenBelow(c, i)
    BY <2>1, GivenGrows
  <2>4. SoundAt(c, i, L, B)
    BY <1>3 DEF CodeSound
  <2>5. GivenBelow(c, i) \subseteq Known(L)
    BY DEF GivenBelow, CodeSound, SoundAt
  <2>6. c[i].op \in {"EVAL", "MODULE"} => DOMAIN c[i].home \subseteq Known(L)
    BY <2>4 DEF SoundAt, Gives
  <2>7. c[i].op = "LOAD" => c[i].name \in Known(L)
    BY <2>4 DEF SoundAt, Gives
  <2> QED
    BY <2>2, <2>3, <2>4, <2>5, <2>6, <2>7 DEF SoundAt
<1>4. i \in DOMAIN c \/ i \in Len(c) + 1 .. Len(d)
  BY <1>1
<1> QED
  BY <1>2, <1>3, <1>4

LEMMA WrappedSound ==
  ASSUME NEW c \in Seq(Instr), NEW d, NEW k \in Nat, NEW m \in Seq(Instr), Wrapped(c, d, k, m),
         NEW L, NEW M, NEW B \in SUBSET Known(L), Known(L) \subseteq Known(M),
         \A n \in Known(L) : M[n] = L[n],
         CodeSound(c, L, B),
         \A j \in 1 .. Len(m) : SoundAt(d, Len(c) + 1 + j, M, B)
  PROVE  CodeSound(d, M, B)
<1> DEFINE n == Len(c)
           last == Len(c) + Len(m) + 2
<1>1. /\ d \in Seq(Instr) /\ Len(d) = last /\ \A i \in 1 .. n : d[i] = c[i]
      /\ d[n + 1] = DefStart(k) /\ d[last] = DefEnd
  BY DEF Wrapped
<1>2. n \in Nat /\ Len(m) \in Nat /\ n <= last
  OBVIOUS
<1>3. \A i \in n + 1 .. last : i = n + 1 \/ i = last \/ \E j \in 1 .. Len(m) : i = n + 1 + j
  BY <1>2, Positions
<1>4. \A x \in {DefStart(k), DefEnd} : Gives(x) = {} /\ x.op \notin {"LOAD", "EVAL", "MODULE"}
  BY DEF DefStart, DefEnd, Gives
<1> HIDE DEF last
<1>5. SoundAt(d, n + 1, M, B) /\ SoundAt(d, last, M, B)
  BY <1>1, <1>4 DEF SoundAt
<1>6. \A i \in n + 1 .. last : SoundAt(d, i, M, B)
  BY <1>3, <1>5
<1> QED
  BY <1>1, <1>2, <1>6, CodeSoundGrows

-----------------------------------------------------------------------------
(* Statements.                                                             *)

(* What a line finds while it is compiled.                                 *)
LEMMA PlainFacts ==
  ASSUME TInv, RInv, XInv, VInv, features = {}, phase = "compiling"
  PROVE  /\ code \in Seq(Instr) /\ declaredVars \in Seq(Entry) /\ Index = Len(declaredVars)
         /\ varLocations \in [Names -> Regs \cup {None}] /\ nextReg \in Nat \ {0} /\ NumRegs \in Nat
         /\ TableSound(varLocations, declaredVars, before, nextReg)
         /\ before \subseteq Known(varLocations) /\ executed = before
         /\ NamesOf(declaredVars) \subseteq Known(varLocations)
         /\ \A n : MayDeclare(n) => varLocations[n] = None
         /\ \A n \in Known(varLocations) : varLocations[n] \in 1 .. nextReg - 1
         /\ ~hitError => /\ Matches(code, declaredVars)
                         /\ CodeSound(code, varLocations, before)
                         /\ GivenBelow(code, Len(code) + 1) \subseteq Known(varLocations)
<1>1. /\ {"redeclare", "hoist"} \cap features = {} /\ "redeclare" \notin features
      /\ features \subseteq {"slip"}
  OBVIOUS
<1>2. /\ code \in Seq(Instr) /\ declaredVars \in Seq(Entry) /\ NumRegs \in Nat
      /\ varLocations \in [Names -> Regs \cup {None}]
  BY ReplAssumption DEF TInv, TypeOK
<1>3. TableSound(varLocations, declaredVars, before, nextReg)
  BY DEF VInv
<1>4. before \subseteq Known(varLocations) /\ NamesOf(declaredVars) \subseteq Known(varLocations)
  BY <1>1 DEF RInv, LineIsNew, LineIsListed
<1>5. executed = before /\ (~hitError => Matches(code, declaredVars))
  BY <1>1 DEF XInv
<1>6. ~hitError => CodeSound(code, varLocations, before)
  BY DEF VInv
<1>7. \A n : MayDeclare(n) => varLocations[n] = None
  BY <1>1 DEF MayDeclare
<1>8. nextReg \in Nat \ {0} /\ \A n \in Known(varLocations) : varLocations[n] \in 1 .. nextReg - 1
  BY <1>3 DEF TableSound
<1>9. ~hitError => GivenBelow(code, Len(code) + 1) \subseteq Known(varLocations)
  BY <1>4, <1>5 DEF Matches
<1> QED
  BY <1>2, <1>3, <1>4, <1>5, <1>6, <1>7, <1>8, <1>9 DEF Index

(* What a statement has to show.                                           *)
LEMMA StatementSound ==
  ASSUME TInv, RInv, XInv, VInv, features = {}, phase = "compiling",
         UNCHANGED <<phase, staticVars, vmVars, ghosts>>,
         \A n \in Known(varLocations) : varLocations'[n] = varLocations[n],
         TableSound(varLocations', declaredVars', before, nextReg'),
         ~hitError' => CodeSound(code', varLocations', before)
  PROVE  VInv'
<1>1. UNCHANGED <<phase, features, before, executed, clearDeclaredVars, clearIndex, regs>>
  BY DEF staticVars, vmVars, ghosts
<1>2. Holds(executed)'
  <2>1. Holds(executed) /\ executed \subseteq Known(varLocations)
    BY PlainFacts DEF VInv
  <2> QED
    BY <1>1, <2>1 DEF Holds
<1> QED
  BY <1>1, <1>2 DEF VInv

(* A declaration that the line has grown by.                               *)
LEMMA LineSound ==
  ASSUME TInv, RInv, XInv, VInv, features = {}, phase = "compiling", ~hitError,
         NEW d, NEW m \in Seq(Instr), Wrapped(code, d, Index, m),
         NEW M, Known(varLocations) \subseteq Known(M),
         \A n \in Known(varLocations) : M[n] = varLocations[n],
         \A j \in 1 .. Len(m) : SoundAt(d, Len(code) + 1 + j, M, before)
  PROVE  CodeSound(d, M, before)
<1>1. /\ code \in Seq(Instr) /\ Index \in Nat
      /\ before \subseteq Known(varLocations) /\ CodeSound(code, varLocations, before)
  BY PlainFacts
<1> QED
  BY <1>1, WrappedSound

(* An instruction that can fail, right after the note of a declaration.    *)
LEMMA FailSound ==
  ASSUME TInv, RInv, XInv, VInv, features = {}, phase = "compiling", ~hitError,
         NEW d, NEW x \in Instr, x.op \in {"EVAL", "MODULE"}, Wrapped(code, d, Index, <<x>>),
         NEW M, Known(varLocations) \subseteq Known(M),
         \A n \in Known(varLocations) : M[n] = varLocations[n],
         DOMAIN x.home # {}, x.fresh \subseteq DOMAIN x.home,
         DOMAIN x.home \subseteq Known(M), DOMAIN x.home \cap Known(varLocations) = {},
         \A n \in DOMAIN x.home : x.home[n] = M[n] /\ M[n] \notin x.temps,
         \A t \in x.temps : t \in Nat /\ t >= nextReg
  PROVE  CodeSound(d, M, before)
<1> DEFINE m == <<x>>
           p == Len(code) + 2
<1>1. /\ code \in Seq(Instr) /\ Index \in Nat /\ nextReg \in Nat \ {0}
      /\ before \subseteq Known(varLocations) /\ CodeSound(code, varLocations, before)
      /\ \A n \in Known(varLocations) : varLocations[n] \in 1 .. nextReg - 1
      /\ GivenBelow(code, Len(code) + 1) \subseteq Known(varLocations)
  BY PlainFacts
<1>2. m \in Seq(Instr) /\ Len(m) = 1 /\ m[1] = x
  OBVIOUS
<1>3. Wrapped(code, d, Index, m)
  OBVIOUS
<1> HIDE DEF m
<1>4. /\ d \in Seq(Instr) /\ Len(d) = Len(code) + 3 /\ \A i \in 1 .. Len(code) : d[i] = code[i]
      /\ d[Len(code) + 1] = DefStart(Index) /\ d[Len(code) + 1 + 1] = x
  BY <1>2, <1>3 DEF Wrapped
<1>5. Len(code) \in Nat /\ Len(code) + 1 + 1 = p /\ Len(code) <= Len(d) /\ Len(code) + 1 \in DOMAIN d
  BY <1>1, <1>4
<1>6. GivenBelow(d, p) = GivenBelow(code, Len(code) + 1)
  <2>1. Len(code) + 1 \in 1 .. Len(code) + 1
    BY <1>5
  <2>2. GivenBelow(d, Len(code) + 1) = GivenBelow(code, Len(code) + 1)
    BY <1>1, <1>4, <1>5, <2>1, GivenGrows
  <2>3. GivenBelow(d, Len(code) + 1 + 1) = GivenBelow(d, Len(code) + 1) \cup Gives(d[Len(code) + 1])
    BY <1>4, <1>5, GivenNext
  <2>4. Gives(d[Len(code) + 1]) = {}
    BY <1>4 DEF DefStart, Gives
  <2> QED
    BY <1>5, <2>2, <2>3, <2>4
<1>7. d[p] = x
  BY <1>4, <1>5
<1> HIDE DEF p
<1>8. Gives(x) = DOMAIN x.home
  BY DEF Gives
<1>9. 0 \notin x.temps
  BY <1>1
<1>10. \A n \in Known(varLocations) : M[n] \notin x.temps
  BY <1>1
<1>11. before \cup GivenBelow(d, p) \subseteq Known(varLocations)
  BY <1>1, <1>6
<1>12. SoundAt(d, p, M, before)
  BY <1>7, <1>8, <1>9, <1>10, <1>11 DEF SoundAt
<1>13. \A j \in 1 .. Len(m) : SoundAt(d, Len(code) + 1 + j, M, before)
  BY <1>2, <1>5, <1>12
<1> QED
  BY <1>2, <1>3, <1>13, LineSound

(* Loads, after a note.                                                    *)
LEMMA LoadsSound ==
  ASSUME TInv, RInv, XInv, VInv, features = {}, phase = "compiling", ~hitError,
         NEW d, NEW m \in Seq(Instr), Wrapped(code, d, Index, m),
         NEW M, Known(varLocations) \subseteq Known(M),
         \A n \in Known(varLocations) : M[n] = varLocations[n],
         \A j \in 1 .. Len(m) : m[j].op = "LOAD" /\ m[j].name \in Known(M) /\ m[j].reg = M[m[j].name]
  PROVE  CodeSound(d, M, before)
<1>2. \A j \in 1 .. Len(m) : d[Len(code) + 1 + j] = m[j]
  BY DEF Wrapped
<1>3. \A j \in 1 .. Len(m) : SoundAt(d, Len(code) + 1 + j, M, before)
  BY <1>2 DEF SoundAt, Gives
<1> QED
  BY <1>3, LineSound

(* The table and the list with one name more.                              *)
GivenTo(n, r) == [varLocations EXCEPT ![n] = r]
ListedAt(n, r) == Append(declaredVars, [name |-> n, reg |-> r])

LEMMA OneDeclared ==
  ASSUME TInv, RInv, XInv, VInv, features = {}, phase = "compiling",
         NEW n \in Names, varLocations[n] = None, NEW r \in Regs, nextReg <= r, NEW k \in Nat, r < k
  PROVE  /\ TableSound(GivenTo(n, r), ListedAt(n, r), before, k)
         /\ Known(GivenTo(n, r)) = Known(varLocations) \cup {n} /\ n \notin Known(varLocations)
         /\ GivenTo(n, r)[n] = r
         /\ \A l \in Known(varLocations) : GivenTo(n, r)[l] = varLocations[l]
<1>1. /\ varLocations \in [Names -> Regs \cup {None}] /\ declaredVars \in Seq(Entry)
      /\ TableSound(varLocations, declaredVars, before, nextReg) /\ before \in SUBSET Known(varLocations)
  BY PlainFacts
<1>2. TableSound(GivenTo(n, r), ListedAt(n, r), before, k)
  BY <1>1, TableOne DEF GivenTo, ListedAt
<1>3. /\ Known(GivenTo(n, r)) = Known(varLocations) \cup {n} /\ n \notin Known(varLocations)
      /\ GivenTo(n, r)[n] = r
      /\ \A l \in Known(varLocations) : GivenTo(n, r)[l] = varLocations[l]
  BY <1>1, RegIsSome DEF Known, GivenTo
<1> QED
  BY <1>2, <1>3

(* The registers of names that are all new.                                *)
LEMMA HomeFacts ==
  ASSUME TInv, NEW ns \in Lists, nextReg + Len(ns) < NumRegs,
         \A n \in ToSet(ns) : varLocations[n] = None
  PROVE  /\ NewNames(ns) = ToSet(ns) /\ DOMAIN Home(ns) = ToSet(ns)
         /\ \A i \in DOMAIN ns : IsNew(ns, i) => Home(ns)[ns[i]] = nextReg + i - 1
         /\ 1 \in DOMAIN ns => IsNew(ns, 1)
         /\ 2 \in DOMAIN ns => (IsNew(ns, 2) <=> ns[2] # ns[1])
<1>1. DOMAIN ns = 1 .. Len(ns) /\ Len(ns) \in {0, 1, 2}
  BY ListFacts
<1>2. NewNames(ns) = ToSet(ns)
  BY NewNamesFacts
<1>3. DOMAIN Home(ns) = ToSet(ns)
  BY NewNamesFacts
<1>4. ASSUME NEW i \in DOMAIN ns, IsNew(ns, i)
      PROVE  Home(ns)[ns[i]] = nextReg + i - 1
  <2> DEFINE c == CHOOSE j \in DOMAIN ns : IsNew(ns, j) /\ ns[j] = ns[i]
  <2>1. c \in DOMAIN ns /\ IsNew(ns, c) /\ ns[c] = ns[i]
    BY <1>4
  <2>2. Home(ns)[ns[i]] = nextReg + c - 1
    <3>1. ns[i] \in NewNames(ns) /\ ns[i] \in ToSet(ns)
      BY <1>4 DEF NewNames, ToSet
    <3> QED
      BY <3>1 DEF Home
  <2> HIDE DEF c
  <2>3. c = i
    BY <1>1, <1>4, <2>1 DEF IsNew
  <2> QED
    BY <2>2, <2>3
<1>5. \A i \in DOMAIN ns : varLocations[ns[i]] = None
  BY DEF ToSet
<1>6. 1 \in DOMAIN ns => IsNew(ns, 1)
  BY <1>5 DEF IsNew
<1>7. 2 \in DOMAIN ns => (IsNew(ns, 2) <=> ns[2] # ns[1])
  BY <1>5 DEF IsNew
<1> QED
  BY <1>2, <1>3, <1>4, <1>6, <1>7

LEMMA AppendIsCat ==
  ASSUME NEW S, NEW d \in Seq(S), NEW e \in S
  PROVE  d \o <<e>> = Append(d, e) /\ Append(d, e) \in Seq(S)
OBVIOUS

(* What make leaves of the table and of the list.                          *)
MadeTable(ns) == [n \in Names |-> IF n \in NewNames(ns) THEN Home(ns)[n] ELSE varLocations[n]]
MadeList(ns) == declaredVars \o NewEntry(ns, 1) \o NewEntry(ns, 2)

LEMMA MakeEffect ==
  ASSUME TInv, NEW ns \in Lists, ns # <<>>, nextReg \in Nat, NumRegs \in Nat, nextReg + Len(ns) < NumRegs,
         \A n \in ToSet(ns) : varLocations[n] = None
  PROVE  /\ ns[1] \in Names /\ varLocations[ns[1]] = None /\ ListedAt(ns[1], nextReg) \in Seq(Entry)
         /\ ~IsNew(ns, 2) => MadeTable(ns) = GivenTo(ns[1], nextReg) /\ MadeList(ns) = ListedAt(ns[1], nextReg)
         /\ IsNew(ns, 2) =>
              /\ Len(ns) = 2 /\ ns[2] \in Names /\ ns[2] # ns[1] /\ varLocations[ns[2]] = None
              /\ MadeTable(ns) = [GivenTo(ns[1], nextReg) EXCEPT ![ns[2]] = nextReg + 1]
              /\ MadeList(ns) = Append(ListedAt(ns[1], nextReg), [name |-> ns[2], reg |-> nextReg + 1])
<1> DEFINE M == MadeTable(ns)
           D == MadeList(ns)
           L == GivenTo(ns[1], nextReg)
           E == ListedAt(ns[1], nextReg)
<1>0. /\ M = [n \in Names |-> IF n \in NewNames(ns) THEN Home(ns)[n] ELSE varLocations[n]]
      /\ D = declaredVars \o NewEntry(ns, 1) \o NewEntry(ns, 2)
      /\ L = [varLocations EXCEPT ![ns[1]] = nextReg]
      /\ E = Append(declaredVars, [name |-> ns[1], reg |-> nextReg])
  BY DEF MadeTable, MadeList, GivenTo, ListedAt
<1> HIDE DEF M, D, L, E
<1>1. DOMAIN ns = 1 .. Len(ns) /\ Len(ns) \in {1, 2} /\ \A i \in DOMAIN ns : ns[i] \in Names
  BY ListFacts
<1>2. varLocations \in [Names -> Regs \cup {None}] /\ declaredVars \in Seq(Entry)
  BY DEF TInv, TypeOK
<1>3. /\ NewNames(ns) = ToSet(ns)
      /\ \A i \in DOMAIN ns : IsNew(ns, i) => Home(ns)[ns[i]] = nextReg + i - 1
      /\ 1 \in DOMAIN ns => IsNew(ns, 1)
      /\ 2 \in DOMAIN ns => (IsNew(ns, 2) <=> ns[2] # ns[1])
  BY HomeFacts
<1>4. 2 \notin DOMAIN ns => ~IsNew(ns, 2)
  BY DEF IsNew
<1>5. \A i \in DOMAIN ns : ns[i] \in NewNames(ns) /\ varLocations[ns[i]] = None
  BY <1>3 DEF ToSet
<1>6. 1 \in DOMAIN ns /\ IsNew(ns, 1) /\ nextReg + 1 - 1 = nextReg /\ nextReg + 2 - 1 = nextReg + 1
  BY <1>1, <1>3
<1>7. /\ ns[1] \in Names /\ varLocations[ns[1]] = None /\ ns[1] \in NewNames(ns)
      /\ Home(ns)[ns[1]] = nextReg
  BY <1>1, <1>3, <1>5, <1>6
<1> DEFINE e == [name |-> ns[1], reg |-> nextReg]
<1>8. e \in Entry
  BY <1>1, <1>6, <1>7 DEF Entry, Regs
<1>9. NewEntry(ns, 1) = <<e>> /\ E = Append(declaredVars, e)
  BY <1>0, <1>6 DEF NewEntry
<1> HIDE DEF e
<1>10. declaredVars \o NewEntry(ns, 1) = E /\ E \in Seq(Entry)
  BY <1>2, <1>8, <1>9, AppendIsCat
<1>11. CASE ~IsNew(ns, 2)
  <2>1. NewEntry(ns, 2) = <<>>
    BY <1>11 DEF NewEntry
  <2>2. D = E
    BY <1>0, <1>10, <2>1
  <2>3. NewNames(ns) = {ns[1]}
    <3>1. \A i \in DOMAIN ns : ns[i] = ns[1]
      BY <1>1, <1>3, <1>11
    <3> QED
      BY <1>3, <1>7, <3>1 DEF ToSet
  <2>4. M = L
    BY <1>0, <1>2, <1>7, <2>3
  <2> QED
    BY <1>7, <1>10, <1>11, <2>2, <2>4 DEF M, D, L, E
<1>12. CASE IsNew(ns, 2)
  <2>a. 2 \in DOMAIN ns
    BY <1>4, <1>12
  <2>b. ns[2] # ns[1]
    BY <1>3, <1>12, <2>a
  <2>1. Len(ns) = 2 /\ 2 \in DOMAIN ns /\ ns[2] # ns[1]
    BY <1>1, <2>a, <2>b
  <2>2. /\ ns[2] \in Names /\ varLocations[ns[2]] = None /\ ns[2] \in NewNames(ns)
        /\ Home(ns)[ns[2]] = nextReg + 1
    BY <1>1, <1>3, <1>5, <1>6, <1>12, <2>1
  <2> DEFINE f == [name |-> ns[2], reg |-> nextReg + 1]
  <2>3. f \in Entry
    BY <2>1, <2>2 DEF Entry, Regs
  <2>4. NewEntry(ns, 2) = <<f>>
    BY <1>6, <1>12 DEF NewEntry
  <2>5. D = E \o NewEntry(ns, 2)
    BY <1>0, <1>10
  <2>6. f = [name |-> ns[2], reg |-> nextReg + 1]
    OBVIOUS
  <2> HIDE DEF f
  <2>7. D = Append(E, f)
    BY <1>10, <2>3, <2>4, <2>5, AppendIsCat
  <2>8. NewNames(ns) = {ns[1], ns[2]}
    <3>1. ToSet(ns) = {ns[1], ns[2]}
      BY <1>1, <2>1 DEF ToSet
    <3> QED
      BY <1>3, <3>1
  <2>9. M = [L EXCEPT ![ns[2]] = nextReg + 1]
    <3>1. L = [n \in Names |-> IF n = ns[1] THEN nextReg ELSE varLocations[n]]
      BY <1>0, <1>2
    <3>2. [L EXCEPT ![ns[2]] = nextReg + 1]
            = [n \in Names |-> IF n = ns[2] THEN nextReg + 1 ELSE L[n]]
      BY <3>1
    <3>3. \A n \in Names : M[n] = IF n = ns[2] THEN nextReg + 1 ELSE L[n]
      BY <1>0, <1>7, <2>1, <2>2, <2>8, <3>1
    <3> QED
      BY <1>0, <3>2, <3>3
  <2> QED
    BY <1>7, <1>10, <1>12, <2>1, <2>2, <2>6, <2>7, <2>9 DEF M, D, L, E
<1> QED
  BY <1>11, <1>12 DEF M, D, L, E

LEMMA TwoDeclared ==
  ASSUME TInv, RInv, XInv, VInv, features = {}, phase = "compiling",
         NEW n \in Names, varLocations[n] = None,
         NEW o \in Names, varLocations[o] = None, o # n, nextReg + 2 < NumRegs,
         ListedAt(n, nextReg) \in Seq(Entry)
  PROVE  TableSound([GivenTo(n, nextReg) EXCEPT ![o] = nextReg + 1],
                    Append(ListedAt(n, nextReg), [name |-> o, reg |-> nextReg + 1]), before, nextReg + 2)
<1> DEFINE L == GivenTo(n, nextReg)
           E == ListedAt(n, nextReg)
<1>1. /\ varLocations \in [Names -> Regs \cup {None}] /\ nextReg \in Nat \ {0} /\ NumRegs \in Nat
      /\ before \subseteq Known(varLocations)
  BY PlainFacts
<1>2. /\ nextReg \in Regs /\ nextReg + 1 \in Regs /\ nextReg + 1 \in Nat /\ nextReg + 2 \in Nat
      /\ nextReg <= nextReg /\ nextReg < nextReg + 1 /\ nextReg + 1 <= nextReg + 1
      /\ nextReg + 1 < nextReg + 2
  BY <1>1 DEF Regs
<1>3. /\ TableSound(L, E, before, nextReg + 1)
      /\ Known(L) = Known(varLocations) \cup {n}
  BY <1>2, OneDeclared
<1>4. L \in [Names -> Regs \cup {None}] /\ L[o] = None
  BY <1>1, <1>2 DEF GivenTo
<1>5. before \in SUBSET Known(L)
  BY <1>1, <1>3
<1>6. E \in Seq(Entry)
  OBVIOUS
<1> HIDE DEF L, E
<1>7. TableSound([L EXCEPT ![o] = nextReg + 1], Append(E, [name |-> o, reg |-> nextReg + 1]),
                 before, nextReg + 2)
  BY <1>2, <1>3, <1>4, <1>5, <1>6, TableOne
<1> QED
  BY <1>7 DEF L, E

LEMMA MakeDeclared ==
  ASSUME TInv, RInv, XInv, VInv, features = {}, phase = "compiling",
         NEW ns \in Lists, ns # <<>>, nextReg + Len(ns) < NumRegs,
         \A n \in ToSet(ns) : varLocations[n] = None
  PROVE  TableSound(MadeTable(ns), MadeList(ns), before, nextReg + Len(ns))
<1>1. Len(ns) \in {1, 2}
  BY ListFacts
<1>2. nextReg \in Nat /\ NumRegs \in Nat
  BY PlainFacts
<1>3. /\ ns[1] \in Names /\ varLocations[ns[1]] = None /\ ListedAt(ns[1], nextReg) \in Seq(Entry)
      /\ ~IsNew(ns, 2) => MadeTable(ns) = GivenTo(ns[1], nextReg) /\ MadeList(ns) = ListedAt(ns[1], nextReg)
      /\ IsNew(ns, 2) =>
           /\ Len(ns) = 2 /\ ns[2] \in Names /\ ns[2] # ns[1] /\ varLocations[ns[2]] = None
           /\ MadeTable(ns) = [GivenTo(ns[1], nextReg) EXCEPT ![ns[2]] = nextReg + 1]
           /\ MadeList(ns) = Append(ListedAt(ns[1], nextReg), [name |-> ns[2], reg |-> nextReg + 1])
  BY <1>2, MakeEffect
<1>4. /\ nextReg \in Regs /\ nextReg <= nextReg /\ nextReg + Len(ns) \in Nat
      /\ nextReg < nextReg + Len(ns)
  BY <1>1, <1>2 DEF Regs
<1>5. CASE ~IsNew(ns, 2)
  <2>1. TableSound(GivenTo(ns[1], nextReg), ListedAt(ns[1], nextReg), before, nextReg + Len(ns))
    BY <1>3, <1>4, OneDeclared
  <2> QED
    BY <1>3, <1>5, <2>1
<1>6. CASE IsNew(ns, 2)
  <2>1. Len(ns) = 2 /\ ns[2] \in Names /\ ns[2] # ns[1] /\ varLocations[ns[2]] = None
    BY <1>3, <1>6
  <2>2. TableSound([GivenTo(ns[1], nextReg) EXCEPT ![ns[2]] = nextReg + 1],
                   Append(ListedAt(ns[1], nextReg), [name |-> ns[2], reg |-> nextReg + 1]), before, nextReg + 2)
    BY <1>3, <2>1, TwoDeclared
  <2> QED
    BY <1>3, <1>6, <2>1, <2>2
<1> QED
  BY <1>5, <1>6

(* Its names get registers from nextReg on, the others keep theirs.        *)
LEMMA MakeKeeps ==
  ASSUME TInv, RInv, XInv, VInv, features = {}, phase = "compiling",
         NEW ns \in Lists, ns # <<>>, nextReg + Len(ns) < NumRegs,
         \A n \in ToSet(ns) : varLocations[n] = None
  PROVE  /\ \A n \in Known(varLocations) : MadeTable(ns)[n] = varLocations[n]
         /\ Known(MadeTable(ns)) = Known(varLocations) \cup ToSet(ns)
         /\ ToSet(ns) \cap Known(varLocations) = {}
         /\ NewNames(ns) = ToSet(ns) /\ DOMAIN Home(ns) = ToSet(ns) /\ ToSet(ns) # {}
         /\ \A n \in ToSet(ns) : Home(ns)[n] = MadeTable(ns)[n] /\ MadeTable(ns)[n] \notin Spare(ns)
         /\ \A t \in Spare(ns) : t \in Nat /\ t >= nextReg
<1>1. DOMAIN ns = 1 .. Len(ns) /\ Len(ns) \in {1, 2} /\ \A i \in DOMAIN ns : ns[i] \in Names
  BY ListFacts
<1>2. varLocations \in [Names -> Regs \cup {None}] /\ nextReg \in Nat
  BY PlainFacts
<1>3. /\ NewNames(ns) = ToSet(ns) /\ DOMAIN Home(ns) = ToSet(ns)
      /\ \A i \in DOMAIN ns : IsNew(ns, i) => Home(ns)[ns[i]] = nextReg + i - 1
      /\ 1 \in DOMAIN ns => IsNew(ns, 1)
      /\ 2 \in DOMAIN ns => (IsNew(ns, 2) <=> ns[2] # ns[1])
  BY HomeFacts
<1>4. ToSet(ns) \subseteq Names /\ Home(ns) \in [ToSet(ns) -> Regs]
  BY NewNamesFacts
<1>5. \A n \in Names : MadeTable(ns)[n] = IF n \in ToSet(ns) THEN Home(ns)[n] ELSE varLocations[n]
  BY <1>3 DEF MadeTable
<1>6. ToSet(ns) \cap Known(varLocations) = {}
  BY DEF Known
<1>7. \A n \in Known(varLocations) : MadeTable(ns)[n] = varLocations[n]
  BY <1>5, <1>6 DEF Known
<1>8. Known(MadeTable(ns)) = Known(varLocations) \cup ToSet(ns)
  <2>1. \A n \in ToSet(ns) : n \in Names /\ Home(ns)[n] # None
    BY <1>4, RegIsSome
  <2> QED
    BY <1>5, <1>6, <2>1 DEF Known
<1>9. ToSet(ns) # {}
  <2>1. 1 \in DOMAIN ns
    BY <1>1
  <2>2. ns[1] \in ToSet(ns)
    BY <2>1 DEF ToSet
  <2> QED
    BY <2>2
<1>10. \A t \in Spare(ns) : t \in Nat /\ t >= nextReg
  BY <1>1, <1>2 DEF Spare
<1>11. ASSUME NEW n \in ToSet(ns)
       PROVE  Home(ns)[n] = MadeTable(ns)[n] /\ MadeTable(ns)[n] \notin Spare(ns)
  <2>1. Home(ns)[n] = MadeTable(ns)[n]
    BY <1>4, <1>5
  <2>2. PICK i \in DOMAIN ns : IsNew(ns, i) /\ ns[i] = n
    BY <1>3 DEF NewNames
  <2>3. Home(ns)[n] = nextReg + i - 1
    BY <1>3, <2>2
  <2>4. \A j \in DOMAIN ns : ~IsNew(ns, j) => nextReg + j - 1 # nextReg + i - 1
    <3>1. \A j \in DOMAIN ns : ~IsNew(ns, j) => j # i
      BY <2>2
    <3> QED
      BY <1>1, <1>2, <3>1
  <2> QED
    BY <2>1, <2>3, <2>4 DEF Spare
<1> QED
  BY <1>3, <1>6, <1>7, <1>8, <1>9, <1>10, <1>11

LEMMA VarDeclSound ==
  ASSUME TInv, RInv, XInv, VInv, features = {},
         NEW ns \in Lists, ns # <<>>, NEW init \in BOOLEAN, VarDecl(ns, init)
  PROVE  VInv'
<1>1. DOMAIN ns = 1 .. Len(ns) /\ Len(ns) \in {1, 2} /\ \A i \in DOMAIN ns : ns[i] \in Names
  BY ListFacts
<1>2. /\ phase = "compiling" /\ UNCHANGED <<phase, staticVars, vmVars, ghosts>>
      /\ nextReg + Len(ns) < NumRegs /\ nextReg \in Nat /\ NumRegs \in Nat
  <2>1. Compiling(Len(ns)) /\ Len(ns) \in Nat
    BY <1>1 DEF VarDecl
  <2> QED
    BY <2>1, CompilingFacts
<1>3. \A n \in ToSet(ns) : varLocations[n] = None
  BY <1>2, PlainFacts DEF VarDecl
<1>4. /\ code \in Seq(Instr) /\ Index \in Nat
  BY <1>2, PlainFacts
<1> DEFINE M == MadeTable(ns)
<1>5. /\ varLocations' = M /\ declaredVars' = MadeList(ns) /\ nextReg' = nextReg + Len(ns)
      /\ UNCHANGED hitError
  BY DEF VarDecl, MadeTable, MadeList
<1>6. /\ \A n \in Known(varLocations) : M[n] = varLocations[n]
      /\ Known(M) = Known(varLocations) \cup ToSet(ns)
      /\ ToSet(ns) \cap Known(varLocations) = {}
      /\ NewNames(ns) = ToSet(ns) /\ DOMAIN Home(ns) = ToSet(ns) /\ ToSet(ns) # {}
      /\ \A n \in ToSet(ns) : Home(ns)[n] = M[n] /\ M[n] \notin Spare(ns)
      /\ \A t \in Spare(ns) : t \in Nat /\ t >= nextReg
  BY <1>2, <1>3, MakeKeeps
<1>7. TableSound(M, MadeList(ns), before, nextReg + Len(ns))
  BY <1>2, <1>3, MakeDeclared
<1>8. ToSet(ns) \subseteq Names /\ Home(ns) \in [ToSet(ns) -> Regs]
  BY <1>2, NewNamesFacts
<1> HIDE DEF M
<1>9. ASSUME ~hitError PROVE CodeSound(code', M, before)
  <2>1. CASE init
    <3> DEFINE x == Eval(Spare(ns), Home(ns), {0}, NewNames(ns))
    <3>1. Spare(ns) \in SUBSET Int
      BY <1>6
    <3>2. Home(ns) \in Homes /\ {0} \in SUBSET Nat /\ NewNames(ns) \in SUBSET Names
      BY <1>6, <1>8 DEF Homes
    <3>3. x \in Instr
      BY <3>1, <3>2, InstrTypes
    <3>4. /\ x.op \in {"EVAL", "MODULE"} /\ x.home = Home(ns) /\ x.temps = Spare(ns) /\ x.fresh = ToSet(ns)
      BY <1>6 DEF Eval
    <3>5. code' = code \o <<DefStart(Index)>> \o <<x>> \o <<DefEnd>>
      BY <2>1 DEF VarDecl
    <3> HIDE DEF x
    <3>6. <<x>> \in Seq(Instr)
      BY <3>3
    <3>7. Wrapped(code, code', Index, <<x>>)
      BY <1>4, <3>5, <3>6, WrapMany
    <3>8. /\ DOMAIN x.home # {} /\ x.fresh \subseteq DOMAIN x.home
          /\ DOMAIN x.home \subseteq Known(M) /\ DOMAIN x.home \cap Known(varLocations) = {}
          /\ \A n \in DOMAIN x.home : x.home[n] = M[n] /\ M[n] \notin x.temps
          /\ \A t \in x.temps : t \in Nat /\ t >= nextReg
      BY <1>6, <3>4
    <3>9. Known(varLocations) \subseteq Known(M)
      BY <1>6
    <3> QED
      BY <1>2, <1>6, <1>9, <3>3, <3>4, <3>7, <3>8, <3>9, FailSound
  <2>2. CASE ~init
    <3> DEFINE m == [i \in DOMAIN ns |-> Load(Home(ns)[ns[i]], ns[i])]
    <3>1. \A i \in DOMAIN ns : Load(Home(ns)[ns[i]], ns[i]) \in Instr
      BY <1>1, <1>8, InstrTypes DEF ToSet
    <3>2. m \in [1 .. Len(ns) -> Instr]
      BY <1>1, <3>1
    <3>3. m \in Seq(Instr) /\ Len(m) = Len(ns)
      BY <1>1, <3>2
    <3>4. \A j \in 1 .. Len(ns) : m[j].op = "LOAD" /\ m[j].name = ns[j] /\ m[j].reg = Home(ns)[ns[j]]
      BY <1>1 DEF Load
    <3>5. code' = code \o <<DefStart(Index)>> \o m \o <<DefEnd>>
      BY <2>2 DEF VarDecl
    <3> HIDE DEF m
    <3>6. Wrapped(code, code', Index, m)
      BY <1>4, <3>3, <3>5, WrapMany
    <3>7. \A j \in 1 .. Len(m) : m[j].op = "LOAD" /\ m[j].name \in Known(M) /\ m[j].reg = M[m[j].name]
      BY <1>1, <1>6, <3>3, <3>4 DEF ToSet
    <3>8. Known(varLocations) \subseteq Known(M)
      BY <1>6
    <3> QED
      BY <1>2, <1>6, <1>9, <3>3, <3>6, <3>7, <3>8, LoadsSound
  <2> QED
    BY <2>1, <2>2
<1>10. \A n \in Known(varLocations) : varLocations'[n] = varLocations[n]
  BY <1>5, <1>6
<1>11. TableSound(varLocations', declaredVars', before, nextReg')
  BY <1>5, <1>7
<1>12. ~hitError' => CodeSound(code', varLocations', before)
  BY <1>5, <1>9
<1> QED
  BY <1>2, <1>10, <1>11, <1>12, StatementSound

LEMMA FuncDeclSound ==
  ASSUME TInv, RInv, XInv, VInv, features = {},
         NEW n \in Names, NEW ok \in BOOLEAN, FuncDecl(n, ok)
  PROVE  VInv'
<1>1. phase = "compiling" /\ UNCHANGED <<phase, staticVars, vmVars, ghosts>>
  BY DEF FuncDecl, Compiling
<1>2. /\ varLocations[n] = None /\ code \in Seq(Instr) /\ Index \in Nat
      /\ nextReg \in Nat \ {0} /\ NumRegs \in Nat /\ declaredVars \in Seq(Entry)
      /\ varLocations \in [Names -> Regs \cup {None}]
      /\ TableSound(varLocations, declaredVars, before, nextReg)
  BY <1>1, PlainFacts DEF FuncDecl
<1>3. nextReg + 1 < NumRegs
  BY DEF FuncDecl, Compiling
<1>4. nextReg \in Regs /\ nextReg <= nextReg /\ nextReg < nextReg + 1 /\ nextReg + 1 \in Nat /\ nextReg + 1 >= nextReg
  BY <1>2, <1>3 DEF Regs
<1> DEFINE e == [name |-> n, reg |-> nextReg]
<1>5. /\ nextReg' = nextReg + 1 /\ hitError' = (hitError \/ ~ok)
      /\ code' = code \o <<DefStart(Index), Load(nextReg, n), DefEnd>>
      /\ varLocations' = [varLocations EXCEPT ![n] = IF ~hitError /\ ~ok THEN None ELSE nextReg]
      /\ declaredVars' = IF ~hitError /\ ~ok THEN Front(Append(declaredVars, e)) ELSE Append(declaredVars, e)
  BY <1>2 DEF FuncDecl, CompileFunc
<1>6. CASE ~hitError /\ ~ok
  <2>1. varLocations' = varLocations
    BY <1>2, <1>5, <1>6
  <2>2. declaredVars' = declaredVars
    <3>1. e \in Entry
      BY <1>4 DEF Entry
    <3>2. Front(Append(declaredVars, e)) = declaredVars
      BY <1>2, <3>1, NamesOfAppend
    <3> QED
      BY <1>5, <1>6, <3>2
  <2>3. TableSound(varLocations, declaredVars, before, nextReg + 1)
    BY <1>2, <1>4, TableRoom
  <2> QED
    BY <1>1, <1>5, <1>6, <2>1, <2>2, <2>3, StatementSound
<1>7. CASE ~(~hitError /\ ~ok)
  <2> DEFINE M == GivenTo(n, nextReg)
             D == ListedAt(n, nextReg)
  <2>1. varLocations' = M /\ declaredVars' = D
    BY <1>5, <1>7 DEF GivenTo, ListedAt
  <2>3. /\ TableSound(M, D, before, nextReg + 1)
        /\ Known(M) = Known(varLocations) \cup {n} /\ n \notin Known(varLocations) /\ M[n] = nextReg
        /\ \A l \in Known(varLocations) : M[l] = varLocations[l]
    BY <1>1, <1>2, <1>4, OneDeclared
  <2> HIDE DEF M, D
  <2>4. ASSUME ~hitError' PROVE CodeSound(code', M, before)
    <3> DEFINE x == Load(nextReg, n)
    <3>1. x \in Instr /\ x.op = "LOAD" /\ x.name = n /\ x.reg = nextReg
      BY <1>4, InstrTypes DEF Load
    <3>2. code' = code \o <<DefStart(Index), x, DefEnd>> /\ ~hitError
      BY <1>5, <2>4
    <3> HIDE DEF x
    <3>3. Wrapped(code, code', Index, <<x>>)
      BY <1>2, <3>1, <3>2, WrapOne
    <3>4. <<x>> \in Seq(Instr) /\ Len(<<x>>) = 1 /\ <<x>>[1] = x
      BY <3>1
    <3>5. \A j \in 1 .. Len(<<x>>) : /\ <<x>>[j].op = "LOAD" /\ <<x>>[j].name \in Known(M)
                                     /\ <<x>>[j].reg = M[<<x>>[j].name]
      BY <2>3, <3>1, <3>4
    <3>6. Known(varLocations) \subseteq Known(M)
      BY <2>3
    <3> QED
      BY <1>1, <2>3, <3>2, <3>3, <3>4, <3>5, <3>6, LoadsSound
  <2> QED
    BY <1>1, <1>5, <2>1, <2>3, <2>4, StatementSound
<1> QED
  BY <1>6, <1>7

LEMMA TypeDeclSound ==
  ASSUME TInv, RInv, XInv, VInv, features = {},
         NEW n \in Names, NEW ok \in BOOLEAN, TypeDecl(n, ok)
  PROVE  VInv'
<1>1. /\ phase = "compiling" /\ UNCHANGED <<phase, staticVars, vmVars, ghosts>>
      /\ hitError' = (hitError \/ ~ok) /\ nextReg' = nextReg + 1 /\ nextReg + 1 < NumRegs
  BY DEF TypeDecl, Compiling
<1>2. /\ varLocations[n] = None /\ code \in Seq(Instr)
      /\ nextReg \in Nat \ {0} /\ NumRegs \in Nat
      /\ before \subseteq Known(varLocations)
      /\ ~hitError => CodeSound(code, varLocations, before)
  BY <1>1, PlainFacts DEF TypeDecl
<1>3. nextReg \in Regs /\ nextReg <= nextReg /\ nextReg < nextReg + 1 /\ nextReg + 1 \in Nat
  BY <1>1, <1>2 DEF Regs
<1>4. varLocations' = GivenTo(n, nextReg) /\ declaredVars' = ListedAt(n, nextReg)
  BY DEF TypeDecl, DefVar, GivenTo, ListedAt
<1> DEFINE x == Load(nextReg, n)
<1>5. x \in Instr /\ x.op = "LOAD" /\ x.name = n /\ x.reg = nextReg
  BY <1>3, InstrTypes DEF Load
<1>6. code' = Append(code, x)
  BY DEF TypeDecl
<1> HIDE DEF x
<1> DEFINE M == varLocations'
           D == declaredVars'
<1>7. /\ TableSound(M, D, before, nextReg + 1)
      /\ Known(M) = Known(varLocations) \cup {n} /\ n \notin Known(varLocations) /\ M[n] = nextReg
      /\ \A l \in Known(varLocations) : M[l] = varLocations[l]
  BY <1>1, <1>2, <1>3, <1>4, OneDeclared
<1>8. ASSUME ~hitError PROVE CodeSound(code', M, before)
  <2> DEFINE d == code'
  <2>1. /\ d \in Seq(Instr) /\ Len(d) = Len(code) + 1 /\ Len(code) \in Nat /\ d[Len(code) + 1] = x
        /\ \A i \in 1 .. Len(code) : d[i] = code[i]
    BY <1>2, <1>5, <1>6
  <2> HIDE DEF d, M
  <2>2. SoundAt(d, Len(code) + 1, M, before)
    BY <1>5, <1>7, <2>1 DEF SoundAt, Gives
  <2>3. \A i \in Len(code) + 1 .. Len(d) : SoundAt(d, i, M, before)
    BY <2>1, <2>2
  <2>4. Len(code) <= Len(d) /\ Known(varLocations) \subseteq Known(M)
    BY <1>7, <2>1
  <2>5. CodeSound(d, M, before)
    BY <1>2, <1>7, <1>8, <2>1, <2>3, <2>4, CodeSoundGrows
  <2> QED
    BY <2>5 DEF d, M
<1> QED
  BY <1>1, <1>7, <1>8, StatementSound

(* A module, or one of its entries, at r, with another register.           *)
LEMMA ImportSound ==
  ASSUME TInv, RInv, XInv, VInv, features = {}, phase = "compiling",
         UNCHANGED <<phase, staticVars, vmVars, ghosts>>,
         NEW n \in Names, varLocations[n] = None, NEW r \in Regs, nextReg <= r,
         NEW temp \in Nat, temp >= nextReg, temp # r, NEW k \in Nat, r < k, NEW entry \in BOOLEAN,
         DefVar(n, r), nextReg' = k, UNCHANGED hitError,
         code' = code \o <<DefStart(Index), Import({temp}, [m \in {n} |-> r], entry), DefEnd>>
  PROVE  VInv'
<1> DEFINE x == Import({temp}, [m \in {n} |-> r], entry)
<1>1. [m \in {n} |-> r] \in Homes /\ {temp} \in SUBSET Int
  <2>1. [m \in {n} |-> r] \in [{n} -> Regs] /\ {n} \in SUBSET Names
    OBVIOUS
  <2>2. [m \in {n} |-> r] \in Homes
    BY <2>1 DEF Homes
  <2> QED
    BY <2>2
<1>2. x \in Instr
  BY <1>1, InstrTypes
<1>3. /\ x.op \in {"EVAL", "MODULE"} /\ x.temps = {temp} /\ x.fresh = {n}
      /\ DOMAIN x.home = {n} /\ x.home[n] = r
  BY DEF Import
<1>4. code' = code \o <<DefStart(Index), x, DefEnd>>
  OBVIOUS
<1> HIDE DEF x
<1> DEFINE M == varLocations'
           D == declaredVars'
<1>5. M = GivenTo(n, r) /\ D = ListedAt(n, r)
  BY DEF DefVar, GivenTo, ListedAt
<1>6. code \in Seq(Instr) /\ Index \in Nat
  BY PlainFacts
<1> HIDE DEF M, D
<1>7. /\ TableSound(M, D, before, k)
      /\ Known(M) = Known(varLocations) \cup {n} /\ n \notin Known(varLocations) /\ M[n] = r
      /\ \A l \in Known(varLocations) : M[l] = varLocations[l]
  BY <1>5, OneDeclared
<1>8. Wrapped(code, code', Index, <<x>>)
  BY <1>2, <1>4, <1>6, WrapOne
<1>9. /\ DOMAIN x.home # {} /\ x.fresh \subseteq DOMAIN x.home
      /\ DOMAIN x.home \subseteq Known(M) /\ DOMAIN x.home \cap Known(varLocations) = {}
      /\ \A l \in DOMAIN x.home : x.home[l] = M[l] /\ M[l] \notin x.temps
      /\ \A t \in x.temps : t \in Nat /\ t >= nextReg
      /\ Known(varLocations) \subseteq Known(M)
  BY <1>3, <1>7
<1>10. ~hitError => CodeSound(code', M, before)
  BY <1>2, <1>3, <1>7, <1>8, <1>9, FailSound
<1> QED
  BY <1>7, <1>10, StatementSound DEF M, D

LEMMA UseModuleSound ==
  ASSUME TInv, RInv, XInv, VInv, features = {},
         NEW n \in Names, UseModule(n) \/ UseModuleEntry(n)
  PROVE  VInv'
<1>1. CASE UseModule(n)
  <2>1. /\ phase = "compiling" /\ UNCHANGED <<phase, staticVars, vmVars, ghosts>> /\ nextReg + 1 < NumRegs
        /\ MayDeclare(n) /\ DefVar(n, nextReg) /\ nextReg' = nextReg + 1 /\ UNCHANGED hitError
        /\ code' = code \o <<DefStart(Index), Import({nextReg + 1}, [m \in {n} |-> nextReg], FALSE), DefEnd>>
    BY <1>1 DEF UseModule, Compiling
  <2>2. nextReg \in Nat /\ NumRegs \in Nat /\ varLocations[n] = None
    BY <2>1, PlainFacts
  <2>3. /\ nextReg \in Regs /\ nextReg + 1 \in Nat /\ nextReg <= nextReg /\ nextReg < nextReg + 1
        /\ nextReg + 1 # nextReg /\ nextReg + 1 >= nextReg
    BY <2>1, <2>2 DEF Regs
  <2> QED
    BY <2>1, <2>2, <2>3, ImportSound
<1>2. CASE UseModuleEntry(n)
  <2>1. /\ phase = "compiling" /\ UNCHANGED <<phase, staticVars, vmVars, ghosts>> /\ nextReg + 2 < NumRegs
        /\ MayDeclare(n) /\ DefVar(n, nextReg + 1) /\ nextReg' = nextReg + 2 /\ UNCHANGED hitError
        /\ code' = code \o <<DefStart(Index), Import({nextReg}, [m \in {n} |-> nextReg + 1], TRUE), DefEnd>>
    BY <1>2 DEF UseModuleEntry, Compiling
  <2>2. nextReg \in Nat /\ NumRegs \in Nat /\ varLocations[n] = None
    BY <2>1, PlainFacts
  <2>3. /\ nextReg + 1 \in Regs /\ nextReg + 2 \in Nat /\ nextReg <= nextReg + 1 /\ nextReg + 1 < nextReg + 2
        /\ nextReg # nextReg + 1 /\ nextReg >= nextReg
    BY <2>1, <2>2 DEF Regs
  <2> QED
    BY <2>1, <2>2, <2>3, ImportSound
<1> QED
  BY <1>1, <1>2

(* Statements that do not compile: no register is given back too often.    *)
LEMMA ErrorSound ==
  ASSUME TInv, RInv, XInv, VInv, features = {}, NEW k \in Slips, VarDeclError(k) \/ StmtError(k)
  PROVE  VInv'
<1>1. /\ phase = "compiling" /\ UNCHANGED <<phase, staticVars, vmVars, ghosts>>
      /\ UNCHANGED <<varLocations, declaredVars>> /\ hitError' = TRUE /\ nextReg' = nextReg + k
  BY DEF VarDeclError, StmtError, Compiling
<1>2. k \in {0, 1}
  BY DEF Slips
<1>3. nextReg \in Nat /\ TableSound(varLocations, declaredVars, before, nextReg)
  BY <1>1, PlainFacts
<1>4. nextReg + k \in Nat /\ nextReg + k >= nextReg
  BY <1>2, <1>3
<1>5. TableSound(varLocations, declaredVars, before, nextReg + k)
  BY <1>3, <1>4, TableRoom
<1> QED
  BY <1>1, <1>5, StatementSound

LEMMA NoOtherStatement ==
  ASSUME RInv, features = {}
  PROVE  ~ExprStmt /\ ~\E ok \in BOOLEAN : HoistedFuncDecl(ok)
<1>1. {"redeclare", "hoist"} \cap features = {}
  OBVIOUS
<1> QED
  BY <1>1 DEF RInv, LineIsListed, ExprStmt, HoistedFuncDecl

-----------------------------------------------------------------------------
(* The start and the end of a line.                                        *)

(* What the next line finds.                                               *)
LEMMA IdleFacts ==
  ASSUME TInv, RInv, XInv, VInv, features = {}, phase = "idle"
  PROVE  /\ Known(Cleared) = executed /\ executed \subseteq Known(varLocations)
         /\ \A n \in executed : Cleared[n] = varLocations[n] /\ Cleared[n] \in Nat \ {0}
         /\ \A r \in ClearedNextReg : r \in Nat \ {0} /\ \A n \in executed : Cleared[n] < r
<1>1. /\ varLocations \in [Names -> Regs \cup {None}] /\ declaredVars \in Seq(Entry)
      /\ before \in SUBSET Names /\ clearIndex \in Nat
      /\ Known(varLocations) = before \cup NamesOf(declaredVars)
  <2>1. features \subseteq {"slip"} /\ clearIndex \in Nat
    BY DEF TInv, TypeOK
  <2> QED
    BY <2>1, TableFacts
<1>2. /\ TableSound(varLocations, declaredVars, before, nextReg)
      /\ clearDeclaredVars => clearIndex < Len(declaredVars)
  BY DEF VInv
<1>3. Known(Cleared) = executed
  BY DEF XInv
<1>4. \A n \in Known(Cleared) : n \in Known(varLocations) /\ Cleared[n] = varLocations[n]
  BY DEF Known, Cleared
<1>5. nextReg \in Nat \ {0} /\ \A n \in Known(varLocations) : varLocations[n] \in 1 .. nextReg - 1
  BY <1>2 DEF TableSound
<1>6. \A n \in Known(varLocations) : varLocations[n] \in Nat \ {0} /\ varLocations[n] < nextReg
  BY <1>5
<1>7. ASSUME NEW r \in ClearedNextReg
      PROVE  r \in Nat \ {0} /\ \A n \in Known(Cleared) : varLocations[n] < r
  <2>1. CASE ~clearDeclaredVars
    <3>1. r = nextReg
      BY <2>1 DEF ClearedNextReg
    <3> QED
      BY <1>4, <1>5, <1>6, <3>1
  <2>2. CASE clearDeclaredVars
    <3> DEFINE k == clearIndex + 1
    <3>1. r = declaredVars[k].reg /\ k \in DOMAIN declaredVars
      BY <1>1, <1>2, <2>2 DEF ClearedNextReg
    <3>2. declaredVars[k].name \in Known(varLocations) /\ varLocations[declaredVars[k].name] = r
      BY <1>2, <3>1 DEF TableSound
    <3>3. ASSUME NEW n \in Known(Cleared)
          PROVE  varLocations[n] < r
      <4>1. CASE n \in before
        BY <1>2, <3>1, <4>1 DEF TableSound
      <4>2. CASE n \in NamesOf(declaredVars)
        <5>1. PICK j \in DOMAIN declaredVars : declaredVars[j].name = n
          BY <4>2 DEF NamesOf
        <5>2. ~\E i \in clearIndex + 1 .. Len(declaredVars) : declaredVars[i].name = n
          BY <2>2 DEF Known, Cleared
        <5>3. j < k
          BY <1>1, <5>1, <5>2
        <5>4. declaredVars[j].reg < declaredVars[k].reg /\ varLocations[n] = declaredVars[j].reg
          BY <1>2, <3>1, <5>1, <5>3 DEF TableSound
        <5> QED
          BY <3>1, <5>4
      <4> QED
        BY <1>1, <1>4, <4>1, <4>2
    <3> QED
      BY <1>6, <3>2, <3>3
  <2> QED
    BY <2>1, <2>2
<1> QED
  BY <1>3, <1>4, <1>6, <1>7

LEMMA StartLineSound ==
  ASSUME TInv, RInv, XInv, VInv, features = {},
         NEW parseError \in BOOLEAN, NEW fns \in Lists, StartLine(parseError, fns)
  PROVE  VInv'
<1>1. /\ phase = "idle" /\ phase' = "compiling" /\ code' = <<>>
      /\ before' = Known(Cleared) /\ executed' = executed \cap Known(Cleared)
      /\ UNCHANGED <<features, regs>> /\ fns = <<>>
  BY DEF StartLine, vmVars
<1>2. PICK r \in ClearedNextReg :
        /\ varLocations' = [n \in Names |-> IF n \in ToSet(fns)
                                            THEN r + Max({i \in DOMAIN fns : fns[i] = n}) - 1
                                            ELSE Cleared[n]]
        /\ nextReg' = r + Len(fns)
        /\ declaredVars' = LineEntries(fns, r)
  BY DEF StartLine
<1>3. /\ Known(Cleared) = executed /\ executed \subseteq Known(varLocations)
      /\ \A n \in executed : Cleared[n] = varLocations[n] /\ Cleared[n] \in Nat \ {0}
      /\ r \in Nat \ {0} /\ \A n \in executed : Cleared[n] < r
  BY <1>1, IdleFacts
<1>4. \A n \in Names : varLocations'[n] = Cleared[n]
  BY <1>1, <1>2 DEF ToSet
<1>5. nextReg' = r /\ DOMAIN declaredVars' = {} /\ DOMAIN code' = {}
  BY <1>1, <1>2, <1>3 DEF LineEntries, HoistEntries
<1>6. Known(varLocations') = executed /\ before' = executed /\ executed' = executed
  BY <1>1, <1>3, <1>4 DEF Known
<1>7. \A n \in executed : n \in Names /\ varLocations'[n] = varLocations[n] /\ varLocations'[n] \in 1 .. r - 1
  BY <1>3, <1>4 DEF Known
<1>8. TableSound(varLocations', declaredVars', before', nextReg')
  <2>1. \A m, n \in executed : varLocations[m] = varLocations[n] => m = n
    BY <1>1, <1>3 DEF VInv, TableSound
  <2>2. \A m, n \in executed : varLocations'[m] = varLocations'[n] => m = n
    BY <1>7, <2>1
  <2> QED
    BY <1>3, <1>5, <1>6, <1>7, <2>2 DEF TableSound
<1>9. CodeSound(code', varLocations', before')
  BY <1>5 DEF CodeSound
<1>10. Holds(executed)'
  <2>1. Holds(executed)
    BY <1>1 DEF VInv
  <2> QED
    BY <1>1, <1>6, <1>7, <2>1 DEF Holds
<1> QED
  BY <1>1, <1>8, <1>9, <1>10 DEF VInv

LEMMA FinishSound ==
  ASSUME TInv, RInv, XInv, VInv, features = {}, FinishCompile
  PROVE  VInv'
<1>1. /\ phase = "compiling"
      /\ UNCHANGED <<varLocations, nextReg, declaredVars, hitError, clearIndex, features, before, executed, regs>>
      /\ hitError => phase' = "idle" /\ clearDeclaredVars' = Reject
      /\ ~hitError => phase' = "running" /\ UNCHANGED code
  BY DEF FinishCompile, ghosts
<1>2. ~clearDeclaredVars /\ clearIndex = 0
  <2>1. {"redeclare", "hoist"} \cap features = {}
    OBVIOUS
  <2> QED
    BY <1>1, <2>1 DEF RInv, LineIsListed
<1>3. hitError => (clearDeclaredVars' => clearIndex' < Len(declaredVars'))
  <2>1. declaredVars \in Seq(Entry)
    BY DEF TInv, TypeOK
  <2>2. declaredVars # <<>> => 0 < Len(declaredVars)
    BY <2>1
  <2> QED
    BY <1>1, <1>2, <2>2 DEF Reject
<1>4. /\ TableSound(varLocations, declaredVars, before, nextReg)
      /\ ~hitError => CodeSound(code, varLocations, before)
      /\ Holds(executed)
  BY <1>1 DEF VInv
<1>5. /\ TableSound(varLocations', declaredVars', before', nextReg')
      /\ ~hitError' => CodeSound(code', varLocations', before')
      /\ Holds(executed)'
  BY <1>1, <1>4 DEF Holds
<1> QED
  BY <1>1, <1>3, <1>5 DEF VInv

-----------------------------------------------------------------------------
(* The VM.                                                                 *)

LEMMA RunningFacts ==
  ASSUME TInv, RInv, XInv, VInv, features = {}, NEW op, Fetch(op)
  PROVE  /\ phase = "running" /\ ~hitError /\ ip \in DOMAIN code /\ code[ip].op \in op
         /\ executed = before \cup GivenBelow(code, ip) /\ executed \subseteq Known(varLocations)
         /\ SoundAt(code, ip, varLocations, before)
         /\ \A n \in Known(varLocations) : varLocations[n] \in Regs /\ varLocations[n] # 0
         /\ \A m, n \in Known(varLocations) : varLocations[m] = varLocations[n] => m = n
         /\ Holds(executed) /\ 0 \in Regs /\ DOMAIN regs = Regs
<1>1. /\ phase = "running" /\ ip \in DOMAIN code /\ code[ip].op \in op
      /\ executed = before \cup GivenBelow(code, ip)
  <2>1. features \subseteq {"slip"}
    OBVIOUS
  <2> QED
    BY <2>1, RunFacts
<1>2. {"redeclare", "hoist"} \cap features = {} /\ "redeclare" \notin features
  OBVIOUS
<1>3. ~hitError /\ before \subseteq Known(varLocations)
  BY <1>1, <1>2 DEF RInv, LineIsListed, LineIsNew
<1>4. TableSound(varLocations, declaredVars, before, nextReg) /\ CodeSound(code, varLocations, before)
  BY <1>1, <1>3 DEF VInv
<1>5. Holds(executed)
  BY <1>1 DEF VInv
<1>6. executed \subseteq Known(varLocations)
  <2>1. GivenBelow(code, ip) \subseteq Known(varLocations)
    BY <1>4 DEF GivenBelow, CodeSound, SoundAt
  <2> QED
    BY <1>1, <1>3, <2>1
<1>7. SoundAt(code, ip, varLocations, before)
  BY <1>1, <1>4 DEF CodeSound
<1>8. \A n \in Known(varLocations) : varLocations[n] \in Regs /\ varLocations[n] # 0
  <2>1. nextReg \in Nat /\ \A n \in Known(varLocations) : varLocations[n] \in 1 .. nextReg - 1
    BY <1>4 DEF TableSound
  <2>2. varLocations \in [Names -> Regs \cup {None}]
    BY DEF TInv, TypeOK
  <2>3. \A n \in Known(varLocations) : varLocations[n] \in Regs
    BY <2>2 DEF Known
  <2> QED
    BY <2>1, <2>3
<1>9. \A m, n \in Known(varLocations) : varLocations[m] = varLocations[n] => m = n
  BY <1>4 DEF TableSound
<1>10. 0 \in Regs /\ DOMAIN regs = Regs
  BY ReplAssumption DEF Regs, TInv, TypeOK
<1> QED
  BY <1>1, <1>3, <1>5, <1>6, <1>7, <1>8, <1>9, <1>10

LEMMA RunSound ==
  ASSUME TInv, RInv, XInv, VInv, features = {}, NEW op, Fetch(op),
         UNCHANGED <<phase, compilerVars, features, before>>, Holds(executed)'
  PROVE  VInv'
<1>1. phase = "running" /\ ~hitError
  BY RunningFacts
<1>2. UNCHANGED <<phase, varLocations, declaredVars, nextReg, hitError, code, features, before>>
  BY DEF compilerVars
<1> QED
  BY <1>1, <1>2 DEF VInv

LEMMA RunDefSound ==
  ASSUME TInv, RInv, XInv, VInv, features = {}, RunDefStart \/ RunDefEnd
  PROVE  VInv'
<1>1. /\ Fetch({"DEF_START", "DEF_END"}) /\ UNCHANGED <<phase, compilerVars, features, before>>
      /\ UNCHANGED <<regs, executed, varLocations>>
  BY DEF RunDefStart, RunDefEnd, Advance, Fetch, compilerVars
<1>2. Holds(executed)'
  BY <1>1, RunningFacts DEF Holds
<1> QED
  BY <1>1, <1>2, RunSound

LEMMA RunLoadSound ==
  ASSUME TInv, RInv, XInv, VInv, features = {}, RunLoad
  PROVE  VInv'
<1> DEFINE x == code[ip]
<1>1. /\ Fetch({"LOAD"}) /\ UNCHANGED <<phase, compilerVars, features, before>> /\ UNCHANGED varLocations
      /\ regs' = [regs EXCEPT ![x.reg] = x.name] /\ executed' = executed \cup {x.name}
  BY DEF RunLoad, Advance, compilerVars
<1>2. /\ x.op = "LOAD" /\ executed \subseteq Known(varLocations)
      /\ SoundAt(code, ip, varLocations, before)
      /\ \A n \in Known(varLocations) : varLocations[n] \in Regs /\ varLocations[n] # 0
      /\ \A m, n \in Known(varLocations) : varLocations[m] = varLocations[n] => m = n
      /\ Holds(executed) /\ 0 \in Regs /\ DOMAIN regs = Regs
  BY <1>1, RunningFacts
<1>3. x.name \in Known(varLocations) /\ x.reg = varLocations[x.name]
  BY <1>2 DEF SoundAt, Gives
<1> HIDE DEF x
<1>4. regs'[0] = Builtin
  BY <1>1, <1>2, <1>3 DEF Holds
<1>5. \A n \in executed \cup {x.name} : regs'[varLocations[n]] = n
  BY <1>1, <1>2, <1>3 DEF Holds
<1>6. Holds(executed)'
  BY <1>1, <1>4, <1>5 DEF Holds
<1> QED
  BY <1>1, <1>6, RunSound

(* Values, or none, are stored in the registers of no other variable.      *)
LEMMA StoreSound ==
  ASSUME TInv, RInv, XInv, VInv, features = {}, Fetch({"EVAL", "MODULE"}), UNCHANGED varLocations,
         Store \/ (StoreNothing /\ UNCHANGED executed)
  PROVE  Holds(executed)'
<1> DEFINE x == code[ip]
<1>1. /\ x.op \in {"EVAL", "MODULE"} /\ executed \subseteq Known(varLocations)
      /\ executed = before \cup GivenBelow(code, ip)
      /\ SoundAt(code, ip, varLocations, before)
      /\ \A n \in Known(varLocations) : varLocations[n] \in Regs /\ varLocations[n] # 0
      /\ \A m, n \in Known(varLocations) : varLocations[m] = varLocations[n] => m = n
      /\ Holds(executed) /\ 0 \in Regs
  BY RunningFacts
<1>2. /\ DOMAIN x.home \subseteq Known(varLocations) /\ x.fresh \subseteq DOMAIN x.home
      /\ \A n \in DOMAIN x.home : x.home[n] = varLocations[n]
      /\ DOMAIN x.home \cap executed = {}
      /\ 0 \notin x.temps
      /\ \A n \in executed \cup DOMAIN x.home : varLocations[n] \notin x.temps
  BY <1>1 DEF SoundAt, Gives
<1>3. \A n \in executed, m \in DOMAIN x.home : varLocations[n] # x.home[m]
  BY <1>1, <1>2
<1>4. \A m \in DOMAIN x.home : x.home[m] # 0 /\ x.home[m] \in Regs
  BY <1>1, <1>2
<1>5. \A m, n \in DOMAIN x.home : x.home[m] = x.home[n] => m = n
  BY <1>1, <1>2
<1>6. CASE Store
  <2>1. /\ \A r \in Regs : regs'[r] =
             IF \E n \in DOMAIN x.home : x.home[n] = r THEN CHOOSE n \in DOMAIN x.home : x.home[n] = r
             ELSE IF r \in x.temps THEN Temp ELSE regs[r]
        /\ executed' = executed \cup DOMAIN x.home
    BY <1>6 DEF Store
  <2> HIDE DEF x
  <2>2. regs'[0] = Builtin
    BY <1>1, <1>2, <1>4, <2>1 DEF Holds
  <2>3. ASSUME NEW n \in DOMAIN x.home PROVE regs'[x.home[n]] = n
    <3> DEFINE c == CHOOSE m \in DOMAIN x.home : x.home[m] = x.home[n]
    <3>1. c \in DOMAIN x.home /\ x.home[c] = x.home[n]
      OBVIOUS
    <3>2. regs'[x.home[n]] = c
      BY <1>4, <2>1, <2>3
    <3> HIDE DEF c
    <3> QED
      BY <1>5, <3>1, <3>2
  <2>4. ASSUME NEW n \in executed PROVE regs'[varLocations[n]] = n
    <3>1. regs'[varLocations[n]] = regs[varLocations[n]]
      BY <1>1, <1>2, <1>3, <2>1
    <3> QED
      BY <1>1, <3>1 DEF Holds
  <2>5. \A n \in executed' : regs'[varLocations[n]] = n
    BY <1>2, <2>1, <2>3, <2>4
  <2> QED
    BY <2>2, <2>5 DEF Holds
<1>7. CASE StoreNothing /\ UNCHANGED executed
  <2>1. \A r \in Regs : regs'[r] = IF r \in x.temps \cup {x.home[n] : n \in x.fresh} THEN Temp ELSE regs[r]
    BY <1>7 DEF StoreNothing
  <2> HIDE DEF x
  <2>2. regs'[0] = Builtin
    BY <1>1, <1>2, <1>4, <2>1 DEF Holds
  <2>3. ASSUME NEW n \in executed PROVE regs'[varLocations[n]] = n
    <3>1. varLocations[n] \notin {x.home[m] : m \in x.fresh}
      BY <1>2, <1>3
    <3>2. regs'[varLocations[n]] = regs[varLocations[n]]
      BY <1>1, <1>2, <2>1, <3>1
    <3> QED
      BY <1>1, <3>2 DEF Holds
  <2> QED
    BY <1>7, <2>2, <2>3 DEF Holds
<1> QED
  BY <1>6, <1>7

LEMMA RunGiveSound ==
  ASSUME TInv, RInv, XInv, VInv, features = {}, RunEval \/ \E compiled \in BOOLEAN : RunImport(compiled)
  PROVE  VInv'
<1>1. /\ Fetch({"EVAL", "MODULE"}) /\ Store /\ UNCHANGED varLocations
      /\ UNCHANGED <<phase, compilerVars, features, before>>
  BY DEF RunEval, RunImport, Advance, Fetch, compilerVars
<1>2. Holds(executed)'
  BY <1>1, StoreSound
<1> QED
  BY <1>1, <1>2, RunSound

LEMMA RunErrorSound ==
  ASSUME TInv, RInv, XInv, VInv, features = {}, RunEvalError
  PROVE  VInv'
<1>1. /\ Fetch({"EVAL", "MODULE"}) /\ StoreNothing /\ phase' = "idle"
      /\ UNCHANGED <<varLocations, declaredVars, nextReg, features, before, executed>>
  BY DEF RunEvalError, compilerVars, ghosts
<1>2. Holds(executed)'
  BY <1>1, StoreSound
<1>3. TableSound(varLocations', declaredVars', before', nextReg')
  <2>1. phase # "crashed"
    BY <1>1 DEF Fetch
  <2> QED
    BY <1>1, <2>1 DEF VInv
<1>4. /\ Matches(code, declaredVars) /\ executed = before \cup GivenBelow(code, ip)
      /\ clearIndex' \in 0 .. Len(declaredVars)
      /\ FirstNames(declaredVars, clearIndex') = GivenBelow(code, ip)
  BY ErrorFacts
<1>5. /\ code \in Seq(Instr) /\ declaredVars \in Seq(Entry)
      /\ ip \in DOMAIN code /\ code[ip].op \in {"EVAL", "MODULE"}
  BY <1>1 DEF TInv, TypeOK, Fetch
<1>6. clearIndex' # Len(declaredVars)
  <2> SUFFICES ASSUME clearIndex' = Len(declaredVars) PROVE FALSE
    OBVIOUS
  <2>1. GivenBelow(code, ip) = GivenBelow(code, Len(code) + 1)
    BY <1>4, <1>5, FirstAll DEF Matches
  <2>2. Gives(code[ip]) \subseteq GivenBelow(code, Len(code) + 1)
    <3>1. ip \in {k \in DOMAIN code : k < Len(code) + 1}
      BY <1>5
    <3> QED
      BY <3>1 DEF GivenBelow
  <2>3. /\ Gives(code[ip]) = DOMAIN code[ip].home /\ DOMAIN code[ip].home # {}
        /\ DOMAIN code[ip].home \cap GivenBelow(code, ip) = {}
    <3>1. SoundAt(code, ip, varLocations, before)
      BY <1>1, RunningFacts
    <3> QED
      BY <1>5, <3>1 DEF SoundAt, Gives
  <2> QED
    BY <2>1, <2>2, <2>3
<1>7. clearIndex' < Len(declaredVars')
  BY <1>1, <1>4, <1>5, <1>6
<1> QED
  BY <1>1, <1>2, <1>3, <1>7 DEF VInv

LEMMA HaltSound ==
  ASSUME TInv, RInv, XInv, VInv, features = {}, Halt
  PROVE  VInv'
<1>1. /\ phase = "running" /\ phase' = "idle"
      /\ UNCHANGED <<varLocations, declaredVars, nextReg, features, before, executed, regs, clearDeclaredVars>>
  BY DEF Halt, compilerVars, staticVars, vmVars, ghosts
<1>2. ~clearDeclaredVars
  <2>1. features \subseteq {"slip"}
    OBVIOUS
  <2> QED
    BY <1>1, <2>1 DEF XInv
<1>3. TableSound(varLocations', declaredVars', before', nextReg') /\ Holds(executed)'
  BY <1>1 DEF VInv, Holds
<1> QED
  BY <1>1, <1>2, <1>3 DEF VInv

LEMMA NewSessionSound ==
  /\ Init => VInv
  /\ Restart => VInv'
<1>1. 0 \in Regs
  BY ReplAssumption DEF Regs
<1>2. ASSUME Init PROVE VInv
  <2>1. Known(varLocations) = {} /\ DOMAIN declaredVars = {} /\ nextReg = 1 /\ before = {} /\ executed = {}
    BY <1>2 DEF Init, Known
  <2>2. TableSound(varLocations, declaredVars, before, nextReg)
    BY <2>1 DEF TableSound
  <2>3. Holds(executed) /\ phase = "idle" /\ ~clearDeclaredVars
    BY <1>1, <1>2 DEF Init, Holds
  <2> QED
    BY <2>2, <2>3 DEF VInv
<1>3. ASSUME Restart PROVE VInv'
  <2>1. /\ Known(varLocations') = {} /\ DOMAIN declaredVars' = {} /\ nextReg' = 1
        /\ before' = {} /\ executed' = {}
    BY <1>3 DEF Restart, Known
  <2>2. TableSound(varLocations', declaredVars', before', nextReg')
    BY <2>1 DEF TableSound
  <2>3. Holds(executed)' /\ phase' = "idle" /\ ~clearDeclaredVars'
    BY <1>1, <1>3 DEF Restart, Holds
  <2> QED
    BY <2>2, <2>3 DEF VInv
<1> QED
  BY <1>2, <1>3

-----------------------------------------------------------------------------
LEMMA NextSound == TInv /\ RInv /\ XInv /\ VInv /\ Next => VInv'
<1> SUFFICES ASSUME TInv, RInv, XInv, VInv, Next PROVE VInv'
  OBVIOUS
<1>1. features' = features
  BY DEF Next, StartLine, StartLineCrash, VarDecl, UseModule, UseModuleEntry, FuncDeclCrash, FuncDecl,
         TypeDecl, HoistedFuncDecl, VarDeclError, StmtError, ExprStmt, Compiling, FinishCompile,
         RunDefStart, RunDefEnd, RunLoad, RunEval, RunEvalError, RunImport, RunImportCrash,
         RunImportFails, Halt, Restart, Advance, ghosts
<1>2. CASE features # {}
  BY <1>1, <1>2 DEF VInv
<1>3. CASE features = {}
  <2>1. ASSUME NEW parseError \in BOOLEAN, NEW fns \in Lists, StartLine(parseError, fns)
        PROVE  VInv'
    BY <1>3, <2>1, StartLineSound
  <2>2. ASSUME NEW ns \in {<<n>> : n \in Names} \cup (Names \X Names), NEW init \in BOOLEAN, VarDecl(ns, init)
        PROVE  VInv'
    <3>1. ns \in Lists /\ ns # <<>>
      BY DEF Lists
    <3> QED
      BY <1>3, <2>2, <3>1, VarDeclSound
  <2>3. ASSUME NEW n \in Names, UseModule(n) \/ UseModuleEntry(n)
        PROVE  VInv'
    BY <1>3, <2>3, UseModuleSound
  <2>4. ASSUME NEW n \in Names, NEW ok \in BOOLEAN, FuncDecl(n, ok) \/ TypeDecl(n, ok)
        PROVE  VInv'
    BY <1>3, <2>4, FuncDeclSound, TypeDeclSound
  <2>5. ASSUME NEW k \in Slips, VarDeclError(k) \/ StmtError(k)
        PROVE  VInv'
    BY <1>3, <2>5, ErrorSound
  <2>6. ~ExprStmt /\ ~(\E ok \in BOOLEAN : HoistedFuncDecl(ok)) /\ ~RunImportFails
    BY <1>3, NoOtherStatement DEF RunImportFails
  <2>7. CASE FinishCompile
    BY <1>3, <2>7, FinishSound
  <2>8. CASE RunDefStart \/ RunDefEnd
    BY <1>3, <2>8, RunDefSound
  <2>9. CASE RunLoad
    BY <1>3, <2>9, RunLoadSound
  <2>10. ASSUME RunEval \/ \E compiled \in BOOLEAN : RunImport(compiled)
         PROVE  VInv'
    BY <1>3, <2>10, RunGiveSound
  <2>11. CASE RunEvalError
    BY <1>3, <2>11, RunErrorSound
  <2>12. CASE Halt
    BY <1>3, <2>12, HaltSound
  <2>13. CASE Restart
    BY <2>13, NewSessionSound
  <2>14. ASSUME StartLineCrash \/ (\E n \in Names : FuncDeclCrash(n)) \/ RunImportCrash
         PROVE  VInv'
    <3>1. phase' = "crashed"
      BY <2>14 DEF StartLineCrash, FuncDeclCrash, RunImportCrash
    <3> QED
      BY <3>1 DEF VInv
  <2> QED
    BY <2>1, <2>2, <2>3, <2>4, <2>5, <2>6, <2>7, <2>8, <2>9, <2>10, <2>11, <2>12, <2>13, <2>14
       DEF Next, Lists
<1> QED
  BY <1>2, <1>3

(* At the prompt, in a session where nothing but initialisers fails, every *)
(* variable that can be named has a register of its own, which holds what  *)
(* its declaration put there, and which the next line will not give away:  *)
(* clearDeclarations sets nextReg back to a register that lies above those *)
(* of all variables that stay.                                             *)
THEOREM VariablesKeepRegisters == Spec => []VariablesIntact
<1>1. TInv /\ RInv /\ XInv /\ VInv => VariablesIntact
  <2> SUFFICES ASSUME TInv, RInv, XInv, VInv, features = {}, phase = "idle"
               PROVE  /\ regs[0] = Builtin
                      /\ \A n \in Known(Cleared) : /\ regs[Cleared[n]] = n
                                                   /\ \A r \in ClearedNextReg : Cleared[n] < r
    BY DEF VariablesIntact, Plain, AlwaysIntact
  <2>1. /\ Known(Cleared) = executed
        /\ \A n \in executed : Cleared[n] = varLocations[n]
        /\ \A r \in ClearedNextReg : \A n \in executed : Cleared[n] < r
    BY IdleFacts
  <2>2. Holds(executed)
    BY DEF VInv
  <2> QED
    BY <2>1, <2>2 DEF Holds
<1>2. VInv /\ UNCHANGED vars => VInv'
  <2> SUFFICES ASSUME VInv, UNCHANGED vars PROVE VInv'
    OBVIOUS
  <2>1. UNCHANGED <<features, phase, hitError, code, declaredVars, nextReg, executed, before, regs,
                    clearDeclaredVars, clearIndex, varLocations>>
    BY DEF vars, compilerVars, staticVars, vmVars, ghosts
  <2> QED
    BY <2>1 DEF VInv, Holds
<1>3. TInv /\ RInv /\ XInv /\ VInv /\ [Next]_vars => VInv'
  BY <1>2, NextSound
<1> QED
  BY <1>1, <1>3, NewSessionSound, AlwaysExact, PTL DEF Spec
=============================================================================
