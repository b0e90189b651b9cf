--------------------------- MODULE ReplDeclarations ---------------------------
(***************************************************************************)
(* Global declarations in the REPL.  Each line is compiled and run by one  *)
(* Compiler and one VM that live as long as the session, so a line that    *)
(* does not compile, or fails while it runs, must be rolled back: the      *)
(* compiler lists what the line declares in declaredVars, the VM notes     *)
(* (OP_DEF_START, OP_DEF_END) in which declaration it is, and the next     *)
(* call of compile() takes back what the failure left undefined.           *)
(*                                                                         *)
(* A line is a sequence of statements.  Names stands for the identifiers;  *)
(* the content of a register is the name of the variable that it was last  *)
(* written for, or Temp for an intermediate value.                         *)
(***************************************************************************)
EXTENDS Integers, Sequences, SequencesExt, FiniteSetsExt

CONSTANTS Names,        \* The identifiers that lines declare.
          None,         \* The register of a name that is not declared.
          Temp,         \* The content of a register that holds no variable.
          Builtin,      \* The content of the registers of _file_, len, ...
          NumRegs,      \* Bound: registers for globals, register 0 the builtins'.
          MaxStmts,     \* Bound: statements in a line.
          FeatureSets   \* What the lines of a session do, see below.

(* redeclare: declare a name that is declared already; hoist: declare      *)
(* closed functions; exprs: evaluate expressions that are statements of    *)
(* their own; nested: run declarations inside functions or blocks; slip:   *)
(* contain conditions, and expressions with several undefined operands;    *)
(* imports: import modules that do not compile or that import each other.  *)
ASSUME ReplAssumption ==
  /\ NumRegs \in Nat \ {0, 1}
  /\ MaxStmts \in Nat
  /\ FeatureSets \subseteq SUBSET {"redeclare", "hoist", "exprs", "nested", "slip", "imports"}
  /\ None \notin 0 .. NumRegs
  /\ Names \cap {Temp, Builtin} = {}

Regs == 0 .. NumRegs - 1

VARIABLES
  features,         \* What the lines of this session do: a member of FeatureSets.
  phase,            \* Idle at the prompt, compiling, running, or crashed.
  varLocations,     \* The compiler's table: the register of each global.
  nextReg,          \* The compiler's next free register.
  declaredVars,     \* What the current line has declared, in order.
  clearDeclaredVars, clearIndex,    \* The static fields of Compiler: the next
                                    \* line takes back declaredVars from clearIndex on.
  hitError,         \* The line has a compile-time error.
  hoisted,          \* The closed functions of the line still to be compiled.
  stmts,            \* The number of statements compiled.
  code, ip,         \* The bytecode of the line and the next instruction.
  inDeclaration, vmClearIndex,      \* The VM's note of the declaration being run.
  regs,             \* The registers.
  before,           \* Ghost: the names declared when the line began.
  executed          \* Ghost: the names whose declaration has been executed.

compilerVars == <<varLocations, nextReg, declaredVars, hitError, hoisted, stmts, code>>
staticVars == <<clearDeclaredVars, clearIndex>>
vmVars == <<ip, inDeclaration, vmClearIndex, regs>>
ghosts == <<features, before, executed>>
vars == <<phase, compilerVars, staticVars, vmVars, ghosts>>

Init ==
  /\ features \in FeatureSets
  /\ phase = "idle"
  /\ varLocations = [n \in Names |-> None]
  /\ nextReg = 1
  /\ declaredVars = <<>>
  /\ clearDeclaredVars = FALSE /\ clearIndex = 0
  /\ hitError = FALSE
  /\ hoisted = <<>>
  /\ stmts = 0
  /\ code = <<>> /\ ip = 1
  /\ inDeclaration = FALSE /\ vmClearIndex = 0
  /\ regs = [r \in Regs |-> IF r = 0 THEN Builtin ELSE Temp]
  /\ before = {} /\ executed = {}

Known(table) == {n \in Names : table[n] # None}

-----------------------------------------------------------------------------
(* Bytecode.                                                               *)

DefStart(i) == [op |-> "DEF_START", index |-> i]
DefEnd == [op |-> "DEF_END"]

(* A value is loaded into the register of n: nothing can fail.             *)
Load(r, n) == [op |-> "LOAD", reg |-> r, name |-> n]

(* Expressions are evaluated into the registers temps, and the variables   *)
(* of home (a function from names to registers) get their values.  Code    *)
(* that they call or contain may start declarations with an index in inner.*)
(* fresh are the names that this declares for the first time.              *)
Eval(temps, home, inner, fresh) ==
  [op |-> "EVAL", temps |-> temps, home |-> home, inner |-> inner, fresh |-> fresh]

(* OP_MODULE, followed by OP_GET_ENTRY if entry.                           *)
Import(temps, home, entry) ==
  [op |-> "MODULE", temps |-> temps, home |-> home, inner |-> {}, fresh |-> DOMAIN home,
   entry |-> entry]

NoVariable == [n \in {} |-> 0]

(* Variants: a declaration starts at 0, or one too early.                  *)
IndexFirst == 0
IndexOfLast == Len(declaredVars) - 1

(* startDeclaration: where the roll-back of this declaration begins.       *)
Index == Len(declaredVars)

-----------------------------------------------------------------------------
(* The start of a line.                                                    *)

(* The table as clearDeclarations leaves it.                               *)
Cleared ==
  [n \in Names |->
     IF clearDeclaredVars /\ \E i \in clearIndex + 1 .. Len(declaredVars) : declaredVars[i].name = n
     THEN None ELSE varLocations[n]]

(* The assertion of clearDeclarations, which release builds do not make:   *)
(* the compiler takes back something that it has declared.                 *)
ClearIndexInRange == clearDeclaredVars => clearIndex < Len(declaredVars)

(* A variant: nextReg goes back to where the line began.                   *)
ClearedNextRegFirst ==
  IF ~clearDeclaredVars THEN {nextReg}
  ELSE IF clearIndex < Len(declaredVars) THEN {declaredVars[1].reg}
  ELSE Regs

(* nextReg as clearDeclarations leaves it.  Out of range, the register is  *)
(* read from memory past the end of declaredVars.                          *)
ClearedNextReg ==
  IF ~clearDeclaredVars THEN {nextReg}
  ELSE IF clearIndex < Len(declaredVars) THEN {declaredVars[clearIndex + 1].reg}
  ELSE Regs

(* The entries that defVar adds for the closed functions fns, from r on.   *)
HoistEntries(fns, r) == [i \in DOMAIN fns |-> [name |-> fns[i], reg |-> r + i - 1]]

(* A variant: declaredVars is not emptied.                                 *)
LineEntriesKept(fns, r) == declaredVars \o HoistEntries(fns, r)

(* declaredVars after clearDeclarations and the first loop of              *)
(* hoistClosedFunctions.                                                   *)
LineEntries(fns, r) == HoistEntries(fns, r)

(* compile() up to the first statement: the roll-back of the line before,  *)
(* and the declaration of the closed functions fns, each of which may take *)
(* a second register.  parseError is the hitError that the parser hands on.*)
StartLine(parseError, fns) ==
  /\ phase = "idle"
  /\ fns # <<>> => "hoist" \in features
  /\ "redeclare" \in features \/ \A i \in DOMAIN fns : Cleared[fns[i]] = None
  /\ \E r \in ClearedNextReg :
       /\ r + 2 * Len(fns) < NumRegs
       /\ varLocations' = [n \in Names |->
            IF n \in ToSet(fns) THEN r + Max({i \in DOMAIN fns : fns[i] = n}) - 1
            ELSE Cleared[n]]
       /\ nextReg' = r + Len(fns)
       /\ declaredVars' = LineEntries(fns, r)
  /\ clearDeclaredVars' = FALSE
  /\ clearIndex' = 0
  /\ hitError' = parseError
  /\ hoisted' = fns
  /\ stmts' = 0
  /\ code' = <<>>
  /\ phase' = "compiling"
  /\ before' = Known(Cleared)
  /\ executed' = executed \cap Known(Cleared)
  /\ UNCHANGED <<features, vmVars>>

(* The read past the end of declaredVars may also end the program.         *)
StartLineCrash ==
  /\ phase = "idle"
  /\ ~ClearIndexInRange
  /\ phase' = "crashed"
  /\ UNCHANGED <<compilerVars, staticVars, vmVars, ghosts>>

-----------------------------------------------------------------------------
(* Statements.                                                             *)

(* Room for one more statement that takes k registers.                     *)
Compiling(k) ==
  /\ phase = "compiling"
  /\ hoisted = <<>>
  /\ stmts < MaxStmts
  /\ nextReg + k < NumRegs
  /\ stmts' = stmts + 1
  /\ UNCHANGED <<phase, hoisted, staticVars, vmVars, ghosts>>

MayDeclare(n) == "redeclare" \in features \/ varLocations[n] = None

(* defVar of a global: the new entry shadows whatever n stood for.         *)
DefVar(n, r) ==
  /\ varLocations' = [varLocations EXCEPT ![n] = r]
  /\ declaredVars' = Append(declaredVars, [name |-> n, reg |-> r])

(* One or two names after make: the i-th is new unless it is declared, or  *)
(* repeated.                                                               *)
IsNew(ns, i) ==
  /\ i \in DOMAIN ns
  /\ varLocations[ns[i]] = None
  /\ \A j \in 1 .. i - 1 : ns[j] # ns[i]

NewEntry(ns, i) ==
  IF IsNew(ns, i) THEN <<[name |-> ns[i], reg |-> nextReg + i - 1]>> ELSE <<>>

NewNames(ns) == {ns[i] : i \in {j \in DOMAIN ns : IsNew(ns, j)}}

(* The registers of the names, of which one that is declared keeps its own.*)
Home(ns) ==
  [n \in ToSet(ns) |->
     IF n \in NewNames(ns)
     THEN nextReg + (CHOOSE i \in DOMAIN ns : IsNew(ns, i) /\ ns[i] = n) - 1
     ELSE varLocations[n]]

Spare(ns) == {nextReg + i - 1 : i \in {j \in DOMAIN ns : ~IsNew(ns, j)}}

(* make ns = values, or make ns without values when init is FALSE.         *)
VarDecl(ns, init) ==
  /\ Compiling(Len(ns))
  /\ \A n \in ToSet(ns) : MayDeclare(n)
  /\ init => ~hitError
  /\ varLocations' = [n \in Names |-> IF n \in NewNames(ns) THEN Home(ns)[n] ELSE varLocations[n]]
  /\ declaredVars' = declaredVars \o NewEntry(ns, 1) \o NewEntry(ns, 2)
  /\ nextReg' = nextReg + Len(ns)
  /\ code' = code \o <<DefStart(Index)>>
                  \o (IF init THEN <<Eval(Spare(ns), Home(ns), {0}, NewNames(ns))>>
                      ELSE [i \in DOMAIN ns |-> Load(Home(ns)[ns[i]], ns[i])])
                  \o <<DefEnd>>
  /\ UNCHANGED hitError

(* How far a failed expression leaves nextReg from where it began.         *)
Slips == {0, 1} \cup (IF "slip" \in features THEN {-1} ELSE {})

(* make with an initialiser that does not compile, or after an error: no   *)
(* variable is defined, and nextReg stays where the expression left it.    *)
VarDeclError(k) ==
  /\ Compiling(1)
  /\ nextReg + k >= 0
  /\ code' = code \o <<DefStart(Index), DefEnd>>
  /\ hitError' = TRUE
  /\ nextReg' = nextReg + k
  /\ UNCHANGED <<varLocations, declaredVars>>

(* func n, with a body that compiles or not.  The first error of a line,   *)
(* when it is in a function's body, takes the function's declaration back. *)
CompileFunc(n, ok) ==
  LET known == varLocations[n] # None
      slot == IF known THEN varLocations[n] ELSE nextReg
      declared == IF known THEN declaredVars ELSE Append(declaredVars, [name |-> n, reg |-> slot])
      undo == ~hitError /\ ~ok
  IN
  /\ nextReg' = IF known THEN nextReg ELSE nextReg + 1
  /\ code' = code \o <<DefStart(Index), Load(slot, n), DefEnd>>
  /\ hitError' = (hitError \/ ~ok)
  /\ undo => declared # <<>>
  /\ varLocations' = [varLocations EXCEPT ![n] = IF undo THEN None ELSE slot]
  /\ declaredVars' = IF undo THEN Front(declared) ELSE declared

FuncDecl(n, ok) ==
  /\ Compiling(1)
  /\ MayDeclare(n)
  /\ CompileFunc(n, ok)

(* The second loop of hoistClosedFunctions: they are declared by now.      *)
HoistedFuncDecl(ok) ==
  /\ phase = "compiling"
  /\ hoisted # <<>>
  /\ CompileFunc(Head(hoisted), ok)
  /\ hoisted' = Tail(hoisted)
  /\ UNCHANGED <<phase, stmts, staticVars, vmVars, ghosts>>

(* removeVar of a function declared by an earlier line: pop_back on the    *)
(* empty declaredVars.                                                     *)
FuncDeclCrash(n) ==
  /\ phase = "compiling"
  /\ hoisted = <<>>
  /\ stmts < MaxStmts
  /\ MayDeclare(n)
  /\ varLocations[n] # None
  /\ declaredVars = <<>>
  /\ ~hitError
  /\ phase' = "crashed"
  /\ UNCHANGED <<compilerVars, staticVars, vmVars, ghosts>>

(* type n: always a new register, and no declaration for the VM to note.   *)
TypeDecl(n, ok) ==
  /\ Compiling(1)
  /\ MayDeclare(n)
  /\ DefVar(n, nextReg)
  /\ nextReg' = nextReg + 1
  /\ code' = Append(code, Load(nextReg, n))
  /\ hitError' = (hitError \/ ~ok)

(* use n: the module, with its directory in the register after it.         *)
UseModule(n) ==
  /\ Compiling(1)
  /\ MayDeclare(n)
  /\ DefVar(n, nextReg)
  /\ nextReg' = nextReg + 1
  /\ code' = code \o <<DefStart(Index),
               Import({nextReg + 1}, [m \in {n} |-> nextReg], FALSE), DefEnd>>
  /\ UNCHANGED hitError

(* use n from a module, which keeps a register itself.                     *)
UseModuleEntry(n) ==
  /\ Compiling(2)
  /\ MayDeclare(n)
  /\ DefVar(n, nextReg + 1)
  /\ nextReg' = nextReg + 2
  /\ code' = code \o <<DefStart(Index),
               Import({nextReg}, [m \in {n} |-> nextReg + 1], TRUE), DefEnd>>
  /\ UNCHANGED hitError

(* A statement that declares nothing in the global scope.  A block in it   *)
(* starts its own declarations with the index of this point of the line.   *)
ExprStmt ==
  /\ "exprs" \in features
  /\ Compiling(1)
  /\ code' = Append(code, Eval({nextReg}, NoVariable, {0, Index}, {}))
  /\ UNCHANGED <<varLocations, nextReg, declaredVars, hitError>>

(* One that does not compile: nextReg is restored for an expression, and   *)
(* freed once too often after the condition of an if or a while.           *)
StmtError(k) ==
  /\ Compiling(0)
  /\ k \in Slips \cap {0, -1}
  /\ nextReg + k >= 0
  /\ hitError' = TRUE
  /\ nextReg' = nextReg + k
  /\ UNCHANGED <<varLocations, declaredVars, code>>

(* A variant: the line is not marked for its roll-back.                    *)
RejectForgets == clearDeclaredVars

(* Of a line with an error, everything is taken back (clearIndex is 0).    *)
Reject == clearDeclaredVars \/ declaredVars # <<>>

(* The end of compile().                                                   *)
FinishCompile ==
  /\ phase = "compiling"
  /\ hoisted = <<>>
  /\ IF hitError
     THEN /\ phase' = "idle"
          /\ code' = <<>>
          /\ clearDeclaredVars' = Reject
     ELSE /\ phase' = "running"
          /\ UNCHANGED <<code, clearDeclaredVars>>
  /\ ip' = 1
  /\ UNCHANGED <<varLocations, nextReg, declaredVars, hitError, hoisted, stmts, clearIndex,
                 inDeclaration, vmClearIndex, regs, ghosts>>

-----------------------------------------------------------------------------
(* The VM.                                                                 *)

Fetch(op) ==
  /\ phase = "running"
  /\ ip \in DOMAIN code
  /\ code[ip].op \in op

Advance ==
  /\ ip' = ip + 1
  /\ UNCHANGED <<phase, compilerVars, staticVars, features, before>>

RunDefStart ==
  /\ Fetch({"DEF_START"})
  /\ inDeclaration' = TRUE
  /\ vmClearIndex' = code[ip].index
  /\ Advance
  /\ UNCHANGED <<regs, executed>>

RunDefEnd ==
  /\ Fetch({"DEF_END"})
  /\ inDeclaration' = FALSE
  /\ Advance
  /\ UNCHANGED <<vmClearIndex, regs, executed>>

RunLoad ==
  /\ Fetch({"LOAD"})
  /\ regs' = [regs EXCEPT ![code[ip].reg] = code[ip].name]
  /\ executed' = executed \cup {code[ip].name}
  /\ Advance
  /\ UNCHANGED <<inDeclaration, vmClearIndex>>

Nested == IF "nested" \in features THEN code[ip].inner ELSE {}

(* The values arrive in their registers.                                   *)
Store ==
  LET home == code[ip].home IN
  /\ regs' = [r \in Regs |->
       IF \E n \in DOMAIN home : home[n] = r THEN CHOOSE n \in DOMAIN home : home[n] = r
       ELSE IF r \in code[ip].temps THEN Temp ELSE regs[r]]
  /\ executed' = executed \cup DOMAIN home

(* No value arrives.                                                       *)
StoreNothing ==
  regs' = [r \in Regs |->
    IF r \in code[ip].temps \cup {code[ip].home[n] : n \in code[ip].fresh} THEN Temp ELSE regs[r]]

(* Declarations inside the code that is run leave the note of the last one *)
(* behind, and OP_DEF_END ends the outer declaration with the inner one.   *)
RunEval ==
  /\ Fetch({"EVAL"})
  /\ Store
  /\ \/ UNCHANGED <<inDeclaration, vmClearIndex>>
     \/ \E i \in Nested : inDeclaration' = FALSE /\ vmClearIndex' = i
  /\ Advance

(* A variant: the note of the declaration survives.                        *)
ErrorResetForgets(open, i) ==
  /\ clearDeclaredVars' = (clearDeclaredVars \/ open)
  /\ clearIndex' = IF open THEN i ELSE clearIndex
  /\ inDeclaration' = open
  /\ vmClearIndex' = i

(* errorReset, in a declaration with index i if open.                      *)
ErrorReset(open, i) ==
  /\ clearDeclaredVars' = (clearDeclaredVars \/ open)
  /\ clearIndex' = IF open THEN i ELSE clearIndex
  /\ inDeclaration' = FALSE
  /\ vmClearIndex' = IF open THEN 0 ELSE i

(* A RuntimeError: from the outer declaration, inside a nested one or after*)
(* the end of one.                                                         *)
RunEvalError ==
  /\ Fetch({"EVAL", "MODULE"})
  /\ StoreNothing
  /\ \/ ErrorReset(inDeclaration, vmClearIndex)
     \/ \E open \in BOOLEAN, i \in Nested : ErrorReset(open, i)
  /\ phase' = "idle"
  /\ UNCHANGED <<compilerVars, ip, ghosts>>

(* OP_MODULE: the module is in the cache, or it is compiled, by a compiler *)
(* of its own that does the roll-back it finds due in the static fields.   *)
RunImport(compiled) ==
  /\ Fetch({"MODULE"})
  /\ Store
  /\ IF compiled
     THEN clearDeclaredVars' = FALSE /\ clearIndex' = 0
     ELSE UNCHANGED staticVars
  /\ ip' = ip + 1
  /\ UNCHANGED <<phase, compilerVars, inDeclaration, vmClearIndex, features, before>>

(* That compiler has no declaredVars: it reads past their end.             *)
RunImportCrash ==
  /\ Fetch({"MODULE"})
  /\ clearDeclaredVars
  /\ phase' = "crashed"
  /\ UNCHANGED <<compilerVars, staticVars, vmVars, ghosts>>

(* The import of a module that fails is rolled back as after an error, but *)
(* throws none: the line goes on, if it needs no entry of the module.      *)
RunImportFails ==
  /\ "imports" \in features
  /\ Fetch({"MODULE"})
  /\ StoreNothing
  /\ ErrorReset(inDeclaration, vmClearIndex)
  /\ IF code[ip].entry
     THEN phase' = "idle" /\ UNCHANGED ip
     ELSE ip' = ip + 1 /\ UNCHANGED phase
  /\ UNCHANGED <<compilerVars, ghosts>>

(* OP_HALT.                                                                *)
Halt ==
  /\ phase = "running"
  /\ ip > Len(code)
  /\ phase' = "idle"
  /\ UNCHANGED <<compilerVars, staticVars, vmVars, ghosts>>

(* After the end of the program another one begins, like the first.        *)
Restart ==
  /\ phase = "crashed"
  /\ UNCHANGED features
  /\ phase' = "idle"
  /\ varLocations' = [n \in Names |-> None] /\ nextReg' = 1
  /\ declaredVars' = <<>> /\ hoisted' = <<>>
  /\ clearDeclaredVars' = FALSE /\ clearIndex' = 0
  /\ hitError' = FALSE
  /\ stmts' = 0 /\ code' = <<>> /\ ip' = 1
  /\ inDeclaration' = FALSE /\ vmClearIndex' = 0
  /\ regs' = [r \in Regs |-> IF r = 0 THEN Builtin ELSE Temp]
  /\ before' = {} /\ executed' = {}

-----------------------------------------------------------------------------
Next ==
  \/ \E parseError \in BOOLEAN, fns \in {<<>>} \cup {<<n>> : n \in Names} \cup (Names \X Names) :
       StartLine(parseError, fns)
  \/ StartLineCrash
  \/ \E ns \in {<<n>> : n \in Names} \cup (Names \X Names), init \in BOOLEAN : VarDecl(ns, init)
  \/ \E n \in Names : UseModule(n) \/ UseModuleEntry(n) \/ FuncDeclCrash(n)
  \/ \E n \in Names, ok \in BOOLEAN : FuncDecl(n, ok) \/ TypeDecl(n, ok)
  \/ \E ok \in BOOLEAN : HoistedFuncDecl(ok)
  \/ \E k \in Slips : VarDeclError(k) \/ StmtError(k)
  \/ ExprStmt
  \/ FinishCompile
  \/ RunDefStart \/ RunDefEnd \/ RunLoad \/ RunEval \/ RunEvalError
  \/ \E compiled \in BOOLEAN : RunImport(compiled)
  \/ RunImportCrash \/ RunImportFails
  \/ Halt \/ Restart

Spec == Init /\ [][Next]_vars
-----------------------------------------------------------------------------
(* Properties.                                                             *)

Entry == [name : Names, reg : Regs]
Content == Names \cup {Temp, Builtin}

(* The state has its type.                                                 *)
TypeOK ==
  /\ features \in FeatureSets
  /\ phase \in {"idle", "compiling", "running", "crashed"}
  /\ varLocations \in [Names -> Regs \cup {None}]
  /\ nextReg \in Regs
  /\ declaredVars \in Seq(Entry)
  /\ clearDeclaredVars \in BOOLEAN /\ clearIndex \in Nat
  /\ hitError \in BOOLEAN
  /\ hoisted \in Seq(Names)
  /\ stmts \in 0 .. MaxStmts
  /\ ip \in 1 .. Len(code) + 1 \/ phase # "running"
  /\ inDeclaration \in BOOLEAN /\ vmClearIndex \in Nat
  /\ regs \in [Regs -> Content]
  /\ before \subseteq Names /\ executed \subseteq Names

(* What can go wrong, goes wrong in one place at a time: names are new,    *)
(* functions plain, and only initialisers fail, by themselves.             *)
Plain == features = {}

(* Once the roll-back of the last line is done, the compiler knows exactly *)
(* the variables whose declarations the VM has executed: a name that was   *)
(* declared can be used, and one whose initialiser failed is undefined.    *)
KnownIffExecuted ==
  phase = "idle" /\ features \subseteq {"slip"} => Known(Cleared) = executed

(* At the prompt, the register of every variable that can be named holds   *)
(* what its declaration put there and is not one that the next declaration *)
(* takes, and the builtins have theirs.                                    *)
AlwaysIntact ==
  phase = "idle" =>
    /\ regs[0] = Builtin
    /\ \A n \in Known(Cleared) : /\ regs[Cleared[n]] = n
                                 /\ \A r \in ClearedNextReg : Cleared[n] < r

(* So it is in sessions where what goes wrong is caught where it should be.*)
VariablesIntact == Plain => AlwaysIntact

(* Whatever fails in a line, in any way, the variables of earlier lines    *)
(* stay declared: new names and closed functions replace none of them.     *)
EarlierLinesKept ==
  phase = "idle" /\ "redeclare" \notin features => before \subseteq Known(Cleared)

(* A line that does not compile leaves no variable behind and takes none   *)
(* away, whatever else went wrong in the session, unless it redeclares     *)
(* names or declares closed functions.                                     *)
RejectedLineUndone ==
  phase = "idle" /\ hitError /\ {"redeclare", "hoist"} \cap features = {}
    => Known(Cleared) = before

(* The VM is in a declaration only while a line runs: a note that outlived *)
(* its line would roll a later line back from the wrong place.             *)
NoStaleDeclaration ==
  phase \in {"idle", "compiling"} => ~inDeclaration
=============================================================================
