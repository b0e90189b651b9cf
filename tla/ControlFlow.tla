---------------------------- MODULE ControlFlow ----------------------------
(***************************************************************************)
(* How a line with control structures is parsed, compiled and run.         *)
(*                                                                         *)
(* The parser (src/parser.cpp) keeps flags while it descends, one of which *)
(* it keeps from line to line; the compiler (src/compiler.cpp) turns the   *)
(* tree into code in one pass, with jumps that are emitted empty and       *)
(* patched later; the VM (src/vm.cpp) runs the code.  Conditions have      *)
(* arbitrary outcomes.  `rest' is a history variable: what is left of the  *)
(* program as StructuredPrograms defines it.                               *)
(*                                                                         *)
(* Every instruction takes one place in the code, so distances are counted *)
(* in instructions.                                                        *)
(***************************************************************************)
EXTENDS StructuredPrograms, Integers, FiniteSets, TLC

CONSTANT Programs   \* the lines that a user may enter

VARIABLES
    fallthrough,    \* the parser's flag of that name
    labels,         \* breakLabels, continueLabels: from a label to its jumps
    phase,          \* what the interpreter is doing
    line,           \* the line being run
    code,           \* its instructions
    pc,             \* the next instruction
    result,         \* the register a test was last written to, and its outcome
    rest            \* what is left of the program (history)

vars == <<fallthrough, labels, phase, line, code, pc, result, rest>>

-----------------------------------------------------------------------------
(***************************************************************************)
(* The parser.  `p' is its state: the flags, whether the line has been     *)
(* accepted so far, whether the next token is `is' or a closing brace, and *)
(* the tree of what was parsed last.                                       *)
(***************************************************************************)

Refuse(p) == [p EXCEPT !.ok = FALSE, !.tree = Nothing]

\* breakStmt, continueStmt
ParseJump(s, p) == IF p.inLoop THEN [p EXCEPT !.tree = s] ELSE Refuse(p)

\* statement(), `fallthrough'
ParseFallthrough(p) ==
    IF p.inMatch /\ p.closes THEN [p EXCEPT !.fallthrough = TRUE, !.tree = Nothing]
    ELSE Refuse(p)

\* statement(), `end'
ParseEnd(p) == IF p.inMatch THEN [p EXCEPT !.tree = End] ELSE Refuse(p)

\* A variant: the flag is left for the next case.
TakeFallthroughKeep(p) == p

\* The case that was just parsed takes the flag, and puts it down.
TakeFallthrough(p) == [p EXCEPT !.fallthrough = FALSE]

RECURSIVE ParseStmt(_, _), ParseBlock(_, _, _), ParseCases(_, _, _)

\* blockStmt: the statements from the i-th
ParseBlock(body, i, p) ==
    IF i > Len(body) THEN [p EXCEPT !.tree = Block(<<>>)]
    ELSE LET p1 == ParseStmt(body[i], [p EXCEPT !.closes = i = Len(body)])
             p2 == ParseBlock(body, i + 1, p1)
         IN [p2 EXCEPT !.tree.body = <<p1.tree>> \o @]

\* A variant: inLoop is cleared after the body, not put back.
ParseBodyClears(body, else, p) ==
    LET p1 == ParseStmt(body, [p EXCEPT !.inLoop = TRUE, !.closes = @ /\ else = Nothing])
    IN [p1 EXCEPT !.inLoop = FALSE, !.closes = p.closes]

\* The body of a loop; inLoop is put back after it.
ParseBody(body, else, p) ==
    LET p1 == ParseStmt(body, [p EXCEPT !.inLoop = TRUE, !.closes = @ /\ else = Nothing])
    IN [p1 EXCEPT !.inLoop = p.inLoop, !.closes = p.closes]

\* whileStmt, forStmt
ParseLoop(s, p) ==
    LET p1 == ParseBody(s.body, s.else, p)
        p2 == ParseStmt(s.else, p1)
    IN [p2 EXCEPT !.tree = [s EXCEPT !.body = p1.tree, !.else = p2.tree]]

\* repeatStmt
ParseRepeat(s, p) ==
    LET p1 == ParseBody(s.body, Nothing, p)
    IN [p1 EXCEPT !.tree = [s EXCEPT !.body = p1.tree]]

\* ifStmt
ParseIf(s, p) ==
    LET p1 == ParseStmt(s.yes, [p EXCEPT !.closes = @ /\ s.no = Nothing])
        p2 == ParseStmt(s.no, [p1 EXCEPT !.closes = p.closes])
    IN [p2 EXCEPT !.tree = [s EXCEPT !.yes = p1.tree, !.no = p2.tree]]

\* matchStmt: the cases from the i-th.  A case after the default is refused
\* before the default takes the flag.
ParseCases(cases, i, p) ==
    IF i > Len(cases) THEN [p EXCEPT !.tree = Match(0, <<>>)]
    ELSE LET p1 == [ParseStmt(cases[i].body, [p EXCEPT !.inMatch = TRUE, !.closes = TRUE])
                    EXCEPT !.inMatch = p.inMatch]
             case == [cases[i] EXCEPT !.body = p1.tree, !.falls = p1.fallthrough]
         IN IF cases[i].default /\ i < Len(cases) THEN Refuse(p1)
            ELSE LET p2 == ParseCases(cases, i + 1, TakeFallthrough(p1))
                 IN IF p2.tree = Nothing THEN p2
                    ELSE [p2 EXCEPT !.tree.cases = <<case>> \o @]

ParseMatch(s, p) ==
    LET p1 == ParseCases(s.cases, 1, p)
    IN [p1 EXCEPT !.tree = IF @ = Nothing THEN Nothing ELSE [@ EXCEPT !.id = s.id],
                  !.closes = p.closes]

\* lambdaBodyHelper: the flags of the code around are those of the body
ParseLambda(s, p) ==
    LET p1 == ParseStmt(s.body, p) IN [p1 EXCEPT !.tree = Lambda(p1.tree)]

ParseStmt(s, p) ==
    CASE s.kind = "nothing" -> [p EXCEPT !.tree = Nothing]
      [] s.kind = "plain" -> [p EXCEPT !.tree = s]
      [] s.kind = "block" -> ParseBlock(s.body, 1, p)
      [] s.kind = "if" -> ParseIf(s, p)
      [] s.kind \in {"while", "for"} -> ParseLoop(s, p)
      [] s.kind = "repeat" -> ParseRepeat(s, p)
      [] s.kind = "match" -> ParseMatch(s, p)
      [] s.kind = "lambda" -> ParseLambda(s, p)
      [] s.kind \in {"break", "continue"} -> ParseJump(s, p)
      [] s.kind = "end" -> ParseEnd(p)
      [] s.kind = "fallthrough" -> ParseFallthrough(p)

\* parseToAST; `flag' is the one the previous lines left
Parse(program, flag) ==
    ParseStmt(program, [inLoop |-> FALSE, inMatch |-> FALSE, fallthrough |-> flag,
                        ok |-> TRUE, closes |-> FALSE, tree |-> Nothing])

-----------------------------------------------------------------------------
(***************************************************************************)
(* The compiler.  `c' is its state: the code so far, the sets of jumps     *)
(* that breakJumps, continueJumps and endJumps point to, `lists' naming    *)
(* which of these pointers are not null, the label tables, the next free   *)
(* register, and whether an error was reported or a null pointer used.     *)
(* A jump is named by its place in the code.                               *)
(***************************************************************************)

Size(c) == Len(c.code)
Emit(instruction, c) == [c EXCEPT !.code = Append(@, instruction)]
AddJump(op, reg, c) == Emit([op |-> op, reg |-> reg, by |-> 0], c)

\* patchJump: from behind the jump to the end of the code
Distance(jump, c) == Size(c) - jump

PatchAll(jumps, c) ==
    [c EXCEPT !.code = [i \in DOMAIN @ |->
        IF i \in jumps THEN [@[i] EXCEPT !.by = Distance(i, c)] ELSE @[i]]]

\* addLoop, OP_UPDATE_ITER: back over everything since `start', and itself
Back(start, c) == Size(c) - start + 1

ReserveReg(c) == [c EXCEPT !.nextReg = @ + 1]

\* A variant: the registers of an operator's two operands are freed.
FreeRegTwice(c) == [c EXCEPT !.nextReg = @ - 2]

FreeReg(c) == [c EXCEPT !.nextReg = @ - 1]

PushScope(c) == Emit([op |-> "ENTER_SCOPE"], [c EXCEPT !.scopeStart = c.nextReg])

\* A variant: the registers of the scope stay taken.
PopScopeKeeps(c) == Emit([op |-> "EXIT_SCOPE"], c)

\* The registers since the start of the scope that was entered last are free.
PopScope(c) == Emit([op |-> "EXIT_SCOPE"], [c EXCEPT !.nextReg = c.scopeStart])

\* A variant: the second operand goes to the next register.
ReuseNot(reg, c) == c

\* The second operand of a condition goes where the first one was.
Reuse(reg, c) == [c EXCEPT !.nextReg = reg]

\* LogicExpr, IfExpr; any other condition is one instruction
RECURSIVE CompileExpr(_, _)
CompileExpr(e, c) ==
    LET reg == c.nextReg IN
    CASE e.kind = "test" -> ReserveReg(Emit([op |-> "TEST", id |-> e.id, reg |-> reg], c))
      [] e.kind \in {"and", "or"} ->
            LET op == IF e.kind = "and" THEN "JUMP_FALSE" ELSE "JUMP_TRUE"
                left == AddJump(op, reg, CompileExpr(e.left, c))
                right == CompileExpr(e.right, Reuse(reg, left))
            IN PatchAll({Size(left)}, right)
      [] e.kind = "choose" ->
            LET cond == AddJump("JUMP_FALSE", reg, CompileExpr(e.cond, c))
                yes == AddJump("JUMP", 0, CompileExpr(e.yes, FreeReg(cond)))
                no == CompileExpr(e.no, Reuse(reg, PatchAll({Size(cond)}, yes)))
            IN PatchAll({Size(yes)}, no)

\* A condition and the jump on its outcome; the jump is the last instruction.
JumpOn(op, e, c) == FreeReg(AddJump(op, c.nextReg, CompileExpr(e, c)))

\* What every loop does first: new lists, and its label in the tables.
StartLoop(label, c) ==
    LET c1 == [c EXCEPT !.breaks = {}, !.continues = {}, !.lists = @ \union {"loop"}]
    IN IF label = NoLabel THEN c1
       ELSE [c1 EXCEPT !.labels.breaks = (label :> {}) @@ @,
                       !.labels.continues = (label :> {}) @@ @]

\* The lists of the code around a loop come back after it.
FinishLoop(outer, c) ==
    [c EXCEPT !.breaks = outer.breaks, !.continues = outer.continues, !.lists = outer.lists]

Crash(c) == [c EXCEPT !.crashed = TRUE]

\* patchLoopLabelJumps, for the continues and for the breaks
PatchContinues(label, c) ==
    LET c1 == PatchAll(c.continues, c) IN
    IF label = NoLabel THEN c1
    ELSE IF label \notin DOMAIN c.labels.continues THEN Crash(c)
    ELSE PatchAll(c.labels.continues[label], c1)

\* A variant: only the breaks' table forgets the label.
RemoveLabelOnce(label, c) == [c EXCEPT !.labels.breaks = Restrict(@, DOMAIN @ \ {label})]

RemoveLabel(label, c) ==
    [c EXCEPT !.labels.breaks = Restrict(@, DOMAIN @ \ {label}),
              !.labels.continues = Restrict(@, DOMAIN @ \ {label})]

PatchBreaks(label, c) ==
    LET c1 == PatchAll(c.breaks, c) IN
    IF label = NoLabel THEN c1
    ELSE IF label \notin DOMAIN c.labels.breaks THEN Crash(c)
    ELSE RemoveLabel(label, PatchAll(c.labels.breaks[label], c1))

RECURSIVE CompileStmt(_, _), CompileCases(_, _, _, _)

\* IfStmt
CompileIf(s, c) ==
    LET test == JumpOn("JUMP_FALSE", s.cond, c)
        yes == CompileStmt(s.yes, test)
        else == AddJump("JUMP", 0, yes)
        no == CompileStmt(s.no, PatchAll({Size(test)}, else))
    IN IF s.no = Nothing THEN PatchAll({Size(test)}, yes) ELSE PatchAll({Size(else)}, no)

\* WhileStmt
CompileWhile(s, c) ==
    LET test == JumpOn("JUMP_FALSE", s.cond, StartLoop(s.label, c))
        body == PatchContinues(s.label, CompileStmt(s.body, test))
        loop == Emit([op |-> "LOOP", by |-> Back(Size(c), body)], body)
        else == CompileStmt(s.else, PatchAll({Size(test)}, loop))
    IN FinishLoop(c, PatchBreaks(s.label, else))

\* RepeatStmt
CompileRepeat(s, c) ==
    LET body == PatchContinues(s.label, CompileStmt(s.body, StartLoop(s.label, c)))
        test == JumpOn("JUMP_TRUE", s.cond, body)
        loop == Emit([op |-> "LOOP", by |-> Back(Size(c), test)], test)
    IN FinishLoop(c, PatchBreaks(s.label, PatchAll({Size(test)}, loop)))

\* ForStmt, forLoopHelper: the loop variable and the iterator take a register each
CompileFor(s, c) ==
    LET start == ReserveReg(ReserveReg(StartLoop(s.label, PushScope(c))))
        iter == AddJump("JUMP", 0, Emit([op |-> "MAKE_ITER", id |-> s.id], start))
        where == IF s.where = Always THEN iter ELSE JumpOn("JUMP_FALSE", s.where, iter)
        body == CompileStmt(s.body, where)
        next == PatchContinues(s.label,
                    IF s.where = Always THEN body ELSE PatchAll({Size(where)}, body))
        update == Emit([op |-> "UPDATE_ITER", id |-> s.id, by |-> Back(Size(iter), next)], next)
        else == CompileStmt(s.else, PatchAll({Size(iter)}, update))
    IN PopScope(FinishLoop(c, PatchBreaks(s.label, else)))

\* A variant: only the case's own `fallthrough' counts.
LeavesAlone(case, fall) ==
    IF case.falls THEN "fall" ELSE IF case.body = Nothing THEN "empty" ELSE "end"

\* matchCaseHelper: how a case is left.  Once a case has fallen through (there
\* is a jump in `fall'), all later ones do.
Leaves(case, fall) ==
    IF case.falls \/ fall # {} THEN "fall" ELSE IF case.body = Nothing THEN "empty" ELSE "end"

\* MatchStmt: the cases; `fall' and `empty' are the jumps that lead to the body
\* of the next.
CompileCases(cases, fall, empty, c) ==
    IF cases = <<>> THEN c
    ELSE IF Head(cases).default
    THEN CompileCases(Tail(cases), fall, empty, CompileStmt(Head(cases).body, c))
    ELSE LET case == Head(cases)
             test == JumpOn("JUMP_FALSE", case.cond, c)
             body == CompileStmt(case.body, PatchAll(fall \union empty, test))
             exit == AddJump("JUMP", 0, body)
             leaves == Leaves(case, fall)
             next == IF leaves = "end" THEN [exit EXCEPT !.ends = @ \union {Size(exit)}]
                     ELSE exit
         IN CompileCases(Tail(cases),
                IF leaves = "fall" THEN {Size(exit)} ELSE fall,
                IF leaves = "empty" THEN {Size(exit)} ELSE {},
                PatchAll({Size(test)}, next))

\* The matched value stays in its register while the cases are compared.
CompileMatch(s, c) ==
    LET value == ReserveReg(Emit([op |-> "PLAIN", id |-> s.id],
                     [c EXCEPT !.ends = {}, !.lists = @ \union {"match"}]))
        cases == CompileCases(s.cases, {}, {}, value)
        done == FreeReg(PatchAll(cases.ends, cases))
    IN [done EXCEPT !.ends = c.ends, !.lists = c.lists]

\* BreakStmt; the null pointer of a function's own compiler is used
CompileBreak(s, c) ==
    LET c1 == AddJump("JUMP", 0, c) IN
    IF s.label = NoLabel
    THEN IF "loop" \in c.lists THEN [c1 EXCEPT !.breaks = @ \union {Size(c1)}] ELSE Crash(c)
    ELSE IF s.label \in DOMAIN c.labels.breaks
    THEN [c1 EXCEPT !.labels.breaks[s.label] = @ \union {Size(c1)}]
    ELSE [c EXCEPT !.error = TRUE]

\* ContinueStmt
CompileContinue(s, c) ==
    LET c1 == AddJump("JUMP", 0, c) IN
    IF s.label = NoLabel
    THEN IF "loop" \in c.lists THEN [c1 EXCEPT !.continues = @ \union {Size(c1)}] ELSE Crash(c)
    ELSE IF s.label \in DOMAIN c.labels.continues
    THEN [c1 EXCEPT !.labels.continues[s.label] = @ \union {Size(c1)}]
    ELSE [c EXCEPT !.error = TRUE]

\* EndStmt
CompileEnd(c) ==
    LET c1 == AddJump("JUMP", 0, c) IN
    IF "match" \in c.lists THEN [c1 EXCEPT !.ends = @ \union {Size(c1)}] ELSE Crash(c)

NoLabels == [breaks |-> <<>>, continues |-> <<>>]

Compiler(tables) ==
    [code |-> <<>>, breaks |-> {}, continues |-> {}, ends |-> {}, lists |-> {},
     labels |-> tables, nextReg |-> 0, scopeStart |-> 0, error |-> FALSE, crashed |-> FALSE]

\* LambdaExpr: a compiler of its own, of which only the errors are seen here
CompileLambda(s, c) ==
    LET inner == CompileStmt(s.body, Compiler(NoLabels))
    IN Emit([op |-> "LOAD_REG"],
            [c EXCEPT !.error = @ \/ inner.error, !.crashed = @ \/ inner.crashed])

\* compileStmt; a statement in a block leaves its jumps to what is around it
CompileStmt(s, c) ==
    CASE s.kind = "nothing" -> c
      [] s.kind = "plain" -> Emit([op |-> "PLAIN", id |-> s.id], c)
      [] s.kind = "block" -> PopScope(FoldLeft(LAMBDA d, t : CompileStmt(t, d), PushScope(c), s.body))
      [] s.kind = "if" -> CompileIf(s, c)
      [] s.kind = "while" -> CompileWhile(s, c)
      [] s.kind = "repeat" -> CompileRepeat(s, c)
      [] s.kind = "for" -> CompileFor(s, c)
      [] s.kind = "match" -> CompileMatch(s, c)
      [] s.kind = "break" -> CompileBreak(s, c)
      [] s.kind = "continue" -> CompileContinue(s, c)
      [] s.kind = "end" -> CompileEnd(c)
      [] s.kind = "lambda" -> CompileLambda(s, c)

\* compile
Compile(tree, tables) == Emit([op |-> "HALT"], CompileStmt(tree, Compiler(tables)))

-----------------------------------------------------------------------------
(* The interpreter. *)

NoLine == [program |-> Nothing, stale |-> FALSE, registers |-> 0]
NoResult == [reg |-> 0, value |-> FALSE]

Init ==
    /\ fallthrough = FALSE
    /\ labels = NoLabels
    /\ phase = "idle"
    /\ line = NoLine
    /\ code = <<>>
    /\ pc = 1
    /\ result = NoResult
    /\ rest = <<>>

\* The next line is parsed and, whether it was accepted or not, compiled.
ReadLine(program) ==
    LET p == Parse(program, fallthrough)
        c == Compile(p.tree, labels)
        accepted == p.ok /\ ~c.error
    IN /\ phase = "idle"
       /\ fallthrough' = p.fallthrough
       /\ labels' = c.labels
       /\ phase' = IF c.crashed THEN "crashed" ELSE IF accepted THEN "running" ELSE "rejected"
       /\ line' = [program |-> program, stale |-> fallthrough, registers |-> c.nextReg]
       /\ code' = IF phase' = "running" THEN c.code ELSE <<>>
       /\ rest' = IF phase' = "running" /\ Documented(program) THEN ToObservable(<<program>>)
                  ELSE <<>>
       /\ UNCHANGED <<pc, result>>

\* The errors are shown, and the prompt comes back.
Report ==
    /\ phase = "rejected"
    /\ phase' = "idle"
    /\ line' = NoLine
    /\ UNCHANGED <<fallthrough, labels, code, pc, result, rest>>

\* The user starts the interpreter anew.
Restart ==
    /\ phase = "crashed"
    /\ phase' = "idle"
    /\ fallthrough' = FALSE
    /\ labels' = NoLabels
    /\ line' = NoLine
    /\ UNCHANGED <<code, pc, result, rest>>

\* The next instruction, if its operation is one of `ops'.
At(ops) == phase = "running" /\ pc \in DOMAIN code /\ code[pc].op \in ops

Session == <<fallthrough, labels, phase, line, code>>

\* What is left of the program, if that is followed.
Follow(outcome) == rest' = IF rest = <<>> THEN <<>> ELSE After(rest, outcome)

Plainly ==
    /\ At({"PLAIN"})
    /\ pc' = pc + 1
    /\ Follow(TRUE)
    /\ UNCHANGED <<Session, result>>

\* Instructions that change neither the flow nor what it depends on; what
\* they do to cells is the subject of ClosureVM.
Silent ==
    /\ At({"ENTER_SCOPE", "EXIT_SCOPE", "LOAD_REG"})
    /\ pc' = pc + 1
    /\ UNCHANGED <<Session, result, rest>>

\* A condition is evaluated.
TestCondition(outcome) ==
    /\ At({"TEST"})
    /\ pc' = pc + 1
    /\ result' = [reg |-> code[pc].reg, value |-> outcome]
    /\ Follow(outcome)
    /\ UNCHANGED Session

Jump ==
    /\ At({"JUMP"})
    /\ pc' = pc + 1 + code[pc].by
    /\ UNCHANGED <<Session, result, rest>>

JumpTrue ==
    /\ At({"JUMP_TRUE"})
    /\ pc' = pc + 1 + (IF result.value THEN code[pc].by ELSE 0)
    /\ UNCHANGED <<Session, result, rest>>

JumpFalse ==
    /\ At({"JUMP_FALSE"})
    /\ pc' = pc + 1 + (IF result.value THEN 0 ELSE code[pc].by)
    /\ UNCHANGED <<Session, result, rest>>

Loop ==
    /\ At({"LOOP"})
    /\ pc' = pc + 1 - code[pc].by
    /\ UNCHANGED <<Session, result, rest>>

\* startIter: the jump that follows is for iterables without elements
MakeIter(outcome) ==
    /\ At({"MAKE_ITER"})
    /\ pc' = IF outcome THEN pc + 2 ELSE pc + 1
    /\ Follow(outcome)
    /\ UNCHANGED <<Session, result>>

UpdateIter(outcome) ==
    /\ At({"UPDATE_ITER"})
    /\ pc' = pc + 1 - (IF outcome THEN code[pc].by ELSE 0)
    /\ Follow(outcome)
    /\ UNCHANGED <<Session, result>>

Halt ==
    /\ At({"HALT"})
    /\ phase' = "idle"
    /\ line' = NoLine
    /\ code' = <<>>
    /\ pc' = 1
    /\ result' = NoResult
    /\ rest' = <<>>
    /\ UNCHANGED <<fallthrough, labels>>

RunNext ==
    \/ Plainly \/ Silent \/ Jump \/ JumpTrue \/ JumpFalse \/ Loop \/ Halt
    \/ \E outcome \in BOOLEAN :
        TestCondition(outcome) \/ MakeIter(outcome) \/ UpdateIter(outcome)

Next ==
    \/ \E program \in Programs : ReadLine(program)
    \/ Report
    \/ Restart
    \/ RunNext

Spec == Init /\ [][Next]_vars

-----------------------------------------------------------------------------
(* Properties. *)

TypeOK ==
    /\ fallthrough \in BOOLEAN
    /\ phase \in {"idle", "running", "rejected", "crashed"}
    /\ line.stale \in BOOLEAN
    /\ line.registers \in Nat
    /\ result.value \in BOOLEAN
    /\ phase # "running" => code = <<>> /\ rest = <<>>

\* The step that the code takes next, if it is an observable one.
Observed ==
    LET i == code[pc] IN
    CASE i.op \in {"PLAIN", "TEST"} -> {[op |-> i.op, id |-> i.id]}
      [] i.op \in {"MAKE_ITER", "UPDATE_ITER"} -> {[op |-> "NEXT", id |-> i.id]}
      [] i.op = "HALT" -> {Done}
      [] OTHER -> {}

AsWritten == phase = "running" => \A step \in Observed : step = Expected(rest)

\* Once a case falls through, every later one but the last leaves for the next
\* or ends the match: then it does not matter how a case was reached.
Cascades(s) ==
    \A i, j \in DOMAIN s.cases :
        FallsThrough(s.cases[i].body) /\ i < j /\ j < Len(s.cases) =>
            FallsThrough(s.cases[j].body) \/ s.cases[j].body = End

\* Documented programs run as they are written, provided that no flag of an
\* earlier line is left in the parser (parser.cpp:828) and matches cascade
\* once a case falls through (compiler.cpp:1260).
FollowsProgram ==
    /\ Documented(line.program)
    /\ \A s \in Within(line.program) : s.kind = "match" => Cascades(s)
    /\ ~line.stale
    => AsWritten

\* As above for every match: docs/syntax/control_flow.md says that
\* "cases with non-empty bodies have fallthrough disabled by default".
CasesRunAlone == Documented(line.program) /\ ~line.stale => AsWritten

\* A conditional jump reads the register that was last written, so that a
\* condition is never decided by what an earlier one left (compiler.cpp:1660-1677, 1968-1981).
ReadsFresh ==
    At({"JUMP_TRUE", "JUMP_FALSE"}) => code[pc].reg = result.reg

\* The parser and the compiler together refuse exactly the lines with a jump
\* that leads nowhere, whatever lines came before, and use no null pointer on
\* the way; undocumented programs aside (parser.cpp:1070-1098, compiler.cpp:1351-1377).
RefusesExactly ==
    phase # "idle" /\ Documented(line.program) =>
        phase = IF WellFormed(line.program, Outermost) THEN "running" ELSE "rejected"

\* What a line leaves to the next: no flag that it set itself when it runs
\* (parser.cpp:1024), and no label at all (compiler.cpp:479-497).
NothingLeftBehind ==
    /\ phase = "running" /\ ~line.stale => ~fallthrough
    /\ phase # "crashed" => labels = NoLabels

IsScope(s) == s.kind \in {"block", "for"}

\* A line has freed the registers that it took, unless it has scopes inside
\* scopes, whose registers stay taken (compiler.cpp:316-325).
RegistersReturned ==
    (\A s \in Within(line.program) : IsScope(s) =>
        \A t \in Within(s) \ {s} : ~IsScope(t))
    /\ phase = "running" => line.registers = 0
=============================================================================
