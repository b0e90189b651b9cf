------------------------------ MODULE ClosureVM ------------------------------
(***************************************************************************)
(* The register machine of the Choice-Lang VM as closures see it: the      *)
(* sliding register window, the call frames, the stack of scope starts,    *)
(* and the cells through which a closure shares a variable with the frame  *)
(* that declared it.  A cell is open while it points at the variable's     *)
(* register; when the variable's scope ends the cell is closed, that is,   *)
(* it takes the value over.                                                *)
(*                                                                         *)
(* One action per opcode (or per group of opcodes that the compiler always *)
(* emits together).  The variables "blocks" and "home" and the field       *)
(* "vars" of a closure are ghosts: the lexical structure of the program    *)
(* being run, which the VM does not keep.  They pick out the runs that     *)
(* compiled programs can make, and the properties are stated with them.    *)
(*                                                                         *)
(* Programs covered: the types they use declare no drop() method, no call  *)
(* is implicit, functions have at most one parameter and no default value, *)
(* and the code is not inside a module (where globals are captured too).   *)
(***************************************************************************)
EXTENDS Integers, Sequences, SequencesExt, FiniteSets

CONSTANTS NumRegs,      \* NUM_REGS: registers of the VM.
          MaxDepth,     \* MAX_CALL_DEPTH: frames before a call is refused.
          Vals,         \* The values programs compute.
          Nil,          \* A register that holds none of them.
          Leaves,       \* The early exits and the endings the programs use.
          MaxVars, MaxCells, MaxClosures, MaxCaptures, MaxScopes
                        \* Bounds of the model, not of the code.

ASSUME ConstantsAssumption ==
  /\ NumRegs \in Nat \ {0}
  /\ {MaxDepth, MaxVars, MaxCells, MaxClosures, MaxCaptures, MaxScopes} \subseteq Nat
  /\ Leaves \subseteq {"return", "jump", "error", "fall"}

Addr == 0 .. NumRegs - 1
Values == Vals \cup {Nil}
Closed == -1            \* The location of a cell that points at its own object.

VARIABLES
  regs,         \* The register array, by absolute address.
  cur,          \* The running function: registers pointer, currentClosure, and
                \* (ghost) its first block and its compiler's nextReg, scopeStart.
  frames,       \* frames: the callers, saved by a call.
  scopeStarts,  \* scopeStarts: the limits pushed by OP_ENTER_SCOPE.
  cells,        \* Every cell ever allocated.
  activeCells,  \* activeCells: the open cells, in address order.
  closures,     \* Every closure ever allocated.
  pending,      \* OP_CAPTURE_* instructions still to follow the last OP_CLOSURE.
  blocks,       \* Ghost: the blocks being executed, of all functions, outermost first.
  home,         \* Ghost: the register of each variable declared so far.
  ret           \* The value of the last expression evaluated.

vars == <<regs, cur, frames, scopeStarts, cells, activeCells, closures,
          pending, blocks, home, ret>>

memory == <<cells, activeCells>>
control == <<cur, frames, scopeStarts, blocks>>

Init ==
  /\ regs = [r \in Addr |-> Nil]
  /\ cur = [window |-> 0, closure |-> 0, base |-> 1, nextReg |-> 0, scopeStart |-> 0]
  /\ frames = <<>>
  /\ scopeStarts = <<>>
  /\ cells = <<>>
  /\ activeCells = <<>>
  /\ closures = <<>>
  /\ pending = 0
  /\ blocks = <<[start |-> 0, loop |-> FALSE, vars |-> {}]>>
  /\ home = <<>>
  /\ ret = Nil

-----------------------------------------------------------------------------
(* The lexical scopes of the program.                                      *)

Block == blocks[Len(blocks)]
DeclaredIn(k) == UNION {blocks[i].vars : i \in k}

(* The variables with a register, those an instruction of the running      *)
(* function can name by register (its own, and the globals), and those a   *)
(* closure it creates can capture by register (globals are never captured).*)
Live == DeclaredIn(DOMAIN blocks)
Visible == DeclaredIn({1} \cup cur.base .. Len(blocks))
Capturable == DeclaredIn((cur.base .. Len(blocks)) \ {1})

Idle == pending = 0     \* OP_CLOSURE and its captures are emitted together.
InFunction == frames # <<>>

(* A new variable of the innermost block, in register r.                   *)
Bind(r) ==
  /\ Len(home) < MaxVars
  /\ home' = Append(home, r)

-----------------------------------------------------------------------------
(* Cells.                                                                  *)

LocationOf(i) == cells[activeCells[i]].loc

(* A variant: the scan is left out and every capture allocates a cell.     *)
FoundNever(i, addr) == FALSE

(* The reverse scan of captureValue: i is the cell it returns.             *)
Found(i, addr) ==
  /\ LocationOf(i) = addr
  /\ \A j \in DOMAIN activeCells : j > i => LocationOf(j) > addr

(* A variant: a new cell is pushed at the back.                            *)
LowerBoundBack(p, addr) == p = Len(activeCells) + 1

(* std::lower_bound: the first position whose cell is not below addr.      *)
LowerBound(p, addr) ==
  \A i \in DOMAIN activeCells : (i < p) <=> (LocationOf(i) < addr)

AddCell(cell, v) ==
  closures' = [closures EXCEPT ![Len(closures)] =
                 [cells |-> Append(@.cells, cell), vars |-> Append(@.vars, v)]]

NewCell(addr, v) ==
  /\ cells' = Append(cells, [loc |-> addr, obj |-> Nil])
  /\ \E p \in 1 .. Len(activeCells) + 1 :
       /\ LowerBound(p, addr)
       /\ activeCells' = InsertAt(activeCells, p, Len(cells) + 1)
  /\ AddCell(Len(cells) + 1, v)

CaptureValue(addr, v) ==
  \/ \E i \in DOMAIN activeCells :
       /\ Found(i, addr)
       /\ AddCell(activeCells[i], v)
       /\ UNCHANGED memory
  \/ /\ ~ \E i \in DOMAIN activeCells : Found(i, addr)
     /\ NewCell(addr, v)

(* Variants: the location is moved before the value is copied; the location*)
(* is not moved; the cell at the limit itself stays open.                  *)
CloseEmpty(c, file) == [loc |-> Closed, obj |-> cells[c].obj]
CloseUnmoved(c, file) == [cells[c] EXCEPT !.obj = file[cells[c].loc]]
BelowOrAt(i, limit) == LocationOf(i) <= limit

(* Cell::close: the cell copies the value its register has in file, the    *)
(* register array at that moment, and points at its own copy.              *)
Close(c, file) == [loc |-> Closed, obj |-> file[cells[c].loc]]

(* The cell at position i ends the loop of closeCells(limit).              *)
Below(i, limit) == LocationOf(i) < limit

(* closeCells(limit): cells leave the back of activeCells, each taking its *)
(* register's value over, until one lies below the limit.                  *)
CloseCells(limit, file) ==
  \E m \in 0 .. Len(activeCells) :
    LET closing == {activeCells[i] : i \in m + 1 .. Len(activeCells)} IN
    /\ \A i \in m + 1 .. Len(activeCells) : ~Below(i, limit)
    /\ m > 0 => Below(m, limit)
    /\ activeCells' = SubSeq(activeCells, 1, m)
    /\ cells' = [c \in DOMAIN cells |-> IF c \in closing THEN Close(c, file) ELSE cells[c]]

-----------------------------------------------------------------------------
(* Variables.                                                              *)

(* make, fix, func: the next register becomes the variable.  The body of a *)
(* for statement is a statement, so the loop's own block declares nothing. *)
Declare(x) ==
  /\ Idle
  /\ ~Block.loop
  /\ cur.nextReg < NumRegs
  /\ Bind(cur.nextReg)
  /\ regs' = [regs EXCEPT ![cur.nextReg] = x]
  /\ cur' = [cur EXCEPT !.nextReg = @ + 1]
  /\ blocks' = [blocks EXCEPT ![Len(blocks)].vars = @ \cup {Len(home) + 1}]
  /\ UNCHANGED <<frames, scopeStarts, memory, closures, pending, ret>>

(* OP_GET_LOCAL, OP_GET_GLOBAL.                                            *)
GetLocal(v) ==
  /\ Idle
  /\ ret' = regs[home[v]]
  /\ UNCHANGED <<regs, control, memory, closures, pending, home>>

(* OP_SET_LOCAL, OP_SET_GLOBAL.                                            *)
SetLocal(v, x) ==
  /\ Idle
  /\ regs' = [regs EXCEPT ![home[v]] = x]
  /\ UNCHANGED <<control, memory, closures, pending, home, ret>>

OwnCells == IF InFunction /\ cur.closure # 0 THEN closures[cur.closure].cells ELSE <<>>

(* OP_GET_CELL: through the cell, wherever it points.                      *)
GetCell(c) ==
  /\ Idle
  /\ ret' = IF cells[c].loc = Closed THEN cells[c].obj ELSE regs[cells[c].loc]
  /\ UNCHANGED <<regs, control, memory, closures, pending, home>>

(* OP_SET_CELL.                                                            *)
SetCell(c, x) ==
  /\ Idle
  /\ IF cells[c].loc = Closed
     THEN cells' = [cells EXCEPT ![c].obj = x] /\ UNCHANGED regs
     ELSE regs' = [regs EXCEPT ![cells[c].loc] = x] /\ UNCHANGED cells
  /\ UNCHANGED <<control, activeCells, closures, pending, home, ret>>

-----------------------------------------------------------------------------
(* Closures.                                                               *)

(* OP_CLOSURE, with n capture instructions to follow.                      *)
MakeClosure(n) ==
  /\ Idle
  /\ Len(closures) < MaxClosures
  /\ Len(cells) + n <= MaxCells
  /\ Capturable # {} \/ OwnCells # <<>>
  /\ closures' = Append(closures, [cells |-> <<>>, vars |-> <<>>])
  /\ pending' = n
  /\ UNCHANGED <<regs, control, memory, home, ret>>

(* OP_CAPTURE_LOCAL: a variable of the running function.                   *)
CaptureLocal(v) ==
  /\ pending > 0
  /\ pending' = pending - 1
  /\ CaptureValue(home[v], v)
  /\ UNCHANGED <<regs, control, home, ret>>

(* OP_CAPTURE_CELL: a variable the running closure captured itself.        *)
CaptureCell(j) ==
  /\ pending > 0
  /\ pending' = pending - 1
  /\ AddCell(OwnCells[j], closures[cur.closure].vars[j])
  /\ UNCHANGED <<regs, control, memory, home, ret>>

-----------------------------------------------------------------------------
(* Calls.                                                                  *)

(* A variant: the depth check is off by one.                               *)
DepthAllowsOneMore == Len(frames) <= MaxDepth

(* The check against MAX_CALL_DEPTH.                                       *)
DepthAllows == Len(frames) < MaxDepth

(* callUserFunc: the callee sits in the next register, its arguments after *)
(* it, and the new window starts at the arguments; the parameters are      *)
(* followed by the local _func_.  c = 0 calls a function with no captures. *)
Call(c, args) ==
  LET window == cur.nextReg + 1
      top == window + Len(args)
      params == Len(home) + 1 .. Len(home) + Len(args)
  IN
  /\ Idle
  /\ DepthAllows
  /\ top < NumRegs
  /\ Len(home) + Len(args) <= MaxVars
  /\ regs' = [r \in Addr |-> IF r \in window .. top - 1 THEN args[r - window + 1]
                             ELSE IF r \in {window - 1, top} THEN Nil ELSE regs[r]]
  /\ frames' = Append(frames, cur)
  /\ cur' = [window |-> window, closure |-> c, base |-> Len(blocks) + 1,
             nextReg |-> top + 1, scopeStart |-> window]
  /\ blocks' = Append(blocks, [start |-> window, loop |-> FALSE, vars |-> params])
  /\ home' = home \o [i \in 1 .. Len(args) |-> window + i - 1]
  /\ UNCHANGED <<scopeStarts, memory, closures, pending, ret>>

(* callUserFunc at MAX_CALL_DEPTH: a report, an empty result, no new frame.*)
CallTooDeep ==
  /\ Idle
  /\ ~DepthAllows
  /\ cur.nextReg < NumRegs
  /\ regs' = [regs EXCEPT ![cur.nextReg] = Nil]
  /\ UNCHANGED <<control, memory, closures, pending, home, ret>>

(* A variant: the frame's first register is skipped.                       *)
FrameLimitPastFirst == cur.window + 1

(* Where OP_RETURN cleans up from: registers.                              *)
FrameLimit == cur.window

(* OP_RETURN: file is the register array after the result has been moved   *)
(* to registers[-1], which comes before the clean-up; scopeStarts is left  *)
(* as it is.                                                               *)
OpReturn(file) ==
  /\ Idle
  /\ InFunction
  /\ regs' = file
  /\ CloseCells(FrameLimit, file)
  /\ cur' = Last(frames)
  /\ frames' = Front(frames)
  /\ blocks' = SubSeq(blocks, 1, cur.base - 1)
  /\ UNCHANGED <<scopeStarts, closures, pending, home, ret>>

(* A return statement: its value is in the next register, above every      *)
(* variable.  The body of a function is a block, so that a statement leaves*)
(* it early; without early exits this is the body of a lambda "=> value".  *)
Return ==
  /\ Len(blocks) = cur.base \/ "return" \in Leaves
  /\ cur.nextReg < NumRegs
  /\ OpReturn([regs EXCEPT ![cur.window - 1] = ret])

FirstParameterCaptured == \E i \in DOMAIN activeCells : LocationOf(i) = cur.window

(* The end of a body: OP_VOID 0 and OP_RETURN 0, where register 0 is the   *)
(* first parameter (or _func_).  It holds no value any more when its cell  *)
(* is closed; programs without "fall" do this to no captured parameter.    *)
FallOff ==
  /\ Len(blocks) = cur.base
  /\ FirstParameterCaptured => "fall" \in Leaves
  /\ OpReturn([regs EXCEPT ![cur.window - 1] = Nil, ![cur.window] = Nil])

-----------------------------------------------------------------------------
(* Scopes and loops.                                                       *)

(* Variants: the scope exit cleans the whole frame up; pushScope does not  *)
(* remember where the scope starts.                                        *)
ScopeLimitFrame == cur.window
PushScopeForgets(c, r) == c

(* Where a scope exit cleans up from: scopeStarts.back().                  *)
ScopeLimit == Last(scopeStarts)

(* pushScope in the compiler: r is the first register of the scope.        *)
PushScope(c, r) == [c EXCEPT !.scopeStart = r]

(* OP_ENTER_SCOPE of a block statement.                                    *)
EnterScope ==
  /\ Idle
  /\ Len(scopeStarts) < MaxScopes
  /\ cur.nextReg < NumRegs
  /\ scopeStarts' = Append(scopeStarts, cur.nextReg)
  /\ blocks' = Append(blocks, [start |-> cur.nextReg, loop |-> FALSE, vars |-> {}])
  /\ cur' = PushScope(cur, cur.nextReg)
  /\ UNCHANGED <<regs, frames, memory, closures, pending, home, ret>>

(* OP_ENTER_SCOPE and OP_MAKE_ITER of a for statement: the loop variable   *)
(* takes the next register and the iterator the one after it.              *)
EnterFor(x) ==
  LET r == cur.nextReg IN
  /\ Idle
  /\ Len(scopeStarts) < MaxScopes
  /\ r + 1 < NumRegs
  /\ Bind(r)
  /\ scopeStarts' = Append(scopeStarts, r)
  /\ regs' = [regs EXCEPT ![r] = x, ![r + 1] = Nil]
  /\ blocks' = Append(blocks, [start |-> r, loop |-> TRUE, vars |-> {Len(home) + 1}])
  /\ cur' = [PushScope(cur, r) EXCEPT !.nextReg = r + 2]
  /\ UNCHANGED <<frames, memory, closures, pending, ret>>

(* OP_UPDATE_ITER with an element left: the scope is cleaned up and the    *)
(* loop's register holds the next element, a variable of its own.          *)
UpdateIter(x) ==
  /\ Idle
  /\ Len(blocks) > cur.base
  /\ Block.loop
  /\ Bind(Block.start)
  /\ CloseCells(ScopeLimit, regs)
  /\ regs' = [regs EXCEPT ![Block.start] = x]
  /\ blocks' = [blocks EXCEPT ![Len(blocks)].vars = {Len(home) + 1}]
  /\ cur' = [cur EXCEPT !.scopeStart = Block.start, !.nextReg = Block.start + 2]
  /\ UNCHANGED <<frames, scopeStarts, closures, pending, ret>>

(* OP_EXIT_SCOPE (for a loop, after an OP_UPDATE_ITER that found no element*)
(* or after a break).  popScope frees the registers from scopeStart on,    *)
(* the start of the scope pushed last, not of the one being popped.        *)
ExitScope ==
  /\ Idle
  /\ Len(blocks) > cur.base
  /\ CloseCells(ScopeLimit, regs)
  /\ scopeStarts' = Front(scopeStarts)
  /\ blocks' = Front(blocks)
  /\ cur' = [cur EXCEPT !.nextReg = cur.scopeStart]
  /\ UNCHANGED <<regs, frames, closures, pending, home, ret>>

(* break and continue: OP_JUMP out of the blocks after block k.            *)
Leave(k) ==
  /\ Idle
  /\ "jump" \in Leaves
  /\ k \in cur.base .. Len(blocks) - 1
  /\ blocks' = SubSeq(blocks, 1, k)
  /\ cur' = [cur EXCEPT !.nextReg = cur.scopeStart]
  /\ UNCHANGED <<regs, frames, scopeStarts, memory, closures, pending, home, ret>>

-----------------------------------------------------------------------------
(* The end of a script or of a line of the REPL.                           *)

Script == IF InFunction THEN frames[1] ELSE cur
ScriptBlocks == CASE Len(frames) = 0 -> Len(blocks)
                  [] Len(frames) = 1 -> cur.base - 1
                  [] OTHER           -> frames[2].base - 1

(* clearVM, and the start of the next execute(): the cells from the lowest *)
(* scope start on are closed, the callers are forgotten.  currentClosure   *)
(* keeps its value.  The REPL's compiler has popped every scope by now.    *)
ClearVM ==
  /\ IF scopeStarts = <<>>
     THEN UNCHANGED memory
     ELSE \E i \in DOMAIN scopeStarts :
            /\ \A j \in DOMAIN scopeStarts : scopeStarts[i] <= scopeStarts[j]
            /\ CloseCells(scopeStarts[i], regs)
  /\ scopeStarts' = <<>>
  /\ frames' = <<>>
  /\ blocks' = <<blocks[1]>>
  /\ cur' = [Script EXCEPT !.closure = cur.closure,
               !.nextReg = IF ScriptBlocks > 1 THEN Script.scopeStart ELSE @]
  /\ UNCHANGED <<regs, closures, pending, home, ret>>

(* A RuntimeError reaches execute().                                       *)
Error ==
  /\ Idle
  /\ "error" \in Leaves
  /\ ClearVM

(* OP_HALT.                                                                *)
EndLine ==
  /\ Idle
  /\ ~InFunction
  /\ Len(blocks) = 1
  /\ ClearVM

-----------------------------------------------------------------------------
Next ==
  \/ \E x \in Vals : Declare(x) \/ EnterFor(x) \/ UpdateIter(x)
  \/ \E v \in Visible : GetLocal(v)
  \/ \E v \in Visible, x \in Vals : SetLocal(v, x)
  \/ \E j \in DOMAIN OwnCells : GetCell(OwnCells[j])
  \/ \E j \in DOMAIN OwnCells, x \in Vals : SetCell(OwnCells[j], x)
  \/ \E n \in 1 .. MaxCaptures : MakeClosure(n)
  \/ \E v \in Capturable : CaptureLocal(v)
  \/ \E j \in DOMAIN OwnCells : CaptureCell(j)
  \/ \E c \in 0 .. Len(closures), args \in {<<>>} \cup {<<x>> : x \in Vals} : Call(c, args)
  \/ CallTooDeep
  \/ Return
  \/ FallOff
  \/ EnterScope
  \/ ExitScope
  \/ \E k \in DOMAIN blocks : Leave(k)
  \/ Error
  \/ EndLine

Spec == Init /\ [][Next]_vars

-----------------------------------------------------------------------------
(* Properties.                                                             *)

Context == [window : 0 .. NumRegs, closure : 0 .. Len(closures), base : Nat \ {0},
            nextReg : 0 .. NumRegs, scopeStart : 0 .. NumRegs]
Cell == [loc : Addr \cup {Closed}, obj : Values]
Closure == [cells : Seq(DOMAIN cells), vars : Seq(DOMAIN home)]
BlockRecord == [start : 0 .. NumRegs, loop : BOOLEAN, vars : SUBSET DOMAIN home]

(* Every variable of the machine has its type: in particular a call never  *)
(* takes the frame stack past MAX_CALL_DEPTH.                              *)
TypeOK ==
  /\ regs \in [Addr -> Values]
  /\ cur \in Context
  /\ frames \in Seq(Context) /\ Len(frames) <= MaxDepth
  /\ scopeStarts \in Seq(Addr)
  /\ cells \in Seq(Cell)
  /\ activeCells \in Seq(DOMAIN cells)
  /\ closures \in Seq(Closure)
  /\ pending \in Nat
  /\ blocks \in Seq(BlockRecord)
  /\ home \in Seq(Addr)
  /\ ret \in Values

(* activeCells is in strictly increasing address order: captureValue stops *)
(* its scan, and closeCells its loop, at the first cell below the address. *)
SortedActive ==
  \A i, j \in DOMAIN activeCells : i < j => LocationOf(i) < LocationOf(j)

(* activeCells lists the open cells and no others: closeCells closes what  *)
(* it pops and captureValue lists what it allocates.                       *)
ActiveIffOpen ==
  \A c \in DOMAIN cells : cells[c].loc # Closed <=> \E i \in DOMAIN activeCells : activeCells[i] = c

Captures == UNION {{k} \X DOMAIN closures[k].vars : k \in DOMAIN closures}
CapturedVar(kp) == closures[kp[1]].vars[kp[2]]
CapturedCell(kp) == closures[kp[1]].cells[kp[2]]

(* A captured variable whose scope is still open is reached through its    *)
(* own register: no exit, iteration or return closes its cell too early,   *)
(* however many stale entries early exits have left in scopeStarts.        *)
NeverClosedEarly ==
  \A kp \in Captures :
    CapturedVar(kp) \in Live => cells[CapturedCell(kp)].loc = home[CapturedVar(kp)]

(* Closures that capture the same variable share one cell, so what one of  *)
(* them writes the others read.                                            *)
OneCellPerVariable ==
  \A kp, lq \in Captures :
    CapturedVar(kp) = CapturedVar(lq) => CapturedCell(kp) = CapturedCell(lq)

(* No two live variables have the same register, and every register at or  *)
(* above nextReg, where temporaries and callees go, is free: popScope may  *)
(* free the registers from the last pushed scope's start only.             *)
RegistersDisjoint ==
  \A v, w \in Live : /\ home[v] < cur.nextReg
                     /\ v # w => home[v] # home[w]

(* A return closes every cell of the frame it leaves, whatever scopes the  *)
(* return statement stood in.                                              *)
ReturnClosesFrame ==
  [][Return \/ FallOff =>
       \A i \in DOMAIN activeCells' : cells'[activeCells'[i]].loc < cur.window]_vars

(* The variable an iteration of a for loop begins with is independent of   *)
(* the closures made before: no open cell points at its register.  Only    *)
(* for programs without early exits, see loops_after_return.               *)
IterationsIndependent ==
  [][(\E x \in Vals : UpdateIter(x)) =>
       \A i \in DOMAIN activeCells' : cells'[activeCells'[i]].loc # Block.start]_vars

-----------------------------------------------------------------------------
(* The machine implements the abstract variables: a variable's content is  *)
(* in its register while it is in scope and in its cell afterwards.        *)

Held == {CapturedVar(kp) : kp \in Captures}

(* A variable without a content is marked by something that is no value.   *)
ASSUME MarkersAssumption == {"unborn", "gone"} \cap Values = {}

Content(v) ==
  IF v \notin DOMAIN home THEN "unborn"
  ELSE IF v \in Live THEN regs[home[v]]
  ELSE IF v \in Held
       THEN LET kp == CHOOSE kp \in Captures : CapturedVar(kp) = v
                cell == cells[CapturedCell(kp)]
            IN  IF cell.loc = Closed THEN cell.obj ELSE regs[cell.loc]
  ELSE "gone"

Abstract == INSTANCE CapturedVariables WITH
  Vars <- 1 .. MaxVars, Unborn <- "unborn", Gone <- "gone",
  store <- [v \in 1 .. MaxVars |-> Content(v)], held <- Held

(* Closures and the scopes that declare variables read and write the same  *)
(* variable, for as long as either can reach it: every step of the machine *)
(* is a step of CapturedVariables or leaves its variables alone.  Only for *)
(* programs with no early exit, in which no function falls off its end     *)
(* with its first parameter captured: that parameter is lost.              *)
ImplementsVariables == Abstract!Spec
=============================================================================
