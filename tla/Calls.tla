-------------------------------- MODULE Calls --------------------------------
(***************************************************************************)
(* Calls in the Choice-Lang VM: functions with default and variable        *)
(* parameters, methods, the making of instances (constructors and field    *)
(* initialisers) and drop() methods, in one register array over which a    *)
(* window slides.                                                          *)
(*                                                                         *)
(* A call that the program makes only sets the machine up for the callee's *)
(* code.  A call that the VM makes itself (an implicit call), and every    *)
(* call while one runs, is executed to its end inside the C++ function     *)
(* that makes it, as default values always are: "native" is the stack of   *)
(* these C++ functions, and its top says whether code or C++ goes on.      *)
(*                                                                         *)
(* Programs are any sequence of loads, calls, blocks and returns that the  *)
(* compiler's discipline of registers admits.  "top" and "low" of a frame  *)
(* are its compiler's nextReg and the lowest register of a temporary.      *)
(* "got" of a method value, "drops" of an instance, "since" of a frame or  *)
(* block (the instances there were when it was entered), "under" of a frame*)
(* (the scopes there were), "depth" of a C++ function (the activation it   *)
(* runs in, or has started) and missed are ghosts.  Cells, iterators and   *)
(* the contents of collections are left out.                               *)
(***************************************************************************)
EXTENDS Integers, Sequences, SequencesExt, FiniteSets

CONSTANTS Funs,         \* The functions: records [min, max, rest].
          Types,        \* The types: records [ctor, method, field, drop].
          NoFun,        \* No function of that kind in the type.
          Globals,      \* The registers of built-in globals.
          Width,        \* Registers that one byte can name (256).
          NumRegs,      \* NUM_REGS.
          MaxDepth,     \* MAX_CALL_DEPTH.
          MaxTemps, MaxInsts, MaxScopes     \* Bounds of the model, not of the code.

Functions == {f \in [min : 0 .. Width, max : 0 .. Width, rest : BOOLEAN] : f.min <= f.max}
Plain == [min |-> 0, max |-> 0, rest |-> FALSE]     \* drop() and field initialisers.
Callables ==
  ({Plain} \cup Funs \cup {k.ctor : k \in Types} \cup {k.method : k \in Types}) \ {NoFun}

ASSUME ConstantsAssumption ==
  /\ {Globals, Width, NumRegs, MaxDepth, MaxInsts, MaxScopes} \subseteq Nat
  /\ Globals > 0
  /\ MaxTemps \in [1 .. MaxDepth + 1 -> Nat]
  /\ Funs \subseteq Functions
  /\ NoFun \notin Functions
  /\ Types \subseteq [ctor : Functions \cup {NoFun}, method : Functions \cup {NoFun},
                      field : BOOLEAN, drop : BOOLEAN]

(* Programs use as many registers in a window as a byte can name: those of *)
(* the built-in globals or of the parameters, the receiver and _func_, and *)
(* the temporaries.  An error leaves the window where it was, and drop()   *)
(* methods run above it, so the array has room for twice the depth.        *)
ASSUME WidthAssumption ==
  /\ NumRegs >= (2 * MaxDepth + 1) * Width
  /\ Globals + MaxTemps[1] < Width
  /\ \A f \in Callables, d \in 2 .. MaxDepth + 1 : f.max + 3 + MaxTemps[d] < Width

VARIABLES
  regs,         \* The register array, by absolute address.
  cur,          \* The running code: its window (registers), where it is, and (ghosts)
                \* its top, its low and its blocks.
  frames,       \* frames: the callers, saved by a call.
  native,       \* The C++ functions in the middle of something.
  implicit,     \* implicitCall.
  args,         \* args: the argument count of the last OP_CALL_DEF.
  scopes,       \* scopeStarts.
  active,       \* activeInstances: register and instance.
  insts,        \* Every instance ever allocated, and whether its field has a value.
  bound,        \* boundInstance of each type's method.
  status,       \* running, or clearVM, or ~VM, or over.
  missed        \* Ghost: whether a drop() method was ended by an error or refused.

vars == <<regs, cur, frames, native, implicit, args, scopes, active, insts, bound,
          status, missed>>
heap == <<insts, bound>>

-----------------------------------------------------------------------------
(* Values.                                                                 *)

Void == [t |-> "void"]
Invalid == [t |-> "invalid"]                    \* Object{}
Datum(r) == [t |-> "data", at |-> r % 2]        \* Neighbouring registers get different data.
Callee == [t |-> "callee"]                      \* A function or a type: its use tells which.
InstV(i) == [t |-> "inst", id |-> i]
MethodV(k, i) == [t |-> "method", of |-> k, got |-> i]
ListV(s) == [t |-> "list", of |-> s]

(* Where code is: its function, whether it has a receiver, what called it, *)
(* the parameters that have their values, and (ghost) whether it is held   *)
(* to CallStack.                                                           *)
Code(at, f, self, by, n, promised) ==
  [at |-> at, fun |-> f, self |-> self, by |-> by, n |-> n, promised |-> promised]
Script == Code("script", NoFun, 0, "code", 0, TRUE)

Init ==
  /\ regs = [r \in 0 .. NumRegs - 1 |-> IF r < Globals THEN Datum(r) ELSE Invalid]
  /\ cur = [base |-> 0, top |-> Globals, low |-> Globals, blocks |-> <<>>, since |-> 0,
            under |-> 0, code |-> Script]
  /\ frames = <<>>
  /\ native = <<>>
  /\ implicit = FALSE
  /\ args = 0
  /\ scopes = <<>>
  /\ active = <<>>
  /\ insts = <<>>
  /\ bound = [k \in Types |-> 0]
  /\ status = "running"
  /\ missed = FALSE

Doing(op) == native # <<>> /\ Last(native).op = op

(* Code is being executed: by execute(), or by the executeChunk of a call. *)
Executing == IF native = <<>> THEN status = "running" ELSE Doing("call")

Reg(r) == cur.base + r
IsInst(v) == v.t = "inst"

(* The registers of the temporaries: above the innermost block and every   *)
(* instance literal that is not complete.                                  *)
BlockLowest == IF cur.blocks = <<>> THEN cur.low ELSE Last(cur.blocks).at
OpenLiterals == {r \in BlockLowest .. cur.top - 1 : IsInst(regs[Reg(r)]) /\ insts[regs[Reg(r)].id].literal}
Temporaries == {r \in BlockLowest .. cur.top - 1 : \A q \in OpenLiterals : q < r}
At(places) == Executing /\ cur.code.at \in places
Place(at) == [cur EXCEPT !.code.at = at]

-----------------------------------------------------------------------------
(* A call of a user function, by code ("code"), by the making of an        *)
(* instance ("make") or by dropInstances ("drop"): its window is start     *)
(* registers above the caller's, which keeps its first keep registers, and *)
(* copy is what callUserMethod will put back in the slot of the callee.    *)
Call(f, self, by, start, argc, keep, copy) ==
  [op |-> "call", fun |-> f, self |-> self, by |-> by, start |-> start, argc |-> argc,
   keep |-> keep, copy |-> copy, was |-> implicit, depth |-> Len(frames) + 2]

(* What CallStack promises holds for other calls than those of methods by  *)
(* code, of methods and constructors with a variable parameter, and of     *)
(* functions with a variable and a default parameter that is not given.    *)
Promised(c) == /\ ~(c.self = 1 /\ (c.by = "code" \/ c.fun.rest))
               /\ ~(c.fun.rest /\ c.argc < c.fun.max)

Mismatch(c) == \/ c.argc < c.fun.min
               \/ ~c.fun.rest /\ c.argc > c.fun.max

AtLimitOneMore == Len(frames) > MaxDepth
AtLimit == Len(frames) = MaxDepth

(* callUserFunc at the limit, and callUserMethod after it.                 *)
RefuseCall(c, file, below) ==
  /\ regs' = [file EXCEPT ![Reg(c.start - 1)] = IF c.self = 1 THEN c.copy ELSE Invalid]
  /\ cur' = [cur EXCEPT !.top = IF c.by = "code" THEN c.start ELSE c.keep]
  /\ native' = below
  /\ UNCHANGED <<frames, implicit>>

(* The code of c's function is next.  In a call by code that is not made   *)
(* within an implicit one, callUserFunc returns here and callUserMethod    *)
(* puts the copy back, by which time the window has moved.                 *)
Settle(c, window, file, below) ==
  /\ cur' = [window EXCEPT !.code.at = IF c.fun.rest THEN "gather" ELSE "entry"]
  /\ IF c.by = "code" /\ ~c.was
     THEN /\ native' = below
          /\ regs' = IF c.self = 1
                     THEN [file EXCEPT ![window.base + c.start - 1] = c.copy]
                     ELSE file
     ELSE native' = Append(below, c) /\ regs' = file

ImplicitReset(c) == c.by # "code"
Implicit(c) == implicit \/ c.by # "code"

(* prepFuncArgs: the parameters without an argument are computed first.    *)
EnterCall(c, file, below) ==
  LET window == [base |-> Reg(c.start), top |-> c.self + c.argc, low |-> c.self + c.argc,
                 blocks |-> <<>>, since |-> Len(insts'), under |-> Len(scopes),
                 code |-> Code("default", c.fun, c.self, c.by, c.self + c.argc, Promised(c))] IN
  /\ frames' = Append(frames, [cur EXCEPT !.top = c.keep])
  /\ implicit' = Implicit(c)
  /\ IF c.argc < c.fun.max
     THEN cur' = window /\ native' = Append(below, c) /\ regs' = file
     ELSE Settle(c, window, file, below)

CallUserFunc(c, file, below) ==
  IF AtLimit THEN RefuseCall(c, file, below) ELSE EnterCall(c, file, below)

(* callUserMethod: the arguments move up to make room for the receiver.    *)
ShiftedNot(c, receiver) ==
  [regs EXCEPT ![Reg(c.start - 1)] = Callee, ![Reg(c.start)] = receiver]

Shifted(c, receiver) ==
  [r \in DOMAIN regs |->
     CASE r = Reg(c.start - 1)                          -> Callee
       [] r = Reg(c.start)                              -> receiver
       [] r \in Reg(c.start) + 1 .. Reg(c.start) + c.argc -> regs[r - 1]
       [] OTHER                                         -> regs[r]]

(* dropInstances(limit), what it is part of, and which of activeInstances  *)
(* it is at the drop() method of (0 for none).                             *)
DropTo(limit, then) ==
  [op |-> "drop", limit |-> limit, then |-> then, busy |-> 0, depth |-> Len(frames) + 1]

(* callUserType and finishFields.                                          *)
Make(id, start) ==
  [op |-> "make", id |-> id, start |-> start, asked |-> FALSE, depth |-> Len(frames) + 1]
New(k, field, literal) == [of |-> k, field |-> field, literal |-> literal, made |-> FALSE, drops |-> 0]

Drops == {i \in DOMAIN native : native[i].op = "drop"}

(* An error unwinds the C++ stack: every dropInstances on it takes the last*)
(* instance off.  execute() catches it, resets and calls clearVM, outside  *)
(* the try block; ~VM has one of its own.                                  *)
Throw ==
  /\ active' = SubSeq(active, 1, Len(active) - Cardinality(Drops))
  /\ missed' = (missed \/ Drops # {})
  /\ status' = CASE status = "running"    -> "clearing"
                 [] status = "clearing"   -> "aborted"
                 [] status = "destroying" -> "over"
  /\ implicit' = FALSE
  /\ frames' = <<>>
  /\ native' = <<>>
  /\ cur' = [base |-> cur.base, top |-> 0, low |-> 0, blocks |-> <<>>, since |-> 0,
            under |-> 0, code |-> Script]
  /\ UNCHANGED <<regs, scopes>>

-----------------------------------------------------------------------------
(* The code of scripts, functions and default values.                      *)

Loadable == {Datum(Reg(cur.top)), Callee} \cup {InstV(i) : i \in {j \in DOMAIN insts : ~insts[j].literal}}

Load(v) ==
  /\ At({"script", "default", "body"})
  /\ cur.top - cur.low < MaxTemps[Len(frames) + 1]
  /\ regs' = [regs EXCEPT ![Reg(cur.top)] = v]
  /\ cur' = [cur EXCEPT !.top = @ + 1]
  /\ UNCHANGED <<frames, native, implicit, args, scopes, active, heap, status, missed>>

Discard ==
  /\ At({"script", "default", "body"}) /\ cur.top - 1 \in Temporaries
  /\ cur' = [cur EXCEPT !.top = @ - 1]
  /\ UNCHANGED <<regs, frames, native, implicit, args, scopes, active, heap, status, missed>>

Latest == regs[Reg(cur.top - 1)]

(* OP_GET_FIELD with the name of a method: findField binds the one Method  *)
(* object of the type to the instance.                                     *)
GetMethod ==
  /\ At({"script", "default", "body"}) /\ cur.top - 1 \in Temporaries /\ IsInst(Latest)
  /\ LET i == Latest.id  k == insts[i].of IN
       /\ k.method # NoFun
       /\ regs' = [regs EXCEPT ![Reg(cur.top - 1)] = MethodV(k, i)]
       /\ bound' = [bound EXCEPT ![k] = i]
  /\ UNCHANGED <<cur, frames, native, implicit, args, scopes, active, insts, status, missed>>

(* OP_SET_FIELD.                                                           *)
SetField ==
  /\ At({"script", "default", "body"}) /\ cur.top - 2 \in Temporaries
  /\ LET object == regs[Reg(cur.top - 2)] IN
       /\ IsInst(object) /\ insts[object.id].of.field
       /\ insts' = [insts EXCEPT ![object.id].field = TRUE]
  /\ cur' = [cur EXCEPT !.top = @ - 2]
  /\ UNCHANGED <<regs, frames, native, implicit, args, scopes, active, bound, status, missed>>

(* OP_INSTANCE: the type in the last register makes way for an instance.   *)
BeginLiteral(k) ==
  /\ At({"script", "default", "body"}) /\ cur.top - 1 \in Temporaries /\ Latest = Callee
  /\ Len(insts) < MaxInsts
  /\ insts' = Append(insts, New(k, FALSE, TRUE))
  /\ regs' = [regs EXCEPT ![Reg(cur.top - 1)] = InstV(Len(insts) + 1)]
  /\ UNCHANGED <<cur, frames, native, implicit, args, scopes, active, bound, status, missed>>

(* OP_INIT_FIELD, if the literal has the field (behind the register of its *)
(* name), and OP_FINISH_FIELDS.                                            *)
EndLiteral(p, given) ==
  /\ At({"script", "default", "body"})
  /\ p \in OpenLiterals /\ (\A q \in OpenLiterals : q <= p) /\ cur.top = p + (IF given THEN 3 ELSE 1)
  /\ LET object == regs[Reg(p)] IN
       /\ given => insts[object.id].of.field
       /\ insts' = [insts EXCEPT ![object.id].literal = FALSE,
                                 ![object.id].field = given]
       /\ native' = Append(native, Make(object.id, p + 1))
       /\ cur' = [cur EXCEPT !.top = p]
  /\ UNCHANGED <<regs, frames, implicit, args, scopes, active, bound, status, missed>>

(* OP_ENTER_SCOPE.                                                         *)
EnterScope ==
  /\ At({"script", "body"}) /\ Len(scopes) < MaxScopes
  /\ scopes' = Append(scopes, Reg(cur.top))
  /\ cur' = [cur EXCEPT !.blocks = Append(@, [at |-> cur.top, since |-> Len(insts)])]
  /\ UNCHANGED <<regs, frames, native, implicit, args, active, heap, status, missed>>

(* OP_EXIT_SCOPE, and OP_UPDATE_ITER, which ends an iteration but not its  *)
(* scope.                                                                  *)
LeaveScope(then) ==
  /\ At({"script", "body"}) /\ cur.blocks # <<>> /\ OpenLiterals = {}
  /\ native' = Append(native, DropTo(Last(scopes), then))
  /\ cur' = [cur EXCEPT !.top = Last(cur.blocks).at]
  /\ UNCHANGED <<regs, frames, implicit, args, scopes, active, heap, status, missed>>

ExitScope == LeaveScope("exit")
UpdateIter == LeaveScope("iterate")

-----------------------------------------------------------------------------
(* OP_CALL_DEF: the callee is in register p, its arguments behind it.      *)

CallObj(p) ==
  /\ At({"script", "default", "body"}) /\ p \in Temporaries
  /\ args' = cur.top - p - 1
  /\ UNCHANGED scopes

CallFunc(p, f) ==
  /\ CallObj(p) /\ regs[Reg(p)] = Callee
  /\ UNCHANGED heap
  /\ LET c == Call(f, 0, "code", p + 1, args', p, Invalid) IN
       /\ IF ~AtLimit /\ Mismatch(c)
          THEN Throw
          ELSE CallUserFunc(c, regs, native) /\ UNCHANGED <<active, status, missed>>

CallMethod(p) ==
  /\ CallObj(p)
  /\ UNCHANGED heap
  /\ LET callee == regs[Reg(p)]
         c == Call(callee.of.method, 1, "code", p + 1, args', p, callee) IN
       /\ callee.t = "method"
       /\ IF ~AtLimit /\ Mismatch(c)
          THEN Throw
          ELSE /\ CallUserFunc(c, Shifted(c, InstV(bound[callee.of])), native)
               /\ UNCHANGED <<active, status, missed>>

(* callUserType: a constructor runs at once; without one there is an       *)
(* argument for every field or none.                                       *)
CallType(p, k) ==
  /\ CallObj(p) /\ regs[Reg(p)] = Callee /\ Len(insts) < MaxInsts
  /\ LET id == Len(insts) + 1
         below == Append(native, Make(id, p + 1))
         c == Call(k.ctor, 1, "make", p + 1, args', p, InstV(id)) IN
       /\ IF k.ctor # NoFun
          THEN /\ insts' = Append(insts, New(k, FALSE, FALSE))
               /\ IF ~AtLimit /\ Mismatch(c)
                  THEN Throw
                  ELSE /\ CallUserFunc(c, Shifted(c, InstV(id)), below)
                       /\ UNCHANGED <<active, status, missed>>
          ELSE IF args' \notin {0, IF k.field THEN 1 ELSE 0}
          THEN Throw /\ UNCHANGED insts
          ELSE /\ insts' = Append(insts, New(k, args' = 1, FALSE))
               /\ regs' = [regs EXCEPT ![Reg(p)] = InstV(id)]
               /\ cur' = [cur EXCEPT !.top = p]
               /\ native' = below
               /\ UNCHANGED <<frames, implicit, active, status, missed>>
  /\ UNCHANGED bound

(* The OP_HALT of a default value: its parameter is complete.              *)
DefaultDone ==
  /\ At({"default"}) /\ Doing("call")
  /\ cur.top = cur.code.n + 1 /\ OpenLiterals = {}
  /\ LET window == [cur EXCEPT !.low = cur.top, !.code.n = cur.top] IN
       IF cur.top - cur.code.self < cur.code.fun.max
       THEN cur' = window /\ UNCHANGED <<regs, native>>
       ELSE Settle(Last(native), window, regs, Front(native))
  /\ UNCHANGED <<frames, implicit, args, scopes, active, heap, status, missed>>

(* OP_VAR_ARGS: the registers from that of the parameter to args.          *)
VarArgs ==
  /\ At({"gather"})
  /\ LET r == cur.code.fun.max + cur.code.self IN
       /\ regs' = [regs EXCEPT ![Reg(r)] = ListV(SubSeq([i \in 1 .. args |-> regs[Reg(i - 1)]],
                                                       r + 1, args))]
       /\ cur' = [Place("entry") EXCEPT !.top = r + 1]
  /\ UNCHANGED <<frames, native, implicit, args, scopes, active, heap, status, missed>>

(* _func_ is the first local of every function.                            *)
LoadName ==
  /\ At({"entry"})
  /\ regs' = [regs EXCEPT ![Reg(cur.top)] = Datum(Reg(cur.top))]
  /\ cur' = [Place("body") EXCEPT !.top = @ + 1, !.low = cur.top + 1]
  /\ UNCHANGED <<frames, native, implicit, args, scopes, active, heap, status, missed>>

(* OP_RETURN: the result goes to the slot of the callee, and the frame's   *)
(* instances are dropped before the frame is.                              *)
Return(v) ==
  /\ At({"body"}) /\ OpenLiterals = {}
  /\ regs' = [regs EXCEPT ![cur.base - 1] = v]
  /\ native' = Append(native, DropTo(cur.base, "return"))
  /\ cur' = [Place("leaving") EXCEPT !.top = 0, !.low = 0, !.blocks = <<>>]
  /\ UNCHANGED <<frames, implicit, args, scopes, active, heap, status, missed>>

Returnable == {Void} \cup (IF cur.top > cur.low THEN {Latest} ELSE {})

-----------------------------------------------------------------------------
(* The C++ functions.                                                      *)

(* finishFields runs the initialiser of a field that has no value ...      *)
AskField ==
  /\ Doing("make")
  /\ UNCHANGED <<args, scopes, active, heap, status, missed>>
  /\ LET m == Last(native)
         c == Call(Plain, 0, "make", m.start + 1, 0, m.start - 1, Invalid) IN
       /\ insts[m.id].of.field /\ ~insts[m.id].field /\ ~m.asked
       /\ CallUserFunc(c, [regs EXCEPT ![Reg(m.start)] = Callee],
                       Append(Front(native), [m EXCEPT !.asked = TRUE]))

(* ... and stores its result; an instance with a drop() method is listed.  *)
Made ==
  /\ Doing("make")
  /\ LET m == Last(native) IN
       /\ m.asked \/ ~insts[m.id].of.field \/ insts[m.id].field
       /\ insts' = [insts EXCEPT ![m.id].field = IF m.asked THEN regs[Reg(m.start)] # Invalid ELSE @,
                                 ![m.id].made = TRUE]
       /\ active' = IF insts[m.id].of.drop
                    THEN Append(active, [addr |-> Reg(m.start - 1), id |-> m.id])
                    ELSE active
       /\ cur' = [cur EXCEPT !.top = m.start]
  /\ native' = Front(native)
  /\ UNCHANGED <<regs, frames, implicit, args, scopes, bound, status, missed>>

DroppingAbove(d) == d.busy = 0 /\ active # <<>> /\ Last(active).addr > d.limit

Dropping(d) == d.busy = 0 /\ active # <<>> /\ Last(active).addr >= d.limit

DropStartAtInstance(a) == (a.addr - cur.base) % Width
DropStart(a) == (a.addr - cur.base + 1) % Width

(* dropInstances calls drop() with a window just above the register the    *)
(* instance was made in, counted in a byte from the present window.        *)
DropInstance ==
  /\ Doing("drop")
  /\ LET d == Last(native)
         a == Last(active)
         start == DropStart(a)
         c == Call(Plain, 1, "drop", start, 0, cur.top, regs[Reg(start - 1)]) IN
       /\ Dropping(d)
       /\ IF ~AtLimit
          THEN insts' = [insts EXCEPT ![a.id].drops = @ + 1] /\ UNCHANGED missed
          ELSE missed' = TRUE /\ UNCHANGED insts
       /\ CallUserFunc(c, Shifted(c, InstV(a.id)),
                       Append(Front(native), [d EXCEPT !.busy = Len(active)]))
  /\ UNCHANGED <<args, scopes, active, bound, status>>

Dropped ==
  /\ Doing("drop") /\ Last(native).busy # 0
  /\ active' = Front(active)
  /\ native' = [native EXCEPT ![Len(native)].busy = 0]
  /\ UNCHANGED <<regs, cur, frames, implicit, args, scopes, heap, status, missed>>

DropsDone(then) == /\ Doing("drop") /\ Last(native).then = then
                   /\ Last(native).busy = 0 /\ ~Dropping(Last(native))

(* The rest of OP_RETURN: restoreData, and the end of executeChunk if the  *)
(* call was executed by it.                                                *)
RestoreData ==
  /\ DropsDone("return")
  /\ LET frame == Last(frames)
         below == Front(native)
         c == Last(below) IN
       /\ cur' = [frame EXCEPT !.top = IF cur.code.by = "code" THEN @ + 1 ELSE @]
       /\ IF implicit
          THEN /\ native' = Front(below)
               /\ implicit' = c.was
               /\ regs' = IF c.self = 1
                          THEN [regs EXCEPT ![frame.base + c.start - 1] = c.copy]
                          ELSE regs
          ELSE native' = below /\ UNCHANGED <<regs, implicit>>
  /\ frames' = Front(frames)
  /\ UNCHANGED <<args, scopes, active, heap, status, missed>>

ScopeLeft ==
  /\ \/ DropsDone("exit") /\ scopes' = Front(scopes)
        /\ cur' = [cur EXCEPT !.blocks = Front(@)]
     \/ DropsDone("iterate") /\ UNCHANGED <<scopes, cur>>
  /\ native' = Front(native)
  /\ UNCHANGED <<regs, frames, implicit, args, active, heap, status, missed>>

(* The end of the script, or an error in any instruction.                  *)
Halt ==
  /\ At({"script"}) /\ native = <<>> /\ cur.blocks = <<>>
  /\ status' = "clearing"
  /\ cur' = [cur EXCEPT !.top = 0, !.low = 0]
  /\ UNCHANGED <<regs, frames, native, implicit, args, scopes, active, heap, missed>>

Fail == At({"script", "default", "body"}) /\ Throw /\ UNCHANGED <<args, heap>>

LowestWindow == cur.base
LowestRegister == 0

(* clearVM leaves the scopes, inner to outer, and ~VM the global one.      *)
ClearVM ==
  /\ status = "clearing"
  /\ \/ /\ native = <<>> /\ scopes # <<>>
        /\ native' = <<DropTo(Last(scopes), "clear")>>
        /\ UNCHANGED <<scopes, status>>
     \/ /\ DropsDone("clear")
        /\ native' = <<>> /\ scopes' = Front(scopes)
        /\ UNCHANGED status
     \/ /\ native = <<>> /\ scopes = <<>>
        /\ native' = <<DropTo(LowestRegister, "destroy")>> /\ status' = "destroying"
        /\ UNCHANGED scopes
  /\ UNCHANGED <<regs, cur, frames, implicit, args, active, heap, missed>>

Destroyed ==
  /\ DropsDone("destroy")
  /\ native' = <<>> /\ status' = "over"
  /\ UNCHANGED <<regs, cur, frames, implicit, args, scopes, active, heap, missed>>

Over == status \in {"over", "aborted"} /\ UNCHANGED vars

-----------------------------------------------------------------------------

Next ==
  \/ \E v \in Loadable : Load(v)
  \/ Discard \/ GetMethod \/ SetField
  \/ \E k \in Types : BeginLiteral(k)
  \/ \E p \in OpenLiterals, given \in BOOLEAN : EndLiteral(p, given)
  \/ EnterScope \/ ExitScope \/ UpdateIter
  \/ \E p \in Temporaries : 
       \/ CallMethod(p)
       \/ \E f \in Funs : CallFunc(p, f)
       \/ \E k \in Types : CallType(p, k)
  \/ DefaultDone \/ VarArgs \/ LoadName
  \/ \E v \in Returnable : Return(v)
  \/ AskField \/ Made
  \/ DropInstance \/ Dropped \/ RestoreData \/ ScopeLeft
  \/ Halt \/ Fail \/ ClearVM \/ Destroyed \/ Over

Spec == Init /\ [][Next]_vars
-----------------------------------------------------------------------------
(* What is checked.                                                        *)

(* A frame as CallStack sees it: the values its code can name.             *)
Activation(frame) ==
  [vals |-> IF frame.code.at = "leaving"
            THEN <<regs[frame.base - 1]>>
            ELSE [i \in 1 .. frame.top |-> regs[frame.base + i - 1]],
   by |-> frame.code.by,
   promised |-> frame.code.promised]

Promise == INSTANCE CallStack WITH
  Limit <- MaxDepth + 1,
  stack <- [i \in 1 .. Len(frames) |-> Activation(frames[i])] \o <<Activation(cur)>>

Places == {"script", "default", "gather", "entry", "body", "leaving"}
InArray(r) == r \in 0 .. NumRegs - 1
FrameOK(frame) ==
  /\ frame.top = 0 \/ InArray(frame.base + frame.top - 1)
  /\ frame.code.at \in {"script", "default", "body"} => frame.low \in 0 .. frame.top
  /\ frame.code.at \in Places
  /\ frame.code.at = "leaving" => InArray(frame.base - 1)

(* Windows, callers' windows and listed instances are in the register      *)
(* array, the frames are within MAX_CALL_DEPTH, and only instances that    *)
(* are complete and have a drop() method are listed to be dropped.         *)
TypeOK ==
  /\ Len(frames) <= MaxDepth
  /\ FrameOK(cur) /\ \A i \in DOMAIN frames : FrameOK(frames[i])
  /\ \A i \in DOMAIN scopes : InArray(scopes[i])
  /\ \A j \in DOMAIN active :
       /\ InArray(active[j].addr) /\ active[j].id \in DOMAIN insts
       /\ insts[active[j].id].made /\ insts[active[j].id].of.drop
  /\ \A i \in DOMAIN native : native[i].op \in {"call", "make", "drop"}
  /\ \A k \in Types : bound[k] \in 0 .. Len(insts)
  /\ status \in {"running", "clearing", "destroying", "over", "aborted"}
  /\ {implicit, missed} \subseteq BOOLEAN /\ args \in 0 .. Width

(* Sliding windows over one array, with constructors, initialisers and     *)
(* drop() methods run in the middle of an instruction, are activations     *)
(* with values of their own: no call changes what its caller will still    *)
(* read, and, where Promised, the arguments arrive in order and the result *)
(* takes the call's place.                                                 *)
ImplementsCallStack == Promise!Spec

(* implicitCall is set exactly while a call that the VM makes itself is on *)
(* the C++ stack: otherwise OP_RETURN would leave an executeChunk that is  *)
(* not there, or run on in the caller's code inside of one.                *)
ImplicitWhileNative ==
  implicit <=> \E i \in DOMAIN native : native[i].op = "call" /\ native[i].by # "code"

(* No instance is dropped twice: what the comment in dropInstances wants   *)
(* even if a drop() method fails.                                          *)
DroppedOnce == \A i \in DOMAIN insts : insts[i].drops <= 1

(* As long as no drop() method failed or was refused: no instance is       *)
(* dropped twice, whatever nested scopes, returns and drop() methods that  *)
(* make instances themselves do to activeInstances meanwhile ...           *)
DroppedOnceUnlessMissed == missed \/ DroppedOnce

(* ... when the interpreter ends, all have been dropped ...                *)
AllDropped ==
  status = "over" /\ ~missed =>
    \A i \in DOMAIN insts : insts[i].made /\ insts[i].of.drop => insts[i].drops = 1

(* ... and a call, or a scope or iteration that finds its own start on top *)
(* of scopeStarts, leaves none behind that was made in it, although        *)
(* activeInstances is not in the order of addresses and the search stops   *)
(* at the first one below the scope.                                       *)
NoneLeft ==
  /\ DropsDone("return") =>
       \A j \in DOMAIN active : active[j].id <= cur.since
  /\ (DropsDone("exit") \/ DropsDone("iterate")) /\ Last(native).limit = Reg(Last(cur.blocks).at) =>
       \A j \in DOMAIN active : active[j].id <= Last(cur.blocks).since

(* A method is given the instance that it was called upon.                 *)
CalledUpon ==
  [][\A p \in Temporaries :
       CallMethod(p) /\ Len(frames') > Len(frames) =>
         regs'[cur'.base] = InstV(regs[Reg(p)].got)]_vars
=============================================================================
