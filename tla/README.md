# Choice-Lang in TLA+

Models of the parts of the Choice-Lang interpreter (`src/`) whose correctness
depends on the order of steps and on state that outlives them, checked with
TLC on small instances and, for the invariants that matter most, proved with
TLAPS for every value of the constants. Paths in this file and line numbers in
`PROJECT.json` are those of the repository.

## 1. The system

Choice-Lang is a scripting language: a line or a file goes through the lexer,
the parser, the compiler (one pass over the tree to register bytecode) and the
VM. The REPL keeps one `Lexer`, `Parser`, `Compiler` and `VM` for the whole
session (the static locals of `src/options.cpp`); every imported module gets
four of its own, nested in the VM that executes the `use` statement. Nothing
runs in parallel: what is hard is state that one call leaves behind for a later
one, errors that leave a call half done, and early exits.

| Component | State it keeps | Operations | What makes it correct |
| --- | --- | --- | --- |
| Closures, scopes, frames (`vm.cpp`, `object.cpp`) | registers, window, `frames`, `scopeStarts`, `activeCells`, cells, closures | capture, get/set through cells, call, return, enter/exit a scope, iterate, error, end of a line | a closure and the scope that declared a variable share it as long as both reach it, and nobody else does |
| REPL declarations (`compiler.cpp`, `vm.cpp`) | `varLocations`, `nextReg`, `declaredVars`, the static `clearDeclaredVars` and `clearIndex`; `inDeclaration` and `clearIndex` of the VM | start and finish a line, each declaration, `OP_DEF_START`/`OP_DEF_END`, `errorReset` | after any failure, what the compiler knows is what the VM has executed, and no variable loses its register |
| Module imports (`vm.cpp`, `modules.cpp`) | `pendingImports`, `cachedImports`, `moduleError`, the pending reports | `getModule`, `getModuleTable`, start and end of `execute` | circular imports are cut off, whole modules are cached once, failures are noticed |
| Calls (`vm.cpp`) | `args`, `implicitCall`, the callee's slot | functions, methods, types, default and variadic parameters | each callee sees its own arguments and its caller's registers survive |
| Instances and `drop()` (`vm.cpp`) | `activeInstances` | constructors, destructors at scope exits | every instance is dropped once, at the end of its scope |
| Mutability and references | flags of objects, reference objects | `fix`, `immut`, `mut`, `OP_SET_*` | a fixed object is never modified, through whatever reference |
| Control flow (`parser.cpp`, `compiler.cpp`, `bytecode.cpp`, `vm.cpp`) | `inLoop`, `inMatch`, `fallthrough` of the parser; `breakJumps`, `continueJumps`, `endJumps`, label tables, `nextReg`, `scopeStart` of the compiler; `ip` | parse, compile and run statements with jumps | a program does what its structures say, jumps without a target are refused, and nothing of one line is read by the next |
| Lexer | a static nesting depth | a line | no state of one line is read by the next |
| Tables (`dependencies/personal/linear_table.h`, `object.cpp`) | slots with tombstones, `count`, `used`, `capacity`, `maxIndex`; the pointer of a loop | get, assign, pop, size, clear, growth, the steps of a loop | a table is a partial function, every search ends, and a loop sees each pair once |
| Bytecode cache (`main.cpp`, `options.cpp`, `bytes.cpp`, `bytecode.cpp`, `object.cpp`) | a code file and a debug file, their times, the source file's time | choose source or cache, save, load, inspect | what runs for a source file is what it says, and what is read is what was written |
| Optimizer, type checker, diagnostics, built-ins, command line, debugging aids, vendored libraries | - | - | see `PROJECT.json` for why they are left out for now |

Components meet in three places: the compiler and the VM of a session share
the static fields `Compiler::clearDeclaredVars` and `clearIndex`
(`ReplDeclarations`), and the parser decides which jumps the compiler gets to
see (`ControlFlow`); all VMs share the import tables, `moduleError` and the
diagnostic engine (`ModuleImports`); the compiler decides which register each
instruction of the VM names (the ghosts of `ClosureVM`).

## 2. Modules

| Module | What it is |
| --- | --- |
| `CapturedVariables` | abstract specification: what closures and scopes promise about variables |
| `ClosureVM` | the VM's registers, frames, scope starts and cells; implements `CapturedVariables` |
| `ClosureVM_proofs` | its invariants, where variables live, and that programs without early exits and without captured first parameters at the end of a body implement `CapturedVariables`, proved |
| `ReplDeclarations` | declarations in the REPL and their roll-back |
| `ReplDeclarations_proofs` | its types, the VM's note of a declaration, what a failed line leaves, that a roll-back is exact and that variables keep their registers, proved |
| `ModuleImports` | nested imports over a changing file system |
| `ModuleImports_proofs` | its invariants proved |
| `StructuredPrograms` | the trees of statements with control structures; reference definition of what they do and which are refused |
| `ControlFlow` | parser, compiler and VM as far as jumps go, checked against it |
| `PartialMap` | abstract specification: what a table promises |
| `LinearTable` | the hash table with linear probing and tombstones, and a loop over it; implements `PartialMap` |
| `LinearTable_proofs` | the refinement and its invariants proved |
| `CallStack` | abstract specification: activations with values of their own, and what a call does to them |
| `Calls` | one register array with a sliding window, C++ functions that run code inside instructions, instances and `drop()`; implements `CallStack` |
| `Calls_proofs` | the stack of C++ functions proved sound, the invariant of windows and `drop()`, and the actions that begin and end no call |
| `Drops_proofs` | the actions that do, and what follows: windows stay in the array, instances are dropped once and in time |
| `CallRefinement_proofs` | that `Calls` implements `CallStack`, proved |
| `CacheFiles` | a source file, its cache, the interpreter and the user who edits: which of the two is run |
| `CacheFormat` | the bytes of a cache: writer, reader and inspector as functions of programs and bytes |
| `BytecodeCache` | `CacheFiles` with the bytes of `CacheFormat` in the files |
| `CacheFiles_proofs` | that what runs is what the source says, proved |
| `MC*` | model values, symmetry sets and the value sets the configurations choose from |

Each configuration `<run>.cfg` belongs to the run of that name in
`PROJECT.json`, and the definitions that model code are mapped to their lines
there. Operators whose comment begins with "A variant" are the same definition
with a plausible mistake; no specification uses them. They are there so that
every property can be seen to fail when the code is wrong in that way.

### ClosureVM

One action per opcode, or per group of opcodes that the compiler always emits
together (`OP_ENTER_SCOPE` and `OP_MAKE_ITER` in `EnterFor`; `OP_CLOSURE` and
the captures that follow it are separate actions, with `pending` counting those
still to come). `regs` is the register array by absolute address,
`cur.window` the pointer `registers`, `frames` what `pushCurrentStackFrame`
saves. Cells are never deallocated, so they are numbered in the order of their
allocation; a cell whose `location` points at its own `obj` has `loc = Closed`.

The VM runs bytecode, and not every bytecode comes out of the compiler. The
ghosts `blocks`, `home`, `cur.base`, `cur.nextReg` and `cur.scopeStart` are the
compiler's view of the code being run (which blocks are open, which register
each variable has, where the next one goes), and they restrict the actions to
what `compiler.cpp` emits: `Declare` takes `nextReg`, `PushScope` and
`ExitScope` move `scopeStart` and `nextReg` exactly as `pushScope` and
`popScope` do, including that `popScope` frees the registers only from the scope
pushed last. The ghosts `closures[k].vars` name the variable each capture stood
for, which is what the properties compare cells with.

Covered programs: functions with at most one parameter without default, no
`drop()` methods and no implicit calls (`Calls` has these, without cells), no
code in modules (where globals are captured too). The local
`_func_` takes its register in `Call` and is never captured. Code that a jump
skips declares nothing that is visible afterwards. The return value, loop
elements and computed values are arbitrary members of `Vals`, so a run covers
every program of those shapes rather than one.

A function is left in one of two ways. `Return` is a return statement: its value is
computed in the next register, above every variable, and moved to `registers[-1]`.
`FallOff` is the end of a body, for which the compiler emits `OP_VOID 0` and
`OP_RETURN 0` (`compiler.cpp:761`), and register 0 is the *first parameter*: it
is overwritten and moved out before `exitScope(registers)` closes its cell. A
closure that captured it keeps no value, although captured variables should "persist even
after going out of scope" (`docs/syntax/functions.md:75`). With the interpreter, after
`make g = null; func f(x) { g = || { return x; }; } f(5);` the call `g()` gives `()`; it gives 5 if `f` ends in
a `return null;`. In the model, `Leaves = {"fall"}` in `closures_structured.cfg` makes TLC
report `ImplementsVariables` violated after `Call`, `MakeClosure`, `CaptureLocal`, `FallOff`. Both
actions are `OpReturn(file)`, which is given the register array as it is after the move, so
that the order of the two effects, move and close, is part of the model. The body of a
function is a block in a scope of its own. The model lets the first block of a
function (`cur.base`) stand for the parameters' scope with or without that
block in it: statements of the body run in a block entered with `EnterScope`, or,
where nothing tells the two apart, in the first block itself. A return statement is then
an early exit unless it is the whole body, as in a lambda `|x| => value`.
Temporaries (registers from `nextReg` on, the slot in which a return value is
computed among them) and the content of `_func_` are not represented.

`Leaves` says which early exits and endings the programs use: `return` inside a block,
`break`/`continue` (`Leave`), runtime errors (`Error`), and, as "fall", functions that
fall off their end while a closure has captured their first parameter; without
it only functions whose first parameter is not captured end that way. The three early
exits leave scope starts behind that no scope belongs to any more: `OP_RETURN` and the jumps do not
take them off, and `clearVM`, which closes cells from the scope starts only,
misses the cells of a function's parameters, whose scope starts after them
(`vm.cpp:604`). So the properties of variables as such are checked with `Leaves = {}`,
and those of the bookkeeping with all four.

### ReplDeclarations

A line is a sequence of statements that `StartLine ... FinishCompile` compile,
one action each, and that the VM then runs instruction by instruction. The
content of a register is the *name* of the variable last written there, so that
"x still has its value" can be said. Expressions are one instruction `EVAL`
that names the registers it writes; it succeeds, fails, or runs declarations of
its own (`Nested`: a function it calls, or a block).

`features`, chosen at the start and never changed, is what the lines of a
session do beyond declaring new names, plain functions and types with
initialisers that fail by themselves: redeclare names, declare closed functions,
fail in expression statements, run declarations inside others, slip a register
in conditions, or go on after a failed import. A property that the code only
keeps in some sessions says so in its premise. What breaks it in the others:

* an expression statement that fails rolls nothing back, so the declarations
  after it on the line stay known although they were never executed;
* a declaration executed inside an initialiser ends the outer one
  (`OP_DEF_END`, `vm.cpp:1231`), whose variable survives its failed initialiser;
* `if (undefinedName) {}` frees a register too many (`compiler.cpp:1089`), and the
  next declaration overwrites a variable;
* `removeVar` pops the last entry of `declaredVars`, which is another function's
  when several closed functions are hoisted (`compiler.cpp:157`), and an earlier
  function's declaration is removed when its redefinition does not compile
  (`compiler.cpp:852`);
* a failed import resets the error state inside a line that goes on
  (`vm.cpp:827`), and the compiler of the next module does the roll-back that was
  due to the session's;
* a redeclaration whose initialiser fails leaves an empty roll-back, and the next
  compile reads past the end of `declaredVars` (`ClearIndexInRange`, which
  `compiler.cpp:164` asserts): `make x = 1;`, then `make x = 1/0;`, then any line.

Undefined behaviour is a choice: the read past the end of `declaredVars` gives
any register (`ClearedNextReg`) or ends the program (`StartLineCrash`,
`RunImportCrash`), and so does `pop_back` on the empty vector (`FuncDeclCrash`).
These actions end in the phase "crashed", after which `Restart` begins another
session.

Left out: local scopes (only what they do to `nextReg` and to the VM's note),
attributes other than `closed`, access flags, several entries in one `use`, and
names longer than the limits.

### ModuleImports

A file stands for all paths that name it, because both tables compare paths by
file identity (their hash function returns a `bool`, so that equal paths always
meet). What a module imports is a member of `Programs`, chosen when it is read;
its text is `good`, `unparsed` (the parser reports errors and the rest is
executed, because `getModuleTable` does not hand `hitError` on) or `uncompiled`
(nothing is executed). `stack` are the nested calls of `getModule`. The file
system is external: `Write` and `Delete` happen between any two steps. `reports`
is whether `diagEngine` holds reports; errors at run time are emitted at once,
and everything that waits with them. `faults`, chosen at the start, says whether
modules fail as they run and whether files are missing in this session. What the
two properties that depend on it leave out: a file that was missing stays pending
(`vm.cpp:821`), so that once it exists its import is refused as circular; and a
runtime error is not noticed by `getModuleTable` (`modules.cpp:60`), whose reports
have been emitted and cleared by then: the module is cached half evaluated,
although `vm.cpp:132` says that `moduleError` is there "to indicate that a module
failed to be evaluated". The model also shows that `moduleError` makes every later
module of a line count as failed, and that modified modules are served from the
cache, which `docs/syntax/modules.md` says and a comment in `vm.cpp` denies.

Left out: the entries of a module, private declarations, and reports that do not
stop a program (a refused call at the depth limit).

### ControlFlow

A session: `ReadLine` parses and compiles one line (one statement with all that is
in it), and the actions after it run its code, one per opcode. The parser and the
compiler are operators that take their own state (`p`, `c`) through the tree in the
order of the code, because nothing interleaves with them; what outlives a line
is in the variables `fallthrough` and `labels`. As in `runCompiler`, a line that the
parser refuses is compiled all the same. An instruction takes one place in the
code, jump lists are sets of places, and null pointers are names missing from
`lists` or tables: their use is the phase "crashed". Conditions, loops'
iterables and case comparisons have arbitrary outcomes, so a run covers every
execution of a program.

`StructuredPrograms` defines what a program is meant to do, from
`docs/syntax/control_flow.md` and `test/branching/match.ch`: `rest` is the sequence
of statements and marks still to be done, `Unfold` takes it apart, `Expected` is
the observable step that comes next and `After` what remains. `FollowsProgram`
compares each observable instruction with it. What it means to be refused is
`WellFormed`, which does not look at flags but at what is around a statement.

The comparison is for programs that `Documented` accepts. The model follows the
code for the others too, and they do the following:

* `break`, `continue` or `end` in a function inside a structure pass the parser,
  whose flags do not stop at functions, and end the program at a null pointer
  (`compiler.cpp:1354`);
* so do loops nested in a loop of the same label (`compiler.cpp:485`);
* in an else clause, jumps belong to the loop that the clause comes after
  (`compiler.cpp:1134`): `break` leaves the clause and `continue` is a jump that is
  never patched; the parser counts them to the loop around;
* `fallthrough` that does not end its case is taken for the case's, or for that of
  an inner match (`parser.cpp:828`).

Two more premises of `FollowsProgram` are about what documented programs do. A
line that is refused for a case after the default leaves the flag `fallthrough`
set, and the first case of the next line's match falls through (`parser.cpp:1019`;
`NothingLeftBehind` says that it takes a refused line for that). And once one case
falls through, the later ones do as well: `Cascades` are the matches where
that makes no difference, and the finding of `match_direct_entry` is about the
others. `RegistersReturned` leaves nested scopes out: `popScope` returns the
registers from the start of the scope pushed last, so the outer scope's stay taken
(after some 140 lines like `for (i in 0..=1) { i; }` the counter has wrapped
and the next loop overwrites a variable of an earlier line).

Every program of the instance was also compared with the interpreter built from
`src/`: whether it is refused, whether the interpreter ends, the sequence of
observable steps for random outcomes, and the flag that it leaves.

Left out: declarations inside the statements (their registers are the subject of
`ClosureVM`), `return`, other expressions than conditions, jumps of more than 64
KiB, and the parser's recovery beyond the statement in error.

### LinearTable

One action per operation that a script has for tables: `Set` (assignment and the
pairs of a literal), `Get` (`t[k]`, `get`, `in`), `Pop`, `Size`, `Clear`, and
`StartLoop`, `NextPair`, `Break` for a loop. `findSlot` is an operator: where the
search stops (`Stop`), and the *last* tombstone on the way if it found
nothing (`FindSlot`). An assignment that needs more room is not one action: `Resize`
starts a rehash, `RehashSlot` is one turn of its loop (the call of `add` on the
new table included) and `EndRehash` replaces the table and adds the pair, so that
the states in between are checked too. A table whose pairs were all popped grows
at once and keeps its `used` and `maxIndex` (`Grow`), which is why `used` is only an upper bound
of the slots in use.

A loop keeps a pointer into the slots: `iter.at`, with `iter.valid` for whether those
slots still exist. The ghosts `due` and `fresh` are the pairs that the loop started
with and has still to visit, and those added meanwhile, which it may or may not visit.
After a resize or a `clear()` in the loop's body the pointer dangles; `NextOfFreed`
says what can follow, and the interpreter does crash there. `clear()` frees the
slots without new ones, so that an assignment to a cleared table reads
`entries[hash & (0 - 1)]` of a null pointer and ends the program (`SetOnCleared`),
where `docs/syntax/values.md:227` promises a new pair. Reading such a table is
harmless, because `get` and `contains` look at `count` first.

Keys are compared by `==` and searched from their hash, which is a constant here, and
two keys are `==` only if they are the same. Not so in the interpreter: 1 and 1.0
are equal and have different hashes. Nor are keys modified while they are in the table, which
`docs/syntax/values.md` warns of. `merge`, copies and initializer lists are left out:
no script reaches them for its tables.

150 random sequences of these operations, run by the interpreter built from `src/`,
gave the answers of the model.

### Calls

What a program does (loads, blocks, calls, returns, errors) is arbitrary, as long
as it keeps the compiler's discipline: a callee and its arguments are the last
temporaries of the block, blocks nest, literals are completed. The ghosts
`top`, `low` and `blocks` of a frame are the compiler's `nextReg` and where its
temporaries begin; `MaxTemps[d]` bounds them at depth `d`. Two more ghosts say where things
belong: `under` of a frame is the number of entries in `scopes` when it was entered, `depth` of
a C++ function the activation it runs in or has started. `busy` of a `dropInstances` is
the place in `active` of the instance whose `drop()` method it is at, 0 for none.

The code has no check that a window fits in the register array, only debug assertions. What it does
past the end is undefined, so `WidthAssumption` is a condition on programs: a window uses fewer
than `Width` registers, and `NumRegs >= (2 * MaxDepth + 1) * Width`. For the constants of the
code (4096 registers, 1000 frames) not every program meets it; one that never has more than
`D` frames behaves as in the model with `MaxDepth = D`, and meets it with windows of
`W` registers if `(2 * D + 1) * W <= 4096`. Twice the depth, because an error leaves the
window where it was and `clearVM` runs `drop()` methods, up to `MaxDepth` frames of them, above it.

The VM's recursion is in `native`, the C++ functions that have not returned:
`call` is a `callUserFunc` whose code is run by `executeChunk` (every call the VM
makes itself, every call within one of these, and every call whose default values are being computed),
`make` is `callUserType` or `OP_FINISH_FIELDS` with `finishFields`, and `drop` is
`dropInstances` with what it is part of: a return, a scope exit, an iteration, `clearVM` or `~VM`.
Its top says who goes on, code or C++. Each handler
is one action up to the point where it runs other code, and another from there
(`CallType` and `Made`, `DropInstance` and `Dropped`, `Return` and `RestoreData`).
`copy` of a call is the value that `callUserMethod` puts back in the callee's slot
afterwards, and `was` the flag `implicitCall` that it found.

`CallStack` knows no registers: an activation has a sequence of values, and a step
loads, discards or changes the values of the running one, makes a call (which
takes the callee and its arguments off the caller's values and begins an
activation with them), or ends one. `ImplementsCallStack` is that windows over
one array, with constructors, initialisers and `drop()` methods in the middle of
instructions, look like this: no call changes a value that its caller can still
name. The ghost `promised` leaves out the activations for which it does not hold
(everything about their callers is still checked):

* methods called by code: `callUserMethod` puts the method object back after a
  call that has only been set up (`vm.cpp:741`), in the *callee's* window at
  `start - 1`; `func f() { return o.n(7, 8, 9); }` runs `n` with `<method n> 8 9`.
  Inside an implicit call it is put back after the method has ended, over its result;
* methods with a variable parameter: `OP_VAR_ARGS` counts `args` from a window
  that begins with the instance, so the last argument is lost (`vm.cpp:1680`);
* functions with a variable parameter and a default value that is not given: the
  calls made by the default value overwrite `args` (`vm.cpp:563`).

`bound` is the instance in a type's one `Method` object; the ghost `got` in a
method value is the instance that the script named. That these differ is the
finding of `method_calls`.

Each instance with a `drop()` method is listed in `active` with the register that
it was made in, also when it has been stored elsewhere since; leaving a scope
drops the instances at the back of the list, for as long as their registers are in the
scope. That such a list is not sorted by register, and changes while it is worked
through (a `drop()` method makes instances, leaves scopes and returns), is what
`NoneLeft`, `AllDropped` and `DroppedOnceUnlessMissed` are about. What they leave out:

* an error in a `drop()` method unwinds every `dropInstances` on the C++ stack, and each
  takes the *last* entry off the list (`vm.cpp:957`): if the method had made an instance
  itself, that one is never dropped and its own is dropped twice;
* `clearVM` calls `drop()` methods outside the `try` block of `execute`
  (`vm.cpp:605`): an error in one of them ends the program (status "aborted");
* at the depth limit a `drop()` method is refused with a report, and its instance is
  off the list all the same (`vm.cpp:616`);
* a scope that a return left behind in `scopes` makes a later exit look in the
  wrong place (see ClosureVM): the instances of that scope are dropped later.

Instances are also dropped when they leave their scope alive (returned, or stored in an outer
variable): the code does not know, and the documentation does not say.

Random simulation of larger instances (three frames, four instances, five kinds of
functions; 30 million states) violated none of the properties.

Left out: cells and closures (`ClosureVM`), built-in functions and methods, more
than one field, access modifiers, references and what collections hold.

### CacheFiles, CacheFormat and BytecodeCache

`CacheFiles` is the protocol. A `job` is one run of the interpreter; its phases are the
moments between which the user may edit the file or kill the process: before the times are compared
(`lookup`), before the source is read (`reading`), while it is compiled, while the cache file
is open (`writing`: opening it has emptied it), and before it is loaded. What is in a file is
its text. `clock` is the time that the file system gives, which advances
between any two steps, so that a job may take no time or any. The ghost `had` is what the
source has said since the job began: running any of that is right.

`Beyond` names what else a session does, and `RunsSource` is about sessions with kills alone. The others
break it, each in a few steps (confirmed by TLC and with the interpreter):

* `tie`: an edit in the instant of the save is never noticed (`>=` in `utils.cpp:66`, as
  `docs/tools/interpreter_options.md:138` says);
* `during`: so is one while the old text is being compiled and saved;
* `restored`: so is an older version of the file that is moved back;
* `elsewhere`: the cache is looked for beside the source (`main.cpp:70`) but saved in the
  working directory (`options.cpp:129`), and the name recorded in it is not compared:
  after `choice -c ../y/a.ch`, `choice a.ch` runs the program in `y`.

`CacheFormat` is the layout. A program is a record of code, constants and debug ranges;
`CodeFile` and `DebugFile` are the bytes that saving writes, `LoadProgram` is the program in given
bytes, and `Inspect` the offsets that the inspector finds. Sizes are computed by operators
of their own (`CountPool`, `ByteSize`), as in the code, not from what is emitted. The headers
and the program are as in the code with two bytes to a word instead of eight, and one byte each
for the magic and the version, which never differ here. `BytecodeCache`
puts the two together: `Emptied`, `Saved` and `CutShort` are `Open`, `Close` and `Abort` with
bytes. A save that is cut short has written some blocks of each file.

What the model shows beside the properties: marks of computed functions are not saved
(`Kept`), so after `@(computed) make c = 5;` a cached script prints `<lambda>` for `c`; separate debug
information can only be saved for scripts without constants (`Savable`: `object.cpp:501` takes
every constant for a function, and the interpreter crashes), which leaves an empty
cache file that makes `choice` refuse the script until it is edited; a refused cache is not
replaced by the source beside it; names longer than 255 bytes are written with
their length modulo 256. A debug file that is cut short gives its blocks to the wrong chunks or none
(`matchDebugMetadata` reads past the end of its list); what happens then is the outcome
"undefined", and the bytes of such files are not compared.

Left out: the text of the source that is loaded for diagnostics, the display of the inspector
and of the disassembler, other versions of the interpreter, two interpreters at a time.

## 3. What is checked

All runs finish in about two minutes or less each. "Violation" runs end in the
counterexample that the finding of the same name in `PROJECT.json` describes;
every one of them was reproduced with the interpreter built from `src/`.

| Run | Result | What it shows |
| --- | --- | --- |
| `closures_structured` | pass | without early exits, and with no captured first parameter at the end of a body, `ClosureVM` implements `CapturedVariables`, and every iteration has a variable of its own |
| `closures_early_exits` | pass | with every early exit and ending: cells sorted and listed, none closed early, one per variable, registers disjoint, returns close their frame |
| `loops_after_return` | violation | a stale scope start makes iterations share a variable |
| `repl_failures` | pass | with one kind of failure in a session: known = executed, no variable loses its register, (each under its premise); however failures combine: nothing is taken from earlier lines, a rejected line leaves nothing, the VM's note never outlives its line |
| `imports` | pass | no circular evaluation and every line ends, whatever fails or changes; pending = being evaluated, cached = whole, in sessions without the fault that breaks them |
| `control_flow` | pass | jumps reach what they should for every outcome, conditions read what they computed, lines are refused exactly when they should be, nothing is left behind |
| `match_direct_entry` | violation | a case falls into the next because of an earlier case's `fallthrough` |
| `linear_table` | pass | the table implements `PartialMap`, every search ends, no rehash starts another, loops visit every pair that stays |
| `bytecode_cache` | pass | what runs for a source file is what it says, with edits and kills at any moment; whole files are read back and inspected right, in each state of debug information, and cut files refused |
| `calls` | pass | calls, implicit and explicit, nested, refused and failing, implement `CallStack`; windows stay in the array and frames within the limit |
| `drops` | pass | every instance is dropped once and not after its scope, unless a `drop()` method failed or was refused; `implicitCall` always tells who runs the code |
| `method_calls` | violation | a method is given an instance that it was not called upon |

Every run checks for deadlock.

### Bounds

* `closures_*`: 6 registers hold a script variable, a loop variable with its
  iterator, and a call with one parameter and `_func_`; three variables, two
  cells and two closures are what it takes for two closures to meet in a cell
  that is, or is not, their own; two scope starts are one that is stale and one
  that is not. Two call levels let a closure be captured from a closure
  (`CaptureCell`). `MaxCaptures = 1`: a second capture of the same closure does
  what the capture of a second closure does. Where contents do not matter to the
  properties there is one value; the refinement has two, and two variables (with three
  variables and one scope start it holds too, in three minutes).
* `repl_failures`: two statements in a line, each with one or two names, put a failure
  before, in and after a declaration; two names can be redeclared in both orders, and
  with two statements of two names there are entries before and after the failed
  one. Registers bound how long a session
  lasts: at most `NumRegs - 1` globals, with lines that are rolled back taking
  their registers back, so that sessions go on for any number of lines.
* `imports`: two files import each other and themselves, in sequences of up to
  two imports. `MaxVersion` bounds the writes of a file: two are one before and
  one after its import. `MaxPending = 2` tells one stale entry from the entry of
  an import in progress. `MaxDepth` is above the depth that cut-off imports of
  that many files can reach, so it never blocks (a mutant that lets imports
  recurse does reach it).

* `control_flow`: every jump, alone, in a branch and at the end of a block, in each
  structure, inside each structure with and without label, `where` and else
  clause: three structures deep is where the innermost jump can skip one loop
  or match to reach the next. Matches of four cases show a fallthrough that goes on
  past two others. Conditions nest two operators, so that a jump over an operand
  lands on another jump. Any number of lines follow each other, in any order.
  Loops run any number of times: a position in the code with its `rest` recurs.

* `linear_table`: three keys, of which two start at the last slot of any table, so
  that probes wrap around, and one is in their way; capacity 8 is two doublings, the
  second of a table that tombstones have filled. Hashes are fixed in the run and
  arbitrary in the proof.

* `calls`: a function without fixed arguments but a variable parameter or a default, one whose
  default value makes calls, a type with a constructor and `drop()`, and one with a method and a
  field initialiser. Two frames below the script put a call inside a default value,
  a constructor or a `drop()` method and still reach the depth limit; three temporaries of the script are a
  callee, an argument and a value below them that must survive. `NumRegs` is what
  `WidthAssumption` requires, so that windows never leave the array. The views (`LiveState`, `DropState` in
  `MCCalls`) leave out registers whose content no later step reads; both
  were checked to be deterministic: states with one view have the same successors' views.
* `bytecode_cache`: of four scripts one does not compile, one has nothing but code, and two
  have every kind of constant between them (functions in functions, default values
  with and without constants, types with and without fields, empty and long enough to need two bytes of a
  word). Three times are before, at and after a save. A block of 11 bytes cuts each file in
  some 5 to 10 places; with single bytes (2.5 million states, `MaxTime = 1`) every prefix is refused too.
* `drops`: two instances are one and the one that its `drop()` method makes; two
  scopes are one that is stale and one that is not.

### Fairness

Only `ModuleImports` has a liveness property, `LineTerminates`, under
`WF_vars(Interpreter)`: the interpreter is one sequential program, and while a
line runs nothing keeps it from its next step. The user and the file system
(`Start`, `Write`, `Delete`) are under no obligation. Programs are finite
sequences of imports, so the property says that *imports* do not keep a line from
ending; loops in a program are not modelled.

## 4. What is proved

`ClosureVM_proofs`, for any number of registers, frames, scopes, cells and
closures (`ConstantsAssumption`) and any `Leaves`, that is, whatever early exits and endings the
programs use:

* `TypeCorrect`: `TypeOK`, with the depth limit of calls;
* `CellsSorted`: `SortedActive`, on which the early stops of `captureValue` and
  `closeCells` rest;
* `CellsListed`: `ActiveIffOpen`;
* `ReturnsClose`: `ReturnClosesFrame`, an action property;
* `VariablesLaidOut`: the invariant `VInv` below, and from it
  `RegistersNeverShared` (`RegistersDisjoint`), `CellsStayOpen`
  (`NeverClosedEarly`) and `CellsShared` (`OneCellPerVariable`).

None of these is inductive alone. `IInv` adds `StackShape` (how blocks, frames
and scope starts nest: needed so that `Front(scopeStarts)` and `Last(frames)`
are defined and in range) and `ClosureShape` (captures and cells in step:
needed to type `CaptureCell`). Sortedness depends on the listing (a new cell's
address is not that of a listed one, because the reverse scan found none, which
is right because the list is sorted), so the two are proved together. Each
action has a lemma; the lemmas about `InsertAt`, `CloseCells` and `CaptureValue`
are stated once.

`VInv` relates the machine to the variables of the compiler, still for any `Leaves`:

* `BlocksNest`: the blocks of all contexts lie one above the other in the register
  array, and each variable of a block in the registers of that block. That two variables
  never have one register follows;
* `Layout`: how the window, the scope start and the next register of each context lie
  to those of its caller, and that the entry of `scopeStarts` that an exit will pop, and those that
  later exits will pop, are not below the start of the block that is left, *even when stale entries
  are among them*. It is what makes early exits harmless here: a stale
  entry closes too little, never too much;
* `GlobalsUncaptured`: a global's register has no open cell, for `closeCells` would
  never reach it;
* `NeverClosedEarly` and `OneCellPerVariable` themselves, which need each other: a second
  capture of a variable finds its cell because the cell is still open.

Its last part, for any constants with `Leaves = {}` (no early exits, and no function falls off
its end with its first parameter captured):

* `ScopesStructured`: the invariant `SInv`;
* `IterationsApart`: `IterationsIndependent`;
* `MachineImplementsVariables`: `ImplementsVariables`, so `ClosureVM` implements
  `CapturedVariables`.

Otherwise these are false: `loops_after_return` shows one way for the iterations, and
the captured first parameter (section 2) one for the refinement, so the hypothesis is not a convenience. The step of `OP_RETURN` is
proved once, for any register array `file` that it may leave, as long as the registers of
the captured variables are as they were; `EndsOfFunctions` shows that the two
ways to leave a function are of that kind, `FallOff` because of the hypothesis. `SInv` adds to `VInv` that nothing is stale and `scopeStarts` holds the starts of the
open blocks and nothing else (`Structured`), which makes every exit close *exactly* the cells
of its block (`LimitExact`), and that an open cell belongs to a variable in scope and no
cell to two variables (`CellsOwned`), without which a captured write could be seen by a
stranger. The refinement then has four kinds of steps. Variables begin or end
(`Turned`), one is captured (`CapturedOne`), one is written (`Written`), one is read
(`Fetched`); each maps to the step of `CapturedVariables` of that kind, or to a stutter, and
each action of the machine is one of them. `ContentIs` says what the content of a
variable is in each of the three places it can be: a register, an open cell, a closed
cell. `MarkersAssumption` (no value of the program is the marker of a variable that
is unborn or gone) is needed because the abstract contents are told apart from them.

`ModuleImports_proofs`, for any set of files, programs, versions and faults
(`ImportsAssumption`):

* `TypeCorrect`: `TypeOK`;
* `NoCircular`: `NoCircularImport`;
* `OnlyCircularRefused`: `PendingIsStack`, if no files are missing;
* `WholeCached`: `CacheIsWhole`, an action property, if modules do not fail as they run
  and no file is missing.

The invariant adds `EvaluatedIsPending`: a module being evaluated has a pending
entry. The converse fails after a missing file, so the proof of `NoCircular` cannot
use it: what carries it is that entries are only taken out by the end of an evaluation, and
that no other module being evaluated is of the same file. `CacheIsWhole` is about one step,
`Return`, but that the module it caches is whole follows from what every earlier step left:
`WInv` adds that nothing is evaluated between lines (`IdleIsEmpty`) and that a module that is
not whole has left a report or has set `moduleError` (`FailureIsKnown`), which
`getModuleTable` looks at.

`ReplDeclarations_proofs`, for any names, numbers of registers, lengths of lines and features
(`ReplAssumption`):

* `TypeCorrect`: `TypeOK`;
* `NoteEndsWithLine`: `NoStaleDeclaration`, with all features;
* `EarlierLinesStay`: `EarlierLinesKept`;
* `RejectedLineTakenBack`: `RejectedLineUndone`;
* `RollBackIsExact`: `KnownIffExecuted`;
* `VariablesKeepRegisters`: `VariablesIntact`.

`NoStaleDeclaration` alone says nothing of the line being run. `TInv` adds that every
declaration started in the code ends further down (`Bracketed`), which each statement
keeps because it appends both ends or neither, and that while the VM is in a declaration, its
end is still ahead (`EndAhead`); `Room` keeps the registers of hoisted functions in range.
`RInv` says of a line being compiled or run that it declares nothing of earlier lines
(`LineIsNew`) and that `declaredVars` lists all that it added to the table (`LineIsListed`).
For the exact roll-back, `XInv` relates code and list: every note counts the entries whose
variables have their values by then (`Matches`), so that the VM's `clearIndex`, taken
from the note (`NoteIsRight`), is where the entries that were never executed begin.
`RolledBackNames` is the lemma that connects the two: what the next `StartLine` takes
back of such a list leaves exactly the names before the index.
That the variables keep their values needs three more parts (`VInv`): each variable in the
table has a register of its own below `nextReg`, and the line's list is sorted by register, above
the variables of earlier lines (`TableSound`), so that a roll-back frees only registers above
those it keeps; each instruction writes to the registers of what it gives, and one that can fail
to those of no variable that has its value by then (`CodeSound`); and the registers hold the
variables that were executed (`Holds`).

`LinearTable_proofs`, for any keys, values, hashes and capacities
(`TableAssumption`):

* `TableIsMap`: `ImplementsMap`, so `LinearTable` implements `PartialMap` with
  `MapOf(table)` for the map;
* `SearchesEnd`: `ProbesEnd`;
* `LoopsVisit`: `LoopsVisitAll`;
* `TypeCorrect`: `TypeOK`.

The invariant says of each table (`Sound`) that no key is in two slots
(`UniqueKeys`), that no empty slot lies between a key's own slot and the one it is
in (`Reachable`), that `count` is exact, `used` no less than the slots in use and
at most 0.8 of the capacity (`Counted`), and that no used slot lies beyond
`maxIndex` (`Covered`, or `rehash` would forget pairs). `Finding` is the heart: in a sound table a search
finds the slot of the key, or a slot that later searches will reach. That a table
is never full follows from `Counted` (`EmptySlot`), and that probing is a
bijection of distances and slots (`Probing`) makes the empty slot one that every
search comes to. While pairs are moved (`Moving`) the new table has exactly those
below `index`, and has used no more slots than the loop has passed, which leaves room for the
rest. `SizeIsCount` relates the counter to the cardinality of the map's domain.
One lemma per operation shows that it keeps all this and does to the map what
`PartialMap` says, or nothing (`MapStep`). The loop's invariant `LoopOK` is the
property itself with the types it needs: what lies ahead of the pointer is what is due, and
perhaps fresh pairs.

`Calls_proofs` and `Drops_proofs`, for any functions, types, depths and register counts
(`ConstantsAssumption`, `WidthAssumption`):

* `FlagMatchesStack`: `ImplicitWhileNative`;
* `TypeCorrect`: `TypeOK`, so that no window leaves the register array;
* `OnceUnlessMissed`: `DroppedOnceUnlessMissed`;
* `AllDroppedAtEnd`: `AllDropped`;
* `NothingLeft`: `NoneLeft`.

That the flag is right after a call has ended needs to know which flag it saved. The
invariant `Inv` (`InvariantHolds`) is `NativeOK(native, implicit)`: each entry of the
stack is a well-formed `call`, `make` or `drop`; the flag `was` of a call is true iff an
implicit call lies below it; a `drop` that is part of a return has its call just below
it, or is at the bottom; those of `clearVM` and `~VM` are alone; and `implicit` is true
iff an implicit call is on the stack.

The machine keeps no record of which call made which instance; it compares registers. So the
invariant `DInv` (`DropInvariantHolds`) of the other four ties every instance to the
windows and blocks of the activations (`Ctx`, the callers and the running one):

* `Typed`, `Entries`, `Listing`, `Unique`: what the state consists of; the instances that
  are being made are not made yet, those that are listed are;
* `Windows` (with `Laid`): each window begins near the end of its caller's and above all its blocks;
  `Waiting`: a caller is where the callee's return will find it, with room for the result;
* `Links`: the C++ functions on the stack, except calls by code, belong to activations
  of growing depth, and the top one to the running activation. Without it nothing says
  whose window a `dropInstances` will find when the call above it has returned;
* `Busy`: the instance that a `dropInstances` is at lies below the window of its
  `drop()` method, and everything listed after it does not. Since a call leaves nothing
  listed at or above its window, the instance is the last of the list again when
  its method has ended, which is when the code takes the last one off;
* `Fenced`: in the list, no instance that a call or block has made comes before one that lies below its
  window or start. The list is not sorted, but this is all that a search from the back needs;
* `Near`: an instance is within a byte's reach of every window whose code may have to drop it, which
  the window of its `drop()` method is computed from;
* `Scoped`: the starts that later exits will pop, stale ones included, are not below their blocks;
* `Ends`: what is left when the script is over;
* `Counted`: as long as none failed, an instance has been dropped once, or is listed once and has not been
  dropped, or is listed and being dropped.

The first theorem is in `Calls_proofs`, the others in `Drops_proofs`. Each action has a lemma; those that leave calls, C++ functions and lists alone share
`LocalStep` and `LocalKeeps`, those that begin a call share the lemmas about `Opened`, and those
that end one `Returns`.

`CallRefinement_proofs`, under the same assumptions:

* `CallStackImplemented`: `ImplementsCallStack`, so `Calls` implements `CallStack`;
* `RefinementInvariantHolds`: the invariant `RInv` it rests on.

`DInv` says that windows are in the array and nest; it does not say which registers the code
of a waiting activation will still read, nor what a C++ function on the stack remembers of
the activation it runs. `RInv` is `DInv` and `Shape`:

* `Separate`: a caller's values end below the window of its callee (`Above` is where
  they end), and by exactly one register, the slot of the callee and of the result, if
  the program makes the call;
* `Fitting`: the entry of a call has the start, the function and the receiver of the
  activation it has begun (`Started`); a `make` knows the top of the code it interrupts, where
  the instance will go; and a `drop` does not reach down to the values of the code it is part of;
* `Deeper`, `Computing`: no activation has two calls on the C++ stack, and one that computes
  default values has one, so that the end of `prepFuncArgs` copies the arguments of the
  right call;
* `Promising`, `Gathering`: what holds wherever `promised` is set. It is what makes
  the arguments that `OP_VAR_ARGS` gathers the ones that were passed, and a return leave the
  result where it is;
* `Idle`: after the script only `drop()` methods run, none of which returns a value to it.

The same lemmas carry all actions: the values of an activation are kept if nothing below its end changes
(`ValsKept`, and `CallersKept` for all the callers at once), so a step of one activation is a
`Within` (`InPlace`), a call an `Entered` (`EnterFollows`: shared by code, constructors,
initialisers and `drop()`), a refusal at the limit a `Within` that leaves one value
(`CodeRefused`, `TopRefused`), a return a `Left` (`CallerReceives`) and an error an `Ended`
(`ThrowFollows`). Steps of C++ functions that begin or end no call are stutters. The exceptions are those of the
ghost `promised` (section 2); what is said of the callers has none.

`CacheFiles_proofs`, for any texts and times (`CacheAssumption`):

* `RunsWhatItSays`: `RunsSource`, if nothing but killed interpreters is in `Beyond`;
* `Types`: `TypeOK`, whatever is.

The invariant says that a whole cache that is no older than the source has its text
(`CacheFollows`), which an edit keeps because it comes later than every save, and a save
because no edit comes between its reading and its writing; and what a job holds at each
phase (`JobFollows`): a job that compiles for the cache has the source's text, one that
loads has one that the source had since it began.

Only model-checked: everything under fairness (TLAPS does not handle liveness and
`ENABLED`); the properties of `ControlFlow`; `ReadsBack` and `InspectorFollows`. `ControlFlow` computes on
trees with RECURSIVE operators, as `CacheFormat` does on constants within constants: that
puts their properties out of the prover's reach, as does the induction over data that
they would need. Every other property that a passing run checks is a theorem above.

## 5. Plan

Done: `CapturedVariables`, `ClosureVM`, `ReplDeclarations`, `ModuleImports`,
`StructuredPrograms`, `ControlFlow`, `PartialMap`, `LinearTable`, `CallStack`,
`Calls`, `CacheFiles`, `CacheFormat`, `BytecodeCache` and the proofs above. Next, most important first:

1. `CompilerScopes`: resolution of names against a reference definition of
   lexical scoping, registers as `u8`.
2. `Mutability`: `fix`, `immut`, `mut` and references against "a fixed object
   never changes".
3. `SessionState`: the lexer's nesting depth and the parser's other flags across lines.
4. The optimizer's folding, iterators and ranges, equality and
   hashes of objects: operators checked against reference definitions.

`hazards` in `PROJECT.json` lists what is hard to test in this code, at its
lines; those that no property covers yet say which step of the plan will.
