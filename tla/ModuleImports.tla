---------------------------- MODULE ModuleImports ----------------------------
(***************************************************************************)
(* Imports.  "use f" looks f up among the imports in progress and in the   *)
(* cache, and otherwise compiles and runs the file with a Compiler and a   *)
(* VM of its own, nested in the VM that imports it.  The pending imports,  *)
(* the cache, the flag moduleError and the list of errors to be reported   *)
(* are shared by all of them.                                              *)
(*                                                                         *)
(* A file stands for all the paths that name it: the comparators of both   *)
(* tables ask the file system whether two paths are the same file, and     *)
(* find nothing for a file that does not exist.  The file system changes   *)
(* at any time; the content of a file is its version.                      *)
(***************************************************************************)
EXTENDS Integers, Sequences, SequencesExt

CONSTANTS Files,        \* The files that are imported.
          MaxVersion,   \* Bound: versions of a file.
          Programs,     \* The imports that a module or a line executes, in order.
          MaxPending,   \* Bound: pending entries of one file that are told apart.
          MaxDepth,     \* Bound: nested imports.
          FaultSets     \* What goes wrong in a session: "runtime" if modules
                        \* fail while they run, "missing" if files are
                        \* absent, created and deleted.

ASSUME ImportsAssumption ==
  /\ {MaxVersion, MaxDepth} \subseteq Nat
  /\ MaxPending \in Nat \ {0}
  /\ Programs \subseteq Seq(Files)
  /\ FaultSets \subseteq SUBSET {"runtime", "missing"}

Absent == 0             \* The version of a file that does not exist.

VARIABLES
  faults,       \* What goes wrong in this session: a member of FaultSets.
  disk,         \* The version of each file in the file system, from 1 on.
  lastVersion,  \* Ghost: the newest version that each file has had.
  running,      \* A script or a line of the REPL is being executed.
  mainTodo,     \* The imports it has still to execute.
  stack,        \* The modules being evaluated, outermost first.
  pending,      \* pendingImports: how many entries each file has.
  cached,       \* cachedImports: the version that each file was cached with.
  moduleError,  \* moduleError.
  reports       \* Errors are waiting in the diagnostic engine to be reported.

tables == <<pending, cached>>
vars == <<faults, disk, lastVersion, running, mainTodo, stack, pending, cached, moduleError, reports>>

(* What comes of the text of a module.  Only the errors that the compiler  *)
(* finds keep its code from being executed: what the parser could not make *)
(* sense of is left out, and the rest runs.                                *)
Results == {"good", "unparsed", "uncompiled"}

(* A module being evaluated: the file, the version that was read, the      *)
(* imports still to execute and whether its execution is over.  Ghost:     *)
(* whole, unless an error stopped it or left a part of it out, or a module *)
(* that it imports is not whole.                                           *)
Frame(f, todo, result) ==
  [file |-> f, version |-> disk[f], todo |-> todo,
   over |-> result = "uncompiled", whole |-> result = "good"]

Top == stack[Len(stack)]
Exists(f) == disk[f] # Absent

Init ==
  /\ faults \in FaultSets
  /\ disk \in [Files -> IF "missing" \in faults THEN {Absent, 1} ELSE {1}]
  /\ lastVersion = disk
  /\ running = FALSE
  /\ mainTodo = <<>>
  /\ stack = <<>>
  /\ pending = [f \in Files |-> 0]
  /\ cached = [f \in Files |-> Absent]
  /\ moduleError = FALSE
  /\ reports = FALSE

-----------------------------------------------------------------------------
(* The file system.                                                        *)

Write(f) ==
  /\ "missing" \in faults \/ Exists(f)
  /\ lastVersion[f] < MaxVersion
  /\ lastVersion' = [lastVersion EXCEPT ![f] = @ + 1]
  /\ disk' = [disk EXCEPT ![f] = lastVersion[f] + 1]
  /\ UNCHANGED <<faults, running, mainTodo, stack, tables, moduleError, reports>>

Delete(f) ==
  /\ "missing" \in faults
  /\ Exists(f)
  /\ disk' = [disk EXCEPT ![f] = Absent]
  /\ UNCHANGED <<faults, lastVersion, running, mainTodo, stack, tables, moduleError, reports>>

-----------------------------------------------------------------------------
(* Executing a script or a line: the global VM forgets earlier failures.   *)

Start ==
  /\ ~running
  /\ running' = TRUE
  /\ mainTodo' \in Programs
  /\ moduleError' = FALSE
  /\ UNCHANGED <<faults, disk, lastVersion, stack, tables, reports>>

Finish ==
  /\ running
  /\ stack = <<>>
  /\ mainTodo = <<>>
  /\ running' = FALSE
  /\ UNCHANGED <<faults, disk, lastVersion, mainTodo, stack, tables, moduleError, reports>>

-----------------------------------------------------------------------------
(* use f, executed by the innermost VM.                                    *)

Todo == IF stack = <<>> THEN mainTodo ELSE Top.todo

Executing(f) ==
  /\ IF stack = <<>> THEN running ELSE ~Top.over
  /\ Todo # <<>> /\ Head(Todo) = f

(* The VMs, when the innermost one has gone past its import.               *)
Advanced == [stack EXCEPT ![Len(stack)].todo = Tail(@)]

Continue ==
  IF stack = <<>>
  THEN mainTodo' = Tail(mainTodo) /\ UNCHANGED <<stack, running>>
  ELSE stack' = Advanced /\ UNCHANGED <<mainTodo, running>>

(* A RuntimeError ends what the innermost VM executes.  It is reported at  *)
(* once, and with it all the errors that wait.                             *)
Throw ==
  /\ IF stack = <<>>
     THEN running' = FALSE /\ mainTodo' = <<>> /\ UNCHANGED stack
     ELSE /\ stack' = [stack EXCEPT ![Len(stack)].over = TRUE, ![Len(stack)].whole = FALSE]
          /\ UNCHANGED <<mainTodo, running>>
  /\ reports' = FALSE

(* A variant: imports in progress are not looked up.                       *)
IsPendingNever(f) == FALSE

(* pendingImports.find.                                                    *)
IsPending(f) == Exists(f) /\ pending[f] > 0

(* cachedImports.get: a file whose time of last modification is that of    *)
(* the file it is compared with, which is the same file.                   *)
IsCached(f) == Exists(f) /\ cached[f] # Absent

(* A circular import, cut off.                                             *)
UsePending(f) ==
  /\ Executing(f)
  /\ IsPending(f)
  /\ moduleError' = TRUE
  /\ Throw
  /\ UNCHANGED <<faults, disk, lastVersion, tables>>

UseCached(f) ==
  /\ Executing(f)
  /\ ~IsPending(f)
  /\ IsCached(f)
  /\ Continue
  /\ UNCHANGED <<faults, disk, lastVersion, tables, moduleError, reports>>

(* The file is gone: the error leaves getModule before the pending entry   *)
(* is taken out.                                                           *)
UseMissing(f) ==
  /\ Executing(f)
  /\ ~Exists(f)
  /\ pending' = [pending EXCEPT ![f] = IF @ < MaxPending THEN @ + 1 ELSE @]
  /\ Throw
  /\ UNCHANGED <<faults, disk, lastVersion, cached, moduleError>>

UseLoad(f, todo, result) ==
  /\ Executing(f)
  /\ Exists(f)
  /\ ~IsPending(f)
  /\ ~IsCached(f)
  /\ Len(stack) < MaxDepth
  /\ pending' = [pending EXCEPT ![f] = @ + 1]
  /\ stack' = Append(IF stack = <<>> THEN <<>> ELSE Advanced, Frame(f, todo, result))
  /\ mainTodo' = IF stack = <<>> THEN Tail(mainTodo) ELSE mainTodo
  /\ reports' = (reports \/ result # "good")
  /\ UNCHANGED <<faults, disk, lastVersion, running, cached, moduleError>>

-----------------------------------------------------------------------------
(* The module itself.                                                      *)

RunError ==
  /\ "runtime" \in faults
  /\ stack # <<>>
  /\ ~Top.over
  /\ Throw
  /\ UNCHANGED <<faults, disk, lastVersion, tables, moduleError>>

End ==
  /\ stack # <<>>
  /\ ~Top.over
  /\ Top.todo = <<>>
  /\ stack' = [stack EXCEPT ![Len(stack)].over = TRUE]
  /\ UNCHANGED <<faults, disk, lastVersion, running, mainTodo, tables, moduleError, reports>>

(* Variants: failures below the module do not count; the pending entry     *)
(* stays.                                                                  *)
FailedAlone == reports
ReleaseNever(f) == pending

(* The module counts as failed: errors of its own or of the modules that   *)
(* import it are still to be reported, or some module failed before.  An   *)
(* error that stopped it has been reported by then.                        *)
Failed == reports \/ moduleError

(* pendingImports.extract.                                                 *)
Release(f) ==
  IF IsPending(f) THEN [pending EXCEPT ![f] = @ - 1] ELSE pending

(* The rest of getModule: the importer goes on, whatever came of it.       *)
Return ==
  /\ stack # <<>>
  /\ Top.over
  /\ pending' = Release(Top.file)
  /\ moduleError' = Failed
  /\ reports' = FALSE
  /\ cached' = IF Failed THEN cached ELSE [cached EXCEPT ![Top.file] = Top.version]
  /\ stack' = IF Len(stack) = 1 THEN <<>>
              ELSE [Front(stack) EXCEPT ![Len(stack) - 1].whole = @ /\ Top.whole]
  /\ UNCHANGED <<faults, disk, lastVersion, running, mainTodo>>

-----------------------------------------------------------------------------
Environment == \E f \in Files : Write(f) \/ Delete(f)

Use == \E f \in Files :
  \/ UsePending(f) \/ UseCached(f) \/ UseMissing(f)
  \/ \E todo \in Programs, result \in Results : UseLoad(f, todo, result)

Interpreter == Finish \/ Use \/ RunError \/ End \/ Return

Next == Environment \/ Start \/ Interpreter

Spec == Init /\ [][Next]_vars

(* The interpreter is one sequential program: while a line runs it goes on.*)
FairSpec == Spec /\ WF_vars(Interpreter)

-----------------------------------------------------------------------------
(* Properties.                                                             *)

Frames == [file : Files, version : Nat, todo : Seq(Files),
           over : BOOLEAN, whole : BOOLEAN]

(* The state has its type.  In particular an import adds no entry to a     *)
(* file that exists and has one already: only attempts at a missing file   *)
(* add further entries, and those are not counted past MaxPending.         *)
TypeOK ==
  /\ faults \in FaultSets
  /\ disk \in [Files -> Nat] /\ lastVersion \in [Files -> Nat]
  /\ running \in BOOLEAN
  /\ mainTodo \in Seq(Files)
  /\ stack \in Seq(Frames)
  /\ pending \in [Files -> 0 .. MaxPending]
  /\ cached \in [Files -> Nat]
  /\ moduleError \in BOOLEAN /\ reports \in BOOLEAN

(* No file is being evaluated twice at a time, whoever deletes, restores   *)
(* or modifies files in the meantime.                                      *)
NoCircularImport ==
  \A i, j \in DOMAIN stack : stack[i].file = stack[j].file => i = j

(* Every script and every line comes to its end: modules that import each  *)
(* other do not evaluate each other forever.                               *)
LineTerminates == running ~> ~running

(* While no file is missing, a file is pending exactly while it is being   *)
(* evaluated, so that no import is refused as circular that is not.        *)
PendingIsStack ==
  "missing" \notin faults =>
    \A f \in Files : pending[f] > 0 <=> \E i \in DOMAIN stack : stack[i].file = f

(* Only whole modules are cached: no later import finds one that an error  *)
(* has left half evaluated.  So it is while no module fails as it runs: a  *)
(* runtime error's report is gone by the time getModuleTable looks for it. *)
CacheIsWhole ==
  [][faults = {} => \A f \in Files : cached'[f] # cached[f] => Top.file = f /\ Top.whole]_vars
=============================================================================
