----------------------------- MODULE CacheFiles -----------------------------
(***************************************************************************)
(* A source file, the bytecode cache beside it, and the interpreter that   *)
(* runs, saves and loads them while the user goes on editing: main.cpp     *)
(* decides by the times of the two files whether the cache stands for the  *)
(* source, options.cpp reads and writes them.                              *)
(*                                                                         *)
(* What is in a file is its text; what the cache's bytes are is the        *)
(* subject of BytecodeCache.  One interpreter runs at a time.              *)
(***************************************************************************)
EXTENDS Naturals

CONSTANTS
  Texts,          \* What a source file may say.
  Broken,         \* Those of them from which no code is generated.
  Beyond,         \* What happens beyond saves, and edits well after them.
  MaxTime         \* Bound: how often the time of the file system advances.

(* An edit in the instant of a save, one while the interpreter saves what  *)
(* it read before, one that puts an older file back, the saving of a file  *)
(* of the same name from another directory, and interpreters killed.       *)
Hazards == {"tie", "during", "restored", "elsewhere", "killed"}

ASSUME CacheAssumption ==
  /\ Broken \subseteq Texts
  /\ Beyond \subseteq Hazards
  /\ MaxTime \in Nat

VARIABLES
  clock,          \* The time that the file system gives to what is written.
  source,         \* The source file.
  cache,          \* The file with the bytecode.
  job,            \* What the interpreter was asked to do, and how far it is.
  had,            \* Ghost: what the source has said since the job began.
  outcome         \* How the last job ended.

fileVars == <<clock, source, cache>>
vars == <<clock, source, cache, job, had, outcome>>

Options == {"execute", "bytecode", "cache", "load"}
DebugStates == {"Combined", "Separate", "Stripped"}
Idle == [phase |-> "idle"]
Nothing == [kind |-> "none"]
Ended(kind) == [kind |-> kind]
Ran(text) == [kind |-> "ran", option |-> job.option, text |-> text]

Init ==
  /\ clock = 0
  /\ \E t \in Texts : source = [text |-> t, time |-> 0]
  /\ cache = [state |-> "missing"]
  /\ job = Idle /\ had = {} /\ outcome = Nothing

At(phase) == job.phase = phase

(* A variant: all but the option is forgotten.                             *)
GoToAnew(phase) == job' = [phase |-> phase, option |-> job.option]
GoTo(phase) == job' = [job EXCEPT !.phase = phase]

(* A variant: the cache is there.                                          *)
MoreRecentOrNot == cache.state # "missing"

(* fileMoreRecent: the cache is there, and no older than the source.       *)
MoreRecent == cache.state # "missing" /\ cache.time >= source.time

-----------------------------------------------------------------------------
(* The interpreter. *)

(* The source file named may be another one, in a directory below.         *)
Start(option, debug, own) ==
  /\ At("idle")
  /\ option # "cache" => debug = "Combined" /\ own
  /\ "elsewhere" \notin Beyond => own
  /\ option = "load" => cache.state # "missing"
  /\ job' = [phase |-> IF option = "load" THEN "loading" ELSE "lookup",
             option |-> option, debug |-> debug, own |-> own]
  /\ had' = {source.text}
  /\ outcome' = Nothing
  /\ UNCHANGED fileVars

(* cacheOptimize: which caches are of use for what was asked for.          *)
Loads(debug) ==
  \/ job.option = "execute" /\ debug = "Combined"
  \/ job.option = "bytecode" /\ debug # "Separate"
Keeps(debug) == job.option = "cache" /\ debug = job.debug

(* A source file that is not in this directory, or whose cache is older or *)
(* of no use, is to be compiled ...                                        *)
UseSource ==
  /\ At("lookup")
  /\ ~(job.own /\ MoreRecent /\ (Loads(cache.debug) \/ Keeps(cache.debug)))
  /\ GoTo("reading")
  /\ UNCHANGED <<fileVars, had, outcome>>

(* ... else the cache is taken for the source, and loaded ...              *)
UseCache ==
  /\ At("lookup") /\ job.own /\ MoreRecent /\ Loads(cache.debug)
  /\ GoTo("loading")
  /\ UNCHANGED <<fileVars, had, outcome>>

(* ... or left as it is, where one of the same kind was to be written.     *)
UpToDate ==
  /\ At("lookup") /\ job.own /\ MoreRecent /\ Keeps(cache.debug)
  /\ job' = Idle /\ outcome' = Ended("up to date")
  /\ UNCHANGED <<fileVars, had>>

(* Config::run reads the file.                                             *)
ReadSource ==
  /\ At("reading")
  /\ \E t \in IF job.own THEN {source.text} ELSE Texts :
       job' = [phase |-> "compiling", option |-> job.option, debug |-> job.debug,
               own |-> job.own, text |-> t]
  /\ UNCHANGED <<fileVars, had, outcome>>

Reject ==
  /\ At("compiling") /\ job.text \in Broken
  /\ job' = Idle /\ outcome' = Ended("rejected")
  /\ UNCHANGED <<fileVars, had>>

Execute ==
  /\ At("compiling") /\ job.text \notin Broken /\ job.option # "cache"
  /\ job' = Idle /\ outcome' = Ran(job.text)
  /\ UNCHANGED <<fileVars, had>>

(* optionCacheBytecode: opening the file empties it, and a file without    *)
(* the byte for it reads as Combined; closing it writes what is left.      *)
Open ==
  /\ At("compiling") /\ job.text \notin Broken /\ job.option = "cache"
  /\ cache' = [state |-> "partial", text |-> job.text, debug |-> "Combined", time |-> clock]
  /\ GoTo("writing")
  /\ UNCHANGED <<clock, source, had, outcome>>

Close ==
  /\ At("writing")
  /\ cache' = [state |-> "whole", text |-> job.text, debug |-> job.debug, time |-> clock]
  /\ job' = Idle /\ outcome' = Ended("saved")
  /\ UNCHANGED <<clock, source, had>>

(* optionLoadProgram, optionDisProgram: a partial file ends early, and     *)
(* one whose debug file is partial may be taken for anything.              *)
Load ==
  /\ At("loading")
  /\ job' = Idle
  /\ \/ cache.state = "whole" /\ outcome' = Ran(cache.text)
     \/ cache.state = "partial" /\ outcome' = Ended("refused")
     \/ cache.state = "partial" /\ cache.debug = "Separate" /\ outcome' = Ended("undefined")
  /\ UNCHANGED <<fileVars, had>>

(* A job that ends before its time leaves the file as it got it so far.    *)
(* Saving with separate debug information does so by itself for programs   *)
(* with constants.                                                         *)
Abort(state, debug, time) ==
  /\ ~At("idle")
  /\ "killed" \notin Beyond => At("writing") /\ job.debug = "Separate"
  /\ IF At("writing")
       THEN /\ state = "whole" => debug = job.debug
            /\ debug \in {"Combined", job.debug}
            /\ cache.time <= time /\ time <= clock
            /\ cache' = [state |-> state, text |-> job.text, debug |-> debug, time |-> time]
       ELSE UNCHANGED cache
  /\ job' = Idle /\ outcome' = Ended("aborted")
  /\ UNCHANGED <<clock, source, had>>

Interpreter ==
  \/ UseSource \/ UseCache \/ UpToDate \/ ReadSource
  \/ Reject \/ Execute \/ Open \/ Close \/ Load

-----------------------------------------------------------------------------
(* The user. *)

Tick ==
  /\ clock < MaxTime
  /\ clock' = clock + 1
  /\ UNCHANGED <<source, cache, job, had, outcome>>

SavedNow == cache.state # "missing" /\ cache.time >= clock
Saving == job.phase \in {"compiling", "writing"} /\ job.option = "cache"

Edit(t, time) ==
  /\ time <= clock /\ ("restored" \notin Beyond => time = clock)
  /\ "tie" \notin Beyond => ~SavedNow
  /\ "during" \notin Beyond => ~Saving
  /\ source' = [text |-> t, time |-> time]
  /\ had' = had \cup {t}
  /\ UNCHANGED <<clock, cache, job, outcome>>

Next ==
  \/ Interpreter \/ Tick
  \/ \E option \in Options, debug \in DebugStates, own \in BOOLEAN : Start(option, debug, own)
  \/ \E state \in {"partial", "whole"}, debug \in DebugStates, time \in 0..clock :
       Abort(state, debug, time)
  \/ \E t \in Texts, time \in 0..clock : Edit(t, time)

Spec == Init /\ [][Next]_vars

-----------------------------------------------------------------------------
File == [text : Texts, time : 0..MaxTime]
CacheFile ==
  [state : {"missing"}]
    \cup [state : {"partial", "whole"}, text : Texts, debug : DebugStates, time : 0..MaxTime]
Asked == [phase : {"lookup", "reading", "loading"}, option : Options, debug : DebugStates,
          own : BOOLEAN]
WithText == [phase : {"compiling", "writing"}, option : Options, debug : DebugStates,
             own : BOOLEAN, text : Texts]

TypeOK ==
  /\ clock \in 0..MaxTime
  /\ source \in File
  /\ cache \in CacheFile
  /\ job \in {Idle} \cup Asked \cup WithText
  /\ had \subseteq Texts
  /\ outcome \in [kind : {"none", "up to date", "rejected", "saved", "refused", "undefined", "aborted"}]
                   \cup [kind : {"ran"}, option : Options, text : Texts]

(* What is run or shown for a source file is what that file said at some   *)
(* time between the interpreter's start and end, whether it was compiled   *)
(* or came out of the cache (main.cpp:67-101). It is so, whoever is killed *)
(* when, as long as no edit comes in the instant of a save or in the       *)
(* middle of one, or brings an old time, and no other directory's files    *)
(* are saved here.                                                         *)
RunsSource ==
  outcome.kind = "ran" /\ outcome.option # "load" => outcome.text \in had
=============================================================================
