---------------------------- MODULE BytecodeCache ---------------------------
(***************************************************************************)
(* CacheFiles with the bytes of the files: what saving writes, what is     *)
(* left of it when it is cut short, and what loading and inspecting make   *)
(* of it. A text is what the compiler makes of it.                         *)
(***************************************************************************)
EXTENDS CacheFiles, CacheFormat

CONSTANT BlockSize      \* How many bytes of a stream go to its file at a time.

ASSUME BlockAssumption == BlockSize \in Nat \ {0}

VARIABLES
  bytes,          \* The bytes of the cache file.
  debugFile       \* The bytes of its debug file.

files == <<bytes, debugFile>>

FilesInit == Init /\ bytes = <<>> /\ debugFile = <<>>

Emptied == Open /\ bytes' = <<>> /\ debugFile' = IF job.debug = "Separate" THEN <<>> ELSE debugFile

Saved ==
  /\ Close
  /\ Savable(job.text, job.debug)
  /\ bytes' = CodeFile(job.text, job.debug)
  /\ debugFile' = IF job.debug = "Separate" THEN DebugFile(job.text, job.debug) ELSE debugFile

(* Of what is to be written, a number of blocks has been, separately for   *)
(* each file.                                                              *)
Parts(all) == {SubSeq(all, 1, BlockSize * k) : k \in 0..(Len(all) \div BlockSize)}
CutShort ==
  /\ At("writing")
  /\ LET all == CodeFile(job.text, job.debug)
         debug == DebugFile(job.text, job.debug) IN
     \E part \in Parts(all), debugPart \in Parts(debug), time \in cache.time..clock :
       /\ Abort(IF part = all /\ debugPart = debug /\ Savable(job.text, job.debug)
                  THEN "whole" ELSE "partial",
                FileState(part), time)
       /\ bytes' = part
       /\ debugFile' = IF job.debug = "Separate" THEN debugPart ELSE debugFile

FilesNext ==
  \/ Emptied \/ Saved \/ CutShort
  \/ /\ \/ UseSource \/ UseCache \/ UpToDate \/ ReadSource
        \/ Reject \/ Execute \/ Load \/ Tick
        \/ \E option \in Options, debug \in DebugStates, own \in BOOLEAN : Start(option, debug, own)
        \/ ~At("writing") /\ Abort("partial", "Combined", 0)
        \/ \E t \in Texts, time \in 0..clock : Edit(t, time)
     /\ UNCHANGED files

FilesSpec == FilesInit /\ [][FilesNext]_<<vars, files>>

-----------------------------------------------------------------------------
RECURSIVE Kept(_, _)

(* What loading a program should give: all of it but the metadata that was *)
(* stripped, and the marks of computed functions, which are not saved.     *)
KeptChunk(chunk, debug) ==
  [code     |-> chunk.code,
   pool     |-> Each(LAMBDA object : Kept(object, debug), chunk.pool),
   metadata |-> IF debug = "Stripped" THEN <<>> ELSE chunk.metadata]
Kept(object, debug) ==
  IF IsFunc(object)
    THEN [object EXCEPT !.chunks = Each(LAMBDA chunk : KeptChunk(chunk, debug), @),
                        !.computed = FALSE]
    ELSE object
KeptProgram(program, debug) ==
  LET chunk == KeptChunk(program, debug) IN
  [program EXCEPT !.code = chunk.code, !.pool = chunk.pool, !.metadata = chunk.metadata,
                  !.markers = IF debug = "Stripped" THEN <<>> ELSE @]

(* What is read from a whole file is the program that was written, and     *)
(* from one cut short nothing at all: bytes.cpp takes out exactly what     *)
(* object.cpp and bytecode.cpp put in, by sizes computed separately. What  *)
(* a debug file cut short does to the file beside it is left out.          *)
ReadsBack ==
  /\ cache.state = "whole" =>
       LoadProgram(bytes, debugFile) = KeptProgram(cache.text, cache.debug)
  /\ cache.state = "partial" /\ cache.debug # "Separate" =>
       LoadProgram(bytes, debugFile) = Refused

(* The inspector finds every constant of a whole file where it was put,    *)
(* both times, and the end of the file (bytes.cpp:674-1149).               *)
InspectorFollows ==
  cache.state = "whole" =>
    LET debug  == cache.debug
        first  == Len(bytes) - Len(EncodeData(cache.text, debug))
                    - (IF debug = "Combined" THEN Len(EncodeMetadata(cache.text)) ELSE 0)
                    + 2 * WordBytes + Len(cache.text.code)
        Offset(n) == Len(Flat(Each(LAMBDA object : Emit(object, debug), SubSeq(cache.text.pool, 1, n))))
        begins == [i \in 1..Len(cache.text.pool) + 1 |-> first + Offset(i - 1)] IN
    Inspect(bytes) = [brief |-> begins, detail |-> begins, end |-> Len(bytes)]
=============================================================================
