----------------------------- MODULE CacheFormat ----------------------------
(***************************************************************************)
(* The bytes of a bytecode cache: how a compiled program is written        *)
(* (bytecode.cpp, object.cpp), read back, and skipped over by the          *)
(* inspector (both bytes.cpp), three walks over the same layout that       *)
(* nothing keeps in step but the sizes that the first one writes down.     *)
(*                                                                         *)
(* A program is a chunk of code with its pool of constants, in which there *)
(* are functions with chunks of their own (the body's, and one for each    *)
(* default argument), and the ranges of its debug metadata.                *)
(***************************************************************************)
EXTENDS Naturals, Sequences, SequencesExt

WordBytes == 2        \* sizeof(u64) is 8; sizes here need no more.
Word(n) == <<n \div 256, n % 256>>
Flag(b) == <<IF b THEN 1 ELSE 0>>
Name(n) == <<Len(n) % 256>> \o n              \* The length is one byte.
Flat(parts) == FlattenSeq(parts)
Sum(numbers) == FoldSeq(LAMBDA m, n : m + n, 0, numbers)
Each(Op(_), seq) == [i \in DOMAIN seq |-> Op(seq[i])]

(* ObjType, as far as constants go.                                        *)
Tags == [Int |-> 0, Dec |-> 1, Module |-> 8, UserType |-> 9, UserFunc |-> 11, Lambda |-> 12,
         Text |-> 17, String |-> 18]
IsFunc(object) == object.type \in {"UserFunc", "Lambda"}
States == [Combined |-> 0, Separate |-> 1, Stripped |-> 2]

-----------------------------------------------------------------------------
(* Writing. *)

RangeBytes == 4 * WordBytes

(* A variant: the ranges without their number.                             *)
MetadataSizeRangesAlone(chunk) == Len(chunk.metadata) * RangeBytes

RECURSIVE ByteSize(_, _)

(* countPool, chunkDataSize and chunkMetadataSize: what is announced.      *)
CountPool(pool, debug) == Sum(Each(LAMBDA object : ByteSize(object, debug), pool))
DataSize(chunk, debug) == 2 * WordBytes + Len(chunk.code) + CountPool(chunk.pool, debug)
MetadataSize(chunk) == Len(chunk.metadata) * RangeBytes + WordBytes

TypeSize(object) ==
  2 + Len(object.name) + 1 + Sum(Each(LAMBDA field : 1 + Len(field.name) + 2, object.fields))

FuncSize(func, debug) ==
  5 + Len(func.name) + Sum(Each(LAMBDA chunk : DataSize(chunk, debug), func.chunks))
    + IF debug = "Combined" THEN Sum(Each(MetadataSize, func.chunks)) ELSE 0

ByteSize(object, debug) ==
  CASE object.type \in {"Int", "Dec"} -> 1 + WordBytes
    [] object.type = "Module" -> 2 + Len(object.name)
    [] object.type = "UserType" -> TypeSize(object)
    [] object.type \in {"Text", "String"} -> 1 + WordBytes + Len(object.chars)
    [] IsFunc(object) -> FuncSize(object, debug)

RECURSIVE Emit(_, _)

EncodeData(chunk, debug) ==
  Word(Len(chunk.code)) \o Word(CountPool(chunk.pool, debug)) \o chunk.code
    \o Flat(Each(LAMBDA object : Emit(object, debug), chunk.pool))

EncodeMetadata(chunk) ==
  Word(Len(chunk.metadata))
    \o Flat(Each(LAMBDA range : Flat(Each(Word, range)), chunk.metadata))

EmitType(object) ==
  Name(object.name) \o <<Len(object.fields) % 256>>
    \o Flat(Each(LAMBDA field : Name(field.name) \o Flag(field.fixed) \o Flag(field.pub),
                 object.fields))

EmitFunc(func, debug) ==
  Name(func.name) \o <<func.min, func.max>> \o Flag(func.variadic)
    \o Flat(Each(LAMBDA chunk : EncodeData(chunk, debug)
                                  \o IF debug = "Combined" THEN EncodeMetadata(chunk) ELSE <<>>,
                 func.chunks))

Emit(object, debug) ==
  <<Tags[object.type]>> \o
    CASE object.type \in {"Int", "Dec"} -> Word(object.value)
      [] object.type = "Module" -> Name(object.name)
      [] object.type = "UserType" -> EmitType(object)
      [] object.type \in {"Text", "String"} -> Word(Len(object.chars)) \o object.chars
      [] IsFunc(object) -> EmitFunc(object, debug)

Headers(name, debug) == <<99, 0, States[debug]>> \o Name(name)   \* "choice" and the version: a byte each.
LineMarkers(markers) == Word(Len(markers)) \o Flat(Each(Word, markers))

(* optionCacheBytecode, with the file's name and line markers in program.  *)
(* With separate debug information, metadata is asked of every constant    *)
(* as if it were a function, and of every constant of a function: the      *)
(* first one that is none ends the interpreter.                            *)
CodeFile(program, debug) ==
  Headers(program.name, debug)
    \o (IF debug = "Combined" THEN LineMarkers(program.markers) ELSE <<>>)
    \o EncodeData(program, debug)
    \o (IF debug = "Combined" THEN EncodeMetadata(program) ELSE <<>>)
Savable(program, debug) == debug = "Separate" => program.pool = <<>>
DebugFile(program, debug) ==
  IF debug # "Separate" THEN <<>>
  ELSE LineMarkers(program.markers)
         \o (IF Savable(program, debug) THEN EncodeMetadata(program) ELSE <<>>)

-----------------------------------------------------------------------------
(* Reading. A cursor is where a reader is in a file, what it read last,    *)
(* and what it knows about debug information. A reader gives up when it    *)
(* comes to the end; here it goes on with zeros, to be judged by how far   *)
(* it got, which nothing takes back.                                       *)

Byte(file, at) == IF at < Len(file) THEN file[at + 1] ELSE 0
WordAt(file, at) == 256 * Byte(file, at) + Byte(file, at + 1)
Bytes(file, at, n) == [i \in 1..n |-> Byte(file, at + i - 1)]
PastEnd(file, cursor) == cursor.at > Len(file)
Read(cursor, n, value) == [cursor EXCEPT !.at = @ + n, !.value = value]

ReadWord(file, c) == Read(c, WordBytes, WordAt(file, c.at))
ReadName(file, c) == LET n == Byte(file, c.at) IN Read(c, 1 + n, Bytes(file, c.at + 1, n))
ReadChars(file, c) ==
  LET n == WordAt(file, c.at) IN Read(c, WordBytes + n, Bytes(file, c.at + WordBytes, n))

(* What next has read, after all that c has.                               *)
Add(c, next) == Read(next, 0, Append(c.value, next.value))

(* n things read one after the other, and what they are; none of them is   *)
(* read in no byte.                                                        *)
Times(ReadOne(_), n, file, cursor) ==
  IF cursor.at + n > Len(file) THEN Read(cursor, 1 + Len(file), <<>>)
  ELSE FoldLeft(LAMBDA c, i : Add(c, ReadOne(c)), Read(cursor, 0, <<>>), [i \in 1..n |-> i])

ReadRange(file, c) == Times(LAMBDA d : ReadWord(file, d), 4, file, c)
ReadBlock(file, c) == Times(LAMBDA d : ReadRange(file, d), WordAt(file, c.at), file, ReadWord(file, c))

(* readDebugMetadata or matchDebugMetadata.                                *)
ReadMetadata(file, c) ==
  CASE c.debug = "Stripped" -> Read(c, 0, <<>>)
    [] c.debug = "Combined" -> ReadBlock(file, c)
    [] c.debug = "Separate" ->
         Read([c EXCEPT !.index = @ + 1], 0,
              IF c.index < Len(c.blocks) THEN c.blocks[c.index + 1] ELSE <<>>)

RECURSIVE ReadPool(_, _, _)

(* reconstructByteCode, and readCache for the script itself.               *)
ReadChunk(file, c) ==
  LET codeSize == WordAt(file, c.at)
      poolSize == WordAt(file, c.at + WordBytes)
      code     == Read(c, 2 * WordBytes, <<>>).at
      pool     == ReadPool(file, Read(c, 2 * WordBytes + codeSize, <<>>), code + codeSize + poolSize)
      metadata == ReadMetadata(file, pool) IN
  Read(metadata, 0, [code |-> Bytes(file, code, codeSize), pool |-> pool.value,
                     metadata |-> metadata.value])

ReadField(file, c) ==
  LET name == ReadName(file, c) IN
  Read(name, 2, [name  |-> name.value,
                 fixed |-> Byte(file, name.at) = 1, pub |-> Byte(file, name.at + 1) = 1])

ReadType(file, c) ==
  LET name   == ReadName(file, c)
      fields == Times(LAMBDA d : ReadField(file, d), Byte(file, name.at), file, Read(name, 1, 0)) IN
  Read(fields, 0, [type |-> "UserType", name |-> name.value, fields |-> fields.value])

(* reconstructFunc: a function without a name is a lambda, and none is     *)
(* marked as computed (iife).                                              *)
ReadFunc(file, c) ==
  LET name   == ReadName(file, c)
      min    == Byte(file, name.at)
      max    == Byte(file, name.at + 1)
      chunks == Times(LAMBDA d : ReadChunk(file, d), 1 + ((256 + max - min) % 256), file,
                      Read(name, 3, 0)) IN
  Read(chunks, 0,
       [type |-> IF name.value = <<>> THEN "Lambda" ELSE "UserFunc", name |-> name.value,
        min |-> min, max |-> max, variadic |-> Byte(file, name.at + 2) = 1, computed |-> FALSE,
        chunks |-> chunks.value])

ReadObject(file, c) ==
  LET after == Read(c, 1, 0)
      Is(name) == Byte(file, c.at) = Tags[name]
      As(type, d) == Read(d, 0, [type |-> type, value |-> d.value])
      Named(type, d) == Read(d, 0, [type |-> type, name |-> d.value])
      Of(type, d) == Read(d, 0, [type |-> type, chars |-> d.value]) IN
  CASE Is("Int")      -> As("Int", ReadWord(file, after))
    [] Is("Dec")      -> As("Dec", ReadWord(file, after))
    [] Is("Module")   -> Named("Module", ReadName(file, after))
    [] Is("UserType") -> ReadType(file, after)
    [] Is("UserFunc") \/ Is("Lambda") -> ReadFunc(file, after)
    [] Is("Text")     -> Of("Text", ReadChars(file, after))
    [] Is("String")   -> Of("String", ReadChars(file, after))
    [] OTHER          -> Read(c, Len(file) + 1, [type |-> "unknown"])

(* reconstructPool reads for as long as the announced size lasts.          *)
ReadPool(file, c, stop) ==
  IF c.at >= stop \/ PastEnd(file, c) THEN c
  ELSE ReadPool(file, Add(c, ReadObject(file, Read(c, 0, 0))), stop)

Cursor(debug, blocks) ==
  [at |-> 0, value |-> <<>>, debug |-> debug, blocks |-> blocks, index |-> 0]
ReadLineMarkers(file, c) == Times(LAMBDA d : ReadWord(file, d), WordAt(file, c.at), file, ReadWord(file, c))

RECURSIVE ReadBlocks(_, _)

(* DebugReader: the blocks in a debug file, to its end.                    *)
ReadBlocks(file, c) ==
  IF c.at >= Len(file) THEN c
  ELSE ReadBlocks(file, Add(c, ReadBlock(file, c)))

(* readCacheFileState: a file too short for the byte says Combined.        *)
FileState(file) == CHOOSE debug \in DOMAIN States : States[debug] = Byte(file, 2)

Refused == [name |-> <<>>]

(* readByteCode: the program in a code file, and the debug file that was   *)
(* saved with it.                                                          *)
LoadProgram(file, debugFile) ==
  LET debug   == FileState(file)
      markers == ReadLineMarkers(debugFile, Cursor(debug, <<>>))
      blocks  == ReadBlocks(debugFile, Read(markers, 0, <<>>))
      name    == ReadName(file, [Cursor(debug, blocks.value) EXCEPT !.at = 3])
      lines   == CASE debug = "Combined" -> ReadLineMarkers(file, name)
                   [] debug = "Separate" -> Read(name, 0, markers.value)
                   [] debug = "Stripped" -> Read(name, 0, <<>>)
      chunk   == ReadChunk(file, IF debug = "Separate" /\ blocks.value = <<>>
                                   THEN [lines EXCEPT !.debug = "Combined"] ELSE lines) IN
  IF PastEnd(file, chunk) \/ (debug = "Separate" /\ PastEnd(debugFile, blocks)) THEN Refused
  ELSE [name |-> name.value, markers |-> lines.value] @@ chunk.value

-----------------------------------------------------------------------------
(* Inspecting: BinaryInspector goes over the constants of a file twice, by *)
(* lengths alone.                                                          *)

SkipName(file, at) == at + 1 + Byte(file, at)
SkipMetadata(file, at, debug) ==
  IF debug = "Combined" THEN at + WordBytes + WordAt(file, at) * RangeBytes ELSE at
SkipByteCode(file, at, debug) ==
  SkipMetadata(file, at + 2 * WordBytes + WordAt(file, at) + WordAt(file, at + WordBytes), debug)
Skip(Step(_), n, at) == FoldLeft(LAMBDA p, i : Step(p), at, [i \in 1..n |-> i])

(* A variant: fields without their flags.                                  *)
SkipFieldsNames(file, at) ==
  Skip(LAMBDA p : SkipName(file, p), Byte(file, at), at + 1)

SkipFields(file, at) ==
  Skip(LAMBDA p : SkipName(file, p) + 2, Byte(file, at), at + 1)

Defaults(file, at) == (256 + Byte(file, at + 1) - Byte(file, at)) % 256

(* skipFuncData, after the name ...                                        *)
BriefFunc(file, at, debug) ==
  Skip(LAMBDA p : SkipByteCode(file, p, debug), 1 + Defaults(file, at), at + 3)

(* ... inspectDetailFuncComponents, inspectDetailFuncExtras and            *)
(* skipFuncDefaultArgs.                                                    *)
DetailFunc(file, at, debug) ==
  LET sizes == at + 3
      code  == sizes + 2 * WordBytes
      pool  == code + WordAt(file, sizes)
      rest  == pool + WordAt(file, sizes + WordBytes) IN
  Skip(LAMBDA p : SkipByteCode(file, p, debug), Defaults(file, at), SkipMetadata(file, rest, debug))

(* inspectBriefObject, inspectDetailObject.                                *)
SkipObject(file, at, debug, brief) ==
  LET Is(name) == Byte(file, at) = Tags[name]
      named    == SkipName(file, at + 1) IN
  CASE Is("Int") \/ Is("Dec") -> at + 1 + WordBytes
    [] Is("Text") \/ Is("String") -> at + 1 + WordBytes + WordAt(file, at + 1)
    [] Is("Module") -> named
    [] Is("UserType") -> SkipFields(file, named)
    [] Is("UserFunc") \/ Is("Lambda") ->
         IF brief THEN BriefFunc(file, named, debug) ELSE DetailFunc(file, named, debug)
    [] OTHER -> at + 1

RECURSIVE Visit(_, _, _, _, _)

(* inspectConstantPool: where the constants begin, and where they end.     *)
Visit(file, at, stop, debug, brief) ==
  IF at >= stop THEN <<at>>
  ELSE <<at>> \o Visit(file, SkipObject(file, at, debug, brief), stop, debug, brief)

SkipLineMarkers(file, at, debug) ==
  IF debug = "Combined" THEN at + WordBytes * (1 + WordAt(file, at)) ELSE at

Inspect(file) ==
  LET debug == FileState(file)
      sizes == SkipLineMarkers(file, SkipName(file, 3), debug)
      pool  == sizes + 2 * WordBytes + WordAt(file, sizes)
      stop  == pool + WordAt(file, sizes + WordBytes) IN
  [brief  |-> Visit(file, pool, stop, debug, TRUE),
   detail |-> Visit(file, pool, stop, debug, FALSE),
   end    |-> SkipMetadata(file, stop, debug)]
=============================================================================
