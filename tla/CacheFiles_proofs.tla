-------------------------- MODULE CacheFiles_proofs --------------------------
(***************************************************************************)
(* What is run for a source file is what it said: for all texts and all    *)
(* times, with an interpreter killed at any moment, and with none of the   *)
(* other hazards.                                                          *)
(***************************************************************************)
EXTENDS CacheFiles, TLAPS

(* What a job holds is what the source says, or did since it began.        *)
JobFollows ==
  job # Idle =>
    /\ job.own
    /\ source.text \in had
    /\ job.phase = "compiling" => job.text \in had
    /\ job.phase \in {"compiling", "writing"} /\ job.option = "cache" => job.text = source.text
    /\ job.phase = "writing" => job.option = "cache" /\ cache.state = "partial"
    /\ job.phase = "loading" /\ job.option # "load" /\ cache.state = "whole" => cache.text \in had

(* A whole cache that is no older than the source is of the source.        *)
CacheFollows ==
  /\ source.time <= clock
  /\ cache.state # "missing" => cache.time <= clock
  /\ cache.state = "whole" /\ cache.time >= source.time => cache.text = source.text

Inv == TypeOK /\ JobFollows /\ CacheFollows /\ RunsSource

-----------------------------------------------------------------------------
(* A job is idle, or one of the records that its phase tells.              *)
LEMMA JobShapes ==
  ASSUME TypeOK
  PROVE  /\ At("idle") <=> job = Idle
         /\ job.phase \in {"lookup", "reading", "loading"} => job \in Asked
         /\ job.phase \in {"compiling", "writing"} => job \in WithText
         /\ job # Idle => job.option \in Options /\ job.debug \in DebugStates /\ job.own \in BOOLEAN
<1>1. CASE job = Idle BY <1>1 DEF At, Idle
<1>2. CASE job \in Asked BY <1>2 DEF At, Idle, Asked
<1>3. CASE job \in WithText BY <1>3 DEF At, Idle, WithText
<1> QED BY <1>1, <1>2, <1>3 DEF TypeOK

LEMMA InitInv == ASSUME Init PROVE Inv
  BY CacheAssumption
  DEF Init, Inv, TypeOK, JobFollows, CacheFollows, RunsSource, File, CacheFile, Idle, Nothing

(* Every step of the interpreter and of the user keeps the types.          *)
LEMMA TypeStep == ASSUME TypeOK, [Next]_vars PROVE TypeOK'
<1> USE JobShapes
<1>c. clock \in 0..MaxTime /\ MaxTime \in Nat BY CacheAssumption DEF TypeOK
<1>1. CASE UseSource
  <2>1. job \in Asked /\ job' = [job EXCEPT !.phase = "reading"] BY <1>1 DEF UseSource, At, GoTo
  <2>2. job' \in Asked BY <2>1 DEF Asked
  <2> QED BY <1>1, <2>2 DEF UseSource, TypeOK, fileVars
<1>2. CASE UseCache
  <2>1. job \in Asked /\ job' = [job EXCEPT !.phase = "loading"] BY <1>2 DEF UseCache, At, GoTo
  <2>2. job' \in Asked BY <2>1 DEF Asked
  <2> QED BY <1>2, <2>2 DEF UseCache, TypeOK, fileVars
<1>3. CASE UpToDate BY <1>3 DEF UpToDate, TypeOK, fileVars, Ended
<1>4. CASE ReadSource
  <2>1. job \in Asked BY <1>4 DEF ReadSource, At
  <2>2. source.text \in Texts BY DEF TypeOK, File
  <2>3. PICK t \in Texts :
          job' = [phase |-> "compiling", option |-> job.option, debug |-> job.debug,
                  own |-> job.own, text |-> t]
    BY <1>4, <2>2 DEF ReadSource
  <2>4. job' \in WithText BY <2>1, <2>3 DEF WithText, Asked
  <2> QED BY <1>4, <2>4 DEF ReadSource, TypeOK, fileVars
<1>5. CASE Reject BY <1>5 DEF Reject, TypeOK, fileVars, Ended
<1>6. CASE Execute
  <2>1. job \in WithText BY <1>6 DEF Execute, At
  <2>2. outcome' \in [kind : {"ran"}, option : Options, text : Texts]
    BY <1>6, <2>1 DEF Execute, Ran, WithText
  <2> QED BY <1>6, <2>2 DEF Execute, TypeOK, fileVars
<1>7. CASE Open
  <2>1. job \in WithText /\ job' = [job EXCEPT !.phase = "writing"] BY <1>7 DEF Open, At, GoTo
  <2>2. job' \in WithText BY <2>1 DEF WithText
  <2>3. cache' \in CacheFile BY <1>7, <2>1 DEF Open, CacheFile, WithText, TypeOK, DebugStates
  <2> QED BY <1>7, <2>2, <2>3 DEF Open, TypeOK
<1>8. CASE Close
  <2>1. job \in WithText BY <1>8 DEF Close, At
  <2>2. cache' \in CacheFile BY <1>8, <2>1 DEF Close, CacheFile, WithText, TypeOK
  <2> QED BY <1>8, <2>2 DEF Close, TypeOK, Ended
<1>9. CASE Load
  <2>1. CASE cache.state = "whole" /\ outcome' = Ran(cache.text)
    <3>1. job \in Asked BY <1>9 DEF Load, At
    <3>2. outcome' \in [kind : {"ran"}, option : Options, text : Texts]
      BY <2>1, <3>1 DEF Ran, Asked, TypeOK, CacheFile
    <3> QED BY <1>9, <3>2 DEF Load, TypeOK, fileVars
  <2>2. CASE outcome' \in {Ended("refused"), Ended("undefined")}
    <3>1. outcome' \in [kind : {"refused", "undefined"}] BY <2>2 DEF Ended
    <3> QED BY <1>9, <3>1 DEF Load, TypeOK, fileVars
  <2> QED BY <1>9, <2>1, <2>2 DEF Load
<1>10. CASE Tick
  <2>1. clock' \in 0..MaxTime BY <1>10, <1>c DEF Tick
  <2> QED BY <1>10, <2>1 DEF Tick, TypeOK
<1>11. ASSUME NEW option \in Options, NEW debug \in DebugStates, NEW own \in BOOLEAN,
              Start(option, debug, own)
       PROVE  TypeOK'
  <2>1. job' \in Asked BY <1>11 DEF Start, Asked
  <2> QED BY <1>11, <2>1 DEF Start, TypeOK, File, fileVars, Nothing
<1>12. ASSUME NEW state \in {"partial", "whole"}, NEW debug \in DebugStates, NEW time \in 0..clock,
              Abort(state, debug, time)
       PROVE  TypeOK'
  <2>1. CASE At("writing")
    <3>1. job \in WithText BY <2>1 DEF At
    <3>2. time \in 0..MaxTime BY <1>c
    <3>3. cache' \in CacheFile BY <1>12, <2>1, <3>1, <3>2 DEF Abort, CacheFile, WithText
    <3> QED BY <1>12, <3>3 DEF Abort, TypeOK, Ended
  <2> QED BY <1>12, <2>1 DEF Abort, TypeOK, Ended
<1>13. ASSUME NEW t \in Texts, NEW time \in 0..clock, Edit(t, time)
       PROVE  TypeOK'
  <2>1. time \in 0..MaxTime BY <1>c
  <2>2. source' \in File BY <1>13, <2>1 DEF Edit, File
  <2> QED BY <1>13, <2>2 DEF Edit, TypeOK
<1>14. CASE UNCHANGED vars BY <1>14 DEF vars, TypeOK
<1> QED
  BY <1>1, <1>2, <1>3, <1>4, <1>5, <1>6, <1>7, <1>8, <1>9, <1>10, <1>11, <1>12, <1>13, <1>14
  DEF Next, Interpreter

(* Without the other hazards, every step keeps the rest.                   *)
LEMMA InvStep == ASSUME Inv, [Next]_vars, Beyond \subseteq {"killed"} PROVE Inv'
<1> USE JobShapes
<1>t. TypeOK /\ TypeOK' BY TypeStep DEF Inv
<1>s. clock \in 0..MaxTime /\ clock' \in 0..MaxTime /\ source \in File /\ cache \in CacheFile
  BY <1>t DEF TypeOK
<1>c. clock \in Nat /\ clock' \in Nat /\ source.time \in Nat BY <1>s, CacheAssumption DEF File
<1>1. CASE UseSource
  <2>1. job \in Asked /\ job' = [job EXCEPT !.phase = "reading"]
    BY <1>1, <1>t DEF UseSource, At, GoTo
  <2> QED BY <1>1, <1>t, <2>1
          DEF Inv, JobFollows, CacheFollows, RunsSource, UseSource, fileVars, Asked, Idle
<1>2. CASE UseCache
  <2>1. job \in Asked /\ job' = [job EXCEPT !.phase = "loading"]
    BY <1>2, <1>t DEF UseCache, At, GoTo
  <2> QED BY <1>2, <1>t, <2>1
          DEF Inv, JobFollows, CacheFollows, RunsSource, UseCache, MoreRecent, fileVars, Asked, Idle
<1>3. CASE UpToDate
  BY <1>3, <1>t DEF Inv, JobFollows, CacheFollows, RunsSource, UpToDate, fileVars, Ended
<1>4. CASE ReadSource
  BY <1>4, <1>t DEF Inv, JobFollows, CacheFollows, RunsSource, ReadSource, fileVars, At, Idle
<1>5. CASE Reject
  BY <1>5, <1>t DEF Inv, JobFollows, CacheFollows, RunsSource, Reject, fileVars, Ended
<1>6. CASE Execute
  BY <1>6, <1>t DEF Inv, JobFollows, CacheFollows, RunsSource, Execute, fileVars, Ran, At, Idle
<1>7. CASE Open
  <2>1. job \in WithText /\ job' = [job EXCEPT !.phase = "writing"]
    BY <1>7, <1>t DEF Open, At, GoTo
  <2> QED BY <1>7, <1>t, <1>c, <2>1
          DEF Inv, JobFollows, CacheFollows, RunsSource, Open, At, Idle, WithText
<1>8. CASE Close
  BY <1>8, <1>t, <1>c
  DEF Inv, JobFollows, CacheFollows, RunsSource, Close, At, Idle, Ended
<1>9. CASE Load
  BY <1>9, <1>t DEF Inv, JobFollows, CacheFollows, RunsSource, Load, fileVars, At, Idle, Ran, Ended
<1>10. CASE Tick
  <2>1. cache.state # "missing" => cache.time \in Nat BY <1>s, CacheAssumption DEF CacheFile
  <2> QED BY <1>10, <1>t, <1>c, <2>1 DEF Inv, JobFollows, CacheFollows, RunsSource, Tick
<1>11. ASSUME NEW option \in Options, NEW debug \in DebugStates, NEW own \in BOOLEAN,
              Start(option, debug, own)
       PROVE  Inv'
  BY <1>11, <1>t DEF Inv, JobFollows, CacheFollows, RunsSource, Start, fileVars, Nothing
<1>12. ASSUME NEW state \in {"partial", "whole"}, NEW debug \in DebugStates, NEW time \in 0..clock,
              Abort(state, debug, time)
       PROVE  Inv'
  BY <1>12, <1>t, <1>c
  DEF Inv, JobFollows, CacheFollows, RunsSource, Abort, At, Idle, Ended
<1>13. ASSUME NEW t \in Texts, NEW time \in 0..clock, Edit(t, time)
       PROVE  Inv'
  <2>1. time = clock /\ ~SavedNow /\ ~Saving BY <1>13 DEF Edit
  <2>2. cache.state # "missing" => cache.time \in Nat BY <1>s, CacheAssumption DEF CacheFile
  <2> QED BY <1>13, <1>t, <1>c, <2>1, <2>2
          DEF Inv, JobFollows, CacheFollows, RunsSource, Edit, SavedNow, Saving, Idle
<1>14. CASE UNCHANGED vars
  BY <1>14, <1>t DEF vars, Inv, JobFollows, CacheFollows, RunsSource
<1> QED
  BY <1>1, <1>2, <1>3, <1>4, <1>5, <1>6, <1>7, <1>8, <1>9, <1>10, <1>11, <1>12, <1>13, <1>14
  DEF Next, Interpreter

-----------------------------------------------------------------------------
(* The files, the job and its outcome are what main.cpp and options.cpp    *)
(* take them for, whatever happens.                                        *)
THEOREM Types == Spec => []TypeOK
<1>1. Init => TypeOK BY InitInv DEF Inv
<1>2. TypeOK /\ [Next]_vars => TypeOK' BY TypeStep
<1> QED BY <1>1, <1>2, PTL DEF Spec

(* What is run or shown for a source file is what it said between the      *)
(* interpreter's start and its end (main.cpp:67-101): for every set of     *)
(* texts and every length of a session, in which interpreters may be       *)
(* killed.                                                                 *)
THEOREM RunsWhatItSays ==
  ASSUME Beyond \subseteq {"killed"}
  PROVE  Spec => []RunsSource
<1>1. Init => Inv BY InitInv
<1>2. Inv /\ [Next]_vars => Inv' BY InvStep
<1>3. Inv => RunsSource BY DEF Inv
<1> QED BY <1>1, <1>2, <1>3, PTL DEF Spec
=============================================================================
