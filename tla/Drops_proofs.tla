---------------------------- MODULE Drops_proofs ----------------------------
(***************************************************************************)
(* The actions of Calls that begin or end a call, or end the interpreter,  *)
(* keep the invariant DInv of Calls_proofs.  So windows stay in the        *)
(* register array, and instances are dropped once and with the call, block *)
(* or iteration that made them.                                            *)
(***************************************************************************)
EXTENDS Calls_proofs, FiniteSetTheorems

-----------------------------------------------------------------------------
(* Calls of user functions.                                                *)

(* A call that fits: where its window starts, what it takes and what the   *)
(* caller keeps.                                                           *)
CallFits(c) ==
  /\ c.op = "call" /\ c.was = implicit /\ c.depth = Depth + 1
  /\ c.fun \in Callables /\ c.self \in 0 .. 1 /\ c.by \in {"code", "make", "drop"}
  /\ c.start \in Nat /\ c.argc \in Nat /\ c.keep \in Nat
  /\ c.start <= Width /\ cur.base + c.start >= 1
  /\ \A b \in DOMAIN cur.blocks : cur.blocks[b].at <= c.start
  /\ c.self + c.argc < Width
  /\ Laid(Depth, [cur EXCEPT !.top = c.keep])
  /\ cur.code.at \in Running \cup {"leaving"}
  /\ c.by = "code" => /\ cur.code.at \in Running
                      /\ c.keep < cur.low + MaxTemps[Depth] /\ c.keep + 1 < Width

(* The window that a call opens.                                           *)
LEMMA NewWindow ==
  ASSUME Typed, HeapGrows, NEW c, NEW file, NEW below, CallFits(c), ~Mismatch(c),
         ~AtLimit,
         EnterCall(c, file, below)
  PROVE  /\ cur' \in Contexts
         /\ cur'.base = cur.base + c.start /\ cur'.since = Len(insts') /\ cur'.under = Len(scopes)
         /\ cur'.blocks = <<>> /\ cur'.code.by = c.by
         /\ Laid(Depth + 1, cur')
         /\ frames' = Append(frames, [cur EXCEPT !.top = c.keep])
         /\ implicit' = Implicit(c)
         /\ \/ native' = Append(below, c) /\ regs' = file
            \/ /\ native' = below /\ c.by = "code" /\ ~c.was
               /\ regs' = file \/ \E a : regs' = [file EXCEPT ![a] = c.copy]
PROOF
  <1> DEFINE code(at) == [at |-> at, fun |-> c.fun, self |-> c.self, by |-> c.by,
                          n |-> c.self + c.argc, promised |-> Promised(c)]
             w(at) == [base |-> cur.base + c.start, top |-> c.self + c.argc, low |-> c.self + c.argc,
                       blocks |-> <<>>, since |-> Len(insts'), under |-> Len(scopes), code |-> code(at)]
  <1>1. /\ c.fun \in Callables /\ c.self \in 0 .. 1 /\ c.by \in {"code", "make", "drop"}
        /\ c.start \in Nat /\ c.argc \in Nat /\ c.keep \in Nat /\ c.self + c.argc < Width
    BY DEF CallFits
  <1>2. /\ c.fun.max \in Nat /\ c.fun.min \in Nat /\ c.fun.rest \in BOOLEAN BY <1>1, CallableFields
  <1>3. /\ cur \in Contexts /\ cur.base \in Nat /\ Len(frames) \in Nat /\ Depth = Len(frames) + 1
    <2>1. cur \in Contexts BY DEF Typed
    <2> QED BY <2>1, TheContexts, ContextFields
  <1>4. Len(insts') \in Nat /\ Len(scopes) \in Nat BY DEF HeapGrows, Typed
  <1>5. Promised(c) \in BOOLEAN BY DEF Promised
  <1>6. ASSUME NEW at \in Places
        PROVE  /\ w(at) \in Contexts
               /\ w(at).base = cur.base + c.start /\ w(at).since = Len(insts') /\ w(at).under = Len(scopes)
               /\ w(at).blocks = <<>> /\ w(at).code.by = c.by /\ w(at).code.at = at
               /\ w(at).top = c.self + c.argc /\ w(at).low = c.self + c.argc
               /\ w(at).code.n = c.self + c.argc /\ w(at).code.fun = c.fun /\ w(at).code.self = c.self
    <2>1. code(at) \in [at : Places, fun : Callables \cup {NoFun}, self : 0 .. 1,
                        by : {"code", "make", "drop"}, n : Nat, promised : BOOLEAN]
      <3>1. c.self + c.argc \in Nat BY <1>1
      <3> QED BY <1>1, <1>5, <3>1
    <2>2. cur.base + c.start \in Nat /\ c.self + c.argc \in Nat
      <3>1. PICK o, i, m, n : o = cur.base /\ i = c.start /\ m = c.self /\ n = c.argc OBVIOUS
      <3>2. o \in Nat /\ i \in Nat /\ m \in 0 .. 1 /\ n \in Nat BY <1>1, <1>3, <3>1
      <3>3. o + i \in Nat /\ m + n \in Nat BY ONLY <3>2
      <3> QED BY <3>1, <3>3
    <2>3. <<>> \in Seq([at : Nat, since : Nat]) OBVIOUS
    <2> DEFINE cd == code(at)
    <2>4. cd.at = at /\ cd.by = c.by /\ cd.n = c.self + c.argc /\ cd.fun = c.fun /\ cd.self = c.self
      OBVIOUS
    <2> HIDE DEF code, cd
    <2>5. cd = code(at) BY DEF cd
    <2> QED BY <1>4, <2>1, <2>2, <2>3, <2>4, <2>5 DEF Contexts
  <1>7. ASSUME NEW at \in Places,
               \/ at = "default" /\ c.argc < c.fun.max
               \/ at = "gather"
               \/ at = "entry" /\ ~c.fun.rest
        PROVE  Laid(Depth + 1, w(at))
    <2>1. PICK y : y = w(at) OBVIOUS
    <2>2. /\ y.blocks = <<>> /\ y.code.at = at
          /\ y.top = c.self + c.argc /\ y.low = c.self + c.argc
          /\ y.code.n = c.self + c.argc /\ y.code.fun = c.fun /\ y.code.self = c.self
      BY <1>6, <2>1
    <2>3. Depth + 1 # 1 /\ Depth + 1 > 1 BY <1>3
    <2>4. y.top <= y.low + MaxTemps[Depth + 1]
      <3>1. Depth \in 1 .. MaxDepth + 1 /\ MaxDepth \in Nat BY TheContexts, Sizes
      <3>2. Depth + 1 \in 1 .. MaxDepth + 1 BY <1>3, <3>1 DEF AtLimit
      <3>3. PICK t : t = MaxTemps[Depth + 1] OBVIOUS
      <3>4. t \in Nat /\ c.self + c.argc \in Nat BY <1>1, <3>2, <3>3, Sizes
      <3> QED BY <2>2, <3>3, <3>4
    <2>5. at = "default" => c.self + c.argc < c.self + c.fun.max BY <1>1, <1>2, <1>7
    <2>6. at = "entry" => c.self + c.argc <= c.self + c.fun.max + 1
      BY <1>1, <1>2, <1>7 DEF Mismatch, CallFits
    <2>7. at \notin {"script", "body", "leaving"} BY <1>7
    <2> QED BY <1>1, <1>7, <2>1, <2>2, <2>3, <2>4, <2>5, <2>6, <2>7 DEF Laid, Running
  <1>8. /\ frames' = Append(frames, [cur EXCEPT !.top = c.keep])
        /\ implicit' = Implicit(c)
        /\ IF c.argc < c.fun.max
           THEN cur' = w("default") /\ native' = Append(below, c) /\ regs' = file
           ELSE Settle(c, w("default"), file, below)
    BY DEF EnterCall, Reg, Code
  <1> HIDE DEF w
  <1>9. PICK at \in Places : /\ \/ at = "default" /\ c.argc < c.fun.max
                                \/ at = "gather"
                                \/ at = "entry" /\ ~c.fun.rest
                             /\ cur' = w(at)
    <2>1. "default" \in Places /\ "gather" \in Places /\ "entry" \in Places BY DEF Places
    <2>2. CASE c.argc < c.fun.max
      <3>1. cur' = w("default") BY <1>8, <2>2
      <3> QED BY <2>1, <2>2, <3>1
    <2>3. CASE ~(c.argc < c.fun.max)
      <3>1. cur' = [w("default") EXCEPT !.code.at = IF c.fun.rest THEN "gather" ELSE "entry"]
        BY <1>8, <2>3 DEF Settle
      <3>2. \A at : [w("default") EXCEPT !.code.at = at] = w(at) BY DEF w
      <3>3. CASE c.fun.rest
        <4>1. cur' = w("gather") BY <3>1, <3>2, <3>3
        <4> QED BY <2>1, <4>1
      <3>4. CASE ~c.fun.rest
        <4>1. cur' = w("entry") BY <3>1, <3>2, <3>4
        <4> QED BY <2>1, <3>4, <4>1
      <3> QED BY <3>3, <3>4
    <2> QED BY <2>2, <2>3
  <1>10. \/ native' = Append(below, c) /\ regs' = file
         \/ /\ native' = below /\ c.by = "code" /\ ~c.was
            /\ regs' = file \/ \E a : regs' = [file EXCEPT ![a] = c.copy]
    BY <1>8 DEF Settle
  <1>11. Laid(Depth + 1, cur') BY <1>7, <1>9
  <1> QED BY <1>6, <1>8, <1>9, <1>10, <1>11

(* ... and what it leaves alone.                                           *)
Opened(c) ==
  /\ cur' \in Contexts
  /\ cur'.base = cur.base + c.start /\ cur'.since = Len(insts') /\ cur'.under = Len(scopes)
  /\ cur'.blocks = <<>> /\ cur'.code.by = c.by
  /\ Laid(Depth + 1, cur')
  /\ frames' = Append(frames, [cur EXCEPT !.top = c.keep])

LEMMA OpenedContexts ==
  ASSUME Typed, NEW c, CallFits(c), Opened(c), ~AtLimit
  PROVE  /\ Depth \in Nat /\ Depth >= 1 /\ Depth = Len(frames) + 1 /\ Len(frames) \in Nat
         /\ Depth' = Depth + 1 /\ Len(frames') = Depth
         /\ Ctx'[Depth + 1] = cur' /\ Ctx'[Depth] = [cur EXCEPT !.top = c.keep] /\ Ctx[Depth] = cur
         /\ \A k \in 1 .. Depth : Alike(Ctx[k], Ctx'[k]) /\ Ctx[k] \in Contexts
         /\ \A k \in 1 .. Len(frames) : Ctx'[k] = Ctx[k]
         /\ frames' \in Seq(Contexts) /\ Len(frames') <= MaxDepth
         /\ c.start \in Nat /\ c.start <= Width /\ cur.base \in Nat /\ Width \in Nat
         /\ cur'.base \in Nat /\ cur'.base >= cur.base /\ cur'.base <= cur.base + Width
PROOF
  <1>1. c.keep \in Nat /\ c.start \in Nat /\ c.start <= Width BY DEF CallFits
  <1>2. frames' = Append(frames, [cur EXCEPT !.top = c.keep]) /\ cur'.base = cur.base + c.start
    BY DEF Opened
  <1>3. PICK keep : keep = c.keep OBVIOUS
  <1>4. keep \in Nat /\ frames' = Append(frames, [cur EXCEPT !.top = keep]) BY <1>1, <1>2, <1>3
  <1>5. /\ Len(frames') = Len(frames) + 1
        /\ Depth' = Depth + 1 /\ Ctx'[Depth + 1] = cur' /\ Ctx'[Depth] = [cur EXCEPT !.top = keep]
        /\ \A k \in 1 .. Depth : Alike(Ctx[k], Ctx'[k])
        /\ \A k \in 1 .. Len(frames) : Ctx'[k] = Ctx[k]
        /\ frames' \in Seq(Contexts)
    BY <1>4, Entered
  <1>6. /\ Depth \in Nat /\ Depth = Len(frames) + 1 /\ Len(frames) \in Nat /\ Ctx[Depth] = cur
        /\ \A k \in 1 .. Depth : Ctx[k] \in Contexts
    BY TheContexts
  <1>7. Len(frames) <= MaxDepth /\ MaxDepth \in Nat /\ Len(frames) # MaxDepth /\ Width \in Nat
    BY Sizes DEF Typed, AtLimit
  <1>8. cur.base \in Nat
    <2>1. cur \in Contexts BY DEF Typed
    <2> QED BY <2>1, ContextFields
  <1>9. Depth >= 1 /\ Len(frames) + 1 <= MaxDepth BY ONLY <1>6, <1>7
  <1>10. PICK s : s = c.start OBVIOUS
  <1>11. s \in Nat /\ s <= Width /\ cur'.base = cur.base + s BY <1>1, <1>2, <1>10
  <1>12. cur'.base \in Nat /\ cur'.base >= cur.base /\ cur'.base <= cur.base + Width
    BY ONLY <1>7, <1>8, <1>11
  <1> QED BY <1>1, <1>3, <1>5, <1>6, <1>7, <1>8, <1>9, <1>12

LEMMA OpenedWindows ==
  ASSUME Typed, Windows, Waiting, NEW c, CallFits(c), Opened(c), ~AtLimit,
         status' = status, status \notin {"over", "aborted"}
  PROVE  Windows' /\ Waiting'
PROOF
  <1> DEFINE D == Depth
  <1>1. /\ D \in Nat /\ D >= 1 /\ D = Len(frames) + 1 /\ Len(frames) \in Nat
        /\ Depth' = D + 1 /\ Len(frames') = D
        /\ Ctx'[D + 1] = cur' /\ Ctx'[D] = [cur EXCEPT !.top = c.keep] /\ Ctx[D] = cur
        /\ \A k \in 1 .. D : Alike(Ctx[k], Ctx'[k]) /\ Ctx[k] \in Contexts
        /\ \A k \in 1 .. Len(frames) : Ctx'[k] = Ctx[k]
        /\ cur.base \in Nat /\ Width \in Nat
        /\ cur'.base \in Nat /\ cur'.base >= cur.base /\ cur'.base <= cur.base + Width
    BY OpenedContexts
  <1> HIDE DEF D
  <1>2. \A k \in 1 .. D : Ctx'[k].base = Ctx[k].base /\ Ctx'[k].blocks = Ctx[k].blocks
    BY <1>1 DEF Alike
  <1>3. \A k \in 1 .. D + 1 : k = D + 1 \/ k \in 1 .. D BY ONLY <1>1
  <1>4. \A k \in 1 .. D : k = D \/ k \in 1 .. Len(frames) BY ONLY <1>1
  <1>5. Windows
    OBVIOUS
  <1>6. \A k \in 1 .. D + 1 : Laid(k, Ctx'[k])
    <2>1. Laid(D + 1, cur') BY DEF Opened, D
    <2>2. Laid(D, [cur EXCEPT !.top = c.keep]) BY DEF CallFits, D
    <2>3. \A k \in 1 .. Len(frames) : Laid(k, Ctx[k])
      <3>1. \A k \in 1 .. Len(frames) : k \in 1 .. Depth BY <1>1 DEF D
      <3> QED BY <3>1 DEF Windows
    <2> QED BY <1>1, <1>3, <1>4, <2>1, <2>2, <2>3
  <1>7. 1 \in 1 .. D BY <1>1
  <1>8. \A k \in 1 .. D + 1 : Ctx'[k].base <= Ctx'[1].base + (k - 1) * Width
    <2>1. \A k \in 1 .. D : Ctx'[k].base <= Ctx'[1].base + (k - 1) * Width
      BY <1>2, <1>7 DEF Windows, D
    <2>2. PICK b, o : b = cur'.base /\ o = Ctx[1].base OBVIOUS
    <2>3. o \in Nat BY <1>1, <1>7, <2>2, ContextFields
    <2>4. cur.base <= o + (D - 1) * Width
      <3>1. D \in 1 .. D BY <1>1
      <3> QED BY <1>1, <2>2, <3>1 DEF Windows, D
    <2>5. b \in Nat /\ b <= cur.base + Width BY <1>1, <2>2
    <2>6. (D + 1 - 1) * Width = (D - 1) * Width + Width BY ONLY <1>1
    <2>7. (D - 1) * Width \in Nat BY ONLY <1>1
    <2>8. b <= o + (D + 1 - 1) * Width
      <3>1. PICK e, m, x, w : /\ e = (D - 1) * Width /\ m = (D + 1 - 1) * Width
                              /\ x = cur.base /\ w = Width
        OBVIOUS
      <3>2. /\ e \in Nat /\ m = e + w /\ x <= o + e /\ b \in Nat /\ b <= x + w
            /\ o \in Nat /\ x \in Nat /\ w \in Nat
        BY <1>1, <2>3, <2>4, <2>5, <2>6, <2>7, <3>1
      <3>3. b <= o + m BY ONLY <3>2
      <3> QED BY <3>1, <3>3
    <2>9. Ctx'[D + 1].base <= Ctx'[1].base + (D + 1 - 1) * Width BY <1>1, <1>2, <1>7, <2>2, <2>8
    <2> TAKE k \in 1 .. D + 1
    <2>10. CASE k = D + 1
      <3>0. k - 1 = D + 1 - 1 BY ONLY <1>1, <2>10
      <3>1. (k - 1) * Width = (D + 1 - 1) * Width BY ONLY <3>0, Zenon
      <3>2. Ctx'[k].base = Ctx'[D + 1].base BY ONLY <2>10, Zenon
      <3>3. PICK x, y, z : x = (k - 1) * Width /\ y = Ctx'[k].base /\ z = Ctx'[1].base OBVIOUS
      <3>4. y <= z + x BY <2>9, <3>1, <3>2, <3>3, Zenon
      <3> QED BY <3>3, <3>4, Zenon
    <2>11. CASE k \in 1 .. D BY <2>1, <2>11
    <2> QED BY <1>3, <2>10, <2>11
  <1>9. \A k \in 2 .. D + 1 : Ctx'[k].base >= 1
    <2>1. \A k \in 2 .. D : Ctx'[k].base >= 1
      <3>1. \A k \in 2 .. D : k \in 1 .. D BY <1>1
      <3> QED BY <1>2, <3>1 DEF Windows, D
    <2>2. cur'.base >= 1 BY DEF CallFits, Opened
    <2>3. \A k \in 2 .. D + 1 : k = D + 1 \/ k \in 2 .. D BY ONLY <1>1
    <2> QED BY <1>1, <2>1, <2>2, <2>3
  <1>10. \A k \in 1 .. D : Ctx[k].base <= cur.base
    <2> TAKE k \in 1 .. D
    <2>1. CASE k = D BY <1>1, <2>1
    <2>2. CASE k \in 1 .. Len(frames)
      <3>1. k < D /\ D \in 1 .. D BY <1>1, <2>2
      <3> QED BY <1>1, <3>1 DEF Windows, D
    <2> QED BY <1>4, <2>1, <2>2
  <1>11. \A k \in 1 .. D : \A b \in DOMAIN Ctx[k].blocks : Ctx[k].base + Ctx[k].blocks[b].at <= cur'.base
    <2> TAKE k \in 1 .. D
    <2> TAKE b \in DOMAIN Ctx[k].blocks
    <2>0. PICK x, y, s : x = Ctx[k].base /\ y = Ctx[k].blocks[b].at /\ s = c.start OBVIOUS
    <2>1. x \in Nat /\ y \in Nat
      <3>1. Ctx[k] \in Contexts BY <1>1
      <3> QED BY <2>0, <3>1, ContextFields
    <2>2. CASE k = D
      <3>1. y <= s /\ x = cur.base /\ s \in Nat BY <1>1, <2>0, <2>2 DEF CallFits
      <3>2. cur'.base = cur.base + s BY <2>0 DEF Opened
      <3>3. x + y <= cur'.base BY ONLY <1>1, <2>1, <3>1, <3>2
      <3> QED BY <2>0, <3>3
    <2>3. CASE k \in 1 .. Len(frames)
      <3>1. k < D /\ D \in 1 .. D BY <1>1, <2>3
      <3>2. x + y <= cur.base BY <1>1, <2>0, <3>1 DEF Windows, D
      <3>3. x + y <= cur'.base BY ONLY <1>1, <2>1, <3>2
      <3> QED BY <2>0, <3>3
    <2> QED BY <1>4, <2>2, <2>3
  <1>12. \A k, l \in 1 .. D + 1 : k < l =>
          /\ Ctx'[k].base <= Ctx'[l].base
          /\ \A b \in DOMAIN Ctx'[k].blocks : Ctx'[k].base + Ctx'[k].blocks[b].at <= Ctx'[l].base
    <2> SUFFICES ASSUME NEW k \in 1 .. D + 1, NEW l \in 1 .. D + 1, k < l
                 PROVE  /\ Ctx'[k].base <= Ctx'[l].base
                        /\ \A b \in DOMAIN Ctx'[k].blocks :
                             Ctx'[k].base + Ctx'[k].blocks[b].at <= Ctx'[l].base
      OBVIOUS
    <2>1. k \in 1 .. D BY <1>1
    <2>2. Ctx'[k].base = Ctx[k].base /\ Ctx'[k].blocks = Ctx[k].blocks BY <1>2, <2>1
    <2>3. CASE l \in 1 .. D
      <3>1. Ctx'[l].base = Ctx[l].base BY <1>2, <2>3
      <3> QED BY <2>1, <2>2, <2>3, <3>1 DEF Windows, D
    <2>4. CASE l = D + 1
      <3>1. Ctx[k].base \in Nat
        <4>1. Ctx[k] \in Contexts BY <1>1, <2>1
        <4> QED BY <4>1, ContextFields
      <3>2. PICK x, y : x = Ctx[k].base /\ y = cur'.base OBVIOUS
      <3>3. x <= cur.base /\ x \in Nat BY <1>10, <2>1, <3>1, <3>2
      <3>4. y \in Nat /\ y >= cur.base BY <1>1, <3>2
      <3>5. x <= y BY ONLY <1>1, <3>3, <3>4
      <3> QED BY <1>1, <1>11, <2>1, <2>2, <2>4, <3>2, <3>5
    <2> QED BY <1>3, <2>3, <2>4
  <1>13. /\ status = "running" => Ctx'[1].base = 0
         /\ status \in {"clearing", "destroying"} => Ctx'[1].base <= MaxDepth * Width
         /\ status # "running" => Ctx'[1].blocks = <<>>
    BY <1>2, <1>7 DEF Windows
  <1>14. Windows' BY <1>1, <1>6, <1>8, <1>9, <1>12, <1>13 DEF Windows
  <1>15. \A k \in 1 .. D : Waits(k, Ctx'[k], Ctx'[k + 1])
    <2> TAKE k \in 1 .. D
    <2>1. CASE k = D
      <3>1. PICK x, y : x = Ctx'[D] /\ y = cur' OBVIOUS
      <3>2. /\ x.base = cur.base /\ x.code = cur.code /\ x.low = cur.low /\ x.top = c.keep
        <4>1. Alike(cur, Ctx'[D])
          <5>1. D \in 1 .. D BY <1>1
          <5> QED BY <1>1, <5>1
        <4>2. cur \in Contexts BY DEF Typed
        <4>3. [cur EXCEPT !.top = c.keep].top = c.keep BY <4>2 DEF Contexts
        <4> QED BY <1>1, <3>1, <4>1, <4>3 DEF Alike
      <3>3. /\ cur.code.at \in Running \cup {"leaving"}
            /\ c.by = "code" => /\ cur.code.at \in Running
                                /\ c.keep < cur.low + MaxTemps[D] /\ c.keep + 1 < Width
        BY DEF CallFits, D
      <3>4. y.code.by = c.by /\ y.base <= cur.base + Width BY <1>1, <3>1 DEF Opened
      <3>5. Waits(D, x, y) BY <3>2, <3>3, <3>4 DEF Waits
      <3> QED BY <1>1, <2>1, <3>1, <3>5
    <2>2. CASE k \in 1 .. Len(frames)
      <3>1. Waits(k, Ctx[k], Ctx[k + 1]) BY <2>2 DEF Waiting
      <3>2. Ctx'[k] = Ctx[k] /\ k + 1 \in 1 .. D BY <1>1, <2>2
      <3>3. Alike(Ctx[k + 1], Ctx'[k + 1]) BY <1>1, <3>2
      <3> QED BY <3>1, <3>2, <3>3 DEF Waits, Alike
    <2> QED BY <1>4, <2>1, <2>2
  <1> QED BY <1>1, <1>14, <1>15 DEF Waiting

LEMMA OpenedFences ==
  ASSUME Typed, Listing, Fenced, Near, HeapGrows, NEW c, CallFits(c), Opened(c), ~AtLimit,
         active' = active
  PROVE  Fenced' /\ Near'
PROOF
  <1> DEFINE D == Depth
  <1>1. /\ D \in Nat /\ D >= 1 /\ D = Len(frames) + 1 /\ Len(frames) \in Nat
        /\ Depth' = D + 1 /\ Len(frames') = D
        /\ Ctx'[D + 1] = cur' /\ Ctx[D] = cur
        /\ \A k \in 1 .. D : Alike(Ctx[k], Ctx'[k])
        /\ cur.base \in Nat /\ Width \in Nat
        /\ cur'.base \in Nat /\ cur'.base >= cur.base
    BY OpenedContexts
  <1>2. \A k \in 1 .. D : Ctx'[k].base = Ctx[k].base /\ Ctx'[k].since = Ctx[k].since
                          /\ Ctx'[k].blocks = Ctx[k].blocks
    BY <1>1 DEF Alike
  <1>3. \A j \in DOMAIN active : active[j].id \in DOMAIN insts' BY DEF Listing, Listed, HeapGrows
  <1>4. Fence(active, cur'.base, cur'.since)
    <2>1. cur'.since = Len(insts') BY DEF Opened
    <2>2. \A i \in DOMAIN insts' : i <= Len(insts') BY DEF HeapGrows
    <2>3. \A j \in DOMAIN active : \A i \in 1 .. j : i \in DOMAIN active
      <3>1. DOMAIN active = 1 .. Len(active) /\ Len(active) \in Nat BY DEF Typed
      <3> QED BY <3>1
    <2> QED BY <1>3, <2>1, <2>2, <2>3 DEF Fence
  <1> HIDE DEF D
  <1>5. \A k \in 1 .. D + 1 : k = D + 1 \/ k \in 1 .. D BY ONLY <1>1
  <1>6. \A k \in 2 .. D + 1 : Fence(active, Ctx'[k].base, Ctx'[k].since)
    <2> TAKE k \in 2 .. D + 1
    <2>1. CASE k = D + 1 BY <1>1, <1>4, <2>1
    <2>2. CASE k # D + 1
      <3>1. k \in 2 .. D /\ k \in 1 .. D BY <1>1, <2>2
      <3> QED BY <1>2, <3>1 DEF Fenced, D
    <2> QED BY <2>1, <2>2
  <1>7. \A k \in 1 .. D + 1 : FencedIn(active, Ctx'[k])
    <2> TAKE k \in 1 .. D + 1
    <2>1. CASE k = D + 1
      <3>1. Ctx'[k].blocks = <<>> BY <1>1, <2>1 DEF Opened
      <3> QED BY <3>1 DEF FencedIn
    <2>2. CASE k \in 1 .. D
      BY <1>2, <2>2 DEF Fenced, FencedIn, D
    <2> QED BY <1>5, <2>1, <2>2
  <1>8. Fenced' BY <1>1, <1>6, <1>7 DEF Fenced
  <1>9. \A j \in DOMAIN active : active[j].addr + 1 < cur'.base + Width
    <2> TAKE j \in DOMAIN active
    <2>1. active[j].addr + 1 < cur.base + Width BY DEF Near
    <2>2. PICK a : a = active[j].addr OBVIOUS
    <2>3. a \in Nat
      <3> DEFINE S == [addr : 0 .. NumRegs - 1, id : Nat]
      <3>2. active \in Seq(S) BY DEF Typed
      <3> HIDE DEF S
      <3>3. active[j] \in S BY <3>2
      <3>0. active[j] \in [addr : 0 .. NumRegs - 1, id : Nat] BY <3>3 DEF S
      <3>1. active[j].addr \in 0 .. NumRegs - 1 /\ NumRegs \in Nat BY <3>0, Sizes
      <3> QED BY <2>2, <3>1
    <2>4. PICK b : b = cur'.base OBVIOUS
    <2>5. b \in Nat /\ b >= cur.base /\ a + 1 < cur.base + Width BY <1>1, <2>1, <2>2, <2>4
    <2>6. a + 1 < b + Width BY ONLY <1>1, <2>3, <2>5
    <2> QED BY <2>2, <2>4, <2>6
  <1>10. \A k \in 1 .. D : NearTo(active, Ctx'[k].base, Ctx'[k + 1].base)
    <2> TAKE k \in 1 .. D
    <2>1. CASE k = D
      <3>1. Ctx'[k].base = cur.base
        <4>1. D \in 1 .. D BY <1>1
        <4> QED BY <1>1, <1>2, <2>1, <4>1
      <3> QED BY <3>1 DEF Near, NearTo
    <2>2. CASE k \in 1 .. Len(frames)
      <3>1. k + 1 \in 1 .. D BY <1>1, <2>2
      <3> QED BY <1>2, <2>2, <3>1 DEF Near
    <2> QED BY <1>1, <2>1, <2>2
  <1>11. Near' BY <1>1, <1>9, <1>10 DEF Near, NearTo
  <1> QED BY <1>8, <1>11

LEMMA OpenedScopes ==
  ASSUME Typed, Scoped, NEW c, CallFits(c), Opened(c), ~AtLimit, scopes' = scopes
  PROVE  Scoped'
PROOF
  <1>0. PICK D : D = Depth OBVIOUS
  <1>1. /\ D \in Nat /\ D >= 1 /\ D = Len(frames) + 1 /\ Len(frames) \in Nat
        /\ Depth' = D + 1
        /\ Ctx'[D + 1] = cur' /\ Ctx[D] = cur
        /\ \A k \in 1 .. D : Alike(Ctx[k], Ctx'[k]) /\ Ctx[k] \in Contexts
    BY <1>0, OpenedContexts
  <1>2. \A k \in 1 .. D : Ctx'[k].base = Ctx[k].base /\ Ctx'[k].under = Ctx[k].under
                          /\ Ctx'[k].blocks = Ctx[k].blocks
    BY <1>1 DEF Alike
  <1>3. cur'.under = Len(scopes) /\ cur'.blocks = <<>> BY DEF Opened
  <1>4. Len(scopes) \in Nat BY DEF Typed
  <1>5. Ceiling(D + 1)' = Len(scopes) BY <1>1 DEF Ceiling
  <1>6. \A k \in 1 .. D : Ceiling(k)' = Ceiling(k)
    <2> TAKE k \in 1 .. D
    <2>0. k # D + 1 BY <1>1
    <2>1. CASE k = D BY <1>0, <1>1, <1>3, <2>0, <2>1 DEF Ceiling
    <2>2. CASE k # D
      <3>1. k + 1 \in 1 .. D BY <1>1, <2>2
      <3> QED BY <1>0, <1>1, <1>2, <2>0, <2>2, <3>1 DEF Ceiling
    <2> QED BY <2>1, <2>2
  <1>7. \A k \in 1 .. D + 1 : k = D + 1 \/ k \in 1 .. D BY ONLY <1>1
  <1>8. \A k \in 1 .. D + 1 : StartsIn(scopes, Ctx'[k], Ceiling(k)')
    <2> TAKE k \in 1 .. D + 1
    <2>1. CASE k = D + 1
      <3>1. Len(Ctx'[k].blocks) = 0 /\ Ctx'[k].under = Len(scopes) BY <1>1, <1>3, <2>1
      <3> QED BY <1>4, <1>5, <2>1, <3>1 DEF StartsIn
    <2>2. CASE k \in 1 .. D
      <3>1. StartsIn(scopes, Ctx[k], Ceiling(k)) BY <1>0, <2>2 DEF Scoped
      <3> QED BY <1>2, <1>6, <2>2, <3>1 DEF StartsIn
    <2> QED BY <1>7, <2>1, <2>2
  <1>9. 1 \in 1 .. D BY <1>1
  <1>10. Ctx'[1].under = 0 BY <1>2, <1>9 DEF Scoped
  <1>11. \A k \in 2 .. D + 1 : \A p \in Ctx'[k].under + 1 .. Len(scopes) : scopes[p] >= Ctx'[k].base
    <2> TAKE k \in 2 .. D + 1
    <2>1. CASE k = D + 1 BY <1>1, <1>3, <1>4, <2>1
    <2>2. CASE k # D + 1
      <3>1. k \in 2 .. D /\ k \in 1 .. D BY <1>1, <2>2
      <3> QED BY <1>0, <1>2, <3>1 DEF Scoped
    <2> QED BY <2>1, <2>2
  <1>12. ASSUME NEW k \in 1 .. D PROVE Ctx[k].under <= Len(scopes)
    <2>1. StartsIn(scopes, Ctx[k], Ceiling(k)) BY <1>0 DEF Scoped
    <2>2. Ctx[k].under \in Nat /\ Len(Ctx[k].blocks) \in Nat BY <1>1, ContextFields
    <2>3. Ctx[k].under + Len(Ctx[k].blocks) <= Ceiling(k) /\ Ceiling(k) <= Len(scopes)
      BY <2>1 DEF StartsIn
    <2>4. Ceiling(k) \in Int
      <3>1. CASE k = D BY <1>0, <1>4, <3>1 DEF Ceiling
      <3>2. CASE k # D
        <4>1. k + 1 \in 1 .. D BY <1>1, <3>2
        <4>2. Ctx[k + 1].under \in Nat BY <1>1, <4>1, ContextFields
        <4> QED BY <1>0, <3>2, <4>2 DEF Ceiling
      <3> QED BY <3>1, <3>2
    <2> QED BY <1>4, <2>2, <2>3, <2>4
  <1>13. \A k, l \in 1 .. D + 1 : k < l => Ctx'[k].under <= Ctx'[l].under
    <2> SUFFICES ASSUME NEW k \in 1 .. D + 1, NEW l \in 1 .. D + 1, k < l
                 PROVE  Ctx'[k].under <= Ctx'[l].under
      OBVIOUS
    <2>1. k \in 1 .. D BY <1>1
    <2>2. CASE l = D + 1 BY <1>1, <1>2, <1>3, <1>12, <2>1, <2>2
    <2>3. CASE l \in 1 .. D BY <1>0, <1>2, <2>1, <2>3 DEF Scoped
    <2> QED BY <1>7, <2>2, <2>3
  <1> QED BY <1>1, <1>8, <1>10, <1>11, <1>13 DEF Scoped

(* The C++ functions below a call, once its window is there.               *)
StackBelow(b) ==
  /\ \E S : b \in Seq(S)
  /\ LinksOf(b, Depth)
  /\ \A i \in DOMAIN b : b[i].depth \in Int /\ \E m : m = b[i] /\ NativeEntry(m)'
  /\ status # "running" => /\ b # <<>> /\ b[1].op = "drop"
                           /\ b[1].then \in {"clear", "destroy"}
  /\ b # <<>> /\ b[Len(b)].op = "drop" => b[Len(b)].busy # 0
  /\ \A i \in DOMAIN b : Dropper(b[i]) => DropsBelow(active, b[i].busy, Ctx'[b[i].depth + 1].base)
  /\ \A i, j \in DOMAIN b : i < j /\ Dropper(b[i]) /\ Dropper(b[j]) => b[i].busy < b[j].busy

LEMMA OpenedStack ==
  ASSUME Depth \in Nat, Depth' = Depth + 1, NEW c, NEW b, StackBelow(b),
         c.op = "call", c.depth = Depth + 1, CallOK(c)',
         b # <<>> /\ b[Len(b)].op # "call" => c.by # "code",
         (\E i \in DOMAIN b : Binds(b[i])) => Binds(c),
         native' = Append(b, c) \/ (native' = b /\ ~Binds(c)),
         active' = active, status' = status, status \notin {"over", "aborted"}
  PROVE  Entries' /\ Links' /\ Ends' /\ Busy'
PROOF
  <1>1. /\ LinksOf(b, Depth)
        /\ \A i \in DOMAIN b : b[i].depth \in Int /\ \E m : m = b[i] /\ NativeEntry(m)'
        /\ status # "running" => b # <<>> /\ b[1].op = "drop" /\ b[1].then \in {"clear", "destroy"}
        /\ b # <<>> /\ b[Len(b)].op = "drop" => b[Len(b)].busy # 0
        /\ \A i \in DOMAIN b : Dropper(b[i]) => DropsBelow(active, b[i].busy, Ctx'[b[i].depth + 1].base)
        /\ \A i, j \in DOMAIN b : i < j /\ Dropper(b[i]) /\ Dropper(b[j]) => b[i].busy < b[j].busy
    BY DEF StackBelow
  <1>2. PICK S : b \in Seq(S) BY DEF StackBelow
  <1>3. PICK l, n, D : l = Len(b) /\ n = native' /\ D = Depth OBVIOUS
  <1>4. l \in Nat /\ DOMAIN b = 1 .. l /\ (b = <<>> <=> l = 0) /\ D \in Nat /\ Depth' = D + 1
    BY <1>2, <1>3
  <1>5. Entries' <=> \A i \in DOMAIN n : \E m : m = n[i] /\ NativeEntry(m)'
    BY <1>3 DEF Entries
  <1>6. CASE native' = b /\ ~Binds(c)
    <2>1. n = b /\ \A i \in DOMAIN b : ~Binds(b[i]) BY <1>3, <1>6
    <2>2. Entries' BY <1>1, <1>5, <2>1
    <2>3. LinksOf(b, D + 1)
      <3>1. \A i \in 1 .. Len(b) - 1 : Linked(b[i], b[i + 1]) BY <1>1 DEF LinksOf
      <3>2. b # <<>> => Len(b) \in DOMAIN b BY <1>3, <1>4
      <3> QED BY <2>1, <3>1, <3>2 DEF LinksOf
    <2>4. Links' BY <1>3, <1>4, <2>1, <2>3, TheLinks
    <2>5. \A i \in DOMAIN b : b[i].op = "call" BY <2>1 DEF Binds
    <2>6. status = "running"
      <3>1. b # <<>> => 1 \in DOMAIN b BY <1>4
      <3> QED BY <1>1, <2>5, <3>1
    <2>7. Ends' BY <2>6 DEF Ends
    <2>8. \A i \in DOMAIN b : ~Dropper(b[i]) BY <2>5 DEF Dropper
    <2>9. Busy'
      <3>1. \A i \in 1 .. Len(b) - 1 : i \in DOMAIN b BY <1>3, <1>4
      <3>2. b # <<>> => Len(b) \in DOMAIN b BY <1>3, <1>4
      <3> QED BY <1>3, <2>1, <2>8, <3>1, <3>2 DEF Busy
    <2> QED BY <2>2, <2>4, <2>7, <2>9
  <1>7. CASE native' = Append(b, c)
    <2>1. /\ Len(n) = l + 1 /\ DOMAIN n = 1 .. l + 1 /\ n[l + 1] = c /\ n # <<>>
          /\ \A i \in 1 .. l : n[i] = b[i]
      <3>1. n = Append(b, c) BY <1>3, <1>7
      <3>2. b \in Seq(S \cup {c}) BY <1>2
      <3> QED BY ONLY <1>2, <1>3, <3>1
    <2>2. \A i \in DOMAIN n : \/ i \in DOMAIN b /\ i \in 1 .. l /\ n[i] = b[i]
                              \/ i = l + 1 /\ n[i] = c
      BY <1>4, <2>1
    <2>3. Entries'
      <3>1. NativeEntry(c)' BY DEF NativeEntry
      <3>2. \A i \in DOMAIN n : \E m : m = n[i] /\ NativeEntry(m)' BY <1>1, <2>2, <3>1
      <3> QED BY <1>5, <3>2
    <2>4. ASSUME NEW i \in 1 .. l, Binds(b[i])
          PROVE  Binds(c) /\ b[i].depth < c.depth /\ b[i].depth <= c.depth
      <3>1. i \in DOMAIN b /\ l \in DOMAIN b /\ b # <<>> BY <1>4
      <3>2. Binds(c) BY <2>4, <3>1
      <3>3. i = l \/ i < l BY <1>4
      <3>4. CASE i = l
        <4>1. b[l].depth = D BY <1>1, <1>3, <2>4, <3>1, <3>4 DEF LinksOf
        <4> QED BY <1>3, <1>4, <3>2, <3>4, <4>1
      <3>5. CASE i < l
        <4>1. Binds(b[l]) /\ b[i].depth <= b[l].depth BY <1>1, <2>4, <3>1, <3>5 DEF LinksOf
        <4>2. b[l].depth = D BY <1>1, <1>3, <3>1, <4>1 DEF LinksOf
        <4>3. b[i].depth \in Int BY <1>1, <3>1
        <4>4. PICK x : x = b[i].depth OBVIOUS
        <4>5. x \in Int /\ x <= D /\ c.depth = D + 1 BY <1>3, <4>1, <4>2, <4>3, <4>4
        <4>6. x < D + 1 /\ x <= D + 1 BY ONLY <1>4, <4>5
        <4> QED BY <3>2, <4>4, <4>5, <4>6
      <3> QED BY <3>3, <3>4, <3>5
    <2>5. LinksOf(n, D + 1)
      <3>1. ASSUME NEW i \in 1 .. Len(n) - 1 PROVE Linked(n[i], n[i + 1])
        <4>1. i \in 1 .. l /\ n[i] = b[i] BY <1>4, <2>1
        <4>2. CASE i = l
          <5>1. n[i + 1] = c /\ n[i] = b[l] /\ b # <<>> /\ l \in DOMAIN b BY <1>4, <2>1, <4>1, <4>2
          <5>2. Binds(b[l]) => Binds(c) /\ c.depth = b[l].depth + 1
            <6>1. Binds(b[l]) => b[l].depth = D BY <1>1, <1>3, <5>1 DEF LinksOf
            <6> QED BY <1>3, <5>1, <6>1
          <5>3. b[l].op # "call" => c.op = "call" /\ c.by # "code" BY <1>3, <5>1
          <5>4. b[l].op = "drop" => b[l].busy # 0 BY <1>1, <1>3, <5>1
          <5> QED BY <5>1, <5>2, <5>3, <5>4 DEF Linked
        <4>3. CASE i # l
          <5>1. i \in 1 .. Len(b) - 1 /\ i + 1 \in 1 .. l BY <1>3, <1>4, <4>1, <4>3
          <5>2. n[i + 1] = b[i + 1] BY <2>1, <5>1
          <5> QED BY <1>1, <4>1, <5>1, <5>2 DEF LinksOf
        <4> QED BY <4>2, <4>3
      <3>2. ASSUME NEW i \in DOMAIN n, NEW j \in DOMAIN n, i < j, Binds(n[i])
            PROVE  /\ Binds(n[j])
                   /\ n[i].depth <= n[j].depth
                   /\ n[j].op = "call" => n[i].depth < n[j].depth
        <4>1. i \in 1 .. l /\ n[i] = b[i] /\ i \in DOMAIN b BY <1>4, <2>1, <3>2
        <4>2. CASE j = l + 1 BY <2>1, <2>4, <3>2, <4>1, <4>2
        <4>3. CASE j \in DOMAIN b /\ n[j] = b[j] BY <1>1, <3>2, <4>1, <4>3 DEF LinksOf
        <4> QED BY <2>2, <4>2, <4>3
      <3>3. Binds(n[Len(n)]) => n[Len(n)].depth = D + 1 BY <1>3, <2>1
      <3> QED BY <3>1, <3>2, <3>3 DEF LinksOf
    <2>6. Links' BY <1>3, <1>4, <2>5, TheLinks
    <2>7. Ends'
      <3>1. status # "running" => n[1] = b[1] BY <1>1, <1>4, <2>1
      <3> QED BY <1>1, <1>3, <2>1, <3>1 DEF Ends
    <2>8. ~Dropper(c) BY DEF Dropper
    <2>9. \A i \in 1 .. Len(n) - 1 : i \in DOMAIN b /\ n[i] = b[i] BY <1>4, <2>1
    <2>10. Busy'
      <3>1. \A i \in 1 .. Len(n) - 1 : Dropper(n[i]) => DropsBelow(active, n[i].busy, Ctx'[n[i].depth + 1].base)
        BY <1>1, <2>9
      <3>2. ~Dropper(n[Len(n)]) BY <2>1, <2>8
      <3>3. \A i, j \in DOMAIN n : i < j /\ Dropper(n[i]) /\ Dropper(n[j]) => n[i].busy < n[j].busy
        BY <1>1, <2>2, <2>8
      <3> QED BY <1>3, <3>1, <3>2, <3>3 DEF Busy
    <2> QED BY <2>3, <2>6, <2>7, <2>10
  <1> QED BY <1>6, <1>7

(* What a call leaves as it was.                                           *)
Interrupted ==
  /\ Depth' = Depth + 1 /\ \A k \in 1 .. Depth : Alike(Ctx[k], Ctx'[k])
  /\ HeapGrows
  /\ \A i \in DOMAIN insts : /\ insts'[i].made = insts[i].made
                             /\ insts'[i].literal => insts[i].literal
  /\ active' = active /\ status' = status

LEMMA EntryInterrupted ==
  ASSUME Typed, Interrupted, NEW n, NativeEntry(n)
  PROVE  NativeEntry(n)'
PROOF
  <1>1. Depth' = Depth + 1 /\ Depth \in Nat /\ HeapGrows /\ active' = active /\ status' = status
        /\ \A k \in 1 .. Depth : Alike(Ctx[k], Ctx'[k])
    BY TheContexts DEF Interrupted
  <1>2. n.op = "make" =>
          /\ n.depth \in 1 .. Depth' /\ MakesIn(n, Ctx'[n.depth])
          /\ ~insts'[n.id].made /\ ~insts'[n.id].literal
    <2> HAVE n.op = "make"
    <2>1. MakeOK(n) BY EntryOps
    <2>2. n.depth \in 1 .. Depth /\ MakesIn(n, Ctx[n.depth]) /\ n.id \in DOMAIN insts
          /\ ~insts[n.id].made /\ ~insts[n.id].literal
      BY <2>1 DEF MakeOK
    <2>3. PICK d, i : d = n.depth /\ i = n.id OBVIOUS
    <2>4. Alike(Ctx[d], Ctx'[d]) BY <1>1, <2>2, <2>3
    <2>5. MakesIn(n, Ctx'[d]) BY <2>2, <2>3, <2>4, AlikeIn
    <2>6. ~insts'[i].made /\ ~insts'[i].literal BY <2>2, <2>3 DEF Interrupted
    <2>7. d \in 1 .. Depth' BY <1>1, <2>2, <2>3
    <2> QED BY <2>3, <2>5, <2>6, <2>7
  <1>3. n.op = "drop" =>
          /\ n.depth \in 1 .. Depth' /\ DropsIn(n, Ctx'[n.depth])
          /\ n.busy \in 0 .. Len(active')
          /\ n.then \in {"clear", "destroy"} => status' = status
    <2> HAVE n.op = "drop"
    <2>1. DropOK(n) BY EntryOps
    <2>2. n.depth \in 1 .. Depth /\ DropsIn(n, Ctx[n.depth]) /\ n.busy \in 0 .. Len(active)
      BY <2>1 DEF DropOK
    <2>3. PICK d : d = n.depth OBVIOUS
    <2>4. Alike(Ctx[d], Ctx'[d]) BY <1>1, <2>2, <2>3
    <2>5. DropsIn(n, Ctx'[d]) BY <2>2, <2>3, <2>4, AlikeIn
    <2>7. d \in 1 .. Depth' BY <1>1, <2>2, <2>3
    <2> QED BY <1>1, <2>2, <2>3, <2>5, <2>7
  <1> QED BY <1>1, <1>2, <1>3, EntryKept

(* Code that something waits for runs in an implicit call.                 *)
LEMMA BindsImplicit ==
  ASSUME DInv, Executing, NEW i \in DOMAIN native, Binds(native[i])
  PROVE  implicit = TRUE
PROOF
  <1>1. Inv /\ Links /\ Entries BY DEF DInv
  <1>2. Len(native) \in Nat /\ DOMAIN native = 1 .. Len(native) BY <1>1, TheNative
  <1>3. /\ implicit \in BOOLEAN
        /\ implicit <=> \E j \in 1 .. Len(native) : ImplicitCall(native[j])
        /\ EntryOK(native, i)
    BY <1>1, <1>2 DEF Inv, NativeOK
  <1>4. native # <<>> BY <1>2
  <1>5. native[Len(native)].op = "call" BY <1>1, <1>4, OnCall
  <1>6. CASE native[i].op = "call" /\ native[i].by # "code"
    BY <1>2, <1>3, <1>6 DEF ImplicitCall
  <1>7. CASE native[i].op = "call" /\ native[i].was
    <2>1. PICK j \in 1 .. i - 1 : ImplicitCall(native[j]) BY <1>3, <1>7 DEF EntryOK
    <2>2. j \in 1 .. Len(native) BY <1>2
    <2> QED BY <1>3, <2>1, <2>2
  <1>8. CASE native[i].op # "call"
    <2>1. i \in 1 .. Len(native) - 1 /\ i + 1 \in 1 .. Len(native)
      <3>1. i # Len(native) /\ i \in 1 .. Len(native) BY <1>2, <1>5, <1>8
      <3> QED BY ONLY <1>2, <3>1
    <2>2. Linked(native[i], native[i + 1]) BY <1>1, <2>1 DEF Links
    <2>3. ImplicitCall(native[i + 1]) BY <1>8, <2>2 DEF Linked, ImplicitCall
    <2> QED BY <1>3, <2>1, <2>3
  <1> QED BY <1>6, <1>7, <1>8 DEF Binds

(* The stack under a call by code ...                                      *)
LEMMA BelowCode ==
  ASSUME DInv, Executing, Interrupted
  PROVE  StackBelow(native)
PROOF
  <1>1. Inv /\ Typed /\ Entries /\ Links /\ Ends /\ Busy BY DEF DInv
  <1>2. Len(native) \in Nat /\ DOMAIN native = 1 .. Len(native) /\ (native = <<>> <=> Len(native) = 0)
        /\ \E S : native \in Seq(S)
    BY <1>1, TheNative
  <1>3. LinksOf(native, Depth) BY <1>1, TheLinks
  <1>4. \A i \in DOMAIN native : native[i].depth \in Int /\ \E m : m = native[i] /\ NativeEntry(m)'
    <2> TAKE i \in DOMAIN native
    <2>1. PICK n : n = native[i] OBVIOUS
    <2>2. NativeEntry(n) BY <1>1, <2>1 DEF Entries
    <2>3. NativeEntry(n)' BY <1>1, <2>2, EntryInterrupted
    <2> QED BY <2>1, <2>2, <2>3, EntryOps
  <1>5. native # <<>> => native[Len(native)].op = "call" BY <1>1, OnCall
  <1>6. status # "running" => /\ native # <<>> /\ native[1].op = "drop"
                              /\ native[1].then \in {"clear", "destroy"}
    BY <1>1 DEF Ends, Executing
  <1>7. ASSUME NEW i \in DOMAIN native, Dropper(native[i])
        PROVE  DropsBelow(active, native[i].busy, Ctx'[native[i].depth + 1].base)
    <2>1. native[i].op = "drop" BY <1>7 DEF Dropper
    <2>2. native[i].depth \in 1 .. Len(frames) BY <1>1, <2>1, CodeAlone
    <2>3. i \in 1 .. Len(native) - 1
      <3>1. i # Len(native) /\ i \in 1 .. Len(native) BY <1>2, <1>5, <2>1
      <3> QED BY ONLY <1>2, <3>1
    <2>4. DropsBelow(active, native[i].busy, Ctx[native[i].depth + 1].base)
      BY <1>1, <1>7, <2>3 DEF Busy
    <2>5. native[i].depth + 1 \in 1 .. Depth BY <1>1, <2>2, TheContexts
    <2>6. Ctx'[native[i].depth + 1].base = Ctx[native[i].depth + 1].base
      BY <2>5 DEF Interrupted, Alike
    <2> QED BY <2>4, <2>6
  <1>8. \A i, j \in DOMAIN native : i < j /\ Dropper(native[i]) /\ Dropper(native[j]) =>
          native[i].busy < native[j].busy
    BY <1>1 DEF Busy
  <1> QED BY <1>2, <1>3, <1>4, <1>5, <1>6, <1>7, <1>8 DEF StackBelow

(* ... under the constructor of an instance that code makes ...            *)
LEMMA BelowMake ==
  ASSUME DInv, Executing, Interrupted, NEW x, x.op = "make", x.depth = Depth, NativeEntry(x)'
  PROVE  StackBelow(Append(native, x))
PROOF
  <1>1. Inv /\ Typed /\ Entries /\ Links /\ Ends /\ Busy BY DEF DInv
  <1>2. Len(native) \in Nat /\ DOMAIN native = 1 .. Len(native) /\ (native = <<>> <=> Len(native) = 0)
    BY <1>1, TheNative
  <1>3. PICK l, b, D : l = Len(native) /\ b = Append(native, x) /\ D = Depth OBVIOUS
  <1>4. StackBelow(native) BY BelowCode
  <1>5. PICK S : native \in Seq(S) BY <1>1, TheNative
  <1>6. /\ Len(b) = l + 1 /\ DOMAIN b = 1 .. l + 1 /\ b[l + 1] = x /\ b # <<>>
        /\ \A i \in 1 .. l : b[i] = native[i]
        /\ \E T : b \in Seq(T)
    <2>1. native \in Seq(S \cup {x}) BY <1>5
    <2>2. b \in Seq(S \cup {x}) BY <1>3, <2>1
    <2>3. /\ Len(b) = l + 1 /\ DOMAIN b = 1 .. l + 1 /\ b[l + 1] = x /\ b # <<>>
          /\ \A i \in 1 .. l : b[i] = native[i]
      BY ONLY <1>3, <1>5
    <2> QED BY <2>2, <2>3
  <1>7. \A i \in DOMAIN b : \/ i \in DOMAIN native /\ i \in 1 .. l /\ b[i] = native[i]
                            \/ i = l + 1 /\ b[i] = x
    BY <1>2, <1>3, <1>6
  <1>8. native # <<>> => native[Len(native)].op = "call" BY <1>1, OnCall
  <1>9. Binds(x) /\ ~Dropper(x) BY DEF Binds, Dropper
  <1>10. D \in Nat BY <1>1, <1>3, TheContexts
  <1>11. LinksOf(native, D) BY <1>3, <1>4 DEF StackBelow
  <1>12. ASSUME NEW i \in 1 .. l, Binds(native[i])
         PROVE  native[i].depth <= D /\ native[l].depth = D
    <2>1. i \in DOMAIN native /\ l \in DOMAIN native /\ native # <<>> BY <1>2, <1>3
    <2>0. l \in Nat BY <1>2, <1>3
    <2>2. i = l \/ i < l BY ONLY <2>0
    <2>3. CASE i = l BY <1>3, <1>10, <1>11, <1>12, <2>1, <2>3 DEF LinksOf
    <2>4. CASE i < l
      <3>1. Binds(native[l]) /\ native[i].depth <= native[l].depth
        BY <1>11, <1>12, <2>1, <2>4 DEF LinksOf
      <3> QED BY <1>3, <1>11, <2>1, <3>1 DEF LinksOf
    <2> QED BY <2>2, <2>3, <2>4
  <1>13. LinksOf(b, D)
    <2>1. ASSUME NEW i \in 1 .. Len(b) - 1 PROVE Linked(b[i], b[i + 1])
      <3>1. i \in 1 .. l /\ b[i] = native[i] BY <1>2, <1>3, <1>6
      <3>2. CASE i = l
        <4>1. b[i + 1] = x /\ b[i] = native[l] /\ native # <<>> BY <1>2, <1>3, <1>6, <3>1, <3>2
        <4>2. native[l].op = "call" BY <1>3, <1>8, <4>1
        <4>3. Binds(native[l]) => x.depth = native[l].depth + 0
          <5> HAVE Binds(native[l])
          <5>1. native[l].depth = D BY <1>12, <3>1, <3>2
          <5> QED BY <1>3, <1>10, <5>1
        <4> QED BY <1>9, <4>1, <4>2, <4>3 DEF Linked
      <3>3. CASE i # l
        <4>0. l \in Nat /\ i \in 1 .. l BY <1>2, <1>3, <3>1
        <4>3. i \in 1 .. l - 1 /\ i + 1 \in 1 .. l BY ONLY <3>3, <4>0
        <4>1. i \in 1 .. Len(native) - 1 /\ i + 1 \in 1 .. l BY <1>3, <4>3
        <4>2. b[i + 1] = native[i + 1] BY <1>6, <4>1
        <4> QED BY <1>11, <3>1, <4>1, <4>2 DEF LinksOf
      <3> QED BY <3>2, <3>3
    <2>2. ASSUME NEW i \in DOMAIN b, NEW j \in DOMAIN b, i < j, Binds(b[i])
          PROVE  /\ Binds(b[j])
                 /\ b[i].depth <= b[j].depth
                 /\ b[j].op = "call" => b[i].depth < b[j].depth
      <3>1. i \in 1 .. l /\ b[i] = native[i] /\ i \in DOMAIN native BY <1>2, <1>3, <1>6, <2>2
      <3>2. CASE j = l + 1
        <4>1. b[j] = x /\ native[i].depth <= D BY <1>6, <1>12, <2>2, <3>1, <3>2
        <4> QED BY <1>3, <1>9, <3>1, <4>1
      <3>3. CASE j \in DOMAIN native /\ b[j] = native[j] BY <1>11, <2>2, <3>1, <3>3 DEF LinksOf
      <3> QED BY <1>7, <3>2, <3>3
    <2>3. Binds(b[Len(b)]) => b[Len(b)].depth = D BY <1>3, <1>6
    <2> QED BY <2>1, <2>2, <2>3 DEF LinksOf
  <1>14. \A i \in DOMAIN b : b[i].depth \in Int /\ \E m : m = b[i] /\ NativeEntry(m)'
    <2>1. x.depth \in Int BY <1>3, <1>10
    <2> QED BY <1>4, <1>7, <2>1 DEF StackBelow
  <1>15. status # "running" => b # <<>> /\ b[1].op = "drop" /\ b[1].then \in {"clear", "destroy"}
    <2> HAVE status # "running"
    <2>1. native # <<>> /\ native[1].op = "drop" /\ native[1].then \in {"clear", "destroy"}
      BY <1>4 DEF StackBelow
    <2>2. 1 \in 1 .. l BY <1>2, <1>3, <2>1
    <2> QED BY <1>6, <2>1, <2>2
  <1>16. b[Len(b)].op # "drop" BY <1>6
  <1>17. /\ \A i \in DOMAIN b : Dropper(b[i]) => DropsBelow(active, b[i].busy, Ctx'[b[i].depth + 1].base)
         /\ \A i, j \in DOMAIN b : i < j /\ Dropper(b[i]) /\ Dropper(b[j]) => b[i].busy < b[j].busy
    BY <1>4, <1>7, <1>9 DEF StackBelow
  <1>18. StackBelow(b) BY <1>3, <1>6, <1>13, <1>14, <1>15, <1>16, <1>17 DEF StackBelow
  <1> QED BY <1>3, <1>18

(* ... and under a call by the C++ function on top.                        *)
LEMMA BelowSame ==
  ASSUME DInv, Interrupted, native # <<>>, native[Len(native)].op # "call",
         NEW x, x.op = native[Len(native)].op, x.depth = Depth, NativeEntry(x)',
         x.op = "drop" => /\ x.then = native[Len(native)].then
                          /\ x.busy = Len(active) /\ x.busy # 0
                          /\ DropsBelow(active, x.busy, Ctx'[Depth + 1].base)
                          /\ \A i \in 1 .. Len(native) - 1 : Dropper(native[i]) => native[i].busy < x.busy
  PROVE  StackBelow(Append(Front(native), x))
PROOF
  <1>1. Inv /\ Typed /\ Entries /\ Links /\ Ends /\ Busy BY DEF DInv
  <1>2. Len(native) \in Nat /\ DOMAIN native = 1 .. Len(native) /\ Len(native) # 0
    BY <1>1, TheNative
  <1>3. PICK l, b, D : l = Len(native) /\ b = Append(Front(native), x) /\ D = Depth OBVIOUS
  <1>4. PICK S : native \in Seq(S) BY <1>1, TheNative
  <1>5. /\ Len(b) = l /\ DOMAIN b = 1 .. l /\ b[l] = x /\ b # <<>>
        /\ \A i \in 1 .. l - 1 : b[i] = native[i]
        /\ \E T : b \in Seq(T)
    <2>1. PICK f : f = Front(native) OBVIOUS
    <2>2. f \in Seq(S) /\ Len(f) = l - 1 BY <1>1, <1>3, <1>4, <2>1, FrontIsSeq
    <2>3. \A i \in 1 .. l - 1 : f[i] = native[i] BY <1>3, <1>4, <2>1, FrontAt
    <2>4. b = Append(f, x) BY <1>3, <2>1
    <2>5. l \in Nat /\ l # 0 BY <1>2, <1>3
    <2>6. /\ Len(b) = l /\ DOMAIN b = 1 .. l /\ b[l] = x /\ b # <<>>
          /\ \A i \in 1 .. l - 1 : b[i] = f[i]
      BY ONLY <2>2, <2>4, <2>5
    <2>7. b \in Seq(S \cup {x})
      <3>1. f \in Seq(S \cup {x}) BY <2>2
      <3> QED BY <2>4, <3>1
    <2> QED BY <2>3, <2>6, <2>7
  <1>6. \A i \in DOMAIN b : \/ i \in DOMAIN native /\ i \in 1 .. l - 1 /\ b[i] = native[i]
                            \/ i = l /\ b[i] = x
    <2> TAKE i \in DOMAIN b
    <2>1. l \in Nat /\ i \in 1 .. l /\ DOMAIN native = 1 .. l BY <1>2, <1>3, <1>5
    <2>2. i = l \/ i \in 1 .. l - 1 BY ONLY <2>1
    <2> QED BY <1>5, <2>1, <2>2
  <1>7. LinksOf(b, D)
    <2>1. native[Len(native)].depth = Depth BY BelowTop
    <2>2. x.depth = native[Len(native)].depth BY <2>1
    <2>3. /\ b # <<>> /\ Len(b) = Len(native) /\ DOMAIN b = 1 .. Len(native)
          /\ \A i \in 1 .. Len(native) - 1 : b[i] = native[i]
          /\ b[Len(native)] = x
      BY <1>3, <1>5
    <2>4. LinksOf(b, Depth) BY <1>1, <2>2, <2>3, TopReplaced
    <2> QED BY <1>3, <2>4
  <1>8. \A i \in DOMAIN b : b[i].depth \in Int /\ \E m : m = b[i] /\ NativeEntry(m)'
    <2> TAKE i \in DOMAIN b
    <2>1. CASE i = l /\ b[i] = x
      <3>1. Depth \in Int BY <1>1, TheContexts
      <3> QED BY <2>1, <3>1
    <2>2. CASE i \in DOMAIN native /\ b[i] = native[i]
      <3>1. PICK n : n = native[i] OBVIOUS
      <3>2. NativeEntry(n) BY <1>1, <2>2, <3>1 DEF Entries
      <3>3. NativeEntry(n)' BY <1>1, <3>2, EntryInterrupted
      <3> QED BY <2>2, <3>1, <3>2, <3>3, EntryOps
    <2> QED BY <1>6, <2>1, <2>2
  <1>9. status # "running" => b # <<>> /\ b[1].op = "drop" /\ b[1].then \in {"clear", "destroy"}
    <2> HAVE status # "running"
    <2>1. native[1].op = "drop" /\ native[1].then \in {"clear", "destroy"} BY <1>1 DEF Ends
    <2>2. CASE l = 1
      <3>1. b[1] = x /\ native[Len(native)] = native[1] BY <1>3, <1>5, <2>2
      <3> QED BY <1>5, <2>1, <3>1
    <2>3. CASE l # 1
      <3>1. 1 \in 1 .. l - 1 BY <1>2, <1>3, <2>3
      <3> QED BY <1>5, <2>1, <3>1
    <2> QED BY <2>2, <2>3
  <1>10. b[Len(b)].op = "drop" => b[Len(b)].busy # 0 BY <1>5
  <1>11. \A i \in DOMAIN b : Dropper(b[i]) => DropsBelow(active, b[i].busy, Ctx'[b[i].depth + 1].base)
    <2> SUFFICES ASSUME NEW i \in DOMAIN b, Dropper(b[i])
                 PROVE  DropsBelow(active, b[i].busy, Ctx'[b[i].depth + 1].base)
      OBVIOUS
    <2>1. CASE i = l /\ b[i] = x BY <2>1 DEF Dropper
    <2>2. CASE i \in 1 .. l - 1 /\ b[i] = native[i]
      <3>1. Dropper(native[i]) /\ i \in 1 .. Len(native) - 1 /\ native[i].op # "call"
        BY <1>3, <2>2 DEF Dropper
      <3>2. DropsBelow(active, native[i].busy, Ctx[native[i].depth + 1].base)
        BY <1>1, <3>1 DEF Busy
      <3>3. native[i].depth \in 1 .. Len(frames) BY <3>1, BelowTop
      <3>4. native[i].depth + 1 \in 1 .. Depth BY <1>1, <3>3, TheContexts
      <3>5. Ctx'[native[i].depth + 1].base = Ctx[native[i].depth + 1].base
        BY <3>4 DEF Interrupted, Alike
      <3> QED BY <2>2, <3>2, <3>5
    <2> QED BY <1>6, <2>1, <2>2
  <1>12. \A i, j \in DOMAIN b : i < j /\ Dropper(b[i]) /\ Dropper(b[j]) => b[i].busy < b[j].busy
    <2> SUFFICES ASSUME NEW i \in DOMAIN b, NEW j \in DOMAIN b, i < j, Dropper(b[i]), Dropper(b[j])
                 PROVE  b[i].busy < b[j].busy
      OBVIOUS
    <2>0. i < j OBVIOUS
    <2>1. i \in DOMAIN native /\ i \in 1 .. l - 1 /\ b[i] = native[i]
      <3>1. l \in Nat /\ j \in 1 .. l /\ i \in 1 .. l BY <1>2, <1>3, <1>5
      <3>2. i # l BY ONLY <2>0, <3>1
      <3> QED BY <1>6, <3>2
    <2>2. CASE j = l /\ b[j] = x
      <3>1. x.op = "drop" /\ Dropper(native[i]) /\ i \in 1 .. Len(native) - 1
        BY <1>3, <2>1, <2>2 DEF Dropper
      <3>2. native[i].busy < x.busy BY <3>1
      <3> QED BY <2>1, <2>2, <3>2
    <2>3. CASE j \in DOMAIN native /\ b[j] = native[j] BY <1>1, <2>1, <2>3 DEF Busy
    <2> QED BY <1>6, <2>2, <2>3
  <1>13. StackBelow(b) BY <1>3, <1>5, <1>7, <1>8, <1>9, <1>10, <1>11, <1>12 DEF StackBelow
  <1> QED BY <1>3, <1>13

LEMMA EnterInterrupts ==
  ASSUME Typed, HeapGrows, NEW c, NEW file, NEW below, CallFits(c), ~Mismatch(c), ~AtLimit,
         EnterCall(c, file, below), active' = active, status' = status,
         \A i \in DOMAIN insts : /\ insts'[i].made = insts[i].made
                                 /\ insts'[i].literal => insts[i].literal
  PROVE  Opened(c) /\ Interrupted
PROOF
  <1>1. Opened(c) BY NewWindow DEF Opened
  <1> QED BY <1>1, OpenedContexts DEF Interrupted

(* Registers that a step may leave.                                        *)
GoodFile(file) ==
  /\ DOMAIN file = DOMAIN regs
  /\ \A r \in DOMAIN regs : file[r] = regs[r] \/ \E v : file[r] = v /\ ValueOK(v)'

LEMMA FileWith ==
  ASSUME NEW file, GoodFile(file), NEW a, NEW v, ValueOK(v)'
  PROVE  GoodFile([file EXCEPT ![a] = v])
PROOF
  <1> DEFINE g == [file EXCEPT ![a] = v]
  <1>1. DOMAIN g = DOMAIN regs BY DEF GoodFile
  <1>2. ASSUME NEW r \in DOMAIN regs PROVE g[r] = regs[r] \/ \E u : g[r] = u /\ ValueOK(u)'
    <2>1. r \in DOMAIN file BY DEF GoodFile
    <2>2. CASE r = a
      <3>1. g[r] = v BY <2>1, <2>2
      <3> QED BY <3>1
    <2>3. CASE r # a
      <3>1. g[r] = file[r] BY <2>1, <2>3
      <3> HIDE DEF g
      <3> QED BY <3>1 DEF GoodFile
    <2> QED BY <2>2, <2>3
  <1> QED BY <1>1, <1>2 DEF GoodFile

LEMMA EnterKeeps ==
  ASSUME DInv, HeapGrows, NEW c, NEW file, NEW below, CallFits(c), ~Mismatch(c), ~AtLimit,
         CallOK(c)', EnterCall(c, file, below), GoodFile(file), StackBelow(below),
         below # <<>> /\ below[Len(below)].op # "call" => c.by # "code",
         (\E i \in DOMAIN below : Binds(below[i])) => Binds(c),
         active' = active, status' = status, scopes' = scopes, status \notin {"over", "aborted"},
         args' \in 0 .. Width, missed' \in BOOLEAN,
         Inv', Listing', Unique', Counted'
  PROVE  DInv'
PROOF
  <1>1. /\ Inv /\ Typed /\ Windows /\ Waiting /\ Entries /\ Links /\ Ends /\ Listing
        /\ Busy /\ Unique /\ Counted /\ Fenced /\ Near /\ Scoped
    BY DEF DInv
  <1>2. Opened(c) /\ cur' \in Contexts BY <1>1, NewWindow DEF Opened
  <1>3. Windows' /\ Waiting' BY <1>1, <1>2, OpenedWindows
  <1>4. Fenced' /\ Near' BY <1>1, <1>2, OpenedFences
  <1>5. Scoped' BY <1>1, <1>2, OpenedScopes
  <1>6. /\ frames' \in Seq(Contexts) /\ Len(frames') <= MaxDepth /\ Depth' = Depth + 1 /\ Depth \in Nat
    BY <1>1, <1>2, OpenedContexts
  <1>7. \/ native' = Append(below, c) /\ regs' = file
        \/ /\ native' = below /\ c.by = "code" /\ ~c.was
           /\ regs' = file \/ \E a : regs' = [file EXCEPT ![a] = c.copy]
    BY <1>1, NewWindow
  <1>8. c.op = "call" /\ c.depth = Depth + 1 BY DEF CallFits
  <1>9. native' = Append(below, c) \/ (native' = below /\ ~Binds(c))
    BY <1>7, <1>8 DEF Binds
  <1>10. Entries' /\ Links' /\ Ends' /\ Busy'
    BY <1>6, <1>8, <1>9, OpenedStack
  <1>11. GoodFile(regs')
    <2>1. ValueOK(c.copy)' BY DEF CallOK
    <2>2. PICK v : v = c.copy OBVIOUS
    <2>3. ValueOK(v)'
      BY <2>1, <2>2
    <2>4. \A a : GoodFile([file EXCEPT ![a] = v]) BY <2>3, FileWith
    <2> QED BY <1>7, <2>2, <2>4
  <1>12. Typed'
    <2>1. /\ DOMAIN regs' = 0 .. NumRegs - 1
          /\ \A r \in DOMAIN regs' : \E v : regs'[r] = v /\ ValueOK(v)'
      BY <1>1, <1>11, RegsKept DEF GoodFile, Typed
    <2>2. insts' \in Seq(Instances) /\ bound' \in [Types -> 0 .. Len(insts')] BY DEF HeapGrows
    <2>3. /\ scopes' \in Seq(0 .. NumRegs - 1) /\ active' \in Seq([addr : 0 .. NumRegs - 1, id : Nat])
          /\ status' \in {"running", "clearing", "destroying", "over", "aborted"}
      BY <1>1 DEF Typed
    <2> QED BY <1>2, <1>6, <2>1, <2>2, <2>3, TypedAgain
  <1> QED BY <1>3, <1>4, <1>5, <1>10, <1>12 DEF DInv

(* The counts only depend on what is being dropped.                        *)
LEMMA CountsAlike ==
  ASSUME Typed, Listing, Counted, HeapGrows, NoneEnds, active' = active, missed' = missed,
         \A b : BeingDropped(native', b) <=> BeingDropped(native, b)
  PROVE  Counted'
PROOF
  <1>1. \A j \in DOMAIN active : active[j].id \in DOMAIN insts BY DEF Listing, Listed
  <1> SUFFICES ASSUME ~missed
               PROVE  /\ \A i, j \in DOMAIN active : active[i].id = active[j].id => i = j
                      /\ \A j \in DOMAIN active :
                           insts'[active[j].id].drops = IF BeingDropped(native', j) THEN 1 ELSE 0
                      /\ \A i \in DOMAIN insts' :
                           /\ insts'[i].drops <= 1
                           /\ ~insts'[i].made => insts'[i].drops = 0
                           /\ insts'[i].made /\ insts'[i].of.drop /\ insts'[i].drops = 0 =>
                                \E j \in DOMAIN active : active[j].id = i
    BY DEF Counted, BeingDropped
  <1>2. \A j \in DOMAIN active :
          insts'[active[j].id].drops = IF BeingDropped(native', j) THEN 1 ELSE 0
    BY <1>1 DEF Counted, NoneEnds
  <1>3. ASSUME NEW i \in DOMAIN insts'
        PROVE  /\ insts'[i].drops <= 1
               /\ ~insts'[i].made => insts'[i].drops = 0
               /\ insts'[i].made /\ insts'[i].of.drop /\ insts'[i].drops = 0 =>
                    \E j \in DOMAIN active : active[j].id = i
    BY DEF Counted, NoneEnds
  <1> QED BY <1>2, <1>3 DEF Counted

LEMMA ListingGrows ==
  ASSUME Listing, Unique, HeapGrows, NoneEnds, active' = active
  PROVE  /\ Listing'
         /\ \A i \in DOMAIN insts' : insts'[i].made => ~insts'[i].literal
PROOF
  <1>1. \A j \in DOMAIN active : active[j].id \in DOMAIN insts BY DEF Listing, Listed
  <1>2. Listing' BY <1>1 DEF Listing, Listed, HeapGrows, NoneEnds
  <1>3. \A i \in DOMAIN insts' : insts'[i].made => ~insts'[i].literal
    BY DEF Unique, HeapGrows, NoneEnds
  <1> QED BY <1>2, <1>3

LEMMA CountsWith ==
  ASSUME Typed, Listing, Unique, Counted, HeapGrows, NoneEnds, active' = active, missed' = missed,
         \A i \in DOMAIN native :
           /\ i \in DOMAIN native' /\ native'[i].op = native[i].op
           /\ native[i].op = "make" => native'[i].id = native[i].id
           /\ native[i].op = "drop" => native'[i].busy = native[i].busy,
         \A i \in DOMAIN native' \ DOMAIN native :
           native'[i].op = "call"
           \/ /\ native'[i].op = "make" /\ i = Len(native) + 1
              /\ \A j \in DOMAIN native : native[j].op = "make" => native[j].id # native'[i].id
  PROVE  Listing' /\ Unique' /\ Counted'
PROOF
  <1>1. Listing' /\ \A i \in DOMAIN insts' : insts'[i].made => ~insts'[i].literal BY ListingGrows
  <1>2. PICK n : n = native' OBVIOUS
  <1>3. \A i \in DOMAIN native :
           /\ i \in DOMAIN n /\ n[i].op = native[i].op
           /\ native[i].op = "make" => n[i].id = native[i].id
           /\ native[i].op = "drop" => n[i].busy = native[i].busy
    BY <1>2
  <1>4. \A i \in DOMAIN n \ DOMAIN native :
           n[i].op = "call"
           \/ /\ n[i].op = "make" /\ i = Len(native) + 1
              /\ \A j \in DOMAIN native : native[j].op = "make" => native[j].id # n[i].id
    BY <1>2
  <1>5. ASSUME NEW i \in DOMAIN n, NEW j \in DOMAIN n, i # j, n[i].op = "make", n[j].op = "make"
        PROVE  n[i].id # n[j].id
    <2>1. CASE i \in DOMAIN native /\ j \in DOMAIN native BY <1>3, <1>5, <2>1 DEF Unique
    <2>2. CASE i \in DOMAIN native /\ j \notin DOMAIN native BY <1>3, <1>4, <1>5, <2>2
    <2>3. CASE i \notin DOMAIN native /\ j \in DOMAIN native BY <1>3, <1>4, <1>5, <2>3
    <2>4. CASE i \notin DOMAIN native /\ j \notin DOMAIN native
      <3>1. i = Len(native) + 1 /\ j = Len(native) + 1 BY <1>4, <1>5, <2>4
      <3> QED BY <1>5, <3>1
    <2> QED BY <2>1, <2>2, <2>3, <2>4
  <1>6. Unique' BY <1>1, <1>2, <1>5 DEF Unique
  <1>7. \A b : BeingDropped(n, b) <=> BeingDropped(native, b)
    BY <1>3, <1>4 DEF BeingDropped, Dropper
  <1>8. Counted' BY <1>2, <1>7, CountsAlike
  <1> QED BY <1>1, <1>6, <1>8
-----------------------------------------------------------------------------
(* An error.                                                               *)

LEMMA Prefix ==
  ASSUME NEW S, NEW s \in Seq(S), NEW n \in Int, n <= Len(s)
  PROVE  /\ SubSeq(s, 1, n) \in Seq(S)
         /\ Len(SubSeq(s, 1, n)) \in Nat /\ Len(SubSeq(s, 1, n)) <= Len(s)
         /\ DOMAIN SubSeq(s, 1, n) = 1 .. Len(SubSeq(s, 1, n))
         /\ \A j \in 1 .. Len(SubSeq(s, 1, n)) : SubSeq(s, 1, n)[j] = s[j]
         /\ n = Len(s) => SubSeq(s, 1, n) = s
PROOF
  <1>1. CASE n >= 0
    <2>1. /\ SubSeq(s, 1, n) \in Seq(S) /\ Len(SubSeq(s, 1, n)) = n
          /\ \A j \in 1 .. n : SubSeq(s, 1, n)[j] = s[j]
      BY <1>1
    <2>2. DOMAIN SubSeq(s, 1, n) = 1 .. n BY <2>1
    <2>3. n = Len(s) => SubSeq(s, 1, n) = s BY <2>1
    <2> QED BY <1>1, <2>1, <2>2, <2>3
  <1>2. CASE n < 0
    <2>1. SubSeq(s, 1, n) = <<>> BY <1>2
    <2> QED BY <1>2, <2>1
  <1> QED BY <1>1, <1>2

LEMMA DropsFinite ==
  ASSUME Inv
  PROVE  /\ Cardinality(Drops) \in Nat
         /\ Drops = {} => Cardinality(Drops) = 0
PROOF
  <1>1. Len(native) \in Nat /\ DOMAIN native = 1 .. Len(native) BY TheNative
  <1>2. IsFiniteSet(1 .. Len(native)) BY <1>1, FS_Interval
  <1>3. Drops \subseteq 1 .. Len(native) BY <1>1 DEF Drops
  <1>4. IsFiniteSet(Drops) BY <1>2, <1>3, FS_Subset
  <1> QED BY <1>4, FS_CardinalityType, FS_EmptySet

LEMMA ThrowKeeps ==
  ASSUME DInv, Throw, HeapGrows, NoneEnds, args' \in 0 .. Width, status \notin {"over", "aborted"}
  PROVE  DInv'
PROOF
  <1>1. /\ Inv /\ Typed /\ Windows /\ Waiting /\ Entries /\ Links /\ Ends /\ Listing
        /\ Busy /\ Unique /\ Counted /\ Fenced /\ Near /\ Scoped
    BY DEF DInv
  <1>2. /\ active' = SubSeq(active, 1, Len(active) - Cardinality(Drops))
        /\ missed' = (missed \/ Drops # {})
        /\ status = "running" => status' = "clearing"
        /\ status = "clearing" => status' = "aborted"
        /\ status = "destroying" => status' = "over"
        /\ frames' = <<>> /\ native' = <<>> /\ implicit' = FALSE
        /\ cur' = [base |-> cur.base, top |-> 0, low |-> 0, blocks |-> <<>>, since |-> 0,
                   under |-> 0, code |-> Script]
        /\ regs' = regs /\ scopes' = scopes
    BY DEF Throw
  <1>3. /\ status \in {"running", "clearing", "destroying"} /\ missed \in BOOLEAN
        /\ status' \in {"clearing", "aborted", "over"}
    BY <1>1, <1>2 DEF Typed
  <1>4. Inv' BY ThrowOK
  <1>5. PICK A, n : A = active' /\ n = Len(active) OBVIOUS
  <1>6. /\ A \in Seq([addr : 0 .. NumRegs - 1, id : Nat])
        /\ n \in Nat /\ DOMAIN active = 1 .. n
        /\ Len(A) \in Nat /\ DOMAIN A = 1 .. Len(A) /\ Len(A) <= n
        /\ \A j \in DOMAIN A : j \in DOMAIN active /\ A[j] = active[j]
        /\ Drops = {} => A = active
    <2> DEFINE S == [addr : 0 .. NumRegs - 1, id : Nat]
    <2>1. active \in Seq(S) BY <1>1 DEF Typed
    <2> HIDE DEF S
    <2>2. Cardinality(Drops) \in Nat /\ (Drops = {} => Cardinality(Drops) = 0) BY <1>1, DropsFinite
    <2>3. PICK k : k = n - Cardinality(Drops) OBVIOUS
    <2>4. n \in Nat /\ DOMAIN active = 1 .. n BY <1>5, <2>1
    <2>5. k \in Int /\ k <= Len(active) /\ (Drops = {} => k = Len(active)) BY <1>5, <2>2, <2>3, <2>4
    <2>6. A = SubSeq(active, 1, k) BY <1>2, <1>5, <2>3
    <2>7. /\ A \in Seq(S) /\ Len(A) \in Nat /\ Len(A) <= Len(active) /\ DOMAIN A = 1 .. Len(A)
          /\ \A j \in 1 .. Len(A) : A[j] = active[j]
          /\ k = Len(active) => A = active
      BY <2>1, <2>5, <2>6, Prefix
    <2>8. \A j \in DOMAIN A : j \in DOMAIN active /\ A[j] = active[j]
      BY <1>5, <2>4, <2>7
    <2> QED BY <1>5, <2>4, <2>5, <2>7, <2>8 DEF S
  <1>7. PICK x, b : x = cur' /\ b = cur.base OBVIOUS
  <1>8. b \in Nat /\ cur \in Contexts
    <2>1. cur \in Contexts BY <1>1 DEF Typed
    <2> QED BY <1>7, <2>1, ContextFields
  <1>9. /\ x.base = b /\ x.top = 0 /\ x.low = 0 /\ x.blocks = <<>> /\ x.since = 0 /\ x.under = 0
        /\ x.code = Script /\ x.code.at = "script"
        /\ x \in Contexts
    <2>1. x = [base |-> b, top |-> 0, low |-> 0, blocks |-> <<>>, since |-> 0, under |-> 0, code |-> Script]
      BY <1>2, <1>7
    <2>2. Script \in [at : Places, fun : Callables \cup {NoFun}, self : 0 .. 1,
                      by : {"code", "make", "drop"}, n : Nat, promised : BOOLEAN]
          /\ Script.at = "script"
      BY DEF Script, Code, Places
    <2>3. <<>> \in Seq([at : Nat, since : Nat]) OBVIOUS
    <2> QED BY <1>8, <2>1, <2>2, <2>3 DEF Contexts
  <1>10. Len(frames') = 0 /\ Depth' = 1 /\ Ctx' = <<x>> /\ Ctx'[1] = x
    BY <1>2, <1>7 DEF Depth, Ctx
  <1>11. Laid(1, x)
    <2>1. /\ Globals \in Nat /\ Globals > 0 /\ Width \in Nat /\ Globals + MaxTemps[1] < Width
          /\ MaxTemps[1] \in Nat
      <3>1. 1 \in 1 .. MaxDepth + 1 BY Sizes
      <3> QED BY <3>1, Sizes
    <2>2. 0 < Width BY <2>1
    <2> QED BY <1>9, <2>1, <2>2 DEF Laid, Running
  <1>12. status = "running" => b <= MaxDepth * Width
    <2> HAVE status = "running"
    <2>1. /\ Depth \in 1 .. MaxDepth + 1 /\ Ctx[Depth] = cur /\ MaxDepth \in Nat /\ Width \in Nat
      BY <1>1, TheContexts, Sizes
    <2>2. Depth \in 1 .. Depth BY <2>1
    <2>3. Ctx[1].base = 0 BY <1>1 DEF Windows
    <2>4. b <= 0 + (Depth - 1) * Width BY <1>1, <1>7, <2>1, <2>2, <2>3 DEF Windows
    <2>5. PICK d : d = Depth - 1 OBVIOUS
    <2>6. d \in 0 .. MaxDepth /\ b <= 0 + d * Width BY <2>1, <2>4, <2>5
    <2>7. d * Width <= MaxDepth * Width /\ d * Width \in Nat /\ MaxDepth * Width \in Nat
      BY ONLY <2>1, <2>6
    <2> QED BY ONLY <1>8, <2>6, <2>7
  <1>13. Windows'
    <2>1. \A k \in 1 .. 1 : k = 1 OBVIOUS
    <2>2. \A k \in 2 .. 1 : FALSE OBVIOUS
    <2>3. b <= b + (1 - 1) * Width
      <3>1. (1 - 1) * Width = 0 BY Sizes
      <3> QED BY <1>8, <3>1
    <2>4. status' = "clearing" => b <= MaxDepth * Width BY <1>2, <1>3, <1>12
    <2>5. \A k \in 1 .. 1 : Laid(k, Ctx'[k]) BY <1>10, <1>11, <2>1
    <2>6. \A k \in 1 .. 1 : Ctx'[k].base <= Ctx'[1].base + (k - 1) * Width
      BY <1>9, <1>10, <2>1, <2>3
    <2>7. \A k, l \in 1 .. 1 : ~(k < l) OBVIOUS
    <2>8. cur'.top = 0 BY <1>7, <1>9
    <2>9. /\ status' # "running" /\ Ctx'[1].blocks = <<>>
          /\ status' \in {"clearing", "destroying"} => Ctx'[1].base <= MaxDepth * Width
      BY <1>3, <1>9, <1>10, <2>4
    <2> QED BY <1>10, <2>2, <2>5, <2>6, <2>7, <2>8, <2>9 DEF Windows
  <1>14. Waiting' BY <1>10 DEF Waiting
  <1>15. Entries' BY <1>2 DEF Entries
  <1>16. Links' BY <1>2 DEF Links
  <1>17. Ends'
    <2>1. status = "destroying" => Drops # {}
      <3> HAVE status = "destroying"
      <3>1. native # <<>> /\ native[1].op = "drop" BY <1>1 DEF Ends
      <3>2. 1 \in DOMAIN native BY <1>1, <3>1, TheNative
      <3> QED BY <3>1, <3>2 DEF Drops
    <2>2. status' = "over" => missed' BY <1>2, <1>3, <2>1
    <2> QED BY <1>2, <1>3, <2>2 DEF Ends
  <1>18. /\ \A j \in DOMAIN active : active[j].id \in DOMAIN insts /\ insts'[active[j].id].made
                                     /\ insts'[active[j].id].of.drop /\ active[j].id \in DOMAIN insts'
    BY <1>1 DEF Listing, Listed, HeapGrows, NoneEnds
  <1>19. Listing'
    <2>1. \A j \in DOMAIN A : /\ A[j].id \in DOMAIN insts' /\ insts'[A[j].id].made
                              /\ insts'[A[j].id].of.drop
      BY <1>6, <1>18
    <2> QED BY <1>5, <2>1 DEF Listing, Listed
  <1>20. Busy' BY <1>2 DEF Busy
  <1>21. Unique' BY <1>1, <1>2 DEF Unique, HeapGrows, NoneEnds
  <1>22. Counted'
    <2>1. CASE missed' BY <2>1 DEF Counted
    <2>2. CASE ~missed'
      <3>1. Drops = {} /\ missed' = missed BY <1>2, <1>3, <2>2
      <3>2. active' = active BY <1>5, <1>6, <3>1
      <3>3. \A b2 : BeingDropped(native', b2) <=> BeingDropped(native, b2)
        <4>1. \A b2 : ~BeingDropped(native', b2) BY <1>2 DEF BeingDropped
        <4>2. \A b2 : ~BeingDropped(native, b2) BY <3>1 DEF BeingDropped, Dropper, Drops
        <4> QED BY <4>1, <4>2
      <3> QED BY <1>1, <3>1, <3>2, <3>3, CountsAlike
    <2> QED BY <2>1, <2>2
  <1>23. Fenced'
    <2>1. FencedIn(A, x) BY <1>9 DEF FencedIn
    <2>2. \A k \in 2 .. 1 : FALSE OBVIOUS
    <2>3. \A k \in 1 .. 1 : k = 1 OBVIOUS
    <2> QED BY <1>5, <1>10, <2>1, <2>2, <2>3 DEF Fenced
  <1>24. Near'
    <2>1. \A j \in DOMAIN A : A[j].addr + 1 < cur'.base + Width
      <3>1. \A j \in DOMAIN active : active[j].addr + 1 < cur.base + Width BY <1>1 DEF Near
      <3>2. cur'.base = cur.base BY <1>7, <1>9
      <3> QED BY <1>6, <3>1, <3>2
    <2>2. \A k \in 1 .. 0 : FALSE OBVIOUS
    <2> QED BY <1>5, <1>10, <2>1, <2>2 DEF Near
  <1>25. Scoped'
    <2>1. Len(scopes) \in Nat BY <1>1 DEF Typed
    <2>2. Len(x.blocks) = 0 BY <1>9
    <2>3. StartsIn(scopes, x, Len(scopes)) BY <1>9, <2>1, <2>2 DEF StartsIn
    <2>4. Ceiling(1)' = Len(scopes') BY <1>10 DEF Ceiling
    <2>5. \A k \in 1 .. 1 : StartsIn(scopes', Ctx'[k], Ceiling(k)')
      <3> TAKE k \in 1 .. 1
      <3>1. k = 1 OBVIOUS
      <3> QED BY <1>2, <1>10, <2>3, <2>4, <3>1
    <2>6. \A k \in 2 .. 1 : FALSE OBVIOUS
    <2>7. \A k, l \in 1 .. 1 : ~(k < l) OBVIOUS
    <2>8. Ctx'[1].under = 0 BY <1>9, <1>10
    <2> QED BY <1>10, <2>5, <2>6, <2>7, <2>8 DEF Scoped
  <1>26. Typed'
    <2>1. /\ DOMAIN regs' = 0 .. NumRegs - 1
          /\ \A r \in DOMAIN regs' : \E v : regs'[r] = v /\ ValueOK(v)'
      BY <1>1, <1>2, Unwritten, RegsKept DEF Written, Typed
    <2>2. frames' \in Seq(Contexts) /\ Len(frames') <= MaxDepth
      <3>1. <<>> \in Seq(Contexts) OBVIOUS
      <3> QED BY <1>2, <1>10, <3>1, Sizes
    <2>3. /\ scopes' \in Seq(0 .. NumRegs - 1) /\ cur' \in Contexts
          /\ active' \in Seq([addr : 0 .. NumRegs - 1, id : Nat])
      BY <1>1, <1>2, <1>5, <1>6, <1>7, <1>9 DEF Typed
    <2>4. insts' \in Seq(Instances) /\ bound' \in [Types -> 0 .. Len(insts')] BY DEF HeapGrows
    <2>5. /\ status' \in {"running", "clearing", "destroying", "over", "aborted"}
          /\ missed' \in BOOLEAN
      BY <1>2, <1>3
    <2> QED BY <2>1, <2>2, <2>3, <2>4, <2>5, TypedAgain
  <1> QED BY <1>4, <1>13, <1>14, <1>15, <1>16, <1>17, <1>19, <1>20, <1>21, <1>22, <1>23, <1>24,
             <1>25, <1>26 DEF DInv

LEMMA FailKeeps ==
  ASSUME DInv, Fail
  PROVE  DInv'
PROOF
  <1>1. Throw /\ args' = args /\ UNCHANGED heap /\ Executing BY DEF Fail, At
  <1>2. Inv /\ Typed /\ Entries /\ Links /\ Ends BY DEF DInv
  <1>3. HeapGrows /\ NoneEnds BY <1>1, <1>2, HeapStays
  <1>4. status \notin {"over", "aborted"} BY <1>1, <1>2, CodeAlone
  <1>5. args' \in 0 .. Width BY <1>1, <1>2 DEF Typed
  <1> QED BY <1>1, <1>3, <1>4, <1>5, ThrowKeeps
-----------------------------------------------------------------------------
(* Calls that code makes.                                                  *)

LEMMA TheCall ==
  ASSUME NEW f, NEW self, NEW by, NEW start, NEW argc, NEW keep, NEW copy,
         NEW c, c = Call(f, self, by, start, argc, keep, copy)
  PROVE  /\ c.op = "call" /\ c.fun = f /\ c.self = self /\ c.by = by /\ c.start = start
         /\ c.argc = argc /\ c.keep = keep /\ c.copy = copy /\ c.was = implicit
         /\ c.depth = Len(frames) + 2
PROOF
  BY DEF Call

LEMMA CodeCallFits ==
  ASSUME DInv, At({"script", "default", "body"}), NEW p \in Temporaries, NEW c,
         c.op = "call", c.was = implicit, c.depth = Depth + 1, c.fun \in Callables, c.self \in 0 .. 1,
         c.by \in {"code", "make"}, c.start = p + 1, c.argc = cur.top - p - 1, c.keep = p
  PROVE  CallFits(c)
PROOF
  <1>1. Inv /\ Typed /\ Windows BY DEF DInv
  <1>2. /\ p \in Nat /\ p < cur.top /\ p < Width /\ \A b \in DOMAIN cur.blocks : cur.blocks[b].at <= p
    BY TemporaryFacts
  <1>3. Laid(Depth, [cur EXCEPT !.top = p]) /\ p < cur.low + MaxTemps[Depth] BY TopLowered
  <1>4. /\ cur.top \in Nat /\ cur.top < Width
        /\ \A b \in DOMAIN cur.blocks : cur.blocks[b].at \in Nat
    BY <1>1, TopFacts
  <1>5. cur.code.at \in Running BY DEF At, Running
  <1>6. cur.base \in Nat /\ Width \in Nat
    <2>1. cur \in Contexts BY <1>1 DEF Typed
    <2> QED BY <2>1, ContextFields, Sizes
  <1>7. PICK t, s : t = cur.top /\ s = c.self OBVIOUS
  <1>8. t \in Nat /\ t < Width /\ p < t /\ s \in 0 .. 1 BY <1>2, <1>4, <1>7
  <1>9. /\ p + 1 \in Nat /\ t - p - 1 \in Nat /\ p + 1 <= Width /\ cur.base + (p + 1) >= 1
        /\ s + (t - p - 1) < Width /\ p + 1 < Width
    BY ONLY <1>2, <1>6, <1>8
  <1>10. \A b \in DOMAIN cur.blocks : cur.blocks[b].at <= p + 1
    <2> TAKE b \in DOMAIN cur.blocks
    <2>1. PICK y : y = cur.blocks[b].at OBVIOUS
    <2>2. y \in Nat /\ y <= p BY <1>2, <1>4, <2>1
    <2>3. y <= p + 1 BY ONLY <1>2, <2>2
    <2> QED BY <2>1, <2>3
  <1> QED BY <1>2, <1>3, <1>5, <1>7, <1>9, <1>10 DEF CallFits

(* The slot of the callee after a refused call.                            *)
LEMMA Refused ==
  ASSUME DInv, NEW c, NEW file, NEW below, GoodFile(file), ValueOK(c.copy)', RefuseCall(c, file, below)
  PROVE  /\ Written /\ native' = below /\ frames' = frames /\ implicit' = implicit
         /\ cur' = [cur EXCEPT !.top = IF c.by = "code" THEN c.start ELSE c.keep]
PROOF
  <1>1. PICK v, a : v = (IF c.self = 1 THEN c.copy ELSE Invalid) /\ a = Reg(c.start - 1) OBVIOUS
  <1>2. ValueOK(v)'
    <2>1. CASE v = c.copy
      BY <2>1
    <2>2. CASE v = Invalid BY <2>2, PlainValues
    <2> QED BY <1>1, <2>1, <2>2
  <1>3. regs' = [file EXCEPT ![a] = v] BY <1>1 DEF RefuseCall
  <1>4. GoodFile(regs') BY <1>2, <1>3, FileWith
  <1> QED BY <1>4 DEF RefuseCall, GoodFile, Written

LEMMA CodeCallKeeps ==
  ASSUME DInv, At({"script", "default", "body"}), NEW p \in Temporaries,
         NEW f \in Callables, NEW self \in 0 .. 1, NEW copy, ValueOK(copy), NEW file, GoodFile(file),
         args' = cur.top - p - 1, UNCHANGED <<scopes, heap, active, status, missed>>,
         NEW c, c = Call(f, self, "code", p + 1, args', p, copy),
         AtLimit \/ ~Mismatch(c), CallUserFunc(c, file, native), Inv'
  PROVE  DInv'
PROOF
  <1>1. /\ Inv /\ Typed /\ Windows /\ Entries /\ Links /\ Ends /\ Listing /\ Unique /\ Counted
    BY DEF DInv
  <1>2. Executing BY DEF At
  <1>3. HeapGrows /\ NoneEnds BY <1>1, HeapStays
  <1>4. /\ Depth = Len(frames) + 1 /\ Depth \in Nat /\ Len(frames) \in Nat BY <1>1, TheContexts
  <1>5. /\ c.op = "call" /\ c.fun = f /\ c.self = self /\ c.by = "code" /\ c.start = p + 1
        /\ c.argc = args' /\ c.keep = p /\ c.copy = copy /\ c.was = implicit
        /\ c.depth = Len(frames) + 2
    BY TheCall
  <1>6. c.depth = Depth + 1 /\ c.depth \in Nat BY <1>4, <1>5
  <1>7. CallFits(c) BY <1>5, <1>6, CodeCallFits
  <1>8. ValueOK(copy)' BY <1>3, ValueKept
  <1>9. implicit \in BOOLEAN BY <1>1 DEF Inv, NativeOK
  <1>10. CallOK(c)'
    <2>1. ValueOK(c.copy)' BY <1>5, <1>8
    <2> QED BY <1>5, <1>6, <1>9, <2>1 DEF CallOK
  <1>11. status \notin {"over", "aborted"} BY <1>1, <1>2, CodeAlone
  <1>12. args' \in 0 .. Width
    <2>1. c.argc \in Nat /\ c.self + c.argc < Width BY <1>7 DEF CallFits
    <2>2. PICK a, s : a = args' /\ s = c.self OBVIOUS
    <2>3. a \in Nat /\ s \in 0 .. 1 /\ s + a < Width BY <1>5, <2>1, <2>2
    <2>4. a \in 0 .. Width BY <2>3, Sizes
    <2> QED BY <2>2, <2>4
  <1>13. CASE AtLimit
    <2>1. RefuseCall(c, file, native) BY <1>13 DEF CallUserFunc
    <2>2. ValueOK(c.copy)' BY <1>5, <1>8
    <2>3. /\ Written /\ native' = native /\ frames' = frames /\ implicit' = implicit
          /\ cur' = [cur EXCEPT !.top = p + 1]
      BY <1>5, <2>1, <2>2, Refused
    <2>4. cur \in Contexts /\ Laid(Depth, cur) BY <1>1, LaidHere
    <2>5. p + 1 \in Nat /\ cur.low <= p + 1 /\ p + 1 <= cur.low + MaxTemps[Depth]
          /\ \A b \in DOMAIN cur.blocks : cur.blocks[b].at <= p + 1
      <3>1. p \in Nat /\ cur.low <= p /\ p < cur.low + MaxTemps[Depth] BY TemporaryFacts, TopLowered
      <3>2. cur.low \in Nat BY <2>4, ContextFields
      <3>3. Depth \in 1 .. MaxDepth + 1 BY <1>1, TheContexts
      <3>4. PICK m : m = MaxTemps[Depth] OBVIOUS
      <3>5. m \in Nat BY <3>3, <3>4, Sizes
      <3>6. p < cur.low + m BY <3>1, <3>4
      <3>7. p + 1 \in Nat /\ cur.low <= p + 1 /\ p + 1 <= cur.low + m
        BY ONLY <3>1, <3>2, <3>5, <3>6
      <3>8. \A b \in DOMAIN cur.blocks : cur.blocks[b].at <= p + 1
        BY <1>5, <1>7 DEF CallFits
      <3> QED BY <3>4, <3>7, <3>8
    <2>6. cur.code.at \in Running BY DEF At, Running
    <2>7. cur' \in Contexts /\ Beside(cur, cur') /\ Laid(Depth, cur')
      <3>1. Depth \in 1 .. MaxDepth + 1 BY <1>1, TheContexts
      <3> QED BY <2>3, <2>4, <2>5, <2>6, <3>1, TopMoved
    <2>8. Local BY <1>3, <2>3, <2>7 DEF Local, Steady
    <2>9. Typed'
      <3>1. /\ DOMAIN regs' = 0 .. NumRegs - 1
            /\ \A r \in DOMAIN regs' : \E v : regs'[r] = v /\ ValueOK(v)'
        BY <1>1, <1>3, <2>3, RegsKept DEF Written, Typed
      <3> QED BY <1>1, <1>3, <1>12, <2>3, <2>7, <3>1, TypedAgain DEF HeapGrows, Typed
    <2> QED BY <1>2, <2>8, <2>9, LocalKeeps
  <1>14. CASE ~AtLimit
    <2>1. EnterCall(c, file, native) /\ ~Mismatch(c) BY <1>14 DEF CallUserFunc
    <2>2. \A i \in DOMAIN insts : /\ insts'[i].made = insts[i].made
                                  /\ insts'[i].literal => insts[i].literal
      BY <1>3 DEF NoneEnds
    <2>3. Interrupted BY <1>1, <1>3, <1>7, <1>14, <2>1, <2>2, EnterInterrupts
    <2>4. StackBelow(native) BY <1>2, <2>3, BelowCode
    <2>5. native # <<>> => native[Len(native)].op = "call" BY <1>1, <1>2, OnCall
    <2>6. (\E i \in DOMAIN native : Binds(native[i])) => Binds(c)
      <3> HAVE \E i \in DOMAIN native : Binds(native[i])
      <3>1. implicit = TRUE BY <1>2, BindsImplicit
      <3> QED BY <1>5, <3>1 DEF Binds
    <2>7. native' = native \/ native' = Append(native, c)
      BY <2>1 DEF EnterCall, Settle
    <2>8. Listing' /\ Unique' /\ Counted'
      <3>1. PICK n : n = native' OBVIOUS
      <3>2. Len(native) \in Nat /\ DOMAIN native = 1 .. Len(native) BY <1>1, TheNative
      <3>3. /\ \A i \in DOMAIN native : i \in DOMAIN n /\ n[i] = native[i]
            /\ \A i \in DOMAIN n \ DOMAIN native : n[i] = c
        <4>1. CASE n = native BY <4>1
        <4>2. CASE n = Append(native, c)
          <5>1. native' = Append(native, c) BY <3>1, <4>2
          <5>2. /\ DOMAIN native' = 1 .. Len(native) + 1
                /\ \A i \in 1 .. Len(native) : native'[i] = native[i]
                /\ native'[Len(native) + 1] = c
            BY <1>1, <5>1, OneMore
          <5> QED BY <3>1, <3>2, <5>2
        <4> QED BY <2>7, <3>1, <4>1, <4>2
      <3>4. /\ \A i \in DOMAIN native :
                 /\ i \in DOMAIN native' /\ native'[i].op = native[i].op
                 /\ native[i].op = "make" => native'[i].id = native[i].id
                 /\ native[i].op = "drop" => native'[i].busy = native[i].busy
            /\ \A i \in DOMAIN native' \ DOMAIN native : native'[i].op = "call"
        BY <1>5, <3>1, <3>3
      <3> QED BY <1>1, <1>3, <3>4, CountsWith
    <2>9. missed' \in BOOLEAN BY <1>1 DEF Typed
    <2> QED BY <1>3, <1>7, <1>10, <1>11, <1>12, <1>14, <2>1, <2>4, <2>5, <2>6, <2>8, <2>9, EnterKeeps
  <1> QED BY <1>13, <1>14

LEMMA CallObjArgs ==
  ASSUME DInv, NEW p, CallObj(p)
  PROVE  /\ At({"script", "default", "body"}) /\ Executing /\ p \in Temporaries
         /\ args' = cur.top - p - 1 /\ args' \in 0 .. Width /\ scopes' = scopes
         /\ status \notin {"over", "aborted"}
PROOF
  <1>1. At({"script", "default", "body"}) /\ Executing /\ p \in Temporaries
        /\ args' = cur.top - p - 1 /\ scopes' = scopes
    BY DEF CallObj, At
  <1>2. Inv /\ Typed /\ Windows /\ Entries /\ Links /\ Ends BY DEF DInv
  <1>3. p \in Nat /\ p < cur.top /\ p < Width BY <1>1, TemporaryFacts
  <1>4. cur.top \in Nat /\ cur.top < Width /\ Width \in Nat BY <1>2, TopFacts, Sizes
  <1>5. cur.top - p - 1 \in 0 .. Width BY <1>3, <1>4
  <1>6. status \notin {"over", "aborted"} BY <1>1, <1>2, CodeAlone
  <1> QED BY <1>1, <1>5, <1>6

LEMMA CallFuncKeeps ==
  ASSUME DInv, NEW p, NEW f \in Funs, CallFunc(p, f)
  PROVE  DInv'
PROOF
  <1>1. /\ Inv /\ Typed BY DEF DInv
  <1>2. CallObj(p) BY DEF CallFunc
  <1>3. /\ At({"script", "default", "body"}) /\ p \in Temporaries
        /\ args' = cur.top - p - 1 /\ args' \in 0 .. Width /\ scopes' = scopes
        /\ status \notin {"over", "aborted"}
    BY <1>2, CallObjArgs
  <1>4. PICK c : c = Call(f, 0, "code", p + 1, args', p, Invalid) OBVIOUS
  <1>5. /\ UNCHANGED heap
        /\ IF ~AtLimit /\ Mismatch(c)
           THEN Throw
           ELSE CallUserFunc(c, regs, native) /\ UNCHANGED <<active, status, missed>>
    BY <1>4 DEF CallFunc
  <1>6. HeapGrows /\ NoneEnds BY <1>1, <1>5, HeapStays
  <1>7. CASE ~AtLimit /\ Mismatch(c) BY <1>3, <1>5, <1>6, <1>7, ThrowKeeps
  <1>8. CASE AtLimit \/ ~Mismatch(c)
    <2>1. CallUserFunc(c, regs, native) /\ UNCHANGED <<active, status, missed>> BY <1>5, <1>8
    <2>2. f \in Callables /\ ValueOK(Invalid) BY CallableFields, PlainValues
    <2>3. GoodFile(regs) BY DEF GoodFile
    <2>4. Inv' BY <1>1, CallSteps
    <2> QED BY <1>3, <1>4, <1>5, <1>8, <2>1, <2>2, <2>3, <2>4, CodeCallKeeps
  <1> QED BY <1>7, <1>8

(* The registers that callUserMethod moves up hold what they did.          *)
LEMMA ShiftedGood ==
  ASSUME Typed, HeapGrows, NEW c, c.start \in Nat, c.argc \in Nat, NEW v, ValueOK(v)'
  PROVE  GoodFile(Shifted(c, v))
PROOF
  <1> DEFINE file == Shifted(c, v)
  <1>1. cur \in Contexts BY DEF Typed
  <1>2. PICK a, n : a = Reg(c.start) /\ n = c.argc OBVIOUS
  <1>3. PICK b, s : b = cur.base /\ s = c.start OBVIOUS
  <1>4. a = b + s /\ b \in Nat /\ s \in Nat /\ n \in Nat BY <1>1, <1>2, <1>3, ContextFields DEF Reg
  <1>5. a \in Nat BY <1>4
  <1>6. DOMAIN file = DOMAIN regs BY DEF Shifted
  <1>7. NumRegs \in Nat /\ DOMAIN regs = 0 .. NumRegs - 1 BY Sizes DEF Typed
  <1>8. ASSUME NEW r \in DOMAIN regs PROVE file[r] = regs[r] \/ \E u : file[r] = u /\ ValueOK(u)'
    <2>1. file[r] = CASE r = Reg(c.start - 1)     -> Callee
                      [] r = a                    -> v
                      [] r \in a + 1 .. a + n     -> regs[r - 1]
                      [] OTHER                    -> regs[r]
      BY <1>2 DEF Shifted
    <2>2. \/ file[r] = Callee \/ file[r] = v \/ file[r] = regs[r]
          \/ r \in a + 1 .. a + n /\ file[r] = regs[r - 1]
      BY <2>1
    <2> HIDE DEF file
    <2>3. CASE file[r] = Callee BY <2>3, PlainValues
    <2>4. CASE file[r] = v BY <2>4
    <2>5. CASE r \in a + 1 .. a + n /\ file[r] = regs[r - 1]
      <3>1. r - 1 \in DOMAIN regs BY <1>4, <1>5, <1>7, <2>5
      <3>2. PICK u : u = regs[r - 1] OBVIOUS
      <3>3. ValueOK(u) BY <3>1, <3>2 DEF Typed
      <3>4. ValueOK(u)' BY <3>3, ValueKept
      <3> QED BY <2>5, <3>2, <3>4
    <2> QED BY <2>2, <2>3, <2>4, <2>5
  <1> QED BY <1>6, <1>8 DEF GoodFile

LEMMA CallMethodKeeps ==
  ASSUME DInv, NEW p, CallMethod(p)
  PROVE  DInv'
PROOF
  <1>1. /\ Inv /\ Typed BY DEF DInv
  <1>2. CallObj(p) BY DEF CallMethod
  <1>3. /\ At({"script", "default", "body"}) /\ p \in Temporaries
        /\ args' = cur.top - p - 1 /\ args' \in 0 .. Width /\ scopes' = scopes
        /\ status \notin {"over", "aborted"}
    BY <1>2, CallObjArgs
  <1>4. PICK m : m = regs[Reg(p)] OBVIOUS
  <1>5. PICK c : c = Call(m.of.method, 1, "code", p + 1, args', p, m) OBVIOUS
  <1>6. /\ UNCHANGED heap /\ m.t = "method"
        /\ IF ~AtLimit /\ Mismatch(c)
           THEN Throw
           ELSE /\ CallUserFunc(c, Shifted(c, InstV(bound[m.of])), native)
                /\ UNCHANGED <<active, status, missed>>
    BY <1>4, <1>5 DEF CallMethod
  <1>7. HeapGrows /\ NoneEnds BY <1>1, <1>6, HeapStays
  <1>8. Reg(p) \in DOMAIN regs /\ p \in Nat BY <1>3, TemporaryFacts
  <1>9. ValueOK(m) BY <1>1, <1>4, <1>8 DEF Typed
  <1>10. m.of \in Types /\ m.of.method # NoFun /\ bound[m.of] \in DOMAIN insts
    BY <1>6, <1>9 DEF ValueOK
  <1>11. m.of.method \in Callables BY <1>10, CallableFields
  <1>12. PICK v : v = InstV(bound[m.of]) OBVIOUS
  <1>13. ValueOK(v)'
    <2>1. PICK i : i = bound[m.of] OBVIOUS
    <2>2. i \in DOMAIN insts' BY <1>7, <1>10, <2>1 DEF HeapGrows
    <2>3. ValueOK(InstV(i))' BY <2>2, InstValue
    <2>4. v = InstV(i) BY <1>12, <2>1
    <2> QED BY <2>3, <2>4
  <1>14. CASE ~AtLimit /\ Mismatch(c) BY <1>3, <1>6, <1>7, <1>14, ThrowKeeps
  <1>15. CASE AtLimit \/ ~Mismatch(c)
    <2>1. PICK file : file = Shifted(c, v) OBVIOUS
    <2>2. CallUserFunc(c, file, native) /\ UNCHANGED <<active, status, missed>>
      BY <1>6, <1>12, <1>15, <2>1
    <2>3. c.start \in Nat /\ c.argc \in Nat
      <3>1. c.start = p + 1 /\ c.argc = args' BY <1>5, TheCall
      <3> QED BY <1>3, <1>8, <3>1
    <2>4. GoodFile(file) BY <1>1, <1>7, <1>13, <2>1, <2>3, ShiftedGood
    <2>5. Inv' BY <1>1, CallSteps
    <2>6. UNCHANGED <<scopes, heap, active, status, missed>> BY <1>3, <1>6, <2>2
    <2> QED BY <1>3, <1>5, <1>9, <1>11, <1>15, <2>2, <2>4, <2>5, <2>6, CodeCallKeeps
  <1> QED BY <1>14, <1>15

(* What a program that makes an instance puts on the stack.                *)
LEMMA NewMake ==
  ASSUME DInv, At({"script", "default", "body"}), NEW p \in Temporaries,
         NEW x, x.op = "make", x.start = p + 1, x.asked = FALSE, x.depth = Depth,
         x.id \in DOMAIN insts', ~insts'[x.id].made, ~insts'[x.id].literal,
         Depth \in 1 .. Depth', Alike(cur, Ctx'[Depth])
  PROVE  NativeEntry(x)'
PROOF
  <1>1. Inv /\ Typed /\ Windows BY DEF DInv
  <1>2. /\ p \in Nat /\ p < cur.top /\ cur.low <= p /\ p < Width
        /\ \A b \in DOMAIN cur.blocks : cur.blocks[b].at <= p
    BY TemporaryFacts
  <1>3. p < cur.low + MaxTemps[Depth] BY TopLowered
  <1>4. /\ cur.top \in Nat /\ cur.low \in Nat /\ cur.top < Width
        /\ \A b \in DOMAIN cur.blocks : cur.blocks[b].at \in Nat
    BY <1>1, TopFacts
  <1>5. PICK t, m : t = MaxTemps[Depth] /\ m = cur.low OBVIOUS
  <1>6. t \in Nat
    <2>1. Depth \in 1 .. MaxDepth + 1 BY <1>1, TheContexts
    <2> QED BY <1>5, <2>1, Sizes
  <1>7. p + 1 \in 1 .. Width - 1 /\ m < p + 1 /\ p + 1 <= m + t
    <2>1. p \in Nat /\ m <= p /\ p < m + t /\ m \in Nat BY <1>2, <1>3, <1>4, <1>5
    <2>2. PICK u : u = cur.top OBVIOUS
    <2>3. u \in Nat /\ p < u /\ u < Width /\ Width \in Nat BY <1>2, <1>4, <2>2, Sizes
    <2> QED BY ONLY <1>6, <2>1, <2>3
  <1>8. \A b \in DOMAIN cur.blocks : cur.blocks[b].at < p + 1
    BY <1>2, <1>4
  <1>9. cur.code.at \in Running BY DEF At, Running
  <1>10. MakesIn(x, cur) BY <1>5, <1>7, <1>8, <1>9 DEF MakesIn
  <1>11. PICK d : d = Depth OBVIOUS
  <1>12. MakesIn(x, Ctx'[d]) BY <1>10, <1>11, AlikeIn
  <1>13. x.depth = d /\ d \in 1 .. Depth' BY <1>11
  <1>14. x.start \in 1 .. Width - 1 BY <1>7
  <1>15. MakeOK(x)' BY <1>12, <1>13, <1>14 DEF MakeOK
  <1> QED BY <1>15 DEF NativeEntry

(* No entry is making an instance that there was not.                      *)
LEMMA NewId ==
  ASSUME Entries, NEW i, i \notin DOMAIN insts
  PROVE  \A j \in DOMAIN native : native[j].op = "make" => native[j].id # i
PROOF
  <1> TAKE j \in DOMAIN native
  <1> HAVE native[j].op = "make"
  <1>1. NativeEntry(native[j]) BY DEF Entries
  <1>2. MakeOK(native[j]) BY <1>1, EntryOps
  <1> QED BY <1>2 DEF MakeOK

(* Without a call: the value that is being made takes the type's place.    *)
LEMMA MadeInPlace ==
  ASSUME DInv, At({"script", "default", "body"}), NEW p \in Temporaries,
         NEW x, x.op = "make", x.start = p + 1, x.asked = FALSE, x.depth = Depth,
         x.id \in DOMAIN insts', x.id \notin DOMAIN insts,
         ~insts'[x.id].made, ~insts'[x.id].literal,
         HeapGrows, NoneEnds, Written, Inv', native' = Append(native, x),
         cur' = [cur EXCEPT !.top = p], frames' = frames, args' \in 0 .. Width,
         UNCHANGED <<scopes, active, status, missed>>
  PROVE  DInv'
PROOF
  <1>1. Inv /\ Typed /\ Entries BY DEF DInv
  <1>2. Executing BY DEF At
  <1>3. /\ cur' \in Contexts /\ Beside(cur, cur') /\ Alike(cur, cur') /\ Laid(Depth, cur')
    BY TopLowered
  <1>4. /\ Depth = Len(frames) + 1 /\ Depth \in 1 .. MaxDepth + 1
        /\ Depth' = Depth /\ Ctx'[Depth] = cur'
    BY <1>1, TheContexts, Stayed
  <1>5. NativeEntry(x)'
    <2>1. Depth \in 1 .. Depth' BY <1>4
    <2>2. Alike(cur, Ctx'[Depth]) BY <1>3, <1>4
    <2> QED BY <2>1, <2>2, NewMake
  <1>6. Steady /\ ~Dropper(x) BY <1>3 DEF Steady, Dropper
  <1>7. \A j \in DOMAIN native : native[j].op = "make" => native[j].id # x.id
    BY <1>1, NewId
  <1>8. x.op # "call" OBVIOUS
  <1>9. scopes' = scopes /\ active' = active /\ status' = status /\ missed' = missed OBVIOUS
  <1> QED BY <1>2, <1>3, <1>5, <1>6, <1>7, <1>8, <1>9, PushKeeps

(* A constructor starts while its instance waits to be made.               *)
LEMMA ConstructorEnters ==
  ASSUME DInv, At({"script", "default", "body"}), NEW p \in Temporaries,
         NEW x, x.op = "make", x.start = p + 1, x.asked = FALSE, x.depth = Depth,
         x.id \in DOMAIN insts', x.id \notin DOMAIN insts,
         ~insts'[x.id].made, ~insts'[x.id].literal,
         HeapGrows, NoneEnds, Inv', args' \in 0 .. Width,
         UNCHANGED <<scopes, active, status, missed>>,
         NEW c, CallFits(c), ~Mismatch(c), ~AtLimit, c.by = "make", CallOK(c)',
         NEW file, GoodFile(file), EnterCall(c, file, Append(native, x))
  PROVE  DInv'
PROOF
  <1>1. /\ Inv /\ Typed /\ Windows /\ Entries /\ Links /\ Ends /\ Listing /\ Unique /\ Counted
    BY DEF DInv
  <1>2. Executing BY DEF At
  <1>3. PICK b : b = Append(native, x) OBVIOUS
  <1>4. EnterCall(c, file, b) BY <1>3
  <1>5. \A i \in DOMAIN insts : /\ insts'[i].made = insts[i].made
                                /\ insts'[i].literal => insts[i].literal
    BY DEF NoneEnds
  <1>6. Interrupted BY <1>1, <1>4, <1>5, EnterInterrupts
  <1>7. NativeEntry(x)'
    <2>1. Depth' = Depth + 1 /\ Depth \in Nat /\ Depth >= 1 /\ Ctx[Depth] = cur
      BY <1>1, <1>6, TheContexts DEF Interrupted
    <2>2. PICK d : d = Depth OBVIOUS
    <2>3. d \in 1 .. Depth' /\ d \in 1 .. Depth BY <2>1, <2>2
    <2>4. Alike(Ctx[d], Ctx'[d]) BY <1>6, <2>2, <2>3 DEF Interrupted
    <2>5. Alike(cur, Ctx'[Depth]) BY <2>1, <2>2, <2>4
    <2> QED BY <2>2, <2>3, <2>5, NewMake
  <1>8. StackBelow(b) BY <1>2, <1>3, <1>6, <1>7, BelowMake
  <1>9. Binds(c) BY DEF Binds
  <1>10. native' = Append(b, c)
    BY <1>4 DEF EnterCall, Settle
  <1>11. PICK n : n = native' OBVIOUS
  <1>12. PICK l, S : l = Len(native) /\ native \in Seq(S) BY <1>1, TheNative
  <1>13. /\ l \in Nat /\ DOMAIN native = 1 .. l /\ DOMAIN n = 1 .. l + 2
         /\ \A i \in 1 .. l : n[i] = native[i]
         /\ n[l + 1] = x /\ n[l + 2] = c
    <2>1. native \in Seq(S \cup {x, c}) BY <1>12
    <2> QED BY ONLY <1>3, <1>10, <1>11, <1>12, <2>1
  <1>14. \A j \in DOMAIN native : native[j].op = "make" => native[j].id # x.id BY <1>1, NewId
  <1>15. /\ \A i \in DOMAIN native :
              /\ i \in DOMAIN native' /\ native'[i].op = native[i].op
              /\ native[i].op = "make" => native'[i].id = native[i].id
              /\ native[i].op = "drop" => native'[i].busy = native[i].busy
         /\ \A i \in DOMAIN native' \ DOMAIN native :
              native'[i].op = "call"
              \/ /\ native'[i].op = "make" /\ i = Len(native) + 1
                 /\ \A j \in DOMAIN native : native[j].op = "make" => native[j].id # native'[i].id
    <2>1. \A i \in DOMAIN native : i \in DOMAIN n /\ n[i] = native[i] BY <1>13
    <2>2. \A i \in DOMAIN n \ DOMAIN native : (i = l + 1 /\ n[i] = x) \/ n[i] = c BY <1>13
    <2>3. c.op = "call" BY DEF CallFits
    <2> QED BY <1>11, <1>12, <1>14, <2>1, <2>2, <2>3
  <1>16. Listing' /\ Unique' /\ Counted' BY <1>1, <1>15, CountsWith
  <1>17. status \notin {"over", "aborted"} BY <1>1, <1>2, CodeAlone
  <1>18. missed' \in BOOLEAN BY <1>1 DEF Typed
  <1>19. /\ b # <<>> /\ b[Len(b)].op # "call" => c.by # "code"
         /\ (\E i \in DOMAIN b : Binds(b[i])) => Binds(c)
    BY <1>9
  <1> QED BY <1>4, <1>8, <1>16, <1>17, <1>18, <1>19, EnterKeeps

LEMMA CallTypeKeeps ==
  ASSUME DInv, NEW p, NEW k \in Types, CallType(p, k)
  PROVE  DInv'
PROOF
  <1>1. Inv /\ Typed BY DEF DInv
  <1>2. CallObj(p) BY DEF CallType
  <1>3. /\ At({"script", "default", "body"}) /\ p \in Temporaries
        /\ args' = cur.top - p - 1 /\ args' \in 0 .. Width /\ scopes' = scopes
        /\ status \notin {"over", "aborted"}
    BY <1>2, CallObjArgs
  <1>4. PICK i : i = Len(insts) + 1 OBVIOUS
  <1>5. PICK x, c : x = Make(i, p + 1) /\ c = Call(k.ctor, 1, "make", p + 1, args', p, InstV(i))
    OBVIOUS
  <1>6. /\ bound' = bound
        /\ IF k.ctor # NoFun
           THEN /\ insts' = Append(insts, New(k, FALSE, FALSE))
                /\ IF ~AtLimit /\ Mismatch(c)
                   THEN Throw
                   ELSE /\ CallUserFunc(c, Shifted(c, InstV(i)), Append(native, x))
                        /\ UNCHANGED <<active, status, missed>>
           ELSE IF args' \notin {0, IF k.field THEN 1 ELSE 0}
           THEN Throw /\ UNCHANGED insts
           ELSE /\ insts' = Append(insts, New(k, args' = 1, FALSE))
                /\ regs' = [regs EXCEPT ![Reg(p)] = InstV(i)]
                /\ cur' = [cur EXCEPT !.top = p]
                /\ native' = Append(native, x)
                /\ UNCHANGED <<frames, implicit, active, status, missed>>
    BY <1>4, <1>5 DEF CallType
  <1>7. /\ x.op = "make" /\ x.id = i /\ x.start = p + 1 /\ x.asked = FALSE /\ x.depth = Depth
    <2>1. Depth = Len(frames) + 1 BY <1>1, TheContexts
    <2> QED BY <1>5, <2>1 DEF Make
  <1>8. Inv' BY <1>1, CallSteps
  <1>9. ASSUME NEW f \in BOOLEAN, insts' = Append(insts, New(k, f, FALSE))
        PROVE  /\ HeapGrows /\ NoneEnds
               /\ x.id \in DOMAIN insts' /\ x.id \notin DOMAIN insts
               /\ ~insts'[x.id].made /\ ~insts'[x.id].literal /\ ValueOK(InstV(i))'
    <2>1. /\ HeapGrows /\ NoneEnds /\ i \in DOMAIN insts' /\ i \notin DOMAIN insts
          /\ insts'[i] = New(k, f, FALSE)
      BY <1>1, <1>4, <1>6, <1>9, HeapAppend
    <2>2. ~insts'[i].made /\ ~insts'[i].literal BY <2>1 DEF New
    <2>3. ValueOK(InstV(i))' BY <2>1, InstValue
    <2> QED BY <1>7, <2>1, <2>2, <2>3
  <1>10. CASE k.ctor # NoFun
    <2>1. /\ HeapGrows /\ NoneEnds
          /\ x.id \in DOMAIN insts' /\ x.id \notin DOMAIN insts
          /\ ~insts'[x.id].made /\ ~insts'[x.id].literal /\ ValueOK(InstV(i))'
      BY <1>6, <1>9, <1>10
    <2>2. CASE ~AtLimit /\ Mismatch(c)
      BY <1>3, <1>6, <1>10, <2>1, <2>2, ThrowKeeps
    <2>3. CASE AtLimit \/ ~Mismatch(c)
      <3>1. PICK v, b : v = InstV(i) /\ b = Append(native, x) OBVIOUS
      <3>2. PICK file : file = Shifted(c, v) OBVIOUS
      <3>3. CallUserFunc(c, file, b) /\ UNCHANGED <<active, status, missed>>
        BY <1>6, <1>10, <2>3, <3>1, <3>2
      <3>4. /\ c.op = "call" /\ c.fun = k.ctor /\ c.self = 1 /\ c.by = "make" /\ c.start = p + 1
            /\ c.argc = args' /\ c.keep = p /\ c.copy = v /\ c.was = implicit
            /\ c.depth = Len(frames) + 2
        BY <1>5, <3>1, TheCall
      <3>5. p \in Nat BY <1>3, TemporaryFacts
      <3>6. GoodFile(file)
        <4>1. c.start \in Nat /\ c.argc \in Nat BY <1>3, <3>4, <3>5
        <4> QED BY <1>1, <2>1, <3>1, <3>2, <4>1, ShiftedGood
      <3>7. UNCHANGED <<scopes, active, status, missed>> BY <1>3, <3>3
      <3>8. ValueOK(c.copy)' BY <2>1, <3>1, <3>4
      <3>9. CASE AtLimit
        <4>1. RefuseCall(c, file, b) BY <3>3, <3>9 DEF CallUserFunc
        <4>2. /\ Written /\ native' = b /\ frames' = frames
              /\ cur' = [cur EXCEPT !.top = p]
          BY <3>4, <3>6, <3>8, <4>1, Refused
        <4>3. native' = Append(native, x) BY <3>1, <4>2
        <4> QED BY <1>3, <1>7, <1>8, <2>1, <3>7, <4>2, <4>3, MadeInPlace
      <3>10. CASE ~AtLimit
        <4>1. EnterCall(c, file, Append(native, x)) /\ ~Mismatch(c)
          BY <2>3, <3>1, <3>3, <3>10 DEF CallUserFunc
        <4>2. /\ Depth = Len(frames) + 1 /\ Depth \in Nat /\ Len(frames) \in Nat
          BY <1>1, TheContexts
        <4>3. c.depth = Depth + 1 /\ c.depth \in Nat /\ k.ctor \in Callables
          BY <1>10, <3>4, <4>2, CallableFields
        <4>4. CallFits(c)
          BY <1>3, <3>4, <4>3, CodeCallFits
        <4>5. implicit \in BOOLEAN BY <1>1 DEF Inv, NativeOK
        <4>6. CallOK(c)' BY <3>4, <3>8, <4>3, <4>5 DEF CallOK
        <4> QED BY <1>3, <1>7, <1>8, <2>1, <3>4, <3>6, <3>7, <3>10, <4>1, <4>4, <4>6, ConstructorEnters
      <3> QED BY <3>9, <3>10
    <2> QED BY <2>2, <2>3
  <1>11. CASE k.ctor = NoFun /\ args' \notin {0, IF k.field THEN 1 ELSE 0}
    <2>1. Throw /\ UNCHANGED heap BY <1>6, <1>11 DEF heap
    <2>2. HeapGrows /\ NoneEnds BY <1>1, <2>1, HeapStays
    <2> QED BY <1>3, <2>1, <2>2, ThrowKeeps
  <1>12. CASE k.ctor = NoFun /\ args' \in {0, IF k.field THEN 1 ELSE 0}
    <2>1. /\ insts' = Append(insts, New(k, args' = 1, FALSE))
          /\ regs' = [regs EXCEPT ![Reg(p)] = InstV(i)]
          /\ cur' = [cur EXCEPT !.top = p]
          /\ native' = Append(native, x)
          /\ UNCHANGED <<frames, implicit, active, status, missed>>
      BY <1>6, <1>12
    <2>2. PICK f : f = (args' = 1) OBVIOUS
    <2>3. f \in BOOLEAN /\ insts' = Append(insts, New(k, f, FALSE)) BY <2>1, <2>2
    <2>4. /\ HeapGrows /\ NoneEnds
          /\ x.id \in DOMAIN insts' /\ x.id \notin DOMAIN insts
          /\ ~insts'[x.id].made /\ ~insts'[x.id].literal /\ ValueOK(InstV(i))'
      BY <1>9, <2>3
    <2>5. Written
      <3>1. PICK a, v : a = Reg(p) /\ v = InstV(i) OBVIOUS
      <3>2. regs' = [regs EXCEPT ![a] = v] /\ ValueOK(v)' BY <2>1, <2>4, <3>1
      <3> QED BY <3>2, Writes
    <2>6. UNCHANGED <<scopes, active, status, missed>> BY <1>3, <2>1
    <2> QED BY <1>3, <1>7, <1>8, <2>1, <2>4, <2>5, <2>6, MadeInPlace
  <1> QED BY <1>10, <1>11, <1>12
-----------------------------------------------------------------------------
(* What the C++ functions call.                                            *)

(* A stack with another top.                                               *)
LEMMA TopIs ==
  ASSUME Inv, native # <<>>, NEW x, NEW b, b = Append(Front(native), x)
  PROVE  /\ Len(native) \in Nat /\ Len(native) >= 1 /\ DOMAIN native = 1 .. Len(native)
         /\ Len(b) = Len(native) /\ DOMAIN b = 1 .. Len(native) /\ b # <<>>
         /\ \A i \in 1 .. Len(native) - 1 : b[i] = native[i]
         /\ b[Len(native)] = x
         /\ \A i \in DOMAIN b : \/ i \in 1 .. Len(native) - 1 /\ i \in DOMAIN native /\ b[i] = native[i]
                                \/ i = Len(native) /\ b[i] = x
PROOF
  <1>1. PICK S, l : native \in Seq(S) /\ l = Len(native) BY TheNative
  <1>2. /\ l \in Nat /\ l >= 1 /\ DOMAIN native = 1 .. l
    <2>1. /\ Len(native) \in Nat /\ DOMAIN native = 1 .. Len(native)
          /\ (native = <<>> <=> Len(native) = 0)
      BY TheNative
    <2> QED BY <1>1, <2>1
  <1>3. PICK f : f = Front(native) OBVIOUS
  <1>4. f \in Seq(S) /\ Len(f) = l - 1 BY <1>1, <1>3, FrontIsSeq
  <1>5. \A i \in 1 .. l - 1 : f[i] = native[i] BY <1>1, <1>3, FrontAt
  <1>6. b = Append(f, x) BY <1>3
  <1>7. /\ Len(b) = l /\ DOMAIN b = 1 .. l /\ b # <<>> /\ b[l] = x
        /\ \A i \in 1 .. l - 1 : b[i] = f[i]
    BY ONLY <1>2, <1>4, <1>6
  <1>8. \A i \in 1 .. l : (i \in 1 .. l - 1 /\ i \in 1 .. l) \/ i = l
    BY ONLY <1>2
  <1> QED BY <1>1, <1>2, <1>5, <1>7, <1>8

(* The function on top goes on as another, its call refused.               *)
LEMMA TopGoesOn ==
  ASSUME DInv, native # <<>>, native[Len(native)].op # "call",
         NEW x, x.op = native[Len(native)].op, x.depth = Depth, NativeEntry(x)',
         x.op = "make" => x.id = native[Len(native)].id /\ missed' = missed,
         x.op = "drop" => /\ x.then = native[Len(native)].then /\ missed' = TRUE
                          /\ x.busy = Len(active)
                          /\ \A i \in 1 .. Len(native) - 1 : Dropper(native[i]) => native[i].busy < x.busy,
         native' = Append(Front(native), x), Inv', Steady, Laid(Depth, cur'), Written,
         args' \in 0 .. Width, UNCHANGED <<scopes, active, heap, status>>
  PROVE  DInv'
PROOF
  <1>1. /\ Inv /\ Typed /\ Windows /\ Waiting /\ Entries /\ Links /\ Ends /\ Listing
        /\ Busy /\ Unique /\ Counted /\ Fenced /\ Near /\ Scoped
    BY DEF DInv
  <1>2. PICK n, l : n = native' /\ l = Len(native) OBVIOUS
  <1>3. /\ l \in Nat /\ l >= 1 /\ DOMAIN native = 1 .. l
        /\ Len(n) = l /\ DOMAIN n = 1 .. l /\ n # <<>>
        /\ \A i \in 1 .. l - 1 : n[i] = native[i]
        /\ n[l] = x
        /\ \A i \in DOMAIN n : \/ i \in 1 .. l - 1 /\ i \in DOMAIN native /\ n[i] = native[i]
                               \/ i = l /\ n[i] = x
    <2>1. n = Append(Front(native), x) BY <1>2
    <2> QED BY <1>1, <1>2, <2>1, TopIs
  <1>4. x.op \in {"make", "drop"}
    <2>1. NativeEntry(native[l]) BY <1>1, <1>3 DEF Entries
    <2> QED BY <1>2, <2>1, EntryOps
  <1>5. frames' = frames /\ cur'.base = cur.base BY DEF Steady, Beside
  <1>6. HeapGrows /\ NoneEnds BY <1>1, HeapStays
  <1>7. status \notin {"over", "aborted"} BY <1>1 DEF Ends
  <1>8. Windows' /\ Waiting' BY <1>1, <1>7, SteadyWindows
  <1>9. Fenced' /\ Near' /\ Scoped' BY <1>1, SteadyFences, SteadyScopes
  <1>10. missed' \in BOOLEAN BY <1>1, <1>4 DEF Typed
  <1>11. Typed'
    <2>1. /\ DOMAIN regs' = 0 .. NumRegs - 1
          /\ \A r \in DOMAIN regs' : \E v : regs'[r] = v /\ ValueOK(v)'
      BY <1>1, <1>6, RegsKept DEF Written, Typed
    <2> QED BY <1>1, <1>10, <2>1, TypedAgain DEF Steady, Typed, heap
  <1>12. Links'
    <2>1. Depth' = Depth BY <1>5 DEF Depth
    <2>2. x.depth = native[Len(native)].depth BY BelowTop
    <2>3. LinksOf(n, Depth) BY <1>1, <1>2, <1>3, <2>2, TopReplaced
    <2>4. LinksOf(native', Depth) BY <1>2, <2>3
    <2> QED BY <2>1, <2>4, TheLinks
  <1>13. Ends'
    <2>1. status # "running" => native[1].op = "drop" /\ native[1].then \in {"clear", "destroy"}
      BY <1>1 DEF Ends
    <2>2. n[1].op = native[1].op /\ (native[1].op = "drop" => n[1].then = native[1].then)
      <3>1. CASE l = 1 BY <1>2, <1>3, <3>1
      <3>2. CASE 1 \in 1 .. l - 1 BY <1>3, <3>2
      <3> QED BY <1>3, <3>1, <3>2
    <2> QED BY <1>2, <1>3, <1>7, <2>1, <2>2 DEF Ends
  <1>14. \A i \in 1 .. l - 1 :
           /\ i \in DOMAIN native /\ i < l
           /\ \E y : y = native[i] /\ NativeEntry(y)'
           /\ Dropper(native[i]) => Ctx'[native[i].depth + 1].base = Ctx[native[i].depth + 1].base
    <2> TAKE i \in 1 .. l - 1
    <2>1. i \in DOMAIN native /\ i < l BY <1>3
    <2>2. native[i].op # "call" => native[i].depth \in 1 .. Len(frames) BY <1>2, BelowTop
    <2>3. NativeEntry(native[i]) BY <1>1, <2>1 DEF Entries
    <2>4. native[i].op = "make" => ~insts'[native[i].id].made /\ ~insts'[native[i].id].literal
      BY <2>3, EntryOps DEF MakeOK, heap
    <2>5. native[i].op = "drop" => native[i].busy \in 0 .. Len(active')
      BY <2>3, EntryOps DEF DropOK
    <2>6. status' = status OBVIOUS
    <2> QED BY <1>5, <1>6, <2>1, <2>2, <2>4, <2>5, <2>6, KeptBelow
  <1>15. Entries'
    <2>1. \A i \in DOMAIN native' : \E y : y = native'[i] /\ NativeEntry(y)'
      BY <1>2, <1>3, <1>14
    <2> QED BY <2>1 DEF Entries
  <1>16. Busy'
    <2>1. ASSUME NEW i \in 1 .. l - 1, Dropper(n[i])
          PROVE  DropsBelow(active, n[i].busy, Ctx'[n[i].depth + 1].base)
      <3>1. n[i] = native[i] BY <1>3, <2>1
      <3>2. DropsBelow(active, native[i].busy, Ctx[native[i].depth + 1].base)
        BY <1>1, <1>2, <2>1, <3>1 DEF Busy
      <3> QED BY <1>14, <2>1, <3>1, <3>2
    <2>2. Dropper(n[l]) => n[l].busy = Len(active) BY <1>3, <1>4 DEF Dropper
    <2>3. ASSUME NEW i \in DOMAIN n, NEW j \in DOMAIN n, i < j, Dropper(n[i]), Dropper(n[j])
          PROVE  n[i].busy < n[j].busy
      <3>1. i \in 1 .. l - 1 /\ i \in DOMAIN native /\ n[i] = native[i]
        <4>1. i # l BY <1>3, <2>3
        <4> QED BY <1>3, <4>1
      <3>2. CASE j = l /\ n[j] = x
        <4>1. x.op = "drop" /\ Dropper(native[i]) BY <2>3, <3>1, <3>2 DEF Dropper
        <4> QED BY <1>2, <3>1, <3>2, <4>1
      <3>3. CASE j \in DOMAIN native /\ n[j] = native[j] BY <1>1, <2>3, <3>1, <3>3 DEF Busy
      <3> QED BY <1>3, <3>2, <3>3
    <2> QED BY <1>2, <1>3, <2>1, <2>2, <2>3 DEF Busy
  <1>17. Listing' BY <1>1, <1>6, ListingGrows
  <1>18. Unique'
    <2>1. \A i \in DOMAIN n : n[i].op = "make" =>
            i \in DOMAIN native /\ native[i].op = "make" /\ n[i].id = native[i].id
      <3> TAKE i \in DOMAIN n
      <3> HAVE n[i].op = "make"
      <3>1. CASE i = l /\ n[i] = x BY <1>2, <1>3, <3>1
      <3>2. CASE i \in DOMAIN native /\ n[i] = native[i] BY <3>2
      <3> QED BY <1>3, <3>1, <3>2
    <2> QED BY <1>1, <1>2, <2>1 DEF Unique, heap
  <1>19. Counted'
    <2>1. CASE x.op = "drop" BY <2>1 DEF Counted
    <2>2. CASE x.op = "make"
      <3>1. ~Dropper(x) /\ ~Dropper(native[l]) BY <1>2, <2>2 DEF Dropper
      <3>2. \A b : BeingDropped(n, b) <=> BeingDropped(native, b)
        <4> TAKE b
        <4>1. ASSUME BeingDropped(n, b) PROVE BeingDropped(native, b)
          BY <1>3, <3>1, <4>1 DEF BeingDropped
        <4>2. ASSUME BeingDropped(native, b) PROVE BeingDropped(n, b)
          <5>1. PICK i \in DOMAIN native : Dropper(native[i]) /\ native[i].busy = b
            BY <4>2 DEF BeingDropped
          <5>2. i # l /\ i \in 1 .. l BY <1>3, <3>1, <5>1
          <5>3. i \in 1 .. l - 1 BY ONLY <1>3, <5>2
          <5>4. i \in DOMAIN n /\ n[i] = native[i] BY <1>3, <5>2, <5>3
          <5> QED BY <5>1, <5>4 DEF BeingDropped
        <4> QED BY <4>1, <4>2
      <3>3. \A b : BeingDropped(native', b) <=> BeingDropped(native, b) BY <1>2, <3>2
      <3> QED BY <1>1, <1>6, <2>2, <3>3, CountsAlike
    <2> QED BY <1>4, <2>1, <2>2
  <1> QED BY <1>8, <1>9, <1>11, <1>12, <1>13, <1>15, <1>16, <1>17, <1>18, <1>19 DEF DInv

LEMMA AskedMake ==
  ASSUME DInv, Doing("make"), NEW m, m = Last(native), NEW x, x = [m EXCEPT !.asked = TRUE]
  PROVE  /\ native # <<>> /\ m = native[Len(native)] /\ m.op = "make" /\ m.depth = Depth
         /\ MakeOK(m) /\ MakesIn(m, cur)
         /\ x.op = "make" /\ x.id = m.id /\ x.start = m.start /\ x.asked = TRUE /\ x.depth = Depth
PROOF
  <1>1. Inv /\ Typed /\ Entries BY DEF DInv
  <1>2. native # <<>> /\ m.op = "make" BY DEF Doing
  <1>3. /\ m = native[Len(native)] /\ Len(native) \in DOMAIN native /\ Len(native) \in 1 .. Len(native)
    <2>1. /\ Len(native) \in Nat /\ DOMAIN native = 1 .. Len(native)
          /\ (native = <<>> <=> Len(native) = 0) /\ Last(native) = native[Len(native)]
      BY <1>1, TheNative
    <2> QED BY <1>2, <2>1
  <1>4. m.depth = Depth BY <1>2, <1>3, BelowTop
  <1>5. NativeEntry(m) BY <1>1, <1>3 DEF Entries
  <1>6. MakeOK(m) BY <1>2, <1>5, EntryOps
  <1>7. MakesIn(m, cur)
    <2>1. MakesIn(m, Ctx[m.depth]) BY <1>6 DEF MakeOK
    <2>2. Ctx[Depth] = cur BY <1>1, TheContexts
    <2> QED BY <1>4, <2>1, <2>2
  <1>8. EntryOK(native, Len(native)) BY <1>1, <1>3 DEF Inv, NativeOK
  <1>9. m = [op |-> "make", id |-> m.id, start |-> m.start, asked |-> m.asked, depth |-> m.depth]
    BY <1>2, <1>3, <1>8 DEF EntryOK
  <1>10. PICK i, s, a, d :
           m = [op |-> "make", id |-> i, start |-> s, asked |-> a, depth |-> d]
    BY <1>9
  <1>11. x = [op |-> "make", id |-> i, start |-> s, asked |-> TRUE, depth |-> d]
    <2>1. ASSUME NEW b
          PROVE  [[op |-> "make", id |-> i, start |-> s, asked |-> a, depth |-> d] EXCEPT !.asked = b]
                   = [op |-> "make", id |-> i, start |-> s, asked |-> b, depth |-> d]
      OBVIOUS
    <2> QED BY <1>10, <2>1, Zenon
  <1>12. x.op = "make" /\ x.id = m.id /\ x.start = m.start /\ x.asked = TRUE /\ x.depth = m.depth
    BY <1>10, <1>11
  <1> QED BY <1>2, <1>3, <1>4, <1>6, <1>7, <1>12

LEMMA AskFieldKeeps ==
  ASSUME DInv, AskField
  PROVE  DInv'
PROOF
  <1>1. /\ Inv /\ Typed /\ Windows /\ Entries /\ Links /\ Ends /\ Listing /\ Unique /\ Counted
    BY DEF DInv
  <1>2. PICK m : m = Last(native) OBVIOUS
  <1>3. PICK x, c, v : /\ x = [m EXCEPT !.asked = TRUE]
                       /\ c = Call(Plain, 0, "make", m.start + 1, 0, m.start - 1, Invalid)
                       /\ v = Callee
    OBVIOUS
  <1>4. PICK b, file, a : b = Append(Front(native), x) /\ a = Reg(m.start) /\ file = [regs EXCEPT ![a] = v]
    OBVIOUS
  <1>5. /\ Doing("make") /\ CallUserFunc(c, file, b)
        /\ UNCHANGED <<args, scopes, active, heap, status, missed>>
    BY <1>2, <1>3, <1>4 DEF AskField
  <1>6. /\ native # <<>> /\ m = native[Len(native)] /\ m.op = "make" /\ m.depth = Depth
        /\ MakeOK(m) /\ MakesIn(m, cur)
        /\ x.op = "make" /\ x.id = m.id /\ x.start = m.start /\ x.asked = TRUE /\ x.depth = Depth
    BY <1>2, <1>3, <1>5, AskedMake
  <1>7. HeapGrows /\ NoneEnds BY <1>1, <1>5, HeapStays
  <1>8. /\ Depth = Len(frames) + 1 /\ Depth \in Nat /\ Len(frames) \in Nat
        /\ Depth \in 1 .. MaxDepth + 1 /\ Ctx[Depth] = cur
    BY <1>1, TheContexts
  <1>9. /\ c.op = "call" /\ c.fun = Plain /\ c.self = 0 /\ c.by = "make" /\ c.start = m.start + 1
        /\ c.argc = 0 /\ c.keep = m.start - 1 /\ c.copy = Invalid /\ c.was = implicit
        /\ c.depth = Depth + 1
    <2>1. Len(frames) + 2 = Depth + 1 BY <1>8
    <2> QED BY <1>3, <2>1, TheCall
  <1>10. /\ cur.code.at \in Running /\ cur.low < m.start /\ m.start <= cur.low + MaxTemps[Depth]
         /\ \A q \in DOMAIN cur.blocks : cur.blocks[q].at < m.start
         /\ m.start \in 1 .. Width - 1
    BY <1>6 DEF MakesIn, MakeOK
  <1>11. PICK s, low, t : s = m.start /\ low = cur.low /\ t = MaxTemps[Depth] OBVIOUS
  <1>12. /\ cur \in Contexts /\ cur.base \in Nat /\ low \in Nat /\ t \in Nat /\ Width \in Nat
         /\ DOMAIN cur.blocks = 1 .. Len(cur.blocks)
         /\ \A q \in DOMAIN cur.blocks : cur.blocks[q].at \in Nat
    <2>1. cur \in Contexts BY <1>1 DEF Typed
    <2> QED BY <1>8, <1>11, <2>1, ContextFields, Sizes
  <1>13. /\ s - 1 \in Nat /\ low <= s - 1 /\ s - 1 <= low + t
         /\ s + 1 \in Nat /\ s + 1 <= Width /\ cur.base + (s + 1) >= 1 /\ 0 < Width
    <2>1. low < s /\ s <= low + t /\ s \in 1 .. Width - 1 BY <1>10, <1>11
    <2>2. cur.base \in Nat /\ low \in Nat /\ t \in Nat /\ Width \in Nat BY <1>12
    <2> QED BY ONLY <2>1, <2>2
  <1>14. \A q \in DOMAIN cur.blocks : cur.blocks[q].at <= s - 1 /\ cur.blocks[q].at <= s + 1
    <2> TAKE q \in DOMAIN cur.blocks
    <2>1. PICK y : y = cur.blocks[q].at OBVIOUS
    <2>2. y \in Nat /\ y < s BY <1>10, <1>11, <1>12, <2>1
    <2>3. s \in Nat BY <1>10, <1>11
    <2>4. y <= s - 1 /\ y <= s + 1 BY ONLY <2>2, <2>3
    <2> QED BY <2>1, <2>4
  <1>15. PICK w : w = [cur EXCEPT !.top = s - 1] OBVIOUS
  <1>16. w \in Contexts /\ Beside(cur, w) /\ Alike(cur, w) /\ Laid(Depth, w)
    <2>1. Laid(Depth, cur) BY <1>1, LaidHere
    <2>2. PICK u : u = s - 1 OBVIOUS
    <2>3. /\ u \in Nat /\ cur.low <= u /\ u <= cur.low + MaxTemps[Depth] /\ w = [cur EXCEPT !.top = u]
          /\ \A q \in DOMAIN cur.blocks : cur.blocks[q].at <= u
      BY <1>11, <1>13, <1>14, <1>15, <2>2
    <2> QED BY <1>8, <1>10, <1>12, <2>1, <2>3, TopMoved
  <1>17. CallFits(c)
    <2>1. c.start = s + 1 /\ c.keep = s - 1 /\ c.fun \in Callables
      BY <1>9, <1>11, CallableFields
    <2>2. Laid(Depth, [cur EXCEPT !.top = c.keep]) BY <1>15, <1>16, <2>1
    <2>3. c.self + c.argc = 0 /\ c.self \in 0 .. 1 /\ c.argc \in Nat BY <1>9
    <2> QED BY <1>9, <1>10, <1>13, <1>14, <2>1, <2>2, <2>3 DEF CallFits
  <1>18. ValueOK(Invalid)' /\ ValueOK(v)' BY <1>3, PlainValues
  <1>19. GoodFile(file)
    <2>1. GoodFile(regs) BY DEF GoodFile
    <2> QED BY <1>4, <1>18, <2>1, FileWith
  <1>20. Inv' BY <1>1, MakeSteps
  <1>21. args' \in 0 .. Width BY <1>1, <1>5 DEF Typed
  <1>22. m.id \in DOMAIN insts /\ ~insts[m.id].made /\ ~insts[m.id].literal BY <1>6 DEF MakeOK
  <1>23. ASSUME Depth \in 1 .. Depth', MakesIn(x, Ctx'[Depth])
         PROVE  NativeEntry(x)'
    <2>1. x.id \in DOMAIN insts' /\ ~insts'[x.id].made /\ ~insts'[x.id].literal
      BY <1>5, <1>6, <1>22 DEF heap
    <2>2. PICK d : d = Depth OBVIOUS
    <2>3. x.depth = d /\ d \in 1 .. Depth' /\ MakesIn(x, Ctx'[d]) BY <1>6, <1>23, <2>2
    <2>4. x.start \in 1 .. Width - 1 BY <1>6, <1>10
    <2>5. MakeOK(x)' BY <1>6, <2>1, <2>3, <2>4 DEF MakeOK
    <2> QED BY <2>5 DEF NativeEntry
  <1>24. MakesIn(x, cur) BY <1>6 DEF MakesIn
  <1>25. CASE AtLimit
    <2>1. RefuseCall(c, file, b) BY <1>5, <1>25 DEF CallUserFunc
    <2>2. ValueOK(c.copy)' BY <1>9, <1>18
    <2>3. /\ Written /\ native' = b /\ frames' = frames
          /\ cur' = [cur EXCEPT !.top = m.start - 1]
      BY <1>9, <1>19, <2>1, <2>2, Refused
    <2>4. cur' = w BY <1>11, <1>15, <2>3
    <2>5. Steady /\ Laid(Depth, cur') BY <1>16, <2>3, <2>4 DEF Steady
    <2>6. Depth' = Depth /\ Ctx'[Depth] = cur' BY <1>1, <2>3, Stayed
    <2>7. NativeEntry(x)'
      <3>1. Depth \in 1 .. Depth' BY <1>8, <2>6
      <3>2. MakesIn(x, w) BY <1>16, <1>24, AlikeIn
      <3> QED BY <1>23, <2>4, <2>6, <3>1, <3>2
    <2>8. native' = Append(Front(native), x) BY <1>4, <2>3
    <2> QED BY <1>5, <1>6, <1>20, <1>21, <2>3, <2>5, <2>7, <2>8, TopGoesOn
  <1>26. CASE ~AtLimit
    <2>1. EnterCall(c, file, b) BY <1>5, <1>26 DEF CallUserFunc
    <2>2. ~Mismatch(c) BY <1>9 DEF Mismatch, Plain
    <2>3. \A i \in DOMAIN insts : /\ insts'[i].made = insts[i].made
                                  /\ insts'[i].literal => insts[i].literal
      BY <1>7 DEF NoneEnds
    <2>4. Interrupted BY <1>1, <1>5, <1>7, <1>17, <1>26, <2>1, <2>2, <2>3, EnterInterrupts
    <2>5. NativeEntry(x)'
      <3>1. Depth' = Depth + 1 BY <2>4 DEF Interrupted
      <3>2. Depth \in 1 .. Depth' /\ Depth \in 1 .. Depth BY <1>8, <3>1
      <3>3. PICK d : d = Depth OBVIOUS
      <3>4. Alike(Ctx[d], Ctx'[d]) BY <2>4, <3>2, <3>3 DEF Interrupted
      <3>5. MakesIn(x, Ctx'[d]) BY <1>8, <1>24, <3>3, <3>4, AlikeIn
      <3> QED BY <1>23, <3>2, <3>3, <3>5
    <2>6. StackBelow(b)
      <3>1. x.op = native[Len(native)].op /\ native[Len(native)].op # "call" BY <1>6
      <3> QED BY <1>4, <1>6, <2>4, <2>5, <3>1, BelowSame
    <2>7. Binds(c) BY <1>9 DEF Binds
    <2>8. native' = Append(b, c) BY <1>9, <2>1 DEF EnterCall, Settle
    <2>9. PICK n, l : n = native' /\ l = Len(native) OBVIOUS
    <2>10. /\ l \in Nat /\ l >= 1 /\ DOMAIN native = 1 .. l /\ DOMAIN n = 1 .. l + 1
           /\ \A i \in 1 .. l - 1 : n[i] = native[i]
           /\ n[l] = x /\ n[l + 1] = c
      <3>1. /\ l \in Nat /\ l >= 1 /\ DOMAIN native = 1 .. l
            /\ Len(b) = l /\ b[l] = x
            /\ \A i \in 1 .. l - 1 : b[i] = native[i]
        <4>1. /\ Len(native) \in Nat /\ Len(native) >= 1 /\ DOMAIN native = 1 .. Len(native)
              /\ Len(b) = Len(native) /\ b[Len(native)] = x
              /\ \A i \in 1 .. Len(native) - 1 : b[i] = native[i]
          BY <1>1, <1>4, <1>6, TopIs
        <4> QED BY <2>9, <4>1
      <3>2. PICK S : b \in Seq(S) BY <2>6 DEF StackBelow
      <3>3. n = Append(b, c) BY <2>8, <2>9
      <3>4. DOMAIN n = 1 .. l + 1 /\ n[l + 1] = c /\ \A i \in 1 .. l : n[i] = b[i]
        BY ONLY <3>1, <3>2, <3>3
      <3>5. l \in 1 .. l /\ \A i \in 1 .. l - 1 : i \in 1 .. l BY <3>1
      <3> QED BY <3>1, <3>4, <3>5
    <2>11. /\ \A i \in DOMAIN native :
                /\ i \in DOMAIN native' /\ native'[i].op = native[i].op
                /\ native[i].op = "make" => native'[i].id = native[i].id
                /\ native[i].op = "drop" => native'[i].busy = native[i].busy
           /\ \A i \in DOMAIN native' \ DOMAIN native : native'[i].op = "call"
      <3>1. ASSUME NEW i \in 1 .. l
            PROVE  /\ i \in DOMAIN n /\ n[i].op = native[i].op
                   /\ native[i].op = "make" => n[i].id = native[i].id
                   /\ native[i].op = "drop" => n[i].busy = native[i].busy
        <4>1. i \in DOMAIN n BY <2>10
        <4>2. CASE i = l BY <1>6, <2>9, <2>10, <4>1, <4>2
        <4>3. CASE i # l
          <5>1. i \in 1 .. l - 1 BY ONLY <2>10, <3>1, <4>3
          <5> QED BY <2>10, <4>1, <5>1
        <4> QED BY <4>2, <4>3
      <3>2. \A i \in DOMAIN n \ DOMAIN native : n[i].op = "call" BY <1>9, <2>10
      <3> QED BY <2>9, <2>10, <3>1, <3>2
    <2>12. Listing' /\ Unique' /\ Counted' BY <1>1, <1>5, <1>7, <2>11, CountsWith
    <2>13. status \notin {"over", "aborted"} BY <1>1, <1>6 DEF Ends
    <2>14. implicit \in BOOLEAN BY <1>1 DEF Inv, NativeOK
    <2>15. CallOK(c)'
      <3>1. ValueOK(c.copy)' /\ c.fun \in Callables /\ c.depth \in Nat
        BY <1>8, <1>9, <1>18, CallableFields
      <3> QED BY <1>9, <2>14, <3>1 DEF CallOK
    <2>16. missed' \in BOOLEAN BY <1>1, <1>5 DEF Typed
    <2>17. /\ b # <<>> /\ b[Len(b)].op # "call" => c.by # "code"
           /\ (\E i \in DOMAIN b : Binds(b[i])) => Binds(c)
      BY <1>9, <2>7
    <2>18. active' = active /\ status' = status /\ scopes' = scopes BY <1>5
    <2> QED BY <1>7, <1>17, <1>19, <1>20, <1>21, <1>26, <2>1, <2>2, <2>6, <2>12, <2>13, <2>15,
               <2>16, <2>17, <2>18, EnterKeeps
  <1> QED BY <1>25, <1>26

(* A window that is counted in a byte from another, which is near enough.  *)
LEMMA ByteDistance ==
  ASSUME NEW addr \in Nat, NEW base \in Nat, NEW w \in Nat, w > 0, addr + 1 < base + w,
         NEW s, s = (addr - base + 1) % w
  PROVE  /\ s \in Nat /\ s < w /\ base + s > addr /\ base + s >= 1
         /\ addr >= base => s = addr - base + 1
PROOF
  <1>1. PICK x : x = addr - base + 1 OBVIOUS
  <1>2. x \in Int /\ s = x % w BY <1>1
  <1>3. s \in 0 .. w - 1 BY <1>2
  <1>4. CASE x >= 0
    <2>1. x \in 0 .. w - 1 BY <1>1, <1>4
    <2>2. s = x BY <1>2, <2>1
    <2> QED BY <1>1, <1>3, <2>2
  <1>5. CASE x < 0
    <2> QED BY <1>1, <1>3, <1>5
  <1> QED BY <1>2, <1>4, <1>5

(* The dropInstances on top, and the instance that it will drop.           *)
LEMMA TopDrop ==
  ASSUME DInv, Doing("drop"), NEW d, d = Last(native)
  PROVE  /\ native # <<>> /\ d = native[Len(native)] /\ d.op = "drop" /\ d.depth = Depth
         /\ DropOK(d) /\ DropsIn(d, cur)
         /\ status \notin {"over", "aborted"}
         /\ d.then \in {"clear", "destroy"} => Depth = 1 /\ status # "running"
PROOF
  <1>1. Inv /\ Typed /\ Entries /\ Ends BY DEF DInv
  <1>2. native # <<>> /\ d.op = "drop" BY DEF Doing
  <1>3. d = native[Len(native)] /\ Len(native) \in DOMAIN native
    <2>1. /\ Len(native) \in Nat /\ DOMAIN native = 1 .. Len(native)
          /\ (native = <<>> <=> Len(native) = 0) /\ Last(native) = native[Len(native)]
      BY <1>1, TheNative
    <2> QED BY <1>2, <2>1
  <1>4. d.depth = Depth BY <1>2, <1>3, BelowTop
  <1>5. NativeEntry(d) BY <1>1, <1>3 DEF Entries
  <1>6. DropOK(d) BY <1>2, <1>5, EntryOps
  <1>7. DropsIn(d, cur)
    <2>1. DropsIn(d, Ctx[d.depth]) BY <1>6 DEF DropOK
    <2>2. Ctx[Depth] = cur BY <1>1, TheContexts
    <2> QED BY <1>4, <2>1, <2>2
  <1>8. status \notin {"over", "aborted"} BY <1>1, <1>2 DEF Ends
  <1>9. d.then \in {"clear", "destroy"} => Depth = 1 /\ status # "running"
    BY <1>4, <1>6 DEF DropOK
  <1> QED BY <1>2, <1>3, <1>4, <1>6, <1>7, <1>8, <1>9

LEMMA DropFits ==
  ASSUME DInv, Doing("drop"), NEW d, d = Last(native), Dropping(d),
         NEW a, a = Last(active), NEW s, s = DropStart(a)
  PROVE  /\ Len(active) \in Nat /\ Len(active) >= 1 /\ DOMAIN active = 1 .. Len(active)
         /\ a = active[Len(active)] /\ a.addr \in Nat /\ Listed(a)
         /\ s \in Nat /\ s < Width /\ cur.base + s > a.addr /\ cur.base + s >= 1
         /\ Reg(s - 1) \in DOMAIN regs
         /\ \A b \in DOMAIN cur.blocks : cur.blocks[b].at <= s
         /\ cur.code.at \in Running \cup {"leaving"}
         /\ Depth = 1 \/ a.addr >= cur.base
PROOF
  <1>1. Inv /\ Typed /\ Windows /\ Listing /\ Near BY DEF DInv
  <1>2. /\ DropOK(d) /\ DropsIn(d, cur) /\ status \notin {"over", "aborted"}
        /\ d.then \in {"clear", "destroy"} => Depth = 1 /\ status # "running"
    BY TopDrop
  <1>3. active # <<>> /\ a.addr >= d.limit BY DEF Dropping
  <1>4. /\ active \in Seq([addr : 0 .. NumRegs - 1, id : Nat]) /\ NumRegs \in Nat /\ Width \in Nat
        /\ Width > 0
    BY <1>1, Sizes DEF Typed
  <1>5. /\ Len(active) \in Nat /\ Len(active) >= 1 /\ DOMAIN active = 1 .. Len(active)
        /\ a = active[Len(active)] /\ Len(active) \in DOMAIN active
    <2>1. PICK S : active \in Seq(S) BY <1>4
    <2>2. Last(active) = active[Len(active)] BY DEF Last
    <2> QED BY <1>3, <2>1, <2>2
  <1>6. a \in [addr : 0 .. NumRegs - 1, id : Nat]
    <2>1. PICK S : S = [addr : 0 .. NumRegs - 1, id : Nat] OBVIOUS
    <2>2. active \in Seq(S) BY <1>4, <2>1
    <2>3. a \in S BY <1>5, <2>2
    <2> QED BY <2>1, <2>3
  <1>7. a.addr \in Nat BY <1>4, <1>6
  <1>8. Listed(a) BY <1>1, <1>5 DEF Listing
  <1>9. PICK base, addr, w : base = cur.base /\ addr = a.addr /\ w = Width OBVIOUS
  <1>10. /\ cur \in Contexts /\ Laid(Depth, cur) BY <1>1, LaidHere
  <1>11. base \in Nat /\ addr \in Nat /\ w \in Nat /\ w > 0
    BY <1>4, <1>7, <1>9, <1>10, ContextFields
  <1>12. addr + 1 < base + w BY <1>1, <1>5, <1>9 DEF Near
  <1>13. s = (addr - base + 1) % w BY <1>9 DEF DropStart
  <1>14. /\ s \in Nat /\ s < w /\ base + s > addr /\ base + s >= 1
         /\ addr >= base => s = addr - base + 1
    BY <1>11, <1>12, <1>13, ByteDistance
  <1>15. Reg(s - 1) \in DOMAIN regs
    <2>1. Reg(s) \in 0 .. NumRegs - 1 BY <1>1, <1>2, <1>9, <1>14, InThisWindow
    <2>2. base + s \in 0 .. NumRegs - 1 BY <1>9, <2>1 DEF Reg
    <2>3. base + (s - 1) \in 0 .. NumRegs - 1 BY <1>4, <1>11, <1>14, <2>2
    <2> QED BY <1>1, <1>9, <2>3 DEF Reg, Typed
  <1>16. /\ Depth \in Nat /\ Depth >= 1 /\ Ctx[Depth] = cur BY <1>1, TheContexts
  <1>17. d.then \in {"return", "exit", "iterate", "clear", "destroy"} BY <1>2 DEF DropOK
  <1>18. CASE d.then \in {"clear", "destroy"}
    <2>1. Depth = 1 /\ status # "running" BY <1>2, <1>18
    <2>2. cur.blocks = <<>> /\ cur.code.at = "script"
      BY <1>1, <1>10, <1>16, <2>1 DEF Windows, Laid
    <2>3. \A b \in DOMAIN cur.blocks : cur.blocks[b].at <= s BY <2>2
    <2>4. cur.code.at \in Running BY <2>2 DEF Running
    <2> QED BY <1>5, <1>7, <1>8, <1>9, <1>14, <1>15, <2>1, <2>3, <2>4
  <1>19. CASE d.then = "return"
    <2>1. cur.code.at = "leaving" /\ d.limit = cur.base BY <1>2, <1>19 DEF DropsIn
    <2>2. cur.blocks = <<>> BY <1>10, <2>1 DEF Laid
    <2>3. \A b \in DOMAIN cur.blocks : cur.blocks[b].at <= s BY <2>2
    <2>4. a.addr >= cur.base BY <1>3, <2>1
    <2> QED BY <1>5, <1>7, <1>8, <1>9, <1>14, <1>15, <2>1, <2>3, <2>4
  <1>20. CASE d.then \in {"exit", "iterate"}
    <2>1. /\ cur.code.at \in {"script", "body"} /\ cur.blocks # <<>>
          /\ \A b \in DOMAIN cur.blocks : d.limit >= cur.base + cur.blocks[b].at
      BY <1>2, <1>20 DEF DropsIn
    <2>2. /\ Len(cur.blocks) \in Nat /\ DOMAIN cur.blocks = 1 .. Len(cur.blocks)
          /\ \A b \in DOMAIN cur.blocks : cur.blocks[b].at \in Nat
      BY <1>10, ContextFields
    <2>3. d.limit \in Nat BY <1>2 DEF DropOK
    <2>4. \A b \in DOMAIN cur.blocks : base + cur.blocks[b].at <= addr
      <3> TAKE b \in DOMAIN cur.blocks
      <3>1. PICK y, z : y = cur.blocks[b].at /\ z = d.limit OBVIOUS
      <3>2. y \in Nat /\ z \in Nat /\ z >= base + y /\ addr >= z
        BY <1>3, <1>9, <2>1, <2>2, <2>3, <3>1
      <3>3. base + y <= addr BY ONLY <1>11, <3>2
      <3> QED BY <3>1, <3>3
    <2>5. \A b \in DOMAIN cur.blocks : cur.blocks[b].at <= s /\ addr >= base
      <3> TAKE b \in DOMAIN cur.blocks
      <3>1. PICK y : y = cur.blocks[b].at OBVIOUS
      <3>2. y \in Nat /\ base + y <= addr BY <2>2, <2>4, <3>1
      <3>3. y <= s /\ addr >= base BY ONLY <1>11, <1>14, <3>2
      <3> QED BY <3>1, <3>3
    <2>6. 1 \in DOMAIN cur.blocks
      <3>1. cur.blocks \in Seq([at : Nat, since : Nat]) BY <1>10, ContextFields
      <3> QED BY <2>1, <2>2, <3>1
    <2>7. addr >= base BY <2>5, <2>6
    <2>8. cur.code.at \in Running BY <2>1 DEF Running
    <2> QED BY <1>5, <1>7, <1>8, <1>9, <1>14, <1>15, <2>5, <2>7, <2>8
  <1> QED BY <1>17, <1>18, <1>19, <1>20

(* What the stack holds while drop() runs.                                 *)
LEMMA BusyDrop ==
  ASSUME DInv, Doing("drop"), NEW d, d = Last(native), NEW n, NEW x, x = [d EXCEPT !.busy = n]
  PROVE  /\ x.op = "drop" /\ x.limit = d.limit /\ x.then = d.then /\ x.busy = n /\ x.depth = d.depth
PROOF
  <1>1. d = [op |-> "drop", limit |-> d.limit, then |-> d.then, busy |-> d.busy, depth |-> d.depth]
    BY OnDrop DEF DInv
  <1>2. PICK l, t, b, e : d = [op |-> "drop", limit |-> l, then |-> t, busy |-> b, depth |-> e]
    BY <1>1
  <1>3. ASSUME NEW u
        PROVE  [[op |-> "drop", limit |-> l, then |-> t, busy |-> b, depth |-> e] EXCEPT !.busy = u]
                 = [op |-> "drop", limit |-> l, then |-> t, busy |-> u, depth |-> e]
    OBVIOUS
  <1>4. x = [op |-> "drop", limit |-> l, then |-> t, busy |-> n, depth |-> e]
    BY <1>2, <1>3, Zenon
  <1> QED BY <1>2, <1>4

(* The drop() methods under way are those of instances listed before.      *)
LEMMA EarlierDrops ==
  ASSUME DInv, Doing("drop"), NEW d, d = Last(native), Dropping(d),
         NEW i \in 1 .. Len(native) - 1, Dropper(native[i])
  PROVE  native[i].busy \in Nat /\ native[i].busy < Len(active)
PROOF
  <1>1. Inv /\ Typed /\ Windows /\ Entries /\ Busy BY DEF DInv
  <1>2. PICK a, s : a = Last(active) /\ s = DropStart(a) OBVIOUS
  <1>3. /\ Len(active) \in Nat /\ a = active[Len(active)] /\ a.addr \in Nat
        /\ Depth = 1 \/ a.addr >= cur.base
    BY <1>2, DropFits
  <1>4. /\ native # <<>> /\ d = native[Len(native)] /\ d.op = "drop" BY TopDrop
  <1>5. native[i].op = "drop" BY DEF Dropper
  <1>6. native[i].depth \in 1 .. Len(frames) BY <1>4, <1>5, BelowTop
  <1>7. Depth = Len(frames) + 1 /\ Len(frames) \in Nat /\ Ctx[Depth] = cur
        /\ \A k \in 1 .. Depth : Ctx[k] \in Contexts
    BY <1>1, TheContexts
  <1>8. PICK k, b, n : k = native[i].depth + 1 /\ b = native[i].busy /\ n = Len(active) OBVIOUS
  <1>9. k \in 1 .. Depth /\ Depth # 1
    <2>1. PICK e, f : e = native[i].depth /\ f = Len(frames) OBVIOUS
    <2>2. e \in 1 .. f /\ f \in Nat /\ k = e + 1 /\ Depth = f + 1 BY <1>6, <1>7, <1>8, <2>1
    <2> QED BY ONLY <2>2
  <1>10. DropsBelow(active, b, Ctx[k].base) BY <1>1, <1>8 DEF Busy
  <1>11. Ctx[k].base <= cur.base
    <2>1. CASE k = Depth
      <3>1. Ctx[k].base = cur.base /\ cur.base \in Nat BY <1>7, <1>9, <2>1, ContextFields
      <3> QED BY <3>1
    <2>2. CASE k # Depth
      <3>1. k < Depth BY <1>7, <1>9, <2>2
      <3>2. Depth \in 1 .. Depth BY <1>7
      <3>3. Ctx[k].base <= Ctx[Depth].base BY <1>1, <1>9, <3>1, <3>2 DEF Windows
      <3> QED BY <1>7, <3>3
    <2> QED BY <2>1, <2>2
  <1>12. b \in 0 .. n
    <2>1. i \in DOMAIN native BY <1>1, TheNative
    <2>2. NativeEntry(native[i]) BY <1>1, <2>1 DEF Entries
    <2>3. DropOK(native[i]) BY <1>5, <2>2, EntryOps
    <2> QED BY <1>8, <2>3 DEF DropOK
  <1>13. b # n
    <2> SUFFICES ASSUME b = n PROVE FALSE OBVIOUS
    <2>1. a.addr < Ctx[k].base BY <1>3, <1>8, <1>10 DEF DropsBelow
    <2>2. Ctx[k].base \in Nat /\ cur.base \in Nat BY <1>7, <1>9, ContextFields
    <2>3. a.addr >= cur.base BY <1>3, <1>9
    <2> QED BY <1>3, <1>11, <2>1, <2>2, <2>3
  <1> QED BY <1>3, <1>8, <1>12, <1>13

(* A refused drop() and one that starts leave the window as it is.         *)
LEMMA TopAgain ==
  ASSUME NEW x \in Contexts, NEW y, y = [x EXCEPT !.top = x.top]
  PROVE  /\ y \in Contexts /\ Beside(x, y) /\ Alike(x, y)
         /\ \A k : Laid(k, x) => Laid(k, y)
PROOF
  <1>1. x.top \in Nat BY ContextFields
  <1>2. PICK t : t = x.top OBVIOUS
  <1>3. y \in Contexts /\ Beside(x, y) /\ Alike(x, y) /\ y.top = t BY <1>1, <1>2, TopMoved
  <1>4. y.code = x.code /\ y.blocks = x.blocks /\ y.low = x.low /\ y.top = x.top
    BY <1>2, <1>3 DEF Alike
  <1> QED BY <1>3, <1>4 DEF Laid

LEMMA DropCallFits ==
  ASSUME DInv, Doing("drop"), NEW d, d = Last(native), Dropping(d),
         NEW a, a = Last(active), NEW s, s = DropStart(a),
         NEW c, c.op = "call", c.was = implicit, c.depth = Depth + 1, c.fun = Plain, c.self = 1,
         c.by = "drop", c.start = s, c.argc = 0, c.keep = cur.top
  PROVE  CallFits(c)
PROOF
  <1>1. Typed /\ Windows BY DEF DInv
  <1>2. cur \in Contexts /\ Laid(Depth, cur) BY <1>1, LaidHere
  <1>3. PICK w : w = [cur EXCEPT !.top = cur.top] OBVIOUS
  <1>4. Laid(Depth, w) BY <1>2, <1>3, TopAgain
  <1>5. cur.top \in Nat /\ Width \in Nat /\ 1 < Width
    <2>1. cur.top \in Nat BY <1>2, ContextFields
    <2>2. PICK t : t = MaxTemps[1] OBVIOUS
    <2>3. MaxDepth \in Nat /\ Width \in Nat /\ Globals \in Nat /\ Globals > 0 /\ Globals + t < Width
      BY <2>2, Sizes
    <2>4. 1 \in 1 .. MaxDepth + 1 BY <2>3
    <2>5. t \in Nat BY <2>2, <2>4, Sizes
    <2> QED BY <2>1, <2>3, <2>5
  <1>6. /\ s \in Nat /\ s < Width /\ cur.base + s >= 1
        /\ \A b \in DOMAIN cur.blocks : cur.blocks[b].at <= s
        /\ cur.code.at \in Running \cup {"leaving"}
    BY DropFits
  <1>7. Plain \in Callables BY CallableFields
  <1>8. s <= Width /\ 1 + 0 < Width BY <1>5, <1>6
  <1>9. Laid(Depth, [cur EXCEPT !.top = c.keep]) BY <1>3, <1>4
  <1> QED BY <1>5, <1>6, <1>7, <1>8, <1>9 DEF CallFits

(* The instance that drop() starts for has been dropped once.              *)
LEMMA DropCounted ==
  ASSUME Typed, Listing, NEW n, n \in DOMAIN active, NEW i, i = active[n].id,
         insts' = [insts EXCEPT ![i].drops = @ + 1], bound' = bound
  PROVE  /\ HeapGrows /\ DOMAIN insts' = DOMAIN insts /\ i \in DOMAIN insts
         /\ \A j \in DOMAIN insts : /\ insts'[j].made = insts[j].made /\ insts'[j].of = insts[j].of
                                    /\ insts'[j].literal = insts[j].literal
                                    /\ j # i => insts'[j].drops = insts[j].drops
         /\ insts'[i].drops = insts[i].drops + 1
PROOF
  <1>1. Listed(active[n]) BY DEF Listing
  <1>2. i \in DOMAIN insts BY <1>1 DEF Listed
  <1>3. insts \in Seq(Instances) /\ bound \in [Types -> 0 .. Len(insts)] BY DEF Typed
  <1>4. insts[i] \in Instances BY <1>2, <1>3
  <1>5. PICK e : e = [insts[i] EXCEPT !.drops = insts[i].drops + 1] OBVIOUS
  <1>6. /\ e \in Instances /\ e.made = insts[i].made /\ e.of = insts[i].of
        /\ e.literal = insts[i].literal /\ e.drops = insts[i].drops + 1
    <2>1. PICK r : r = insts[i] OBVIOUS
    <2>2. r \in Instances /\ e = [r EXCEPT !.drops = r.drops + 1] BY <1>4, <1>5, <2>1
    <2>3. /\ e \in Instances /\ e.made = r.made /\ e.of = r.of /\ e.literal = r.literal
          /\ e.drops = r.drops + 1
      BY <2>2 DEF Instances
    <2> QED BY <2>1, <2>3
  <1>7. insts' = [insts EXCEPT ![i] = e] BY <1>2, <1>5
  <1>8. PICK S : S = Instances OBVIOUS
  <1>9. insts' \in Seq(S) /\ Len(insts') = Len(insts) /\ DOMAIN insts' = DOMAIN insts
    BY <1>2, <1>3, <1>6, <1>7, <1>8
  <1>10. insts'[i] = e /\ \A j \in DOMAIN insts : j # i => insts'[j] = insts[j]
    BY <1>2, <1>7
  <1>11. HeapGrows BY <1>3, <1>8, <1>9 DEF HeapGrows
  <1> QED BY <1>2, <1>6, <1>9, <1>10, <1>11

LEMMA DropStarts ==
  ASSUME Typed, Listing, Unique, Counted, NEW n, n \in DOMAIN active, NEW i, i = active[n].id,
         insts' = [insts EXCEPT ![i].drops = @ + 1], bound' = bound,
         active' = active, missed' = missed,
         ~BeingDropped(native, n),
         \A b : BeingDropped(native', b) <=> BeingDropped(native, b) \/ b = n,
         \A j \in DOMAIN native' : native'[j].op = "make" => j \in DOMAIN native /\ native'[j] = native[j]
  PROVE  Listing' /\ Unique' /\ Counted'
PROOF
  <1>1. /\ DOMAIN insts' = DOMAIN insts /\ i \in DOMAIN insts
        /\ \A j \in DOMAIN insts : /\ insts'[j].made = insts[j].made /\ insts'[j].of = insts[j].of
                                   /\ insts'[j].literal = insts[j].literal
                                   /\ j # i => insts'[j].drops = insts[j].drops
        /\ insts'[i].drops = insts[i].drops + 1
    <2>1. Typed /\ Listing /\ n \in DOMAIN active /\ i = active[n].id OBVIOUS
    <2> QED BY <2>1, DropCounted
  <1>2. Listing'
    <2>1. \A j \in DOMAIN active : /\ active[j].id \in DOMAIN insts' /\ insts'[active[j].id].made
                                   /\ insts'[active[j].id].of.drop
      BY <1>1 DEF Listing, Listed
    <2> QED BY <2>1 DEF Listing, Listed
  <1>3. Unique'
    <2>1. \A j, k \in DOMAIN native' :
            j # k /\ native'[j].op = "make" /\ native'[k].op = "make" => native'[j].id # native'[k].id
      BY DEF Unique
    <2>2. \A j \in DOMAIN insts' : insts'[j].made => ~insts'[j].literal BY <1>1 DEF Unique
    <2> QED BY <2>1, <2>2 DEF Unique
  <1>4. Counted'
    <2> SUFFICES ASSUME ~missed
                 PROVE  /\ \A j, k \in DOMAIN active : active[j].id = active[k].id => j = k
                        /\ \A j \in DOMAIN active :
                             insts'[active[j].id].drops = IF BeingDropped(native', j) THEN 1 ELSE 0
                        /\ \A j \in DOMAIN insts' :
                             /\ insts'[j].drops <= 1
                             /\ ~insts'[j].made => insts'[j].drops = 0
                             /\ insts'[j].made /\ insts'[j].of.drop /\ insts'[j].drops = 0 =>
                                  \E k \in DOMAIN active : active[k].id = j
      BY DEF Counted, BeingDropped
    <2>1. /\ \A j, k \in DOMAIN active : active[j].id = active[k].id => j = k
          /\ \A j \in DOMAIN active :
               insts[active[j].id].drops = IF BeingDropped(native, j) THEN 1 ELSE 0
          /\ \A j \in DOMAIN insts :
               /\ insts[j].drops <= 1
               /\ ~insts[j].made => insts[j].drops = 0
               /\ insts[j].made /\ insts[j].of.drop /\ insts[j].drops = 0 =>
                    \E k \in DOMAIN active : active[k].id = j
      BY DEF Counted
    <2>2. insts[i].drops = 0 /\ insts'[i].drops = 1 /\ insts[i].made
      <3>1. insts[i].drops = 0 BY <2>1
      <3>2. Listed(active[n]) BY DEF Listing
      <3> QED BY <1>1, <3>1, <3>2 DEF Listed
    <2>3. ASSUME NEW j \in DOMAIN active
          PROVE  insts'[active[j].id].drops = IF BeingDropped(native', j) THEN 1 ELSE 0
      <3>1. CASE j = n BY <2>2, <3>1
      <3>2. CASE j # n
        <4>1. active[j].id # i BY <2>1, <3>2
        <4>2. Listed(active[j]) BY DEF Listing
        <4>3. insts'[active[j].id].drops = insts[active[j].id].drops BY <1>1, <4>1, <4>2 DEF Listed
        <4> QED BY <2>1, <3>2, <4>3
      <3> QED BY <3>1, <3>2
    <2>4. ASSUME NEW j \in DOMAIN insts'
          PROVE  /\ insts'[j].drops <= 1
                 /\ ~insts'[j].made => insts'[j].drops = 0
                 /\ insts'[j].made /\ insts'[j].of.drop /\ insts'[j].drops = 0 =>
                      \E k \in DOMAIN active : active[k].id = j
      <3>1. CASE j = i
        <4>1. insts'[i].made
          <5>1. insts'[i].made = insts[i].made BY <1>1
          <5>2. insts[i].made BY <2>2
          <5> QED BY ONLY <5>1, <5>2
        <4>2. PICK u : u = insts'[i].drops OBVIOUS
        <4>3. u = 1 BY <2>2, <4>2
        <4>4. u <= 1 /\ ~(u = 0) BY <4>3
        <4>5. insts'[i].drops <= 1 /\ ~(insts'[i].drops = 0) BY <4>2, <4>4
        <4> QED BY <3>1, <4>1, <4>5
      <3>2. CASE j # i BY <1>1, <2>1, <3>2
      <3> QED BY <3>1, <3>2
    <2> QED BY <2>1, <2>3, <2>4
  <1> QED BY <1>2, <1>3, <1>4

LEMMA DropInstanceKeeps ==
  ASSUME DInv, DropInstance
  PROVE  DInv'
PROOF
  <1>1. /\ Inv /\ Typed /\ Windows /\ Entries /\ Links /\ Ends /\ Listing /\ Unique /\ Counted
    BY DEF DInv
  <1>2. PICK d, a : d = Last(native) /\ a = Last(active) OBVIOUS
  <1>3. PICK s, n, v : s = DropStart(a) /\ n = Len(active) /\ v = InstV(a.id) OBVIOUS
  <1>4. PICK copy, x, c : /\ copy = regs[Reg(s - 1)]
                          /\ x = [d EXCEPT !.busy = n]
                          /\ c = Call(Plain, 1, "drop", s, 0, cur.top, copy)
    OBVIOUS
  <1>5. PICK file, b : file = Shifted(c, v) /\ b = Append(Front(native), x) OBVIOUS
  <1>6. /\ Doing("drop") /\ Dropping(d)
        /\ IF ~AtLimit
           THEN insts' = [insts EXCEPT ![a.id].drops = @ + 1] /\ UNCHANGED missed
           ELSE missed' = TRUE /\ UNCHANGED insts
        /\ CallUserFunc(c, file, b)
        /\ UNCHANGED <<args, scopes, active, bound, status>>
    BY <1>2, <1>3, <1>4, <1>5 DEF DropInstance
  <1>7. /\ native # <<>> /\ d = native[Len(native)] /\ d.op = "drop" /\ d.depth = Depth
        /\ DropOK(d) /\ DropsIn(d, cur) /\ status \notin {"over", "aborted"}
    BY <1>2, <1>6, TopDrop
  <1>8. /\ n \in Nat /\ n >= 1 /\ DOMAIN active = 1 .. n /\ a = active[n] /\ a.addr \in Nat /\ Listed(a)
        /\ s \in Nat /\ cur.base + s > a.addr /\ Reg(s - 1) \in DOMAIN regs
    BY <1>2, <1>3, <1>6, DropFits
  <1>9. /\ x.op = "drop" /\ x.limit = d.limit /\ x.then = d.then /\ x.busy = n /\ x.depth = Depth
    BY <1>2, <1>4, <1>6, <1>7, BusyDrop
  <1>10. \A i \in 1 .. Len(native) - 1 : Dropper(native[i]) => native[i].busy < n
    BY <1>2, <1>3, <1>6, EarlierDrops
  <1>11. /\ Depth = Len(frames) + 1 /\ Depth \in Nat /\ Len(frames) \in Nat /\ Depth >= 1
         /\ Ctx[Depth] = cur
    BY <1>1, TheContexts
  <1>12. /\ c.op = "call" /\ c.fun = Plain /\ c.self = 1 /\ c.by = "drop" /\ c.start = s
         /\ c.argc = 0 /\ c.keep = cur.top /\ c.copy = copy /\ c.was = implicit /\ c.depth = Depth + 1
    <2>1. Len(frames) + 2 = Depth + 1 BY <1>11
    <2> QED BY <1>4, <2>1, TheCall
  <1>13. CallFits(c) BY <1>2, <1>3, <1>6, <1>12, DropCallFits
  <1>14. n \in DOMAIN active /\ a.id \in DOMAIN insts BY <1>8 DEF Listed
  <1>15. HeapGrows
    <2>1. CASE AtLimit
      <3>1. UNCHANGED heap BY <1>6, <2>1 DEF heap
      <3> QED BY <1>1, <3>1, HeapStays
    <2>2. CASE ~AtLimit
      <3>1. PICK i : i = active[n].id OBVIOUS
      <3>2. insts' = [insts EXCEPT ![i].drops = @ + 1] /\ bound' = bound BY <1>6, <1>8, <2>2, <3>1
      <3> QED BY <1>1, <1>14, <3>1, <3>2, DropCounted
    <2> QED BY <2>1, <2>2
  <1>16. ValueOK(v)' /\ ValueOK(copy)'
    <2>1. PICK i : i = a.id OBVIOUS
    <2>2. i \in DOMAIN insts' BY <1>14, <1>15, <2>1 DEF HeapGrows
    <2>3. ValueOK(InstV(i))' BY <2>2, InstValue
    <2>4. v = InstV(i) BY <1>3, <2>1
    <2>5. ValueOK(copy) BY <1>1, <1>4, <1>8 DEF Typed
    <2>6. ValueOK(copy)' BY <1>15, <2>5, ValueKept
    <2> QED BY <2>3, <2>4, <2>6
  <1>17. GoodFile(file)
    <2>1. c.start \in Nat /\ c.argc \in Nat BY <1>8, <1>12
    <2> QED BY <1>1, <1>5, <1>15, <1>16, <2>1, ShiftedGood
  <1>18. Inv' BY <1>1, DropSteps
  <1>19. args' \in 0 .. Width BY <1>1, <1>6 DEF Typed
  <1>20. DropsIn(x, cur) BY <1>7, <1>9 DEF DropsIn
  <1>21. ASSUME Depth \in 1 .. Depth', DropsIn(x, Ctx'[Depth])
         PROVE  NativeEntry(x)'
    <2>1. PICK e : e = Depth OBVIOUS
    <2>2. x.depth = e /\ e \in 1 .. Depth' /\ DropsIn(x, Ctx'[e]) BY <1>9, <1>21, <2>1
    <2>3. n \in 0 .. Len(active') BY <1>3, <1>6, <1>8
    <2>4. /\ x.limit \in Nat /\ x.then \in {"return", "exit", "iterate", "clear", "destroy"}
          /\ x.then = "clear" => status' = "clearing" /\ x.depth = 1
          /\ x.then = "destroy" => status' = "destroying" /\ x.limit = 0 /\ x.depth = 1
      BY <1>6, <1>7, <1>9 DEF DropOK
    <2>5. DropOK(x)' BY <1>9, <2>2, <2>3, <2>4 DEF DropOK
    <2> QED BY <2>5 DEF NativeEntry
  <1>22. CASE AtLimit
    <2>1. RefuseCall(c, file, b) BY <1>6, <1>22 DEF CallUserFunc
    <2>2. ValueOK(c.copy)' BY <1>12, <1>16
    <2>3. /\ Written /\ native' = b /\ frames' = frames
          /\ cur' = [cur EXCEPT !.top = cur.top]
      BY <1>12, <1>17, <2>1, <2>2, Refused
    <2>4. PICK w : w = cur' OBVIOUS
    <2>5. /\ cur \in Contexts /\ Laid(Depth, cur) BY <1>1, LaidHere
    <2>6. w \in Contexts /\ Beside(cur, w) /\ Alike(cur, w) /\ Laid(Depth, w)
      <3>1. w = [cur EXCEPT !.top = cur.top] BY <2>3, <2>4
      <3> QED BY <2>5, <3>1, TopAgain
    <2>7. Steady /\ Laid(Depth, cur') BY <2>3, <2>4, <2>6 DEF Steady
    <2>8. Depth' = Depth /\ Ctx'[Depth] = cur' BY <1>1, <2>3, Stayed
    <2>9. NativeEntry(x)'
      <3>1. Depth \in 1 .. Depth' BY <1>11, <2>8
      <3>2. DropsIn(x, w) BY <1>20, <2>6, AlikeIn
      <3> QED BY <1>21, <2>4, <2>8, <3>1, <3>2
    <2>10. native' = Append(Front(native), x) BY <1>5, <2>3
    <2>11. UNCHANGED <<scopes, active, heap, status>> /\ missed' = TRUE BY <1>6, <1>22 DEF heap
    <2>12. /\ native[Len(native)].op # "call" /\ x.op = native[Len(native)].op
           /\ x.then = native[Len(native)].then
      BY <1>7, <1>9
    <2>13. x.op = "drop" =>
             /\ x.then = native[Len(native)].then /\ missed' = TRUE
             /\ x.busy = Len(active)
             /\ \A i \in 1 .. Len(native) - 1 : Dropper(native[i]) => native[i].busy < x.busy
      BY <1>3, <1>9, <1>10, <2>11, <2>12
    <2>14. x.op # "make" BY <1>9
    <2> QED BY <1>7, <1>9, <1>18, <1>19, <2>3, <2>7, <2>9, <2>10, <2>11, <2>12, <2>13, <2>14, TopGoesOn
  <1>23. CASE ~AtLimit
    <2>1. EnterCall(c, file, b) BY <1>6, <1>23 DEF CallUserFunc
    <2>2. ~Mismatch(c) BY <1>12 DEF Mismatch, Plain
    <2>3. PICK i : i = active[n].id OBVIOUS
    <2>4. /\ insts' = [insts EXCEPT ![i].drops = @ + 1] /\ bound' = bound /\ missed' = missed
          /\ active' = active
      BY <1>6, <1>8, <1>23, <2>3
    <2>5. \A j \in DOMAIN insts : /\ insts'[j].made = insts[j].made
                                  /\ insts'[j].literal => insts[j].literal
      <3>1. \A j \in DOMAIN insts : /\ insts'[j].made = insts[j].made
                                    /\ insts'[j].literal = insts[j].literal
        BY <1>1, <1>14, <2>3, <2>4, DropCounted
      <3> QED BY <3>1
    <2>6. Interrupted /\ Opened(c)
      BY <1>1, <1>6, <1>13, <1>15, <1>23, <2>1, <2>2, <2>5, EnterInterrupts
    <2>7. Depth' = Depth + 1 /\ Ctx'[Depth + 1] = cur' BY <1>1, <1>13, <1>23, <2>6, OpenedContexts
    <2>8. NativeEntry(x)'
      <3>1. Depth \in 1 .. Depth' /\ Depth \in 1 .. Depth BY <1>11, <2>7
      <3>2. PICK e : e = Depth OBVIOUS
      <3>3. Alike(Ctx[e], Ctx'[e]) BY <2>6, <3>1, <3>2 DEF Interrupted
      <3>4. DropsIn(x, Ctx'[e]) BY <1>11, <1>20, <3>2, <3>3, AlikeIn
      <3> QED BY <1>21, <3>1, <3>2, <3>4
    <2>9. DropsBelow(active, n, Ctx'[Depth + 1].base)
      <3>1. cur'.base = cur.base + s BY <1>12, <2>6 DEF Opened
      <3>2. Ctx'[Depth + 1].base > a.addr BY <1>8, <2>7, <3>1
      <3>3. PICK base : base = Ctx'[Depth + 1].base OBVIOUS
      <3>4. cur \in Contexts BY <1>1 DEF Typed
      <3>5. base \in Nat BY <1>8, <2>7, <3>1, <3>3, <3>4, ContextFields
      <3>6. a.addr < base BY <1>8, <3>2, <3>3, <3>5
      <3>7. \A j \in n + 1 .. Len(active) : FALSE BY <1>3, <1>8
      <3>8. DropsBelow(active, n, base) BY <1>8, <3>6, <3>7 DEF DropsBelow
      <3> QED BY <3>3, <3>8
    <2>10. x.op = native[Len(native)].op /\ native[Len(native)].op # "call" BY <1>7, <1>9
    <2>11. StackBelow(b)
      <3>1. x.op = "drop" => /\ x.then = native[Len(native)].then
                             /\ x.busy = Len(active) /\ x.busy # 0
                             /\ DropsBelow(active, x.busy, Ctx'[Depth + 1].base)
                             /\ \A j \in 1 .. Len(native) - 1 :
                                  Dropper(native[j]) => native[j].busy < x.busy
        <4>1. n # 0 BY <1>8
        <4> QED BY <1>3, <1>7, <1>9, <1>10, <2>9, <4>1
      <3> QED BY <1>5, <1>7, <1>9, <2>6, <2>8, <2>10, <3>1, BelowSame
    <2>12. Binds(c) BY <1>12 DEF Binds
    <2>13. native' = Append(b, c) BY <1>12, <2>1 DEF EnterCall, Settle
    <2>14. PICK m, l : m = native' /\ l = Len(native) OBVIOUS
    <2>15. /\ l \in Nat /\ l >= 1 /\ DOMAIN native = 1 .. l /\ DOMAIN m = 1 .. l + 1
           /\ \A j \in 1 .. l - 1 : m[j] = native[j]
           /\ m[l] = x /\ m[l + 1] = c /\ native[l] = d
      <3>1. /\ l \in Nat /\ l >= 1 /\ DOMAIN native = 1 .. l
            /\ Len(b) = l /\ b[l] = x
            /\ \A j \in 1 .. l - 1 : b[j] = native[j]
        <4>1. /\ Len(native) \in Nat /\ Len(native) >= 1 /\ DOMAIN native = 1 .. Len(native)
              /\ Len(b) = Len(native) /\ b[Len(native)] = x
              /\ \A j \in 1 .. Len(native) - 1 : b[j] = native[j]
          BY <1>1, <1>5, <1>7, TopIs
        <4> QED BY <2>14, <4>1
      <3>2. PICK S : b \in Seq(S) BY <2>11 DEF StackBelow
      <3>3. m = Append(b, c) BY <2>13, <2>14
      <3>4. DOMAIN m = 1 .. l + 1 /\ m[l + 1] = c /\ \A j \in 1 .. l : m[j] = b[j]
        BY ONLY <3>1, <3>2, <3>3
      <3>5. l \in 1 .. l /\ \A j \in 1 .. l - 1 : j \in 1 .. l BY <3>1
      <3> QED BY <1>7, <2>14, <3>1, <3>4, <3>5
    <2>16. \A j \in DOMAIN m : \/ j \in 1 .. l - 1 /\ j \in DOMAIN native /\ m[j] = native[j]
                               \/ m[j] = x /\ j = l
                               \/ m[j] = c
      <3> TAKE j \in DOMAIN m
      <3>1. j \in 1 .. l + 1 BY <2>15
      <3>2. (j \in 1 .. l - 1 /\ j \in 1 .. l) \/ j = l \/ j = l + 1 BY ONLY <2>15, <3>1
      <3> QED BY <2>15, <3>2
    <2>17. ~Dropper(d) /\ Dropper(x) /\ ~Dropper(c) /\ x.busy = n
      <3>1. d.busy = 0 BY <1>6 DEF Dropping
      <3>2. n # 0 BY <1>8
      <3> QED BY <1>9, <1>12, <3>1, <3>2 DEF Dropper
    <2>18. ~BeingDropped(native, n)
      <3> SUFFICES ASSUME NEW j \in DOMAIN native, Dropper(native[j]), native[j].busy = n PROVE FALSE
        BY DEF BeingDropped
      <3>1. j # l /\ j \in 1 .. l BY <2>15, <2>17
      <3>2. j \in 1 .. l - 1 BY ONLY <2>15, <3>1
      <3>3. n < n BY <1>10, <2>14, <3>2
      <3> QED BY <1>8, <3>3
    <2>19. \A q : BeingDropped(m, q) <=> BeingDropped(native, q) \/ q = n
      <3> TAKE q
      <3>1. ASSUME BeingDropped(m, q) PROVE BeingDropped(native, q) \/ q = n
        BY <2>16, <2>17, <3>1 DEF BeingDropped
      <3>2. ASSUME BeingDropped(native, q) PROVE BeingDropped(m, q)
        <4>1. PICK j \in DOMAIN native : Dropper(native[j]) /\ native[j].busy = q
          BY <3>2 DEF BeingDropped
        <4>2. j # l /\ j \in 1 .. l BY <2>15, <2>17, <4>1
        <4>3. j \in 1 .. l - 1 /\ j \in 1 .. l + 1 BY ONLY <2>15, <4>2
        <4>4. j \in DOMAIN m /\ m[j] = native[j] BY <2>15, <4>3
        <4> QED BY <4>1, <4>4 DEF BeingDropped
      <3>3. ASSUME q = n PROVE BeingDropped(m, q)
        <4>1. l \in DOMAIN m BY <2>15
        <4> QED BY <2>15, <2>17, <3>3, <4>1 DEF BeingDropped
      <3> QED BY <3>1, <3>2, <3>3
    <2>20. \A j \in DOMAIN m : m[j].op = "make" => j \in DOMAIN native /\ m[j] = native[j]
      BY <1>9, <1>12, <2>16
    <2>21. Listing' /\ Unique' /\ Counted'
      <3>1. /\ \A q : BeingDropped(native', q) <=> BeingDropped(native, q) \/ q = n
            /\ \A j \in DOMAIN native' :
                 native'[j].op = "make" => j \in DOMAIN native /\ native'[j] = native[j]
        BY <2>14, <2>19, <2>20
      <3> QED BY <1>1, <1>14, <2>3, <2>4, <2>18, <3>1, DropStarts
    <2>22. implicit \in BOOLEAN BY <1>1 DEF Inv, NativeOK
    <2>23. CallOK(c)'
      <3>1. ValueOK(c.copy)' /\ c.fun \in Callables /\ c.depth \in Nat
        BY <1>11, <1>12, <1>16, CallableFields
      <3> QED BY <1>12, <2>22, <3>1 DEF CallOK
    <2>24. missed' \in BOOLEAN BY <1>1, <2>4 DEF Typed
    <2>25. /\ b # <<>> /\ b[Len(b)].op # "call" => c.by # "code"
           /\ (\E j \in DOMAIN b : Binds(b[j])) => Binds(c)
      BY <1>12, <2>12
    <2>26. active' = active /\ status' = status /\ scopes' = scopes BY <1>6
    <2> QED BY <1>7, <1>13, <1>15, <1>17, <1>18, <1>19, <1>23, <2>1, <2>2, <2>11, <2>21, <2>23,
               <2>24, <2>25, <2>26, EnterKeeps
  <1> QED BY <1>22, <1>23
-----------------------------------------------------------------------------
(* The end of a return.                                                    *)

(* The caller goes on where it was, perhaps with one value more.           *)
LEMMA ReturnedTo ==
  ASSUME DInv, RestoreData
  PROVE  /\ Depth \in Nat /\ Depth >= 2 /\ Len(frames) = Depth - 1
         /\ Depth' = Depth - 1 /\ Len(frames') = Depth - 2 /\ Ctx'[Depth - 1] = cur'
         /\ cur' \in Contexts /\ frames' \in Seq(Contexts) /\ Depth - 1 \in 1 .. MaxDepth
         /\ \A j \in 1 .. Depth - 1 : Alike(Ctx[j], Ctx'[j]) /\ Laid(j, Ctx'[j])
         /\ \A j \in 1 .. Depth - 2 : Ctx'[j] = Ctx[j]
PROOF
  <1>1. Inv /\ Typed /\ Windows /\ Waiting BY DEF DInv
  <1>2. /\ DropsDone("return") /\ frames' = Front(frames)
        /\ cur' = [Last(frames) EXCEPT !.top = IF cur.code.by = "code" THEN @ + 1 ELSE @]
    BY DEF RestoreData
  <1>3. DropsIn(native[Len(native)], cur) /\ native[Len(native)].then = "return"
    BY <1>2, DropsDoneFacts
  <1>4. cur.code.at = "leaving" BY <1>3 DEF DropsIn
  <1>5. /\ cur \in Contexts /\ Laid(Depth, cur) BY <1>1, LaidHere
  <1>6. /\ Len(frames) \in Nat /\ Depth \in Nat /\ Depth = Len(frames) + 1
        /\ Depth \in 1 .. MaxDepth + 1 /\ Ctx[Depth] = cur /\ MaxDepth \in Nat
        /\ \A j \in 1 .. Depth : Ctx[j] \in Contexts
    BY <1>1, TheContexts, Sizes
  <1>7. Depth # 1 BY <1>4, <1>5 DEF Laid
  <1>8. PICK k : k = Depth - 1 OBVIOUS
  <1>9. /\ k \in Nat /\ k >= 1 /\ k = Len(frames) /\ k <= MaxDepth /\ Depth = k + 1
        /\ k \in 1 .. Len(frames) /\ k \in 1 .. Depth /\ k \in 1 .. MaxDepth + 1
    BY <1>6, <1>7, <1>8
  <1>10. frames # <<>> BY <1>9
  <1>11. /\ Len(frames') = k - 1 /\ Depth' = k /\ Ctx'[k] = cur' /\ Ctx[k] = Last(frames)
         /\ \A j \in 1 .. k - 1 : Ctx'[j] = Ctx[j]
         /\ frames' \in Seq(Contexts)
    BY <1>1, <1>2, <1>8, <1>9, <1>10, Restored
  <1>12. PICK x, t : x = Ctx[k] /\ t = (IF cur.code.by = "code" THEN x.top + 1 ELSE x.top)
    OBVIOUS
  <1>13. x \in Contexts /\ Laid(k, x) BY <1>1, <1>6, <1>9, <1>12 DEF Windows
  <1>14. x.top \in Nat /\ t \in Nat
    <2>1. x.top \in Nat BY <1>13, ContextFields
    <2> QED BY <1>12, <2>1
  <1>15. cur' = [x EXCEPT !.top = t] BY <1>2, <1>11, <1>12
  <1>16. PICK y : y = cur' OBVIOUS
  <1>17. y = [x EXCEPT !.top = t] BY <1>15, <1>16
  <1>18. y \in Contexts /\ Alike(x, y) /\ y.top = t
    BY <1>13, <1>14, <1>17, TopMoved
  <1>19. Laid(k, y)
    <2>1. CASE cur.code.by # "code"
      <3>1. t = x.top BY <1>12, <2>1
      <3>2. y = x
        <4>1. x \in [base : Nat, top : Nat, low : Nat, since : Nat, under : Nat,
                     blocks : Seq([at : Nat, since : Nat]),
                     code : [at : Places, fun : Callables \cup {NoFun}, self : 0 .. 1,
                             by : {"code", "make", "drop"}, n : Nat, promised : BOOLEAN]]
          BY <1>13 DEF Contexts
        <4> QED BY <1>17, <3>1, <4>1
      <3> QED BY <1>13, <3>2
    <2>2. CASE cur.code.by = "code"
      <3>1. Waits(k, x, cur) BY <1>1, <1>6, <1>9, <1>12 DEF Waiting
      <3>2. /\ x.code.at \in Running
            /\ x.top < x.low + MaxTemps[k] /\ x.top + 1 < Width /\ t = x.top + 1
        BY <1>12, <2>2, <3>1 DEF Waits
      <3>3. /\ x.low \in Nat /\ MaxTemps[k] \in Nat /\ DOMAIN x.blocks = 1 .. Len(x.blocks)
            /\ \A b \in DOMAIN x.blocks : x.blocks[b].at \in Nat
        BY <1>9, <1>13, ContextFields, Sizes
      <3>4. /\ x.low <= x.top /\ \A b \in DOMAIN x.blocks : x.blocks[b].at <= x.top
        BY <1>13, <3>2 DEF Laid
      <3>5. x.low <= t /\ t <= x.low + MaxTemps[k]
        BY <1>14, <3>2, <3>3, <3>4
      <3>6. \A b \in DOMAIN x.blocks : x.blocks[b].at <= t
        <4> TAKE b \in DOMAIN x.blocks
        <4>1. PICK a, u : a = x.blocks[b].at /\ u = x.top OBVIOUS
        <4>2. a \in Nat /\ u \in Nat /\ a <= u /\ t = u + 1 BY <1>14, <3>2, <3>3, <3>4, <4>1
        <4>3. a <= t BY ONLY <4>2
        <4> QED BY <4>1, <4>3
      <3> QED BY <1>9, <1>13, <1>14, <1>17, <3>2, <3>5, <3>6, TopMoved
    <2> QED BY <2>1, <2>2
  <1>20. ASSUME NEW j \in 1 .. k PROVE Alike(Ctx[j], Ctx'[j]) /\ Laid(j, Ctx'[j])
    <2>1. CASE j = k BY <1>11, <1>12, <1>16, <1>18, <1>19, <2>1
    <2>2. CASE j \in 1 .. k - 1
      <3>1. Ctx'[j] = Ctx[j] /\ j \in 1 .. Depth BY <1>9, <1>11, <2>2
      <3>2. Laid(j, Ctx[j]) BY <1>1, <3>1 DEF Windows
      <3> QED BY <3>1, <3>2 DEF Alike
    <2> QED BY <1>9, <2>1, <2>2
  <1>21. k - 1 = Depth - 2 /\ Depth >= 2 BY <1>9
  <1>22. PICK m : m = Depth - 2 OBVIOUS
  <1>23. m = k - 1 BY <1>21, <1>22
  <1>24. /\ Len(frames') = m /\ \A j \in 1 .. m : Ctx'[j] = Ctx[j] BY <1>11, <1>23
  <1>25. k \in 1 .. MaxDepth BY <1>6, <1>9
  <1> QED BY <1>6, <1>8, <1>9, <1>11, <1>16, <1>18, <1>20, <1>21, <1>22, <1>24, <1>25

(* With the return, the call that executed the callee's code leaves the    *)
(* C++ stack if it was executed by an executeChunk.                        *)
Returns(q) ==
  /\ q \in 0 .. Len(native) - 1
  /\ Len(native') = q /\ DOMAIN native' = 1 .. q
  /\ native' # <<>> => q >= 1
  /\ \A i \in 1 .. q :
       /\ i \in DOMAIN native /\ native'[i] = native[i]
       /\ native[i].op # "call" => native[i].depth \in 1 .. Depth - 1
  /\ q >= 1 /\ Binds(native[q]) => native[q].depth = Depth - 1
  /\ \A i \in q + 1 .. Len(native) : ~Dropper(native[i])
  /\ status # "running" => q >= 1 /\ native' # <<>>

LEMMA ReturnsStack ==
  ASSUME DInv, RestoreData
  PROVE  (\E q : Returns(q)) /\ Written
PROOF
  <1>1. Inv /\ Typed /\ Entries /\ Links /\ Ends BY DEF DInv
  <1>2. /\ DropsDone("return") /\ UNCHANGED heap
        /\ IF implicit
           THEN /\ native' = Front(Front(native))
                /\ regs' = IF Last(Front(native)).self = 1
                           THEN [regs EXCEPT ![Last(frames).base + Last(Front(native)).start - 1]
                                             = Last(Front(native)).copy]
                           ELSE regs
           ELSE native' = Front(native) /\ UNCHANGED regs
    BY DEF RestoreData
  <1>3. PICK l, d : l = Len(native) /\ d = native[Len(native)] OBVIOUS
  <1>4. native # <<>> /\ l \in DOMAIN native /\ d.op = "drop" /\ d.then = "return" /\ ~Dropper(d)
        /\ d.depth = Depth
    BY <1>2, <1>3, DropsDoneFacts
  <1>5. PICK S : native \in Seq(S) BY <1>1, TheNative
  <1>6. l \in Nat /\ l >= 1 /\ DOMAIN native = 1 .. l /\ d = native[l] BY <1>3, <1>4, <1>5
  <1>7. PICK f : f = Front(native) OBVIOUS
  <1>8. f \in Seq(S) /\ Len(f) = l - 1 /\ \A i \in 1 .. l - 1 : f[i] = native[i]
    <2>1. f \in Seq(S) /\ Len(f) = l - 1 BY <1>3, <1>4, <1>5, <1>7, FrontIsSeq
    <2>2. \A i \in 1 .. l - 1 : f[i] = native[i] BY <1>3, <1>5, <1>7, FrontAt
    <2> QED BY <2>1, <2>2
  <1>9. \A i \in 1 .. l - 1 : native[i].op # "call" => native[i].depth \in 1 .. Depth - 1
    <2>1. Len(frames) = Depth - 1 BY ReturnedTo
    <2>2. native[Len(native)].op # "call" BY <1>3, <1>4
    <2>3. \A i \in 1 .. Len(native) - 1 : native[i].op # "call" => native[i].depth \in 1 .. Len(frames)
      BY <1>4, <2>2, BelowTop
    <2> QED BY <1>3, <2>1, <2>3
  <1>10. /\ l > 1 => /\ native[l - 1].op = "call"
                     /\ Binds(native[l - 1]) => native[l - 1].depth = Depth
         /\ \A i \in 1 .. l - 1 : Binds(native[i]) => l > 1 /\ Binds(native[l - 1])
    <2>1. native[Len(native)].op # "call" BY <1>3, <1>4
    <2>2. l > 1 => /\ native[l - 1].op = "call"
                   /\ Binds(native[l - 1]) => native[l - 1].depth = Depth
      BY <1>3, <1>4, <2>1, BelowTop
    <2>3. ASSUME NEW i \in 1 .. l - 1, Binds(native[i]) PROVE l > 1 /\ Binds(native[l - 1])
      <3>1. l > 1 /\ l - 1 \in DOMAIN native /\ i \in DOMAIN native BY <1>6
      <3>2. i = l - 1 \/ i < l - 1 BY <1>6
      <3> QED BY <1>1, <2>3, <3>1, <3>2 DEF Links
    <2> QED BY <2>2, <2>3
  <1>11. implicit <=> \E i \in 1 .. l : ImplicitCall(native[i])
    BY <1>1, <1>3 DEF Inv, NativeOK
  <1>12. CASE ~implicit
    <2>1. native' = f /\ regs' = regs BY <1>2, <1>7, <1>12
    <2>2. Written BY <2>1, Unwritten
    <2>3. \A i \in 1 .. l - 1 : ~Binds(native[i])
      <3> SUFFICES ASSUME NEW i \in 1 .. l - 1, Binds(native[i]) PROVE FALSE OBVIOUS
      <3>1. PICK e : e = l - 1 OBVIOUS
      <3>2. e \in 1 .. l /\ e \in 1 .. Len(native) /\ Binds(native[e]) /\ native[e].op = "call"
        BY <1>3, <1>6, <1>10, <3>1
      <3>3. EntryOK(native, e) BY <1>1, <3>2 DEF Inv, NativeOK
      <3>4. native[e].was <=> \E j \in 1 .. e - 1 : ImplicitCall(native[j])
        BY <3>2, <3>3 DEF EntryOK
      <3>5. ~ImplicitCall(native[e]) BY <1>11, <1>12, <3>2
      <3>6. native[e].was BY <3>2, <3>5 DEF Binds, ImplicitCall
      <3>7. PICK j \in 1 .. e - 1 : ImplicitCall(native[j]) BY <3>4, <3>6
      <3>8. j \in 1 .. l BY <1>6, <3>2, <3>7
      <3> QED BY <1>11, <1>12, <3>7, <3>8
    <2>4. status = "running"
      <3> SUFFICES ASSUME status # "running" PROVE FALSE OBVIOUS
      <3>1. native[1].op = "drop" /\ native[1].then \in {"clear", "destroy"} BY <1>1, <1>4 DEF Ends
      <3>2. l # 1 BY <1>4, <1>6, <3>1
      <3>3. 1 \in 1 .. l - 1 BY <1>6, <3>2
      <3> QED BY <2>3, <3>1, <3>3 DEF Binds
    <2>5. PICK q : q = l - 1 OBVIOUS
    <2>6. q \in 0 .. Len(native) - 1 /\ q \in Nat /\ q + 1 = l BY <1>3, <1>6, <2>5
    <2>7. Len(f) = q /\ DOMAIN f = 1 .. q /\ (f # <<>> => q >= 1) BY <1>8, <2>5, <2>6
    <2>8. \A i \in 1 .. q : i \in DOMAIN native /\ f[i] = native[i] /\ ~Binds(native[i])
                            /\ (native[i].op # "call" => native[i].depth \in 1 .. Depth - 1)
      <3>1. \A i \in 1 .. q : i \in 1 .. l BY <2>6
      <3> QED BY <1>6, <1>8, <1>9, <2>3, <2>5, <3>1
    <2>9. q >= 1 => ~Binds(native[q])
      <3>1. q >= 1 => q \in 1 .. q BY <2>6
      <3> QED BY <2>8, <3>1
    <2>10. \A i \in q + 1 .. Len(native) : i = l BY <1>3, <2>6
    <2>11. \A i \in q + 1 .. Len(native) : ~Dropper(native[i]) BY <1>4, <1>6, <2>10
    <2>12. Returns(q) BY <2>1, <2>4, <2>6, <2>7, <2>8, <2>9, <2>11 DEF Returns
    <2> QED BY <2>2, <2>12
  <1>13. CASE implicit
    <2>1. PICK e : e = l - 1 OBVIOUS
    <2>2. PICK i \in 1 .. l : ImplicitCall(native[i]) BY <1>11, <1>13
    <2>3. i # l BY <1>4, <1>6, <2>2 DEF ImplicitCall
    <2>4. i \in 1 .. l - 1 /\ Binds(native[i]) BY <1>6, <2>2, <2>3 DEF ImplicitCall, Binds
    <2>5. /\ l > 1 /\ e \in Nat /\ e >= 1 /\ e + 1 = l /\ e \in DOMAIN native /\ e \in 1 .. l - 1
          /\ native[e].op = "call" /\ Binds(native[e]) /\ native[e].depth = Depth
      BY <1>6, <1>10, <2>1, <2>4
    <2>6. PICK g : g = Front(f) OBVIOUS
    <2>7. f # <<>> /\ Last(f) = native[e]
      <3>1. Len(f) = e BY <1>8, <2>1
      <3>2. f # <<>> BY <1>8, <2>5, <3>1
      <3>3. Last(f) = f[e] BY <3>1 DEF Last
      <3> QED BY <1>8, <2>5, <3>2, <3>3
    <2>8. g \in Seq(S) /\ Len(g) = e - 1 /\ \A j \in 1 .. e - 1 : g[j] = native[j]
      <3>1. g \in Seq(S) /\ Len(g) = Len(f) - 1 BY <1>8, <2>6, <2>7, FrontIsSeq
      <3>2. \A j \in 1 .. Len(f) - 1 : g[j] = f[j] BY <1>8, <2>6, FrontAt
      <3>3. Len(f) = e BY <1>8, <2>1
      <3>4. \A j \in 1 .. e - 1 : j \in 1 .. l - 1 BY <2>5
      <3> QED BY <1>8, <3>1, <3>2, <3>3, <3>4
    <2>9. native' = g BY <1>2, <1>7, <1>13, <2>6
    <2>10. Written
      <3>1. PICK c, v : c = native[e] /\ v = c.copy OBVIOUS
      <3>2. NativeEntry(c) /\ c.op = "call" BY <1>1, <2>5, <3>1 DEF Entries
      <3>3. ValueOK(v) BY <3>1, <3>2, EntryOps DEF CallOK
      <3>4. HeapGrows BY <1>1, <1>2, HeapStays
      <3>5. ValueOK(v)' BY <3>3, <3>4, ValueKept
      <3>6. \/ regs' = regs
            \/ regs' = [regs EXCEPT ![Last(frames).base + Last(f).start - 1] = v]
        BY <1>2, <1>7, <1>13, <2>7, <3>1
      <3> QED BY <3>5, <3>6, Unwritten, Writes
    <2>11. PICK q : q = e - 1 OBVIOUS
    <2>12. q \in 0 .. Len(native) - 1 /\ q \in Nat /\ q + 1 = e /\ e + 1 = l
      BY <1>3, <1>6, <2>5, <2>11
    <2>13. Len(g) = q /\ DOMAIN g = 1 .. q /\ (g # <<>> => q >= 1) /\ (q >= 1 => g # <<>>)
      BY <2>8, <2>11, <2>12
    <2>14. \A j \in 1 .. q : j \in DOMAIN native /\ g[j] = native[j]
                             /\ (native[j].op # "call" => native[j].depth \in 1 .. Depth - 1)
      <3>1. \A j \in 1 .. q : j \in 1 .. l /\ j \in 1 .. l - 1 BY <2>12
      <3> QED BY <1>6, <1>9, <2>8, <2>11, <3>1
    <2>15. q >= 1 /\ Binds(native[q]) => native[q].depth = Depth - 1
      <3> HAVE q >= 1 /\ Binds(native[q])
      <3>1. q \in 1 .. Len(native) - 1 /\ q \in DOMAIN native BY <1>3, <1>6, <2>12
      <3>2. Linked(native[q], native[e]) BY <1>1, <2>12, <3>1 DEF Links
      <3>3. native[e].depth = native[q].depth + 1 BY <2>5, <3>2 DEF Linked
      <3>4. NativeEntry(native[q]) BY <1>1, <3>1 DEF Entries
      <3>5. PICK a, b : a = native[q].depth /\ b = Depth OBVIOUS
      <3>6. a \in Int /\ b = a + 1 BY <2>5, <3>3, <3>4, <3>5, EntryOps
      <3>7. a = b - 1 BY ONLY <3>6
      <3> QED BY <3>5, <3>7
    <2>16. \A j \in q + 1 .. Len(native) : j = e \/ j = l BY <1>3, <2>12
    <2>17. \A j \in q + 1 .. Len(native) : ~Dropper(native[j])
      <3>1. ~Dropper(native[e]) BY <2>5 DEF Dropper
      <3> QED BY <1>4, <1>6, <2>16, <3>1
    <2>18. status # "running" => q >= 1
      <3> HAVE status # "running"
      <3>1. native[1].op = "drop" /\ native[1].then \in {"clear", "destroy"} BY <1>1, <1>4 DEF Ends
      <3>2. l # 1 /\ e # 1 BY <1>4, <1>6, <2>5, <3>1
      <3> QED BY <2>5, <2>12, <3>2
    <2>19. Returns(q)
      BY <2>9, <2>12, <2>13, <2>14, <2>15, <2>17, <2>18 DEF Returns
    <2> QED BY <2>10, <2>19
  <1> QED BY <1>12, <1>13

(* What a return does to the windows, the fences and the scopes: what lay  *)
(* in the callee's window has been dropped, and lies in the caller's.      *)
LEMMA ReturnedWindows ==
  ASSUME DInv, RestoreData
  PROVE  Windows' /\ Waiting'
PROOF
  <1>1. Typed /\ Windows /\ Waiting BY DEF DInv
  <1>2. PICK k : k = Depth - 1 OBVIOUS
  <1>3. /\ Depth \in Nat /\ Depth >= 2 /\ Len(frames) = k /\ k \in Nat /\ k >= 1 /\ Depth = k + 1
        /\ Depth' = k /\ Len(frames') = k - 1
        /\ \A j \in 1 .. k : Alike(Ctx[j], Ctx'[j]) /\ Laid(j, Ctx'[j])
        /\ \A j \in 1 .. k - 1 : Ctx'[j] = Ctx[j]
    <2>1. /\ Depth \in Nat /\ Depth >= 2 /\ Len(frames) = Depth - 1
          /\ Depth' = Depth - 1 /\ Len(frames') = Depth - 2
          /\ \A j \in 1 .. Depth - 1 : Alike(Ctx[j], Ctx'[j]) /\ Laid(j, Ctx'[j])
          /\ \A j \in 1 .. Depth - 2 : Ctx'[j] = Ctx[j]
      BY ReturnedTo
    <2>2. k - 1 = Depth - 2 BY <1>2, <2>1
    <2>3. k \in Nat /\ k >= 1 /\ Depth = k + 1 BY <1>2, <2>1
    <2>4. \A j \in 1 .. k - 1 : Ctx'[j] = Ctx[j] BY <2>1, <2>2
    <2> QED BY <1>2, <2>1, <2>2, <2>3, <2>4
  <1>4. \A j \in 1 .. k : /\ Ctx'[j].base = Ctx[j].base /\ Ctx'[j].blocks = Ctx[j].blocks
                          /\ Ctx'[j].code = Ctx[j].code
    BY <1>3 DEF Alike
  <1>5. 1 \in 1 .. k /\ \A j \in 1 .. k : j \in 1 .. Depth BY <1>3
  <1>6. \A j \in 2 .. k : j \in 1 .. k /\ j \in 2 .. Depth BY <1>3
  <1>7. status' = status /\ status \notin {"over", "aborted"}
    <2>1. DropsDone("return") /\ status' = status BY DEF RestoreData
    <2> QED BY <2>1, DropsDoneFacts
  <1>8. Windows'
    <2>1. \A j \in 1 .. k : Ctx'[j].base <= Ctx'[1].base + (j - 1) * Width
      BY <1>1, <1>4, <1>5 DEF Windows
    <2>2. \A j \in 2 .. k : Ctx'[j].base >= 1 BY <1>1, <1>4, <1>6 DEF Windows
    <2>3. \A j, m \in 1 .. k : j < m =>
            /\ Ctx'[j].base <= Ctx'[m].base
            /\ \A b \in DOMAIN Ctx'[j].blocks : Ctx'[j].base + Ctx'[j].blocks[b].at <= Ctx'[m].base
      <3> SUFFICES ASSUME NEW j \in 1 .. k, NEW m \in 1 .. k, j < m
                   PROVE  /\ Ctx'[j].base <= Ctx'[m].base
                          /\ \A b \in DOMAIN Ctx'[j].blocks :
                               Ctx'[j].base + Ctx'[j].blocks[b].at <= Ctx'[m].base
        OBVIOUS
      <3>1. /\ Ctx[j].base <= Ctx[m].base
            /\ \A b \in DOMAIN Ctx[j].blocks : Ctx[j].base + Ctx[j].blocks[b].at <= Ctx[m].base
        BY <1>1, <1>5 DEF Windows
      <3> QED BY <1>4, <3>1
    <2>4. /\ status' = "running" => Ctx'[1].base = 0
          /\ status' \in {"clearing", "destroying"} => Ctx'[1].base <= MaxDepth * Width
          /\ status' # "running" => Ctx'[1].blocks = <<>>
      BY <1>1, <1>4, <1>5, <1>7 DEF Windows
    <2>5. \A j \in 1 .. k : Laid(j, Ctx'[j]) BY <1>3
    <2>6. status' \notin {"over", "aborted"} BY <1>7
    <2> QED BY <1>3, <2>1, <2>2, <2>3, <2>4, <2>5, <2>6 DEF Windows
  <1>9. Waiting'
    <2>1. ASSUME NEW j \in 1 .. k - 1 PROVE Waits(j, Ctx'[j], Ctx'[j + 1])
      <3>1. j \in 1 .. Len(frames) /\ j + 1 \in 1 .. k BY <1>3
      <3>2. Waits(j, Ctx[j], Ctx[j + 1]) BY <1>1, <3>1 DEF Waiting
      <3>3. Ctx'[j] = Ctx[j] /\ Ctx'[j + 1].base = Ctx[j + 1].base /\ Ctx'[j + 1].code = Ctx[j + 1].code
        BY <1>3, <1>4, <3>1
      <3> QED BY <3>2, <3>3 DEF Waits
    <2> QED BY <1>3, <2>1 DEF Waiting
  <1> QED BY <1>8, <1>9

LEMMA ReturnedFences ==
  ASSUME DInv, RestoreData
  PROVE  Fenced' /\ Near' /\ Scoped'
PROOF
  <1>1. Inv /\ Typed /\ Windows /\ Fenced /\ Near /\ Scoped BY DEF DInv
  <1>2. PICK k : k = Depth - 1 OBVIOUS
  <1>3. /\ Depth \in Nat /\ Depth >= 2 /\ Len(frames) = k /\ k \in Nat /\ k >= 1 /\ Depth = k + 1
        /\ Depth' = k /\ Len(frames') = k - 1 /\ Ctx'[k] = cur'
        /\ \A j \in 1 .. k : Alike(Ctx[j], Ctx'[j])
    <2>1. /\ Depth \in Nat /\ Depth >= 2 /\ Len(frames) = Depth - 1
          /\ Depth' = Depth - 1 /\ Len(frames') = Depth - 2 /\ Ctx'[Depth - 1] = cur'
          /\ \A j \in 1 .. Depth - 1 : Alike(Ctx[j], Ctx'[j])
      BY ReturnedTo
    <2>2. k - 1 = Depth - 2 BY <1>2, <2>1
    <2>3. k \in Nat /\ k >= 1 /\ Depth = k + 1 BY <1>2, <2>1
    <2> QED BY <1>2, <2>1, <2>2, <2>3
  <1>4. \A j \in 1 .. k : /\ Ctx'[j].base = Ctx[j].base /\ Ctx'[j].blocks = Ctx[j].blocks
                          /\ Ctx'[j].since = Ctx[j].since /\ Ctx'[j].under = Ctx[j].under
    BY <1>3 DEF Alike
  <1>5. /\ k \in 1 .. k /\ 1 \in 1 .. k /\ \A j \in 1 .. k : j \in 1 .. Depth /\ k < Depth
        /\ \A j \in 2 .. k : j \in 1 .. k /\ j \in 2 .. Depth
        /\ Depth \in 2 .. Depth /\ Depth \in 1 .. Depth
    BY <1>3
  <1>6. active' = active /\ scopes' = scopes /\ DropsDone("return") BY DEF RestoreData
  <1>7. Ctx[Depth] = cur /\ cur \in Contexts /\ Ctx[k] \in Contexts BY <1>1, <1>5, TheContexts
  <1>8. active # <<>> => ~(Last(active).addr >= cur.base)
    <2>1. /\ native[Len(native)].then = "return" /\ ~Dropping(native[Len(native)])
          /\ DropsIn(native[Len(native)], cur) /\ native[Len(native)].busy = 0
      BY <1>6, DropsDoneFacts
    <2>2. native[Len(native)].limit = cur.base BY <2>1 DEF DropsIn
    <2> QED BY <2>1, <2>2 DEF Dropping
  <1>9. Fenced'
    <2>1. \A j \in 2 .. k : Fence(active', Ctx'[j].base, Ctx'[j].since)
      BY <1>1, <1>4, <1>5, <1>6 DEF Fenced
    <2>2. \A j \in 1 .. k : FencedIn(active', Ctx'[j])
      <3> TAKE j \in 1 .. k
      <3>1. FencedIn(active, Ctx[j]) BY <1>1, <1>5 DEF Fenced
      <3> QED BY <1>4, <1>6, <3>1 DEF FencedIn
    <2> QED BY <1>3, <2>1, <2>2 DEF Fenced
  <1>10. Near'
    <2>1. ASSUME NEW j \in DOMAIN active PROVE active[j].addr + 1 < cur'.base + Width
      <3>1. active \in Seq([addr : 0 .. NumRegs - 1, id : Nat]) BY <1>1 DEF Typed
      <3>2. PICK S : S = [addr : 0 .. NumRegs - 1, id : Nat] OBVIOUS
      <3>3. active \in Seq(S) BY <3>1, <3>2
      <3>4. PICK n : n = Len(active) OBVIOUS
      <3>5. n \in Nat /\ DOMAIN active = 1 .. n /\ j \in 1 .. n /\ n \in j .. n /\ n \in 1 .. n
            /\ active # <<>>
        BY <3>3, <3>4
      <3>6. Last(active) = active[n] /\ active[n] \in S BY <3>3, <3>4, <3>5 DEF Last
      <3>7. active[n].addr \in Nat /\ cur.base \in Nat
        <4>1. NumRegs \in Nat BY Sizes
        <4> QED BY <1>7, <3>2, <3>6, <4>1, ContextFields
      <3>8. active[n].addr < cur.base BY <1>8, <3>5, <3>6, <3>7
      <3>9. NearTo(active, Ctx[k].base, Ctx[k + 1].base) BY <1>1, <1>3, <1>5 DEF Near
      <3>10. NearTo(active, Ctx[k].base, cur.base) BY <1>3, <1>7, <3>9
      <3>11. active[j].addr + 1 < Ctx[k].base + Width
        BY <3>4, <3>5, <3>8, <3>10 DEF NearTo
      <3> QED BY <1>3, <1>4, <1>5, <3>11
    <2>2. \A j \in 1 .. k - 1 : NearTo(active, Ctx'[j].base, Ctx'[j + 1].base)
      <3> TAKE j \in 1 .. k - 1
      <3>1. j \in 1 .. Len(frames) /\ j \in 1 .. k /\ j + 1 \in 1 .. k BY <1>3
      <3>2. NearTo(active, Ctx[j].base, Ctx[j + 1].base) BY <1>1, <3>1 DEF Near
      <3> QED BY <1>4, <3>1, <3>2
    <2> QED BY <1>3, <1>6, <2>1, <2>2 DEF Near
  <1>11. Scoped'
    <2>1. Ctx'[1].under = 0 BY <1>1, <1>4, <1>5 DEF Scoped
    <2>2. \A j \in 2 .. k : \A p \in Ctx'[j].under + 1 .. Len(scopes) : scopes[p] >= Ctx'[j].base
      BY <1>1, <1>4, <1>5 DEF Scoped
    <2>3. \A j, m \in 1 .. k : j < m => Ctx'[j].under <= Ctx'[m].under
      BY <1>1, <1>4, <1>5 DEF Scoped
    <2>4. ASSUME NEW j \in 1 .. k - 1 PROVE StartsIn(scopes', Ctx'[j], Ceiling(j)')
      <3>1. j \in 1 .. k /\ j + 1 \in 1 .. k /\ j \in 1 .. Depth /\ j # k /\ j # Depth BY <1>3
      <3>2. StartsIn(scopes, Ctx[j], Ceiling(j)) BY <1>1, <3>1 DEF Scoped
      <3>3. Ceiling(j) = Ctx[j + 1].under BY <3>1 DEF Ceiling
      <3>4. Ceiling(j)' = Ctx'[j + 1].under BY <1>3, <3>1 DEF Ceiling
      <3>5. Ceiling(j)' = Ceiling(j) BY <1>4, <3>1, <3>3, <3>4
      <3> QED BY <1>4, <1>6, <3>1, <3>2, <3>5 DEF StartsIn
    <2>5. StartsIn(scopes', Ctx'[k], Ceiling(k)')
      <3>1. PICK o, u, x, s, n, base :
              o = Len(scopes) /\ u = cur.under /\ x = Ctx[k] /\ s = scopes /\ n = Len(x.blocks)
              /\ base = cur.base
        OBVIOUS
      <3>2. StartsIn(s, x, u)
        <4>1. k \in 1 .. Depth /\ k # Depth BY <1>3
        <4>2. Ceiling(k) = u BY <1>3, <1>7, <3>1, <4>1 DEF Ceiling
        <4> QED BY <1>1, <3>1, <4>1, <4>2 DEF Scoped
      <3>3. /\ o \in Nat /\ u \in Nat /\ n \in Nat /\ x.under \in Nat /\ base \in Nat /\ x.base \in Nat
            /\ \A b \in 1 .. n : x.blocks[b].at \in Nat /\ b \in DOMAIN x.blocks
        <4>1. /\ u \in Nat /\ base \in Nat BY <1>7, <3>1, ContextFields
        <4>2. /\ n \in Nat /\ x.under \in Nat /\ x.base \in Nat
              /\ \A b \in 1 .. n : x.blocks[b].at \in Nat /\ b \in DOMAIN x.blocks
          <5>1. x \in Contexts /\ n = Len(x.blocks) BY <1>7, <3>1
          <5> QED BY <5>1, ContextFields
        <4> QED BY <1>1, <3>1, <4>1, <4>2 DEF Typed
      <3>4. /\ x.under + n <= u /\ u <= o
            /\ \A b \in 1 .. n : \A p \in u - (n - b) .. u : s[p] >= x.base + x.blocks[b].at
        BY <3>1, <3>2 DEF StartsIn
      <3>5. \A p \in u + 1 .. o : s[p] >= base /\ s[p] \in Nat
        <4> TAKE p \in u + 1 .. o
        <4>1. s[p] >= base BY <1>1, <1>5, <1>7, <3>1 DEF Scoped
        <4>2. p \in 1 .. o BY <3>3
        <4>3. scopes \in Seq(0 .. NumRegs - 1) /\ NumRegs \in Nat BY <1>1, Sizes DEF Typed
        <4> QED BY <3>1, <4>1, <4>2, <4>3
      <3>6. \A b \in 1 .. n : x.base + x.blocks[b].at <= base
        BY <1>1, <1>5, <1>7, <3>1, <3>3 DEF Windows
      <3>7. ASSUME NEW b \in 1 .. n, NEW p \in o - (n - b) .. o
            PROVE  s[p] >= x.base + x.blocks[b].at
        <4>1. CASE p \in u + 1 .. o
          <5>1. PICK a, v : a = x.base + x.blocks[b].at /\ v = s[p] OBVIOUS
          <5>2. a \in Nat /\ v \in Nat /\ v >= base /\ a <= base BY <3>3, <3>5, <3>6, <4>1, <5>1
          <5>3. v >= a BY ONLY <3>3, <5>2
          <5> QED BY <5>1, <5>3
        <4>2. CASE p \notin u + 1 .. o
          <5>1. p \in u - (n - b) .. u BY ONLY <3>3, <3>4, <4>2
          <5> QED BY <3>4, <5>1
        <4> QED BY <4>1, <4>2
      <3>8. x.under + n <= o /\ o <= o BY ONLY <3>3, <3>4
      <3>9. StartsIn(s, x, o) BY <3>1, <3>7, <3>8 DEF StartsIn
      <3>10. Ceiling(k)' = o BY <1>3, <1>6, <3>1 DEF Ceiling
      <3> QED BY <1>4, <1>5, <1>6, <3>1, <3>9, <3>10 DEF StartsIn
    <2>6. \A j \in 1 .. k : StartsIn(scopes', Ctx'[j], Ceiling(j)')
      <3> TAKE j \in 1 .. k
      <3>1. j = k \/ j \in 1 .. k - 1 BY <1>3
      <3> QED BY <2>4, <2>5, <3>1
    <2> QED BY <1>3, <1>6, <2>1, <2>2, <2>3, <2>6 DEF Scoped
  <1> QED BY <1>9, <1>10, <1>11

LEMMA RestoreDataKeeps ==
  ASSUME DInv, RestoreData
  PROVE  DInv'
PROOF
  <1>1. /\ Inv /\ Typed /\ Windows /\ Entries /\ Links /\ Ends /\ Listing
        /\ Busy /\ Unique /\ Counted
    BY DEF DInv
  <1>2. /\ DropsDone("return") /\ UNCHANGED <<args, scopes, active, heap, status, missed>>
    BY DEF RestoreData
  <1>3. Inv' BY <1>1, DropSteps
  <1>4. PICK k : k = Depth - 1 OBVIOUS
  <1>5. /\ Depth \in Nat /\ Depth >= 2 /\ Len(frames) = k /\ k \in Nat /\ k >= 1 /\ Depth = k + 1
        /\ Depth' = k /\ Len(frames') = k - 1 /\ k <= MaxDepth /\ MaxDepth \in Nat
        /\ cur' \in Contexts /\ frames' \in Seq(Contexts)
        /\ \A j \in 1 .. k : Alike(Ctx[j], Ctx'[j])
    <2>1. /\ Depth \in Nat /\ Depth >= 2 /\ Len(frames) = Depth - 1
          /\ Depth' = Depth - 1 /\ Len(frames') = Depth - 2 /\ Depth - 1 \in 1 .. MaxDepth
          /\ cur' \in Contexts /\ frames' \in Seq(Contexts)
          /\ \A j \in 1 .. Depth - 1 : Alike(Ctx[j], Ctx'[j])
      BY ReturnedTo
    <2>2. k - 1 = Depth - 2 BY <1>4, <2>1
    <2>3. k \in Nat /\ k >= 1 /\ Depth = k + 1 BY <1>4, <2>1
    <2>4. k <= MaxDepth /\ MaxDepth \in Nat BY <1>4, <2>1, Sizes
    <2> QED BY <1>4, <2>1, <2>2, <2>3, <2>4
  <1>6. \A j \in 1 .. k : Ctx'[j].base = Ctx[j].base BY <1>5 DEF Alike
  <1>7. Written /\ \E q : Returns(q) BY ReturnsStack
  <1>8. PICK q : Returns(q) BY <1>7
  <1>9. /\ q \in 0 .. Len(native) - 1
        /\ Len(native') = q /\ DOMAIN native' = 1 .. q
        /\ native' # <<>> => q >= 1
        /\ \A i \in 1 .. q :
             /\ i \in DOMAIN native /\ native'[i] = native[i]
             /\ native[i].op # "call" => native[i].depth \in 1 .. k
        /\ q >= 1 /\ Binds(native[q]) => native[q].depth = k
        /\ \A i \in q + 1 .. Len(native) : ~Dropper(native[i])
        /\ status # "running" => q >= 1 /\ native' # <<>>
    BY <1>4, <1>8 DEF Returns
  <1>10. Len(native) \in Nat /\ DOMAIN native = 1 .. Len(native) /\ q \in Nat /\ q < Len(native)
    <2>1. Len(native) \in Nat /\ DOMAIN native = 1 .. Len(native) BY <1>1, TheNative
    <2> QED BY <1>9, <2>1
  <1>11. \A i \in DOMAIN native' : i \in 1 .. q /\ i \in DOMAIN native /\ native'[i] = native[i]
    BY <1>9
  <1>12. HeapGrows /\ NoneEnds /\ insts' = insts BY <1>1, <1>2, HeapStays DEF heap
  <1>13. Typed'
    <2>1. /\ DOMAIN regs' = 0 .. NumRegs - 1
          /\ \A r \in DOMAIN regs' : \E v : regs'[r] = v /\ ValueOK(v)'
      BY <1>1, <1>7, <1>12, RegsKept DEF Written, Typed
    <2>2. Len(frames') <= MaxDepth BY <1>5
    <2> QED BY <1>1, <1>2, <1>5, <1>12, <2>1, <2>2, TypedAgain DEF HeapGrows, Typed
  <1>14. Windows' /\ Waiting' BY ReturnedWindows
  <1>15. Fenced' /\ Near' /\ Scoped' BY ReturnedFences
  <1>16. Entries'
    <2>1. \A i \in DOMAIN native' : \E m : m = native'[i] /\ NativeEntry(m)'
      <3> TAKE i \in DOMAIN native'
      <3>1. i \in 1 .. q /\ i \in DOMAIN native /\ native'[i] = native[i] BY <1>11
      <3>2. PICK n : n = native[i] OBVIOUS
      <3>3. NativeEntry(n) BY <1>1, <3>1, <3>2 DEF Entries
      <3>4. n.op # "call" => n.depth \in 1 .. k BY <1>9, <3>1, <3>2
      <3>5. n.op # "call" => Alike(Ctx[n.depth], Ctx'[n.depth]) /\ n.depth \in 1 .. Depth'
        BY <1>5, <3>4
      <3>6. n.op = "make" => /\ MakesIn(n, Ctx'[n.depth])
                             /\ ~insts'[n.id].made /\ ~insts'[n.id].literal
        <4> HAVE n.op = "make"
        <4>1. /\ MakesIn(n, Ctx[n.depth]) /\ ~insts[n.id].made /\ ~insts[n.id].literal
          BY <3>3, EntryOps DEF MakeOK
        <4>2. Alike(Ctx[n.depth], Ctx'[n.depth]) BY <3>5
        <4> QED BY <1>12, <4>1, <4>2, AlikeIn
      <3>7. n.op = "drop" => /\ DropsIn(n, Ctx'[n.depth]) /\ n.busy \in 0 .. Len(active')
        <4> HAVE n.op = "drop"
        <4>1. DropsIn(n, Ctx[n.depth]) /\ n.busy \in 0 .. Len(active)
          BY <3>3, EntryOps DEF DropOK
        <4>2. Alike(Ctx[n.depth], Ctx'[n.depth]) BY <3>5
        <4> QED BY <1>2, <4>1, <4>2, AlikeIn
      <3>8. NativeEntry(n)' BY <1>2, <1>12, <3>3, <3>5, <3>6, <3>7, EntryKept
      <3> QED BY <3>1, <3>2, <3>8
    <2> QED BY <2>1 DEF Entries
  <1>17. Links'
    <2>1. \A i \in 1 .. q - 1 : Linked(native'[i], native'[i + 1])
      <3> TAKE i \in 1 .. q - 1
      <3>1. i \in 1 .. q /\ i + 1 \in 1 .. q /\ i \in 1 .. Len(native) - 1 BY <1>10
      <3>2. Linked(native[i], native[i + 1]) BY <1>1, <3>1 DEF Links
      <3> QED BY <1>9, <3>1, <3>2
    <2>2. \A i, j \in DOMAIN native' : i < j /\ Binds(native'[i]) =>
            /\ Binds(native'[j])
            /\ native'[i].depth <= native'[j].depth
            /\ native'[j].op = "call" => native'[i].depth < native'[j].depth
      BY <1>1, <1>11 DEF Links
    <2>3. native' # <<>> /\ Binds(native'[q]) => native'[q].depth = k
      <3> HAVE native' # <<>> /\ Binds(native'[q])
      <3>1. q >= 1 /\ q \in 1 .. q BY <1>9, <1>10
      <3> QED BY <1>9, <3>1
    <2> QED BY <1>5, <1>9, <2>1, <2>2, <2>3 DEF Links
  <1>18. Ends'
    <2>1. status \notin {"over", "aborted"} BY <1>2, DropsDoneFacts
    <2>2. status # "running" => native' # <<>> /\ native'[1] = native[1]
      <3> HAVE status # "running"
      <3>1. q >= 1 /\ 1 \in 1 .. q /\ native' # <<>> BY <1>9, <1>10
      <3> QED BY <1>9, <3>1
    <2>3. native # <<>> BY <1>2, DropsDoneFacts
    <2> QED BY <1>1, <1>2, <2>1, <2>2, <2>3 DEF Ends
  <1>19. active # <<>> => ~(Last(active).addr >= cur.base)
    <2>1. /\ native[Len(native)].then = "return" /\ ~Dropping(native[Len(native)])
          /\ DropsIn(native[Len(native)], cur) /\ native[Len(native)].busy = 0
      BY <1>2, DropsDoneFacts
    <2>2. native[Len(native)].limit = cur.base BY <2>1 DEF DropsIn
    <2> QED BY <2>1, <2>2 DEF Dropping
  <1>20. ASSUME NEW i \in 1 .. q, Dropper(native[i])
         PROVE  /\ i \in 1 .. Len(native) - 1 /\ i \in DOMAIN native
                /\ native[i].depth \in 1 .. k
                /\ DropsBelow(active, native[i].busy, Ctx[native[i].depth + 1].base)
    <2>1. i \in 1 .. Len(native) - 1 /\ i \in DOMAIN native BY <1>10
    <2>2. native[i].depth \in 1 .. k BY <1>9, <1>20 DEF Dropper
    <2>3. DropsBelow(active, native[i].busy, Ctx[native[i].depth + 1].base)
      BY <1>1, <1>20, <2>1 DEF Busy
    <2> QED BY <2>1, <2>2, <2>3
  <1>21. Busy'
    <2>1. ASSUME NEW i \in 1 .. q - 1, Dropper(native[i])
          PROVE  DropsBelow(active, native[i].busy, Ctx'[native[i].depth + 1].base)
      <3>1. i \in 1 .. q /\ i + 1 \in 1 .. q /\ i + 1 \in DOMAIN native /\ i \in DOMAIN native
            /\ q \in DOMAIN native /\ i < q /\ q >= 1 /\ i + 1 <= q /\ i < i + 1
            /\ i \in 1 .. Len(native) - 1
        BY <1>10
      <3>2. Binds(native[i]) /\ native[i].op # "call" BY <2>1 DEF Dropper, Binds
      <3>3. Linked(native[i], native[i + 1]) BY <1>1, <3>1 DEF Links
      <3>4. native[i + 1].op = "call" /\ Binds(native[i + 1]) BY <3>2, <3>3 DEF Linked
      <3>5. native[i].depth < native[i + 1].depth BY <1>1, <3>1, <3>2, <3>4 DEF Links
      <3>6. Binds(native[q]) /\ native[q].depth = k BY <1>1, <1>9, <3>1, <3>2 DEF Links
      <3>7. native[i + 1].depth <= k
        <4>1. CASE i + 1 = q
          <5>1. native[i + 1].depth = k BY <3>6, <4>1
          <5> QED BY <1>5, <5>1
        <4>2. CASE i + 1 # q
          <5>1. i + 1 < q BY <1>10, <3>1, <4>2
          <5> QED BY <1>1, <3>1, <3>4, <3>6, <5>1 DEF Links
        <4> QED BY <4>1, <4>2
      <3>8. native[i].depth \in 1 .. k /\ native[i + 1].depth \in Int
        <4>1. NativeEntry(native[i + 1]) BY <1>1, <3>1 DEF Entries
        <4> QED BY <1>20, <2>1, <3>1, <4>1, EntryOps
      <3>9. PICK a, b : a = native[i].depth /\ b = native[i + 1].depth OBVIOUS
      <3>10. a \in 1 .. k /\ b \in Int /\ a < b /\ b <= k BY <3>5, <3>7, <3>8, <3>9
      <3>11. a + 1 \in 1 .. k BY ONLY <1>5, <3>10
      <3>12. Ctx'[a + 1].base = Ctx[a + 1].base BY <1>6, <3>11
      <3> QED BY <1>20, <2>1, <3>1, <3>9, <3>12
    <2>2. ASSUME q >= 1, Dropper(native[q]) PROVE native[q].busy = Len(active)
      <3>1. q \in 1 .. q BY <1>10, <2>2
      <3>2. Binds(native[q]) BY <2>2 DEF Dropper, Binds
      <3>3. native[q].depth = k BY <1>9, <2>2, <3>2
      <3>4. PICK u, n, base : u = native[q].busy /\ n = Len(active) /\ base = cur.base OBVIOUS
      <3>5. Ctx[Depth] = cur BY <1>1, TheContexts
      <3>6. DropsBelow(active, u, base) /\ q \in DOMAIN native
        BY <1>5, <1>20, <2>2, <3>1, <3>3, <3>4, <3>5
      <3>7. NativeEntry(native[q]) BY <1>1, <3>6 DEF Entries
      <3>8. u \in 0 .. n /\ u # 0 BY <2>2, <3>4, <3>7, EntryOps DEF Dropper, DropOK
      <3>9. active \in Seq([addr : 0 .. NumRegs - 1, id : Nat]) BY <1>1 DEF Typed
      <3>10. PICK S : active \in Seq(S) BY <3>9
      <3>11. n \in Nat /\ DOMAIN active = 1 .. n BY <3>4, <3>10
      <3>12. active # <<>> /\ Last(active) = active[n]
        <4>1. n # 0 BY <3>8, <3>11
        <4> QED BY <3>4, <4>1 DEF Last
      <3>13. ~(active[n].addr >= base) BY <1>19, <3>4, <3>12
      <3>14. u = n
        <4> SUFFICES ASSUME u # n PROVE FALSE OBVIOUS
        <4>1. n \in u + 1 .. n BY <3>8, <3>11
        <4> QED BY <3>4, <3>6, <3>13, <4>1 DEF DropsBelow
      <3> QED BY <3>4, <3>14
    <2>3. \A i, j \in DOMAIN native' : i < j /\ Dropper(native'[i]) /\ Dropper(native'[j]) =>
            native'[i].busy < native'[j].busy
      BY <1>1, <1>11 DEF Busy
    <2>4. \A i \in 1 .. q - 1 : i \in DOMAIN native' /\ native'[i] = native[i]
      <3>1. \A i \in 1 .. q - 1 : i \in 1 .. q BY <1>10
      <3> QED BY <1>9, <3>1
    <2>5. native' # <<>> => q >= 1 /\ native'[q] = native[q]
      <3> HAVE native' # <<>>
      <3>1. q >= 1 /\ q \in 1 .. q BY <1>9, <1>10
      <3> QED BY <1>9, <3>1
    <2> QED BY <1>2, <1>9, <2>1, <2>2, <2>3, <2>4, <2>5 DEF Busy
  <1>22. Listing' /\ Unique'
    BY <1>1, <1>2, <1>11, <1>12 DEF Listing, Listed, Unique
  <1>23. Counted'
    <2>1. \A b : BeingDropped(native', b) <=> BeingDropped(native, b)
      <3> TAKE b
      <3>1. BeingDropped(native', b) => BeingDropped(native, b) BY <1>11 DEF BeingDropped
      <3>2. BeingDropped(native, b) => BeingDropped(native', b)
        <4> HAVE BeingDropped(native, b)
        <4>1. PICK i \in DOMAIN native : Dropper(native[i]) /\ native[i].busy = b
          BY DEF BeingDropped
        <4>2. i \in 1 .. q
          <5>1. i \notin q + 1 .. Len(native) BY <1>9, <4>1
          <5> QED BY <1>10, <5>1
        <4> QED BY <1>9, <4>1, <4>2 DEF BeingDropped
      <3> QED BY <3>1, <3>2
    <2> QED BY <1>1, <1>2, <1>12, <2>1, CountsAlike
  <1> QED BY <1>3, <1>13, <1>14, <1>15, <1>16, <1>17, <1>18, <1>21, <1>22, <1>23 DEF DInv
-----------------------------------------------------------------------------
(* The end of the script and of the interpreter: there is no caller left.  *)

LEMMA BottomKeeps ==
  ASSUME DInv, Depth = 1, frames' = frames, Inv',
         UNCHANGED <<regs, args, active, heap, missed>>,
         cur' \in Contexts, cur'.base = cur.base, cur'.under = cur.under, cur'.blocks = <<>>,
         Laid(1, cur'),
         \A i \in DOMAIN native : ~Dropper(native[i]),
         native' = <<>> \/ \E x : /\ native' = <<x>> /\ x.op = "drop" /\ ~Dropper(x) /\ x.depth = 1
                                  /\ NativeEntry(x)',
         scopes' \in Seq(0 .. NumRegs - 1),
         status' \in {"clearing", "destroying", "over"}, cur.base <= MaxDepth * Width,
         Ends'
  PROVE  DInv'
PROOF
  <1>1. /\ Inv /\ Typed /\ Windows /\ Listing /\ Unique /\ Counted /\ Near /\ Scoped
    BY DEF DInv
  <1>2. Len(frames) = 0 /\ Ctx[1] = cur /\ Depth' = 1 /\ Ctx'[1] = cur' /\ Len(frames') = 0
    <2>1. Len(frames) \in Nat /\ Depth = Len(frames) + 1 /\ Ctx[Depth] = cur BY <1>1, TheContexts
    <2>2. Depth' = Depth /\ Ctx'[Depth] = cur' BY <1>1, Stayed
    <2> QED BY <2>1, <2>2
  <1>3. /\ \A k \in 1 .. 1 : k = 1
        /\ \A k \in 2 .. 1 : FALSE
        /\ \A k \in 1 .. 0 : FALSE
        /\ \A k, l \in 1 .. 1 : ~(k < l)
    OBVIOUS
  <1>4. cur.base \in Nat
    <2>1. cur \in Contexts BY <1>1 DEF Typed
    <2> QED BY <2>1, ContextFields
  <1>5. HeapGrows /\ NoneEnds /\ insts' = insts BY <1>1, HeapStays DEF heap
  <1>6. Typed'
    <2>1. /\ DOMAIN regs' = 0 .. NumRegs - 1
          /\ \A r \in DOMAIN regs' : \E v : regs'[r] = v /\ ValueOK(v)'
      BY <1>1, <1>5, Unwritten, RegsKept DEF Written, Typed
    <2> QED BY <1>1, <1>5, <2>1, TypedAgain DEF HeapGrows, Typed
  <1>7. Windows'
    <2>1. cur'.base <= cur'.base + (1 - 1) * Width
      <3>1. (1 - 1) * Width = 0 BY Sizes
      <3> QED BY <1>4, <3>1
    <2>2. \A k \in 1 .. 1 : Laid(k, Ctx'[k]) /\ Ctx'[k].base <= Ctx'[1].base + (k - 1) * Width
      BY <1>2, <1>3, <2>1
    <2>3. status' # "running" /\ Ctx'[1].base <= MaxDepth * Width /\ Ctx'[1].blocks = <<>> BY <1>2
    <2> QED BY <1>2, <1>3, <2>2, <2>3 DEF Windows
  <1>8. Waiting' BY <1>2, <1>3 DEF Waiting
  <1>9. native' = <<>> \/ \E x : /\ Len(native') = 1 /\ DOMAIN native' = 1 .. 1 /\ native'[1] = x
                                 /\ x.op = "drop" /\ ~Dropper(x) /\ x.depth = 1
                                 /\ NativeEntry(x)'
    OBVIOUS
  <1>10. Entries' /\ Links' /\ Busy'
    <2>1. CASE native' = <<>> BY <2>1 DEF Entries, Links, Busy
    <2>2. CASE native' # <<>>
      <3>1. PICK x : /\ Len(native') = 1 /\ DOMAIN native' = 1 .. 1 /\ native'[1] = x
                     /\ x.op = "drop" /\ ~Dropper(x) /\ x.depth = 1
                     /\ NativeEntry(x)'
        BY <1>9, <2>2
      <3>2. \A i \in DOMAIN native' : \E m : m = native'[i] /\ NativeEntry(m)' BY <1>3, <3>1
      <3>3. Entries' BY <3>2 DEF Entries
      <3>4. \A i \in 1 .. Len(native') - 1 : FALSE BY <3>1
      <3>5. Links' BY <1>2, <1>3, <3>1, <3>4 DEF Links
      <3>6. Busy' BY <1>3, <3>1, <3>4 DEF Busy
      <3> QED BY <3>3, <3>5, <3>6
    <2> QED BY <2>1, <2>2
  <1>11. \A i \in DOMAIN native' : native'[i].op = "drop" /\ ~Dropper(native'[i])
    <2>1. CASE native' = <<>> BY <2>1
    <2>2. CASE native' # <<>> BY <1>3, <1>9, <2>2
    <2> QED BY <2>1, <2>2
  <1>12. Listing' /\ Unique' BY <1>1, <1>5, <1>11 DEF Listing, Listed, Unique
  <1>13. Counted'
    <2>1. \A b : BeingDropped(native', b) <=> BeingDropped(native, b) BY <1>11 DEF BeingDropped
    <2> QED BY <1>1, <1>5, <2>1, CountsAlike
  <1>14. Fenced'
    <2>1. FencedIn(active', cur') BY DEF FencedIn
    <2> QED BY <1>2, <1>3, <2>1 DEF Fenced
  <1>15. Near' BY <1>1, <1>2, <1>3 DEF Near
  <1>16. Scoped'
    <2>1. cur'.under = 0 /\ Len(cur'.blocks) = 0 /\ Len(scopes') \in Nat BY <1>1, <1>2 DEF Scoped
    <2>2. StartsIn(scopes', cur', Len(scopes')) BY <2>1 DEF StartsIn
    <2>3. Ceiling(1)' = Len(scopes') BY <1>2 DEF Ceiling
    <2>4. \A k \in 1 .. 1 : StartsIn(scopes', Ctx'[k], Ceiling(k)')
      <3> TAKE k \in 1 .. 1
      <3>1. k = 1 OBVIOUS
      <3> QED BY <1>2, <2>2, <2>3, <3>1
    <2> QED BY <1>2, <1>3, <2>1, <2>4 DEF Scoped
  <1> QED BY <1>6, <1>7, <1>8, <1>10, <1>12, <1>13, <1>14, <1>15, <1>16 DEF DInv

LEMMA HaltKeeps ==
  ASSUME DInv, Halt
  PROVE  DInv'
PROOF
  <1>1. Inv /\ Typed /\ Windows BY DEF DInv
  <1>2. /\ Executing /\ cur.code.at = "script" /\ native = <<>> /\ cur.blocks = <<>>
        /\ status' = "clearing"
        /\ cur' = [cur EXCEPT !.top = 0, !.low = 0]
        /\ UNCHANGED <<regs, frames, native, implicit, args, scopes, active, heap, missed>>
    BY DEF Halt, At
  <1>3. status = "running" BY <1>2 DEF Executing
  <1>4. cur \in Contexts /\ Laid(Depth, cur) BY <1>1, LaidHere
  <1>5. Depth = 1 /\ Ctx[1] = cur /\ Len(frames) = 0
    <2>1. Depth = 1 BY <1>2, <1>4 DEF Laid
    <2>2. Len(frames) \in Nat /\ Depth = Len(frames) + 1 /\ Ctx[Depth] = cur BY <1>1, TheContexts
    <2> QED BY <2>1, <2>2
  <1>6. frames = <<>> BY <1>1, <1>5 DEF Typed
  <1>7. PICK y : y = cur' OBVIOUS
  <1>8. /\ y \in Contexts /\ y.base = cur.base /\ y.under = cur.under /\ y.blocks = <<>>
        /\ y.top = 0 /\ y.low = 0 /\ y.code = cur.code
    BY <1>2, <1>4, <1>7 DEF Contexts
  <1>9. Laid(1, y)
    <2>1. /\ Globals \in Nat /\ Width \in Nat /\ Globals + MaxTemps[1] < Width /\ MaxTemps[1] \in Nat
      <3>1. 1 \in 1 .. MaxDepth + 1 BY Sizes
      <3> QED BY <3>1, Sizes
    <2>2. 0 < Width /\ 0 <= Globals /\ 0 <= 0 + MaxTemps[1] BY <2>1
    <2> QED BY <1>2, <1>8, <2>2 DEF Laid, Running
  <1>10. cur.base <= MaxDepth * Width
    <2>1. cur.base = 0 BY <1>1, <1>3, <1>5 DEF Windows
    <2>2. MaxDepth * Width >= 0
      <3>1. MaxDepth \in Nat /\ Width \in Nat BY Sizes
      <3> QED BY ONLY <3>1
    <2> QED BY <2>1, <2>2
  <1>11. Inv' BY <1>1, <1>2 DEF Inv
  <1>12. Ends' BY <1>2, <1>6 DEF Ends
  <1>13. scopes' \in Seq(0 .. NumRegs - 1) BY <1>1, <1>2 DEF Typed
  <1>14. /\ cur' \in Contexts /\ cur'.base = cur.base /\ cur'.under = cur.under
         /\ cur'.blocks = <<>> /\ Laid(1, cur')
    BY <1>7, <1>8, <1>9
  <1>15. /\ \A i \in DOMAIN native : ~Dropper(native[i])
         /\ native' = <<>> /\ status' \in {"clearing", "destroying", "over"} /\ frames' = frames
         /\ UNCHANGED <<regs, args, active, heap, missed>>
    BY <1>2
  <1> QED BY <1>5, <1>10, <1>11, <1>12, <1>13, <1>14, <1>15, BottomKeeps

(* The interpreter's own dropInstances, at the bottom of the C++ stack.    *)
LEMMA EndDrop ==
  ASSUME DInv, frames' = frames, active' = active,
         Depth = 1, NEW limit \in Nat, NEW then \in {"clear", "destroy"},
         then = "clear" => status' = "clearing",
         then = "destroy" => status' = "destroying" /\ limit = 0
  PROVE  \E x : /\ x = DropTo(limit, then)
                /\ x.op = "drop" /\ ~Dropper(x) /\ x.depth = 1 /\ x.then = then
                /\ NativeEntry(x)'
PROOF
  <1>1. Typed BY DEF DInv
  <1>2. Len(frames) \in Nat /\ Depth = Len(frames) + 1 /\ Depth' = Depth
        /\ Len(active') \in Nat
    <2>1. active' \in Seq([addr : 0 .. NumRegs - 1, id : Nat]) BY <1>1 DEF Typed
    <2>2. Len(active') \in Nat BY <2>1
    <2> QED BY <1>1, <2>2, TheContexts, Stayed
  <1>3. PICK x : x = DropTo(limit, then) OBVIOUS
  <1>4. x.op = "drop" /\ x.limit = limit /\ x.then = then /\ x.busy = 0 /\ x.depth = 1
    BY <1>2, <1>3 DEF DropTo
  <1>5. 0 \in 0 .. Len(active') /\ 1 \in 1 .. Depth' BY <1>2
  <1>6. DropOK(x)' BY <1>4, <1>5 DEF DropOK, DropsIn
  <1> QED BY <1>3, <1>4, <1>6 DEF NativeEntry, Dropper

LEMMA AtBottom ==
  ASSUME DInv, status \in {"clearing", "destroying"}, Depth = 1, cur' = cur
  PROVE  /\ cur' \in Contexts /\ cur'.base = cur.base /\ cur'.under = cur.under /\ cur'.blocks = <<>>
         /\ Laid(1, cur') /\ cur.base <= MaxDepth * Width
PROOF
  <1>1. Typed /\ Windows BY DEF DInv
  <1>2. cur \in Contexts /\ Laid(1, cur) BY <1>1, LaidHere
  <1>3. Ctx[1] = cur BY <1>1, TheContexts
  <1>4. cur.blocks = <<>> /\ cur.base <= MaxDepth * Width BY <1>1, <1>3 DEF Windows
  <1> QED BY <1>2, <1>4

LEMMA DoneAtBottom ==
  ASSUME DInv, NEW then \in {"clear", "destroy"}, DropsDone(then)
  PROVE  /\ Depth = 1 /\ frames = <<>>
         /\ native[Len(native)].then = then /\ DropOK(native[Len(native)])
         /\ native[Len(native)].busy = 0 /\ ~Dropping(native[Len(native)])
         /\ \A i \in DOMAIN native : ~Dropper(native[i])
PROOF
  <1>1. Inv /\ Typed BY DEF DInv
  <1>2. PICK l : l = Len(native) OBVIOUS
  <1>3. /\ native # <<>> /\ l \in DOMAIN native /\ native[l].op = "drop" /\ native[l].then = then
        /\ native[l].busy = 0 /\ ~Dropper(native[l]) /\ native[l].depth = Depth
        /\ DropOK(native[l]) /\ ~Dropping(native[l])
    BY <1>2, DropsDoneFacts
  <1>4. Depth = 1 BY <1>3 DEF DropOK
  <1>5. frames = <<>>
    <2>1. Len(frames) \in Nat /\ Depth = Len(frames) + 1 BY <1>1, TheContexts
    <2> QED BY <1>1, <1>4, <2>1 DEF Typed
  <1>6. l \in Nat /\ DOMAIN native = 1 .. l BY <1>1, <1>2, TheNative
  <1>7. l \in 1 .. Len(native) /\ EntryOK(native, l)
    BY <1>1, <1>2, <1>3, <1>6 DEF Inv, NativeOK
  <1>8. l = 1 BY <1>3, <1>7 DEF EntryOK
  <1>9. \A i \in DOMAIN native : ~Dropper(native[i]) BY <1>3, <1>6, <1>8
  <1> QED BY <1>2, <1>3, <1>4, <1>5, <1>9

LEMMA ClearVMKeeps ==
  ASSUME DInv, ClearVM
  PROVE  DInv'
PROOF
  <1>1. Inv /\ Typed /\ Ends BY DEF DInv
  <1>2. /\ status = "clearing"
        /\ UNCHANGED <<regs, cur, frames, implicit, args, active, heap, missed>>
    BY DEF ClearVM
  <1>3. Inv' BY <1>1, EndSteps
  <1>4. scopes \in Seq(0 .. NumRegs - 1) /\ NumRegs \in Nat BY <1>1, Sizes DEF Typed
  <1>5. native = <<>> => Depth = 1 /\ frames = <<>> /\ \A i \in DOMAIN native : ~Dropper(native[i])
    <2>1. native = <<>> => frames = <<>> BY <1>1, <1>2 DEF Ends
    <2>2. frames = <<>> => Depth = 1 BY DEF Depth
    <2> QED BY <2>1, <2>2
  <1>6. CASE /\ native = <<>> /\ scopes # <<>>
             /\ native' = <<DropTo(Last(scopes), "clear")>>
             /\ UNCHANGED <<scopes, status>>
    <2>1. Last(scopes) \in Nat
      <3>1. PICK S : S = 0 .. NumRegs - 1 OBVIOUS
      <3>2. scopes \in Seq(S) BY <1>4, <3>1
      <3>3. Last(scopes) \in S BY <1>6, <3>2 DEF Last
      <3> QED BY <1>4, <3>1, <3>3
    <2>2. PICK n : n = Last(scopes) OBVIOUS
    <2>3. PICK x : /\ x = DropTo(n, "clear")
                   /\ x.op = "drop" /\ ~Dropper(x) /\ x.depth = 1 /\ x.then = "clear"
                   /\ NativeEntry(x)'
      BY <1>2, <1>5, <1>6, <2>1, <2>2, EndDrop
    <2>4. native' = <<x>> BY <1>6, <2>2, <2>3
    <2>5. Ends' BY <1>2, <1>6, <2>3, <2>4 DEF Ends
    <2>6. status' \in {"clearing", "destroying", "over"} BY <1>2, <1>6
    <2> QED BY <1>2, <1>3, <1>4, <1>5, <1>6, <2>3, <2>4, <2>5, <2>6, AtBottom, BottomKeeps
  <1>7. CASE /\ DropsDone("clear")
             /\ native' = <<>> /\ scopes' = Front(scopes)
             /\ UNCHANGED status
    <2>1. Depth = 1 /\ frames = <<>> /\ \A i \in DOMAIN native : ~Dropper(native[i])
      BY <1>7, DoneAtBottom
    <2>2. scopes' \in Seq(0 .. NumRegs - 1)
      <3>1. CASE scopes # <<>> BY <1>4, <1>7, <3>1, FrontIsSeq
      <3>2. CASE scopes = <<>>
        <4>1. scopes' = <<>> BY <1>7, <3>2 DEF Front
        <4> QED BY <4>1
      <3> QED BY <3>1, <3>2
    <2>3. Ends' BY <1>2, <1>7, <2>1 DEF Ends
    <2>4. status' \in {"clearing", "destroying", "over"} BY <1>2, <1>7
    <2> QED BY <1>2, <1>3, <1>7, <2>1, <2>2, <2>3, <2>4, AtBottom, BottomKeeps
  <1>8. CASE /\ native = <<>> /\ scopes = <<>>
             /\ native' = <<DropTo(LowestRegister, "destroy")>> /\ status' = "destroying"
             /\ UNCHANGED scopes
    <2>1. LowestRegister \in Nat /\ LowestRegister = 0 BY DEF LowestRegister
    <2>2. PICK n : n = LowestRegister OBVIOUS
    <2>3. PICK x : /\ x = DropTo(n, "destroy")
                   /\ x.op = "drop" /\ ~Dropper(x) /\ x.depth = 1 /\ x.then = "destroy"
                   /\ NativeEntry(x)'
      BY <1>2, <1>5, <1>8, <2>1, <2>2, EndDrop
    <2>4. native' = <<x>> BY <1>8, <2>2, <2>3
    <2>5. Ends' BY <1>2, <1>8, <2>3, <2>4 DEF Ends
    <2>6. status' \in {"clearing", "destroying", "over"} BY <1>8
    <2>7. scopes' \in Seq(0 .. NumRegs - 1) BY <1>4, <1>8
    <2> QED BY <1>2, <1>3, <1>5, <1>8, <2>3, <2>4, <2>5, <2>6, <2>7, AtBottom, BottomKeeps
  <1> QED BY <1>6, <1>7, <1>8 DEF ClearVM

LEMMA DestroyedKeeps ==
  ASSUME DInv, Destroyed
  PROVE  DInv'
PROOF
  <1>1. Inv /\ Typed BY DEF DInv
  <1>2. /\ DropsDone("destroy") /\ native' = <<>> /\ status' = "over"
        /\ UNCHANGED <<regs, cur, frames, implicit, args, scopes, active, heap, missed>>
    BY DEF Destroyed
  <1>3. Inv' BY <1>1, EndSteps
  <1>4. PICK d : d = native[Len(native)] OBVIOUS
  <1>5. /\ Depth = 1 /\ frames = <<>> /\ d.then = "destroy" /\ DropOK(d)
        /\ d.busy = 0 /\ ~Dropping(d) /\ \A i \in DOMAIN native : ~Dropper(native[i])
    BY <1>2, <1>4, DoneAtBottom
  <1>6. status = "destroying" /\ d.limit = 0 BY <1>5 DEF DropOK
  <1>7. active = <<>>
    <2> SUFFICES ASSUME active # <<>> PROVE FALSE OBVIOUS
    <2>1. ~(Last(active).addr >= 0) BY <1>5, <1>6 DEF Dropping
    <2>2. PICK S : S = [addr : 0 .. NumRegs - 1, id : Nat] OBVIOUS
    <2>3. active \in Seq(S) BY <1>1, <2>2 DEF Typed
    <2>4. Last(active) \in S BY <2>3 DEF Last
    <2>5. Last(active).addr \in 0 .. NumRegs - 1 /\ NumRegs \in Nat BY <2>2, <2>4, Sizes
    <2> QED BY <2>1, <2>5
  <1>8. Ends' BY <1>2, <1>5, <1>7 DEF Ends
  <1>9. scopes' \in Seq(0 .. NumRegs - 1) BY <1>1, <1>2 DEF Typed
  <1>10. status' \in {"clearing", "destroying", "over"} BY <1>2
  <1> QED BY <1>2, <1>3, <1>5, <1>6, <1>8, <1>9, <1>10, AtBottom, BottomKeeps

(* Nothing happens.                                                        *)
LEMMA NothingKeeps ==
  ASSUME DInv, UNCHANGED vars
  PROVE  DInv'
PROOF
  <1>1. /\ regs' = regs /\ cur' = cur /\ frames' = frames /\ native' = native /\ implicit' = implicit
        /\ args' = args /\ scopes' = scopes /\ active' = active /\ insts' = insts /\ bound' = bound
        /\ status' = status /\ missed' = missed
    BY DEF vars
  <1>2. Ctx' = Ctx /\ Depth' = Depth BY <1>1 DEF Ctx, Depth
  <1>3. Inv' = Inv /\ Typed' = Typed BY <1>1 DEF Inv, Typed, ValueOK, IsInst
  <1>4. Windows' = Windows /\ Waiting' = Waiting BY <1>1, <1>2 DEF Windows, Waiting
  <1>5. Entries' = Entries
    BY <1>1, <1>2
       DEF Entries, NativeEntry, CallOK, MakeOK, DropOK, ValueOK, IsInst
  <1>6. Links' = Links /\ Busy' = Busy BY <1>1, <1>2 DEF Links, Busy
  <1>7. Ends' = Ends /\ Listing' = Listing /\ Unique' = Unique
    BY <1>1 DEF Ends, Listing, Listed, Unique
  <1>8. Counted' = Counted BY <1>1 DEF Counted, BeingDropped
  <1>9. Fenced' = Fenced /\ Near' = Near BY <1>1, <1>2 DEF Fenced, Near
  <1>10. Scoped' = Scoped BY <1>1, <1>2 DEF Scoped, Ceiling
  <1> QED BY <1>3, <1>4, <1>5, <1>6, <1>7, <1>8, <1>9, <1>10 DEF DInv
-----------------------------------------------------------------------------
(* Where the machine starts, and that it stays in the invariant.           *)

LEMMA Starts ==
  ASSUME Init
  PROVE  DInv
PROOF
  <1>1. /\ regs = [r \in 0 .. NumRegs - 1 |-> IF r < Globals THEN Datum(r) ELSE Invalid]
        /\ cur = [base |-> 0, top |-> Globals, low |-> Globals, blocks |-> <<>>, since |-> 0,
                  under |-> 0, code |-> Script]
        /\ frames = <<>> /\ native = <<>> /\ implicit = FALSE /\ args = 0 /\ scopes = <<>>
        /\ active = <<>> /\ insts = <<>> /\ bound = [k \in Types |-> 0]
        /\ status = "running" /\ missed = FALSE
    BY DEF Init
  <1>2. Inv BY <1>1, Empty DEF Inv
  <1>3. /\ Globals \in Nat /\ Width \in Nat /\ MaxDepth \in Nat
        /\ Globals + MaxTemps[1] < Width /\ MaxTemps[1] \in Nat
    <2>1. 1 \in 1 .. MaxDepth + 1 BY Sizes
    <2> QED BY <2>1, Sizes
  <1>4. /\ cur.base = 0 /\ cur.top = Globals /\ cur.low = Globals /\ cur.blocks = <<>>
        /\ cur.since = 0 /\ cur.under = 0 /\ cur.code = Script /\ Len(cur.blocks) = 0
    BY <1>1
  <1>5. /\ Script.at = "script" /\ Script.fun = NoFun /\ Script.self = 0 /\ Script.by = "code"
        /\ Script.n = 0
        /\ Script \in [at : Places, fun : Callables \cup {NoFun}, self : 0 .. 1,
                       by : {"code", "make", "drop"}, n : Nat, promised : BOOLEAN]
    BY DEF Script, Code, Places
  <1>6. cur \in Contexts
    <2>1. <<>> \in Seq([at : Nat, since : Nat]) OBVIOUS
    <2> QED BY <1>1, <1>3, <1>5, <2>1 DEF Contexts
  <1>7. Typed
    <2>1. \A r \in DOMAIN regs : ValueOK(regs[r])
      <3> TAKE r \in DOMAIN regs
      <3>1. regs[r] = Datum(r) \/ regs[r] = Invalid BY <1>1
      <3>2. regs[r].t = "data" \/ regs[r].t = "invalid" BY <3>1 DEF Datum, Invalid
      <3> QED BY <3>2 DEF ValueOK, IsInst
    <2>2. frames \in Seq(Contexts) /\ Len(frames) <= MaxDepth BY <1>1, <1>3
    <2>3. /\ scopes \in Seq(0 .. NumRegs - 1) /\ insts \in Seq(Instances)
          /\ active \in Seq([addr : 0 .. NumRegs - 1, id : Nat])
      BY <1>1
    <2>4. bound \in [Types -> 0 .. Len(insts)] /\ args \in 0 .. Width BY <1>1, <1>3
    <2> QED BY <1>1, <1>6, <2>1, <2>2, <2>3, <2>4 DEF Typed
  <1>8. Depth = 1 /\ Ctx[1] = cur /\ Len(frames) = 0 BY <1>1 DEF Depth, Ctx
  <1>9. /\ \A k \in 1 .. 1 : k = 1
        /\ \A k \in 2 .. 1 : FALSE
        /\ \A k \in 1 .. 0 : FALSE
    OBVIOUS
  <1>10. Windows
    <2>1. Laid(1, cur)
      <3>1. 0 < Width /\ Globals < Width /\ Globals <= Globals + MaxTemps[1] BY <1>3
      <3> QED BY <1>3, <1>4, <1>5, <3>1 DEF Laid, Running
    <2>2. cur.base <= cur.base + (1 - 1) * Width
      <3>1. (1 - 1) * Width = 0 BY <1>3
      <3> QED BY <1>4, <3>1
    <2>3. \A k \in 1 .. 1 : Laid(k, Ctx[k]) /\ Ctx[k].base <= Ctx[1].base + (k - 1) * Width
      BY <1>8, <1>9, <2>1, <2>2
    <2>4. \A k, l \in 1 .. 1 : ~(k < l) OBVIOUS
    <2> QED BY <1>1, <1>4, <1>8, <1>9, <2>3, <2>4 DEF Windows
  <1>11. Waiting BY <1>8, <1>9 DEF Waiting
  <1>12. Entries /\ Links /\ Busy BY <1>1, <1>9 DEF Entries, Links, Busy
  <1>13. Ends /\ Listing /\ Unique /\ Counted BY <1>1 DEF Ends, Listing, Unique, Counted
  <1>14. Fenced
    <2>1. FencedIn(active, cur) BY <1>4 DEF FencedIn
    <2>2. \A k \in 1 .. 1 : FencedIn(active, Ctx[k]) BY <1>8, <1>9, <2>1
    <2> QED BY <1>8, <1>9, <2>2 DEF Fenced
  <1>15. Near BY <1>1, <1>8, <1>9 DEF Near
  <1>16. Scoped
    <2>1. Len(scopes) = 0 /\ Ceiling(1) = 0 BY <1>1, <1>8 DEF Ceiling
    <2>2. StartsIn(scopes, cur, 0) BY <1>4, <2>1 DEF StartsIn
    <2>3. \A k \in 1 .. 1 : StartsIn(scopes, Ctx[k], Ceiling(k)) BY <1>8, <1>9, <2>1, <2>2
    <2>4. \A k, l \in 1 .. 1 : ~(k < l) OBVIOUS
    <2> QED BY <1>4, <1>8, <1>9, <2>3, <2>4 DEF Scoped
  <1> QED BY <1>2, <1>7, <1>10, <1>11, <1>12, <1>13, <1>14, <1>15, <1>16 DEF DInv

(* What all the properties below rest on: windows, blocks, C++ functions   *)
(* and listed instances lie in the register array as the calls that made   *)
(* them nest.                                                              *)
THEOREM DropInvariantHolds == Spec => []DInv
PROOF
  <1>1. Init => DInv BY Starts
  <1>2. DInv /\ [Next]_vars => DInv'
    <2> SUFFICES ASSUME DInv, [Next]_vars PROVE DInv' OBVIOUS
    <2>1. ASSUME NEW v \in Loadable, Load(v) PROVE DInv' BY <2>1, LoadKeeps
    <2>2. ASSUME Discard \/ GetMethod \/ SetField PROVE DInv'
      BY <2>2, DiscardKeeps, GetMethodKeeps, SetFieldKeeps
    <2>3. ASSUME NEW k \in Types, BeginLiteral(k) PROVE DInv' BY <2>3, BeginLiteralKeeps
    <2>4. ASSUME NEW p \in OpenLiterals, NEW given \in BOOLEAN, EndLiteral(p, given) PROVE DInv'
      BY <2>4, EndLiteralKeeps
    <2>5. CASE EnterScope BY <2>5, EnterScopeKeeps
    <2>6. ASSUME ExitScope \/ UpdateIter PROVE DInv'
      BY <2>6, LeaveScopeKeeps DEF ExitScope, UpdateIter
    <2>7. ASSUME NEW p \in Temporaries, CallMethod(p) PROVE DInv' BY <2>7, CallMethodKeeps
    <2>8. ASSUME NEW p \in Temporaries, NEW f \in Funs, CallFunc(p, f) PROVE DInv'
      BY <2>8, CallFuncKeeps
    <2>9. ASSUME NEW p \in Temporaries, NEW k \in Types, CallType(p, k) PROVE DInv'
      BY <2>9, CallTypeKeeps
    <2>10. ASSUME DefaultDone \/ VarArgs \/ LoadName PROVE DInv'
      BY <2>10, DefaultDoneKeeps, VarArgsKeeps, LoadNameKeeps
    <2>11. ASSUME NEW v \in Returnable, Return(v) PROVE DInv' BY <2>11, ReturnKeeps
    <2>12. ASSUME AskField \/ Made PROVE DInv' BY <2>12, AskFieldKeeps, MadeKeeps
    <2>13. ASSUME DropInstance \/ Dropped \/ RestoreData \/ ScopeLeft PROVE DInv'
      BY <2>13, DropInstanceKeeps, DroppedKeeps, RestoreDataKeeps, ScopeLeftKeeps
    <2>14. ASSUME Halt \/ Fail \/ ClearVM \/ Destroyed PROVE DInv'
      BY <2>14, HaltKeeps, FailKeeps, ClearVMKeeps, DestroyedKeeps
    <2>15. ASSUME Over \/ UNCHANGED vars PROVE DInv' BY <2>15, NothingKeeps DEF Over
    <2> QED
      BY <2>1, <2>2, <2>3, <2>4, <2>5, <2>6, <2>7, <2>8, <2>9, <2>10, <2>11, <2>12, <2>13, <2>14, <2>15
         DEF Next
  <1> QED BY <1>1, <1>2, PTL DEF Spec
-----------------------------------------------------------------------------
(* What follows from the invariant.                                        *)

LEMMA FrameInArray ==
  ASSUME DInv, NEW k \in 1 .. Depth
  PROVE  FrameOK(Ctx[k])
PROOF
  <1>1. Typed /\ Windows /\ Ends BY DEF DInv
  <1>2. PICK x : x = Ctx[k] OBVIOUS
  <1>3. /\ x \in Contexts /\ x.base \in Nat /\ x.top \in Nat /\ x.low \in Nat /\ x.code.at \in Places
        /\ Laid(k, x)
    <2>1. x \in Contexts BY <1>1, <1>2, TheContexts
    <2>2. Laid(k, x) BY <1>1, <1>2 DEF Windows
    <2> QED BY <2>1, <2>2, ContextFields
  <1>4. x.top < Width /\ Width \in Nat /\ MaxDepth \in Nat BY <1>3, Sizes DEF Laid
  <1>5. x.code.at \in {"script", "default", "body"} => x.low \in 0 .. x.top
    <2> HAVE x.code.at \in {"script", "default", "body"}
    <2>1. x.low <= x.top BY <1>3 DEF Laid, Running
    <2> QED BY <1>3, <2>1
  <1>6. x.code.at = "leaving" => k # 1 BY <1>3 DEF Laid
  <1>7. CASE status \notin {"over", "aborted"}
    <2>1. /\ \A r \in Nat : r < Width => x.base + r \in 0 .. NumRegs - 1
          /\ k > 1 => x.base - 1 \in 0 .. NumRegs - 1
      BY <1>1, <1>2, <1>7, InWindow
    <2>2. x.top = 0 \/ InArray(x.base + x.top - 1)
      <3> SUFFICES ASSUME x.top # 0 PROVE InArray(x.base + x.top - 1) OBVIOUS
      <3>1. PICK t, b : t = x.top /\ b = x.base OBVIOUS
      <3>2. t \in Nat /\ b \in Nat /\ t # 0 /\ t < Width /\ Width \in Nat BY <1>3, <1>4, <3>1
      <3>3. t - 1 \in Nat /\ t - 1 < Width /\ b + (t - 1) = b + t - 1 BY ONLY <3>2
      <3>4. b + (t - 1) \in 0 .. NumRegs - 1 BY <2>1, <3>1, <3>3
      <3> QED BY <3>1, <3>3, <3>4 DEF InArray
    <2>3. x.code.at = "leaving" => InArray(x.base - 1)
      <3> HAVE x.code.at = "leaving"
      <3>1. k > 1 BY <1>6
      <3> QED BY <2>1, <3>1 DEF InArray
    <2> QED BY <1>2, <1>3, <1>5, <2>2, <2>3 DEF FrameOK
  <1>8. CASE status \in {"over", "aborted"}
    <2>1. frames = <<>> BY <1>1, <1>8 DEF Ends
    <2>2. Depth = 1 BY <2>1 DEF Depth
    <2>3. k = 1 /\ x = cur BY <1>1, <1>2, <2>2, TheContexts
    <2>4. x.top = 0 \/ x.base <= MaxDepth * Width BY <1>1, <1>2, <1>8, <2>3 DEF Windows
    <2>5. x.top = 0 \/ InArray(x.base + x.top - 1)
      <3> SUFFICES ASSUME x.top # 0 PROVE InArray(x.base + x.top - 1) OBVIOUS
      <3>1. PICK t, b, m, n : t = x.top /\ b = x.base /\ m = MaxDepth * Width /\ n = NumRegs OBVIOUS
      <3>2. m \in Nat /\ n \in Nat /\ n >= 2 * m + Width
        <4>1. n \in Nat /\ n >= (2 * MaxDepth + 1) * Width BY <3>1, Sizes
        <4>2. m = MaxDepth * Width BY <3>1
        <4> QED BY ONLY <1>4, <4>1, <4>2
      <3>3. t \in Nat /\ b \in Nat /\ t # 0 /\ t < Width /\ b <= m BY <1>3, <1>4, <2>4, <3>1
      <3>4. b + t - 1 \in 0 .. n - 1 BY ONLY <1>4, <3>2, <3>3
      <3> QED BY <3>1, <3>4 DEF InArray
    <2> QED BY <1>2, <1>3, <1>5, <1>6, <2>3, <2>5 DEF FrameOK
  <1> QED BY <1>7, <1>8

(* In every reachable state the windows of the running code and of all its *)
(* callers lie in the register array: calls within calls, initialisers and *)
(* drop() methods never move past its end, for NUM_REGS of twice the depth.*)
THEOREM TypeCorrect == Spec => []TypeOK
PROOF
  <1>1. DInv => TypeOK
    <2> SUFFICES ASSUME DInv PROVE TypeOK OBVIOUS
    <2>1. Inv /\ Typed /\ Entries /\ Listing BY DEF DInv
    <2>2. Len(frames) <= MaxDepth BY <2>1 DEF Typed
    <2>3. FrameOK(cur) /\ \A i \in DOMAIN frames : FrameOK(frames[i])
      <3>1. /\ Depth = Len(frames) + 1 /\ Len(frames) \in Nat /\ Ctx[Depth] = cur
            /\ \A i \in 1 .. Len(frames) : Ctx[i] = frames[i]
        BY <2>1, TheContexts
      <3>2. DOMAIN frames = 1 .. Len(frames) BY <2>1 DEF Typed
      <3>3. Depth \in 1 .. Depth /\ \A i \in DOMAIN frames : i \in 1 .. Depth BY <3>1, <3>2
      <3> QED BY <3>1, <3>2, <3>3, FrameInArray
    <2>4. \A i \in DOMAIN scopes : InArray(scopes[i])
      <3>1. PICK S : S = 0 .. NumRegs - 1 OBVIOUS
      <3>2. scopes \in Seq(S) BY <2>1, <3>1 DEF Typed
      <3>3. \A i \in DOMAIN scopes : scopes[i] \in S BY <3>2
      <3> QED BY <3>1, <3>3 DEF InArray
    <2>5. \A j \in DOMAIN active :
            /\ InArray(active[j].addr) /\ active[j].id \in DOMAIN insts
            /\ insts[active[j].id].made /\ insts[active[j].id].of.drop
      <3> TAKE j \in DOMAIN active
      <3>1. PICK S : S = [addr : 0 .. NumRegs - 1, id : Nat] OBVIOUS
      <3>2. active \in Seq(S) BY <2>1, <3>1 DEF Typed
      <3>3. active[j] \in S BY <3>2
      <3>4. InArray(active[j].addr) BY <3>1, <3>3 DEF InArray
      <3> QED BY <2>1, <3>4 DEF Listing, Listed
    <2>6. \A i \in DOMAIN native : native[i].op \in {"call", "make", "drop"}
      BY <2>1, EntryOps DEF Entries
    <2>7. \A k \in Types : bound[k] \in 0 .. Len(insts) BY <2>1 DEF Typed
    <2>8. implicit \in BOOLEAN BY <2>1 DEF Inv, NativeOK
    <2>9. /\ status \in {"running", "clearing", "destroying", "over", "aborted"}
          /\ missed \in BOOLEAN /\ args \in 0 .. Width
      BY <2>1 DEF Typed
    <2> QED BY <2>2, <2>3, <2>4, <2>5, <2>6, <2>7, <2>8, <2>9 DEF TypeOK
  <1> QED BY <1>1, DropInvariantHolds, PTL

(* As long as no drop() method failed or was refused, dropInstances never  *)
(* runs the drop() method of an instance twice, whatever the methods, the  *)
(* scopes and the returns within them do to activeInstances meanwhile.     *)
THEOREM OnceUnlessMissed == Spec => []DroppedOnceUnlessMissed
PROOF
  <1>1. DInv => DroppedOnceUnlessMissed
    BY DEF DInv, Typed, Counted, DroppedOnceUnlessMissed, DroppedOnce
  <1> QED BY <1>1, DropInvariantHolds, PTL

(* ... and by the end of the interpreter clearVM and ~VM have run them all.*)
THEOREM AllDroppedAtEnd == Spec => []AllDropped
PROOF
  <1>1. DInv => AllDropped
    <2> SUFFICES ASSUME DInv, status = "over", ~missed, NEW i \in DOMAIN insts,
                        insts[i].made, insts[i].of.drop
                 PROVE  insts[i].drops = 1
      BY DEF AllDropped
    <2>1. Typed /\ Ends /\ Counted BY DEF DInv
    <2>2. active = <<>> BY <2>1 DEF Ends
    <2>3. insts[i].drops <= 1 /\ insts[i].drops # 0 BY <2>1, <2>2 DEF Counted
    <2>4. insts[i].drops \in Nat
      <3>1. PICK S : S = Instances OBVIOUS
      <3>2. insts \in Seq(S) BY <2>1, <3>1 DEF Typed
      <3>3. insts[i] \in S BY <3>2
      <3> QED BY <3>1, <3>3 DEF Instances
    <2> QED BY <2>3, <2>4
  <1> QED BY <1>1, DropInvariantHolds, PTL

LEMMA StopsAtFence ==
  ASSUME DInv, NEW then, DropsDone(then), NEW since,
         Fence(active, native[Len(native)].limit, since)
  PROVE  \A j \in DOMAIN active : active[j].id <= since
PROOF
  <1>1. Typed BY DEF DInv
  <1>2. PICK d : d = native[Len(native)] OBVIOUS
  <1>3. DropOK(d) /\ d.busy = 0 /\ ~Dropping(d) BY <1>2, DropsDoneFacts
  <1>4. d.limit \in Nat BY <1>3 DEF DropOK
  <1> SUFFICES ASSUME NEW j \in DOMAIN active PROVE active[j].id <= since OBVIOUS
  <1>5. PICK S : S = [addr : 0 .. NumRegs - 1, id : Nat] OBVIOUS
  <1>6. active \in Seq(S) BY <1>1, <1>5 DEF Typed
  <1>7. /\ Len(active) \in DOMAIN active /\ j \in 1 .. Len(active) /\ active # <<>>
        /\ Last(active) = active[Len(active)] /\ active[Len(active)] \in S
    BY <1>6 DEF Last
  <1>8. active[Len(active)].addr \in Nat BY <1>5, <1>7
  <1>9. active[Len(active)].addr < d.limit
    <2>1. ~(active[Len(active)].addr >= d.limit) BY <1>3, <1>7 DEF Dropping
    <2> QED BY <1>4, <1>8, <2>1
  <1> QED BY <1>2, <1>7, <1>9 DEF Fence

(* The loops of dropInstances stop at the first instance below their       *)
(* limit.  Still none that was made in the call, the block or the iteration*)
(* that ends is left behind it in activeInstances.                         *)
THEOREM NothingLeft == Spec => []NoneLeft
PROOF
  <1>1. DInv => NoneLeft
    <2> SUFFICES ASSUME DInv PROVE NoneLeft OBVIOUS
    <2>1. Typed /\ Windows /\ Fenced BY DEF DInv
    <2>2. /\ Depth \in Nat /\ Depth \in 1 .. Depth /\ Ctx[Depth] = cur
          /\ cur \in Contexts /\ Laid(Depth, cur)
      <3>1. Depth \in Nat /\ Depth \in 1 .. MaxDepth + 1 /\ Ctx[Depth] = cur
        BY <2>1, TheContexts
      <3>2. Depth \in 1 .. Depth BY <3>1
      <3> QED BY <2>1, <3>1, <3>2, LaidHere
    <2>3. ASSUME DropsDone("return")
          PROVE  \A j \in DOMAIN active : active[j].id <= cur.since
      <3>1. cur.code.at = "leaving" /\ native[Len(native)].limit = cur.base
        BY <2>3, DropsDoneFacts DEF DropsIn
      <3>2. Depth # 1 BY <2>2, <3>1 DEF Laid
      <3>3. Depth \in 2 .. Depth BY <2>2, <3>2
      <3>4. Fence(active, Ctx[Depth].base, Ctx[Depth].since) BY <2>1, <3>3 DEF Fenced
      <3> QED BY <2>2, <2>3, <3>1, <3>4, StopsAtFence
    <2>4. ASSUME NEW then \in {"exit", "iterate"}, DropsDone(then),
                 Last(native).limit = Reg(Last(cur.blocks).at)
          PROVE  \A j \in DOMAIN active : active[j].id <= Last(cur.blocks).since
      <3>1. /\ cur.blocks # <<>> /\ native[Len(native)].limit = Reg(Last(cur.blocks).at)
        BY <2>4, DropsDoneFacts DEF DropsIn
      <3>2. Len(cur.blocks) \in DOMAIN cur.blocks /\ Last(cur.blocks) = cur.blocks[Len(cur.blocks)]
        <4>1. Len(cur.blocks) \in Nat /\ DOMAIN cur.blocks = 1 .. Len(cur.blocks)
              /\ cur.blocks \in Seq([at : Nat, since : Nat])
          BY <2>2, ContextFields
        <4>2. Len(cur.blocks) # 0 BY <3>1, <4>1
        <4> QED BY <4>1, <4>2 DEF Last
      <3>3. FencedIn(active, cur) BY <2>1, <2>2 DEF Fenced
      <3>4. Fence(active, native[Len(native)].limit, Last(cur.blocks).since)
        BY <3>1, <3>2, <3>3 DEF FencedIn, Reg
      <3> QED BY <2>4, <3>4, StopsAtFence
    <2> QED BY <2>3, <2>4 DEF NoneLeft
  <1> QED BY <1>1, DropInvariantHolds, PTL
=============================================================================
