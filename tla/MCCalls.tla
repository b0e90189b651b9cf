------------------------------ MODULE MCCalls ------------------------------
(* The functions and types of Calls' runs.                                 *)
EXTENDS Calls

F(min, max, rest) == [min |-> min, max |-> max, rest |-> rest]
T(ctor, method, field, drop) == [ctor |-> ctor, method |-> method, field |-> field, drop |-> drop]

(* calls: what is passed and returned.                                     *)
Temps == <<3, 1, 1>>
FewFuns == {F(0, 1, FALSE), F(1, 1, TRUE)}
FewTypes == {T(F(1, 1, FALSE), NoFun, FALSE, TRUE), T(NoFun, F(0, 1, FALSE), TRUE, FALSE)}

(* drops: when instances end.                                              *)
NoArgs == {F(0, 0, FALSE)}
DropTypes == {T(NoFun, NoFun, FALSE, TRUE)}
DropTemps == <<2, 1, 1>>

(* method_calls: a method and two instances.                               *)
WithMethod == {T(NoFun, F(0, 0, FALSE), FALSE, FALSE)}
MethodTemps == <<2, 0>>

(* What later steps can depend on: registers that no code can name hold    *)
(* values left behind by ended calls, which nothing reads, except for the  *)
(* slot of a callee and the two registers of an instance being made; and   *)
(* args is read by the next OP_VAR_ARGS only.                              *)
Slots == {cur.base} \cup {frames[i].base : i \in DOMAIN frames}
Making == IF Doing("make") THEN {Reg(Last(native).start - 1), Reg(Last(native).start)} ELSE {}
LiveState ==
  <<cur, frames, native, implicit, scopes, active, insts, bound, status, missed,
    Activation(cur).vals, [i \in DOMAIN frames |-> Activation(frames[i]).vals],
    [r \in {b - 1 : b \in Slots \ {0}} \cup Making |-> regs[r]],
    IF cur.code.at \in {"gather", "default"} THEN args ELSE 0>>

(* With NoArgs and DropTypes, all that later steps read of a register is   *)
(* whether it holds something to call or an instance to complete, and what *)
(* is put back after drop() lies above every register in use.              *)
Use(v) == CASE v = Callee -> -1
            [] IsInst(v) -> IF insts[v.id].literal THEN v.id ELSE 0
            [] OTHER -> 0
Named(frame) == {r \in frame.base - 1 .. frame.base + frame.top - 1 : r >= 0}
DropState ==
  <<cur, frames, implicit, scopes, active, insts, status, missed,
    [i \in DOMAIN native |->
       IF native[i].op = "call" THEN [native[i] EXCEPT !.copy = 0] ELSE native[i]],
    [r \in Named(cur) \cup UNION {Named(frames[i]) : i \in DOMAIN frames} |-> Use(regs[r])]>>
=============================================================================
