--------------------------- MODULE MCControlFlow ---------------------------
(* Lines for ControlFlow: jumps in structures in structures. *)
EXTENDS ControlFlow

Jumps == {Break(NoLabel), Break("x"), Break("y"), Continue(NoLabel), Continue("x"), End, Fallthrough}

\* A jump in a block, alone, in one branch, at the end of a block.
Bodies ==
    {Plain("m"), Nothing}
    \union {Block(<<j>>) : j \in Jumps}
    \union {Block(<<If(Test("c"), j, Nothing), Plain("m")>>) : j \in Jumps}
    \union {Block(<<Plain("m"), j>>) : j \in {End, Fallthrough}}

Elses == {Nothing, Plain("else"), Block(<<Break(NoLabel)>>), Block(<<Continue("x")>>)}

Inner(Body) ==
    Body
    \union {While(l, Test("w"), b, e) : l \in {NoLabel, "y"}, b \in Body, e \in Elses}
    \union {While("x", Test("w"), Plain("m"), Nothing)}
    \union {For("y", "f", w, b, Nothing) : w \in {Always, Test("where")}, b \in Body}
    \union {Repeat(NoLabel, b, Test("u")) : b \in {b \in Body : b.kind = "block"}}
    \union {Match("v", <<Case(Test("v1"), b), Case(Test("v2"), Plain("n")), d>>) :
                b \in Body, d \in {Case(Test("v3"), Plain("d")), Default(Plain("d"))}}
    \union {Lambda(b) : b \in {b \in Body : b.kind = "block"}}

Outer(Part) ==
    {While("x", Test("W"), Block(<<s, Plain("after")>>), Plain("Else")) : s \in Part}
    \union {For("x", "F", Always, Block(<<s, Plain("after")>>), Plain("Else")) : s \in Part}
    \union {Repeat("x", Block(<<s, Plain("after")>>), Test("U")) : s \in Part}
    \union {Match("V", <<Case(Test("V1"), Block(<<s, Plain("after")>>)),
                        Case(Test("V2"), s), Default(Plain("D"))>>) : s \in Part}

\* Matches of four cases, the last of which may be the default.
CaseBodies == {Nothing, Plain("b"), Fallthrough, Block(<<Plain("b"), Fallthrough>>), End}
Matches ==
    {Match("v", <<Case(Test("v1"), a), Case(Test("v2"), b), Case(Test("v3"), c), d>>) :
        a, b, c \in CaseBodies, d \in {Default(Plain("d")), Case(Test("v4"), Plain("d"))}}

\* A case after the default.
LateCases ==
    {Match("v", <<Case(Test("v1"), Plain("b")), Default(b), Case(Test("v2"), Plain("c"))>>) :
        b \in {Plain("d"), Block(<<Fallthrough>>)}}

\* Conditions.
Atoms == {Test("p"), And(Test("p"), Test("q")), Or(Test("p"), Test("q")),
          Choose(Test("p"), Test("q"), Test("r"))}
Conditions ==
    Atoms \union {And(a, Test("z")) : a \in Atoms} \union {Or(Test("z"), a) : a \in Atoms}
    \union {Choose(a, Test("y"), a) : a \in Atoms}
Conditionals ==
    {If(c, Plain("yes"), Plain("no")) : c \in Conditions}
    \union {While(NoLabel, c, Plain("yes"), Plain("no")) : c \in Conditions}
    \union {Repeat(NoLabel, Block(<<Plain("yes")>>), c) : c \in Conditions}

MCPrograms ==
    Conditionals \union Matches \union LateCases \union Inner(Bodies) \union Outer(Inner(Bodies))
=============================================================================
