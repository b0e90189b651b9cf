-------------------------- MODULE MCBytecodeCache ---------------------------
(***************************************************************************)
(* BytecodeCache on three scripts, one that does not compile and two with  *)
(* every kind of constant between them; letters are numbers.               *)
(***************************************************************************)
EXTENDS BytecodeCache

Chunk(code, pool, metadata) == [code |-> code, pool |-> pool, metadata |-> metadata]
String(chars) == [type |-> "String", chars |-> chars]
Func(type, name, min, max, variadic, computed, chunks) ==
  [type |-> type, name |-> name, min |-> min, max |-> max, variadic |-> variadic,
   computed |-> computed, chunks |-> chunks]

(* `func f(a, b = n, c = "..") { .. }`, `..|x: \\. return y|..`, 300         *)
Functions ==
  LET name   == <<102>>
      nested == Func("Lambda", <<>>, 1, 1, FALSE, TRUE,
                     <<Chunk(<<7, 7>>, <<String(<<95>>)>>, <<>>)>>)
      body   == Chunk(<<5, 6>>, <<String(name), nested>>, <<<<0, 2, 3, 300>>>>)
      f      == Func("UserFunc", name, 1, 3, TRUE, FALSE,
                     <<body, Chunk(<<8>>, <<>>, <<>>),
                       Chunk(<<9>>, <<[type |-> "Int", value |-> 11]>>, <<<<0, 1, 4, 5>>>>)>>) IN
  [name |-> <<97>>, markers |-> <<0, 260>>] @@
    Chunk(<<1, 2, 3>>, <<f, [type |-> "Int", value |-> 300]>>, <<<<0, 1, 0, 9>>, <<1, 3, 9, 12>>>>)

(* `import m; type T { fix p; pub q; } .. 2.5 .. "" ..`                    *)
Types ==
  [name |-> <<97>>, markers |-> <<>>] @@
    Chunk(<<4>>,
          <<[type |-> "Module", name |-> <<109>>],
            [type |-> "UserType", name |-> <<84>>,
             fields |-> <<[name |-> <<112>>, fixed |-> TRUE, pub |-> FALSE],
                          [name |-> <<113>>, fixed |-> FALSE, pub |-> TRUE]>>],
            [type |-> "UserType", name |-> <<85, 86>>, fields |-> <<>>],
            [type |-> "Dec", value |-> 25], [type |-> "Text", chars |-> <<>>],
            [type |-> "String", chars |-> <<1, 2>>]>>,
          <<>>)

(* `print;`: nothing but code.                                             *)
Plain == [name |-> <<97>>, markers |-> <<0>>] @@ Chunk(<<1, 2>>, <<>>, <<<<0, 2, 0, 6>>>>)

Invalid == [name |-> <<97>>, markers |-> <<>>] @@ Chunk(<<>>, <<>>, <<>>)

MCTexts == {Functions, Types, Plain, Invalid}
MCBroken == {Invalid}
MCBeyond == {"killed"}
=============================================================================
