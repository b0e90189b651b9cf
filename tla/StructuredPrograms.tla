------------------------ MODULE StructuredPrograms ------------------------
(***************************************************************************)
(* The control structures of the language as its documentation             *)
(* (docs/syntax/control_flow.md) and its tests (test/branching/match.ch)   *)
(* describe them: the trees of statements, which of them are well formed,  *)
(* and what a program does next after each of its observable steps.        *)
(*                                                                         *)
(* An observable step is a plain expression statement, the test of a       *)
(* condition, or the advance of a for loop.  `rest' is what is left to do: *)
(* a sequence of statements and of marks for the structures being run.     *)
(***************************************************************************)
EXTENDS Sequences, SequencesExt

NoLabel == "none"

\* Conditions: a test whose outcome is arbitrary, and the expressions that
\* decide which tests are made.
Test(id) == [kind |-> "test", id |-> id]
And(a, b) == [kind |-> "and", left |-> a, right |-> b]
Or(a, b) == [kind |-> "or", left |-> a, right |-> b]
Choose(a, b, c) == [kind |-> "choose", cond |-> a, yes |-> b, no |-> c]

\* Statements.  Nothing is an absent body, and the empty statement.
Nothing == [kind |-> "nothing"]
Plain(id) == [kind |-> "plain", id |-> id]
Block(body) == [kind |-> "block", body |-> body]
If(c, yes, no) == [kind |-> "if", cond |-> c, yes |-> yes, no |-> no]
While(label, c, body, else) ==
    [kind |-> "while", label |-> label, cond |-> c, body |-> body, else |-> else]
For(label, id, where, body, else) ==
    [kind |-> "for", label |-> label, id |-> id, where |-> where, body |-> body,
     else |-> else]
Repeat(label, body, c) ==
    [kind |-> "repeat", label |-> label, cond |-> c, body |-> body]
Match(id, cases) == [kind |-> "match", id |-> id, cases |-> cases]
Case(c, body) == [default |-> FALSE, cond |-> c, body |-> body, falls |-> FALSE]
Default(body) == [default |-> TRUE, body |-> body, falls |-> FALSE]
Break(label) == [kind |-> "break", label |-> label]
Continue(label) == [kind |-> "continue", label |-> label]
End == [kind |-> "end"]
Fallthrough == [kind |-> "fallthrough"]
\* An expression statement with a lambda that nobody calls.
Lambda(body) == [kind |-> "lambda", body |-> body]
\* No `where' clause.
Always == [kind |-> "always"]

IsLoop(s) == s.kind \in {"while", "for", "repeat"}
IsJump(s) == s.kind \in {"break", "continue"}

\* The statements directly inside a statement.
Parts(s) ==
    CASE s.kind \in {"block"} -> Range(s.body)
      [] s.kind = "if" -> {s.yes, s.no}
      [] s.kind \in {"while", "for"} -> {s.body, s.else}
      [] s.kind \in {"repeat", "lambda"} -> {s.body}
      [] s.kind = "match" -> {s.cases[i].body : i \in DOMAIN s.cases}
      [] OTHER -> {}

RECURSIVE Within(_)
Within(s) == {s} \union UNION {Within(t) : t \in Parts(s)}

\* The case body falls through when it ends in a `fallthrough' statement.
RECURSIVE FallsThrough(_)
FallsThrough(s) ==
    \/ s = Fallthrough
    \/ s.kind = "block" /\ s.body # <<>> /\ FallsThrough(Last(s.body))

-----------------------------------------------------------------------------
(* Marks in `rest'. *)

Branch(c, yes, no) == [kind |-> "branch", cond |-> c, yes |-> yes, no |-> no]
Advance(s, yes, no) == [kind |-> "next", id |-> s.id, yes |-> yes, no |-> no]
Looping(s) == [kind |-> "looping", loop |-> s]
Matching == [kind |-> "matching"]
\* The first of the cases is to be compared, run, or has been run.
Try(cases) == [kind |-> "try", cases |-> cases]
Run(cases, falling) == [kind |-> "run", cases |-> cases, falling |-> falling]
Ran(cases, falling) == [kind |-> "ran", cases |-> cases, falling |-> falling]

\* What a loop does when its body is done, and when it starts.
Again(s) ==
    CASE s.kind = "while" -> Branch(s.cond, <<s.body, Looping(s)>>, <<s.else>>)
      [] s.kind = "repeat" -> Branch(s.cond, <<>>, <<s.body, Looping(s)>>)
      [] s.kind = "for" ->
            Advance(s, IF s.where = Always THEN <<s.body, Looping(s)>>
                       ELSE <<Branch(s.where, <<s.body>>, <<>>), Looping(s)>>,
                    <<s.else>>)

\* The place in `rest' of the loop that a jump names, and of the match that
\* an `end' statement ends.
LoopOf(rest, label) ==
    SelectInSeq(rest, LAMBDA m : m.kind = "looping" /\ label \in {NoLabel, m.loop.label})
MatchOf(rest) == SelectInSeq(rest, LAMBDA m : m.kind = "matching")

From(rest, i) == SubSeq(rest, i, Len(rest))

\* The conditions that other conditions are made of are tested one at a time.
Split(b) ==
    LET c == b.cond IN
    CASE c.kind = "and" -> Branch(c.left, <<Branch(c.right, b.yes, b.no)>>, b.no)
      [] c.kind = "or" -> Branch(c.left, b.yes, <<Branch(c.right, b.yes, b.no)>>)
      [] c.kind = "choose" ->
            Branch(c.cond, <<Branch(c.yes, b.yes, b.no)>>, <<Branch(c.no, b.yes, b.no)>>)

Observable(m) ==
    \/ m.kind \in {"plain", "next"}
    \/ m.kind = "branch" /\ m.cond.kind = "test"

\* One step that nobody observes.  A case falls into the next one when its
\* body is empty, when it ends in `fallthrough', and when it was itself
\* reached by falling from such a case.
Unfold(rest) ==
    LET m == Head(rest)
        after == Tail(rest) IN
    CASE m.kind = "block" -> m.body \o after
      [] m.kind = "if" -> <<Branch(m.cond, <<m.yes>>, <<m.no>>)>> \o after
      [] m.kind \in {"while", "for"} -> <<Again(m)>> \o after
      [] m.kind = "repeat" -> <<m.body, Looping(m)>> \o after
      [] m.kind = "looping" -> <<Again(m.loop)>> \o after
      [] m.kind = "match" -> <<Plain(m.id), Try(m.cases), Matching>> \o after
      [] m.kind = "branch" -> <<Split(m)>> \o after
      [] m.kind = "try" ->
            (IF m.cases = <<>> THEN <<>>
             ELSE IF Head(m.cases).default THEN <<Run(m.cases, FALSE)>>
             ELSE <<Branch(Head(m.cases).cond, <<Run(m.cases, FALSE)>>, <<Try(Tail(m.cases))>>)>>)
            \o after
      [] m.kind = "run" -> <<Head(m.cases).body, Ran(m.cases, m.falling)>> \o after
      [] m.kind = "ran" ->
            (LET falls == m.falling \/ FallsThrough(Head(m.cases).body) IN
             IF Tail(m.cases) # <<>> /\ (falls \/ Head(m.cases).body = Nothing)
             THEN <<Run(Tail(m.cases), falls)>> ELSE <<>>)
            \o after
      [] m.kind = "break" -> From(rest, LoopOf(rest, m.label) + 1)
      [] m.kind = "continue" -> From(rest, LoopOf(rest, m.label))
      [] m.kind = "end" -> From(rest, MatchOf(rest) + 1)
      [] m.kind \in {"nothing", "fallthrough", "lambda", "matching"} -> after

RECURSIVE ToObservable(_)
ToObservable(rest) ==
    IF rest = <<>> \/ Observable(Head(rest)) THEN rest ELSE ToObservable(Unfold(rest))

Done == [op |-> "HALT"]

\* The step a program takes next; `rest' is as ToObservable leaves it.
Expected(rest) ==
    IF rest = <<>> THEN Done
    ELSE LET m == Head(rest) IN
         CASE m.kind = "plain" -> [op |-> "PLAIN", id |-> m.id]
           [] m.kind = "branch" -> [op |-> "TEST", id |-> m.cond.id]
           [] m.kind = "next" -> [op |-> "NEXT", id |-> m.id]

\* What is left after it; `outcome' is that of the test or the advance.
After(rest, outcome) ==
    LET m == Head(rest) IN
    ToObservable(IF m.kind = "plain" THEN Tail(rest)
                 ELSE (IF outcome THEN m.yes ELSE m.no) \o Tail(rest))

-----------------------------------------------------------------------------
(***************************************************************************)
(* Which programs are well formed: every jump has a target around it, in   *)
(* the same function; the default case is the last; `fallthrough' is       *)
(* followed by the end of its block or the next case.  `scope' is what is  *)
(* around a statement; `scope.closes' says that such an end follows it.    *)
(***************************************************************************)

Outermost == [loop |-> FALSE, match |-> FALSE, labels |-> {}, closes |-> FALSE]

InLoop(scope, label) ==
    [scope EXCEPT !.loop = TRUE, !.labels = @ \union ({label} \ {NoLabel})]

RECURSIVE WellFormed(_, _)
WellFormed(s, scope) ==
    CASE s.kind = "block" ->
            \A i \in DOMAIN s.body :
                WellFormed(s.body[i], [scope EXCEPT !.closes = i = Len(s.body)])
      [] s.kind = "if" ->
            /\ WellFormed(s.yes, [scope EXCEPT !.closes = @ /\ s.no = Nothing])
            /\ WellFormed(s.no, scope)
      [] s.kind \in {"while", "for"} ->
            /\ WellFormed(s.body, [InLoop(scope, s.label) EXCEPT !.closes = @ /\ s.else = Nothing])
            /\ WellFormed(s.else, scope)
      [] s.kind = "repeat" -> WellFormed(s.body, InLoop(scope, s.label))
      [] s.kind = "match" ->
            \A i \in DOMAIN s.cases :
                /\ s.cases[i].default => i = Len(s.cases)
                /\ WellFormed(s.cases[i].body, [scope EXCEPT !.match = TRUE, !.closes = TRUE])
      [] s.kind = "lambda" -> WellFormed(s.body, Outermost)
      [] s.kind \in {"break", "continue"} ->
            IF s.label = NoLabel THEN scope.loop ELSE s.label \in scope.labels
      [] s.kind = "end" -> scope.match
      [] s.kind = "fallthrough" -> scope.match /\ scope.closes
      [] OTHER -> TRUE

-----------------------------------------------------------------------------
(* Programs about which the documentation says what they do. *)

\* The jumps of a statement whose targets are outside of it.
RECURSIVE Open(_)
Open(s) ==
    CASE IsJump(s) \/ s \in {End, Fallthrough} -> {s}
      [] IsLoop(s) ->
            {j \in Open(s.body) : IsJump(j) => j.label \notin {NoLabel, s.label}}
            \union (IF s.kind = "repeat" THEN {} ELSE Open(s.else))
      [] s.kind = "match" -> UNION {Open(t) : t \in Parts(s)} \ {End, Fallthrough}
      [] OTHER -> UNION {Open(t) : t \in Parts(s)}

\* `fallthrough' is only at the end of the statement.
RECURSIVE FallsAtEnd(_)
FallsAtEnd(s) ==
    \/ s = Fallthrough
    \/ Fallthrough \notin Open(s)
    \/ /\ s.kind = "block"
       /\ \A i \in 1..(Len(s.body) - 1) : Fallthrough \notin Open(s.body[i])
       /\ FallsAtEnd(Last(s.body))

\* Functions keep to themselves, a label names one active loop, an else clause
\* does not jump out of the loop it comes after, and `fallthrough' is at the
\* end of case bodies.
Documented(program) ==
    \A s \in Within(program) :
        /\ s.kind = "lambda" => Open(s.body) = {}
        /\ IsLoop(s) /\ s.label # NoLabel =>
               \A t \in Within(s) \ {s} : IsLoop(t) => t.label # s.label
        /\ s.kind \in {"while", "for"} =>
               \A j \in Open(s.else) : IsJump(j) => j.label \notin {NoLabel, s.label}
        /\ s.kind = "match" => \A i \in DOMAIN s.cases : FallsAtEnd(s.cases[i].body)
=============================================================================
