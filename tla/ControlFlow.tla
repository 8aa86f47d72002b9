----------------------------- MODULE ControlFlow -----------------------------
(* What JavaScript's statements mean, as a definitional interpreter: the
   reference for the compiler and the interpreter.  A statement is a tree; it
   has a text, which is compiled, and it has an effect on a counter and a log,
   and a completion: normal, or a break, a continue, a return or a throw that
   looks for its target outwards.                                          *)
EXTENDS Lexer, SequencesExt, TLC

Node(k, n, c) == [k |-> k, n |-> n, c |-> c]
Trace(n) == Node("trace", n, <<>>)
Break == Node("break", 0, <<>>)
Continue == Node("continue", 0, <<>>)
BreakOuter == Node("break", 1, <<>>)
ContinueOuter == Node("continue", 1, <<>>)
Return(n) == Node("return", n, <<>>)
Throw(n) == Node("throw", n, <<>>)
Block(c) == Node("block", 0, c)
While(n, b) == Node("while", n, <<b>>)
DoWhile(n, b) == Node("do", n, <<b>>)
ForLoop(n, b) == Node("for", n, <<b>>)
ForOf(n, b) == Node("of", n, <<b>>)
Labelled(n, b) == Node("label", n, <<b>>)
If(n, b, e) == Node("if", n, <<b, e>>)
Switch(n, b, e) == Node("switch", n, <<b, e>>)
Catch(n, b, h) == Node("catch", n, <<b, h>>)
Finally(n, b, f) == Node("finally", n, <<b, f>>)

Label(n) == IF n = 0 THEN "" ELSE "L" \o ToString(n)
Named(n) == IF n = 0 THEN "" ELSE Label(n) \o ": "
(* The texts around and between a statement's parts, and its tokens. *)
Texts(s, n) ==
    CASE s.k = "trace" -> <<"print(" \o n \o ");">>
      [] s.k \in {"break", "continue"} -> <<s.k \o " " \o Label(s.n) \o ";">>
      [] s.k \in {"return", "throw"} -> <<s.k \o " " \o n \o ";">>
      [] s.k = "while" -> <<Named(s.n) \o "while (i < 2) { i++;", "}">>
      [] s.k = "do" -> <<Named(s.n) \o "do {", "} while (i++ < 2);">>
      [] s.k = "for" -> <<Named(s.n) \o "for (; i < 2; i++) {", "}">>
      [] s.k = "of" -> <<Named(s.n) \o "for (var v of [4, 5]) {", "}">>
      [] s.k = "label" -> <<Named(s.n) \o "{", "}">>
      [] s.k = "if" -> <<"if (i == " \o n \o ") {", "} else {", "}">>
      [] s.k = "switch" -> <<"switch (i) { case " \o n \o ": ", " default: ", "}">>
      [] s.k = "catch" -> <<"try {", "} catch (e" \o n \o ") { print(e" \o n \o ");", "}">>
      [] s.k = "finally" -> <<"try {", "} finally {", "}">>
T(text) == Front(Tokens(text))
RECURSIVE Source(_)
Source(s) ==
    LET texts == [i \in 1 .. Len(s.c) + 1 |-> IF s.k = "block" THEN "" ELSE Texts(s, ToString(s.n))[i]]
    IN FlattenSeq([i \in DOMAIN texts |-> T(texts[i]) \o (IF i <= Len(s.c) THEN Source(s.c[i]) ELSE <<>>)])
(* The program that calls a function with the statement as its body. *)
Program(s) == T("function f() { var i = 0;") \o Source(s) \o Tokens("return 0; } f()")

-----------------------------------------------------------------------------
(* The state of an evaluation: the counter, the log and the completion. *)
Normal == [k |-> "normal", n |-> 0]
Running(r) == r.c = Normal
Ends(r, n) == r.c.k = "break" /\ r.c.n \in {0, n}
(* What a loop of label n does with a continue of its own. *)
Continued(r, n) == IF r.c.k = "continue" /\ r.c.n \in {0, n} THEN [r EXCEPT !.c = Normal] ELSE r
Ended(r, n) == IF Ends(r, n) THEN [r EXCEPT !.c = Normal] ELSE r
Step(r) == [r EXCEPT !.i = @ + 1]

RECURSIVE Eval(_, _), Loop(_, _, _)
(* The rest of a loop, before it tests its condition; left counts a for-of. *)
Loop(s, r, left) ==
    LET start == IF s.k = "while" THEN Step(r) ELSE r
        body == Continued(Eval(s.c[1], start), s.n)
        next == IF s.k \in {"do", "for"} THEN Step(body) ELSE body
        goes_on == CASE s.k = "do" -> body.i < 2 [] s.k = "of" -> left > 1 [] OTHER -> next.i < 2
    IN IF ~Running(body) THEN Ended(body, s.n)
       ELSE IF goes_on THEN Loop(s, next, left - 1) ELSE next
Eval(s, r) ==
    CASE ~Running(r) -> r
      [] Running(r) /\ s.k = "trace" -> [r EXCEPT !.log = Append(@, s.n)]
      [] Running(r) /\ s.k \in {"break", "continue", "return", "throw"} -> [r EXCEPT !.c = [k |-> s.k, n |-> s.n]]
      [] Running(r) /\ s.k = "block" -> FoldLeft(LAMBDA t, c : Eval(c, t), r, s.c)
      [] Running(r) /\ s.k \in {"while", "for"} -> IF r.i < 2 THEN Loop(s, r, 0) ELSE r
      [] Running(r) /\ s.k \in {"do", "of"} -> Loop(s, r, 2)
      [] Running(r) /\ s.k = "label" ->
           LET b == Eval(s.c[1], r) IN IF b.c = [k |-> "break", n |-> s.n] THEN [b EXCEPT !.c = Normal] ELSE b
      [] Running(r) /\ s.k = "if" -> Eval(s.c[IF r.i = s.n THEN 1 ELSE 2], r)
      [] Running(r) /\ s.k = "switch" ->
           LET entry == IF r.i = s.n THEN Eval(s.c[1], r) ELSE r IN Ended(Eval(s.c[2], entry), 0)
      [] Running(r) /\ s.k = "catch" ->
           LET b == Eval(s.c[1], r)
           IN IF b.c.k # "throw" THEN b ELSE Eval(s.c[2], [b EXCEPT !.c = Normal, !.log = Append(@, b.c.n)])
      [] Running(r) /\ s.k = "finally" ->
           LET b == Eval(s.c[1], r)
               f == Eval(s.c[2], [b EXCEPT !.c = Normal])
           IN IF Running(f) THEN [f EXCEPT !.c = b.c] ELSE f
Meaning(s) == Eval(Block(<<s, Return(0)>>), [i |-> 0, log |-> <<>>, c |-> Normal])
=============================================================================
