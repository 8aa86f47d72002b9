------------------------------ MODULE MCMachine ------------------------------
(* The programs of the run: a statement of every kind, in one of every kind,
   in a labelled loop, around each way of leaving; and programs on objects,
   closures and the rest of the language, with the results JavaScript gives
   them; and the programs on which the interpreter departs from that.       *)
EXTENDS Machine

F == INSTANCE ControlFlow
C == INSTANCE Compiler

Leaves == <<F!Trace(1), F!Break, F!Continue, F!BreakOuter, F!ContinueOuter, F!Return(7), F!Throw(8)>>
(* A statement around s; the number keeps labels and names apart. *)
Around(n, s) ==
    << F!While(n, s), F!DoWhile(n, s), F!ForLoop(n, s), F!ForOf(n, s), F!Labelled(n, s), F!If(1, s, F!Trace(2)),
       F!Switch(1, s, F!Trace(3)), F!Switch(0, F!Trace(3), s), F!Catch(n, s, F!Trace(4)), F!Catch(n, F!Throw(8), s),
       F!Finally(n, s, F!Trace(5)), F!Finally(n, F!Throw(9), s), F!Finally(n, F!Return(6), s) >>
Kinds == 13
Tree(a, b, l) ==
    F!While(1, F!Block(<<Around(2, F!Block(<<Around(3, Leaves[l])[b], F!Trace(10)>>))[a], F!Trace(11)>>))
TreeCount == Kinds * Kinds * Len(Leaves)
TreeOf(i) == Tree(1 + (i % Kinds), 1 + ((i \div Kinds) % Kinds), 1 + ((i \div (Kinds * Kinds)) % Len(Leaves)))

(* A text, what it returns or throws and what it prints. *)
Expect(text, r, l) == [text |-> text, result |-> r, log |-> l]
Handwritten == <<
    Expect("var x = 1; function f(a, b) { L: while (a < 3) { try { if (b) break L; a++ } finally { print(a); } } return function() { return a + x; }; }\n x = f(1, 2)() + f(0)(); x",
           Num(6), <<Num(1), Num(1), Num(2), Num(3)>>),
    Expect("function mk() { var n = 0; return {inc: function() { n += 1; return n }, get: function() { return n }} } var a = mk(), b = mk(); a.inc(); a.inc(); b.inc(); print(a.get()); b.get()",
           Num(1), <<Num(2)>>),
    Expect("var fs = []; function g(x) { fs[fs.length] = function() { return x++ } } g(1); g(5); print(fs[0]()); print(fs[0]()); fs[1]()",
           Num(5), <<Num(1), Num(2)>>),
    Expect("function outer(a) { function mid() { return function() { a = a * 2; return a } } var m = mid(); m(); return a + m() } outer(3)",
           Num(18), <<>>),
    Expect("function f() { function g() { return v } var r = g(); v = 3; var v; return g() + (r === void 0 ? 1 : 2) } f()",
           Num(4), <<>>),
    Expect("print(h()); function h() { return k } var k = 1; h()",
           Num(1), <<Undefined>>),
    Expect("var o = {a: 1, get b() { return this.a + 1; }, set b(v) { this.a = v }, m(x) { return this.b * x }}; o.b = 4; print(o.m(2)); o.a++; print(o.b); for (var k in o) print(k); delete o.a; 'a' in o",
           Bool(FALSE), <<Num(10), Num(6), Str("a"), Str("b"), Str("m")>>),
    Expect("var p = {get v() { return this.n + 1 }, set v(x) { this.n = x }}; var o = {n: 1, __proto__: p}; print(o.v); o.v = 5; print(o.n); print(o.v++); o.v",
           Num(8), <<Num(2), Num(5), Num(6)>>),
    Expect("function A(x) { this.x = x; } A.prototype.get = function() { return this.x }; var a = new A(3); print(a.get()); print(a instanceof A); A.prototype = {}; a instanceof A",
           Bool(FALSE), <<Num(3), Bool(TRUE)>>),
    Expect("var o = {__proto__: print}; try { o.prototype } catch (e) { print(1) } try { o.prototype = 2 } catch (e1) { print(2) } print.prototype",
           Undefined, <<Num(1), Num(2)>>),
    Expect("function F() { this.t = new.target === F } print(new F().t); print((new F).t); function G() { return {z: 1} } new G().z",
           Num(1), <<Bool(TRUE), Bool(TRUE)>>),
    Expect("function f(a) { return this.x + a } var o = {f: f, x: 4}; print(f.call({x: 2}, 3)); o['f'](1) + o.f(2)",
           Num(11), <<Num(5)>>),
    Expect("function f(a, b) { a = 2; print(arguments[0]); print(arguments.length); return b } f(1)",
           Undefined, <<Num(1), Num(1)>>),
    Expect("function g() { throw 4 } function f() { try { g() } finally { print(1) } } try { f() } catch (e) { print(e) } null.x",
           Error("TypeError"), <<Num(1), Num(4)>>),
    Expect("function f() { for (var x of [1, 2]) { try { continue } finally { if (x == 2) return 'r' + x } } } f()",
           Str("r2"), <<>>),
    Expect("var r = 0; a: for (var i = 0; i < 3; i++) { for (var j = 0; j < 3; j++) { if (j == 1) continue a; if (i == 2) break a; r += 1 } } r",
           Num(2), <<>>),
    Expect("print(typeof zz); print(typeof function() {}); print(1 ? 2 : 3); print(0 || 4); print(0 && 5); print((1, 6)); print(~5 & 3); 7 >> 1 << 2 ^ 1",
           Num(13), <<Str("undefined"), Str("function"), Num(2), Num(4), Num(0), Num(6), Num(2)>>),
    Expect("print('2' * 3 - -1); print('a' + 1); print(null == void 0); print(1 === '1'); print('1' == true); print(2 ** 3 ** 1); print(!'' + +'4'); -7 % 3",
           Num(-1), <<Num(7), Str("a1"), Bool(TRUE), Bool(FALSE), Bool(TRUE), Num(8), Num(5)>>),
    Expect("try { zz } catch (e) { print(1) } function f() { zz = 4 } try { f() } catch (e1) { print(2) } typeof zz",
           Str("undefined"), <<Num(1), Num(2)>>),
    Expect("var o = {a: [1, 2, 3, 4, 5]}; o.a[0]++; o.a[1] += 5; --o.a[0]; print(o.a[0]); print(o.a[1]); o.a.length",
           Num(5), <<Num(1), Num(7)>>),
    Expect("var s = 'abc'; try { s.length() } catch (e) { print(s.length) } do { var t = s; if (t) break } while (t); t",
           Str("abc"), <<Num(3)>>),
    Expect("var o = {x: 1, y: 2, z: 3}; delete o.y; for (var k in o) print(k); o.y = 4; for (k in o) print(k); switch (o.y) { case 1: case 4: print('four'); case 5: break; default: print('no') } o.y",
           Num(4), <<Str("x"), Str("z"), Str("x"), Str("z"), Str("y"), Str("four")>>),
    Expect("var a = 1; a = a ? a + 1 : 0; var = 3",
           Error("SyntaxError"), <<>>),
    Expect("function f(n) { return n ? f(n - 1) + n : 0 } for (var i = 0; i < 3; i++) ; f(i)",
           Num(6), <<>>),
    Expect("try { new print() } catch (e) { print(1) } try { new print.call() } catch (e1) { print(2) } print.run; typeof print.run",
           Str("undefined"), <<Num(1), Num(2), Undefined, Undefined>>),
    Expect("var o = {get length() { return 3 }, get y() { return 4 }, set y(v) { this.z = v }}; o['y'] = 5; print(o.length); print(o['y'] + o.y); o.y = 6; o.z",
           Num(6), <<Num(3), Num(8)>>),
    Expect("var i = 0; while (i < 2) { try { i++; print(i) } catch (e) { print(8) } finally { print(9) } } i",
           Num(2), <<Num(1), Num(9), Num(2), Num(9)>>) >>
(* Programs on which the code does not do what the language says: what it
   returns instead, nothing if a call loses its flags.  A number has the length
   of the string read before it (OP_get_length tests val, not the value), unless
   a poll came in between.  A setter, or a getter of an element, that is the
   function `call' loses the flags of its caller (JS_Call's tail call).         *)
Departs(text, r, l, rs) == Expect(text, r, l) @@ [instead |-> rs]
Departing == <<
    Departs("function f(a, o) { var c = o.c; return a.length } f(5, {c: 'x'})", Undefined, <<>>, {Num(1)}),
    Departs("function f(a, o) { return o.c ? a.length : 0 } f(5, {c: 'x'})", Undefined, <<>>, {Num(1), Undefined}),
    Departs("print(1); print.run = 3; print(2)", Undefined, <<Num(1), Undefined, Num(2)>>, {}),
    Departs("print(1); print['run'] = 3; print(2)", Undefined, <<Num(1), Undefined, Num(2)>>, {}),
    Departs("print(1); print['run']; 2", Num(2), <<Num(1), Undefined>>, {}) >>
Written == Departing \o Handwritten
MCPrograms == 1 .. TreeCount + Len(Written)
MCCodeOf(p) ==
    C!Compile(IF p <= TreeCount THEN F!Program(TreeOf(p)) ELSE C!Tokens(Written[p - TreeCount].text), TRUE)
(* The shapes, found as compute_stack_size finds the depths but on the way to
   handlers and out of finally blocks too. *)
Joined(j, k) == [i \in DOMAIN k |-> IF j[i] = k[i] THEN k[i] ELSE AnyValue]
Reached(f, t) ==
    LET k == IF t[1] \in DOMAIN f.shape THEN Joined(t[2], f.shape[t[1]]) ELSE t[2]
    IN IF t[1] \in DOMAIN f.shape /\ f.shape[t[1]] = k THEN f
       ELSE [shape |-> (t[1] :> k) @@ f.shape, work |-> f.work \cup {t[1]}]
RECURSIVE ShapeFrom(_, _)
ShapeFrom(fn, f) ==
    LET pc == CHOOSE x \in f.work : TRUE
        rets == IF fn.code[pc][1] = "gosub" THEN {r \in DOMAIN f.shape : fn.code[r][1] = "ret"} ELSE {}
    IN IF f.work = {} THEN f.shape
       ELSE ShapeFrom(fn, FoldSet(LAMBDA t, g : Reached(g, t), [f EXCEPT !.work = (@ \ {pc}) \cup rets], Successors(fn, f.shape, pc)))
MCShapeOf(p) ==
    LET fns == MCCodeOf(p).fns IN [id \in DOMAIN fns |-> ShapeFrom(fns[id], [shape |-> 1 :> <<>>, work |-> {1}])]
MCInterruptible == {TreeCount + Len(Written), TreeCount + Len(Written) - 1}

(* Each program ends as the language says: what it returns or throws, and what
   it prints; an interrupted one printed the beginning of it.  The departing
   programs alone do not, and as listed: they print what the language says but
   return something else, or get to the call that loses its flags. *)
Numbers(seq) == [i \in DOMAIN seq |-> Num(seq[i])]
Outcome(p) ==
    IF p > TreeCount THEN [result |-> Written[p - TreeCount].result, log |-> Written[p - TreeCount].log]
    ELSE LET m == F!Meaning(TreeOf(p)) IN [result |-> Num(m.c.n), log |-> Numbers(m.log)]
Results(p) == IF p - TreeCount \in DOMAIN Departing THEN Departing[p - TreeCount].instead ELSE {Outcome(p).result}
AsTheLanguageSays ==
    /\ status \in {"returned", "thrown"} =>
           IF uncatchable THEN result = Error("InternalError") /\ IsPrefix(log, Outcome(prog).log)
           ELSE log = Outcome(prog).log /\ result \in Results(prog)
    /\ flagsLost => Results(prog) = {} /\ IsStrictPrefix(log, Outcome(prog).log)
=============================================================================
