------------------------------- MODULE Parser -------------------------------
(* The recursive descent over the tokens: expressions and statements, compiled
   as they are read, without a syntax tree.                                  *)
EXTENDS Emitter

(* Expressions.  flags is a subset of {"NO_IN", "DROP", "LPAREN"}. *)

(* A parser that calls one defined below it goes through this one. *)
RECURSIVE Parse(_, _, _)

EmitNumber(s, sign) == LET n == sign * DecimalValue(TokValue(s)) IN Advance(Emit(s, "push_value", n))

(* get, set, a method or a plain field, and the name. *)
js_parse_property_name(s) ==
    LET t == Advance(s)
        accessor == Tok(s) \in {"get", "set"} /\ Tok(t) \notin {":", ",", "}", "("}
        n == IF accessor THEN t ELSE s
        type == IF accessor THEN Tok(s) ELSE IF Tok(Advance(n)) = "(" THEN "method" ELSE "field"
    IN [s |-> IF IsName(Tok(n)) \/ Tok(n) \in {NumberToken, StringToken} THEN Advance(n)
              ELSE js_parse_error(n, "invalid property name"),
        name |-> IF IsName(Tok(n)) THEN Tok(n) ELSE TokValue(n), type |-> type]

RECURSIVE ObjectLiteral(_, _)
DefineOp == [method |-> "define_field", get |-> "define_getter", set |-> "define_setter", field |-> "define_field"]
IsProto(p) == p.type = "field" /\ p.name = "__proto__"
PropertyValue(p, s) ==
    IF p.type = "field" THEN Parse("assign", js_parse_expect(s, ":"), {})
    ELSE js_parse_function_decl(s, "METHOD", p.name)
Define(p, s) == IF IsProto(p) THEN emit_op(s, "set_proto") ELSE Emit(s, DefineOp[p.type], IndexIn(Str(p.name), s.cpool))
MoreProperties(s, proto) ==
    IF s.err # "" THEN s
    ELSE IF Tok(s) # "," THEN js_parse_expect(s, "}") ELSE ObjectLiteral(Advance(s), proto)
Property(p, proto) ==
    IF IsProto(p) /\ proto THEN js_parse_error(p.s, "duplicate __proto__ property name")
    ELSE MoreProperties(Define(p, PropertyValue(p, IF IsProto(p) THEN p.s ELSE cpool_add(p.s, Str(p.name)))),
                        proto \/ IsProto(p))
ObjectLiteral(s, proto) == IF Tok(s) = "}" THEN Advance(s) ELSE Property(js_parse_property_name(s), proto)

(* The first MaxArrayFrom elements are gathered on the stack, the others
   stored one by one. *)
MaxArrayFrom == 3
RECURSIVE ArrayElements(_, _)
ArrayElements(s, n) ==
    LET stored == n >= MaxArrayFrom
        s1 == IF n = MaxArrayFrom THEN Emit(s, "array_from", n) ELSE s
        s2 == IF stored THEN Emit(emit_op(s1, "dup"), "push_value", n) ELSE s1
        s3 == Parse("assign", s2, {})
        s4 == IF stored THEN emit_op(s3, "put_array_el") ELSE s3
    IN IF s.err # "" THEN s
       ELSE IF Tok(s) = "]" THEN Advance(IF n <= MaxArrayFrom THEN Emit(s, "array_from", n) ELSE s)
       ELSE IF Tok(s4) = "," THEN ArrayElements(Advance(s4), n + 1)
       ELSE IF Tok(s4) = "]" THEN ArrayElements(s4, n + 1)
       ELSE js_parse_error(s4, "expecting ]")

(* The arguments up to the closing parenthesis; their number is in argc. *)
RECURSIVE Arguments(_, _)
Arguments(s, n) ==
    LET s1 == Parse("assign", s, {})
    IN IF Tok(s) = ")" \/ s.err # "" THEN [Advance(s) EXCEPT !.argc = n]
       ELSE IF Tok(s1) = ")" THEN [Advance(s1) EXCEPT !.argc = n + 1]
       ELSE IF Tok(s1) # "," THEN js_parse_error(s1, "expecting ,")
       ELSE Arguments(Advance(s1), n + 1)

MethodGets == {"get_field", "get_length", "get_array_el"}
RECURSIVE PostfixRest(_, _, _)
PostfixRest(s, flags, is_new) ==
    LET t == Tok(s)
        n == Advance(s)
        method == ~is_new /\ LastOp(s)[1] \in MethodGets
        called == Arguments(IF method THEN PatchLast(n, LastOp(s)[1] \o "2") ELSE n, 0)
        index == emit_op(js_parse_expect(Parse("comma", n, {}), "]"), "get_array_el")
        lv == LastOp(s)
        old == get_lvalue(n, TRUE)
        step == IF t = "++" THEN "inc" ELSE "dec"
    IN CASE s.err # "" -> s
         [] s.err = "" /\ t = "(" /\ "LPAREN" \in flags ->
              PostfixRest(Emit(called, IF is_new THEN "call_constructor" ELSE IF method THEN "call_method" ELSE "call",
                            called.argc), flags, FALSE)
         [] s.err = "" /\ t = "." ->
              IF ~IsName(Tok(n)) THEN js_parse_error(n, "expecting field name")
              ELSE PostfixRest(Advance(IF Tok(n) = "length" THEN emit_op(n, "get_length")
                                       ELSE EmitConst(n, "get_field", Str(Tok(n)))), flags, is_new)
         [] s.err = "" /\ t = "[" -> PostfixRest(index, flags, is_new)
         [] s.err = "" /\ t \in {"++", "--"} /\ ~GotLf(s) ->
              PostfixRest(IF may_drop_result(n, flags)
                       THEN put_lvalue([emit_op(old, step) EXCEPT !.dropped = TRUE], lv, "NOKEEP_TOP")
                       ELSE put_lvalue(emit_op(old, "post_" \o step), lv, "KEEP_SECOND"), flags, is_new)
         [] OTHER -> IF is_new THEN Emit(s, "call_constructor", 0) ELSE s

(* A primary expression; of `new', the callee, and its call when no argument
   list follows. *)
NewCallee(s) == IF Tok(s) = "(" THEN s ELSE Emit(s, "call_constructor", 0)
Primary(s, t, n) ==
    CASE t = NumberToken -> EmitNumber(s, 1)
      [] t = StringToken -> Advance(js_emit_push_const(s, Str(TokValue(s))))
      [] t = "(" -> js_parse_expect(Parse("comma", n, {}), ")")
      [] t = "function" -> js_parse_function_decl(s, "EXPR", "")
      [] t \in {"null", "false", "true"} -> emit_op(n, IF t = "null" THEN t ELSE "push_" \o t)
      [] t = "this" -> emit_op(n, "push_this")
      [] IsIdent(t) -> Advance(EmitGetVar(s, t))
      [] t = "{" -> ObjectLiteral(emit_op(n, "object"), FALSE)
      [] t = "[" -> ArrayElements(n, 0)
      [] t = "new" /\ Tok(n) = "." -> Advance(js_parse_expect1(emit_op(Advance(n), "new_target"), "target"))
      [] t = "new" /\ Tok(n) # "." -> NewCallee(Parse("postfix", n, {}))
      [] OTHER -> js_parse_error(s, "unexpected character in expression")
PostfixOf(p, flags, is_new) == PostfixRest(p, flags, is_new /\ Tok(p) = "(")
js_parse_postfix_expr(s, flags) ==
    PostfixOf(Primary(s, Tok(s), Advance(s)), flags, Tok(s) = "new" /\ Tok(Advance(s)) # ".")

js_emit_delete(s) ==
    LET op == LastOp(s)
        r == remove_last_op(s)
    IN CASE op[1] = "get_field" -> emit_op(Emit(r, "push_const", op[2]), "delete")
         [] op[1] = "get_length" -> emit_op(js_emit_push_const(r, Str("length")), "delete")
         [] op[1] = "get_array_el" -> emit_op(r, "delete")
         [] OTHER -> js_parse_error(s, "invalid lvalue for delete")

PowRest(p) == IF Tok(p) = "**" THEN emit_op(Parse("unary", Advance(p), {}), "pow") ELSE p
js_parse_unary(s, flags) ==
    LET t == Tok(s)
        n == Advance(s)
        e == Parse("unary", n, {})
    IN CASE t \in {"-", "+"} /\ Tok(n) = NumberToken -> EmitNumber(n, IF t = "-" THEN -1 ELSE 1)
         [] t \in DOMAIN UnaryOps /\ ~(t \in {"-", "+"} /\ Tok(n) = NumberToken) -> emit_op(e, UnaryOps[t])
         [] t = "void" -> emit_op(emit_op(e, "drop"), "undefined")
         [] t \in {"++", "--"} ->
              StoreResult(emit_op(get_lvalue(e, TRUE), IF t = "++" THEN "inc" ELSE "dec"), LastOp(e), flags)
         [] t = "typeof" ->
              emit_op(IF LastOp(e)[1] = "get_var_ref" THEN PatchLast(e, "get_var_ref_nocheck") ELSE e, "typeof")
         [] t = "delete" -> js_emit_delete(e)
         [] OTHER -> PowRest(js_parse_postfix_expr(s, flags \cup {"LPAREN"}))

(* In C one call for each level; here the levels up to the given one at once. *)
RECURSIVE BinaryRest(_, _, _)
BinaryRest(s, flags, level) ==
    LET t == Tok(s)
        own == LevelOf(t)
    IN IF own \notin 1 .. level \/ (t = "in" /\ "NO_IN" \in flags) THEN s
       ELSE BinaryRest(emit_op(BinaryRest(Parse("unary", Advance(s), flags), flags, own - 1), BinaryOps[own][t]),
                       flags, level)
js_parse_expr_binary(s, flags, level) == BinaryRest(js_parse_unary(s, flags), flags \ {"DROP"}, level)

(* Level 1 is &&, level 2 is ||: a chain leaves by one label. *)
RECURSIVE js_parse_logical_and_or(_, _, _), LogicalRest(_, _, _, _)
LogicalRest(s, flags, level, label) ==
    LET op == IF level = 1 THEN "&&" ELSE "||"
        s1 == emit_goto(emit_op(Advance(s), "dup"), IF level = 1 THEN "if_false" ELSE "if_true", label)
    IN IF Tok(s) # op THEN emit_label(s, label)
       ELSE LogicalRest(js_parse_logical_and_or(emit_op(s1, "drop"), flags, level - 1), flags, level, label)
LogicalTail(first, flags, level) ==
    IF Tok(first) # (IF level = 1 THEN "&&" ELSE "||") THEN first
    ELSE LogicalRest(new_labels(first, 1), flags \ {"DROP"}, level, NewLabel(first))
js_parse_logical_and_or(s, flags, level) ==
    IF level = 0 THEN js_parse_expr_binary(s, flags, 8)
    ELSE LogicalTail(js_parse_logical_and_or(s, flags, level - 1), flags, level)

CondRest(c, flags) ==
    LET l1 == NewLabel(c)
        l2 == l1 + 1
        yes == Parse("assign", emit_goto(Advance(new_labels(c, 2)), "if_false", l1), flags)
        no == Parse("assign", emit_label(js_parse_expect(emit_goto(yes, "goto", l2), ":"), l1), flags)
    IN IF Tok(c) # "?" THEN c ELSE emit_label(no, l2)
js_parse_cond_expr(s, flags) == CondRest(js_parse_logical_and_or(s, flags, 2), flags \ {"DROP"})

AssignRest(e, flags) ==
    LET op == Tok(e)
        rhs == Parse("assign", get_lvalue(Advance(e), op # "="), flags \ {"DROP"})
    IN IF op = "=" THEN StoreResult(rhs, LastOp(e), flags)
       ELSE IF op \in DOMAIN AssignOps THEN StoreResult(emit_op(rhs, AssignOps[op]), LastOp(e), flags)
       ELSE e
js_parse_assign_expr(s, flags) == AssignRest(js_parse_cond_expr(s, flags), flags)

(* After a comma the expression is no lvalue. *)
RECURSIVE CommaRest(_, _, _)
CommaItem(s, flags) ==
    LET dropped == IF s.dropped THEN s ELSE emit_op(s, "drop")
    IN IF Tok(s) = "," THEN CommaRest(Advance(dropped), flags, TRUE)
       ELSE IF "DROP" \in flags THEN dropped ELSE s
CommaRest(s, flags, comma) ==
    LET Item(e) == CommaItem(IF comma THEN [e EXCEPT !.last = 0] ELSE e, flags)
    IN Item(js_parse_assign_expr([s EXCEPT !.dropped = FALSE], flags))
js_parse_expr_comma(s, flags) == CommaRest(s, flags, FALSE)
js_parse_expr(s) == Parse("comma", s, {})
js_parse_expr_paren(s) == js_parse_expect(js_parse_expr(js_parse_expect(s, "(")), ")")

-----------------------------------------------------------------------------
(* Statements. *)
RECURSIVE js_parse_var(_, _)
js_parse_var(s, in_accepted) ==
    LET name == Tok(s)
        d == Advance(define_var(s, name))
        init == put_var(Parse("assign", Advance(d), IF in_accepted THEN {} ELSE {"NO_IN"}), name)
        t == IF Tok(d) = "=" THEN init ELSE d
    IN IF ~IsIdent(name) \/ name = "arguments" THEN js_parse_error(s, "variable name expected")
       ELSE IF Tok(t) = "," THEN js_parse_var(Advance(t), in_accepted) ELSE t

set_eval_ret_undefined(s) ==
    IF s.ret = 0 THEN s ELSE Emit(emit_op(s, "undefined"), "put_loc", s.ret)

-----------------------------------------------------------------------------
RECURSIVE Statements(_)
Statements(s) ==
    IF s.err # "" \/ Tok(s) = "}" THEN Advance(s) ELSE Statements(Parse("statement", s, {}))
js_parse_block(s) == Statements(js_parse_expect(s, "{"))

Labelled(s) ==
    LET t == Advance(Advance(s))
        b == NewLabel(t)
        body == Parse("statement", push_break_entry(new_labels(t, 1), Tok(s), b, NoLabel, 0), {})
    IN pop_break_entry(emit_label(body, b))

Return(s) ==
    LET n == Advance(s)
        has_val == Tok(n) \notin {";", "}"} /\ ~GotLf(n)
    IN IF s.is_eval THEN js_parse_error(s, "return not in a function")
       ELSE js_parse_expect_semi(emit_return(IF has_val THEN js_parse_expr(n) ELSE n, has_val))

Throw(s) ==
    LET n == Advance(s)
    IN IF GotLf(n) THEN js_parse_error(n, "line terminator not allowed after throw")
       ELSE js_parse_expect_semi(emit_op(js_parse_expr(n), "throw"))

If(s) ==
    LET c == js_parse_expr_paren(set_eval_ret_undefined(Advance(s)))
        l1 == NewLabel(c)
        yes == Parse("statement", emit_goto(new_labels(c, 1), "if_false", l1), {})
        l2 == NewLabel(yes)
        over == emit_label(emit_goto(new_labels(Advance(yes), 1), "goto", l2), l1)
    IN IF Tok(yes) # "else" THEN emit_label(yes, l1)
       ELSE emit_label(Parse("statement", over, {}), l2)

(* A loop takes two labels, to break and to continue. *)
Loop(s, name, drop) == push_break_entry(new_labels(s, 2), name, NewLabel(s), NewLabel(s) + 1, drop)

While(s, name) ==
    LET brk == NewLabel(s)
        cont == brk + 1
        t == emit_label(set_eval_ret_undefined(Advance(Loop(s, name, 0))), cont)
        body == Parse("statement", emit_goto(js_parse_expr_paren(t), "if_false", brk), {})
    IN pop_break_entry(emit_label(emit_goto(body, "goto", cont), brk))

Do(s, name) ==
    LET brk == NewLabel(s)
        top == brk + 2
        t == emit_label(set_eval_ret_undefined(Advance(new_labels(Loop(s, name, 0), 1))), top)
        body == emit_label(Parse("statement", t, {}), brk + 1)
        test == js_parse_expr_paren(js_parse_expect(body, "while"))
        semi == IF Tok(test) = ";" THEN Advance(test) ELSE test
    IN pop_break_entry(emit_label(emit_goto(semi, "if_true", top), brk))

(* for (x in e) and for (x of e): the target is compiled before e, and
   entered from the end of the loop with the value on the stack.  The labels
   are the loop's two and then those of e, the body and the next value. *)
ForTarget(t, lhs) ==
    IF Tok(t) = "var" THEN Advance(put_var(define_var(Advance(t), Tok(Advance(t))), Tok(Advance(t))))
    ELSE put_lvalue(get_lvalue(lhs, FALSE), LastOp(lhs), "NOKEEP_BOTTOM")
ForIterate(over, op, brk) ==
    LET start == emit_op(js_parse_expr(over), op)
        stmt == Parse("statement", emit_label(js_parse_expect(emit_goto(start, "goto", brk + 1), ")"), brk + 3), {})
        loop == emit_goto(emit_op(emit_label(stmt, brk + 1), "for_of_next"), "if_false", brk + 4)
    IN pop_break_entry(emit_op(emit_label(emit_op(loop, "drop"), brk), "drop"))
ForEach(target, brk) ==
    IF Tok(target) \notin {"in", "of"} THEN js_parse_error(target, "expected 'of' or 'in' in for control expression")
    ELSE ForIterate(emit_label(Advance(emit_goto(target, "goto", brk + 3)), brk + 2), "for_" \o Tok(target) \o "_start", brk)
ForInOf(s, name) ==
    LET brk == NewLabel(s)
        open == Advance(js_parse_expect1(set_eval_ret_undefined(Advance(Loop(s, name, 1))), "("))
        t == emit_label(emit_goto(new_labels(open, 3), "goto", brk + 2), brk + 4)
    IN ForEach(ForTarget(t, Parse("assign", t, {"NO_IN"})), brk)

(* for (;;): the third expression, at the token `third', is skipped and
   compiled after the body. *)
ForThird(s, third) ==
    IF s.src[third].t = ")" THEN s
    ELSE [Parse("comma", [s EXCEPT !.tk = third], {"DROP"}) EXCEPT !.tk = s.tk]
ForEnd(body, third, brk, test) ==
    IF body.err # "" THEN body
    ELSE pop_break_entry(emit_label(emit_goto(ForThird(emit_label(body, brk + 1), third), "goto", test), brk))
ForBody(s, brk, test) ==
    ForEnd(Parse("statement", js_parse_expect(IF Tok(s) = ")" THEN s ELSE js_skip_expr(s), ")"), {}), s.tk, brk, test)
ForTest(s, brk, test) ==
    ForBody(js_parse_expect(IF Tok(s) = ";" THEN s ELSE emit_goto(js_parse_expr(s), "if_false", brk), ";"), brk, test)
ForInit(s) ==
    js_parse_expect(IF Tok(s) = ";" THEN s
                    ELSE IF Tok(s) = "var" THEN js_parse_var(Advance(s), FALSE)
                    ELSE Parse("comma", s, {"NO_IN", "DROP"}), ";")
ForConditions(s, brk) == ForTest(emit_label(new_labels(s, 1), NewLabel(s)), brk, NewLabel(s))
ForLoop(s, name) ==
    ForConditions(ForInit(Advance(js_parse_expect1(set_eval_ret_undefined(Advance(Loop(s, name, 0))), "("))), NewLabel(s))

For(s, name) ==
    IF "semi" \in js_skip_parens(js_parse_expect1(Advance(s), "("), "").bits THEN ForLoop(s, name) ELSE ForInOf(s, name)

BreakContinue(s) ==
    LET n == Advance(s)
        named == ~GotLf(n) /\ IsIdent(Tok(n))
        b == emit_break(n, IF named THEN Tok(n) ELSE "", Tok(s) = "continue")
    IN js_parse_expect_semi(IF named THEN Advance(b) ELSE b)

(* label_case is where the next case is tested, default_pos the default's. *)
RECURSIVE SwitchBody(_, _, _), CaseClauses(_, _)
CaseClauses(s, body) ==
    LET e == emit_op(js_parse_expect(js_parse_expr(emit_op(Advance(s), "dup")), ":"), "strict_eq")
        l == NewLabel(e)
        t == new_labels(e, 1)
        miss == emit_goto(t, "if_false", l)
    IN IF Tok(e) # "case" THEN [s |-> IF body = NoLabel THEN miss ELSE emit_label(miss, body), label_case |-> l]
       ELSE IF body = NoLabel THEN CaseClauses(emit_goto(t, "if_true", l), l)
       ELSE CaseClauses(emit_goto(e, "if_true", body), body)
SwitchCase(clauses, default_pos) == SwitchBody(clauses.s, clauses.label_case, default_pos)
Clauses(s, label_case) ==
    LET skip == NewLabel(s)
    IN IF label_case = NoLabel THEN CaseClauses(s, NoLabel)
       ELSE CaseClauses(emit_label(emit_goto(new_labels(s, 1), "goto", skip), label_case), skip)
(* A default before any case is jumped over to the first case. *)
SwitchDefault(s, label_case) ==
    IF label_case # NoLabel THEN SwitchBody(s, label_case, Len(s.code) + 1)
    ELSE SwitchBody(emit_goto(new_labels(s, 1), "goto", NewLabel(s)), NewLabel(s), Len(s.code) + 2)
SwitchBody(s, label_case, default_pos) ==
    CASE s.err # "" -> s
      [] s.err = "" /\ Tok(s) = "}" ->
           IF default_pos # 0 THEN emit_label_pos(Advance(s), label_case, default_pos)
           ELSE IF label_case # NoLabel THEN emit_label(Advance(s), label_case) ELSE Advance(s)
      [] s.err = "" /\ Tok(s) = "case" -> SwitchCase(Clauses(s, label_case), default_pos)
      [] s.err = "" /\ Tok(s) = "default" ->
           IF default_pos # 0 THEN js_parse_error(s, "duplicate default")
           ELSE SwitchDefault(js_parse_expect(Advance(s), ":"), label_case)
      [] OTHER -> IF label_case = NoLabel THEN js_parse_error(s, "invalid switch statement")
                  ELSE SwitchBody(Parse("statement", s, {}), label_case, default_pos)
SwitchEnd(body, brk) == IF body.err # "" THEN body ELSE pop_break_entry(emit_op(emit_label(body, brk), "drop"))
Switch(s) ==
    LET t == push_break_entry(new_labels(s, 1), "", NewLabel(s), NoLabel, 1)
    IN SwitchEnd(SwitchBody(js_parse_expect(js_parse_expr_paren(set_eval_ret_undefined(Advance(t))), "{"), NoLabel, 0),
                 NewLabel(s))

(* The finally block is a subroutine: gosub pushes a return address over the
   value to keep, the result, the exception or a dummy; ret pops it. *)
Guarded(s, l, fin) ==
    Gosub(emit_op(pop_break_entry(js_parse_block(push_finally(emit_goto(s, "catch", l), fin))), "drop"), fin)
Rethrow(s, fin) == emit_op(emit_goto(s, "gosub", fin), "throw")
(* The catch clause, at its variable; its own block is guarded again. *)
CatchBlock(s, catch, fin, end) ==
    Rethrow(emit_label(emit_goto(Guarded(Emit(emit_label(s, catch), "put_loc", Len(s.vars) - s.nargs), end + 1, fin),
                                 "goto", end), end + 1), fin)
CatchClause(n, catch, fin, end) ==
    IF ~IsIdent(Tok(n)) THEN js_parse_error(n, "identifier expected")
    ELSE IF find_var(n, Tok(n)) # 0 \/ find_ext_var(n, Tok(n)) # 0 THEN js_parse_error(n, "catch variable already exists")
    ELSE CatchBlock(js_parse_expect(Advance(add_var(n, Tok(n))), ")"), catch, fin, end)
Handler(s, catch, fin, end) ==
    IF Tok(s) = "finally" THEN Rethrow(emit_label(s, catch), fin)
    ELSE IF Tok(s) # "catch" THEN js_parse_error(s, "expecting catch or finally")
    ELSE CatchClause(js_parse_expect(Advance(s), "("), catch, fin, end)
Finally(s, end) ==
    LET block == IF Tok(s) # "finally" THEN s
                 ELSE pop_break_entry(js_parse_block(push_break_entry(Advance(s), "", NoLabel, NoLabel, 2)))
    IN emit_label(emit_op(block, "ret"), end)
AfterTry(s, catch, fin) ==
    LET end == NewLabel(s)
    IN Finally(emit_label(Handler(emit_goto(new_labels(s, 2), "goto", end), catch, fin, end), fin), end)
TryBlock(s) == LET catch == NewLabel(s) IN AfterTry(Guarded(new_labels(s, 2), catch, catch + 1), catch, catch + 1)
Try(s) == TryBlock(Advance(set_eval_ret_undefined(s)))

Expression(s) ==
    js_parse_expect_semi(IF s.ret # 0 THEN Emit(js_parse_expr(s), "put_loc", s.ret) ELSE Parse("comma", s, {"DROP"}))

(* The statement at t, which is s or what follows the label `name'. *)
Statement(s, t, name) ==
    LET k == Tok(t)
    IN CASE s.err # "" -> s
         [] s.err = "" /\ name # "" /\ (\E i \in DOMAIN s.brk : s.brk[i].name = name) -> js_parse_error(s, "duplicate label name")
         [] s.err = "" /\ name # "" /\ k \notin {"for", "do", "while"} -> Labelled(s)
         [] k = "while" -> While(t, name)
         [] k = "do" -> Do(t, name)
         [] k = "for" -> For(t, name)
         [] k = "{" -> js_parse_block(t)
         [] k = "return" -> Return(t)
         [] k = "throw" -> Throw(t)
         [] k = "var" -> js_parse_expect_semi(js_parse_var(Advance(t), TRUE))
         [] k = "if" -> If(t)
         [] k \in {"break", "continue"} -> BreakContinue(t)
         [] k = "switch" -> Switch(t)
         [] k = "try" -> Try(t)
         [] k = ";" -> Advance(t)
         [] OTHER -> Expression(t)
js_parse_statement(s) == Statement(s, IF is_label(s) THEN Advance(Advance(s)) ELSE s, IF is_label(s) THEN Tok(s) ELSE "")

Parse(rule, s, flags) ==
    CASE rule = "assign" -> js_parse_assign_expr(s, flags)
      [] rule = "unary" -> js_parse_unary(s, flags)
      [] rule = "comma" -> js_parse_expr_comma(s, flags)
      [] rule = "postfix" -> js_parse_postfix_expr(s, flags)
      [] rule = "statement" -> js_parse_statement(s)
=============================================================================
