------------------------------- MODULE Emitter -------------------------------
(* The state of the one-pass compiler of mquickjs.c, and how it emits code: the
   parser state is the record `s', every operator takes one and returns the
   next.  The text is tokenized beforehand, src, and tk is the index of the
   current token; a code position is the index of an instruction
   <<opcode, operand>>, so the short forms of an opcode are one.  An error, a
   longjmp in C, leaves a state at the end of the input whose err stops every
   loop.  brk is the stack of enclosing constructs that a break, a continue or
   a return leaves: each has its label name, its break, continue and finally
   labels, and the number of operands to drop on the way out.  ret is the
   hidden variable of an eval's value, 0 outside of eval.                    *)
EXTENDS Lexer, SequencesExt, TLC

BinaryOps == <<
    "*" :> "mul" @@ "/" :> "div" @@ "%" :> "mod",
    "+" :> "add" @@ "-" :> "sub",
    "<<" :> "shl" @@ ">>" :> "sar" @@ ">>>" :> "shr",
    "<" :> "lt" @@ ">" :> "gt" @@ "<=" :> "lte" @@ ">=" :> "gte" @@ "instanceof" :> "instanceof" @@ "in" :> "in",
    "==" :> "eq" @@ "!=" :> "neq" @@ "===" :> "strict_eq" @@ "!==" :> "strict_neq",
    "&" :> "and", "^" :> "xor", "|" :> "or" >>
LevelOf(t) == IF \E l \in DOMAIN BinaryOps : t \in DOMAIN BinaryOps[l] THEN CHOOSE l \in DOMAIN BinaryOps : t \in DOMAIN BinaryOps[l] ELSE 0
AssignOps == "*=" :> "mul" @@ "/=" :> "div" @@ "%=" :> "mod" @@ "+=" :> "add" @@ "-=" :> "sub" @@ "<<=" :> "shl" @@ ">>=" :> "sar"
    @@ ">>>=" :> "shr" @@ "&=" :> "and" @@ "^=" :> "xor" @@ "|=" :> "or"
UnaryOps == "-" :> "neg" @@ "+" :> "plus" @@ "!" :> "lnot" @@ "~" :> "not"
IsName(t) == CharAt(t, 1) \in IdentFirst
IsIdent(t) == IsName(t) /\ t \notin ReservedWords

Tok(s) == s.src[s.tk].t
TokValue(s) == s.src[s.tk].v
GotLf(s) == s.src[s.tk].lf
Advance(s) == [s EXCEPT !.tk = IF @ < Len(s.src) THEN @ + 1 ELSE @]
js_parse_error(s, msg) ==
    [s EXCEPT !.err = IF @ = "" THEN msg ELSE @, !.tk = Len(s.src)]
js_parse_expect1(s, t) == IF Tok(s) = t THEN s ELSE js_parse_error(s, "expecting " \o t)
js_parse_expect(s, t) == Advance(js_parse_expect1(s, t))
js_parse_expect_semi(s) ==
    IF Tok(s) = ";" THEN Advance(s)
    ELSE IF Tok(s) \in {EndOfFile, "}"} \/ GotLf(s) THEN s
    ELSE js_parse_error(s, "expecting ;")
(* No blank may stand between a label and its colon. *)
is_label(s) == IsIdent(Tok(s)) /\ s.src[s.tk + 1].t = ":" /\ s.src[s.tk + 1].start = s.src[s.tk].end

-----------------------------------------------------------------------------
(* Emitting code.  `last' is the position of the last opcode, 0 after a label
   (last_opcode_pos = -1): what is an lvalue is read off that opcode. *)

Emit(s, op, a) == [s EXCEPT !.code = Append(@, <<op, a>>), !.last = Len(s.code) + 1]
emit_op(s, op) == Emit(s, op, 0)
LastOp(s) == IF s.last = 0 THEN <<"invalid", 0>> ELSE s.code[s.last]
js_is_live_code(s) == LastOp(s)[1] \notin {"return", "return_undef", "throw", "goto", "ret"}
remove_last_op(s) == [s EXCEPT !.code = SubSeq(@, 1, s.last - 1), !.last = 0]
PatchLast(s, op) == [s EXCEPT !.code[s.last] = <<op, @[2]>>]

(* A label is an index of lab, which holds its position once it is emitted;
   in C the unresolved uses are chained through the operands. *)
NoLabel == 0
NewLabel(s) == Len(s.lab) + 1
new_labels(s, n) == [s EXCEPT !.lab = @ \o [i \in 1 .. n |-> 0]]
emit_label_pos(s, l, pos) == [s EXCEPT !.lab[l] = pos]
emit_label(s, l) == [emit_label_pos(s, l, Len(s.code) + 1) EXCEPT !.last = 0]
emit_goto(s, op, l) == Emit(s, op, l)

IndexIn(x, seq) == IF \E i \in DOMAIN seq : seq[i] = x
                   THEN CHOOSE i \in DOMAIN seq : seq[i] = x /\ \A j \in 1 .. i - 1 : seq[j] # x ELSE 0
Str(a) == <<"str", a>>
Fn(id) == <<"fn", id>>
cpool_add(s, v) == IF IndexIn(v, s.cpool) # 0 THEN s ELSE [s EXCEPT !.cpool = Append(@, v)]
EmitConst(s, op, v) == LET t == cpool_add(s, v) IN Emit(t, op, IndexIn(v, t.cpool))
js_emit_push_const(s, v) == EmitConst(s, "push_const", v)

find_var(s, name) == IndexIn(name, s.vars)
ExtNames(ext) == [i \in DOMAIN ext |-> ext[i].name]
find_ext_var(s, name) == IndexIn(name, ExtNames(s.ext))
add_ext_var(s, name, kind, idx) == [s EXCEPT !.ext = Append(@, [name |-> name, kind |-> kind, idx |-> idx])]
add_var(s, name) == [s EXCEPT !.vars = Append(@, name)]
KindOf(s, v) == IF v <= s.nargs THEN <<"arg", v>> ELSE <<"loc", v - s.nargs>>

EmitGetVar(s, name) ==
    LET v == find_var(s, name)
        t == IF find_ext_var(s, name) # 0 THEN s ELSE add_ext_var(s, name, "global", 0)
    IN IF v # 0 THEN Emit(s, "get_" \o KindOf(s, v)[1], KindOf(s, v)[2])
       ELSE Emit(t, "get_var_ref", find_ext_var(t, name))

VarGets == {"get_loc", "get_arg", "get_var_ref"}
PutOf == [get_loc |-> "put_loc", get_arg |-> "put_arg", get_var_ref |-> "put_var_ref"]
get_lvalue(s, keep) ==
    LET lv == LastOp(s)
        r == remove_last_op(s)
    IN IF lv[1] \notin VarGets \cup {"get_field", "get_length", "get_array_el"}
       THEN js_parse_error(s, "invalid lvalue")
       ELSE IF ~keep THEN r
       ELSE CASE lv[1] \in VarGets -> Emit(r, lv[1], lv[2])
              [] lv[1] \in {"get_field", "get_length"} -> Emit(r, lv[1] \o "2", lv[2])
              [] OTHER -> emit_op(emit_op(r, "dup2"), "get_array_el")

(* How the value is brought over the object (and the key) of the lvalue. *)
FieldShuffle == [KEEP_TOP |-> "insert2", NOKEEP_TOP |-> "", NOKEEP_BOTTOM |-> "swap", KEEP_SECOND |-> "perm3"]
ElementShuffle == [KEEP_TOP |-> "insert3", NOKEEP_TOP |-> "", NOKEEP_BOTTOM |-> "rot3l", KEEP_SECOND |-> "perm4"]
Shuffled(s, op) == IF op = "" THEN s ELSE emit_op(s, op)
put_lvalue(s, lv, special) ==
    CASE lv[1] \in VarGets ->
            Emit(IF special = "KEEP_TOP" THEN emit_op(s, "dup") ELSE s, PutOf[lv[1]], lv[2])
      [] lv[1] = "get_field" -> Emit(Shuffled(s, FieldShuffle[special]), "put_field", lv[2])
      [] lv[1] = "get_length" -> EmitConst(Shuffled(s, FieldShuffle[special]), "put_field", Str("length"))
      [] lv[1] = "get_array_el" -> emit_op(Shuffled(s, ElementShuffle[special]), "put_array_el")
      [] OTHER -> s

may_drop_result(s, flags) == "DROP" \in flags /\ Tok(s) \in {";", ")", ","}
(* Stores into the lvalue; an unused result is not kept on the stack. *)
StoreResult(s, lv, flags) ==
    IF may_drop_result(s, flags) THEN put_lvalue([s EXCEPT !.dropped = TRUE], lv, "NOKEEP_TOP")
    ELSE put_lvalue(s, lv, "KEEP_TOP")

-----------------------------------------------------------------------------
(* Skipping a parenthesis or a block, to find its end and what it names. *)
Closer == [x \in {"(", "[", "{"} |-> CASE x = "(" -> ")" [] x = "[" -> "]" [] x = "{" -> "}"]
RECURSIVE SkipFrom(_, _, _, _)
SkipFrom(s, open, name, bits) ==
    LET t == Tok(s)
        seen == bits \cup (IF t = "arguments" THEN {"arguments"} ELSE {})
                     \cup (IF t = name THEN {"name"} ELSE {})
                     \cup (IF t = ";" /\ Len(open) = 1 THEN {"semi"} ELSE {})
        now == IF t \in DOMAIN Closer THEN Append(open, Closer[t])
               ELSE IF t \in {")", "]", "}"} THEN Front(open) ELSE open
    IN IF t = EndOfFile \/ (t \in {")", "]", "}"} /\ Last(open) # t)
       THEN [s |-> js_parse_error(s, "expecting closer"), bits |-> seen]
       ELSE IF now = <<>> THEN [s |-> Advance(s), bits |-> seen]
       ELSE SkipFrom(Advance(s), now, name, seen)
js_skip_parens(s, name) ==
    IF Tok(s) \in DOMAIN Closer THEN SkipFrom(s, <<>>, name, {}) ELSE [s |-> s, bits |-> {}]
RECURSIVE js_skip_expr(_)
js_skip_expr(s) ==
    CASE Tok(s) = ")" -> s
      [] Tok(s) \in DOMAIN Closer -> js_skip_expr(js_skip_parens(s, "").s)
      [] Tok(s) \in {";", EndOfFile} -> js_parse_error(s, "expecting )")
      [] OTHER -> js_skip_expr(Advance(s))

-----------------------------------------------------------------------------
(* Declarations. *)

(* In a program (eval) a variable is global, elsewhere an argument or local. *)
define_var(s, name) ==
    LET e == find_ext_var(s, name)
    IN IF s.is_eval
       THEN IF e = 0 THEN add_ext_var(s, name, "global", 1) ELSE [s EXCEPT !.ext[e].kind = "global", !.ext[e].idx = 1]
       ELSE IF find_var(s, name) = 0 THEN add_var(s, name) ELSE s
put_var(s, name) ==
    IF s.is_eval THEN Emit(s, "put_var_ref_nocheck", find_ext_var(s, name))
    ELSE LET k == KindOf(s, find_var(s, name)) IN Emit(s, "put_" \o k[1], k[2])

(* js_alloc_function_bytecode, with what the later passes fill in. *)
NewFunction(name, pos, hoist, bits) ==
    [name |-> name, pos |-> pos, hoist |-> hoist, has_arguments |-> "arguments" \in bits, has_name |-> "name" \in bits,
     code |-> <<>>, cpool |-> <<>>, vars |-> <<>>, nargs |-> 0, ext |-> <<>>, explored |-> <<>>, stack_size |-> 0]
(* A function is left where it stands, its tokens skipped: its record in fns
   remembers the position.  A statement is hoisted, and `hoist' is the
   variable that receives it (arg_count + 1 in C). *)
AddFunction(s, f) == [cpool_add(s, Fn(Len(s.fns) + 1)) EXCEPT !.fns = Append(@, f)]
Declared(s, name) == IF s.is_eval THEN find_ext_var(s, name) ELSE find_var(s, name)
FunctionBody(skip, type, name, pos) ==
    LET s == IF type = "STATEMENT" THEN define_var(skip.s, name) ELSE skip.s
        hoist == IF type = "STATEMENT" THEN Declared(s, name) ELSE 0
        t == AddFunction(s, NewFunction(name, pos, hoist, skip.bits))
    IN IF skip.s.err # "" THEN skip.s
       ELSE IF type = "STATEMENT" THEN t ELSE Emit(t, "fclosure", IndexIn(Fn(Len(t.fns)), t.cpool))
(* At the parameters, which are skipped as the body is. *)
FunctionRest(s, type, name) ==
    LET open == js_parse_expect1(js_skip_parens(s, "").s, "{")
    IN FunctionBody(js_skip_parens(open, IF type = "STATEMENT" THEN "" ELSE name), type, name, s.tk)
NamedFunction(s, type, name) ==
    IF type # "METHOD" /\ IsIdent(Tok(s)) THEN FunctionRest(js_parse_expect1(Advance(s), "("), type, Tok(s))
    ELSE IF type = "STATEMENT" THEN js_parse_error(s, "function name expected")
    ELSE FunctionRest(js_parse_expect1(s, "("), type, name)
js_parse_function_decl(s, type, name) == NamedFunction(IF type = "METHOD" THEN s ELSE Advance(s), type, name)

(* Functions are put first; the code written so far moves, and its labels. *)
define_hoisted_functions(s) ==
    LET hoisted == SelectSeq(s.cpool, LAMBDA v : v[1] = "fn" /\ s.fns[v[2]].hoist # 0)
        Put(f) == LET v == s.fns[f[2]].hoist
                   IN IF s.is_eval THEN <<"put_var_ref_nocheck", v>>
                      ELSE <<"put_" \o KindOf(s, v)[1], KindOf(s, v)[2]>>
        code == FlattenSeq([i \in 1 .. Len(hoisted) |->
                    <<<<"fclosure", IndexIn(hoisted[i], s.cpool)>>, Put(hoisted[i])>>])
    IN [s EXCEPT !.code = code \o @, !.lab = [l \in DOMAIN @ |-> @[l] + Len(code)]]

-----------------------------------------------------------------------------
(* Leaving constructs. *)
push_break_entry(s, name, brk, cont, drop) ==
    [s EXCEPT !.brk = Append(@, [name |-> name, brk |-> brk, cont |-> cont, fin |-> NoLabel, drop |-> drop])]
push_finally(s, fin) ==
    [s EXCEPT !.brk = Append(@, [name |-> "", brk |-> NoLabel, cont |-> NoLabel, fin |-> fin, drop |-> 1])]
pop_break_entry(s) == [s EXCEPT !.brk = Front(@)]
Times(s, op, n) == FoldLeft(LAMBDA t, i : emit_op(t, op), s, [i \in 1 .. n |-> i])
(* Mutant: leaving a construct does not run its finally block. *)
NoGosub(s, fin) == s
(* A finally block runs with a dummy value below its return address. *)
Gosub(s, fin) == emit_op(emit_goto(emit_op(s, "undefined"), "gosub", fin), "drop")

(* The operands above a finally block are dropped from below the value; those
   of the constructs outside of every finally block are left to the return. *)
emit_return(s0, hasval0) ==
    LET Leave[i \in 0 .. Len(s0.brk)] ==
            IF i = 0 THEN [s |-> s0, val |-> hasval0, drop |-> 0]
            ELSE LET r == Leave[i - 1]
                     b == s0.brk[Len(s0.brk) + 1 - i]
                     t == IF r.val THEN r.s ELSE emit_op(r.s, "undefined")
                 IN IF b.fin = NoLabel THEN [r EXCEPT !.drop = @ + b.drop]
                    ELSE [s |-> emit_goto(Times(t, "nip", r.drop + b.drop), "gosub", b.fin), val |-> TRUE, drop |-> 0]
        out == Leave[Len(s0.brk)]
    IN emit_op(out.s, IF out.val THEN "return" ELSE "return_undef")

RECURSIVE EmitBreakFrom(_, _, _, _)
EmitBreakFrom(s, i, name, is_cont) ==
    LET b == s.brk[i]
        is_labelled_stmt == b.cont = NoLabel /\ b.drop = 0
        label == IF is_cont THEN b.cont ELSE b.brk
        t == Times(s, "drop", b.drop)
    IN IF i = 0 THEN js_parse_error(s, "break or continue without target")
       ELSE IF (IF name = "" THEN ~is_labelled_stmt \/ b.name = "" ELSE b.name = name) /\ label # NoLabel
            THEN emit_goto(s, "goto", label)
       ELSE EmitBreakFrom(IF b.fin = NoLabel THEN t ELSE Gosub(t, b.fin), i - 1, name, is_cont)
emit_break(s, name, is_cont) == EmitBreakFrom(s, Len(s.brk), name, is_cont)
=============================================================================
