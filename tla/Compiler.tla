------------------------------ MODULE Compiler ------------------------------
(* Programs, functions and the passes over the code a function's parser has
   emitted.                                                                  *)
EXTENDS Parser

js_parse_source_element(s) ==
    IF Tok(s) = "function" THEN js_parse_function_decl(s, "STATEMENT", "") ELSE Parse("statement", s, {})
RECURSIVE SourceElements(_, _), Parameters(_)
SourceElements(s, end) ==
    IF s.err # "" \/ Tok(s) = end THEN s ELSE SourceElements(js_parse_source_element(s), end)
Parameters(s) ==
    LET t == Advance(add_var(s, Tok(s)))
    IN IF Tok(s) = ")" THEN Advance(s)
       ELSE IF ~IsIdent(Tok(s)) \/ Tok(s) \in {"eval", "arguments"} THEN js_parse_error(s, "invalid argument name")
       ELSE IF find_var(s, Tok(s)) # 0 THEN js_parse_error(s, "duplicate argument name")
       ELSE IF Tok(t) = ")" THEN Advance(t) ELSE Parameters(js_parse_expect(t, ","))

(* A function's own variables follow its arguments. *)
Bind(s, op, name) == LET t == add_var(s, name) IN Emit(emit_op(t, op), "put_loc", Len(t.vars) - t.nargs)
Prologue(s, f) ==
    LET t == IF f.has_arguments THEN Bind(s, "arguments", "arguments") ELSE s
    IN IF f.has_name THEN Bind(t, "this_func", f.name) ELSE t
EndFunction(s) == define_hoisted_functions(IF js_is_live_code(s) THEN emit_op(s, "return_undef") ELSE s)
WithArguments(s) == js_parse_expect([s EXCEPT !.nargs = Len(s.vars)], "{")
js_parse_function(s, f) ==
    EndFunction(SourceElements(Prologue(WithArguments(Parameters(js_parse_expect(s, "("))), f), "}"))

EndProgram(s, has_retval) ==
    define_hoisted_functions(IF has_retval THEN emit_op(Emit(s, "get_loc", s.ret), "return") ELSE emit_op(s, "return_undef"))
js_parse_program(s, has_retval) ==
    EndProgram(SourceElements(IF has_retval THEN [add_var(s, "_ret_") EXCEPT !.ret = 1] ELSE s, EndOfFile), has_retval)

(* A name used before its `var' was compiled as external: it becomes local. *)
convert_ext_vars_to_local_vars(s) ==
    LET Local(i) == find_var(s, s.ext[i].name) > s.nargs
        kept == SelectSeq([i \in DOMAIN s.ext |-> i], LAMBDA i : ~Local(i))
        Fix(c) == IF c[1] \notin {"get_var_ref", "put_var_ref", "get_var_ref_nocheck", "put_var_ref_nocheck"} THEN c
                  ELSE IF ~Local(c[2]) THEN <<c[1], IndexIn(c[2], kept)>>
                  ELSE <<IF c[1] \in {"get_var_ref", "get_var_ref_nocheck"} THEN "get_loc" ELSE "put_loc",
                         find_var(s, s.ext[c[2]].name) - s.nargs>>
    IN [s EXCEPT !.code = [p \in DOMAIN @ |-> Fix(@[p])], !.ext = SelectSeq(@, LAMBDA e : find_var(s, e.name) <= s.nargs)]

(* In C a label's uses are patched as soon as its position is known. *)
Jumps == {"goto", "if_true", "if_false", "catch", "gosub"}
WithPositions(s) ==
    [s EXCEPT !.code = [p \in DOMAIN @ |-> IF @[p][1] \in Jumps THEN <<@[p][1], s.lab[@[p][2]]>> ELSE @[p]]]

-----------------------------------------------------------------------------
(* The analysis of the operand stack. *)
V == INSTANCE Values

(* explore_tab is the depth before each instruction that a path leads to; the
   target of a catch is not followed. *)
Targets(c, pc, depth) ==
    IF c[1] \in {"return", "return_undef", "throw", "ret"} THEN <<>>
    ELSE IF c[1] = "goto" THEN << <<c[2], depth>> >>
    ELSE (IF c[1] \in {"if_true", "if_false"} THEN << <<c[2], depth>> >>
          ELSE IF c[1] = "gosub" THEN << <<c[2], depth + 1>> >> ELSE <<>>) \o << <<pc + 1, depth>> >>
RECURSIVE Explore(_, _, _, _), Follow(_, _, _, _, _)
Follow(code, tab, work, max, targets) ==
    LET fresh == SelectSeq(targets, LAMBDA t : t[1] \notin DOMAIN tab)
    IN IF \E i \in DOMAIN targets : targets[i][1] > Len(code)
       THEN [tab |-> tab, max |-> max, err |-> "bytecode buffer overflow"]
       ELSE IF \E i \in DOMAIN targets : targets[i][1] \in DOMAIN tab /\ tab[targets[i][1]] # targets[i][2]
            THEN [tab |-> tab, max |-> max, err |-> "inconsistent stack size"]
       ELSE Explore(code, FoldLeft(LAMBDA f, t : (t[1] :> t[2]) @@ f, tab, fresh), fresh \o work, max)
Explore(code, tab, work, max) ==
    LET pc == work[1][1]
        before == work[1][2]
        effect == V!Effect(code[pc])
        depth == before + effect[2] - effect[1]
    IN IF work = <<>> THEN [tab |-> tab, max |-> max, err |-> ""]
       ELSE IF before < effect[1] THEN [tab |-> tab, max |-> max, err |-> "stack underflow"]
       ELSE Follow(code, tab, Tail(work), IF depth > max THEN depth ELSE max, Targets(code[pc], pc, depth))
compute_stack_size(code) ==
    Explore(code, 1 :> 0, << <<1, 0>> >>, 0)

-----------------------------------------------------------------------------
(* Each external variable of a function is found in its parent, as an argument,
   a variable, or in turn an external variable. *)
RECURSIVE ResolveFrom(_, _, _, _)
ResolveFrom(fns, id, parent, i) ==
    LET e == fns[id].ext[i]
        p == fns[parent]
        v == IndexIn(e.name, p.vars)
        outer == IndexIn(e.name, ExtNames(p.ext))
        fns1 == IF v # 0 \/ outer # 0 THEN fns
                ELSE [fns EXCEPT ![parent].ext = Append(@, [name |-> e.name, kind |-> "global", idx |-> 0])]
        ref == IF v # 0 THEN KindOf(p, v) ELSE <<"var_ref", IndexIn(e.name, ExtNames(fns1[parent].ext))>>
    IN IF i > Len(fns[id].ext) THEN fns
       ELSE ResolveFrom([fns1 EXCEPT ![id].ext[i].kind = ref[1], ![id].ext[i].idx = ref[2]], id, parent, i + 1)
resolve_var_refs(fns, id, parent) == IF parent = 0 THEN fns ELSE ResolveFrom(fns, id, parent, 1)

reset_parse_state(s, id) ==
    [s EXCEPT !.tk = s.fns[id].pos, !.code = <<>>, !.last = 0, !.cpool = <<>>, !.vars = <<>>, !.nargs = 0,
              !.ext = <<>>, !.lab = <<>>, !.ret = 0, !.is_eval = FALSE]

(* A parsed function is finished, then its local functions are, then its own
   external variables are looked up in its parent. *)
RECURSIVE js_parse_local_functions(_, _, _), LocalFunctions(_, _, _)
LocalFunctions(s, id, i) ==
    LET v == s.fns[id].cpool[i]
    IN IF s.err # "" \/ i > Len(s.fns[id].cpool) THEN s
       ELSE LocalFunctions(IF v[1] # "fn" THEN s
                           ELSE js_parse_local_functions(js_parse_function(reset_parse_state(s, v[2]), s.fns[v[2]]), v[2], id),
                           id, i + 1)
Parsed(s, id, st) ==
    [s EXCEPT !.fns[id].code = s.code, !.fns[id].cpool = s.cpool, !.fns[id].vars = s.vars, !.fns[id].nargs = s.nargs,
              !.fns[id].ext = s.ext, !.fns[id].explored = st.tab, !.fns[id].stack_size = st.max]
Resolved(s, id, parent) == IF s.err # "" THEN s ELSE [s EXCEPT !.fns = resolve_var_refs(@, id, parent)]
Measured(s, id, parent, st) ==
    IF st.err # "" THEN js_parse_error(s, st.err) ELSE Resolved(LocalFunctions(Parsed(s, id, st), id, 1), id, parent)
Converted(s, id, parent) == Measured(s, id, parent, compute_stack_size(s.code))
js_parse_local_functions(s, id, parent) ==
    IF s.err # "" THEN s ELSE Converted(WithPositions(convert_ext_vars_to_local_vars(s)), id, parent)

(* The whole compilation of a text's tokens: the functions, the first of
   which is the program, and an error or "". *)
Compile(tokens, has_retval) ==
    LET s == [src |-> tokens, tk |-> 1, code |-> <<>>, last |-> 0, cpool |-> <<>>, vars |-> <<>>, nargs |-> 0,
              ext |-> <<>>, lab |-> <<>>, fns |-> << NewFunction("", 1, 0, {}) >>, err |-> "", dropped |-> FALSE,
              argc |-> 0, is_eval |-> TRUE, ret |-> 0, brk |-> <<>>]
        Compiled(t) == [fns |-> t.fns, err |-> t.err]
    IN Compiled(js_parse_local_functions(js_parse_program(s, has_retval), 1, 0))
=============================================================================
