------------------------------ MODULE Machine -------------------------------
(* JS_Call, the interpreter: one step runs one instruction of the function on
   top.  A frame has its arguments, its variables and its operand stack; a
   variable that a closure captured is reached through a cell (JSVarRef), which
   refers to the frame's slot until the frame returns and holds the value from
   then on.                                                                      *)
EXTENDS Values, FiniteSets, FiniteSetsExt, SequencesExt

CONSTANTS Programs,       \* the programs
          CodeOf(_),      \* what JS_Parse2 makes of each: its functions, or an error
          ShapeOf(_),     \* and what lies on the operand stack at each instruction of them
          Interruptible   \* those during which the host may interrupt

(* There is no function around the one that is evaluated: it captures globals. *)
ASSUME EvalCapturesGlobals ==
    \A p \in Programs : LET c == CodeOf(p)
                        IN c.err = "" => \A e \in ToSet(c.fns[1].ext) : e.kind = "global"

VARIABLES prog,           \* the program that runs
          code,           \* its functions once it is parsed, the first its main function
          frames,         \* the call stack, the running function last
          objs,           \* the objects, by address
          cells,          \* the JSVarRefs, by address
          globals,        \* the global object: a cell for each name
          exc,            \* current_exception on its way to a handler
          uncatchable,    \* current_exception_is_uncatchable
          status,         \* "source", "parsed", "running", "returned" or "thrown"
          result,         \* what the program returned or threw
          log,            \* what the host function print was given
          val,            \* whether JS_Call's variable val was left with a string of one character
          flagsLost       \* a call has lost the flags of its caller: the model ends there
vars == <<prog, code, frames, objs, cells, globals, exc, uncatchable, status, result, log, val, flagsLost>>

-----------------------------------------------------------------------------
(* The operand stack: what instructions do to it, and what the parser emits
   them for.  An instruction is an <<opcode, operand>>.                       *)
FromTop(s, i) == s[Len(s) - i]
Less(s, n) == SubSeq(s, 1, Len(s) - n)
(* a b -> b a and the like: which of the operands they take these put back. *)
Picks == [drop |-> <<>>, nip |-> <<0>>, dup |-> <<0, 0>>, dup2 |-> <<1, 0, 1, 0>>, insert2 |-> <<0, 1, 0>>,
          insert3 |-> <<0, 2, 1, 0>>, perm3 |-> <<1, 2, 0>>, perm4 |-> <<1, 3, 2, 0>>, swap |-> <<0, 1>>, rot3l |-> <<1, 0, 2>>]
Shuffles == DOMAIN Picks
Shuffled(op, s) == Less(s, Effect(<<op, 0>>)[1]) \o [i \in DOMAIN Picks[op] |-> FromTop(s, Picks[op][i])]

(* What a place of the stack holds: a value, an object that a literal or a loop
   made, the offset of a catch handler, or the return address of the finally
   block at a label.  A shape is what the stack holds, from the bottom. *)
Kind(k, at) == [k |-> k, at |-> at]
AnyValue == Kind("any", 0)
Plain == {"any", "object", "iterator"}
LiteralOps == {"define_field", "define_getter", "define_setter", "set_proto"}
(* A place where any value may be holds one of the others too. *)
Fits(j, k) == /\ Len(j) = Len(k)
              /\ \A i \in DOMAIN k : j[i] = k[i] \/ (k[i] = AnyValue /\ j[i].k \in Plain)
(* The shape that instruction c makes of k. *)
Shaped(c, k) ==
    LET rest == Less(k, Effect(c)[1])
    IN CASE c[1] \in Shuffles -> Shuffled(c[1], k)
         [] c[1] = "object" -> Append(k, Kind("object", 0))
         [] c[1] \in {"for_in_start", "for_of_start"} -> Append(rest, Kind("iterator", 0))
         [] c[1] = "catch" -> Append(k, Kind("catch", c[2]))
         [] c[1] = "for_of_next" -> k \o <<AnyValue, AnyValue>>
         [] c[1] \in LiteralOps -> Less(k, 1)
         [] OTHER -> rest \o [i \in 1 .. Effect(c)[2] |-> AnyValue]
IsGosub(c, at) == c[1] = "gosub" /\ c[2] = at
(* Where control may be next and the shape there, shape[pc] being that at pc:
   after the instruction, at its target, at a handler, and after each gosub of
   the finally block that returns. *)
Successors(fn, shape, pc) ==
    LET c == fn.code[pc]
        k == shape[pc]
        last == FromTop(k, 0)
    IN UNION { IF c[1] \in {"goto", "return", "return_undef", "throw", "ret"} THEN {} ELSE {<<pc + 1, Shaped(c, k)>>},
               IF c[1] \in {"goto", "if_true", "if_false"} THEN {<<c[2], Shaped(c, k)>>} ELSE {},
               IF c[1] = "gosub" THEN {<<c[2], Append(k, Kind("ret", c[2]))>>} ELSE {},
               IF c[1] = "ret" THEN {<<q + 1, Less(k, 1)>> : q \in {g \in DOMAIN shape : IsGosub(fn.code[g], last.at)}} ELSE {},
               {<<k[i].at, Append(SubSeq(k, 1, i - 1), AnyValue)>> : i \in {h \in DOMAIN k : k[h].k = "catch"}} }
(* The operands are there and are values, but for those that drop, nip and ret take. *)
OperandsKept(c, k) ==
    /\ Effect(c)[1] \in 0 .. Len(k)
    /\ c[1] \in {"call", "call_constructor", "call_method"} => c[2] \in Nat
    /\ c[1] \notin Shuffles \cup {"ret"} => \A i \in 1 .. Effect(c)[1] : k[Len(k) + 1 - i].k \in Plain
    /\ c[1] \in LiteralOps => FromTop(k, 1).k = "object"
    /\ c[1] = "for_of_next" => FromTop(k, 0).k = "iterator"
    /\ c[1] = "ret" => FromTop(k, 0).k = "ret"
(* What it names is there: a variable, or a function whose captured variables are. *)
Locals(fn) == Len(fn.vars) - fn.nargs
EntryKept(fn, e) ==
    /\ e.kind \in {"arg", "loc", "var_ref", "global"}
    /\ e.kind = "arg" => e.idx \in 1 .. fn.nargs
    /\ e.kind = "loc" => e.idx \in 1 .. Locals(fn)
    /\ e.kind = "var_ref" => e.idx \in DOMAIN fn.ext
NamesKept(fns, fn, c) ==
    /\ c[1] \in {"get_loc", "put_loc"} => c[2] \in 1 .. Locals(fn)
    /\ c[1] \in {"get_arg", "put_arg"} => c[2] \in 1 .. fn.nargs
    /\ c[1] \in {"get_var_ref", "get_var_ref_nocheck", "put_var_ref", "put_var_ref_nocheck"} => c[2] \in DOMAIN fn.ext
    /\ c[1] = "fclosure" => LET id == fn.cpool[c[2]][2]
                            IN id \in DOMAIN fns /\ \A e \in ToSet(fns[id].ext) : EntryKept(fn, e)
ShapeKept(fns, fn, shape) ==
    /\ fn.vars \in Seq(STRING) /\ fn.nargs \in 0 .. Len(fn.vars)
    /\ 1 \in DOMAIN shape /\ shape[1] = <<>>
    /\ \A pc \in DOMAIN fn.explored : pc \in DOMAIN shape /\ Len(shape[pc]) = fn.explored[pc]
    /\ \A pc \in DOMAIN shape :
          /\ pc \in Nat /\ shape[pc] \in Seq([k : Plain \cup {"catch", "ret"}, at : Nat])
          /\ OperandsKept(fn.code[pc], shape[pc]) /\ NamesKept(fns, fn, fn.code[pc])
          /\ \A t \in Successors(fn, shape, pc) : t[1] \in DOMAIN shape /\ Fits(t[2], shape[t[1]])
(* compute_stack_size refuses a function in which two ways to an instruction
   find stacks of different sizes, and what it does not look at the parser sees
   to: where handlers lie, and that a finally block leaves its return address.  *)
ASSUME ShapesKept ==
    \A p \in Programs : \A c \in {CodeOf(p)} : c.err = "" =>
        \A s \in {ShapeOf(p)} :
            DOMAIN s = DOMAIN c.fns /\ 1 \in DOMAIN s /\ \A id \in DOMAIN s : ShapeKept(c.fns, c.fns[id], s[id])

-----------------------------------------------------------------------------
NoExc == Value("none", 0, "")
Object(cls, proto) ==
    [cls |-> cls, name |-> "", proto |-> proto, props |-> <<>>, tab |-> <<>>, fn |-> 0, refs |-> <<>>, pos |-> 0]
Normal(key, v) == [key |-> key, kind |-> "normal", val |-> v, set |-> Undefined]
Getset(key, get, set) == [key |-> key, kind |-> "getset", val |-> get, set |-> set]

(* The standard objects: the class prototypes, and C functions by name.  An
   earlier script has made an accessor `run' of the function `call', by
   Object.defineProperty, which the programs do not have.                     *)
ObjectProto == 1
FunctionProto == 2
ArrayProto == 3
CFunction(name) == [Object("cfunc", FunctionProto) EXCEPT !.name = name]
StandardObjects ==
    << Object("object", 0),
       [Object("object", ObjectProto) EXCEPT
           !.props = << Getset(Str("prototype"), Obj(4), Obj(5)), Normal(Str("call"), Obj(6)),
                        Getset(Str("run"), Obj(6), Obj(6)) >>],
       Object("array", ObjectProto),
       CFunction("get_prototype"), CFunction("set_prototype"), CFunction("call"), CFunction("print") >>

-----------------------------------------------------------------------------
(* Objects: an element of an array, a property of the object, or one of its
   prototype chain.  A getter or setter is called by the interpreter itself,
   as a tail call of the instruction. *)
FindOwn(o, key) == LET i == {j \in DOMAIN o.props : o.props[j].key = key} IN IF i = {} THEN 0 ELSE CHOOSE j \in i : TRUE
Found(k, v) == [k |-> k, v |-> v]
LookUp(heap, id, key) ==
    LET from[i \in DOMAIN heap] ==
            LET o == heap[i]
                p == o.props[FindOwn(o, key)]
            IN IF o.cls = "array" /\ key.t = "num" /\ key.n \in 0 .. Len(o.tab) - 1 THEN Found("value", o.tab[key.n + 1])
               ELSE IF FindOwn(o, key) # 0
                    THEN IF p.kind = "normal" THEN Found("value", p.val)
                         ELSE IF p.val = Undefined THEN Found("value", Undefined) ELSE Found("call", p.val)
               ELSE IF o.proto = 0 THEN Found("value", Undefined)
               ELSE from[o.proto]
    IN from[id]
JS_GetPropertyInternal(heap, v, key) ==
    CASE v.t \in {"null", "undefined"} -> Found("throw", Error("TypeError"))
      [] v.t = "obj" -> LookUp(heap, v.n, key)
      [] OTHER -> LookUp(heap, ObjectProto, key)

JS_DefineProperty(heap, id, p) ==
    LET i == FindOwn(heap[id], p.key)
    IN [heap EXCEPT ![id].props = IF i = 0 THEN Append(@, p) ELSE [@ EXCEPT ![i] = p]]
FindSetter(heap, id, key) ==
    LET from[o \in 0 .. Len(heap)] ==
            LET i == FindOwn(heap[o], key)
            IN IF o = 0 THEN 0
               ELSE IF i # 0 THEN (IF heap[o].props[i].kind = "getset" THEN o ELSE 0)
               ELSE from[heap[o].proto]
    IN from[id]
Stored(heap) == [k |-> "value", v |-> Undefined, heap |-> heap]
JS_SetPropertyInternal(heap, this, key, v) ==
    LET o == heap[this.n]
        setter == FindSetter(heap, this.n, key)
    IN CASE this.t # "obj" -> [k |-> "throw", v |-> Error("TypeError"), heap |-> heap]
         [] this.t = "obj" /\ o.cls = "array" /\ key.t = "num" ->
              IF key.n \notin 0 .. Len(o.tab) THEN [k |-> "throw", v |-> Error("TypeError"), heap |-> heap]
              ELSE Stored([heap EXCEPT ![this.n].tab = IF key.n = Len(@) THEN Append(@, v) ELSE [@ EXCEPT ![key.n + 1] = v]])
         [] OTHER -> IF setter = 0 THEN Stored(JS_DefineProperty(heap, this.n, Normal(key, v)))
                     ELSE [k |-> "call", v |-> heap[setter].props[FindOwn(heap[setter], key)].set, heap |-> heap]
JS_DeleteProperty(heap, v, key) ==
    LET i == FindOwn(heap[v.n], key)
    IN IF v.t # "obj" \/ i = 0 THEN heap ELSE [heap EXCEPT ![v.n].props = RemoveAt(@, i)]
JS_HasProperty(heap, id, key) ==
    LET from[o \in 0 .. Len(heap)] == o # 0 /\ (FindOwn(heap[o], key) # 0 \/ from[heap[o].proto])
    IN from[id]
js_object_keys(o) ==
    (IF o.cls = "array" THEN [i \in DOMAIN o.tab |-> Str(ToString(i - 1))] ELSE <<>>)
    \o [i \in DOMAIN o.props |-> Str(JS_ToString(o.props[i].key))]

IsFunction(heap, v) == v.t = "obj" /\ heap[v.n].cls \in {"closure", "cfunc"}
(* A closure gets its prototype object the first time it is asked for. *)
js_function_get_prototype(heap, f) ==
    LET p == Obj(Len(heap) + 1)
        o == [Object("object", ObjectProto) EXCEPT !.props = << Normal(Str("constructor"), f) >>]
    IN IF f.t # "obj" \/ heap[f.n].cls # "closure" THEN [heap |-> heap, v |-> Undefined]
       ELSE [heap |-> JS_DefineProperty(Append(heap, o), f.n, Normal(Str("prototype"), p)), v |-> p]
GetPrototype(heap, f) ==
    LET p == LookUp(heap, f.n, Str("prototype"))
    IN IF p.k = "call" THEN js_function_get_prototype(heap, f) ELSE [heap |-> heap, v |-> p.v]
HasProto(heap, id, p) ==
    LET above[i \in DOMAIN heap] ==
            LET proto == heap[i].proto IN proto # 0 /\ (p = Obj(proto) \/ above[proto])
    IN above[id]
js_operator_typeof(heap, v) ==
    CASE IsNum(v) -> "number" [] v.t = "str" -> "string" [] v.t = "bool" -> "boolean" [] v.t \in {"null", "error"} -> "object"
      [] v.t = "obj" -> IF IsFunction(heap, v) THEN "function" ELSE "object"
      [] OTHER -> "undefined"

-----------------------------------------------------------------------------
(* Cells. *)
Detached(v) == [attached |-> FALSE, depth |-> 0, kind |-> "", idx |-> 0, val |-> v]
Attached(depth, kind, idx) == [attached |-> TRUE, depth |-> depth, kind |-> kind, idx |-> idx, val |-> Undefined]
SlotOf(f, kind, idx) == IF kind = "arg" THEN f.args[idx] ELSE f.locs[idx]
SlotName(c) == <<c.kind, c.idx>>
CellValue(c) == IF c.attached THEN SlotOf(frames[c.depth], c.kind, c.idx) ELSE c.val

(* Where a new cell lies: a place named for the closure it is made for and the
   slot or global it is the cell of. *)
Address(kind, idx, name) == <<Len(objs) + 1, kind, idx, name>>
(* Mutant: each closure gets a cell of its own. *)
own_var_ref(refs, e) == Address(e.kind, e.idx, "")
(* The cell of a slot of the frame whose cells refs are: the one it has, or a new one. *)
get_var_ref(refs, e) ==
    LET have == {r \in refs : SlotName(cells[r]) = <<e.kind, e.idx>>}
    IN IF have # {} THEN CHOOSE r \in have : TRUE ELSE Address(e.kind, e.idx, "")
(* A global variable exists from the first closure that names it. *)
add_global_var(name) == IF name \in DOMAIN globals THEN globals[name] ELSE Address("global", 0, name)
(* The cells of a new closure's variables.  A global without a `var' stays
   uninitialized until it is assigned. *)
js_closure(fn, depth, refs, outer) ==
    LET OfKind(kinds) == {e \in ToSet(fn.ext) : e.kind \in kinds}
        slots == {get_var_ref(refs, e) : e \in OfKind({"arg", "loc"})}
        names == {e.name : e \in OfKind({"global"})}
        defined == {add_global_var(e.name) : e \in {g \in OfKind({"global"}) : g.idx = 1}}
        Defined(c) == IF c.val = Uninitialized THEN [c EXCEPT !.val = Undefined] ELSE c
        Cell(r) == IF r \in DOMAIN cells THEN cells[r]
                   ELSE IF r \in slots THEN Attached(depth, r[2], r[3]) ELSE Detached(Uninitialized)
    IN [ids     |-> [i \in DOMAIN fn.ext |->
                        CASE fn.ext[i].kind \in {"arg", "loc"} -> get_var_ref(refs, fn.ext[i])
                          [] fn.ext[i].kind = "var_ref" -> outer[fn.ext[i].idx]
                          [] OTHER -> add_global_var(fn.ext[i].name)],
        refs    |-> refs \cup slots,
        globals |-> [n \in DOMAIN globals \cup names |-> add_global_var(n)],
        cells   |-> [r \in DOMAIN cells \cup slots \cup {add_global_var(n) : n \in names} |->
                        IF r \in defined THEN Defined(Cell(r)) ELSE Cell(r)]]
Closure(fn, ids) == [Object("closure", FunctionProto) EXCEPT !.fn = fn, !.refs = ids]

(* Missing arguments are undefined; argc remembers how many were given.  The
   call flags are FRAME_CF_CTOR, FRAME_CF_POP_RET and FRAME_CF_PC_ADD1. *)
CTOR == "ctor"
POP_RET == "pop_ret"
PC_ADD1 == "pc_add1"
Frame(fn, id, func, this, args, flags) ==
    [fn |-> id, func |-> func, this |-> this, argc |-> Len(args), flags |-> flags, pc |-> 1,
     args |-> args \o [i \in 1 .. Max({0, fn.nargs - Len(args)}) |-> Undefined],
     locs |-> [i \in 1 .. Len(fn.vars) - fn.nargs |-> Undefined], stack |-> <<>>, refs |-> {}]

PrintCell == <<7, "global", 0, "print">>
Init ==
    /\ prog \in Programs
    /\ code = <<>>
    /\ frames = <<>>
    /\ objs = StandardObjects
    /\ cells = [r \in {PrintCell} |-> Detached(Obj(7))]
    /\ globals = [print |-> PrintCell]
    /\ exc = NoExc
    /\ uncatchable = FALSE
    /\ status = "source"
    /\ result = Undefined
    /\ log = <<>>
    /\ val = FALSE
    /\ flagsLost = FALSE
JS_Parse ==
    /\ status = "source"
    /\ \E c \in {CodeOf(prog)} :
          IF c.err = "" THEN code' = c.fns /\ status' = "parsed" /\ UNCHANGED result
          ELSE status' = "thrown" /\ result' = Error("SyntaxError") /\ UNCHANGED code
    /\ UNCHANGED <<prog, frames, objs, cells, globals, exc, uncatchable, log, val, flagsLost>>
JS_Run ==
    /\ status = "parsed"
    /\ LET a == js_closure(code[1], 0, {}, <<>>)
       IN /\ objs' = Append(objs, Closure(1, a.ids))
          /\ cells' = a.cells
          /\ globals' = a.globals
          /\ frames' = << Frame(code[1], 1, Obj(Len(objs) + 1), Null, <<>>, {}) >>
    /\ status' = "running"
    /\ UNCHANGED <<prog, code, exc, uncatchable, result, log, val, flagsLost>>

-----------------------------------------------------------------------------
(* The running function, its instruction and its operands. *)
Depth == Len(frames)
Top == frames[Depth]
Fn == code[Top.fn]
Opcode == Fn.code[Top.pc][1]
Operand == Fn.code[Top.pc][2]
S(i) == FromTop(Top.stack, i)
Below(n) == Less(Top.stack, n)
Fetch(ops) == status = "running" /\ exc = NoExc /\ ~flagsLost /\ Opcode \in ops
Const == Str(Fn.cpool[Operand][2])
At(st, pc) == [Top EXCEPT !.stack = st, !.pc = pc]
(* The frames once the instruction has left st on the stack. *)
To(st) == [frames EXCEPT ![Depth] = At(st, Top.pc + 1)]
Jump(st, pc) == [frames EXCEPT ![Depth] = At(st, pc)]
Quiet == UNCHANGED <<prog, code, globals, uncatchable, status, result, log, flagsLost>>
(* An instruction leaves val alone, leaves its result there, or something that
   is no string of one character: another value, or JS_EXCEPTION. *)
IsChar(v) == v.t = "str" /\ Len(v.a) = 1
Continue(st) == frames' = To(st) /\ Quiet /\ UNCHANGED <<objs, cells, exc, val>>
Yield(st, v) == frames' = To(Append(st, v)) /\ val' = IsChar(v) /\ Quiet /\ UNCHANGED <<objs, cells, exc>>
Allocate(o, st) ==
    /\ frames' = To(Append(st, Obj(Len(objs) + 1))) /\ objs' = Append(objs, o)
    /\ val' = FALSE /\ Quiet /\ UNCHANGED <<cells, exc>>
Throw(v) ==
    /\ exc' = v /\ val' = FALSE
    /\ UNCHANGED <<prog, code, frames, objs, cells, globals, uncatchable, status, result, log, flagsLost>>
(* The poll of the interrupt handler, when it is due, leaves undefined. *)
Polled == val' \in {val, FALSE}

Pushed == [push_value |-> Num(Operand), undefined |-> Undefined, null |-> Null, push_this |-> Top.this,
           push_false |-> Bool(FALSE), push_true |-> Bool(TRUE), this_func |-> Top.func,
           new_target |-> IF CTOR \in Top.flags THEN Top.func ELSE Undefined, catch |-> CatchOffset(Operand)]
Push == Fetch(DOMAIN Pushed) /\ Continue(Append(Top.stack, Pushed[Opcode]))
PushConst == Fetch({"push_const"}) /\ Continue(Append(Top.stack, Const))
NewObject == Fetch({"object"}) /\ Allocate(Object("object", ObjectProto), Top.stack)
ArrayFrom == /\ Fetch({"array_from"})
             /\ Allocate([Object("array", ArrayProto) EXCEPT !.tab = [i \in 1 .. Operand |-> S(Operand - i)]], Below(Operand))
Arguments == /\ Fetch({"arguments"})
             /\ Allocate([Object("array", ArrayProto) EXCEPT !.tab = SubSeq(Top.args, 1, Top.argc)], Top.stack)

Shuffle == Fetch(Shuffles) /\ Continue(Shuffled(Opcode, Top.stack))

GetSlot == /\ Fetch({"get_loc", "get_arg"})
           /\ Continue(Append(Top.stack, SlotOf(Top, IF Opcode = "get_loc" THEN "loc" ELSE "arg", Operand)))
PutSlot ==
    /\ Fetch({"put_loc", "put_arg"})
    /\ frames' = IF Opcode = "put_loc" THEN [To(Below(1)) EXCEPT ![Depth].locs[Operand] = S(0)]
                 ELSE [To(Below(1)) EXCEPT ![Depth].args[Operand] = S(0)]
    /\ Quiet /\ UNCHANGED <<objs, cells, exc, val>>
Ref == objs[Top.func.n].refs[Operand]
GetVarRef ==
    /\ Fetch({"get_var_ref", "get_var_ref_nocheck"})
    /\ LET v == CellValue(cells[Ref])
       IN IF v = Uninitialized /\ Opcode = "get_var_ref" THEN Throw(Error("ReferenceError"))
          ELSE Yield(Top.stack, v)
PutVarRef ==
    /\ Fetch({"put_var_ref", "put_var_ref_nocheck"})
    /\ LET c == cells[Ref]
           fs == To(Below(1))
       IN IF CellValue(c) = Uninitialized /\ Opcode = "put_var_ref" THEN Throw(Error("ReferenceError"))
          ELSE /\ frames' = IF ~c.attached THEN fs
                            ELSE IF c.kind = "arg" THEN [fs EXCEPT ![c.depth].args[c.idx] = S(0)]
                            ELSE [fs EXCEPT ![c.depth].locs[c.idx] = S(0)]
               /\ cells' = IF c.attached THEN cells ELSE [cells EXCEPT ![Ref].val = S(0)]
               /\ Quiet /\ UNCHANGED <<objs, exc, val>>
FClosure ==
    /\ Fetch({"fclosure"})
    /\ LET id == Fn.cpool[Operand][2]
           a == js_closure(code[id], Depth, Top.refs, objs[Top.func.n].refs)
       IN /\ objs' = Append(objs, Closure(id, a.ids))
          /\ cells' = a.cells
          /\ globals' = a.globals
          /\ frames' = [To(Append(Top.stack, Obj(Len(objs) + 1))) EXCEPT ![Depth].refs = a.refs]
    /\ val' = FALSE
    /\ UNCHANGED <<prog, code, exc, uncatchable, status, result, log, flagsLost>>

Goto == Fetch({"goto"}) /\ frames' = Jump(Top.stack, Operand) /\ Polled /\ Quiet /\ UNCHANGED <<objs, cells, exc>>
Branch == /\ Fetch({"if_false", "if_true"})
          /\ frames' = Jump(Below(1), IF JS_ToBool(S(0)) = (Opcode = "if_true") THEN Operand ELSE Top.pc + 1)
          /\ Polled /\ Quiet /\ UNCHANGED <<objs, cells, exc>>
(* Mutant: ret comes back to the gosub itself. *)
GosubAddress == Top.pc
ReturnAddress == Top.pc + 1
Gosub == /\ Fetch({"gosub"})
         /\ frames' = Jump(Append(Top.stack, Num(ReturnAddress)), Operand)
         /\ Quiet /\ UNCHANGED <<objs, cells, exc, val>>
Ret == /\ Fetch({"ret"})
       /\ IF S(0).t # "num" THEN Throw(Error("InternalError"))
          ELSE frames' = Jump(Below(1), S(0).n) /\ Quiet /\ UNCHANGED <<objs, cells, exc, val>>
ThrowOp == Fetch({"throw"}) /\ Throw(S(0))

-----------------------------------------------------------------------------
(* Calls.  The function, this and the arguments leave the stack; st is what
   stays of it.  The C function `call' calls in its turn, without a frame, and
   not for its caller: if that meant to drop the result or to go on after an
   instruction of one byte, the value stays on the stack or execution resumes
   in the middle of an instruction.  The model follows the program to there.  *)
Arg(args, i) == IF i > Len(args) THEN Undefined ELSE args[i]
IsCall(v) == IsFunction(objs, v) /\ objs[v.n].name = "call"
Target(func, this, args) ==
    LET given == <<func, this>> \o args
        k == Min({i \in 1 .. Len(given) + 1 : ~IsCall(Arg(given, i))})
    IN [func |-> Arg(given, k), this |-> Arg(given, k + 1), args |-> SubSeq(given, k + 2, Len(given))]
CFunctionCall(t, st, flags) ==
    LET name == objs[t.func.n].name
        get == js_function_get_prototype(objs, t.this)
        Returns(v) == frames' = To(IF POP_RET \in flags THEN st ELSE Append(st, v))
    IN IF name \in {"get_prototype", "set_prototype"} /\ ~IsFunction(objs, t.this) THEN Throw(Error("TypeError"))
       ELSE /\ \/ name = "print" /\ Returns(Undefined) /\ log' = Append(log, Arg(t.args, 1)) /\ UNCHANGED objs
               \/ name = "get_prototype" /\ Returns(get.v) /\ objs' = get.heap /\ UNCHANGED log
               \/ /\ name = "set_prototype"
                  /\ Returns(Undefined)
                  /\ objs' = JS_DefineProperty(objs, t.this.n, Normal(Str("prototype"), Arg(t.args, 1)))
                  /\ UNCHANGED log
            /\ val' = FALSE
            /\ UNCHANGED <<prog, code, cells, globals, exc, uncatchable, status, result, flagsLost>>
ClosureCall(t, st, flags) ==
    LET ctor == CTOR \in flags
        p == IF ctor THEN GetPrototype(objs, t.func) ELSE [heap |-> objs, v |-> Undefined]
        proto == IF p.v.t = "obj" THEN p.v.n ELSE ObjectProto
        this == IF ctor THEN Obj(Len(p.heap) + 1) ELSE t.this
        id == objs[t.func.n].fn
    IN /\ objs' = IF ctor THEN Append(p.heap, Object("object", proto)) ELSE objs
       /\ frames' = Append(To(st), Frame(code[id], id, t.func, this, t.args, flags))
       /\ Quiet /\ UNCHANGED <<cells, exc>>
LoseFlags ==
    /\ flagsLost' = TRUE
    /\ UNCHANGED <<prog, code, frames, objs, cells, globals, exc, uncatchable, status, result, log, val>>
Call(func, this, args, st, flags) ==
    LET t == Target(func, this, args)
        tail == IsCall(func) \/ Opcode \notin {"call", "call_method"}
    IN IF ~IsFunction(objs, t.func) \/ (CTOR \in flags /\ objs[func.n].cls = "cfunc") THEN Throw(Error("TypeError"))
       ELSE IF IsCall(func) /\ flags # {} THEN LoseFlags
       ELSE IF objs[t.func.n].cls = "cfunc" THEN CFunctionCall(t, st, flags)
       ELSE ClosureCall(t, st, flags) /\ (IF tail THEN val' = FALSE ELSE Polled)
CallOp ==
    /\ Fetch({"call", "call_constructor", "call_method"})
    /\ LET n == Operand
           args == SubSeq(Top.stack, Len(Top.stack) - n + 1, Len(Top.stack))
       IN IF Opcode = "call_method" THEN Call(S(n), S(n + 1), args, Below(n + 2), {})
          ELSE Call(S(n), Undefined, args, Below(n + 1), IF Opcode = "call_constructor" THEN {CTOR} ELSE {})

(* The frame goes: its cells take over the values of its variables. *)
Leave(v) ==
    LET f == Top
        ret == IF CTOR \in f.flags /\ ~IsObj(v) THEN f.this ELSE v
    IN /\ cells' = [r \in DOMAIN cells |->
                       IF r \in f.refs THEN Detached(SlotOf(f, cells[r].kind, cells[r].idx)) ELSE cells[r]]
       /\ frames' = IF exc # NoExc \/ Depth = 1 \/ POP_RET \in f.flags THEN Front(frames)
                    ELSE [Front(frames) EXCEPT ![Depth - 1].stack = Append(@, ret)]
       /\ status' = IF Depth > 1 THEN "running" ELSE IF exc = NoExc THEN "returned" ELSE "thrown"
       /\ result' = IF Depth > 1 THEN result ELSE IF exc = NoExc THEN ret ELSE exc
       /\ val' = (exc = NoExc /\ IsChar(ret))
       /\ UNCHANGED <<prog, code, objs, globals, uncatchable, log, flagsLost>>
Return == /\ Fetch({"return", "return_undef"})
          /\ Leave(IF Opcode = "return" THEN S(0) ELSE Undefined)
          /\ UNCHANGED exc
(* The nearest handler is the last catch offset of the operand stack. *)
CatchOffsets == {i \in DOMAIN Top.stack : Top.stack[i].t = "catch"}
(* Mutant: an interrupt can be caught. *)
CatchingHandlers == CatchOffsets
Handlers == IF uncatchable THEN {} ELSE CatchOffsets
Unwind ==
    /\ status = "running"
    /\ exc # NoExc
    /\ LET h == Max(Handlers)
       IN IF Handlers = {} THEN Leave(Undefined) /\ exc' = IF Depth = 1 THEN NoExc ELSE exc
          ELSE /\ frames' = Jump(Append(SubSeq(Top.stack, 1, h - 1), exc), Top.stack[h].n)
               /\ exc' = NoExc
               /\ Quiet /\ UNCHANGED <<objs, cells, val>>

-----------------------------------------------------------------------------
(* Objects.  st is the stack below the operands; a getter's result takes the
   place of the value read. *)
Read(v, key, st, flags) ==
    LET r == JS_GetPropertyInternal(objs, v, key)
    IN CASE r.k = "throw" -> Throw(r.v)
         [] r.k = "call" -> Call(r.v, v, <<>>, st, flags)
         [] OTHER -> Yield(st, r.v)
FieldOps == {"get_field", "get_field2"}
LengthOps == {"get_length", "get_length2"}
ElementOps == {"get_array_el", "get_array_el2"}
GetField == Fetch(FieldOps) /\ Read(S(0), Const, IF Opcode = "get_field" THEN Below(1) ELSE Top.stack, {})
(* An array and a string have their length.  Of a value that is no pointer the
   code does not look at the value, but at what was left in val.             *)
Immediate(v) == v.t \in {"num", "bool", "null", "undefined"}
GetLength ==
    /\ Fetch(LengthOps)
    /\ LET st == IF Opcode = "get_length" THEN Below(1) ELSE Top.stack
           v == S(0)
       IN IF v.t = "obj" /\ objs[v.n].cls = "array" THEN Yield(st, Num(Len(objs[v.n].tab)))
          ELSE IF v.t = "str" THEN Yield(st, Num(Len(v.a)))
          ELSE IF Immediate(v) /\ val THEN Yield(st, Num(1))
          ELSE Read(v, Str("length"), st, {PC_ADD1})
GetArrayEl ==
    /\ Fetch(ElementOps)
    /\ Read(S(1), JS_ToPropertyKey(S(0)), IF Opcode = "get_array_el" THEN Below(2) ELSE Below(1), {PC_ADD1})
(* A property or an element that is there is stored without a call, unless it
   lies in ROM; one more element too, if the array has room.                  *)
InPlace(v, key) ==
    /\ v.t = "obj"
    /\ LET o == objs[v.n]
       IN IF key.t = "num" THEN o.cls = "array" /\ key.n \in 0 .. Len(o.tab)
          ELSE \E p \in ToSet(o.props) : p.key = key /\ p.kind = "normal"
Store(v, key, heap, st) ==
    /\ objs' = heap /\ frames' = To(st)
    /\ IF InPlace(v, key) THEN val' \in {val, FALSE} ELSE val' = FALSE
    /\ Quiet /\ UNCHANGED <<cells, exc>>
(* Mutant: what a setter returns is left on the stack. *)
WriteKeepingResult(v, key, w, st, flags) ==
    LET r == JS_SetPropertyInternal(objs, v, key, w)
    IN CASE r.k = "throw" -> Throw(r.v)
         [] r.k = "call" -> Call(r.v, v, <<w>>, st, flags \ {POP_RET})
         [] OTHER -> Store(v, key, r.heap, st)
Write(v, key, w, st, flags) ==
    LET r == JS_SetPropertyInternal(objs, v, key, w)
    IN CASE r.k = "throw" -> Throw(r.v)
         [] r.k = "call" -> Call(r.v, v, <<w>>, st, flags)
         [] OTHER -> Store(v, key, r.heap, st)
PutField == Fetch({"put_field"}) /\ Write(S(1), Const, S(0), Below(2), {POP_RET})
PutArrayEl == Fetch({"put_array_el"}) /\ Write(S(2), JS_ToPropertyKey(S(1)), S(0), Below(3), {POP_RET, PC_ADD1})
(* An accessor keeps its other half; a value and an accessor do not mix. *)
DefineField ==
    /\ Fetch({"define_field", "define_getter", "define_setter"})
    /\ LET key == JS_ToPropertyKey(Const)
           id == S(1).n
           i == FindOwn(objs[id], key)
           old == IF i = 0 THEN Getset(key, Undefined, Undefined) ELSE objs[id].props[i]
           new == CASE Opcode = "define_field" -> Normal(key, S(0))
                    [] Opcode = "define_getter" -> Getset(key, S(0), old.set)
                    [] Opcode = "define_setter" -> Getset(key, old.val, S(0))
       IN IF i # 0 /\ old.kind # new.kind THEN Throw(Error("TypeError"))
          ELSE /\ objs' = JS_DefineProperty(objs, id, new)
               /\ frames' = To(Below(1)) /\ val' = FALSE /\ Quiet /\ UNCHANGED <<cells, exc>>
Circular(id, p) == p = id \/ HasProto(objs, p, Obj(id))
SetProto ==
    /\ Fetch({"set_proto"})
    /\ IF S(0).t = "obj" /\ Circular(S(1).n, S(0).n) THEN Throw(Error("TypeError"))
       ELSE /\ objs' = IF S(0).t \notin {"obj", "null"} THEN objs ELSE [objs EXCEPT ![S(1).n].proto = S(0).n]
            /\ val' = (val /\ S(0).t \notin {"obj", "error", "null"})
            /\ frames' = To(Below(1)) /\ Quiet /\ UNCHANGED <<cells, exc>>
Delete == /\ Fetch({"delete"})
          /\ objs' = JS_DeleteProperty(objs, S(1), JS_ToPropertyKey(S(0)))
          /\ frames' = To(Append(Below(2), Bool(TRUE))) /\ val' = FALSE /\ Quiet /\ UNCHANGED <<cells, exc>>

ForStart ==
    /\ Fetch({"for_in_start", "for_of_start"})
    /\ LET keys == [Object("array", ArrayProto) EXCEPT !.tab = js_object_keys(objs[S(0).n])]
           heap == IF Opcode = "for_in_start" THEN Append(objs, keys) ELSE objs
           arr == IF Opcode = "for_in_start" THEN Len(heap) ELSE S(0).n
       IN IF S(0).t # "obj" \/ heap[arr].cls # "array" THEN Throw(Error("TypeError"))
          ELSE /\ objs' = Append(heap, [Object("iterator", 0) EXCEPT !.refs = <<arr>>])
               /\ frames' = To(Append(Below(1), Obj(Len(heap) + 1)))
               /\ val' = FALSE /\ Quiet /\ UNCHANGED <<cells, exc>>
ForNext ==
    /\ Fetch({"for_of_next"})
    /\ LET it == objs[S(0).n]
           tab == objs[it.refs[1]].tab
       IN IF it.pos >= Len(tab) THEN frames' = To(Top.stack \o <<Undefined, Bool(TRUE)>>) /\ UNCHANGED objs
          ELSE /\ objs' = [objs EXCEPT ![S(0).n].pos = @ + 1]
               /\ frames' = To(Top.stack \o <<tab[it.pos + 1], Bool(FALSE)>>)
    /\ val' = FALSE /\ Quiet /\ UNCHANGED <<cells, exc>>

(* Integers that the result is computed of without val. *)
FastUnary == Opcode = "lnot" \/ S(0).t = "num" \/ (Opcode = "plus" /\ IsNum(S(0)))
FastBinary ==
    /\ S(0).t = "num" /\ S(1).t = "num" /\ Opcode \notin {"div", "pow"}
    /\ Opcode = "mod" => S(1).n >= 0 /\ S(0).n > 0
UnaryOp ==
    /\ Fetch(ValueUnary)
    /\ LET v == Unary(Opcode, S(0))
       IN IF FastUnary THEN Continue(Append(Below(1), v)) ELSE Yield(Below(1), v)
PostOp == /\ Fetch({"post_inc", "post_dec"})
          /\ LET old == JS_ToNumber(S(0))
             IN frames' = To(Below(1) \o <<old, Unary(IF Opcode = "post_inc" THEN "inc" ELSE "dec", old)>>)
          /\ val' = FALSE /\ Quiet /\ UNCHANGED <<objs, cells, exc>>
BinaryOp ==
    /\ Fetch(ValueBinary)
    /\ LET v == Binary(Opcode, S(1), S(0))
       IN IF FastBinary THEN Continue(Append(Below(2), v)) ELSE Yield(Below(2), v)
TypeOf == Fetch({"typeof"}) /\ Yield(Below(1), Str(js_operator_typeof(objs, S(0))))
InOp == /\ Fetch({"in"})
        /\ IF ~IsObj(S(0)) THEN Throw(Error("TypeError"))
           ELSE Yield(Below(2), Bool(JS_HasProperty(objs, S(0).n, JS_ToPropertyKey(S(1)))))
InstanceOf ==
    /\ Fetch({"instanceof"})
    /\ LET p == GetPrototype(objs, S(0))
       IN IF ~IsFunction(objs, S(0)) THEN Throw(Error("TypeError"))
          ELSE /\ objs' = p.heap
               /\ frames' = To(Append(Below(2), Bool(S(1).t = "obj" /\ HasProto(p.heap, S(1).n, p.v))))
               /\ val' = FALSE /\ Quiet /\ UNCHANGED <<cells, exc>>

(* The host's interrupt handler is asked at each jump, at each call and where an
   instruction calls a getter or a setter. *)
CallsAccessor ==
    \/ Opcode \in FieldOps /\ JS_GetPropertyInternal(objs, S(0), Const).k = "call"
    \/ Opcode \in LengthOps /\ IsChar(S(0)) /\ ~val
    \/ Opcode \in LengthOps /\ JS_GetPropertyInternal(objs, S(0), Str("length")).k = "call"
    \/ Opcode \in ElementOps /\ JS_GetPropertyInternal(objs, S(1), JS_ToPropertyKey(S(0))).k = "call"
    \/ Opcode = "put_field" /\ JS_SetPropertyInternal(objs, S(1), Const, S(0)).k = "call"
    \/ Opcode = "put_array_el" /\ JS_SetPropertyInternal(objs, S(2), JS_ToPropertyKey(S(1)), S(0)).k = "call"
Jumps == {"goto", "if_false", "if_true"}
CallOps == {"call", "call_constructor", "call_method"}
Interrupt ==
    /\ prog \in Interruptible
    /\ Fetch(Jumps \cup CallOps) \/ (Fetch(FieldOps \cup LengthOps \cup ElementOps \cup {"put_field", "put_array_el"}) /\ CallsAccessor)
    /\ exc' = Error("InternalError")
    /\ uncatchable' = TRUE
    /\ val' = FALSE
    /\ UNCHANGED <<prog, code, frames, objs, cells, globals, status, result, log, flagsLost>>

Terminated == (status \in {"returned", "thrown"} \/ flagsLost) /\ UNCHANGED vars
Next ==
    \/ JS_Parse \/ JS_Run \/ Push \/ PushConst \/ NewObject \/ ArrayFrom \/ Arguments \/ Shuffle \/ GetSlot \/ PutSlot \/ GetVarRef \/ PutVarRef
    \/ FClosure \/ Goto \/ Branch \/ Gosub \/ Ret \/ ThrowOp \/ CallOp \/ Return \/ Unwind \/ Interrupt \/ GetField
    \/ GetLength \/ GetArrayEl \/ PutField \/ PutArrayEl \/ DefineField \/ SetProto \/ Delete \/ ForStart \/ ForNext
    \/ UnaryOp \/ PostOp \/ BinaryOp \/ TypeOf \/ InOp \/ InstanceOf \/ Terminated
(* Once a program is parsed the interpreter's loop does not rest. *)
Execute == status # "source" /\ Next
Spec == Init /\ [][Next]_vars /\ WF_vars(Execute)

-----------------------------------------------------------------------------
(* Every frame's operand stack is as deep as the compiler found when it
   explored the function's code (compute_stack_size), whichever jumps, calls and
   finally blocks led to the instruction: a running frame's at its next
   instruction, a caller's once the value of its call is there.  Two things it
   does not say: that pass has no case for OP_catch, so that an instruction of a
   catch handler is not explored (ShapesKept speaks of what the parser leaves on
   the stack there); and once a C function's tail call dropped the flags of its
   caller it is false, the caller's stack is then one too deep or its pc within
   an instruction.                                                              *)
Explored(f) == code[f.fn].explored
StackAsExplored ==
    ~flagsLost => \A d \in DOMAIN frames :
        LET f == frames[d]
            pending == IF d < Depth /\ POP_RET \notin frames[d + 1].flags THEN 1 ELSE 0
        IN (d < Depth \/ exc = NoExc) /\ f.pc \in DOMAIN Explored(f) => Len(f.stack) + pending = Explored(f)[f.pc]

(* A variable is one place however many closures captured it: an attached
   cell belongs to a frame that is still there and no other cell has its slot,
   and a frame's list names just its attached cells (get_var_ref and the
   detachment of JS_Call's return and unwinding). *)
CapturedOnce ==
    /\ \A r \in DOMAIN cells : cells[r].attached =>
           cells[r].depth \in DOMAIN frames /\ r \in frames[cells[r].depth].refs
    /\ \A d \in DOMAIN frames : \A r \in frames[d].refs :
           /\ r \in DOMAIN cells /\ cells[r].attached /\ cells[r].depth = d
           /\ \A q \in frames[d].refs : SlotName(cells[q]) = SlotName(cells[r]) => q = r

(* Once the host interrupted the program no handler and no finally block runs:
   each step only takes a frame away. *)
InterruptUnwinds ==
    [][uncatchable => /\ Len(frames') = Len(frames) - 1
                      /\ log' = log
                      /\ status' = (IF Len(frames) = 1 THEN "thrown" ELSE status)]_vars

(* The interpreter gets to the end of every program here, or to a call that
   loses its flags: no compiled jump leads into a circle the source does not
   have. *)
Terminates == status = "parsed" ~> status \in {"returned", "thrown"} \/ flagsLost
=============================================================================
