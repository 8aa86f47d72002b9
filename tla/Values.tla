------------------------------- MODULE Values -------------------------------
(* The values of the interpreter and the operators on them that need no
   object: what is an integer on its fast path and what takes a slow path.
   A value is a tag, an integer and a name.  The numbers of the programs are
   small integers and NaN, which also stands for a quotient that is none.  *)
EXTENDS Integers, Sequences, FiniteSetsExt, TLC

Value(t, n, a) == [t |-> t, n |-> n, a |-> a]
Num(n) == Value("num", n, "")
Nan == Value("nan", 0, "")
Str(a) == Value("str", 0, a)
Bool(b) == Value("bool", IF b THEN 1 ELSE 0, "")
Undefined == Value("undefined", 0, "")
Null == Value("null", 0, "")
Uninitialized == Value("uninitialized", 0, "")
Obj(id) == Value("obj", id, "")
Error(name) == Value("error", 0, name)
CatchOffset(pc) == Value("catch", pc, "")

IsNum(v) == v.t \in {"num", "nan"}
IsObj(v) == v.t \in {"obj", "error"}
JS_ToBool(v) == IsObj(v) \/ (v.t \in {"num", "bool"} /\ v.n # 0) \/ (v.t = "str" /\ v.a # "")

Digits == <<"0", "1", "2", "3", "4", "5", "6", "7", "8", "9">>
DigitOf(a) == CHOOSE d \in DOMAIN Digits : Digits[d] = a
IsDigit(a) == \E d \in DOMAIN Digits : Digits[d] = a
(* js_atod1 on the strings of the programs: digits, "" and other text. *)
JS_ToNumber(v) ==
    CASE IsNum(v) -> v
      [] v.t \in {"bool", "null"} -> Num(v.n)
      [] v.t = "str" -> IF v.a = "" THEN Num(0) ELSE IF IsDigit(v.a) THEN Num(DigitOf(v.a) - 1) ELSE Nan
      [] OTHER -> Nan
JS_ToString(v) ==
    CASE v.t = "num" -> ToString(v.n)
      [] v.t = "nan" -> "NaN"
      [] v.t = "bool" -> IF v.n = 1 THEN "true" ELSE "false"
      [] v.t = "str" -> v.a
      [] OTHER -> v.t
JS_ToInt32(v) == LET m == JS_ToNumber(v) IN IF m.t = "nan" THEN 0 ELSE m.n
JS_ToPropertyKey(v) == IF v.t = "num" THEN v ELSE IF v.t = "str" /\ IsDigit(v.a) THEN Num(DigitOf(v.a) - 1) ELSE Str(JS_ToString(v))

Abs(n) == IF n < 0 THEN -n ELSE n
(* C's %, of the sign of the dividend. *)
Remainder(a, b) == (IF a < 0 THEN -1 ELSE 1) * (Abs(a) % Abs(b))
Power(a, n) == IF n = 0 THEN 1 ELSE a ^ n

js_binary_arith_slow(op, v, w) ==
    LET a == JS_ToNumber(v)
        b == JS_ToNumber(w)
    IN CASE a.t = "nan" \/ b.t = "nan" -> Nan
         [] op = "sub" -> Num(a.n - b.n)
         [] op = "mul" -> Num(a.n * b.n)
         [] op = "div" -> IF b.n # 0 /\ Remainder(a.n, b.n) = 0 THEN Num((IF (a.n < 0) # (b.n < 0) THEN -1 ELSE 1) * (Abs(a.n) \div Abs(b.n))) ELSE Nan
         [] op = "mod" -> IF b.n # 0 THEN Num(Remainder(a.n, b.n)) ELSE Nan
         [] op = "pow" -> IF b.n >= 0 THEN Num(Power(a.n, b.n)) ELSE Nan
js_add_slow(v, w) ==
    IF v.t = "str" \/ w.t = "str" THEN Str(JS_ToString(v) \o JS_ToString(w))
    ELSE LET a == JS_ToNumber(v)
             b == JS_ToNumber(w)
         IN IF a.t = "nan" \/ b.t = "nan" THEN Nan ELSE Num(a.n + b.n)
(* On the 32 bits of the operands, the last of which is the sign. *)
Bit(n, i) == (n \div 2 ^ i) % 2
Bitwise(op, a, b) ==
    LET With(x, y) == CASE op = "and" -> x * y [] op = "or" -> x + y - x * y [] OTHER -> (x + y) % 2
        Sign(n) == IF n < 0 THEN 1 ELSE 0
    IN MapThenSumSet(LAMBDA i : With(Bit(a, i), Bit(b, i)) * 2 ^ i, 0 .. 30)
       - With(Sign(a), Sign(b)) * 2 ^ 30 - With(Sign(a), Sign(b)) * 2 ^ 30
(* The shift count is on its low 5 bits. *)
js_binary_logic_slow(op, v, w) ==
    LET a == JS_ToInt32(v)
        b == JS_ToInt32(w)
    IN Num(CASE op \in {"and", "or", "xor"} -> Bitwise(op, a, b)
             [] op = "shl" -> a * Power(2, b % 32) [] OTHER -> a \div Power(2, b % 32))
js_relational_slow(op, v, w) ==
    LET a == JS_ToNumber(v)
        b == JS_ToNumber(w)
    IN Bool(a.t = "num" /\ b.t = "num" /\
            (CASE op = "lt" -> a.n < b.n [] op = "lte" -> a.n <= b.n [] op = "gt" -> a.n > b.n [] op = "gte" -> a.n >= b.n))
js_strict_eq(v, w) == v = w /\ v.t # "nan"
js_eq_get_type(v) == IF IsNum(v) THEN "number" ELSE IF IsObj(v) THEN "object" ELSE v.t
(* Unless both are, a boolean is compared as its number. *)
js_eq_slow(v, w) ==
    LET Plain(u) == IF u.t = "bool" THEN Num(u.n) ELSE u
        types == {js_eq_get_type(Plain(v)), js_eq_get_type(Plain(w))}
    IN CASE js_eq_get_type(v) = js_eq_get_type(w) -> js_strict_eq(v, w)
         [] types = {"null", "undefined"} -> TRUE
         [] types \in {{"number"}, {"str", "number"}} -> js_strict_eq(JS_ToNumber(v), JS_ToNumber(w))
         [] OTHER -> FALSE

(* Both operands integers: the fast path; else conversions, and add may be a
   concatenation. *)
Binary(op, v, w) ==
    CASE op = "add" -> IF v.t = "num" /\ w.t = "num" THEN Num(v.n + w.n) ELSE js_add_slow(v, w)
      [] op \in {"sub", "mul", "div", "mod", "pow"} -> js_binary_arith_slow(op, v, w)
      [] op \in {"and", "or", "xor", "shl", "sar", "shr"} -> js_binary_logic_slow(op, v, w)
      [] op \in {"lt", "lte", "gt", "gte"} -> js_relational_slow(op, v, w)
      [] op = "eq" -> Bool(js_eq_slow(v, w))
      [] op = "neq" -> Bool(~js_eq_slow(v, w))
      [] op = "strict_eq" -> Bool(js_strict_eq(v, w))
      [] op = "strict_neq" -> Bool(~js_strict_eq(v, w))
ValueBinary == {"add", "sub", "mul", "div", "mod", "pow", "and", "or", "xor", "shl", "sar", "shr",
                "lt", "lte", "gt", "gte", "eq", "neq", "strict_eq", "strict_neq"}
Unary(op, v) ==
    LET m == JS_ToNumber(v)
        Plus(d) == IF m.t = "nan" THEN Nan ELSE Num(m.n + d)
    IN CASE op = "lnot" -> Bool(~JS_ToBool(v))
         [] op = "plus" -> m
         [] op = "neg" -> IF m.t = "nan" THEN Nan ELSE Num(-m.n)
         [] op = "inc" -> Plus(1)
         [] op = "dec" -> Plus(-1)
         [] op = "not" -> Num(-JS_ToInt32(v) - 1)
ValueUnary == {"lnot", "plus", "neg", "inc", "dec", "not"}

(* opcode_info: how many operands an instruction <<opcode, operand>> takes off
   the stack, and how many it puts there. *)
Effect(c) ==
    CASE c[1] \in {"push_value", "push_const", "fclosure", "undefined", "null", "push_this", "push_false", "push_true",
                   "object", "this_func", "arguments", "new_target", "get_loc", "get_arg", "get_var_ref",
                   "get_var_ref_nocheck", "catch"} -> <<0, 1>>
      [] c[1] \in {"drop", "return", "throw", "put_loc", "put_arg", "put_var_ref", "put_var_ref_nocheck",
                   "if_false", "if_true", "ret"} -> <<1, 0>>
      [] c[1] \in {"nip", "get_array_el", "define_field", "define_getter", "define_setter", "set_proto", "delete",
                   "in", "instanceof"} \cup ValueBinary -> <<2, 1>>
      [] c[1] \in {"dup", "get_field2", "get_length2", "post_dec", "post_inc"} -> <<1, 2>>
      [] c[1] \in {"get_field", "get_length", "for_in_start", "for_of_start", "typeof"} \cup ValueUnary -> <<1, 1>>
      [] c[1] \in {"swap", "get_array_el2"} -> <<2, 2>>
      [] c[1] = "dup2" -> <<2, 4>>
      [] c[1] = "insert2" -> <<2, 3>>
      [] c[1] = "insert3" -> <<3, 4>>
      [] c[1] \in {"perm3", "rot3l"} -> <<3, 3>>
      [] c[1] = "perm4" -> <<4, 4>>
      [] c[1] \in {"call", "call_constructor"} -> <<1 + c[2], 1>>
      [] c[1] = "call_method" -> <<2 + c[2], 1>>
      [] c[1] = "array_from" -> <<c[2], 1>>
      [] c[1] = "put_field" -> <<2, 0>>
      [] c[1] = "put_array_el" -> <<3, 0>>
      [] c[1] = "for_of_next" -> <<1, 3>>
      [] OTHER -> <<0, 0>>
=============================================================================
