------------------------------ MODULE ArraysLaw ------------------------------
(* What the methods of an array promise, of the sequence of its values: that
   what stood behind its length never comes back, that a function which
   changes the array meanwhile is called with what is there then and for no
   index beyond it, and that a sort is a sort.                              *)
EXTENDS Arrays

Values(p) == SubSeq(p.tab, 1, p.len)
Padded(a, n) == SubSeq(a, 1, Min({n, Len(a)})) \o Undefineds(Max({n - Len(a), 0}))
Fits(n) == n <= JS_SHORTINT_MAX /\ ~TooLarge(n)

-----------------------------------------------------------------------------
(* The operations that change an array: [op, v], on its sequence. *)
Promised(a, o) ==
    CASE o.op = "push" -> a \o o.v
      [] o.op = "unshift" -> o.v \o a
      [] o.op = "pop" -> SubSeq(a, 1, Len(a) - 1)
      [] o.op = "shift" -> SubSeq(a, 2, Len(a))
      [] o.op = "reverse" -> [i \in DOMAIN a |-> a[Len(a) + 1 - i]]
      [] o.op = "length" -> Padded(a, o.v)
      [] o.op = "set" -> [i \in 1 .. Max({Len(a), o.v + 1}) |-> IF i = o.v + 1 THEN 5 ELSE a[i]]
      [] o.op = "splice" -> SubSeq(a, 1, Min({o.v, Len(a)})) \o <<6, 7>> \o SubSeq(a, o.v + 2, Len(a))
Performed(p, o) ==
    CASE o.op = "push" -> js_array_push(p, o.v, FALSE)
      [] o.op = "unshift" -> js_array_push(p, o.v, TRUE)
      [] o.op = "pop" -> js_array_pop(p)
      [] o.op = "shift" -> js_array_shift(p)
      [] o.op = "reverse" -> Done(js_array_reverse(p))
      [] o.op = "length" -> js_array_set_length(p, o.v)
      [] o.op = "set" -> JS_SetPropertyUint32(p, o.v, 5)
      [] o.op = "splice" -> js_array_splice(p, [n |-> o.v, change |-> "none"], [n |-> 1, change |-> "none"], <<6, 7>>)
(* It fails only where the new length may not be, or a value would be set
   beyond the end; the room grows by half, which may be too much too. *)
MayFail(a, o) ==
    \/ o.op = "set" /\ o.v > Len(a)
    \/ o.op = "length" /\ o.v < 0
    \/ o.op \in {"push", "unshift", "set", "length", "splice"} /\ ~Fits(Len(a) + 1 + (Len(a) + 1) \div 2)
AsPromised(a, o, r) == IF r.ret = Exception THEN MayFail(a, o) /\ Values(r.p) = a ELSE Values(r.p) = Promised(a, o)

-----------------------------------------------------------------------------
(* A value by the language's rules for an index that counts from the end. *)
Relative(n, len) == IF n < 0 THEN Max({len + n, 0}) ELSE Min({n, len})
(* The array after a change of the program, as a sequence. *)
Meanwhile(a, change) == Values(Changed(Array(Len(a), a), change))
IndexLaw(p, x, from) ==
    LET a == Values(p)
        b == IF from = Undefined THEN a ELSE Meanwhile(a, from.change)
        Places(is) == {i \in is : i + 1 \in DOMAIN b /\ b[i + 1] = x}
        up == Places((IF from = Undefined THEN 0 ELSE Relative(from.n, Len(a))) .. Len(b))
        down == Places(0 .. (IF from = Undefined THEN Len(a) - 1 ELSE IF from.n < 0 THEN Len(a) + from.n ELSE Min({from.n, Len(a) - 1})))
    IN /\ js_array_indexOf(p, x, from, FALSE).ret = IF up = {} THEN -1 ELSE Min(up)
       (* -1, the last value, is taken for no value at all. *)
       /\ js_array_indexOf(p, x, from, TRUE).ret = IF down = {} \/ (from # Undefined /\ from.n = -1) THEN -1 ELSE Max(down)
PartLaw(p, start, end) ==
    LET a == Values(p)
        b == Meanwhile(a, start.change)
        c == IF end = Undefined THEN b ELSE Meanwhile(b, end.change)
        from == Relative(start.n, Len(a))
        to == IF end = Undefined THEN Len(a) ELSE Relative(end.n, Len(a))
        del == IF end = Undefined THEN Len(a) - from ELSE Max({0, Min({end.n, Len(a) - from})})
        Spliced(items, r) ==
            IF Len(c) # Len(a) THEN r.ret = Exception /\ Values(r.p) = c
            ELSE IF r.ret = Exception THEN Values(r.p) = c /\ MayFail(a, [op |-> "splice"])
            ELSE /\ Values(r.ret) = SubSeq(c, from + 1, from + del)
                 /\ Values(r.p) = SubSeq(c, 1, from) \o items \o SubSeq(c, from + del + 1, Len(c))
    IN /\ Values(js_array_slice(p, start, end).ret) = SubSeq(c, from + 1, Min({to, Len(c)}))
       /\ \A items \in {<<>>, <<1>>, <<3, 4>>} : Spliced(items, js_array_splice(p, start, end, items))

-----------------------------------------------------------------------------
(* The arrays before each call, when every index is looked at: a call is made
   where the array still has the index. *)
RECURSIVE Visited(_, _, _, _, _)
Visited(a, indices, changes, stop, calls) ==
    LET i == Head(indices)
    IN IF indices = <<>> \/ Len(calls) = stop THEN [a |-> a, calls |-> calls]
       ELSE IF i >= Len(a) THEN Visited(a, Tail(indices), changes, stop, calls)
       ELSE Visited(Meanwhile(a, Nth(changes, Len(calls) + 1)), Tail(indices), changes, stop, Append(calls, <<a[i + 1], i>>))
Upwards(n) == [i \in 1 .. n |-> i - 1]
Downwards(n) == [i \in 1 .. n |-> n - i]
First(S, otherwise) == IF S = {} THEN otherwise ELSE Min(S)
EachLaw(p, special, fn) ==
    LET n == p.len
        Stops(v) == v = Exception \/ (special = "every" /\ ~JS_ToBool(v)) \/ (special = "some" /\ JS_ToBool(v))
        stop == First({c \in 1 .. n : Stops(Nth(fn.results, c))}, n + 1)
        Res(c) == Nth(fn.results, c)
        Kept(calls) == LET kept == SelectSeq([c \in 1 .. Len(calls) |-> <<calls[c][1], Res(c)>>], LAMBDA x : JS_ToBool(x[2]))
                       IN [c \in DOMAIN kept |-> kept[c][1]]
        Alike(s, v) ==
            LET made == Len(v.calls)
                thrown == made > 0 /\ Res(made) = Exception
            IN /\ s.calls = v.calls /\ Values(s.p) = v.a
               /\ (s.ret = Exception) = thrown
               /\ special = "every" /\ ~thrown => s.ret = IF made = stop THEN 0 ELSE 1
               /\ special = "some" /\ ~thrown => s.ret = IF made = stop THEN 1 ELSE 0
               /\ special = "map" /\ ~thrown => Values(s.list) = [c \in 1 .. n |-> IF c <= made THEN Res(c) ELSE Undefined]
               /\ special = "filter" /\ ~thrown => Values(s.list) = Kept(v.calls)
    IN Alike(js_array_every(p, special, fn), Visited(Values(p), Upwards(n), fn.changes, stop, <<>>))
(* Downwards too a call is made for each index the array has, but the first one
   it has no more ends it. *)
ReduceLaw(p, fn, init, right) ==
    LET n == p.len
        order == IF right THEN Downwards(n) ELSE Upwards(n)
        indices == IF init = Null THEN SubSeq(order, 2, n) ELSE order
        stop == First({c \in 1 .. n : Nth(fn.results, c) = Exception}, n + 1)
        begin == IF init # Null THEN init ELSE IF n = 0 THEN Undefined ELSE Values(p)[order[1] + 1]
        (* the accumulator of call c *)
        Acc(c) == IF c = 1 THEN begin ELSE Nth(fn.results, c - 1)
        Alike(s, v) ==
            LET made == Len(v.calls)
                ended == Len(s.calls) < made
            IN /\ s.calls = [c \in 1 .. Len(s.calls) |-> <<Acc(c), v.calls[c][1], v.calls[c][2]>>]
               /\ s.acc = Acc(Len(s.calls) + 1)
               /\ ended => right /\ s.p.len <= indices[Len(s.calls) + 1]
               /\ ~ended => Values(s.p) = v.a /\ Len(s.calls) = made
    IN IF init = Null /\ n = 0 THEN js_array_reduce(p, fn, init, right).acc = Exception
       ELSE Alike(js_array_reduce(p, fn, init, right), Visited(Values(p), indices, fn.changes, stop, <<>>))

-----------------------------------------------------------------------------
(* Every value as often as before. *)
Count(a, v) == Cardinality({i \in DOMAIN a : a[i] = v})
SameValues(a, b) == Len(a) = Len(b) /\ \A i \in DOMAIN a : Count(a, a[i]) = Count(b, a[i])
(* The order is one: of a rank, and equal ranks stay in their order. *)
Ranked(order, values) == \A a, b, c \in values :
    /\ order[<<a, b>>] = -order[<<b, a>>]
    /\ order[<<a, b>>] <= 0 /\ order[<<b, c>>] <= 0 => order[<<a, c>>] <= 0
InOrder(a, before, order) ==
    LET Peers(s, v) == SelectSeq(s, LAMBDA x : x # Undefined /\ order[<<x, v>>] = 0)
    IN \A j \in {i \in DOMAIN a : a[i] # Undefined} :
          /\ \A i \in 1 .. j - 1 : a[i] # Undefined /\ order[<<a[i], a[j]>>] <= 0
          /\ Peers(a, a[j]) = Peers(before, a[j])
(* A sort whose comparison throws must fail, as js_array_sort does at 14922 when
   s->exception is set. It does not here, since js_array_sort_cmp (14811) loses
   the exception; that is a departure of the code and nothing the law asks
   for: of such a sort it only says that no value is lost or made, whether the
   exception comes out or not. Any other sort succeeds. *)
SortLaw(p, by, values) ==
    LET a == Values(p)
        Alike(r) ==
            /\ by.throws = 0 => r.ret # Exception
            /\ Nth(by.changes, 1) = "none" => SameValues(Values(r.p), a)
            /\ Nth(by.changes, 1) = "none" /\ by.throws = 0 /\ Ranked(by.order, values) => InOrder(Values(r.p), a, by.order)
    IN ~TooLarge(2 * p.len) => Alike(js_array_sort(p, by))
(* The texts of the values with a separator between, undefined having none;
   of an array that changes meanwhile the separators stay. *)
JoinLaw(p, changes) ==
    LET s == js_array_join(p, changes)
    IN /\ Count(s.text, Null) = Max({p.len - 1, 0})
       /\ (\A i \in DOMAIN changes : changes[i] = "none") =>
             SelectSeq(s.text, LAMBDA v : v # Null) = SelectSeq(Values(p), LAMBDA v : v # Undefined)
ConcatLaw(args) ==
    LET r == js_array_concat(args)
    IN r # Exception =>
          /\ Values(r) = Values(args[1]) \o Values(args[2])
          /\ Values(js_array_constructor(Values(r), FALSE)) = Values(r)
=============================================================================
