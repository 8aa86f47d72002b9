------------------------------- MODULE Arrays -------------------------------
(* Arrays and their methods (mquickjs.c).  An array is [len, tab]: tab has room
   for more than len values, and what stands behind len is what was there
   before.  A function given to a method is [results, changes]: what
   its calls return, by their number (Exception: it throws), and what they do
   to the array meanwhile.                                                  *)
EXTENDS Integers, Sequences, FiniteSetsExt
CONSTANTS Undefined, Null, Exception, JS_SHORTINT_MAX, JS_VALUE_ARRAY_SIZE_MAX

Array(len, tab) == [len |-> len, tab |-> tab]
Undefineds(n) == [i \in 1 .. n |-> Undefined]
At(p, i) == p.tab[i + 1]
Result(p, ret) == [p |-> p, ret |-> ret]
Done(p) == Result(p, Undefined)
Failed(p) == Result(p, Exception)

JS_NewArray(n) == Array(n, Undefineds(n))
TooLarge(n) == n > JS_VALUE_ARRAY_SIZE_MAX
(* By half at least; the new room is filled with undefined. *)
GrownTo(tab, n) == IF n > Len(tab) THEN Max({n, Len(tab) + Len(tab) \div 2}) ELSE Len(tab)
js_resize_value_array(tab, n) == tab \o Undefineds(GrownTo(tab, n) - Len(tab))
CannotResize(tab, n) == n > Len(tab) /\ TooLarge(GrownTo(tab, n))
Cleared(tab, from, to) == [i \in DOMAIN tab |-> IF i - 1 \in from .. to - 1 THEN Undefined ELSE tab[i]]
(* n values move from from to to, and values are stored at at. *)
Copied(tab, to, from, n) == [i \in DOMAIN tab |-> IF i - 1 \in to .. to + n - 1 THEN tab[i - to + from] ELSE tab[i]]
Stored(tab, at, values) == [i \in DOMAIN tab |-> IF i - 1 \in at .. at + Len(values) - 1 THEN values[i - at] ELSE tab[i]]

js_array_resize(p, n) ==
    IF n < 0 \/ n > JS_SHORTINT_MAX \/ CannotResize(p.tab, n) THEN Failed(p)
    ELSE IF n >= p.len THEN Done(Array(n, Cleared(js_resize_value_array(p.tab, n), p.len, n)))
    ELSE IF n < Len(p.tab) \div 2 /\ Len(p.tab) >= 4 THEN Done(Array(n, SubSeq(p.tab, 1, n)))
    ELSE Done(Array(n, Cleared(p.tab, n, p.len)))
js_array_set_length(p, n) == js_array_resize(p, n)
JS_GetPropertyUint32(p, i) == IF i < p.len THEN At(p, i) ELSE Undefined
JS_SetPropertyUint32(p, i, v) ==
    IF i < p.len THEN Done([p EXCEPT !.tab[i + 1] = v])
    ELSE IF i > p.len \/ CannotResize(p.tab, i + 1) THEN Failed(p)
    ELSE Done(Array(i + 1, Stored(js_resize_value_array(p.tab, i + 1), i, <<v>>)))

js_array_push(p, args, is_unshift) ==
    LET n == p.len + Len(args)
        Into(tab) == IF is_unshift THEN Stored(Copied(tab, Len(args), 0, p.len), 0, args) ELSE Stored(tab, p.len, args)
    IN IF n > JS_SHORTINT_MAX \/ CannotResize(p.tab, n) THEN Failed(p) ELSE Result(Array(n, Into(js_resize_value_array(p.tab, n))), n)
js_array_pop(p) == IF p.len = 0 THEN Done(p) ELSE Result(Array(p.len - 1, p.tab), At(p, p.len - 1))
js_array_shift(p) == IF p.len = 0 THEN Done(p) ELSE Result(Array(p.len - 1, Copied(p.tab, 0, 1, p.len - 1)), At(p, 0))
js_array_reverse(p) == Array(p.len, [i \in DOMAIN p.tab |-> IF i <= p.len THEN p.tab[p.len + 1 - i] ELSE p.tab[i]])
js_array_constructor(args, is_length) ==
    LET n == IF is_length THEN args[1] ELSE Len(args)
    IN IF n < 0 \/ n > JS_SHORTINT_MAX \/ TooLarge(n) THEN Exception
       ELSE IF is_length THEN JS_NewArray(n) ELSE Array(n, args)
(* The arrays among the arguments give their values, the others themselves. *)
js_array_concat(args) ==
    LET all[k \in 0 .. Len(args)] == IF k = 0 THEN <<>> ELSE all[k - 1] \o SubSeq(args[k].tab, 1, args[k].len)
        Of(tab) == IF Len(tab) > JS_SHORTINT_MAX \/ TooLarge(Len(tab)) THEN Exception ELSE Array(Len(tab), tab)
    IN Of(all[Len(args)])

-----------------------------------------------------------------------------
(* What the program does while a method waits for it. *)
Changed(p, change) ==
    CASE change = "none" -> p
      [] change = "pop" -> js_array_pop(p).p
      [] change = "shift" -> js_array_shift(p).p
      [] change = "push" -> js_array_push(p, <<8>>, FALSE).p
      [] change = "unshift" -> js_array_push(p, <<9>>, TRUE).p
      [] change = "one left" -> js_array_set_length(p, 1).p
      [] change = "first set" -> JS_SetPropertyUint32(p, 0, 7).p

(* An argument is an integer, [n, change] when its conversion changes the
   array, or is not given. *)
JS_ToInt32Clamp(v, min, max, offset) == IF v < min THEN Max({v + offset, min}) ELSE Min({v, max})
js_array_indexOf(p, x, from, is_last) ==
    LET last == IF is_last THEN 1 ELSE 0
        n == IF from = Undefined THEN IF is_last THEN p.len - 1 ELSE 0 ELSE JS_ToInt32Clamp(from.n, -last, p.len - last, p.len)
        Found(q) == {i \in IF is_last THEN 0 .. Min({n, q.len - 1}) ELSE n .. q.len - 1 : At(q, i) = x}
        In(q, found) == Result(q, IF found = {} THEN -1 ELSE IF is_last THEN Max(found) ELSE Min(found))
        After(q) == In(q, Found(q))
    IN After(IF from = Undefined THEN p ELSE Changed(p, from.change))
(* start and end: the first is converted, the second clamped by the length
   from before. *)
js_array_slice(p, start, end) ==
    LET from == JS_ToInt32Clamp(start.n, 0, p.len, p.len)
        Taken(q, to) == Result(q, Array(Max({to - from, 0}), SubSeq(q.tab, from + 1, to)))
        After(q) == Taken(q, Min({q.len, IF end = Undefined THEN p.len ELSE JS_ToInt32Clamp(end.n, 0, p.len, p.len)}))
        First(q) == After(IF end = Undefined THEN q ELSE Changed(q, end.change))
    IN First(Changed(p, start.change))
(* start alone removes to the end; items are what is put in place. *)
js_array_splice(p, start, count, items) ==
    LET from == JS_ToInt32Clamp(start.n, 0, p.len, p.len)
        del == IF count = Undefined THEN p.len - from ELSE JS_ToInt32Clamp(count.n, 0, p.len - from, 0)
        rest == p.len - (from + del)
        Closed(tab) == IF del > Len(items) THEN Copied(tab, from + Len(items), from + del, rest) ELSE tab
        Opened(tab) == IF del < Len(items) THEN Copied(tab, from + Len(items), from + del, rest) ELSE tab
        Placed(q) == Array(q.len, Stored(Opened(q.tab), from, items))
        removed(q) == Array(del, SubSeq(q.tab, from + 1, from + del))
        Resized(q, r) == IF r.ret = Exception THEN r ELSE Result(Placed(r.p), removed(q))
        Last(q) == IF q.len # p.len THEN Failed(q)
                   ELSE Resized(q, js_array_resize(Array(q.len, Closed(q.tab)), p.len + Len(items) - del))
        First(q) == Last(IF count = Undefined THEN q ELSE Changed(q, count.change))
    IN First(Changed(p, start.change))

-----------------------------------------------------------------------------
JS_ToBool(v) == v \notin {0, Undefined, Null}
Nth(s, n) == IF n > Len(s) THEN s[Len(s)] ELSE s[n]
(* A run of a method over a function: the next index, the array, what is
   returned so far, and the calls, with their arguments. *)
Called(s, fn, args) ==
    [s EXCEPT !.k = s.k + 1, !.p = Changed(s.p, Nth(fn.changes, s.k + 1)), !.calls = Append(s.calls, args),
              !.res = Nth(fn.results, s.k + 1)]
RECURSIVE Each(_, _, _)
Each(special, fn, s) ==
    LET Ended(t) == [t EXCEPT !.ret = CASE special = "every" -> 0 [] special = "some" -> 1 [] OTHER -> Exception]
        Kept(t, v) == CASE special = "map" -> [t EXCEPT !.list = JS_SetPropertyUint32(t.list, s.k, t.res).p]
                        [] special = "filter" /\ JS_ToBool(t.res) -> [t EXCEPT !.list = JS_SetPropertyUint32(t.list, t.list.len, v).p]
                        [] OTHER -> t
        After(t, v) == IF t.res = Exception THEN [t EXCEPT !.ret = Exception]
                       ELSE IF (special = "every" /\ ~JS_ToBool(t.res)) \/ (special = "some" /\ JS_ToBool(t.res)) THEN Ended(t)
                       ELSE Each(special, fn, Kept(t, v))
        Call(v) == After(Called(s, fn, <<v, s.k>>), v)
    IN IF s.k >= s.len \/ s.k >= s.p.len THEN s ELSE Call(At(s.p, s.k))
js_array_every(p, special, fn) ==
    Each(special, fn, [k |-> 0, len |-> p.len, p |-> p, calls |-> <<>>, res |-> Undefined,
                       list |-> JS_NewArray(IF special = "map" THEN p.len ELSE 0),
                       ret |-> CASE special = "every" -> 1 [] special = "some" -> 0 [] OTHER -> Undefined])
RECURSIVE Accumulated(_, _, _, _)
Accumulated(fn, right, first, s) ==
    LET k1 == IF right THEN s.len - 1 - (s.k + first) ELSE s.k + first
        After(t) == IF t.res = Exception THEN [t EXCEPT !.acc = Exception] ELSE Accumulated(fn, right, first, [t EXCEPT !.acc = t.res])
    IN IF s.k + first >= s.len \/ k1 >= s.p.len THEN s ELSE After(Called(s, fn, <<s.acc, At(s.p, k1), k1>>))
js_array_reduce(p, fn, init, right) ==
    LET Start(acc, first) == Accumulated(fn, right, first, [k |-> 0, len |-> p.len, p |-> p, calls |-> <<>>, res |-> Undefined, acc |-> acc])
    IN IF init # Null THEN Start(init, 0)
       ELSE IF p.len = 0 THEN [p |-> p, calls |-> <<>>, acc |-> Exception]
       ELSE Start(At(p, IF right THEN p.len - 1 ELSE 0), 1)

(* The values that are not undefined, with where they stood, in a heap; the
   comparison is by order[<<a, b>>], whatever that says, but throws in its
   call of number throws; a value throws is lost, as its number says the first
   is the greater one. *)
Compare(s, i, j, by) ==
    LET a == s.tab[i + 1]
        b == s.tab[j + 1]
        place == IF a[2] > b[2] THEN 1 ELSE -1
        Answer(t) == IF t.calls = by.throws THEN 1 ELSE IF by.order[<<a[1], b[1]>>] # 0 THEN by.order[<<a[1], b[1]>>] ELSE place
        Asked(t) == [t EXCEPT !.cmp = Answer(t)]
    IN IF a[1] = b[1] THEN [s EXCEPT !.cmp = place]
       ELSE Asked([s EXCEPT !.calls = s.calls + 1, !.p = Changed(s.p, Nth(by.changes, s.calls + 1))])
js_array_sort_swap(s, i, j) == [s EXCEPT !.tab[i + 1] = s.tab[j + 1], !.tab[j + 1] = s.tab[i + 1]]
RECURSIVE Sift(_, _, _, _)
Sift(s, r, n, by) ==
    LET c == 2 * r + 1
        Swap(t, d) == IF t.cmp > 0 THEN t ELSE Sift(js_array_sort_swap(t, r, d), d, n, by)
        Down(t, d) == Swap(Compare(t, r, d, by), d)
        Child(t) == Down(t, IF t.cmp <= 0 THEN c + 1 ELSE c)
    IN IF c >= n THEN s ELSE IF c < n - 1 THEN Child(Compare(s, c, c + 1, by)) ELSE Down(s, c)
RECURSIVE Heaped(_, _, _, _)
Heaped(s, i, n, by) == IF i = 0 THEN s ELSE Heaped(Sift(s, i - 1, n, by), i - 1, n, by)
RECURSIVE Sorted(_, _, _)
Sorted(s, i, by) == IF i <= 0 THEN s ELSE Sorted(Sift(js_array_sort_swap(s, 0, i), 0, i, by), i - 1, by)
rqsort_idx(s, n, by) == IF n <= 1 THEN s ELSE Sorted(Heaped(s, n \div 2, n, by), n - 1, by)
js_array_sort(p, by) ==
    LET placed == SelectSeq([i \in 1 .. p.len |-> <<p.tab[i], i - 1>>], LAMBDA x : x[1] # Undefined)
        Back(q, values) == Result([q EXCEPT !.tab = Stored(q.tab, 0, SubSeq(values \o Undefineds(p.len - Len(values)), 1, Min({p.len, q.len})))], 0)
        Of(s) == Back(s.p, [i \in DOMAIN s.tab |-> s.tab[i][1]])
    IN IF TooLarge(2 * p.len) THEN Failed(p) ELSE Of(rqsort_idx([tab |-> placed, p |-> p, calls |-> 0, cmp |-> 0], Len(placed), by))

(* The texts of the values, with Null for the separator: the conversion of a
   value may change the array. *)
RECURSIVE Joined(_, _, _, _)
Joined(p, len, i, s) ==
    LET v == JS_GetPropertyUint32(p, i)
        text == s.text \o (IF i = 0 THEN <<>> ELSE <<Null>>)
    IN IF i >= len THEN [s EXCEPT !.p = p]
       ELSE IF v \in {Undefined, Null} THEN Joined(p, len, i + 1, [s EXCEPT !.text = text])
       ELSE Joined(Changed(p, Nth(s.changes, i + 1)), len, i + 1, [s EXCEPT !.text = Append(text, v)])
js_array_join(p, changes) == Joined(p, p.len, 0, [p |-> p, text |-> <<>>, changes |-> changes])
=============================================================================
