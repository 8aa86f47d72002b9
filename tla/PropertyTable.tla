---------------------------- MODULE PropertyTable ----------------------------
(* The properties of an object: one array of cells (mquickjs.c, JSProperty).
   Cell 0 counts the live properties, cell 1 is the mask of the hash, a head
   per bucket follows, then three cells per slot: the key, the value and the
   link to the next slot of the bucket, with the type of the property.  The
   last slot, while it is free, links to the first free one.
   A table is [place, arr]: the array all empty objects share, an array in
   ROM, or one of the object's own.                                        *)
EXTENDS Integers, Sequences, FiniteSets, FiniteSetsExt, Functions, Bitwise
CONSTANTS JSW, ATOM_ALIGN, Undefined, Uninitialized

Size(a) == Cardinality(DOMAIN a)
Base(mask) == 3 + mask
Slots(a) == {i \in Base(a[1]) .. Size(a) - 3 : (i - Base(a[1])) % 3 = 0}
Key(a, i) == a[i]
Value(a, i) == a[i + 1]
Link(next, type) == [next |-> next, type |-> type]
Following(a, i) == a[i + 2].next
Type(a, i) == a[i + 2].type
LastSlot(a) == Size(a) - 3

hash_prop(k) == (k \div JSW) ^^ (k % JSW)
Bucket(mask, k) == hash_prop(k) % (mask + 1)
HeadOf(mask, k) == 2 + Bucket(mask, k)
RECURSIVE FloorLog2(_)
FloorLog2(n) == IF n <= 1 THEN 0 ELSE 1 + FloorLog2(n \div 2)
get_prop_hash_size_log2(n) == IF n <= 1 THEN 0 ELSE FloorLog2(n - 1)

EmptyProps == [place |-> "empty", arr |-> [c \in 0 .. 2 |-> 0]]
Ram(a) == [place |-> "ram", arr |-> a]

(* The live slots in order: as many as cell 0 counts.  Slots the array grew by
   are not free by their key, they are only beyond the last live one. *)
RECURSIVE LiveFrom(_, _, _)
LiveFrom(a, i, left) ==
    IF left = 0 THEN <<>>
    ELSE IF Key(a, i) = Uninitialized THEN LiveFrom(a, i + 3, left)
    ELSE <<i>> \o LiveFrom(a, i + 3, left - 1)
Live(a) == LiveFrom(a, Base(a[1]), a[0])

RECURSIVE FindFrom(_, _, _)
FindFrom(a, k, i) == IF i = 0 \/ Key(a, i) = k THEN i ELSE FindFrom(a, k, Following(a, i))
(* The slot of a key, or 0. *)
find_own_property(p, k) == FindFrom(p.arr, k, p.arr[HeadOf(p.arr[1], k)])

-----------------------------------------------------------------------------
js_alloc_props(n) ==
    LET mask == 2^get_prop_hash_size_log2(n) - 1
        size == Base(mask) + 3 * n
    IN [i \in 0 .. size - 1 |->
           IF i = 0 THEN 0 ELSE IF i = 1 THEN mask ELSE IF i < Base(mask) THEN 0
           ELSE IF (i - Base(mask)) % 3 = 0 THEN Uninitialized
           ELSE IF i = size - 1 THEN Link(Base(mask), "normal") ELSE Undefined]

Latest(slots) == IF slots = {} THEN 0 ELSE Max(slots)
Linked(a, live) ==
    LET In(h) == {i \in live : HeadOf(a[1], Key(a, i)) = h}
    IN [c \in DOMAIN a |->
           IF c \in 2 .. 2 + a[1] THEN Latest(In(c))
           ELSE IF c - 2 \in live THEN [a[c] EXCEPT !.next = Latest({i \in In(HeadOf(a[1], Key(a, c - 2))) : i < c - 2})]
           ELSE a[c]]
(* Every bucket links its live slots, the last one first. *)
Rehashed(a) == Linked(a, Range(Live(a)))
(* Mutant: a collection is taken to leave small tables as they are. *)
RehashLargeOnly(p, gc_rehash) ==
    IF p.place = "rom" \/ (p.arr[1] <= 1 /\ gc_rehash) THEN p ELSE [p EXCEPT !.arr = Rehashed(p.arr)]
js_rehash_props(p, gc_rehash) ==
    IF p.place = "rom" \/ (p.arr[1] = 0 /\ gc_rehash) THEN p ELSE [p EXCEPT !.arr = Rehashed(p.arr)]

(* A collection moves the strings: keys change where they stand, and the
   objects are rehashed afterwards. *)
Moved(a, live, moved) == [c \in DOMAIN a |-> IF c \in live THEN moved[a[c]] ELSE a[c]]
js_gc(p, moved) == js_rehash_props([p EXCEPT !.arr = Moved(p.arr, Range(Live(p.arr)), moved)], TRUE)

Packed(a, live, mask) ==
    [c \in 0 .. Base(mask) + 3 * Len(live) - 1 |->
        IF c = 1 THEN mask
        ELSE IF c < Base(mask) THEN a[c]
        ELSE a[live[1 + (c - Base(mask)) \div 3] + ((c - Base(mask)) % 3)]]
(* The live slots move to the front of an array of their number. *)
js_compact_props(p) ==
    LET count == p.arr[0]
        Into(mask) == IF Base(mask) + 3 * count >= Size(p.arr) THEN p
                      ELSE js_rehash_props(Ram(Packed(p.arr, Live(p.arr), mask)), FALSE)
    IN IF count = 0 THEN EmptyProps ELSE Into(Min({p.arr[1], 2^get_prop_hash_size_log2(count) - 1}))

(* "prototype" and "constructor" in ROM name a class. *)
get_special_prop(v) == <<"class object", v>>
js_update_props(p) ==
    IF p.place # "rom" THEN p
    ELSE Ram([c \in DOMAIN p.arr |->
            IF c - 1 \in Slots(p.arr) /\ Type(p.arr, c - 1) = "special" THEN get_special_prop(p.arr[c])
            ELSE IF c - 2 \in Slots(p.arr) /\ p.arr[c].type = "special" THEN [p.arr[c] EXCEPT !.type = "normal"]
            ELSE p.arr[c]])

get_first_free(a) == IF Key(a, LastSlot(a)) = Uninitialized THEN Following(a, LastSlot(a)) ELSE Size(a)

(* By half at least, to a whole number of slots after base. *)
GrownSize(old, new, base) ==
    LET half == old + old \div 2
        align == (half - base) % 3
    IN IF half > new THEN half + (IF align # 0 THEN 3 - align ELSE 0) ELSE new
js_resize_value_array2(a, new, base) ==
    LET size == GrownSize(Size(a), new, base)
    IN IF new > Size(a) THEN [c \in 0 .. size - 1 |-> IF c \in DOMAIN a THEN a[c] ELSE Undefined] ELSE a

(* Room for one more slot: the hash doubles when two properties per bucket are
   exceeded, and the slots move behind its new heads. *)
Spread(a, wide, mask, by) ==
    [c \in DOMAIN wide |-> IF c = 1 THEN mask ELSE IF c \in Base(mask) .. Size(a) + by - 1 THEN a[c - by] ELSE wide[c]]
Grown(a, mask) ==
    LET by == mask - a[1]
        wide == js_resize_value_array2(a, Size(a) + 3 + by, Base(mask))
        LastFree(arr) == [arr |-> [arr EXCEPT ![LastSlot(arr)] = Uninitialized], first_free |-> Size(a) + by]
    IN LastFree(IF by = 0 THEN wide ELSE Rehashed(Spread(a, wide, mask, by)))
Room(p) ==
    IF Key(p.arr, LastSlot(p.arr)) = Uninitialized THEN [arr |-> p.arr, first_free |-> Following(p.arr, LastSlot(p.arr))]
    ELSE IF p.place = "empty" THEN [arr |-> js_alloc_props(1), first_free |-> 3]
    ELSE Grown(p.arr, IF p.arr[0] + 1 > 2 * (p.arr[1] + 1) THEN 2 * (p.arr[1] + 1) - 1 ELSE p.arr[1])
WithFree(a, free) == IF free < Size(a) THEN [a EXCEPT ![Size(a) - 1] = Link(free, "normal")] ELSE a
(* A new property takes the first free slot and comes first in its bucket. *)
js_create_property(p, k, value, type) ==
    LET Filled(a, i) == [a EXCEPT ![i] = k, ![i + 1] = value, ![i + 2] = Link(a[HeadOf(a[1], k)], type),
                                  ![HeadOf(a[1], k)] = i, ![0] = a[0] + 1]
        In(room) == Ram(WithFree(Filled(room.arr, room.first_free), room.first_free + 3))
    IN In(Room(p))

-----------------------------------------------------------------------------
(* The result of an operation: the table and whether it threw.  A value is a
   tuple: <<v>>, or <<getter, setter>>. *)
Done(p) == [p |-> p, thrown |-> FALSE]
Thrown(p) == [p |-> p, thrown |-> TRUE]
Assigned(p, i, value) == Done([p EXCEPT !.arr[i + 1] = value])

(* flags: which of lookup, value, get and set are given. *)
Redefined(p, i, val, setter, flags) ==
    IF "value" \in flags THEN IF Type(p.arr, i) \in {"normal", "varref"} THEN Assigned(p, i, <<val>>) ELSE Thrown(p)
    ELSE IF flags \cap {"get", "set"} = {} THEN Done(p)
    ELSE IF Type(p.arr, i) # "getset" THEN Thrown(p)
    ELSE Assigned(p, i, <<IF "get" \in flags THEN val ELSE Value(p.arr, i)[1], IF "set" \in flags THEN setter ELSE Value(p.arr, i)[2]>>)
JS_DefinePropertyInternal(table, k, val, setter, flags, global) ==
    LET getset == flags \cap {"get", "set"} # {}
        type == IF getset THEN "getset" ELSE IF global THEN "varref" ELSE "normal"
        At(p, i) == IF i # 0 THEN Redefined(p, i, val, setter, flags)
                    ELSE Done(js_create_property(p, k, IF getset THEN <<val, setter>> ELSE <<val>>, type))
        In(p) == At(p, IF "lookup" \in flags THEN find_own_property(p, k) ELSE 0)
    IN In(js_update_props(table))

(* Assignment to an object that inherits nothing. *)
JS_SetPropertyInternal(table, k, val, global) ==
    LET At(i) == IF i = 0 THEN JS_DefinePropertyInternal(table, k, val, Undefined, {"value"}, global)
                 ELSE IF Type(table.arr, i) = "getset" THEN Done(table)
                 ELSE IF Type(table.arr, i) = "varref" THEN Assigned(table, i, <<val>>)
                 ELSE Assigned(js_update_props(table), i, <<val>>)
    IN At(find_own_property(table, k))

(* A variable of the program, declared or only referred to. *)
add_global_var(p, k, define_flag) ==
    LET At(i) == IF i = 0 THEN JS_DefinePropertyInternal(p, k, IF define_flag THEN Undefined ELSE Uninitialized, Undefined, {"value"}, TRUE)
                 ELSE IF Type(p.arr, i) # "varref" THEN Thrown(p)
                 ELSE IF define_flag /\ Value(p.arr, i) = <<Uninitialized>> THEN Assigned(p, i, <<Undefined>>)
                 ELSE Done(p)
    IN At(find_own_property(p, k))

RECURSIVE SlotBefore(_, _, _)
SlotBefore(a, i, at) == IF Following(a, at) = i THEN at ELSE SlotBefore(a, i, Following(a, at))
RECURSIVE Receded(_, _)
Receded(a, free) == IF free > Base(a[1]) /\ Key(a, free - 3) = Uninitialized THEN Receded(a, free - 3) ELSE free
Unlinked(a, i, head) ==
    IF a[head] = i THEN [a EXCEPT ![head] = Following(a, i)]
    ELSE [a EXCEPT ![SlotBefore(a, i, a[head]) + 2].next = Following(a, i)]
Emptied(a, i) == [a EXCEPT ![0] = a[0] - 1, ![i] = Uninitialized, ![i + 1] = Undefined, ![i + 2].type = "normal"]
(* The count that decides on a compaction is the one before. *)
Shrunk(a, count) == IF Base(a[1]) + 3 * count < Size(a) \div 2 THEN js_compact_props(Ram(a)) ELSE Ram(a)
JS_DeleteProperty(table, k) ==
    LET Receding(a, free) == WithFree(a, Receded(a, free))
        Without(a, i) == Shrunk(Receding(Emptied(a, i), get_first_free(a)), a[0])
        In(a, i) == Without(Unlinked(a, i, HeadOf(a[1], k)), i)
        At(i) == IF i = 0 THEN table ELSE In(js_update_props(table).arr, i)
    IN At(find_own_property(table, k))

js_object_keys(p) == LET Of(live) == [n \in DOMAIN live |-> Key(p.arr, live[n])] IN Of(Live(p.arr))
JS_GetPropertyInternal(p, k) ==
    LET i == find_own_property(p, k)
    IN IF i = 0 THEN <<"none">>
       ELSE IF Type(p.arr, i) = "special" THEN <<"normal", get_special_prop(Value(p.arr, i))>>
       ELSE <<Type(p.arr, i), Value(p.arr, i)>>

-----------------------------------------------------------------------------
(* The array the build tool writes for an object of the library: props are its
   entries [key, value, type] in their order, the class of a prototype or a
   constructor last.  The hash stays within the alignment of an atom. *)
define_props(props) ==
    LET n == Len(props)
        wanted == 2^get_prop_hash_size_log2(n)
        mask == (IF wanted > ATOM_ALIGN \div JSW THEN ATOM_ALIGN \div JSW ELSE wanted) - 1
        At(c) == props[1 + (c - Base(mask)) \div 3]
        laid == [c \in 0 .. Base(mask) + 3 * n - 1 |->
                    IF c = 0 THEN n ELSE IF c = 1 THEN mask ELSE IF c < Base(mask) THEN 0
                    ELSE CASE (c - Base(mask)) % 3 = 0 -> At(c).key
                           [] (c - Base(mask)) % 3 = 1 -> At(c).value
                           [] OTHER -> Link(0, At(c).type)]
    IN [place |-> "rom", arr |-> Rehashed(laid)]
-----------------------------------------------------------------------------
(* What an object promises of its properties: they are a list, in the order
   in which they were added, of keys with what they hold; and that a table is
   such a list after any sequence of operations.  Keys have names here; where
   a name's string stands in memory is the table's.                        *)
Entry(name, type, value) == [name |-> name, type |-> type, value |-> value]
Named(m, name) == {n \in DOMAIN m : m[n].name = name}
Holds(m, name) == Named(m, name) # {}
At(m, name) == m[CHOOSE n \in Named(m, name) : TRUE]
With(m, name, value) == [n \in DOMAIN m |-> IF m[n].name = name THEN [m[n] EXCEPT !.value = value] ELSE m[n]]
Without(m, name) == SelectSeq(m, LAMBDA e : e.name # name)
New(value, global) == IF global THEN [type |-> "varref", value |-> value] ELSE [type |-> "normal", value |-> value]
Add(m, name, e) == Append(m, Entry(name, e.type, e.value))

(* The operations: [op, name, val], of an object that is the global one or
   not; the result is the list and whether it threw. *)
Said(m, thrown) == [m |-> m, thrown |-> thrown]
Promised(m, o, global) ==
    LET held == Holds(m, o.name)
        e == At(m, o.name)
    IN CASE o.op = "value" ->
              IF ~held THEN Said(Add(m, o.name, New(<<o.val>>, global)), FALSE)
              ELSE IF e.type = "getset" THEN Said(m, TRUE) ELSE Said(With(m, o.name, <<o.val>>), FALSE)
         [] o.op \in {"get", "set"} ->
              IF ~held THEN Said(Add(m, o.name, [type |-> "getset", value |-> IF o.op = "get" THEN <<o.val, Undefined>> ELSE <<Undefined, o.val>>]), FALSE)
              ELSE IF e.type # "getset" THEN Said(m, TRUE)
              ELSE Said(With(m, o.name, IF o.op = "get" THEN <<o.val, e.value[2]>> ELSE <<e.value[1], o.val>>), FALSE)
         [] o.op = "assign" ->
              IF ~held THEN Said(Add(m, o.name, New(<<o.val>>, global)), FALSE)
              ELSE IF e.type = "getset" THEN Said(m, FALSE) ELSE Said(With(m, o.name, <<o.val>>), FALSE)
         [] o.op = "delete" -> Said(Without(m, o.name), FALSE)
         [] o.op = "declare" ->
              IF ~held THEN Said(Add(m, o.name, New(<<Undefined>>, TRUE)), FALSE)
              ELSE Said(IF e.value = <<Uninitialized>> THEN With(m, o.name, <<Undefined>>) ELSE m, e.type # "varref")
         [] o.op = "refer" -> IF ~held THEN Said(Add(m, o.name, New(<<Uninitialized>>, TRUE)), FALSE) ELSE Said(m, e.type # "varref")
         [] o.op = "gc" -> Said(m, FALSE)

(* The same operation on the table; at[name] is the key of a name, moves[key]
   where a collection takes it. *)
Performed(p, o, global, at, moves) ==
    LET k == at[o.name]
    IN CASE o.op = "value" -> JS_DefinePropertyInternal(p, k, o.val, Undefined, {"lookup", "value"}, global)
         [] o.op = "get" -> JS_DefinePropertyInternal(p, k, o.val, Undefined, {"lookup", "get"}, global)
         [] o.op = "set" -> JS_DefinePropertyInternal(p, k, Undefined, o.val, {"lookup", "set"}, global)
         [] o.op = "assign" -> JS_SetPropertyInternal(p, k, o.val, global)
         [] o.op = "delete" -> Done(JS_DeleteProperty(p, k))
         [] o.op = "declare" -> add_global_var(p, k, TRUE)
         [] o.op = "refer" -> add_global_var(p, k, FALSE)
         [] o.op = "gc" -> Done(js_gc(p, moves))

(* The table is the list: its keys in the order of the list, every name found
   with what it holds or not found at all. *)
IsTheList(p, m, at) ==
    /\ js_object_keys(p) = [n \in DOMAIN m |-> at[m[n].name]]
    /\ \A name \in DOMAIN at :
          JS_GetPropertyInternal(p, at[name]) = IF Holds(m, name) THEN <<At(m, name).type, At(m, name).value>> ELSE <<"none">>
(* Deletions give room back: an array of its own is at most three times as
   large as the most properties it held since it was last empty need. *)
KeepsSmall(p, most) == p.place = "ram" => Size(p.arr) <= 3 * (3 + 4 * most)
=============================================================================
