-------------------------------- MODULE Heap --------------------------------
(* The memory of a context: blocks one after the other from address 1 up to
   free, the stack from top down, and the collector, which marks what the
   roots reach, forgets what is only referred to weakly, and moves the rest
   together, threading through each block the words that point to it (Jonkers).
   A word is a header, a pointer, or anything else, pointers into ROM included.
   The cells that refer into the heap from outside have addresses below 1.   *)
EXTENDS Integers, Sequences, SequencesExt

Header(mtag, class, size) == [mtag |-> mtag, class |-> class, size |-> size, mark |-> FALSE]
Ptr(a) == [ptr |-> a]
Raw(n) == [raw |-> n]
Blank == Raw(0)
IsPtr(w) == "ptr" \in DOMAIN w
get_mblock_size(header) == 1 + header.size

(* mem is the words, roots and cache are cells, and unique is the one of the
   array of unique strings.                                                 *)
RECURSIVE Blocks(_, _, _)
Blocks(mem, ptr, free) ==
    IF ptr >= free THEN <<>> ELSE <<ptr>> \o Blocks(mem, ptr + get_mblock_size(mem[ptr]), free)

(* Which words of a block are values, behind the prototype and the properties. *)
OfClass(class, size) ==
    CASE class = "closure" -> [i \in 1 .. size - 2 |-> 2 + i]
      [] class = "c_function" -> IF size > 3 THEN <<4>> ELSE <<>>
      [] class \in {"array", "array_buffer", "typed_array"} -> <<3>>
      [] class \in {"error", "regexp"} -> <<3, 4>>
      [] OTHER -> <<>>
ValueWords(header) ==
    CASE header.mtag = "object" -> <<1, 2>> \o OfClass(header.class, header.size)
      [] header.mtag = "value_array" -> [i \in 1 .. header.size |-> i]
      [] header.mtag = "varref" -> <<1>>
      [] header.mtag = "function_bytecode" -> <<1, 2, 3, 4, 5, 6, 7>>
      [] OTHER -> <<>>
References(mem, ptr) == [i \in DOMAIN ValueWords(mem[ptr]) |-> ptr + ValueWords(mem[ptr])[i]]
mtag_has_references(mtag) == mtag \in {"object", "value_array", "varref", "function_bytecode"}

-----------------------------------------------------------------------------
(* Marking, with the free memory as its stack: a state has mem, the stack, how
   many words it may have, and whether it was too small.                    *)
Entry(header, val) == IF header.mtag = "value_array" THEN <<val, Raw(0)>> ELSE <<val>>
gc_mark(s, val) ==
    IF ~IsPtr(val) \/ s.mem[val.ptr].mark THEN s
    ELSE LET header == s.mem[val.ptr]
             marked == [s EXCEPT !.mem[val.ptr].mark = TRUE]
         IN IF ~mtag_has_references(header.mtag) THEN marked
            ELSE IF Len(s.stack) + Len(Entry(header, val)) > s.room THEN [marked EXCEPT !.overflow = TRUE]
            ELSE [marked EXCEPT !.stack = Entry(header, val) \o @]

(* The first pointer of an array from pos on is marked; the array comes back
   if something is left behind it.                                          *)
ArrayScanned(s, val, pos) ==
    LET size == s.mem[val.ptr].size
        pointers == {i \in pos .. size - 1 : IsPtr(s.mem[val.ptr + 1 + i])}
        at == CHOOSE i \in pointers : \A j \in pointers : i <= j
        rest == Tail(Tail(s.stack))
    IN IF pointers = {} THEN [s EXCEPT !.stack = rest]
       ELSE gc_mark([s EXCEPT !.stack = (IF at + 1 < size THEN <<val, Raw(at + 1)>> ELSE <<>>) \o rest], s.mem[val.ptr + 1 + at])
RECURSIVE gc_mark_flush(_)
gc_mark_flush(s) ==
    IF s.stack = <<>> THEN s
    ELSE LET val == Head(s.stack)
         IN gc_mark_flush(
                IF s.mem[val.ptr].mtag = "value_array" THEN ArrayScanned(s, val, s.stack[2].raw)
                ELSE FoldLeft(LAMBDA t, a : gc_mark(t, t.mem[a]), [s EXCEPT !.stack = Tail(@)], References(s.mem, val.ptr)))
gc_mark_root(s, val) == gc_mark_flush(gc_mark(s, val))

(* After an overflow every marked block is looked through again. *)
Again(s, ptr) ==
    IF s.mem[ptr].mark /\ mtag_has_references(s.mem[ptr].mtag)
    THEN gc_mark_flush([s EXCEPT !.stack = Entry(s.mem[ptr], Ptr(ptr))])
    ELSE s
RECURSIVE Rescanned(_, _)
Rescanned(s, blocks) ==
    IF ~s.overflow THEN s
    ELSE Rescanned(FoldLeft(Again, [s EXCEPT !.overflow = FALSE], blocks), blocks)
Marked(h) ==
    LET start == [mem |-> h.mem, stack |-> <<>>, room |-> h.top - h.free + 1, overflow |-> FALSE]
        rooted == FoldLeft(LAMBDA s, cell : gc_mark_root(s, s.mem[cell]), start, h.roots)
    IN Rescanned(rooted, Blocks(h.mem, 1, h.free)).mem

gc_mb_is_marked(mem, val) == IsPtr(val) /\ mem[val.ptr].mark
set_free_block(mem, ptr, size) == [mem EXCEPT ![ptr] = Header("free", "none", size - 1)]

(* The unique strings that are left move to the front of their array. *)
UniquePruned(mem, cell) ==
    IF ~IsPtr(mem[cell]) THEN mem
    ELSE LET arr == mem[cell].ptr
             size == mem[arr].size
             left == SelectSeq([i \in 1 .. size |-> mem[arr + i]], LAMBDA val : gc_mb_is_marked(mem, val))
             j == Len(left)
             moved == [a \in arr .. arr + j |-> IF a = arr THEN [mem[arr] EXCEPT !.mark = TRUE, !.size = j] ELSE left[a - arr]] @@ mem
         IN IF j = 0 THEN [mem EXCEPT ![arr].mark = FALSE, ![cell] = Blank]
            ELSE IF j < size THEN set_free_block(moved, arr + 1 + j, size - j)
            ELSE moved
CachePruned(mem, cells) ==
    [a \in {c \in Range(cells) : ~gc_mb_is_marked(mem, mem[c])} |-> Blank] @@ mem

(* Marks go, and what has none becomes one free block with what follows it;
   the finalizer is that of the first.                                      *)
RECURSIVE Run(_, _, _)
Run(mem, ptr, free) ==
    IF ptr < free /\ ~mem[ptr].mark THEN Run(mem, ptr + get_mblock_size(mem[ptr]), free) ELSE ptr
HasFinalizer(header) == header.mtag = "object" /\ header.class = "user"
RECURSIVE Swept(_, _, _, _)
Swept(mem, finalized, ptr, free) ==
    IF ptr >= free THEN [mem |-> mem, finalized |-> finalized]
    ELSE IF mem[ptr].mark THEN Swept([mem EXCEPT ![ptr].mark = FALSE], finalized, ptr + get_mblock_size(mem[ptr]), free)
    ELSE LET end == Run(mem, ptr, free)
         IN Swept(set_free_block(mem, ptr, end - ptr),
                  IF HasFinalizer(mem[ptr]) THEN finalized \cup {ptr} ELSE finalized, end, free)
gc_mark_all(h) ==
    Swept(CachePruned(UniquePruned(Marked(h), h.unique), h.cache), {}, 1, h.free)

-----------------------------------------------------------------------------
(* Compaction: a pointer's word changes places with the word it points to, so
   a block's header leads through all that point to it.                     *)
gc_thread_pointer(mem, a) ==
    IF ~IsPtr(mem[a]) THEN mem
    ELSE [mem EXCEPT ![a] = mem[mem[a].ptr], ![mem[a].ptr] = Ptr(a)]
RECURSIVE Unthreaded(_, _, _, _)
Unthreaded(mem, ptr, val, new_ptr) ==
    IF ~IsPtr(val) THEN [mem EXCEPT ![ptr] = val]
    ELSE Unthreaded([mem EXCEPT ![val.ptr] = Ptr(new_ptr)], ptr, mem[val.ptr], new_ptr)
gc_update_threaded_pointers(mem, ptr, new_ptr) == Unthreaded(mem, ptr, mem[ptr], new_ptr)
gc_thread_block(mem, ptr) == FoldLeft(gc_thread_pointer, mem, References(mem, ptr))
memmove(mem, to, from, size) == [a \in to .. to + size - 1 |-> mem[a - to + from]] @@ mem

(* The pointers up to here that lead to this block get its new address before
   its own are threaded; those from behind it when the second pass comes. *)
RECURSIVE Threaded(_, _, _, _)
Threaded(mem, ptr, new_ptr, free) ==
    IF ptr >= free THEN mem
    ELSE LET updated == gc_update_threaded_pointers(mem, ptr, new_ptr)
             size == get_mblock_size(updated[ptr])
         IN IF updated[ptr].mtag = "free" THEN Threaded(updated, ptr + size, new_ptr, free)
            ELSE Threaded(gc_thread_block(updated, ptr), ptr + size, new_ptr + size, free)
RECURSIVE Slid(_, _, _, _)
Slid(mem, ptr, new_ptr, free) ==
    IF ptr >= free THEN [mem |-> mem, free |-> new_ptr]
    ELSE LET updated == gc_update_threaded_pointers(mem, ptr, new_ptr)
             size == get_mblock_size(updated[ptr])
         IN IF updated[ptr].mtag = "free" THEN Slid(updated, ptr + size, new_ptr, free)
            ELSE Slid(memmove(updated, new_ptr, ptr, size), ptr + size, new_ptr + size, free)
gc_compact_heap(h, mem) ==
    LET external == FoldLeft(gc_thread_pointer, mem, <<h.unique>> \o h.cache \o h.roots)
        Moved(slid) == [h EXCEPT !.mem = slid.mem, !.free = slid.free]
    IN Moved(Slid(Threaded(external, 1, 1, h.free), 1, 1, h.free))
Compacted(h, swept) == [heap |-> gc_compact_heap(h, swept.mem), finalized |-> swept.finalized]
JS_GC(h) == Compacted(h, gc_mark_all(h))

-----------------------------------------------------------------------------
(* Allocation. min_free words stay free, which is also the least room of the
   mark stack.                                                              *)
Enough(h, size) == h.top - h.free + 1 >= size + h.min_free
Checked(h, size) == [heap |-> h, ok |-> Enough(h, size)]
check_free_mem(h, size) == IF Enough(h, size) THEN Checked(h, size) ELSE Checked(JS_GC(h).heap, size)
Placed(h, header) ==
    [heap |-> [h EXCEPT !.mem[h.free] = header, !.free = @ + get_mblock_size(header)], ptr |-> Ptr(h.free)]
AllocatedIn(checked, header) == IF checked.ok THEN Placed(checked.heap, header) ELSE [heap |-> checked.heap, ptr |-> Blank]
js_malloc(h, header) == AllocatedIn(check_free_mem(h, get_mblock_size(header)), header)
js_free(h, ptr) == IF ptr + get_mblock_size(h.mem[ptr]) = h.free THEN [h EXCEPT !.free = ptr] ELSE h
(* With the size its caller writes into the header. *)
js_shrink(h, ptr, new_size) ==
    LET old_size == get_mblock_size(h.mem[ptr])
    IN IF old_size = new_size THEN h
       ELSE [h EXCEPT !.mem = set_free_block([@ EXCEPT ![ptr].size = new_size - 1], ptr + new_size, old_size - new_size)]

-----------------------------------------------------------------------------
(* The shim converts the arguments of a call one after the other, each into a
   cell of its own that is a root before the next one is allocated.         *)
JS_PushGCRef(h, cell) == [h EXCEPT !.roots = Append(@, cell), !.mem[cell] = Blank]
JS_PopGCRef(h) == [h EXCEPT !.roots = Front(@)]
Popped(converted) == [converted EXCEPT !.heap = JS_PopGCRef(@)]
RECURSIVE Converted(_, _, _)
Converted(h, cells, headers) ==
    LET Rooted(made) ==
            IF made.ptr = Blank THEN [heap |-> JS_PopGCRef(made.heap), ok |-> FALSE]
            ELSE Popped(Converted([made.heap EXCEPT !.mem[Head(cells)] = made.ptr], Tail(cells), Tail(headers)))
    IN IF cells = <<>> THEN [heap |-> h, ok |-> TRUE]
       ELSE Rooted(js_malloc(JS_PushGCRef(h, Head(cells)), Head(headers)))
=============================================================================
