------------------------------- MODULE HeapLaw -------------------------------
(* What module Heap promises: a collection keeps exactly what the roots reach,
   packed in the order it stood, with every pointer following; and a program
   that allocates, stores and lets go sees the graph of its objects.        *)
EXTENDS Heap, FiniteSets

RECURSIVE Reached(_, _)
Reached(mem, blocks) ==
    LET next == {mem[a].ptr : a \in {c \in UNION {{References(mem, b)[i] : i \in DOMAIN References(mem, b)} : b \in blocks} : IsPtr(mem[c])}}
    IN IF next \subseteq blocks THEN blocks ELSE Reached(mem, blocks \cup next)
Live(h) == Reached(h.mem, {h.mem[h.roots[i]].ptr : i \in {j \in DOMAIN h.roots : IsPtr(h.mem[h.roots[j]])}})
Total(sizes) == FoldLeft(LAMBDA x, y : x + y, 0, sizes)

Collected(h, gc) ==
    LET before == h.mem
        after == gc.heap.mem
        live == Live(h)
        blocks == Blocks(before, 1, h.free)
        IsLive(w) == IsPtr(w) /\ w.ptr \in live
        table == IF IsPtr(before[h.unique]) THEN before[h.unique].ptr ELSE 0
        strings == IF table = 0 THEN <<>> ELSE SelectSeq([i \in 1 .. before[table].size |-> before[table + i]], IsLive)
        kept == SelectSeq(blocks, LAMBDA b : b \in live \/ (b = table /\ strings # <<>>))
        Size(b) == IF b = table THEN 1 + Len(strings) ELSE get_mblock_size(before[b])
        To(b) == 1 + Total([i \in 1 .. SelectInSeq(kept, LAMBDA k : k = b) - 1 |-> Size(kept[i])])
        Follows(old) == IF IsPtr(old) THEN Ptr(To(old.ptr)) ELSE old
        (* Not every dead object is finalized: only one that no freed memory
           precedes.                                                        *)
        Alone(i) == i = 1 \/ (Contains(kept, blocks[i - 1]) /\ Size(blocks[i - 1]) = get_mblock_size(before[blocks[i - 1]]))
    IN /\ gc.heap.free = 1 + Total([i \in DOMAIN kept |-> Size(kept[i])])
       /\ \A i \in DOMAIN kept :
            LET b == kept[i]
            IN IF b = table
               THEN /\ after[To(b)] = [before[b] EXCEPT !.size = Len(strings)]
                    /\ \A j \in DOMAIN strings : after[To(b) + j] = Follows(strings[j])
               ELSE after[To(b)] = before[b] /\ \A j \in 1 .. before[b].size : after[To(b) + j] = Follows(before[b + j])
       /\ \A i \in DOMAIN h.roots : after[h.roots[i]] = Follows(before[h.roots[i]])
       /\ \A i \in DOMAIN h.cache : after[h.cache[i]] = IF IsLive(before[h.cache[i]]) THEN Follows(before[h.cache[i]]) ELSE Blank
       /\ after[h.unique] = IF strings = <<>> THEN Blank ELSE Ptr(To(table))
       /\ gc.finalized = {blocks[i] : i \in {j \in DOMAIN blocks : HasFinalizer(before[blocks[j]]) /\ ~Contains(kept, blocks[j]) /\ Alone(j)}}
GcLaw(h) == Collected(h, JS_GC(h))

-----------------------------------------------------------------------------
(* The graph a program means: its nodes by number, each with its header and
   its values, and the root cells; 0 is nothing. Represents follows the roots
   in both at once: what belongs together is one to one.                    *)
Fields(mem, ptr) == [i \in DOMAIN References(mem, ptr) |-> mem[References(mem, ptr)[i]]]
Couples(nodes, words) == {<<nodes[i], words[i]>> : i \in DOMAIN nodes}
Inner(g, mem, couples) ==
    UNION {Couples(g.nodes[c[1]].fields, Fields(mem, c[2].ptr)) : c \in {d \in couples : d[1] # 0}}
Fit(g, mem, c) ==
    IF c[1] = 0 THEN c[2] = Blank
    ELSE /\ IsPtr(c[2])
         /\ mem[c[2].ptr] = g.nodes[c[1]].header
         /\ Len(Fields(mem, c[2].ptr)) = Len(g.nodes[c[1]].fields)
RECURSIVE Isomorphic(_, _, _)
Isomorphic(g, mem, couples) ==
    /\ \A c \in couples : Fit(g, mem, c)
    /\ \A c, d \in couples : c[1] # 0 => (c[1] = d[1] <=> c[2] = d[2])
    /\ Inner(g, mem, couples) \subseteq couples \/ Isomorphic(g, mem, couples \cup Inner(g, mem, couples))
Represents(h, g) == Isomorphic(g, h.mem, Couples(g.roots, [i \in DOMAIN g.roots |-> h.mem[h.roots[i]]]))

RECURSIVE Used(_, _)
Used(g, nodes) ==
    LET next == UNION {Range(g.nodes[n].fields) : n \in nodes} \ {0}
    IN IF next \subseteq nodes THEN nodes ELSE Used(g, nodes \cup next)
InUse(g) == Used(g, Range(g.roots) \ {0})
WordsInUse(g) == Total([n \in DOMAIN g.nodes |-> IF n \in InUse(g) THEN get_mblock_size(g.nodes[n].header) ELSE 0])
Nothing == [header |-> Header("free", "none", 0), fields |-> <<>>]
Trimmed(g) == [g EXCEPT !.nodes = [n \in DOMAIN g.nodes |-> IF n \in InUse(g) THEN g.nodes[n] ELSE Nothing]]

(* What the operations mean for the graph, each with the condition its callers
   keep. A new block's values are those of the roots, in turn.              *)
Turn(i, roots) == roots[1 + ((i - 1) % Len(roots))]
NewNode(g, o) ==
    LET n == CHOOSE k \in DOMAIN g.nodes : k \notin InUse(g)
    IN [g EXCEPT !.nodes[n] = [header |-> o.header, fields |-> [i \in DOMAIN ValueWords(o.header) |-> Turn(i, g.roots)]],
                 !.roots[o.root] = n]
(* The arguments of a call, which the callee keeps in the two roots. *)
NewArguments(g, o) ==
    LET n == CHOOSE p \in (DOMAIN g.nodes) \X (DOMAIN g.nodes) : p[1] # p[2] /\ {p[1], p[2]} \cap InUse(g) = {}
        Leaf(header) == [header |-> header, fields |-> <<>>]
    IN [g EXCEPT !.nodes[n[1]] = Leaf(o.headers[1]), !.nodes[n[2]] = Leaf(o.headers[2]), !.roots = n]
Wanted(o) == IF o.op = "call" THEN Total([i \in 1 .. 2 |-> get_mblock_size(o.headers[i])]) ELSE get_mblock_size(o.header)
Full(h, g, o) == h.top < WordsInUse(g) + Wanted(o) + h.min_free
Owned(g, n) == {m \in InUse(g) : n \in Range(g.nodes[m].fields)} # {} \/ Cardinality({r \in DOMAIN g.roots : g.roots[r] = n}) > 1
Allowed(g, o) ==
    LET n == g.roots[o.root]
    IN CASE o.op \in {"new", "call", "gc"} -> TRUE
         [] o.op = "drop" -> n # 0
         [] o.op = "free" -> n # 0 /\ ~Owned(g, n)
         [] o.op = "store" -> n # 0 /\ o.i \in DOMAIN g.nodes[n].fields /\ g.roots[o.from] # n
         [] o.op = "shrink" -> n # 0 /\ g.nodes[n].header.mtag = "value_array" /\ g.nodes[n].header.size > 1
Meant(h, g, o) ==
    LET n == g.roots[o.root]
    IN Trimmed(
         CASE o.op = "new" -> IF Full(h, g, o) THEN g ELSE NewNode(g, o)
           [] o.op = "call" -> IF Full(h, g, o) THEN g ELSE NewArguments(g, o)
           [] o.op = "gc" -> g
           [] o.op \in {"drop", "free"} -> [g EXCEPT !.roots[o.root] = 0]
           [] o.op = "store" -> [g EXCEPT !.nodes[n].fields[o.i] = g.roots[o.from]]
           [] o.op = "shrink" -> [g EXCEPT !.nodes[n] = [header |-> [@.header EXCEPT !.size = @ - 1], fields |-> Front(@.fields)]])

(* What they do in memory; the values are read after the allocation, which may
   move what the roots lead to.                                             *)
Values(mem, cells) == [r \in DOMAIN cells |-> mem[cells[r]]]
Written(h, ptr, o) ==
    LET words == References(h.mem, ptr)
    IN [h EXCEPT !.mem = [a \in Range(words) |-> Turn(SelectInSeq(words, LAMBDA w : w = a), Values(h.mem, h.roots))]
                         @@ [@ EXCEPT ![h.roots[o.root]] = Ptr(ptr)]]
Allocated(made, o) == IF made.ptr = Blank THEN made.heap ELSE Written(made.heap, made.ptr.ptr, o)
Called(converted, o, roots) ==
    LET m == converted.heap.mem
    IN IF ~converted.ok THEN converted.heap
       ELSE [converted.heap EXCEPT !.mem = [m EXCEPT ![roots[1]] = m[o.cells[1]], ![roots[2]] = m[o.cells[2]]]]
Done(h, o) ==
    LET cell == h.roots[o.root]
        ptr == h.mem[cell].ptr
    IN CASE o.op = "new" -> Allocated(js_malloc(h, o.header), o)
         [] o.op = "call" -> Called(Converted(h, o.cells, o.headers), o, h.roots)
         [] o.op = "gc" -> JS_GC(h).heap
         [] o.op = "drop" -> [h EXCEPT !.mem[cell] = Blank]
         [] o.op = "free" -> js_free([h EXCEPT !.mem[cell] = Blank], ptr)
         [] o.op = "store" -> [h EXCEPT !.mem[References(h.mem, ptr)[o.i]] = h.mem[h.roots[o.from]]]
         [] o.op = "shrink" -> js_shrink(h, ptr, h.mem[ptr].size)
(* Memory above free is of no account. *)
Cleared(h) == [h EXCEPT !.mem = [a \in h.free .. h.top |-> Blank] @@ @]
=============================================================================
