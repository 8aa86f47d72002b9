--------------------------- MODULE Machine_proofs ---------------------------
(* For every program and whatever the compiler makes of it: a captured
   variable has one cell (CapturedOnce), nothing but unwinding follows an
   interrupt (InterruptUnwinds), every instruction finds the operand stack as
   deep as the compiler computed (StackAsExplored), nothing dangles and
   prototype chains end, all of it up to a call that loses its flags.

   The first two need only to know which frames and cells there are (IInv).  The
   instructions are of four kinds.  Most compute: they change operand stacks,
   slots and objects and leave the frames there are, their lists of cells and
   what the cells stand for alone.  A call puts a frame on top that has no cells,
   fclosure adds cells to the top frame, and a return takes the top frame away
   and detaches its cells.

   The others need to know what lies where (TInv): what each place of an operand
   stack holds, by the shape that the code was verified with (ShapesKept), and
   what values, slots, cells and objects refer to.                             *)
EXTENDS Machine, SequenceTheorems, WellFoundedInduction, TLAPS

IsSeq(s) == s \in Seq({s[k] : k \in DOMAIN s})
IsFrame(f) == "refs" \in DOMAIN f
IsCell(c) == {"attached", "depth", "kind", "idx"} \subseteq DOMAIN c

(* A cell lies where a closure that was already made put it. *)
Shapes ==
    /\ IsSeq(frames) /\ \A d \in DOMAIN frames : IsFrame(frames[d])
    /\ IsSeq(objs)
    /\ \A r \in DOMAIN cells : IsCell(cells[r]) /\ r[1] \in 1 .. Len(objs)
    /\ \A n \in DOMAIN globals : globals[n] \in DOMAIN cells

Phases ==
    /\ prog \in Programs
    /\ status \in {"source", "parsed"} => frames = <<>> /\ ~uncatchable
    /\ status = "parsed" => CodeOf(prog).err = "" /\ code = CodeOf(prog).fns
    /\ status = "running" => frames # <<>>
    /\ uncatchable => status = "thrown" \/ (status = "running" /\ exc # NoExc)

IInv == Shapes /\ Phases /\ CapturedOnce

-----------------------------------------------------------------------------
(* Sequences of anything. *)
LEMMA IsSeqOf ==
    ASSUME NEW Elems, NEW s \in Seq(Elems)
    PROVE  IsSeq(s)
<1>1. /\ Len(s) \in Nat /\ DOMAIN s = 1 .. Len(s)
      /\ s = [k \in 1 .. Len(s) |-> s[k]]
  OBVIOUS
<1> DEFINE T == {s[k] : k \in DOMAIN s}
<1>2. \A k \in 1 .. Len(s) : s[k] \in T
  BY <1>1
<1> HIDE DEF T
<1>3. s \in Seq(T)
  BY <1>1, <1>2
<1> QED
  BY <1>3 DEF IsSeq, T

(* Its numbers are those up to its length. *)
LEMMA Sequence ==
    ASSUME NEW s, IsSeq(s)
    PROVE  /\ Len(s) \in Nat /\ DOMAIN s = 1 .. Len(s)
           /\ s = <<>> <=> Len(s) = 0
BY DEF IsSeq

UpdateOf(t, s, i, v) ==
    IsSeq(t) /\ Len(t) = Len(s) /\ \A k \in 1 .. Len(s) : t[k] = IF k = i THEN v ELSE s[k]
ExtensionOf(t, s, v) ==
    /\ IsSeq(t) /\ Len(t) = Len(s) + 1 /\ t[Len(s) + 1] = v
    /\ \A k \in 1 .. Len(s) : t[k] = s[k]

(* One element replaced, if there is one of that number. *)
LEMMA Updated ==
    ASSUME NEW s, IsSeq(s), NEW i, NEW v, NEW t, t = [s EXCEPT ![i] = v]
    PROVE  UpdateOf(t, s, i, v)
<1> DEFINE Elems == {s[k] : k \in DOMAIN s} \cup {v}
<1>1. s \in Seq(Elems)
  <2>1. \A k \in 1 .. Len(s) : s[k] \in Elems
    BY Sequence
  <2> HIDE DEF Elems
  <2> QED
    BY <2>1 DEF IsSeq
<1>2. v \in Elems
  OBVIOUS
<1> HIDE DEF Elems
<1>3. PICK n \in Nat : n = Len(s)
  BY <1>1
<1>4. s \in [1 .. n -> Elems]
  BY <1>1, <1>3
<1>5. t \in [1 .. n -> Elems] /\ \A k \in 1 .. n : t[k] = IF k = i THEN v ELSE s[k]
  BY <1>2, <1>4
<1>6. t \in Seq(Elems) /\ Len(t) = n
  <2>1. t \in Seq(Elems)
    BY <1>5, SeqDef, Zenon
  <2>2. 1 .. Len(t) = 1 .. n /\ Len(t) \in Nat
    BY <1>5, <2>1, LenProperties
  <2> QED
    BY <2>1, <2>2
<1> QED
  BY <1>3, <1>5, <1>6, IsSeqOf DEF UpdateOf

(* One element more. *)
LEMMA Extended ==
    ASSUME NEW s, IsSeq(s), NEW v, NEW t, t = Append(s, v)
    PROVE  ExtensionOf(t, s, v)
<1> DEFINE Elems == {s[k] : k \in DOMAIN s} \cup {v}
<1>1. s \in Seq(Elems)
  <2>1. \A k \in 1 .. Len(s) : s[k] \in Elems
    BY Sequence
  <2> HIDE DEF Elems
  <2> QED
    BY <2>1 DEF IsSeq
<1>2. v \in Elems
  OBVIOUS
<1> HIDE DEF Elems
<1>3. /\ t \in Seq(Elems) /\ Len(t) = Len(s) + 1
      /\ \A k \in 1 .. Len(s) : t[k] = s[k]
      /\ t[Len(s) + 1] = v
  BY <1>1, <1>2
<1> QED
  BY <1>3, IsSeqOf DEF ExtensionOf

(* The last element taken away. *)
LEMMA Shortened ==
    ASSUME NEW s, IsSeq(s), Len(s) > 0
    PROVE  LET t == Front(s)
           IN /\ IsSeq(t) /\ Len(t) = Len(s) - 1
              /\ \A k \in 1 .. Len(s) - 1 : t[k] = s[k]
<1> DEFINE Elems == {s[k] : k \in DOMAIN s}
           t == Front(s)
<1>1. s \in Seq(Elems)
  BY DEF IsSeq
<1> HIDE DEF Elems
<1>2. PICK l \in Int : l = Len(s) - 1
  BY <1>1
<1>3. l \in Nat /\ \A k \in 1 .. l : s[k] \in Elems
  BY <1>1, <1>2
<1>4. t = SubSeq(s, 1, l)
  BY <1>2 DEF Front
<1>5. t \in Seq(Elems) /\ Len(t) = l /\ \A k \in 1 .. l : t[k] = s[k]
  BY <1>1, <1>3, <1>4
<1> QED
  BY <1>2, <1>5, IsSeqOf

-----------------------------------------------------------------------------
(* The kinds of instructions. *)

(* The frames there are, each with the cells it had. *)
SameFrames(fs) ==
    /\ IsSeq(fs) /\ Len(fs) = Len(frames)
    /\ \A d \in 1 .. Len(frames) : IsFrame(fs[d]) /\ fs[d].refs = frames[d].refs
(* The cells there are, for the slots they were for. *)
SameCells(cs) ==
    /\ DOMAIN cs = DOMAIN cells
    /\ \A r \in DOMAIN cells :
           /\ IsCell(cs[r]) /\ (cs[r].attached <=> cells[r].attached) /\ cs[r].depth = cells[r].depth
           /\ cs[r].kind = cells[r].kind /\ cs[r].idx = cells[r].idx
Grown(heap) == IsSeq(heap) /\ Len(heap) >= Len(objs)

Running == status = "running" /\ ~uncatchable
Going == UNCHANGED <<prog, code, globals, uncatchable, status>>
(* What an instruction does that only leaves st on the operand stack. *)
Proceeds(st) == frames' = To(st) /\ objs' = objs /\ cells' = cells /\ exc' = exc /\ Going

Computes == Running /\ SameFrames(frames') /\ SameCells(cells') /\ Grown(objs') /\ Going
Calls ==
    /\ Running /\ SameCells(cells') /\ Grown(objs') /\ Going
    /\ \E fs, f : SameFrames(fs) /\ IsFrame(f) /\ f.refs = {} /\ frames' = Append(fs, f)

(* Computing leaves the cells where they are. *)
LEMMA ComputesKeeps == ASSUME IInv, Computes PROVE IInv'
<1>1. /\ Len(frames') = Len(frames) /\ Len(frames) \in Nat
      /\ DOMAIN frames = 1 .. Len(frames) /\ DOMAIN frames' = 1 .. Len(frames)
  BY Sequence DEF IInv, Shapes, Computes, SameFrames
<1>2. /\ \A d \in DOMAIN frames : IsFrame(frames'[d]) /\ frames'[d].refs = frames[d].refs
      /\ IsSeq(frames')
  BY <1>1 DEF Computes, SameFrames
<1>3. IsSeq(objs') /\ Len(objs) \in Nat /\ Len(objs') \in Nat /\ Len(objs') >= Len(objs)
  BY Sequence DEF IInv, Shapes, Computes, Grown
<1>4. /\ globals' = globals /\ globals' = globals /\ DOMAIN cells' = DOMAIN cells
      /\ \A r \in DOMAIN cells :
           /\ IsCell(cells'[r]) /\ (cells'[r].attached <=> cells[r].attached)
           /\ cells'[r].depth = cells[r].depth
           /\ cells'[r].kind = cells[r].kind /\ cells'[r].idx = cells[r].idx
  BY DEF Computes, SameCells, Going
<1>5. Shapes'
  BY <1>1, <1>2, <1>3, <1>4 DEF IInv, Shapes, IsSeq, IsFrame, IsCell
<1>6. frames # <<>> /\ frames' # <<>>
  BY <1>1, <1>2, Sequence DEF IInv, Phases, Shapes, Computes, Running
<1>7. Phases'
  BY <1>6 DEF IInv, Phases, Computes, Running, Going
<1>8. CapturedOnce'
  BY <1>1, <1>2, <1>4 DEF IInv, CapturedOnce, SlotName
<1> QED
  BY <1>5, <1>7, <1>8 DEF IInv

(* A frame without cells on top of the others does not matter to theirs. *)
LEMMA CallsKeeps == ASSUME IInv, Calls PROVE IInv'
<1>1. PICK fs, f : SameFrames(fs) /\ IsFrame(f) /\ f.refs = {} /\ frames' = Append(fs, f)
  BY DEF Calls
<1>2. PICK n \in Nat : n = Len(frames) /\ DOMAIN frames = 1 .. n
  BY Sequence DEF IInv, Shapes
<1>0. PICK t : t = frames'
  OBVIOUS
<1>3. /\ IsSeq(frames') /\ DOMAIN frames' = 1 .. n + 1
      /\ \A d \in 1 .. n : IsFrame(frames'[d]) /\ frames'[d].refs = frames[d].refs
      /\ IsFrame(frames'[n + 1]) /\ frames'[n + 1].refs = {}
  <2>1. /\ IsSeq(fs) /\ Len(fs) = n
        /\ \A d \in 1 .. n : IsFrame(fs[d]) /\ fs[d].refs = frames[d].refs
    BY <1>1, <1>2 DEF SameFrames
  <2>2. /\ IsSeq(t) /\ Len(t) = n + 1 /\ t[n + 1] = f
        /\ \A k \in 1 .. n : t[k] = fs[k]
    <3>1. t = Append(fs, f)
      BY <1>0, <1>1
    <3>2. ExtensionOf(t, fs, f)
      BY <2>1, <3>1, Extended
    <3> QED
      BY <2>1, <3>2 DEF ExtensionOf
  <2> QED
    BY <1>0, <1>1, <2>1, <2>2, Sequence
<1>4. IsSeq(objs') /\ Len(objs) \in Nat /\ Len(objs') \in Nat /\ Len(objs') >= Len(objs)
  BY Sequence DEF IInv, Shapes, Calls, Grown
<1>5. /\ globals' = globals /\ globals' = globals /\ DOMAIN cells' = DOMAIN cells
      /\ \A r \in DOMAIN cells :
           /\ IsCell(cells'[r]) /\ (cells'[r].attached <=> cells[r].attached)
           /\ cells'[r].depth = cells[r].depth
           /\ cells'[r].kind = cells[r].kind /\ cells'[r].idx = cells[r].idx
  BY DEF Calls, SameCells, Going
<1>6. Shapes'
  <2>1. \A d \in DOMAIN frames' : IsFrame(frames'[d])
    BY <1>3
  <2> QED
    BY <2>1, <1>3, <1>4, <1>5 DEF IInv, Shapes, IsSeq, IsFrame, IsCell
<1>7. Phases'
  <2>1. frames' # <<>>
    BY <1>3, Sequence
  <2> QED
    BY <2>1 DEF IInv, Phases, Calls, Running, Going
<1>8. CapturedOnce'
  <2>1. \A r \in DOMAIN cells : cells'[r].attached =>
          cells'[r].depth \in 1 .. n + 1 /\ r \in frames'[cells'[r].depth].refs
    BY <1>2, <1>3, <1>5 DEF IInv, CapturedOnce
  <2>2. ASSUME NEW d \in 1 .. n + 1, NEW r \in frames'[d].refs
        PROVE  /\ r \in DOMAIN cells' /\ cells'[r].attached /\ cells'[r].depth = d
               /\ \A q \in frames'[d].refs : SlotName(cells'[q]) = SlotName(cells'[r]) => q = r
    <3>1. d \in 1 .. n /\ frames'[d].refs = frames[d].refs
      BY <1>3, <2>2
    <3> QED
      BY <1>2, <1>5, <2>2, <3>1 DEF IInv, CapturedOnce, SlotName
  <2> QED
    BY <2>1, <2>2, <1>3, <1>5 DEF CapturedOnce, SlotName
<1> QED
  BY <1>6, <1>7, <1>8 DEF IInv

-----------------------------------------------------------------------------
(* What the instructions make of the frames and the heap. *)
LEMMA Framed ==
    ASSUME Shapes, frames # <<>>
    PROVE  /\ Depth \in 1 .. Len(frames) /\ DOMAIN frames = 1 .. Len(frames)
           /\ SameFrames(frames)
           /\ \A st, pc : SameFrames(Jump(st, pc))
           /\ \A st : SameFrames(To(st))
<1>1. Len(frames) \in Nat /\ Depth = Len(frames) /\ Depth \in 1 .. Len(frames)
  BY Sequence DEF Shapes, Depth
<1>2. \A st, pc : SameFrames(Jump(st, pc))
  <2> SUFFICES ASSUME NEW st, NEW pc
               PROVE  SameFrames(Jump(st, pc))
    OBVIOUS
  <2>1. PICK f : f = At(st, pc)
    OBVIOUS
  <2>2. "refs" \in DOMAIN f /\ f.refs = Top.refs
    BY <1>1, <2>1, Sequence DEF At, Top, Shapes, IsFrame
  <2>3. PICK d : d = Depth
    OBVIOUS
  <2>4. PICK s, t : s = frames /\ t = [s EXCEPT ![d] = f]
    OBVIOUS
  <2>5. t = Jump(st, pc)
    BY <2>1, <2>3, <2>4 DEF Jump
  <2>6. /\ IsSeq(t) /\ Len(t) = Len(s)
        /\ \A k \in 1 .. Len(s) : t[k] = IF k = d THEN f ELSE s[k]
    <3>1. IsSeq(s)
      BY <2>4 DEF Shapes
    <3>2. UpdateOf(t, s, d, f)
      BY <2>4, <3>1, Updated
    <3> QED
      BY <3>2 DEF UpdateOf
  <2>7. SameFrames(t)
    BY <1>1, <2>2, <2>3, <2>4, <2>6, Sequence DEF SameFrames, Shapes, IsFrame, Top
  <2> QED
    BY <2>5, <2>7
<1>3. \A st : To(st) = Jump(st, Top.pc + 1)
  BY DEF To, Jump
<1> QED
  BY <1>1, <1>2, <1>3, Sequence DEF SameFrames, Shapes

(* Writing a slot of a frame, be there one of that number or not. *)
LEMMA SlotWritten ==
    ASSUME NEW fs, SameFrames(fs)
    PROVE  \A d, i, v : /\ SameFrames([fs EXCEPT ![d].args[i] = v])
                        /\ SameFrames([fs EXCEPT ![d].locs[i] = v])
<1> SUFFICES ASSUME NEW d, NEW i, NEW v
             PROVE  /\ SameFrames([fs EXCEPT ![d].args[i] = v])
                    /\ SameFrames([fs EXCEPT ![d].locs[i] = v])
  OBVIOUS
<1>1. ASSUME NEW f, d \in 1 .. Len(frames) => IsFrame(f) /\ f.refs = fs[d].refs,
             NEW t, t = [fs EXCEPT ![d] = f]
      PROVE  SameFrames(t)
  <2>1. /\ IsSeq(t) /\ Len(t) = Len(fs)
        /\ \A k \in 1 .. Len(fs) : t[k] = IF k = d THEN f ELSE fs[k]
    <3>1. IsSeq(fs)
      BY DEF SameFrames
    <3>2. UpdateOf(t, fs, d, f)
      BY <1>1, <3>1, Updated
    <3> QED
      BY <3>2 DEF UpdateOf
  <2> QED
    BY <1>1, <2>1 DEF SameFrames
<1>2. PICK f : f = [fs[d] EXCEPT !.args[i] = v]
  OBVIOUS
<1>3. PICK g : g = [fs[d] EXCEPT !.locs[i] = v]
  OBVIOUS
<1>4. d \in 1 .. Len(frames) => /\ IsFrame(f) /\ f.refs = fs[d].refs
                                /\ IsFrame(g) /\ g.refs = fs[d].refs
  BY <1>2, <1>3 DEF SameFrames, IsFrame
<1>5. PICK t, u : t = [fs EXCEPT ![d] = f] /\ u = [fs EXCEPT ![d] = g]
  OBVIOUS
<1>6. SameFrames(t) /\ SameFrames(u)
  BY <1>1, <1>4, <1>5
<1>7. t = [fs EXCEPT ![d].args[i] = v] /\ u = [fs EXCEPT ![d].locs[i] = v]
  BY <1>2, <1>3, <1>5
<1> QED
  BY <1>6, <1>7

(* Objects are made and changed, not taken away. *)
LEMMA HeapGrows ==
    ASSUME NEW heap, Grown(heap), Shapes
    PROVE  /\ \A o : Grown(Append(heap, o))
           /\ \A i, o : Grown([heap EXCEPT ![i] = o])
<1>1. Len(heap) \in Nat /\ Len(objs) \in Nat
  BY Sequence DEF Grown, Shapes
<1>2. ASSUME NEW o
      PROVE  Grown(Append(heap, o))
  <2>1. PICK t : t = Append(heap, o)
    OBVIOUS
  <2>2. IsSeq(t) /\ Len(t) = Len(heap) + 1
    BY <2>1, Extended DEF Grown, ExtensionOf
  <2> QED
    BY <1>1, <2>1, <2>2 DEF Grown
<1>3. ASSUME NEW i, NEW o
      PROVE  Grown([heap EXCEPT ![i] = o])
  <2>1. PICK t : t = [heap EXCEPT ![i] = o]
    OBVIOUS
  <2>2. IsSeq(t) /\ Len(t) = Len(heap)
    BY <2>1, Updated DEF Grown, UpdateOf
  <2>3. Grown(t)
    BY <1>1, <2>2 DEF Grown
  <2> QED
    BY <2>1, <2>3
<1> QED
  BY <1>2, <1>3

-----------------------------------------------------------------------------
(* Each instruction is of one kind; one that throws only sets the exception. *)
LEMMA Fetched ==
    ASSUME IInv
    PROVE  /\ \A ops : Fetch(ops) => Running
           /\ Running => /\ frames # <<>> /\ Shapes /\ SameFrames(frames) /\ SameCells(cells)
                         /\ Grown(objs)
<1>1. \A ops : Fetch(ops) => Running
  BY DEF IInv, Phases, Fetch, Running
<1>2. ASSUME Running
      PROVE  /\ frames # <<>> /\ Shapes /\ SameFrames(frames) /\ SameCells(cells) /\ Grown(objs)
  <2>1. frames # <<>> /\ Shapes
    BY <1>2 DEF IInv, Phases, Running
  <2> QED
    BY <2>1, Framed, Sequence DEF SameCells, Grown, Shapes
<1> QED
  BY <1>1, <1>2

(* Instructions that leave a stack, or one more value on it. *)
LEMMA Proceeding ==
    /\ \A st : Continue(st) => Proceeds(st)
    /\ \A st, v : Yield(st, v) => Proceeds(Append(st, v))
BY DEF Continue, Yield, Proceeds, Quiet, Going

(* A step that leaves the cells and the frames' lists of them alone computes. *)
LEMMA Frameless ==
    ASSUME IInv, Running, Going, SameFrames(frames'), cells' = cells, Grown(objs')
    PROVE  Computes
<1>1. SameCells(cells')
  BY Fetched DEF SameCells
<1> QED
  BY <1>1 DEF Computes

(* Instructions that put a stack in place of the top frame's, with a new
   object perhaps, that jump, or that throw. *)
LEMMA Simple ==
    ASSUME IInv, Running
    PROVE  /\ \A st, pc : frames' = Jump(st, pc) /\ cells' = cells /\ Grown(objs') /\ Going => Computes
           /\ \A st : frames' = To(st) /\ cells' = cells /\ Grown(objs') /\ Going => Computes
           /\ \A st : Proceeds(st) => Computes
           /\ \A o, st : Allocate(o, st) => Computes
           /\ \A v : Throw(v) => Computes
<1>1. ASSUME NEW st, NEW pc, frames' = Jump(st, pc), cells' = cells, Grown(objs'), Going
      PROVE  Computes
  BY <1>1, Framed, Fetched, Frameless
<1>2. ASSUME NEW st, frames' = To(st), cells' = cells, Grown(objs'), Going
      PROVE  Computes
  BY <1>2, Framed, Fetched, Frameless
<1>3. ASSUME NEW st, Proceeds(st)
      PROVE  Computes
  <2>1. frames' = To(st) /\ cells' = cells /\ objs' = objs /\ Going
    BY <1>3 DEF Proceeds
  <2> QED
    BY <1>2, <2>1, Fetched
<1>4. ASSUME NEW o, NEW st, Allocate(o, st)
      PROVE  Computes
  <2>1. /\ frames' = To(Append(st, Obj(Len(objs) + 1))) /\ cells' = cells
        /\ objs' = Append(objs, o) /\ Going
    BY <1>4 DEF Allocate, Quiet, Going
  <2>2. Grown(objs')
    BY <2>1, Fetched, HeapGrows
  <2> QED
    BY <1>2, <2>1, <2>2
<1>5. ASSUME NEW v, Throw(v)
      PROVE  Computes
  <2>1. frames' = frames /\ cells' = cells /\ objs' = objs /\ Going
    BY <1>5 DEF Throw, Going
  <2> QED
    BY <2>1, Fetched, Frameless
<1> QED
  BY <1>1, <1>2, <1>3, <1>4, <1>5

(* Operators, and what moves values on the operand stack. *)
LEMMA StackOnly ==
    ASSUME IInv, \/ Push \/ PushConst \/ NewObject \/ ArrayFrom \/ Arguments \/ Shuffle \/ GetSlot
                 \/ UnaryOp \/ PostOp \/ BinaryOp \/ TypeOf \/ ThrowOp \/ InOp \/ GetVarRef
    PROVE  Computes
<1>1. Running
  BY Fetched DEF Push, PushConst, NewObject, ArrayFrom, Arguments, Shuffle, GetSlot, UnaryOp, PostOp, BinaryOp,
     TypeOf, ThrowOp, InOp, GetVarRef
<1>2. CASE Push
  BY <1>1, <1>2, Proceeding, Simple DEF Push
<1>3. CASE PushConst
  BY <1>1, <1>3, Proceeding, Simple DEF PushConst
<1>4. CASE NewObject
  BY <1>1, <1>4, Simple DEF NewObject
<1>5. CASE ArrayFrom
  BY <1>1, <1>5, Simple DEF ArrayFrom
<1>6. CASE Arguments
  BY <1>1, <1>6, Simple DEF Arguments
<1>7. CASE Shuffle
  BY <1>1, <1>7, Proceeding, Simple DEF Shuffle
<1>8. CASE GetSlot
  BY <1>1, <1>8, Proceeding, Simple DEF GetSlot
<1>9. CASE UnaryOp
  BY <1>1, <1>9, Proceeding, Simple DEF UnaryOp
<1>10. CASE PostOp
  BY <1>1, <1>10, Fetched, Simple DEF PostOp, Quiet, Going
<1>11. CASE BinaryOp
  BY <1>1, <1>11, Proceeding, Simple DEF BinaryOp
<1>12. CASE TypeOf
  BY <1>1, <1>12, Proceeding, Simple DEF TypeOf
<1>13. CASE ThrowOp
  BY <1>1, <1>13, Simple DEF ThrowOp
<1>14. CASE InOp
  <2> DEFINE has == JS_HasProperty(objs, S(0).n, JS_ToPropertyKey(S(1)))
  <2>1. \/ Throw(Error("TypeError")) \/ Proceeds(Append(Below(2), Bool(has)))
    BY <1>14, Proceeding, Zenon DEF InOp
  <2>2. PICK b : b = Bool(has)
    OBVIOUS
  <2>3. \/ Throw(Error("TypeError")) \/ Proceeds(Append(Below(2), b))
    BY <2>1, <2>2, Zenon
  <2> QED
    BY <1>1, <2>3, Simple
<1>15. CASE GetVarRef
  BY <1>1, <1>15, Proceeding, Simple DEF GetVarRef
<1> QED
  BY <1>2, <1>3, <1>4, <1>5, <1>6, <1>7, <1>8, <1>9, <1>10, <1>11, <1>12, <1>13, <1>14, <1>15

(* Jumps within the function, the calls of finally blocks among them. *)
LEMMA JumpsCompute ==
    ASSUME IInv, Goto \/ Branch \/ Gosub \/ Ret
    PROVE  Computes
<1>1. Running
  BY Fetched DEF Goto, Branch, Gosub, Ret
<1>2. \/ \E v : Throw(v)
      \/ /\ cells' = cells /\ objs' = objs /\ Going
         /\ \E st, pc : frames' = Jump(st, pc)
  BY DEF Goto, Branch, Gosub, Ret, Quiet, Going
<1> QED
  BY <1>1, <1>2, Simple, Fetched

(* An object or a slot is written. *)
LEMMA Writes ==
    ASSUME IInv, PutSlot \/ PutVarRef \/ SetProto \/ Delete \/ ForStart \/ ForNext
    PROVE  Computes
<1>1. Running /\ frames # <<>> /\ Shapes /\ SameFrames(frames) /\ SameCells(cells) /\ Grown(objs)
  BY Fetched DEF PutSlot, PutVarRef, SetProto, Delete, ForStart, ForNext
<1>2. \A st : SameFrames(To(st))
  BY <1>1, Framed
<1>0. ASSUME objs' = objs \/ \E i, o : objs' = [objs EXCEPT ![i] = o]
      PROVE  Grown(objs')
  <2>1. CASE objs' = objs
    BY <1>1, <2>1
  <2>2. CASE \E i, o : objs' = [objs EXCEPT ![i] = o]
    <3>1. PICK i, o : objs' = [objs EXCEPT ![i] = o]
      BY <2>2
    <3>2. Grown([objs EXCEPT ![i] = o])
      BY <1>1, HeapGrows
    <3> QED
      BY <3>1, <3>2
  <2> QED
    BY <1>0, <2>1, <2>2
<1>3. CASE PutSlot
  <2>1. cells' = cells /\ objs' = objs /\ Going
    BY <1>3 DEF PutSlot, Quiet, Going
  <2>2. PICK fs : fs = To(Below(1))
    OBVIOUS
  <2>3. SameFrames(fs)
    BY <1>2, <2>2
  <2>4. SameFrames(frames')
    BY <1>3, <2>2, <2>3, SlotWritten DEF PutSlot
  <2> QED
    BY <1>1, <2>1, <2>4, Frameless
<1>4. CASE PutVarRef
  <2>1. CASE \E v : Throw(v)
    BY <1>1, <2>1, Simple
  <2>2. CASE ~\E v : Throw(v)
    <3>1. objs' = objs /\ Going
      BY <1>4, <2>2 DEF PutVarRef, Quiet, Going
    <3>2. PICK fs : fs = To(Below(1))
      OBVIOUS
    <3>3. SameFrames(fs)
      BY <1>2, <3>2
    <3>4. PICK c, v : c = cells[Ref] /\ v = S(0)
      OBVIOUS
    <3>5. SameFrames(frames')
      <4>1. frames' = IF ~c.attached THEN fs
                      ELSE IF c.kind = "arg" THEN [fs EXCEPT ![c.depth].args[c.idx] = v]
                      ELSE [fs EXCEPT ![c.depth].locs[c.idx] = v]
        BY <1>4, <2>2, <3>2, <3>4 DEF PutVarRef
      <4>2. /\ SameFrames([fs EXCEPT ![c.depth].args[c.idx] = v])
            /\ SameFrames([fs EXCEPT ![c.depth].locs[c.idx] = v])
        BY <3>3, SlotWritten
      <4> QED
        BY <3>3, <4>1, <4>2
    <3>6. cells' = cells \/ \E r, x : cells' = [cells EXCEPT ![r].val = x]
      BY <1>4, <2>2 DEF PutVarRef
    <3>7. SameCells(cells')
      BY <1>1, <3>6 DEF SameCells, Shapes, IsCell
    <3> QED
      BY <1>1, <3>1, <3>5, <3>7 DEF Computes
  <2> QED
    BY <2>1, <2>2
<1>5. CASE SetProto
  <2>1. CASE \E v : Throw(v)
    BY <1>1, <2>1, Simple
  <2>2. CASE ~\E v : Throw(v)
    <3>1. frames' = To(Below(1)) /\ cells' = cells /\ Going
      BY <1>5, <2>2 DEF SetProto, Quiet, Going
    <3>2. objs' = objs \/ \E i, o : objs' = [objs EXCEPT ![i] = o]
      BY <1>5, <2>2 DEF SetProto
    <3> QED
      BY <1>0, <1>1, <3>1, <3>2, Simple
  <2> QED
    BY <2>1, <2>2
<1>6. CASE Delete
  <2>1. \E st : frames' = To(st)
    BY <1>6 DEF Delete
  <2>2. cells' = cells /\ Going
    BY <1>6 DEF Delete, Quiet, Going
  <2>3. objs' = objs \/ \E i, o : objs' = [objs EXCEPT ![i] = o]
    BY <1>6 DEF Delete, JS_DeleteProperty
  <2> QED
    BY <1>0, <1>1, <2>1, <2>2, <2>3, Simple
<1>7. CASE ForStart
  <2>1. CASE \E v : Throw(v)
    BY <1>1, <2>1, Simple
  <2>2. CASE ~\E v : Throw(v)
    <3>1. /\ \E st : frames' = To(st)
          /\ cells' = cells /\ Going
      BY <1>7, <2>2 DEF ForStart, Quiet, Going
    <3>2. \E o : objs' = Append(objs, o) \/ \E k : objs' = Append(Append(objs, k), o)
      BY <1>7, <2>2 DEF ForStart
    <3>3. Grown(objs')
      <4>1. \A k : Grown(Append(objs, k))
        BY <1>1, HeapGrows
      <4>2. ASSUME NEW k
            PROVE  \A o : Grown(Append(Append(objs, k), o))
        <5>1. PICK heap : heap = Append(objs, k)
          OBVIOUS
        <5> QED
          BY <1>1, <4>1, <5>1, HeapGrows
      <4> QED
        BY <3>2, <4>1, <4>2
    <3> QED
      BY <1>1, <3>1, <3>3, Simple
  <2> QED
    BY <2>1, <2>2
<1>8. CASE ForNext
  <2>1. /\ \E st : frames' = To(st)
        /\ cells' = cells /\ Going
        /\ objs' = objs \/ \E i, o : objs' = [objs EXCEPT ![i] = o]
    BY <1>8 DEF ForNext, Quiet, Going
  <2> QED
    BY <1>0, <1>1, <2>1, Fetched, Simple
<1> QED
  BY <1>3, <1>4, <1>5, <1>6, <1>7, <1>8

(* No operation on properties makes the heap smaller. *)
LEMMA Heaps ==
    ASSUME IInv, Running
    PROVE  /\ \A id, p : Grown(JS_DefineProperty(objs, id, p))
           /\ \A f : Grown(js_function_get_prototype(objs, f).heap)
           /\ \A f : Grown(GetPrototype(objs, f).heap)
           /\ \A this, key, v : Grown(JS_SetPropertyInternal(objs, this, key, v).heap)
<1>1. Shapes /\ Grown(objs)
  BY Fetched
<1>2. ASSUME NEW heap, Grown(heap)
      PROVE  \A id, p : Grown(JS_DefineProperty(heap, id, p))
  <2>1. \A i, o : Grown([heap EXCEPT ![i] = o])
    BY <1>1, <1>2, HeapGrows
  <2> QED
    BY <2>1 DEF JS_DefineProperty
<1>3. ASSUME NEW f
      PROVE  Grown(js_function_get_prototype(objs, f).heap)
  <2> DEFINE o == [Object("object", ObjectProto) EXCEPT !.props = << Normal(Str("constructor"), f) >>]
             p == Normal(Str("prototype"), Obj(Len(objs) + 1))
  <2>1. PICK heap : heap = Append(objs, o)
    OBVIOUS
  <2>2. Grown(heap)
    BY <1>1, <2>1, HeapGrows
  <2>3. Grown(JS_DefineProperty(heap, f.n, p))
    BY <1>2, <2>2
  <2>4. js_function_get_prototype(objs, f).heap \in {objs, JS_DefineProperty(heap, f.n, p)}
    BY <2>1 DEF js_function_get_prototype
  <2> QED
    BY <1>1, <2>3, <2>4
<1>4. ASSUME NEW f
      PROVE  Grown(GetPrototype(objs, f).heap)
  BY <1>1, <1>3 DEF GetPrototype
<1>5. ASSUME NEW this, NEW key, NEW v
      PROVE  Grown(JS_SetPropertyInternal(objs, this, key, v).heap)
  <2>1. PICK h : h = JS_SetPropertyInternal(objs, this, key, v).heap
    OBVIOUS
  <2>2. \/ h = objs
        \/ \E i, o : h = [objs EXCEPT ![i] = o]
        \/ \E id, p : h = JS_DefineProperty(objs, id, p)
    BY <2>1 DEF JS_SetPropertyInternal, Stored
  <2>3. \A i, o : Grown([objs EXCEPT ![i] = o])
    BY <1>1, HeapGrows
  <2>4. \A id, p : Grown(JS_DefineProperty(objs, id, p))
    BY <1>1, <1>2
  <2>5. Grown(h)
    <3>1. CASE h = objs
      BY <1>1, <3>1
    <3>2. CASE \E i, o : h = [objs EXCEPT ![i] = o]
      <4>1. PICK i, o : h = [objs EXCEPT ![i] = o]
        BY <3>2
      <4> QED
        BY <2>3, <4>1
    <3>3. CASE \E id, p : h = JS_DefineProperty(objs, id, p)
      BY <2>4, <3>3
    <3> QED
      BY <2>2, <3>1, <3>2, <3>3
  <2> QED
    BY <2>1, <2>5
<1> QED
  BY <1>1, <1>2, <1>3, <1>4, <1>5

(* Properties of literals, and instanceof, which calls nothing. *)
LEMMA Defines ==
    ASSUME IInv, DefineField \/ InstanceOf
    PROVE  Computes
<1>1. Running
  BY Fetched DEF DefineField, InstanceOf
<1>2. CASE \E v : Throw(v)
  BY <1>1, <1>2, Simple
<1>3. CASE ~\E v : Throw(v)
  <2>1. (\E st : frames' = To(st)) /\ cells' = cells /\ Going
    BY <1>3, Zenon DEF DefineField, InstanceOf, Quiet, Going
  <2>2. Grown(objs')
    <3>1. \/ \E id, p : objs' = JS_DefineProperty(objs, id, p)
          \/ \E f : objs' = GetPrototype(objs, f).heap
      BY <1>3, Zenon DEF DefineField, InstanceOf
    <3> QED
      BY <1>1, <3>1, Heaps
  <2> QED
    BY <1>1, <2>1, <2>2, Simple
<1> QED
  BY <1>2, <1>3

(* A call of a closure makes a frame, one of a C function does not. *)
LEMMA Called ==
    ASSUME IInv, Running,
           NEW func, NEW this, NEW args, NEW st, NEW flags, Call(func, this, args, st, flags)
    PROVE  Computes \/ Calls
<1>1. PICK t : t = Target(func, this, args)
  OBVIOUS
<1>2. \/ Throw(Error("TypeError")) \/ LoseFlags
      \/ CFunctionCall(t, st, flags)
      \/ ClosureCall(t, st, flags)
  BY <1>1 DEF Call
<1>3. CASE Throw(Error("TypeError"))
  BY <1>3, Simple
<1>4. CASE CFunctionCall(t, st, flags)
  <2>1. CASE Throw(Error("TypeError"))
    BY <1>3, <2>1
  <2>2. CASE ~Throw(Error("TypeError"))
    <3>1. (\E s : frames' = To(s)) /\ cells' = cells /\ Going
      BY <1>4, <2>2 DEF CFunctionCall, Going
    <3>2. \/ objs' = objs
          \/ \E id, p : objs' = JS_DefineProperty(objs, id, p)
          \/ \E f : objs' = js_function_get_prototype(objs, f).heap
      BY <1>4, <2>2 DEF CFunctionCall
    <3>3. Grown(objs')
      BY <3>2, Heaps, Fetched
    <3> QED
      BY <3>1, <3>3, Simple
  <2> QED
    BY <2>1, <2>2
<1>5. CASE ClosureCall(t, st, flags)
  <2>1. cells' = cells /\ Going
    BY <1>5 DEF ClosureCall, Quiet, Going
  <2>2. Grown(objs')
    <3>1. \/ objs' = objs
          \/ \E o : objs' = Append(GetPrototype(objs, t.func).heap, o)
      BY <1>5 DEF ClosureCall
    <3>2. PICK heap : heap = GetPrototype(objs, t.func).heap
      OBVIOUS
    <3>3. \A o : Grown(Append(heap, o))
      BY <3>2, Heaps, Fetched, HeapGrows
    <3> QED
      BY <3>1, <3>2, <3>3, Fetched
  <2>3. \E fs, f : SameFrames(fs) /\ IsFrame(f) /\ f.refs = {} /\ frames' = Append(fs, f)
    <3>1. PICK fs : fs = To(st)
      OBVIOUS
    <3>2. PICK c, id, this_, as : frames' = Append(fs, Frame(c, id, t.func, this_, as, flags))
      BY <1>5, <3>1 DEF ClosureCall
    <3>3. PICK f : f = Frame(c, id, t.func, this_, as, flags)
      OBVIOUS
    <3>4. IsFrame(f) /\ f.refs = {}
      BY <3>3 DEF Frame, IsFrame
    <3> QED
      BY <3>1, <3>2, <3>3, <3>4, Fetched, Framed
  <2> QED
    BY <2>1, <2>2, <2>3, Fetched DEF Calls
<1>6. CASE LoseFlags
  BY <1>6, Fetched, Frameless DEF LoseFlags, Going
<1> QED
  BY <1>2, <1>3, <1>4, <1>5, <1>6

(* Reading or writing a property may call an accessor. *)
LEMMA CallsOrNot ==
    ASSUME IInv, CallOp \/ GetField \/ GetLength \/ GetArrayEl \/ PutField \/ PutArrayEl
    PROVE  Computes \/ Calls
<1>1. Running
  BY Fetched DEF CallOp, GetField, GetLength, GetArrayEl, PutField, PutArrayEl
<1>2. ASSUME NEW v, NEW key, NEW st, NEW flags, Read(v, key, st, flags)
      PROVE  Computes \/ Calls
  <2>1. PICK r : r = JS_GetPropertyInternal(objs, v, key)
    OBVIOUS
  <2>2. Throw(r.v) \/ Call(r.v, v, <<>>, st, flags) \/ Proceeds(Append(st, r.v))
    BY <1>2, <2>1, Proceeding DEF Read
  <2> QED
    BY <1>1, <2>2, Simple, Called
<1>3. ASSUME NEW v, NEW key, NEW w, NEW st, NEW flags, Write(v, key, w, st, flags)
      PROVE  Computes \/ Calls
  <2>1. PICK r : r = JS_SetPropertyInternal(objs, v, key, w)
    OBVIOUS
  <2>2. \/ Throw(r.v)
        \/ Call(r.v, v, <<w>>, st, flags)
        \/ objs' = r.heap /\ frames' = To(st) /\ cells' = cells /\ Going
    BY <1>3, <2>1 DEF Write, Store, Quiet, Going
  <2>3. Grown(r.heap)
    BY <1>1, <2>1, Heaps
  <2> QED
    BY <1>1, <2>2, <2>3, Simple, Called
<1>4. CASE CallOp
  <2>1. \E func, this, args, st, flags : Call(func, this, args, st, flags)
    BY <1>4 DEF CallOp
  <2> QED
    BY <1>1, <2>1, Called
<1>5. CASE GetField
  BY <1>2, <1>5 DEF GetField
<1>6. CASE GetLength
  BY <1>1, <1>2, <1>6, Proceeding, Simple DEF GetLength
<1>7. CASE GetArrayEl
  BY <1>2, <1>7 DEF GetArrayEl
<1>8. CASE PutField
  BY <1>3, <1>8 DEF PutField
<1>9. CASE PutArrayEl
  BY <1>3, <1>9 DEF PutArrayEl
<1> QED
  BY <1>4, <1>5, <1>6, <1>7, <1>8, <1>9

(* An exception that a handler of the top frame gets is left in that frame. *)
LEMMA Caught ==
    ASSUME IInv, Unwind, Handlers # {}
    PROVE  Computes
<1>1. Running
  BY DEF Unwind, Handlers, Running
<1>2. PICK h : h = Max(Handlers)
  OBVIOUS
<1>3. /\ frames' = Jump(Append(SubSeq(Top.stack, 1, h - 1), exc), Top.stack[h].n)
      /\ cells' = cells /\ objs' = objs /\ Going
  BY <1>2 DEF Unwind, Quiet, Going
<1> QED
  BY <1>1, <1>3, Simple, Fetched

-----------------------------------------------------------------------------
(* New cells.  They lie where no cell lay; those of slots are the top frame's,
   at most one for each of its slots. *)
Keeps(c, d) ==
    /\ IsCell(d) /\ (d.attached <=> c.attached) /\ d.depth = c.depth
    /\ d.kind = c.kind /\ d.idx = c.idx
Adopts(r, refs, depth) ==
    /\ DOMAIN cells \subseteq DOMAIN r.cells
    /\ \A c \in DOMAIN cells : Keeps(cells[c], r.cells[c])
    /\ \A c \in DOMAIN r.cells \ DOMAIN cells :
           /\ IsCell(r.cells[c]) /\ c[1] = Len(objs) + 1
           /\ r.cells[c].attached => c \in r.refs /\ r.cells[c].depth = depth
    /\ refs \subseteq r.refs
    /\ \A c \in r.refs \ refs :
           /\ c \in DOMAIN r.cells \ DOMAIN cells /\ r.cells[c].attached
           /\ SlotName(r.cells[c]) = <<c[2], c[3]>> /\ c = <<Len(objs) + 1, c[2], c[3], "">>
           /\ \A q \in refs : SlotName(cells[q]) # <<c[2], c[3]>>
    /\ \A n \in DOMAIN r.globals : r.globals[n] \in DOMAIN r.cells

(* What js_closure makes of the cells: those there were, and new ones for slots
   of the frame that have none. *)
LEMMA Closes ==
    ASSUME Shapes, NEW refs, refs \subseteq DOMAIN cells, NEW depth, NEW fn, NEW outer
    PROVE  /\ Adopts(js_closure(fn, depth, refs, outer), refs, depth)
           /\ (\A e \in ToSet(fn.ext) : e.kind = "global") => js_closure(fn, depth, refs, outer).refs = refs
<1> DEFINE OfKind(kinds) == {e \in ToSet(fn.ext) : e.kind \in kinds}
           slots == {get_var_ref(refs, e) : e \in OfKind({"arg", "loc"})}
           names == {e.name : e \in OfKind({"global"})}
           defined == {add_global_var(e.name) : e \in {g \in OfKind({"global"}) : g.idx = 1}}
           Defined(c) == IF c.val = Uninitialized THEN [c EXCEPT !.val = Undefined] ELSE c
           Cell(r) == IF r \in DOMAIN cells THEN cells[r]
                      ELSE IF r \in slots THEN Attached(depth, r[2], r[3]) ELSE Detached(Uninitialized)
<1>1. PICK r : r = js_closure(fn, depth, refs, outer)
  OBVIOUS
<1>2. /\ r.refs = refs \cup slots
      /\ r.globals = [n \in DOMAIN globals \cup names |-> add_global_var(n)]
      /\ r.cells = [c \in DOMAIN cells \cup slots \cup {add_global_var(n) : n \in names} |->
                        IF c \in defined THEN Defined(Cell(c)) ELSE Cell(c)]
  BY <1>1, Zenon DEF js_closure
<1>3. PICK new \in Nat : new = Len(objs) + 1 /\ \A c \in DOMAIN cells : c[1] # new
  BY Sequence DEF Shapes
<1>4. ASSUME NEW c \in slots
      PROVE  \/ c \in refs
             \/ /\ c[1] = new /\ c = <<new, c[2], c[3], "">>
                /\ c \notin DOMAIN cells /\ c[2] # "global"
                /\ \A q \in refs : SlotName(cells[q]) # <<c[2], c[3]>>
  <2>1. PICK e \in OfKind({"arg", "loc"}) : c = get_var_ref(refs, e)
    OBVIOUS
  <2> DEFINE have == {q \in refs : SlotName(cells[q]) = <<e.kind, e.idx>>}
  <2>2. CASE have # {}
    BY <2>1, <2>2 DEF get_var_ref
  <2>3. CASE have = {}
    <3>1. c = <<new, e.kind, e.idx, "">>
      BY <1>3, <2>1, <2>3 DEF get_var_ref, Address
    <3> QED
      BY <1>3, <2>3, <3>1
  <2> QED
    BY <2>2, <2>3
<1>5. ASSUME NEW n
      PROVE  \/ add_global_var(n) \in DOMAIN cells
             \/ add_global_var(n)[1] = new /\ add_global_var(n)[2] = "global"
  BY <1>3 DEF add_global_var, Address, Shapes
<1> HIDE DEF slots, names, defined
<1>6. \A c : IsCell(c) => Keeps(c, Defined(c))
  BY DEF Keeps, IsCell
<1>7. ASSUME NEW c \in DOMAIN r.cells
      PROVE  /\ c \in DOMAIN cells => Keeps(cells[c], r.cells[c])
             /\ c \in slots \ DOMAIN cells => Keeps(Attached(depth, c[2], c[3]), r.cells[c])
             /\ c \notin slots \cup DOMAIN cells => Keeps(Detached(Uninitialized), r.cells[c])
  <2>1. PICK k : k = Cell(c)
    OBVIOUS
  <2>2. IsCell(k)
    BY <2>1, Zenon DEF Shapes, IsCell, Attached, Detached
  <2>3. Keeps(k, r.cells[c])
    <3>1. r.cells[c] = IF c \in defined THEN Defined(k) ELSE k
      BY <1>2, <1>7, <2>1, Zenon
    <3>2. Keeps(k, k) /\ Keeps(k, Defined(k))
      BY <1>6, <2>2 DEF Keeps
    <3> QED
      BY <3>1, <3>2, Zenon
  <2> QED
    BY <2>1, <2>3
<1> HIDE DEF Cell, Defined
<1>8. DOMAIN r.cells = DOMAIN cells \cup slots \cup {add_global_var(n) : n \in names}
  BY <1>2
<1>9. ASSUME NEW c \in DOMAIN r.cells \ DOMAIN cells
      PROVE  /\ IsCell(r.cells[c]) /\ c[1] = new
             /\ r.cells[c].attached => c \in r.refs /\ r.cells[c].depth = depth
  <2>1. CASE c \in slots
    BY <1>2, <1>4, <1>7, <2>1 DEF Keeps, Attached
  <2>2. CASE c \notin slots
    <3>1. PICK n : c = add_global_var(n)
      BY <1>8, <2>2
    <3>2. c[1] = new
      BY <1>5, <3>1
    <3>3. PICK d : d = r.cells[c]
      OBVIOUS
    <3>4. Keeps(Detached(Uninitialized), d)
      BY <1>7, <2>2, <3>3
    <3>5. IsCell(d) /\ ~d.attached
      BY <3>4 DEF Keeps, Detached
    <3> QED
      BY <3>2, <3>3, <3>5
  <2> QED
    BY <2>1, <2>2
<1>10. ASSUME NEW c \in r.refs \ refs
       PROVE  /\ c \in DOMAIN r.cells \ DOMAIN cells /\ r.cells[c].attached
              /\ SlotName(r.cells[c]) = <<c[2], c[3]>> /\ c = <<new, c[2], c[3], "">>
              /\ \A q \in refs : SlotName(cells[q]) # <<c[2], c[3]>>
  BY <1>2, <1>4, <1>7, <1>8 DEF Keeps, Attached, SlotName
<1>11. \A n \in DOMAIN r.globals : r.globals[n] \in DOMAIN r.cells
  BY <1>2, <1>8 DEF Shapes, add_global_var
<1>12. Adopts(r, refs, depth)
  BY <1>2, <1>3, <1>7, <1>8, <1>9, <1>10, <1>11 DEF Adopts
<1>13. ASSUME \A e \in ToSet(fn.ext) : e.kind = "global"
       PROVE  r.refs = refs
  <2>1. slots = {}
    BY <1>13 DEF slots
  <2> QED
    BY <1>2, <2>1
<1> QED
  BY <1>1, <1>12, <1>13

(* The new cells are named for the new object, so no other has their address. *)
LEMMA FClosureKeeps == ASSUME IInv, FClosure PROVE IInv'
<1>1. Running /\ Shapes /\ frames # <<>>
  BY Fetched DEF FClosure
<1>2. PICK a, n, fs : /\ \E fn, outer : a = js_closure(fn, n, Top.refs, outer)
                      /\ n = Depth /\ \E st : fs = To(st)
                      /\ frames' = [fs EXCEPT ![n].refs = a.refs]
                      /\ cells' = a.cells /\ globals' = a.globals /\ \E o : objs' = Append(objs, o)
                      /\ UNCHANGED <<prog, code, exc, uncatchable, status>>
  BY Zenon DEF FClosure
<1>3. n = Len(frames) /\ n \in Nat \ {0} /\ DOMAIN frames = 1 .. n /\ Top = frames[n]
  BY <1>1, <1>2, Sequence DEF Shapes, Depth, Top
<1>4. Top.refs \subseteq DOMAIN cells
  BY <1>3 DEF IInv, CapturedOnce
<1>5. Adopts(a, Top.refs, n)
  BY <1>1, <1>2, <1>4, Closes
<1>6. PICK cs, as, top : cs = a.cells /\ as = a.refs /\ top = Top.refs
  OBVIOUS
<1>7. PICK new \in Nat \ {0} : new = Len(objs) + 1
  BY <1>1, Sequence DEF Shapes
<1>8. cells' = cs
  BY <1>2, <1>6
<1>9. /\ DOMAIN cells \subseteq DOMAIN cs
      /\ \A c \in DOMAIN cells :
             /\ IsCell(cs[c]) /\ (cs[c].attached <=> cells[c].attached) /\ cs[c].depth = cells[c].depth
             /\ SlotName(cs[c]) = SlotName(cells[c])
      /\ \A c \in DOMAIN cs \ DOMAIN cells :
             IsCell(cs[c]) /\ c[1] = new /\ (cs[c].attached => c \in as /\ cs[c].depth = n)
      /\ top \subseteq as
      /\ \A m \in DOMAIN globals' : globals'[m] \in DOMAIN cs
  BY <1>2, <1>5, <1>6, <1>7 DEF Adopts, Keeps, SlotName
<1>10. ASSUME NEW c \in as \ top
      PROVE  /\ c \in DOMAIN cs \ DOMAIN cells /\ cs[c].attached /\ cs[c].depth = n
             /\ SlotName(cs[c]) = <<c[2], c[3]>> /\ c = <<new, c[2], c[3], "">>
             /\ \A q \in top : SlotName(cells[q]) # <<c[2], c[3]>>
  <2>1. /\ c \in DOMAIN cs \ DOMAIN cells /\ cs[c].attached
        /\ SlotName(cs[c]) = <<c[2], c[3]>> /\ c = <<new, c[2], c[3], "">>
        /\ \A q \in top : SlotName(cells[q]) # <<c[2], c[3]>>
    BY <1>5, <1>6, <1>7 DEF Adopts
  <2> QED
    BY <1>9, <2>1
<1>11. /\ IsSeq(fs) /\ Len(fs) = n
       /\ \A d \in 1 .. n : IsFrame(fs[d]) /\ fs[d].refs = frames[d].refs
  BY <1>1, <1>2, <1>3, Framed DEF SameFrames
<1>12. /\ IsSeq(frames') /\ DOMAIN frames' = 1 .. n
       /\ \A d \in 1 .. n : IsFrame(frames'[d]) /\ frames'[d].refs = IF d = n THEN as ELSE frames[d].refs
  <2>1. PICK f : f = [fs[n] EXCEPT !.refs = as]
    OBVIOUS
  <2>2. IsFrame(f) /\ f.refs = as
    BY <1>3, <1>11, <2>1 DEF IsFrame
  <2>3. PICK t : t = [fs EXCEPT ![n] = f]
    OBVIOUS
  <2>4. frames' = t
    BY <1>2, <1>6, <2>1, <2>3
  <2>5. UpdateOf(t, fs, n, f)
    BY <1>11, <2>3, Updated
  <2>6. /\ IsSeq(t) /\ Len(t) = n
        /\ \A k \in 1 .. n : t[k] = IF k = n THEN f ELSE fs[k]
    BY <1>11, <2>5 DEF UpdateOf
  <2> QED
    BY <1>11, <2>2, <2>4, <2>6, Sequence
<1>13. IsSeq(objs') /\ Len(objs) \in Nat /\ Len(objs') = new
  <2>1. PICK o : objs' = Append(objs, o)
    BY <1>2
  <2>2. PICK s, t : s = objs /\ t = objs'
    OBVIOUS
  <2>3. IsSeq(s)
    BY <1>1, <2>2 DEF Shapes
  <2>4. ExtensionOf(t, s, o)
    BY <2>1, <2>2, <2>3, Extended
  <2> QED
    BY <1>7, <2>2, <2>3, <2>4, Sequence DEF ExtensionOf
<1>14. Shapes'
  <2>1. ASSUME NEW r \in DOMAIN cs
        PROVE  IsCell(cs[r]) /\ r[1] \in 1 .. new
    <3>1. CASE r \in DOMAIN cells
      BY <1>1, <1>7, <1>9, <1>13, <3>1 DEF Shapes
    <3>2. CASE r \notin DOMAIN cells
      <4>1. IsCell(cs[r]) /\ r[1] = new
        BY <1>9, <3>2
      <4> QED
        BY <1>7, <4>1
    <3> QED
      BY <3>1, <3>2
  <2> QED
    BY <1>9, <1>12, <1>13, <1>8, <2>1 DEF Shapes, IsSeq, IsFrame, IsCell
<1>15. Phases'
  <2>1. frames' # <<>>
    BY <1>3, <1>12, Sequence
  <2> QED
    BY <1>1, <1>2, <2>1 DEF IInv, Phases, Running
<1>16. /\ \A c \in DOMAIN cells : cells[c].attached =>
              cells[c].depth \in 1 .. n /\ c \in frames[cells[c].depth].refs
       /\ \A d \in 1 .. n : \A c \in frames[d].refs :
              /\ c \in DOMAIN cells /\ cells[c].attached /\ cells[c].depth = d
              /\ \A q \in frames[d].refs : SlotName(cells[q]) = SlotName(cells[c]) => q = c
       /\ frames[n].refs = top
  BY <1>3, <1>6 DEF IInv, CapturedOnce
<1>17. CapturedOnce'
  <2>1. ASSUME NEW r \in DOMAIN cs, cs[r].attached
        PROVE  cs[r].depth \in 1 .. n /\ r \in frames'[cs[r].depth].refs
    <3>1. CASE r \in DOMAIN cells
      <4>1. cells[r].attached /\ cs[r].depth = cells[r].depth
        BY <1>9, <2>1, <3>1
      <4>2. PICK d \in 1 .. n : d = cells[r].depth /\ r \in frames[d].refs
        BY <1>16, <3>1, <4>1
      <4>3. r \in frames'[d].refs
        BY <1>9, <1>12, <1>16, <4>2
      <4> QED
        BY <4>1, <4>2, <4>3
    <3>2. CASE r \notin DOMAIN cells
      <4>1. r \in as /\ cs[r].depth = n
        BY <1>9, <2>1, <3>2
      <4>2. n \in 1 .. n /\ r \in frames'[n].refs
        <5>1. n \in 1 .. n
          BY <1>3
        <5>2. frames'[n].refs = as
          BY <1>12, <5>1
        <5> QED
          BY <4>1, <5>1, <5>2
      <4> QED
        BY <4>1, <4>2, Zenon
    <3> QED
      BY <3>1, <3>2
  <2>2. ASSUME NEW d \in 1 .. n, NEW r \in frames'[d].refs
        PROVE  r \in DOMAIN cs /\ cs[r].attached /\ cs[r].depth = d
    <3>1. CASE r \in frames[d].refs
      <4>1. r \in DOMAIN cells /\ cells[r].attached /\ cells[r].depth = d
        BY <1>16, <3>1
      <4> QED
        BY <1>9, <4>1
    <3>2. CASE r \notin frames[d].refs
      <4>1. d = n /\ r \in as \ top
        BY <1>12, <1>16, <2>2, <3>2
      <4> QED
        BY <1>10, <4>1
    <3> QED
      BY <3>1, <3>2
  <2>3. ASSUME NEW d \in 1 .. n, NEW r \in frames'[d].refs, NEW q \in frames'[d].refs,
               SlotName(cs[q]) = SlotName(cs[r])
        PROVE  q = r
    <3>1. \A c \in frames[d].refs : SlotName(cs[c]) = SlotName(cells[c])
      BY <1>9, <1>16
    <3>2. CASE r \in frames[d].refs /\ q \in frames[d].refs
      BY <1>16, <2>3, <3>1, <3>2
    <3>3. CASE r \notin frames[d].refs \/ q \notin frames[d].refs
      <4>1. d = n /\ r \in as /\ q \in as /\ frames[d].refs = top
        BY <1>12, <1>16, <3>3
      <4>2. ASSUME NEW b \in as, NEW c \in as \ top, SlotName(cs[b]) = SlotName(cs[c])
            PROVE  b = c
        <5>1. /\ SlotName(cs[c]) = <<c[2], c[3]>> /\ c = <<new, c[2], c[3], "">>
              /\ \A e \in top : SlotName(cells[e]) # <<c[2], c[3]>>
          BY <1>10
        <5>2. b \notin top
          BY <3>1, <4>1, <4>2, <5>1
        <5>3. SlotName(cs[b]) = <<b[2], b[3]>> /\ b = <<new, b[2], b[3], "">>
          BY <1>10, <5>2
        <5>4. b[2] = c[2] /\ b[3] = c[3]
          <6>1. <<b[2], b[3]>> = <<c[2], c[3]>>
            BY <4>2, <5>1, <5>3, Zenon
          <6> QED
            BY <6>1
        <5> QED
          BY <5>1, <5>3, <5>4, Zenon
      <4> QED
        BY <2>3, <3>3, <4>1, <4>2
    <3> QED
      BY <3>2, <3>3
  <2> QED
    BY <1>12, <1>8, <2>1, <2>2, <2>3 DEF CapturedOnce, SlotName
<1> QED
  BY <1>14, <1>15, <1>17 DEF IInv

(* The program that is evaluated captures globals only. *)
LEMMA RunKeeps == ASSUME IInv, JS_Run PROVE IInv'
<1>1. /\ frames = <<>> /\ ~uncatchable /\ Shapes /\ prog \in Programs
      /\ \A e \in ToSet(code[1].ext) : e.kind = "global"
  BY EvalCapturesGlobals DEF IInv, Phases, JS_Run
<1>2. PICK a, f : /\ a = js_closure(code[1], 0, {}, <<>>)
                  /\ \E o : objs' = Append(objs, o)
                  /\ cells' = a.cells /\ globals' = a.globals
                  /\ f = Frame(code[1], 1, Obj(Len(objs) + 1), Null, <<>>, {}) /\ frames' = <<f>>
                  /\ status' = "running" /\ UNCHANGED <<prog, code, uncatchable>>
  BY Zenon DEF JS_Run
<1>3. Adopts(a, {}, 0) /\ a.refs = {}
  BY <1>1, <1>2, Closes
<1>4. IsFrame(f) /\ f.refs = {}
  BY <1>2 DEF Frame, IsFrame
<1>5. IsSeq(frames') /\ DOMAIN frames' = {1} /\ frames'[1] = f /\ frames' # <<>>
  <2>1. PICK t : t = <<f>>
    OBVIOUS
  <2>2. t \in Seq({f}) /\ DOMAIN t = {1} /\ t[1] = f /\ t # <<>>
    BY <2>1
  <2>3. IsSeq(t)
    BY <2>2, IsSeqOf
  <2> QED
    BY <1>2, <2>1, <2>2, <2>3
<1>6. PICK new \in Nat \ {0} : new = Len(objs) + 1
  BY <1>1, Sequence DEF Shapes
<1>7. IsSeq(objs') /\ Len(objs') = new
  <2>1. PICK o : objs' = Append(objs, o)
    BY <1>2
  <2>2. PICK s, t : s = objs /\ t = objs'
    OBVIOUS
  <2>3. ExtensionOf(t, s, o)
    BY <1>1, <2>1, <2>2, Extended DEF Shapes
  <2> QED
    BY <1>6, <2>2, <2>3 DEF ExtensionOf
<1>8. \A r \in DOMAIN cells : ~cells[r].attached
  BY <1>1 DEF IInv, CapturedOnce
<1>9. ASSUME NEW r \in DOMAIN cells'
      PROVE  IsCell(cells'[r]) /\ r[1] \in 1 .. new /\ ~cells'[r].attached
  <2>1. CASE r \in DOMAIN cells
    <3>1. Keeps(cells[r], cells'[r])
      BY <1>2, <1>3, <2>1 DEF Adopts
    <3>2. r[1] \in 1 .. new
      BY <1>1, <1>6, <2>1, Sequence DEF Shapes
    <3> QED
      BY <1>8, <2>1, <3>1, <3>2 DEF Keeps
  <2>2. CASE r \notin DOMAIN cells
    <3>1. IsCell(cells'[r]) /\ r[1] = new /\ ~cells'[r].attached
      BY <1>2, <1>3, <1>6, <2>2 DEF Adopts
    <3> QED
      BY <1>6, <3>1
  <2> QED
    BY <2>1, <2>2
<1>10. \A m \in DOMAIN globals' : globals'[m] \in DOMAIN cells'
  BY <1>2, <1>3 DEF Adopts
<1>11. Shapes'
  BY <1>4, <1>5, <1>7, <1>9, <1>10 DEF Shapes, IsSeq, IsFrame, IsCell
<1>12. Phases'
  BY <1>1, <1>2, <1>5 DEF Phases
<1>13. CapturedOnce'
  BY <1>4, <1>5, <1>9 DEF CapturedOnce
<1> QED
  BY <1>11, <1>12, <1>13 DEF IInv

-----------------------------------------------------------------------------
(* A frame that goes takes no cell with it: the cells of its slots are
   detached, the others are those of the frames below. *)
LEMMA LeaveKeeps ==
    ASSUME IInv, Return \/ (Unwind /\ Handlers = {})
    PROVE  /\ IInv' /\ Len(frames') = Len(frames) - 1 /\ log' = log
           /\ uncatchable => status' = IF Len(frames) = 1 THEN "thrown" ELSE status
<1>1. /\ status = "running" /\ \E v : Leave(v)
      /\ uncatchable => exc # NoExc /\ exc' = IF Depth = 1 THEN NoExc ELSE exc
  <2>1. CASE Return
    BY <2>1 DEF Return, Fetch, IInv, Phases
  <2>2. CASE Unwind /\ Handlers = {}
    BY <2>2, Zenon DEF Unwind
  <2> QED
    BY <2>1, <2>2
<1>2. PICK v : Leave(v)
  BY <1>1
<1>3. PICK n \in Nat \ {0} : n = Len(frames) /\ DOMAIN frames = 1 .. n /\ Depth = n /\ Top = frames[n]
  <2>1. frames # <<>> /\ IsSeq(frames)
    BY <1>1 DEF IInv, Phases, Shapes
  <2> QED
    BY <2>1, Sequence DEF Depth, Top
<1>4. PICK fs : fs = Front(frames)
  OBVIOUS
<1>5. /\ IsSeq(fs) /\ Len(fs) = n - 1
      /\ \A d \in 1 .. n - 1 : fs[d] = frames[d]
  BY <1>3, <1>4, Shortened DEF IInv, Shapes
<1>6. \A d \in 1 .. n - 1 : IsFrame(fs[d]) /\ fs[d].refs = frames[d].refs
  BY <1>3, <1>5 DEF IInv, Shapes
<1>7. /\ IsSeq(frames') /\ Len(frames') = n - 1 /\ DOMAIN frames' = 1 .. n - 1
      /\ \A d \in 1 .. n - 1 : IsFrame(frames'[d]) /\ frames'[d].refs = frames[d].refs
  <2>1. CASE frames' = fs
    BY <1>5, <1>6, <2>1, Sequence
  <2>2. CASE frames' # fs
    <3>1. PICK l \in Nat : l = n - 1
      BY <1>3
    <3>2. PICK ret : frames' = IF exc # NoExc \/ Depth = 1 \/ POP_RET \in Top.flags THEN fs
                               ELSE [fs EXCEPT ![Depth - 1].stack = Append(@, ret)]
      BY <1>2, <1>4, Zenon DEF Leave
    <3>3. n > 1 /\ frames' = [fs EXCEPT ![l].stack = Append(@, ret)]
      BY <1>3, <2>2, <3>1, <3>2
    <3>4. PICK f : f = [fs[l] EXCEPT !.stack = Append(@, ret)]
      OBVIOUS
    <3>5. IsFrame(f) /\ f.refs = frames[l].refs
      BY <1>6, <3>1, <3>3, <3>4 DEF IsFrame
    <3>6. PICK t : t = [fs EXCEPT ![l] = f]
      OBVIOUS
    <3>7. frames' = t
      BY <3>3, <3>4, <3>6
    <3>8. UpdateOf(t, fs, l, f)
      BY <1>5, <3>6, Updated
    <3>9. /\ IsSeq(t) /\ Len(t) = l
          /\ \A d \in 1 .. l : t[d] = IF d = l THEN f ELSE fs[d]
      BY <1>5, <3>1, <3>8 DEF UpdateOf
    <3> QED
      BY <1>6, <3>1, <3>5, <3>7, <3>9, Sequence
  <2> QED
    BY <2>1, <2>2
<1>8. PICK cs, gone : cs = cells' /\ gone = Top.refs
  OBVIOUS
<1>9. /\ DOMAIN cs = DOMAIN cells
      /\ \A r \in DOMAIN cells : /\ r \in gone => ~cs[r].attached /\ IsCell(cs[r])
                                 /\ r \notin gone => cs[r] = cells[r]
  <2>1. cells' = [r \in DOMAIN cells |->
                     IF r \in Top.refs THEN Detached(SlotOf(Top, cells[r].kind, cells[r].idx)) ELSE cells[r]]
    BY <1>2, Zenon DEF Leave
  <2> QED
    BY <1>8, <2>1 DEF Detached, IsCell
<1>10. /\ objs' = objs /\ globals' = globals /\ UNCHANGED <<prog, code, uncatchable, log>>
      /\ status' = IF n > 1 THEN "running" ELSE IF exc = NoExc THEN "returned" ELSE "thrown"
  BY <1>2, <1>3 DEF Leave
<1>11. Shapes'
  <2>1. \A r \in DOMAIN cs : IsCell(cs[r]) /\ r[1] \in 1 .. Len(objs)
    BY <1>9 DEF IInv, Shapes
  <2> QED
    BY <1>7, <1>9, <1>10, <1>8, <2>1 DEF IInv, Shapes, IsSeq, IsFrame, IsCell
<1>12. Phases'
  <2>1. n > 1 => frames' # <<>>
    BY <1>7, Sequence
  <2>2. uncatchable => status' = "thrown" \/ (status' = "running" /\ exc' # NoExc)
    BY <1>1, <1>3, <1>10
  <2>3. status' \notin {"source", "parsed"} /\ (status' = "running" => n > 1)
    BY <1>10
  <2> QED
    BY <1>10, <2>1, <2>2, <2>3 DEF IInv, Phases
<1>13. /\ \A r \in DOMAIN cells : cells[r].attached =>
              cells[r].depth \in 1 .. n /\ r \in frames[cells[r].depth].refs
       /\ \A d \in 1 .. n : \A r \in frames[d].refs :
              /\ r \in DOMAIN cells /\ cells[r].attached /\ cells[r].depth = d
              /\ \A q \in frames[d].refs : SlotName(cells[q]) = SlotName(cells[r]) => q = r
       /\ frames[n].refs = gone
  BY <1>3, <1>8 DEF IInv, CapturedOnce
<1>14. CapturedOnce'
  <2>1. ASSUME NEW r \in DOMAIN cs, cs[r].attached
        PROVE  cs[r].depth \in 1 .. n - 1 /\ r \in frames'[cs[r].depth].refs
    <3>1. r \notin gone /\ cs[r] = cells[r]
      BY <1>9, <2>1
    <3>2. PICK d \in 1 .. n : d = cells[r].depth /\ r \in frames[d].refs
      BY <1>9, <1>13, <2>1, <3>1
    <3>3. d \in 1 .. n - 1
      BY <1>13, <3>1, <3>2
    <3>4. r \in frames'[d].refs
      BY <1>7, <3>2, <3>3
    <3> QED
      BY <3>1, <3>2, <3>3, <3>4
  <2>2. ASSUME NEW d \in 1 .. n - 1, NEW r \in frames[d].refs
        PROVE  r \in DOMAIN cs /\ cs[r] = cells[r]
    <3>1. r \in DOMAIN cells /\ cells[r].depth = d
      BY <1>13
    <3>2. r \notin gone
      BY <1>3, <1>13, <3>1
    <3> QED
      BY <1>9, <3>1, <3>2
  <2>3. \A d \in 1 .. n - 1 : \A r \in frames'[d].refs :
           /\ r \in DOMAIN cs /\ cs[r].attached /\ cs[r].depth = d
           /\ \A q \in frames'[d].refs : SlotName(cs[q]) = SlotName(cs[r]) => q = r
    BY <1>7, <1>13, <2>2
  <2> QED
    BY <1>7, <1>8, <2>1, <2>3 DEF CapturedOnce, SlotName
<1>15. uncatchable => status' = IF Len(frames) = 1 THEN "thrown" ELSE status
  BY <1>1, <1>3, <1>10
<1> QED
  BY <1>3, <1>7, <1>10, <1>11, <1>12, <1>14, <1>15 DEF IInv

-----------------------------------------------------------------------------
(* Every step is one of these. *)
LEMMA Kinds ==
    ASSUME IInv, Next
    PROVE  \/ Computes \/ Calls \/ FClosure \/ Return \/ (Unwind /\ Handlers = {})
           \/ JS_Run \/ JS_Parse \/ Interrupt \/ UNCHANGED vars
<1>1. \/ Push \/ PushConst \/ NewObject \/ ArrayFrom \/ Arguments \/ Shuffle \/ GetSlot \/ UnaryOp \/ PostOp \/ BinaryOp
      \/ TypeOf \/ ThrowOp \/ InOp \/ GetVarRef
      \/ Goto \/ Branch \/ Gosub \/ Ret
      \/ PutSlot \/ PutVarRef \/ SetProto \/ Delete \/ ForStart \/ ForNext
      \/ DefineField \/ InstanceOf
      \/ CallOp \/ GetField \/ GetLength \/ GetArrayEl \/ PutField \/ PutArrayEl
      \/ FClosure \/ Return \/ Unwind \/ JS_Run \/ JS_Parse \/ Interrupt \/ Terminated
  BY Zenon DEF Next
<1>2. Terminated => UNCHANGED vars
  BY DEF Terminated
<1> QED
  BY <1>1, <1>2, StackOnly, JumpsCompute, Writes, Defines, CallsOrNot, Caught

(* Nothing runs yet, and print is the only global. *)
LEMMA Initially == Init => IInv
<1> SUFFICES ASSUME Init PROVE IInv
  OBVIOUS
<1>1. frames = <<>> /\ IsSeq(frames) /\ DOMAIN frames = {}
  <2>1. PICK t : t = <<>>
    OBVIOUS
  <2>2. t \in Seq(Nat) /\ DOMAIN t = {}
    BY <2>1
  <2> QED
    BY <2>1, <2>2, IsSeqOf DEF Init
<1>2. IsSeq(objs) /\ Len(objs) = 7
  <2>1. PICK a, b, c, d, e, f, g : objs = <<a, b, c, d, e, f, g>>
    BY DEF Init, StandardObjects
  <2>2. PICK t : t = <<a, b, c, d, e, f, g>>
    OBVIOUS
  <2>3. t \in Seq({a, b, c, d, e, f, g}) /\ Len(t) = 7
    BY <2>2
  <2> QED
    BY <2>1, <2>2, <2>3, IsSeqOf
<1>3. /\ DOMAIN cells = {PrintCell} /\ cells[PrintCell] = Detached(Obj(7))
      /\ globals = [print |-> PrintCell]
  BY Zenon DEF Init
<1>4. PICK c : c = cells[PrintCell]
  OBVIOUS
<1>5. IsCell(c) /\ ~c.attached
  <2>1. PICK v : v = Obj(7)
    OBVIOUS
  <2>2. c = Detached(v)
    BY <1>3, <1>4, <2>1
  <2> QED
    BY <2>2 DEF IsCell, Detached
<1>6. PrintCell[1] = 7
  BY DEF PrintCell
<1>7. Shapes
  BY <1>1, <1>2, <1>3, <1>4, <1>5, <1>6 DEF Shapes
<1>8. Phases
  BY <1>1 DEF Init, Phases
<1>9. CapturedOnce
  BY <1>1, <1>3, <1>4, <1>5 DEF CapturedOnce
<1> QED
  BY <1>7, <1>8, <1>9 DEF IInv

(* The invariant is inductive. *)
LEMMA StepKeeps == IInv /\ [Next]_vars => IInv'
<1> SUFFICES ASSUME IInv, [Next]_vars PROVE IInv'
  OBVIOUS
<1>1. ASSUME UNCHANGED <<prog, frames, objs, cells, globals>>, Phases'
      PROVE  IInv'
  BY <1>1 DEF IInv, Shapes, IsSeq, IsFrame, IsCell, CapturedOnce, SlotName
<1>2. CASE UNCHANGED vars
  BY <1>1, <1>2 DEF vars, IInv, Phases
<1>3. CASE JS_Parse
  BY <1>1, <1>3 DEF JS_Parse, IInv, Phases
<1>4. CASE Interrupt
  <2>1. exc' # NoExc
    BY <1>4 DEF Interrupt, NoExc, Error, Value
  <2> QED
    BY <1>1, <1>4, <2>1 DEF Interrupt, Fetch, IInv, Phases
<1> QED
  BY <1>2, <1>3, <1>4, Kinds, ComputesKeeps, CallsKeeps, FClosureKeeps, RunKeeps, LeaveKeeps

(* Whatever closures a program makes and whichever frames come and go, a
   variable of a frame has one cell and no cell refers to a frame that is gone
   (get_var_ref, and the detachment when JS_Call returns or unwinds). *)
THEOREM VariablesAreShared == Spec => []CapturedOnce
<1>1. IInv => CapturedOnce
  BY DEF IInv
<1> QED
  BY <1>1, Initially, StepKeeps, PTL DEF Spec

(* After the interrupt that __js_poll_interrupt turns into an exception nobody
   catches (current_exception_is_uncatchable) each step takes one frame away
   and the last of them throws: no handler and no finally block runs, and
   nothing is printed. *)
THEOREM NothingCatches == Spec => InterruptUnwinds
<1> DEFINE Unwinds == uncatchable => /\ Len(frames') = Len(frames) - 1
                                     /\ log' = log
                                     /\ status' = (IF Len(frames) = 1 THEN "thrown" ELSE status)
<1>1. IInv /\ [Next]_vars => [Unwinds]_vars
  <2> SUFFICES ASSUME IInv, Next, uncatchable PROVE Unwinds \/ UNCHANGED vars
    OBVIOUS
  <2>1. ~Computes /\ ~Calls
    BY DEF Computes, Calls, Running
  <2>2. ~FClosure /\ ~Return /\ ~Interrupt
    BY DEF FClosure, Return, Interrupt, Fetch, IInv, Phases
  <2>3. ~JS_Run /\ ~JS_Parse
    BY DEF JS_Run, JS_Parse, IInv, Phases
  <2> QED
    BY <2>1, <2>2, <2>3, Kinds, LeaveKeeps
<1> QED
  BY <1>1, Initially, StepKeeps, PTL DEF Spec, InterruptUnwinds
(* Sequences cut, put together and made of a function. *)
PartOf(t, s, a, b) == IsSeq(t) /\ Len(t) = b - a + 1 /\ \A i \in 1 .. Len(t) : t[i] = s[a + i - 1]
LEMMA SliceOf ==
    ASSUME NEW s, IsSeq(s), NEW a \in 1 .. Len(s) + 1, NEW b \in a - 1 .. Len(s), NEW t, t = SubSeq(s, a, b)
    PROVE  PartOf(t, s, a, b)
<1> DEFINE Elems == {s[k] : k \in DOMAIN s}
<1>1. s \in Seq(Elems)
  BY DEF IsSeq
<1> HIDE DEF Elems
<1>2. Len(s) \in Nat
  BY <1>1
<1>3. t \in Seq(Elems) /\ Len(t) = b - a + 1 /\ \A i \in 1 .. Len(t) : t[i] = s[a + i - 1]
  BY <1>1, <1>2, SubSeqProperties
<1> QED
  BY <1>3, IsSeqOf DEF PartOf

LEMMA CutOf ==
    ASSUME NEW s, IsSeq(s), NEW n \in 0 .. Len(s), NEW t, t = SubSeq(s, 1, n)
    PROVE  IsSeq(t) /\ Len(t) = n /\ \A i \in 1 .. n : t[i] = s[i]
<1> DEFINE Elems == {s[k] : k \in DOMAIN s}
<1>1. s \in Seq(Elems)
  BY DEF IsSeq
<1> HIDE DEF Elems
<1>2. Len(s) \in Nat
  BY <1>1
<1>3. t \in Seq(Elems) /\ Len(t) = n /\ \A i \in 1 .. n : t[i] = s[i]
  BY <1>1, <1>2
<1> QED
  BY <1>3, IsSeqOf

LEMMA LessOf ==
    ASSUME NEW s, IsSeq(s), NEW n \in 0 .. Len(s), NEW t, t = Less(s, n)
    PROVE  IsSeq(t) /\ Len(t) = Len(s) - n /\ \A i \in 1 .. Len(s) - n : t[i] = s[i]
<1>1. Len(s) \in Nat
  BY Sequence
<1>2. Len(s) - n \in 0 .. Len(s)
  BY <1>1
<1> QED
  BY <1>2, CutOf DEF Less

JoinOf(u, s, t) ==
    /\ IsSeq(u) /\ Len(u) = Len(s) + Len(t)
    /\ \A i \in 1 .. Len(s) : u[i] = s[i]
    /\ \A i \in 1 .. Len(t) : u[Len(s) + i] = t[i]
LEMMA ConcatOf ==
    ASSUME NEW s, IsSeq(s), NEW t, IsSeq(t), NEW u, u = s \o t
    PROVE  JoinOf(u, s, t)
<1> DEFINE Elems == {s[k] : k \in DOMAIN s} \cup {t[k] : k \in DOMAIN t}
<1>1. s \in Seq(Elems) /\ t \in Seq(Elems)
  <2>1. (\A k \in 1 .. Len(s) : s[k] \in Elems) /\ \A k \in 1 .. Len(t) : t[k] \in Elems
    BY Sequence
  <2> HIDE DEF Elems
  <2> QED
    BY <2>1 DEF IsSeq
<1> HIDE DEF Elems
<1>2. u \in Seq(Elems) /\ Len(u) = Len(s) + Len(t)
  BY <1>1, ConcatProperties
<1>3. \A i \in 1 .. Len(s) + Len(t) : u[i] = IF i <= Len(s) THEN s[i] ELSE t[i - Len(s)]
  BY <1>1, ConcatProperties
<1>4. Len(s) \in Nat /\ Len(t) \in Nat
  BY <1>1
<1>5. ASSUME NEW i \in 1 .. Len(t)
      PROVE  u[Len(s) + i] = t[i]
  <2>1. Len(s) + i \in 1 .. Len(s) + Len(t) /\ ~(Len(s) + i <= Len(s)) /\ Len(s) + i - Len(s) = i
    BY <1>4
  <2>2. u[Len(s) + i] = t[Len(s) + i - Len(s)]
    BY <1>3, <2>1
  <2> QED
    BY <2>1, <2>2, Zenon
<1>6. \A i \in 1 .. Len(s) : u[i] = s[i]
  BY <1>3, <1>4
<1>7. IsSeq(u)
  BY <1>2, IsSeqOf
<1> QED
  BY <1>2, <1>5, <1>6, <1>7, Zenon DEF JoinOf

LEMMA FunctionOf ==
    ASSUME NEW n \in Nat, NEW t, t = [i \in 1 .. n |-> t[i]]
    PROVE  IsSeq(t) /\ Len(t) = n
<1> DEFINE Elems == {t[k] : k \in 1 .. n}
<1>1. t \in [1 .. n -> Elems]
  BY Zenon
<1> HIDE DEF Elems
<1>2. t \in Seq(Elems)
  BY <1>1, SeqDef, Zenon
<1>3. Len(t) = n
  BY <1>1, <1>2, LenProperties
<1> QED
  BY <1>2, <1>3, IsSeqOf

LEMMA EmptyTuple == ASSUME NEW t, t = <<>> PROVE IsSeq(t) /\ Len(t) = 0
<1>1. t \in Seq(Nat) /\ Len(t) = 0
  OBVIOUS
<1> QED
  BY <1>1, IsSeqOf

LEMMA SingleTuple == ASSUME NEW a, NEW t, t = <<a>> PROVE IsSeq(t) /\ Len(t) = 1 /\ t[1] = a
<1>1. t \in Seq({a}) /\ Len(t) = 1 /\ t[1] = a
  OBVIOUS
<1> QED
  BY <1>1, IsSeqOf

LEMMA PairTuple ==
    ASSUME NEW a, NEW b, NEW t, t = <<a, b>>
    PROVE  IsSeq(t) /\ Len(t) = 2 /\ t[1] = a /\ t[2] = b
<1>1. t \in Seq({a, b}) /\ Len(t) = 2 /\ t[1] = a /\ t[2] = b
  OBVIOUS
<1> QED
  BY <1>1, IsSeqOf

-----------------------------------------------------------------------------
(* What is where.  A value outside of the operand stacks is no catch offset and
   an object it names is there. *)
ValueOK(heap, v) ==
    /\ v.t # "catch"
    /\ v.t = "obj" => v.n \in 1 .. Len(heap)
    /\ v.t = "null" => v.n = 0
ValuesOK(heap, s) == IsSeq(s) /\ \A i \in 1 .. Len(s) : ValueOK(heap, s[i])
PropertiesOK(heap, s) == IsSeq(s) /\ \A i \in 1 .. Len(s) : ValueOK(heap, s[i].val) /\ ValueOK(heap, s[i].set)

ObjectFields == {"cls", "name", "proto", "props", "tab", "fn", "refs", "pos"}
ObjectOK(fns, heap, places, o) ==
    /\ DOMAIN o = ObjectFields
    /\ o.proto \in 0 .. Len(heap)
    /\ PropertiesOK(heap, o.props)
    /\ ValuesOK(heap, o.tab)
    /\ o.cls = "closure" => /\ o.fn \in DOMAIN fns /\ DOMAIN o.refs = DOMAIN fns[o.fn].ext
                            /\ \A i \in DOMAIN o.refs : o.refs[i] \in places
    /\ o.cls = "iterator" => o.refs[1] \in 1 .. Len(heap) /\ o.pos \in Nat
(* No object is on its own prototype chain. *)
Grounded(heap) == \A A \in SUBSET (1 .. Len(heap)) : A # {} => \E i \in A : heap[i].proto \notin A
HeapOK(fns, heap, places) ==
    /\ IsSeq(heap) /\ Len(heap) >= 7
    /\ \A i \in 1 .. Len(heap) : ObjectOK(fns, heap, places, heap[i])
    /\ Grounded(heap)
(* Objects stay, and stay what they are. *)
GrewTo(heap, heap2) ==
    /\ Len(heap) \in Nat /\ Len(heap2) \in Nat /\ Len(heap) <= Len(heap2)
    /\ \A i \in 1 .. Len(heap) : heap2[i].cls = heap[i].cls /\ heap2[i].fn = heap[i].fn

HeapStep(fns, heap, heap2, places) == HeapOK(fns, heap2, places) /\ GrewTo(heap, heap2)

LEMMA StaysOK ==
    ASSUME NEW heap, NEW heap2, GrewTo(heap, heap2)
    PROVE  /\ \A v : ValueOK(heap, v) => ValueOK(heap2, v)
           /\ \A s : ValuesOK(heap, s) => ValuesOK(heap2, s)
           /\ \A s : PropertiesOK(heap, s) => PropertiesOK(heap2, s)
<1>1. ASSUME NEW v, ValueOK(heap, v)
      PROVE  ValueOK(heap2, v)
  BY <1>1 DEF ValueOK, GrewTo
<1>2. ASSUME NEW s, ValuesOK(heap, s)
      PROVE  ValuesOK(heap2, s)
  BY <1>1, <1>2 DEF ValuesOK
<1>3. ASSUME NEW s, PropertiesOK(heap, s)
      PROVE  PropertiesOK(heap2, s)
  BY <1>1, <1>3 DEF PropertiesOK
<1> QED
  BY <1>1, <1>2, <1>3

LEMMA ObjectStaysOK ==
    ASSUME NEW fns, NEW heap, NEW heap2, GrewTo(heap, heap2), NEW places, NEW places2, places \subseteq places2,
           NEW o, ObjectOK(fns, heap, places, o)
    PROVE  ObjectOK(fns, heap2, places2, o)
<1>1. PropertiesOK(heap2, o.props) /\ ValuesOK(heap2, o.tab)
  BY StaysOK DEF ObjectOK
<1>2. \A i \in 0 .. Len(heap) : i \in 0 .. Len(heap2)
  BY DEF GrewTo
<1>3. \A i \in 1 .. Len(heap) : i \in 1 .. Len(heap2)
  BY DEF GrewTo
<1> QED
  BY <1>1, <1>2, <1>3, Zenon DEF ObjectOK

(* New cells change nothing in the heap. *)
LEMMA NewCells ==
    ASSUME NEW fns, NEW heap, NEW places, NEW places2, places \subseteq places2, HeapOK(fns, heap, places)
    PROVE  HeapOK(fns, heap, places2)
<1>1. GrewTo(heap, heap)
  BY Sequence DEF HeapOK, GrewTo
<1>2. \A i \in 1 .. Len(heap) : ObjectOK(fns, heap, places2, heap[i])
  BY <1>1, ObjectStaysOK DEF HeapOK
<1> QED
  BY <1>2 DEF HeapOK

(* A new object, and one that is written without changing what it is. *)
LEMMA NewObjectOK ==
    ASSUME NEW fns, NEW heap, NEW places, HeapOK(fns, heap, places), NEW o, NEW heap2, heap2 = Append(heap, o),
           GrewTo(heap, heap2) => ObjectOK(fns, heap2, places, o), o.proto # Len(heap) + 1
    PROVE  HeapStep(fns, heap, heap2, places)
<1>1. /\ IsSeq(heap2) /\ Len(heap2) = Len(heap) + 1 /\ heap2[Len(heap) + 1] = o
      /\ \A k \in 1 .. Len(heap) : heap2[k] = heap[k]
      /\ Len(heap) \in Nat /\ Len(heap2) \in Nat
  <2>1. IsSeq(heap)
    BY DEF HeapOK
  <2>2. ExtensionOf(heap2, heap, o)
    BY <2>1, Extended
  <2> QED
    BY <2>1, <2>2, Sequence DEF ExtensionOf
<1>2. GrewTo(heap, heap2)
  BY <1>1 DEF GrewTo
<1>3. \A i \in 1 .. Len(heap) : ObjectOK(fns, heap2, places, heap[i])
  BY <1>2, ObjectStaysOK DEF HeapOK
<1>4. \A i \in 1 .. Len(heap2) : ObjectOK(fns, heap2, places, heap2[i])
  BY <1>1, <1>2, <1>3
<1>5. ASSUME NEW A \in SUBSET (1 .. Len(heap2)), A # {}
      PROVE  \E i \in A : heap2[i].proto \notin A
  <2> DEFINE n == Len(heap) + 1
             B == A \ {n}
  <2>1. B \in SUBSET (1 .. Len(heap)) /\ \A i \in B : heap2[i] = heap[i] /\ heap[i].proto # n
    <3>1. ASSUME NEW i \in B
          PROVE  i \in 1 .. Len(heap) /\ heap2[i] = heap[i] /\ heap[i].proto # n
      <4>1. i \in 1 .. Len(heap)
        BY <1>1
      <4>2. heap[i].proto \in 0 .. Len(heap)
        BY <4>1 DEF HeapOK, ObjectOK
      <4> QED
        BY <1>1, <4>1, <4>2
    <3> QED
      BY <3>1
  <2>2. CASE B = {}
    BY <1>1, <1>5, <2>2
  <2>3. CASE B # {}
    <3>1. PICK i \in B : heap[i].proto \notin B
      BY <2>1, <2>3 DEF HeapOK, Grounded
    <3> QED
      BY <2>1, <3>1
  <2> QED
    BY <2>2, <2>3
<1>6. Grounded(heap2)
  BY <1>5 DEF Grounded
<1> QED
  BY <1>1, <1>2, <1>4, <1>6 DEF HeapOK, HeapStep

LEMMA WrittenOK ==
    ASSUME NEW fns, NEW heap, NEW places, HeapOK(fns, heap, places), NEW id \in 1 .. Len(heap), NEW o,
           NEW heap2, heap2 = [heap EXCEPT ![id] = o],
           o.cls = heap[id].cls, o.fn = heap[id].fn, o.proto = heap[id].proto,
           ObjectOK(fns, heap, places, o)
    PROVE  HeapStep(fns, heap, heap2, places)
<1>1. /\ IsSeq(heap2) /\ Len(heap2) = Len(heap) /\ Len(heap) \in Nat
      /\ \A k \in 1 .. Len(heap) : heap2[k] = IF k = id THEN o ELSE heap[k]
  <2>1. IsSeq(heap)
    BY DEF HeapOK
  <2>2. UpdateOf(heap2, heap, id, o)
    BY <2>1, Updated
  <2> QED
    BY <2>1, <2>2, Sequence DEF UpdateOf
<1>2. GrewTo(heap, heap2)
  BY <1>1 DEF GrewTo
<1>3. \A i \in 1 .. Len(heap) : ObjectOK(fns, heap, places, heap2[i])
  BY <1>1 DEF HeapOK
<1>4. \A i \in 1 .. Len(heap2) : ObjectOK(fns, heap2, places, heap2[i])
  BY <1>1, <1>2, <1>3, ObjectStaysOK
<1>5. \A i \in 1 .. Len(heap) : heap2[i].proto = heap[i].proto
  BY <1>1
<1>6. Grounded(heap2)
  BY <1>1, <1>5 DEF HeapOK, Grounded
<1> QED
  BY <1>1, <1>2, <1>4, <1>6 DEF HeapOK, HeapStep

-----------------------------------------------------------------------------
(* What lies at a place of a kind, and on a stack of a shape: a return address
   is that after a call of the finally block at the label.                    *)
Holds(fn, shape, heap, v, k) ==
    /\ k.k \in Plain => ValueOK(heap, v)
    /\ k.k = "object" => v.t = "obj"
    /\ k.k = "iterator" => v.t = "obj" /\ heap[v.n].cls = "iterator"
    /\ k.k = "catch" => v.t = "catch" /\ v.n = k.at
    /\ k.k = "ret" => v.t = "num" /\ \E q \in DOMAIN shape : IsGosub(fn.code[q], k.at) /\ v.n = q + 1
StackOK(fn, shape, heap, st, ks) ==
    IsSeq(st) /\ Len(st) <= Len(ks) /\ \A i \in 1 .. Len(st) : Holds(fn, shape, heap, st[i], ks[i])

FrameFields == {"fn", "func", "this", "argc", "flags", "pc", "args", "locs", "stack", "refs"}
FrameOK(fns, shapes, heap, f) ==
    /\ DOMAIN f = FrameFields
    /\ f.fn \in DOMAIN fns
    /\ f.func.t = "obj" /\ ValueOK(heap, f.func)
    /\ heap[f.func.n].cls = "closure" /\ heap[f.func.n].fn = f.fn
    /\ ValueOK(heap, f.this)
    /\ ValuesOK(heap, f.args) /\ fns[f.fn].nargs <= Len(f.args) /\ f.argc \in 0 .. Len(f.args)
    /\ ValuesOK(heap, f.locs) /\ Len(f.locs) = Locals(fns[f.fn])
    /\ f.pc \in DOMAIN shapes[f.fn]
    /\ StackOK(fns[f.fn], shapes[f.fn], heap, f.stack, shapes[f.fn][f.pc])
CellFields == {"attached", "depth", "kind", "idx", "val"}
CellOK(heap, fs, c) ==
    /\ DOMAIN c = CellFields
    /\ ValueOK(heap, c.val)
    /\ c.attached => /\ c.depth \in 1 .. Len(fs)
                     /\ \/ c.kind = "arg" /\ c.idx \in 1 .. Len(fs[c.depth].args)
                        \/ c.kind = "loc" /\ c.idx \in 1 .. Len(fs[c.depth].locs)
(* Nothing is missing on the running frame's stack unless an exception is on
   its way, and on a caller's nothing but the value of its call.              *)
DepthOK(shapes, fs, e, d) ==
    LET f == fs[d]
        ks == shapes[f.fn][f.pc]
    IN IF d = Len(fs) THEN e = NoExc => Len(f.stack) = Len(ks)
       ELSE IF POP_RET \in fs[d + 1].flags THEN Len(f.stack) = Len(ks)
       ELSE Len(f.stack) + 1 = Len(ks) /\ ks[Len(ks)] = AnyValue
Good(fns, shapes, heap, cs, fs, e) ==
    /\ HeapOK(fns, heap, DOMAIN cs)
    /\ IsSeq(fs)
    /\ \A d \in 1 .. Len(fs) : FrameOK(fns, shapes, heap, fs[d]) /\ DepthOK(shapes, fs, e, d)
    /\ \A r \in DOMAIN cs : CellOK(heap, fs, cs[r])
    /\ ValueOK(heap, e)

Compiled(fns, shapes) ==
    DOMAIN shapes = DOMAIN fns /\ 1 \in DOMAIN shapes /\ \A id \in DOMAIN shapes : ShapeKept(fns, fns[id], shapes[id])
Typed == Compiled(code, ShapeOf(prog)) /\ Good(code, ShapeOf(prog), objs, cells, frames, exc)
TInv ==
    /\ IInv
    /\ status \in {"source", "parsed"} =>
           /\ objs = StandardObjects /\ cells = [r \in {PrintCell} |-> Detached(Obj(7))]
           /\ globals = [print |-> PrintCell] /\ exc = NoExc
    /\ status = "running" => Typed
    /\ status # "running" => frames = <<>>

LEMMA HoldsStays ==
    ASSUME NEW heap, NEW heap2, GrewTo(heap, heap2), NEW fn, NEW shape
    PROVE  /\ \A v, k : Holds(fn, shape, heap, v, k) => Holds(fn, shape, heap2, v, k)
           /\ \A st, ks : StackOK(fn, shape, heap, st, ks) => StackOK(fn, shape, heap2, st, ks)
<1>1. ASSUME NEW v, NEW k, Holds(fn, shape, heap, v, k)
      PROVE  Holds(fn, shape, heap2, v, k)
  <2>1. ValueOK(heap, v) => ValueOK(heap2, v)
    BY StaysOK
  <2>2. k.k = "iterator" => v.t = "obj" /\ heap2[v.n].cls = "iterator"
    BY <1>1 DEF Holds, Plain, ValueOK, GrewTo
  <2> QED
    BY <1>1, <2>1, <2>2, Zenon DEF Holds
<1> QED
  BY <1>1 DEF StackOK

LEMMA FrameStays ==
    ASSUME NEW heap, NEW heap2, GrewTo(heap, heap2), NEW fns, NEW shapes, NEW f, FrameOK(fns, shapes, heap, f)
    PROVE  FrameOK(fns, shapes, heap2, f)
<1>1. /\ ValueOK(heap2, f.func) /\ ValueOK(heap2, f.this) /\ ValuesOK(heap2, f.args) /\ ValuesOK(heap2, f.locs)
  BY StaysOK DEF FrameOK
<1>2. heap2[f.func.n].cls = "closure" /\ heap2[f.func.n].fn = f.fn
  BY DEF FrameOK, ValueOK, GrewTo
<1>3. StackOK(fns[f.fn], shapes[f.fn], heap2, f.stack, shapes[f.fn][f.pc])
  BY HoldsStays DEF FrameOK
<1> QED
  BY <1>1, <1>2, <1>3, Zenon DEF FrameOK

(* Frames that keep the number of arguments and variables keep cells right. *)
SameSlots(fs, fs2) ==
    /\ Len(fs) \in Nat /\ Len(fs2) \in Nat /\ Len(fs) <= Len(fs2)
    /\ \A d \in 1 .. Len(fs) : Len(fs2[d].args) = Len(fs[d].args) /\ Len(fs2[d].locs) = Len(fs[d].locs)
LEMMA CellStays ==
    ASSUME NEW heap, NEW heap2, GrewTo(heap, heap2), NEW fs, NEW fs2, SameSlots(fs, fs2), NEW c, CellOK(heap, fs, c)
    PROVE  CellOK(heap2, fs2, c)
<1>1. ValueOK(heap2, c.val)
  BY StaysOK DEF CellOK
<1>2. c.depth \in 1 .. Len(fs) => c.depth \in 1 .. Len(fs2)
  BY DEF SameSlots
<1> QED
  BY <1>1, <1>2 DEF CellOK, SameSlots

LEMMA Fitting ==
    ASSUME NEW fn, NEW shape, NEW heap, NEW st, NEW j, StackOK(fn, shape, heap, st, j), IsSeq(j), NEW k, IsSeq(k), Fits(j, k)
    PROVE  StackOK(fn, shape, heap, st, k) /\ Len(k) = Len(j)
<1>1. Len(k) = Len(j) /\ DOMAIN k = 1 .. Len(k) /\ Len(k) \in Nat /\ Len(st) \in Nat
  BY Sequence DEF Fits, StackOK
<1>2. ASSUME NEW i \in 1 .. Len(st)
      PROVE  Holds(fn, shape, heap, st[i], k[i])
  <2>1. Holds(fn, shape, heap, st[i], j[i]) /\ i \in DOMAIN k
    BY <1>1 DEF StackOK
  <2>2. CASE j[i] = k[i]
    BY <2>1, <2>2
  <2>3. CASE k[i] = AnyValue /\ j[i].k \in Plain
    BY <2>1, <2>3 DEF Holds, AnyValue, Kind
  <2> QED
    BY <2>1, <2>2, <2>3 DEF Fits
<1> QED
  BY <1>1, <1>2 DEF StackOK

(* The top frame changes, and cells and objects with it. *)
LEMMA TopChanges ==
    ASSUME NEW fns, NEW shapes, NEW heap, NEW cs, NEW fs, NEW e, Good(fns, shapes, heap, cs, fs, e),
           NEW n \in 1 .. Len(fs), n = Len(fs),
           NEW heap2, NEW cs2, HeapOK(fns, heap2, DOMAIN cs2), GrewTo(heap, heap2),
           NEW f, FrameOK(fns, shapes, heap2, f), f.flags = fs[n].flags,
           NEW fs2, UpdateOf(fs2, fs, n, f),
           NEW e2, ValueOK(heap2, e2), e2 = NoExc => Len(f.stack) = Len(shapes[f.fn][f.pc]),
           \A r \in DOMAIN cs2 : CellOK(heap2, fs2, cs2[r])
    PROVE  Good(fns, shapes, heap2, cs2, fs2, e2)
<1>1. IsSeq(fs2) /\ Len(fs2) = n /\ \A d \in 1 .. n : fs2[d] = IF d = n THEN f ELSE fs[d]
  BY DEF UpdateOf
<1>2. n \in Nat
  BY <1>1, Sequence
<1>3. ASSUME NEW d \in 1 .. n
      PROVE  FrameOK(fns, shapes, heap2, fs2[d]) /\ DepthOK(shapes, fs2, e2, d)
  <2>1. CASE d = n
    BY <1>1, <2>1 DEF DepthOK
  <2>2. CASE d # n
    <3>1. FrameOK(fns, shapes, heap, fs[d]) /\ DepthOK(shapes, fs, e, d)
      BY DEF Good
    <3>2. FrameOK(fns, shapes, heap2, fs[d]) /\ fs2[d] = fs[d]
      BY <1>1, <2>2, <3>1, FrameStays
    <3>3. d + 1 \in 1 .. n /\ fs2[d + 1].flags = fs[d + 1].flags
      BY <1>1, <1>2, <2>2
    <3> QED
      BY <1>1, <2>2, <3>1, <3>2, <3>3 DEF DepthOK
  <2> QED
    BY <2>1, <2>2
<1> QED
  BY <1>1, <1>3, Zenon DEF Good

(* A call puts a frame on top of one that waits for its value, or for nothing. *)
Waits(shapes, f, flags) ==
    LET ks == shapes[f.fn][f.pc]
    IN IF POP_RET \in flags THEN Len(f.stack) = Len(ks) ELSE Len(f.stack) + 1 = Len(ks) /\ ks[Len(ks)] = AnyValue
LEMMA FramePushed ==
    ASSUME NEW fns, NEW shapes, NEW heap, NEW cs, NEW fs, NEW e, Good(fns, shapes, heap, cs, fs, e),
           NEW n \in 1 .. Len(fs), n = Len(fs),
           NEW heap2, HeapStep(fns, heap, heap2, DOMAIN cs),
           NEW f, FrameOK(fns, shapes, heap2, f), f.flags = fs[n].flags,
           Len(f.args) = Len(fs[n].args), Len(f.locs) = Len(fs[n].locs),
           NEW g, FrameOK(fns, shapes, heap2, g), Len(g.stack) = Len(shapes[g.fn][g.pc]), Waits(shapes, f, g.flags),
           NEW fs1, UpdateOf(fs1, fs, n, f), NEW fs2, ExtensionOf(fs2, fs1, g)
    PROVE  Good(fns, shapes, heap2, cs, fs2, e)
<1>1. IsSeq(fs1) /\ Len(fs1) = n /\ \A d \in 1 .. n : fs1[d] = IF d = n THEN f ELSE fs[d]
  BY DEF UpdateOf
<1>2. IsSeq(fs2) /\ Len(fs2) = n + 1 /\ fs2[n + 1] = g /\ \A d \in 1 .. n : fs2[d] = IF d = n THEN f ELSE fs[d]
  BY <1>1 DEF ExtensionOf
<1>8. HeapOK(fns, heap2, DOMAIN cs) /\ GrewTo(heap, heap2)
  BY DEF HeapStep
<1>3. n \in Nat
  BY <1>1, Sequence
<1>4. ASSUME NEW d \in 1 .. n + 1
      PROVE  FrameOK(fns, shapes, heap2, fs2[d]) /\ DepthOK(shapes, fs2, e, d)
  <2>1. CASE d = n + 1
    BY <1>2, <2>1 DEF DepthOK
  <2>2. CASE d = n
    <3>1. fs2[d] = f /\ fs2[d + 1] = g /\ d # Len(fs2)
      BY <1>2, <1>3, <2>2
    <3> QED
      BY <3>1 DEF DepthOK, Waits
  <2>3. CASE d \in 1 .. n - 1
    <3>1. FrameOK(fns, shapes, heap, fs[d]) /\ DepthOK(shapes, fs, e, d)
      BY <1>3, <2>3 DEF Good
    <3>2. FrameOK(fns, shapes, heap2, fs[d]) /\ fs2[d] = fs[d]
      BY <1>2, <1>3, <2>3, <1>8, <3>1, FrameStays
    <3>3. d + 1 \in 1 .. n /\ fs2[d + 1].flags = fs[d + 1].flags /\ d # Len(fs2) /\ d # Len(fs)
      BY <1>2, <1>3, <2>3
    <3> QED
      BY <3>1, <3>2, <3>3 DEF DepthOK
  <2> QED
    BY <1>3, <2>1, <2>2, <2>3
<1>5. SameSlots(fs, fs2)
  BY <1>2, <1>3 DEF SameSlots
<1>6. \A r \in DOMAIN cs : CellOK(heap2, fs2, cs[r])
  BY <1>5, <1>8, CellStays DEF Good
<1>7. ValueOK(heap2, e)
  BY <1>8, StaysOK DEF Good
<1> QED
  BY <1>2, <1>4, <1>6, <1>7, <1>8, Zenon DEF Good

-----------------------------------------------------------------------------
(* The shapes that instructions make. *)
LEMMA Effects ==
    ASSUME NEW c, NEW p, NEW m, Effect(c) = <<p, m>>
    PROVE  /\ c[1] \in {"push_value", "push_const", "fclosure", "undefined", "null", "push_this", "push_false", "push_true",
                        "object", "this_func", "arguments", "new_target", "get_loc", "get_arg", "get_var_ref",
                        "get_var_ref_nocheck", "catch"} => p = 0 /\ m = 1
           /\ c[1] \in {"drop", "return", "throw", "put_loc", "put_arg", "put_var_ref", "put_var_ref_nocheck",
                        "if_false", "if_true", "ret"} => p = 1 /\ m = 0
           /\ c[1] \in {"nip", "get_array_el", "define_field", "define_getter", "define_setter", "set_proto", "delete",
                        "in", "instanceof"} \cup ValueBinary => p = 2 /\ m = 1
           /\ c[1] \in {"dup", "get_field2", "get_length2", "post_dec", "post_inc"} => p = 1 /\ m = 2
           /\ c[1] \in {"get_field", "get_length", "for_in_start", "for_of_start", "typeof"} \cup ValueUnary => p = 1 /\ m = 1
           /\ c[1] \in {"swap", "get_array_el2"} => p = 2 /\ m = 2
           /\ c[1] = "dup2" => p = 2 /\ m = 4
           /\ c[1] = "insert2" => p = 2 /\ m = 3
           /\ c[1] = "insert3" => p = 3 /\ m = 4
           /\ c[1] \in {"perm3", "rot3l"} => p = 3 /\ m = 3
           /\ c[1] = "perm4" => p = 4 /\ m = 4
           /\ c[1] \in {"call", "call_constructor"} => p = 1 + c[2] /\ m = 1
           /\ c[1] = "call_method" => p = 2 + c[2] /\ m = 1
           /\ c[1] = "array_from" => p = c[2] /\ m = 1
           /\ c[1] = "put_field" => p = 2 /\ m = 0
           /\ c[1] = "put_array_el" => p = 3 /\ m = 0
           /\ c[1] = "for_of_next" => p = 1 /\ m = 3
           /\ c[1] \in {"goto", "gosub", "return_undef"} => p = 0 /\ m = 0
BY DEF Effect, ValueBinary, ValueUnary

LEMMA EffectPair == ASSUME NEW c PROVE \E p, m : Effect(c) = <<p, m>>
BY DEF Effect, ValueBinary, ValueUnary

Special == Shuffles \cup LiteralOps \cup {"object", "for_in_start", "for_of_start", "catch", "for_of_next"}
(* ks is k with its last p places gone and m new ones, the places of news. *)
Reshaped(ks, k, p, m, news) ==
    /\ IsSeq(ks) /\ Len(ks) = Len(k) - p + m
    /\ \A i \in 1 .. Len(k) - p : ks[i] = k[i]
    /\ \A i \in 1 .. m : ks[Len(k) - p + i] = news[i]

LEMMA ReshapeOf ==
    ASSUME NEW k, IsSeq(k), NEW p \in 0 .. Len(k), NEW m \in Nat, NEW news, IsSeq(news), Len(news) = m,
           NEW ks, ks = Less(k, p) \o news
    PROVE  Reshaped(ks, k, p, m, news)
<1>1. PICK rest : rest = Less(k, p)
  OBVIOUS
<1>2. IsSeq(rest) /\ Len(rest) = Len(k) - p /\ \A i \in 1 .. Len(k) - p : rest[i] = k[i]
  BY <1>1, LessOf
<1>3. ks = rest \o news
  BY <1>1
<1>4. JoinOf(ks, rest, news)
  BY <1>2, <1>3, ConcatOf
<1> QED
  BY <1>2, <1>4 DEF Reshaped, JoinOf

LEMMA AppendOf ==
    ASSUME NEW k, IsSeq(k), NEW p \in 0 .. Len(k), NEW rest, rest = Less(k, p), NEW a, NEW ks, ks = Append(rest, a)
    PROVE  Reshaped(ks, k, p, 1, <<a>>)
<1>1. IsSeq(rest) /\ Len(rest) = Len(k) - p /\ \A i \in 1 .. Len(k) - p : rest[i] = k[i]
  BY LessOf
<1>2. ExtensionOf(ks, rest, a)
  BY <1>1, Extended
<1>3. <<a>>[1] = a
  OBVIOUS
<1>4. IsSeq(ks) /\ Len(ks) = Len(k) - p + 1 /\ ks[Len(k) - p + 1] = a /\ \A i \in 1 .. Len(k) - p : ks[i] = k[i]
  BY <1>1, <1>2 DEF ExtensionOf
<1> QED
  BY <1>3, <1>4 DEF Reshaped

LEMMA NothingLess == ASSUME NEW k, IsSeq(k) PROVE k = Less(k, 0)
<1> DEFINE Elems == {k[i] : i \in DOMAIN k}
<1>1. k \in Seq(Elems)
  BY DEF IsSeq
<1> HIDE DEF Elems
<1>2. Len(k) - 0 = Len(k) /\ SubSeq(k, 1, Len(k)) = k
  BY <1>1
<1> QED
  BY <1>2 DEF Less

(* An instruction that puts values where it found operands. *)
LEMMA OrdinaryShape ==
    ASSUME NEW c, c[1] \notin Special, NEW p, NEW m \in Nat, Effect(c) = <<p, m>>,
           NEW k, IsSeq(k), p \in 0 .. Len(k), NEW ks, ks = Shaped(c, k)
    PROVE  Reshaped(ks, k, p, m, [i \in 1 .. m |-> AnyValue])
<1>1. PICK news : news = [i \in 1 .. m |-> AnyValue]
  OBVIOUS
<1>2. IsSeq(news) /\ Len(news) = m
  <2>1. news = [i \in 1 .. m |-> news[i]]
    BY <1>1
  <2> QED
    BY <2>1, FunctionOf
<1>3. Shaped(c, k) = Less(k, p) \o news
  <2>1. PICK a : a = AnyValue
    OBVIOUS
  <2>2. Effect(c)[1] = p /\ Effect(c)[2] = m
    OBVIOUS
  <2>3. Shaped(c, k) = Less(k, Effect(c)[1]) \o [i \in 1 .. Effect(c)[2] |-> AnyValue]
    BY Zenon DEF Shaped, Special
  <2> QED
    BY <1>1, <2>2, <2>3, Zenon
<1> QED
  BY <1>1, <1>2, <1>3, ReshapeOf

LEMMA ShuffleOps ==
    Shuffles = {"drop", "nip", "dup", "dup2", "insert2", "insert3", "perm3", "perm4", "swap", "rot3l"}
BY DEF Shuffles, Picks

LEMMA SpecialShapes ==
    ASSUME NEW c, NEW p, NEW m, Effect(c) = <<p, m>>, NEW k, IsSeq(k), p \in 0 .. Len(k), NEW ks, ks = Shaped(c, k)
    PROVE  /\ c[1] = "object" => Reshaped(ks, k, 0, 1, <<Kind("object", 0)>>)
           /\ c[1] = "catch" => Reshaped(ks, k, 0, 1, <<Kind("catch", c[2])>>)
           /\ c[1] \in {"for_in_start", "for_of_start"} => Reshaped(ks, k, 1, 1, <<Kind("iterator", 0)>>)
           /\ c[1] = "for_of_next" => Reshaped(ks, k, 0, 2, <<AnyValue, AnyValue>>)
           /\ c[1] \in LiteralOps => Reshaped(ks, k, 1, 0, <<>>)
<1>1. 0 \in 0 .. Len(k) /\ Len(k) \in Nat /\ k = Less(k, 0)
  BY NothingLess, Sequence
<1>2. ASSUME c[1] = "object"
      PROVE  Reshaped(ks, k, 0, 1, <<Kind("object", 0)>>)
  <2>1. c[1] \notin Shuffles
    BY <1>2, ShuffleOps
  <2>2. ks = Append(k, Kind("object", 0))
    BY <1>2, <2>1, Zenon DEF Shaped, LiteralOps
  <2> QED
    BY <1>1, <2>2, AppendOf, Zenon
<1>3. ASSUME c[1] = "catch"
      PROVE  Reshaped(ks, k, 0, 1, <<Kind("catch", c[2])>>)
  <2>1. c[1] \notin Shuffles
    BY <1>3, ShuffleOps
  <2>2. ks = Append(k, Kind("catch", c[2]))
    BY <1>3, <2>1, Zenon DEF Shaped, LiteralOps
  <2> QED
    BY <1>1, <2>2, AppendOf, Zenon
<1>4. ASSUME c[1] \in {"for_in_start", "for_of_start"}
      PROVE  Reshaped(ks, k, 1, 1, <<Kind("iterator", 0)>>)
  <2>1. c[1] \notin Shuffles
    BY <1>4, ShuffleOps
  <2>2. p = 1 /\ Effect(c)[1] = p
    BY <1>4, Effects
  <2>3. ks = Append(Less(k, Effect(c)[1]), Kind("iterator", 0))
    BY <1>4, <2>1, Zenon DEF Shaped, LiteralOps
  <2> QED
    BY <2>2, <2>3, AppendOf, Zenon
<1>5. ASSUME c[1] = "for_of_next"
      PROVE  Reshaped(ks, k, 0, 2, <<AnyValue, AnyValue>>)
  <2>1. c[1] \notin Shuffles
    BY <1>5, ShuffleOps
  <2>2. PICK t : t = <<AnyValue, AnyValue>>
    OBVIOUS
  <2>3. IsSeq(t) /\ Len(t) = 2 /\ 2 \in Nat
    BY <2>2, PairTuple
  <2>4. ks = k \o t
    BY <1>5, <2>1, <2>2, Zenon DEF Shaped, LiteralOps
  <2> QED
    BY <1>1, <2>2, <2>3, <2>4, ReshapeOf, Zenon
<1>6. ASSUME c[1] \in LiteralOps
      PROVE  Reshaped(ks, k, 1, 0, <<>>)
  <2>1. p = 2
    BY <1>6, Effects DEF LiteralOps
  <2>2. c[1] \notin Shuffles
    BY <1>6, ShuffleOps DEF LiteralOps
  <2>3. ks = Less(k, 1)
    BY <1>6, <2>2, Zenon DEF Shaped, LiteralOps
  <2>4. 1 \in 0 .. Len(k) /\ Len(k) - 1 + 0 = Len(k) - 1
    BY <1>1, <2>1
  <2>5. IsSeq(ks) /\ Len(ks) = Len(k) - 1 /\ \A i \in 1 .. Len(k) - 1 : ks[i] = k[i]
    BY <2>3, <2>4, LessOf
  <2> QED
    BY <2>4, <2>5 DEF Reshaped
<1> QED
  BY <1>2, <1>3, <1>4, <1>5, <1>6

-----------------------------------------------------------------------------
(* The running function's shape, and the instruction it is at. *)
Shape == ShapeOf(prog)[Top.fn]
Here == Shape[Top.pc]
Instruction == Fn.code[Top.pc]

LEMMA Situation ==
    ASSUME TInv, Running
    PROVE  /\ Compiled(code, ShapeOf(prog)) /\ Good(code, ShapeOf(prog), objs, cells, frames, exc)
           /\ IsSeq(frames) /\ Len(frames) \in Nat /\ Depth \in 1 .. Len(frames) /\ Depth = Len(frames) /\ Top = frames[Depth]
           /\ FrameOK(code, ShapeOf(prog), objs, Top) /\ Top.fn \in DOMAIN code /\ Top.pc \in DOMAIN Shape
           /\ ShapeKept(code, Fn, Shape)
           /\ StackOK(Fn, Shape, objs, Top.stack, Here)
           /\ exc = NoExc => Len(Top.stack) = Len(Here)
<1>1. Compiled(code, ShapeOf(prog)) /\ Good(code, ShapeOf(prog), objs, cells, frames, exc)
  BY DEF TInv, Typed, Running
<1>2. IsSeq(frames) /\ frames # <<>>
  BY DEF TInv, IInv, Phases, Shapes, Running
<1>3. Len(frames) \in Nat /\ Depth \in 1 .. Len(frames) /\ Depth = Len(frames) /\ Top = frames[Depth]
  BY <1>2, Sequence DEF Depth, Top
<1>4. FrameOK(code, ShapeOf(prog), objs, Top) /\ DepthOK(ShapeOf(prog), frames, exc, Depth)
  BY <1>1, <1>3 DEF Good
<1>5. /\ Top.fn \in DOMAIN code /\ Top.pc \in DOMAIN Shape
      /\ StackOK(Fn, Shape, objs, Top.stack, Here)
  BY <1>4 DEF FrameOK, Shape, Here, Fn
<1>6. ShapeKept(code, Fn, Shape)
  BY <1>1, <1>5 DEF Compiled, Shape, Fn
<1>7. exc = NoExc => Len(Top.stack) = Len(Here)
  BY <1>3, <1>4 DEF DepthOK, Shape, Here
<1> QED
  BY <1>1, <1>2, <1>3, <1>4, <1>5, <1>6, <1>7

LEMMA Known ==
    ASSUME NEW fns, NEW fn, NEW shape, ShapeKept(fns, fn, shape), NEW pc \in DOMAIN shape
    PROVE  /\ pc \in Nat /\ IsSeq(shape[pc])
           /\ \A i \in 1 .. Len(shape[pc]) : shape[pc][i].k \in Plain \cup {"catch", "ret"} /\ shape[pc][i].at \in Nat
           /\ OperandsKept(fn.code[pc], shape[pc]) /\ NamesKept(fns, fn, fn.code[pc])
           /\ \A t \in Successors(fn, shape, pc) : t[1] \in DOMAIN shape /\ Fits(t[2], shape[t[1]])
<1> DEFINE Elems == [k : Plain \cup {"catch", "ret"}, at : Nat]
<1>1. PICK ks : ks = shape[pc]
  OBVIOUS
<1>2. pc \in Nat /\ ks \in Seq(Elems)
  BY <1>1 DEF ShapeKept
<1>3. \A i \in 1 .. Len(ks) : ks[i] \in Elems
  <2> HIDE DEF Elems
  <2> QED
    BY <1>2
<1>4. \A i \in 1 .. Len(ks) : ks[i].k \in Plain \cup {"catch", "ret"} /\ ks[i].at \in Nat
  BY <1>3
<1>5. IsSeq(ks)
  <2> HIDE DEF Elems
  <2> QED
    BY <1>2, IsSeqOf
<1>6. /\ OperandsKept(fn.code[pc], shape[pc]) /\ NamesKept(fns, fn, fn.code[pc])
      /\ \A t \in Successors(fn, shape, pc) : t[1] \in DOMAIN shape /\ Fits(t[2], shape[t[1]])
  BY DEF ShapeKept
<1> QED
  BY <1>1, <1>2, <1>4, <1>5, <1>6

LEMMA Instructed ==
    ASSUME TInv, Running
    PROVE  /\ IsSeq(Here) /\ OperandsKept(Instruction, Here) /\ NamesKept(code, Fn, Instruction)
           /\ Top.pc \in Nat /\ Opcode = Instruction[1] /\ Operand = Instruction[2]
<1>1. ShapeKept(code, Fn, Shape) /\ Top.pc \in DOMAIN Shape
  BY Situation
<1>2. Top.pc \in Nat /\ IsSeq(Shape[Top.pc]) /\ OperandsKept(Fn.code[Top.pc], Shape[Top.pc]) /\ NamesKept(code, Fn, Fn.code[Top.pc])
  BY <1>1, Known
<1> QED
  BY <1>2 DEF Here, Instruction, Opcode, Operand

(* The top frame becomes f. *)
LEMMA Becomes ==
    ASSUME TInv, Running, Going, NEW f, FrameOK(code, ShapeOf(prog), objs', f), f.flags = Top.flags,
           Len(f.args) = Len(Top.args), Len(f.locs) = Len(Top.locs),
           frames' = [frames EXCEPT ![Depth] = f], cells' = cells,
           HeapOK(code, objs', DOMAIN cells), GrewTo(objs, objs'),
           ValueOK(objs', exc'), exc' = NoExc => Len(f.stack) = Len(ShapeOf(prog)[f.fn][f.pc])
    PROVE  Typed'
<1>1. /\ Compiled(code, ShapeOf(prog)) /\ Good(code, ShapeOf(prog), objs, cells, frames, exc)
      /\ IsSeq(frames) /\ Depth \in 1 .. Len(frames) /\ Depth = Len(frames) /\ Top = frames[Depth]
  BY Situation
<1>2. PICK n, fs2, heap2, e2 : n = Depth /\ fs2 = frames' /\ heap2 = objs' /\ e2 = exc'
  OBVIOUS
<1>3. UpdateOf(fs2, frames, n, f)
  BY <1>1, <1>2, Updated
<1>4. SameSlots(frames, fs2)
  BY <1>1, <1>2, <1>3, Sequence DEF SameSlots, UpdateOf
<1>5. \A r \in DOMAIN cells : CellOK(heap2, fs2, cells[r])
  BY <1>1, <1>2, <1>4, CellStays DEF Good
<1>6. Good(code, ShapeOf(prog), heap2, cells, fs2, e2)
  BY <1>1, <1>2, <1>3, <1>5, TopChanges
<1>7. code' = code /\ prog' = prog
  BY DEF Going
<1> QED
  BY <1>1, <1>2, <1>6, <1>7 DEF Typed

LEMMA Jumped ==
    ASSUME TInv, Running, Going, NEW st, NEW pc \in DOMAIN Shape, StackOK(Fn, Shape, objs', st, Shape[pc]),
           Len(st) = Len(Shape[pc]), frames' = Jump(st, pc), cells' = cells, exc' = NoExc,
           HeapOK(code, objs', DOMAIN cells), GrewTo(objs, objs')
    PROVE  Typed'
<1>1. FrameOK(code, ShapeOf(prog), objs, Top)
  BY Situation
<1>2. PICK heap2 : heap2 = objs'
  OBVIOUS
<1>3. FrameOK(code, ShapeOf(prog), heap2, Top)
  BY <1>1, <1>2, FrameStays
<1>4. PICK f : f = At(st, pc)
  OBVIOUS
<1>5. /\ DOMAIN f = FrameFields /\ f.stack = st /\ f.pc = pc /\ f.fn = Top.fn /\ f.func = Top.func /\ f.this = Top.this
      /\ f.argc = Top.argc /\ f.flags = Top.flags /\ f.args = Top.args /\ f.locs = Top.locs
  BY <1>1, <1>4 DEF At, FrameOK, FrameFields
<1>6. FrameOK(code, ShapeOf(prog), heap2, f)
  BY <1>2, <1>3, <1>5 DEF FrameOK, Shape, Fn
<1>7. Len(f.stack) = Len(ShapeOf(prog)[f.fn][f.pc])
  BY <1>5 DEF Shape
<1>8. ValueOK(objs', exc')
  BY DEF NoExc, Value, ValueOK
<1>9. frames' = [frames EXCEPT ![Depth] = f]
  BY <1>4 DEF Jump
<1> QED
  BY <1>2, <1>5, <1>6, <1>7, <1>8, <1>9, Becomes

(* Where control may be next the stack is as it is said to be. *)
LEMMA Reaches ==
    ASSUME TInv, Running, NEW pc, NEW ks, <<pc, ks>> \in Successors(Fn, Shape, Top.pc), IsSeq(ks),
           NEW heap, NEW st, StackOK(Fn, Shape, heap, st, ks)
    PROVE  pc \in DOMAIN Shape /\ StackOK(Fn, Shape, heap, st, Shape[pc]) /\ Len(Shape[pc]) = Len(ks) /\ Fits(ks, Shape[pc])
<1>1. ShapeKept(code, Fn, Shape) /\ Top.pc \in DOMAIN Shape
  BY Situation
<1>2. pc \in DOMAIN Shape /\ Fits(ks, Shape[pc])
  <2>1. PICK t : t = <<pc, ks>>
    OBVIOUS
  <2>2. t[1] \in DOMAIN Shape /\ Fits(t[2], Shape[t[1]])
    BY <1>1, <2>1, Known
  <2> QED
    BY <2>1, <2>2
<1>3. IsSeq(Shape[pc])
  BY <1>1, <1>2, Known
<1> QED
  BY <1>2, <1>3, Fitting

(* The instruction takes p operands and leaves m values. *)
LEMMA Leaves ==
    ASSUME TInv, Running, exc = NoExc,
           NEW p \in 0 .. Len(Here), NEW m \in Nat, NEW news, NEW ks, Reshaped(ks, Here, p, m, news),
           NEW vals, NEW st, Reshaped(st, Top.stack, p, m, vals),
           NEW heap, GrewTo(objs, heap), \A i \in 1 .. m : Holds(Fn, Shape, heap, vals[i], news[i])
    PROVE  StackOK(Fn, Shape, heap, st, ks) /\ IsSeq(ks) /\ Len(st) = Len(ks)
<1>1. StackOK(Fn, Shape, objs, Top.stack, Here) /\ Len(Top.stack) = Len(Here) /\ IsSeq(Here)
  BY Situation, Instructed
<1>2. StackOK(Fn, Shape, heap, Top.stack, Here)
  BY <1>1, HoldsStays
<1>3. PICK l \in Nat : l = Len(Here) - p
  BY <1>1, Sequence
<1>4. /\ IsSeq(ks) /\ IsSeq(st) /\ Len(ks) = l + m /\ Len(st) = l + m
      /\ \A i \in 1 .. l : ks[i] = Here[i] /\ st[i] = Top.stack[i]
      /\ \A i \in 1 .. m : ks[l + i] = news[i] /\ st[l + i] = vals[i]
  BY <1>1, <1>3 DEF Reshaped
<1>5. ASSUME NEW i \in 1 .. l + m
      PROVE  Holds(Fn, Shape, heap, st[i], ks[i])
  <2>1. CASE i \in 1 .. l
    <3>1. i \in 1 .. Len(Top.stack)
      BY <1>1, <1>3, <2>1
    <3> QED
      BY <1>2, <1>4, <2>1, <3>1 DEF StackOK
  <2>2. CASE i \notin 1 .. l
    <3>1. PICK j \in 1 .. m : i = l + j
      <4>1. i - l \in 1 .. m /\ i = l + (i - l)
        BY <1>3, <2>2
      <4> QED
        BY <4>1
    <3> QED
      BY <1>4, <3>1
  <2> QED
    BY <2>1, <2>2
<1> QED
  BY <1>4, <1>5 DEF StackOK

Enders == {"goto", "return", "return_undef", "throw", "ret"}
LEMMA Falls ==
    ASSUME Opcode \notin Enders
    PROVE  <<Top.pc + 1, Shaped(Instruction, Here)>> \in Successors(Fn, Shape, Top.pc)
BY DEF Successors, Opcode, Instruction, Here, Enders

-----------------------------------------------------------------------------
(* Instructions that take p operands and leave m values. *)
KeptTo(st, l, m, heap) ==
    /\ IsSeq(st) /\ Len(st) = l + m
    /\ \A i \in 1 .. l : st[i] = Top.stack[i]
    /\ \A i \in 1 .. m : ValueOK(heap, st[l + i])
Left(st, p, m, heap) == KeptTo(st, Len(Top.stack) - p, m, heap)

(* The operands are there, and but for drop, nip and ret they are values. *)
LEMMA Operands ==
    ASSUME TInv, Running, exc = NoExc, NEW p, NEW m, Effect(Instruction) = <<p, m>>
    PROVE  /\ IsSeq(Top.stack) /\ Len(Top.stack) \in Nat /\ p \in 0 .. Len(Top.stack)
           /\ Opcode \notin Shuffles \cup {"ret"} => \A i \in 0 .. p - 1 : ValueOK(objs, S(i))
<1>1. IsSeq(Here) /\ OperandsKept(Instruction, Here) /\ Opcode = Instruction[1]
  BY Instructed
<1>2. StackOK(Fn, Shape, objs, Top.stack, Here) /\ Len(Top.stack) = Len(Here)
  BY Situation
<1>3. IsSeq(Top.stack) /\ Len(Top.stack) \in Nat
  BY <1>2, Sequence DEF StackOK
<1>4. Effect(Instruction)[1] = p
  OBVIOUS
<1>5. p \in 0 .. Len(Top.stack)
  BY <1>1, <1>2, <1>4 DEF OperandsKept
<1>6. ASSUME Opcode \notin Shuffles \cup {"ret"}, NEW i \in 0 .. p - 1
      PROVE  ValueOK(objs, S(i))
  <2>1. PICK j : j = Len(Here) - i
    OBVIOUS
  <2>2. i + 1 \in 1 .. p /\ Len(Here) + 1 - (i + 1) = j /\ j \in 1 .. Len(Here)
    BY <1>2, <1>3, <1>5, <2>1
  <2>3. \A a \in 1 .. p : Here[Len(Here) + 1 - a].k \in Plain
    BY <1>1, <1>4, <1>6 DEF OperandsKept
  <2>4. Here[j].k \in Plain
    BY <2>2, <2>3
  <2>5. S(i) = Top.stack[j]
    BY <1>2, <2>1 DEF S, FromTop
  <2> QED
    BY <1>2, <2>2, <2>4, <2>5 DEF StackOK, Holds
<1> QED
  BY <1>3, <1>5, <1>6

LEMMA Ordinary ==
    ASSUME TInv, Running, exc = NoExc, NEW p, NEW m \in Nat, Effect(Instruction) = <<p, m>>, Opcode \notin Special \cup Enders,
           NEW heap, GrewTo(objs, heap), NEW st, Left(st, p, m, heap)
    PROVE  LET ks == Shape[Top.pc + 1]
           IN /\ Top.pc + 1 \in DOMAIN Shape /\ StackOK(Fn, Shape, heap, st, ks) /\ Len(st) = Len(ks)
              /\ m > 0 => ks[Len(ks)] = AnyValue
<1>1. /\ IsSeq(Here) /\ Opcode = Instruction[1] /\ Len(Top.stack) = Len(Here) /\ Len(Here) \in Nat
      /\ p \in 0 .. Len(Here)
  BY Situation, Instructed, Operands, Sequence
<1>2. PICK ks : ks = Shaped(Instruction, Here)
  OBVIOUS
<1>3. PICK news : news = [i \in 1 .. m |-> AnyValue]
  OBVIOUS
<1>4. Reshaped(ks, Here, p, m, news)
  BY <1>1, <1>2, <1>3, OrdinaryShape
<1>5. PICK vals : vals = [i \in 1 .. m |-> st[Len(Top.stack) - p + i]]
  OBVIOUS
<1>6. Reshaped(st, Top.stack, p, m, vals)
  BY <1>5 DEF Left, KeptTo, Reshaped
<1>7. ASSUME NEW i \in 1 .. m
      PROVE  Holds(Fn, Shape, heap, vals[i], news[i])
  <2>1. vals[i] = st[Len(Top.stack) - p + i] /\ news[i] = AnyValue
    BY <1>3, <1>5
  <2>2. ValueOK(heap, vals[i])
    BY <2>1 DEF Left, KeptTo
  <2> QED
    BY <2>1, <2>2 DEF Holds, AnyValue, Kind
<1>8. StackOK(Fn, Shape, heap, st, ks) /\ IsSeq(ks) /\ Len(st) = Len(ks)
  BY <1>1, <1>4, <1>6, <1>7, Leaves
<1>9. <<Top.pc + 1, ks>> \in Successors(Fn, Shape, Top.pc)
  BY <1>2, Falls
<1>10. /\ Top.pc + 1 \in DOMAIN Shape /\ StackOK(Fn, Shape, heap, st, Shape[Top.pc + 1])
       /\ Len(Shape[Top.pc + 1]) = Len(ks) /\ Fits(ks, Shape[Top.pc + 1])
  BY <1>8, <1>9, Reaches
<1>11. ASSUME m > 0
       PROVE  Shape[Top.pc + 1][Len(ks)] = AnyValue
  <2>1. Len(ks) = Len(Here) - p + m /\ Len(ks) \in Nat /\ ks[Len(ks)] = AnyValue
    <3>1. m \in 1 .. m /\ news[m] = AnyValue
      BY <1>3, <1>11
    <3>2. Len(ks) = Len(Here) - p + m /\ ks[Len(Here) - p + m] = news[m]
      BY <1>4, <3>1 DEF Reshaped
    <3> QED
      BY <1>1, <3>1, <3>2
  <2>2. ShapeKept(code, Fn, Shape)
    BY Situation
  <2>3. IsSeq(Shape[Top.pc + 1])
    BY <1>10, <2>2, Known
  <2>4. Len(ks) \in DOMAIN Shape[Top.pc + 1]
    BY <1>1, <1>10, <1>11, <2>1, <2>3, Sequence
  <2> QED
    BY <1>10, <2>1, <2>4 DEF Fits
<1> QED
  BY <1>8, <1>10, <1>11

LEMMA Computed ==
    ASSUME TInv, Running, exc = NoExc, NEW p, NEW m \in Nat, Effect(Instruction) = <<p, m>>, Opcode \notin Special \cup Enders,
           NEW st, Left(st, p, m, objs'), frames' = To(st), cells' = cells, exc' = NoExc, Going,
           HeapOK(code, objs', DOMAIN cells), GrewTo(objs, objs')
    PROVE  Typed'
<1>1. PICK heap : heap = objs'
  OBVIOUS
<1>2. PICK pc : pc = Top.pc + 1
  OBVIOUS
<1>3. pc \in DOMAIN Shape /\ StackOK(Fn, Shape, heap, st, Shape[pc]) /\ Len(st) = Len(Shape[pc])
  BY <1>1, <1>2, Ordinary
<1>4. frames' = Jump(st, pc)
  BY <1>2 DEF To, Jump
<1> QED
  BY <1>1, <1>3, <1>4, Jumped

(* Stacks that an operand or two was taken off and a value or two put on. *)
LEMMA LeftBelow ==
    ASSUME IsSeq(Top.stack), NEW p \in 0 .. Len(Top.stack), NEW heap
    PROVE  Left(Below(p), p, 0, heap)
<1>1. PICK st : st = Below(p)
  OBVIOUS
<1>2. IsSeq(st) /\ Len(st) = Len(Top.stack) - p /\ \A i \in 1 .. Len(Top.stack) - p : st[i] = Top.stack[i]
  BY <1>1, LessOf DEF Below
<1>3. Len(Top.stack) \in Nat
  BY Sequence
<1> QED
  BY <1>1, <1>2, <1>3 DEF Left, KeptTo

LEMMA LeftAppend ==
    ASSUME IsSeq(Top.stack), NEW p \in 0 .. Len(Top.stack), NEW m \in Nat,
           NEW heap, NEW st, Left(st, p, m, heap), NEW v, ValueOK(heap, v)
    PROVE  Left(Append(st, v), p, m + 1, heap)
<1>1. PICK t : t = Append(st, v)
  OBVIOUS
<1>2. IsSeq(st)
  BY DEF Left, KeptTo
<1>3. ExtensionOf(t, st, v)
  BY <1>1, <1>2, Extended
<1>4. PICK l : l = Len(Top.stack) - p
  OBVIOUS
<1>5. l \in Nat /\ Len(st) = l + m /\ Len(st) \in Nat
  BY <1>2, <1>4, Sequence DEF Left, KeptTo
<1>6. IsSeq(t) /\ Len(t) = l + (m + 1) /\ \A i \in 1 .. l : t[i] = Top.stack[i]
  <2>1. \A i \in 1 .. l : i \in 1 .. Len(st) /\ st[i] = Top.stack[i]
    BY <1>4, <1>5 DEF Left, KeptTo
  <2>2. IsSeq(t) /\ Len(t) = Len(st) + 1 /\ \A i \in 1 .. Len(st) : t[i] = st[i]
    BY <1>3 DEF ExtensionOf
  <2> QED
    BY <1>5, <2>1, <2>2
<1>7. ASSUME NEW i \in 1 .. m + 1
      PROVE  ValueOK(heap, t[l + i])
  <2>1. CASE i = m + 1
    BY <1>3, <1>5, <2>1 DEF ExtensionOf
  <2>2. CASE i \in 1 .. m
    <3>1. ValueOK(heap, st[l + i])
      BY <1>4, <2>2 DEF Left, KeptTo
    <3>2. CASE l + i \in 1 .. Len(st)
      BY <1>3, <3>1, <3>2 DEF ExtensionOf
    <3>3. CASE l + i \notin 1 .. Len(st)
      BY <1>5, <2>2, <3>3
    <3> QED
      BY <3>2, <3>3
  <2> QED
    BY <2>1, <2>2
<1> QED
  BY <1>1, <1>4, <1>6, <1>7 DEF Left, KeptTo

(* An operand that stays counts as one that is taken and put back. *)
LEMMA LeftOperand ==
    ASSUME IsSeq(Top.stack), NEW p \in Nat, p + 1 <= Len(Top.stack), NEW m \in Nat,
           NEW heap, NEW st, Left(st, p, m, heap), ValueOK(heap, S(p))
    PROVE  Left(st, p + 1, m + 1, heap)
<1>1. PICK l \in Nat : l = Len(Top.stack) - (p + 1)
  <2>1. Len(Top.stack) - (p + 1) \in Nat
    BY Sequence
  <2> QED
    BY <2>1
<1>2. Len(Top.stack) \in Nat /\ Len(Top.stack) - p = l + 1
  BY <1>1, Sequence
<1>3. S(p) = Top.stack[l + 1]
  BY <1>2 DEF S, FromTop
<1>4. /\ IsSeq(st) /\ Len(st) = l + (m + 1)
      /\ \A i \in 1 .. l + 1 : st[i] = Top.stack[i]
      /\ \A i \in 1 .. m : ValueOK(heap, st[(l + 1) + i])
  <2>1. Len(Top.stack) - p = l + 1 /\ (l + 1) + m = l + (m + 1)
    BY <1>2
  <2>2. KeptTo(st, l + 1, m, heap)
    BY <2>1 DEF Left
  <2> QED
    BY <2>1, <2>2 DEF KeptTo
<1>5. ASSUME NEW i \in 1 .. m + 1
      PROVE  ValueOK(heap, st[l + i])
  <2>1. CASE i = 1
    <3>1. l + 1 \in 1 .. l + 1
      OBVIOUS
    <3>2. st[l + 1] = Top.stack[l + 1]
      BY ONLY <1>4, <3>1
    <3> QED
      BY <1>3, <2>1, <3>2
  <2>2. CASE i # 1
    <3>1. i - 1 \in 1 .. m /\ l + i = (l + 1) + (i - 1)
      BY <2>2
    <3>2. ValueOK(heap, st[(l + 1) + (i - 1)])
      BY <1>4, <3>1
    <3> QED
      BY <3>1, <3>2
  <2> QED
    BY <2>1, <2>2
<1>6. KeptTo(st, l, m + 1, heap)
  <2>1. \A i \in 1 .. l : i \in 1 .. l + 1
    OBVIOUS
  <2> QED
    BY <1>4, <1>5, <2>1 DEF KeptTo
<1> QED
  BY <1>1, <1>6 DEF Left

(* Nothing taken off, and what is put on. *)
LEMMA LeftTop ==
    ASSUME IsSeq(Top.stack), NEW heap
    PROVE  Left(Top.stack, 0, 0, heap)
<1>1. Len(Top.stack) \in Nat
  BY Sequence
<1> QED
  BY <1>1 DEF Left, KeptTo

-----------------------------------------------------------------------------
(* What the operators give: numbers, booleans and strings. *)
Scalar(v) == v.t \in {"num", "nan", "bool", "str", "undefined", "error", "uninitialized"}
LEMMA Scalars ==
    /\ \A v, heap : Scalar(v) => ValueOK(heap, v)
    /\ \A n : Scalar(Num(n)) /\ Scalar(Str(n)) /\ Scalar(Error(n))
    /\ \A b : Scalar(Bool(b))
    /\ Scalar(Nan) /\ Scalar(Undefined) /\ Scalar(Uninitialized)
    /\ \A heap : ValueOK(heap, Null)
<1>1. \A n : Scalar(Num(n)) /\ Scalar(Str(n)) /\ Scalar(Error(n))
  BY DEF Scalar, Num, Str, Error, Value
<1>2. ASSUME NEW b
      PROVE  Scalar(Bool(b))
  <2>1. PICK n : n = IF b THEN 1 ELSE 0
    OBVIOUS
  <2>2. PICK u : u = Bool(b)
    OBVIOUS
  <2>3. u = Value("bool", n, "")
    BY <2>1, <2>2, Zenon DEF Bool
  <2>4. Scalar(u)
    BY <2>3 DEF Value, Scalar
  <2> QED
    BY <2>2, <2>4, Zenon
<1>3. Scalar(Nan) /\ Scalar(Undefined) /\ Scalar(Uninitialized)
  BY DEF Scalar, Nan, Undefined, Uninitialized, Value
<1>4. \A v, heap : Scalar(v) => ValueOK(heap, v)
  BY DEF Scalar, ValueOK
<1>5. \A heap : ValueOK(heap, Null)
  BY DEF ValueOK, Null, Value
<1> QED
  BY <1>1, <1>2, <1>3, <1>4, <1>5, Zenon

LEMMA ToNumber == ASSUME NEW v PROVE JS_ToNumber(v).t \in {"num", "nan"}
<1>1. (\A n : Num(n).t = "num") /\ Nan.t = "nan"
  BY DEF Num, Nan, Value
<1>2. \/ JS_ToNumber(v) = v /\ IsNum(v)
      \/ \E n : JS_ToNumber(v) = Num(n)
      \/ JS_ToNumber(v) = Nan
  <2>1. CASE IsNum(v)
    <3>1. v.t \notin {"bool", "null", "str"}
      BY <2>1 DEF IsNum
    <3> QED
      BY <2>1, <3>1, Zenon DEF JS_ToNumber
  <2>2. CASE ~IsNum(v) /\ v.t \in {"bool", "null"}
    BY <2>2, Zenon DEF JS_ToNumber
  <2>3. CASE ~IsNum(v) /\ v.t = "str"
    BY <2>3, Zenon DEF JS_ToNumber
  <2>4. CASE ~IsNum(v) /\ v.t \notin {"bool", "null", "str"}
    BY <2>4, Zenon DEF JS_ToNumber
  <2> QED
    BY <2>1, <2>2, <2>3, <2>4, Zenon
<1> QED
  BY <1>1, <1>2 DEF IsNum

LEMMA UnaryScalar == ASSUME NEW op \in ValueUnary, NEW v PROVE Scalar(Unary(op, v))
<1>1. PICK m : m = JS_ToNumber(v)
  OBVIOUS
<1>2. Scalar(m)
  BY <1>1, ToNumber DEF Scalar
<1>3. \/ \E b : Unary(op, v) = Bool(b)
      \/ Unary(op, v) = m
      \/ Unary(op, v) = Nan
      \/ \E n : Unary(op, v) = Num(n)
  <2>1. CASE op = "lnot"
    BY <2>1, Zenon DEF Unary
  <2>2. CASE op = "plus"
    BY <1>1, <2>2, Zenon DEF Unary
  <2>3. CASE op = "neg"
    BY <1>1, <2>3, Zenon DEF Unary
  <2>4. CASE op = "inc"
    BY <1>1, <2>4, Zenon DEF Unary
  <2>5. CASE op = "dec"
    BY <1>1, <2>5, Zenon DEF Unary
  <2>6. CASE op = "not"
    BY <1>1, <2>6, Zenon DEF Unary
  <2> QED
    BY <2>1, <2>2, <2>3, <2>4, <2>5, <2>6 DEF ValueUnary
<1> QED
  BY <1>2, <1>3, Scalars, Zenon

LEMMA BinaryScalar == ASSUME NEW op \in ValueBinary, NEW v, NEW w PROVE Scalar(Binary(op, v, w))
<1>1. \/ \E b : Binary(op, v, w) = Bool(b)
      \/ Binary(op, v, w) = Nan
      \/ \E n : Binary(op, v, w) = Num(n)
      \/ \E a : Binary(op, v, w) = Str(a)
  <2>1. CASE op = "add"
    <3>1. \/ Binary(op, v, w) = Num(v.n + w.n)
          \/ Binary(op, v, w) = js_add_slow(v, w)
      BY <2>1, Zenon DEF Binary
    <3>2. \/ js_add_slow(v, w) = Nan
          \/ \E n : js_add_slow(v, w) = Num(n)
          \/ \E a : js_add_slow(v, w) = Str(a)
      BY Zenon DEF js_add_slow
    <3> QED
      BY <3>1, <3>2, Zenon
  <2>2. CASE op \in {"sub", "mul", "div", "mod", "pow"}
    <3>1. Binary(op, v, w) = js_binary_arith_slow(op, v, w)
      BY <2>2, Zenon DEF Binary
    <3>2. js_binary_arith_slow(op, v, w) = Nan \/ \E n : js_binary_arith_slow(op, v, w) = Num(n)
      <4> DEFINE a == JS_ToNumber(v)
                 b == JS_ToNumber(w)
      <4>1. CASE a.t = "nan" \/ b.t = "nan"
        BY <4>1 DEF js_binary_arith_slow
      <4>2. CASE ~(a.t = "nan" \/ b.t = "nan")
        BY <2>2, <4>2 DEF js_binary_arith_slow
      <4> QED
        BY <4>1, <4>2
    <3> QED
      BY <3>1, <3>2, Zenon
  <2>3. CASE op \in {"and", "or", "xor", "shl", "sar", "shr"}
    <3>1. Binary(op, v, w) = js_binary_logic_slow(op, v, w)
      BY <2>3, Zenon DEF Binary
    <3>2. \E n : js_binary_logic_slow(op, v, w) = Num(n)
      BY Zenon DEF js_binary_logic_slow
    <3> QED
      BY <3>1, <3>2, Zenon
  <2>4. CASE op \in {"lt", "lte", "gt", "gte"}
    <3>1. Binary(op, v, w) = js_relational_slow(op, v, w)
      BY <2>4, Zenon DEF Binary
    <3>2. \E b : js_relational_slow(op, v, w) = Bool(b)
      BY Zenon DEF js_relational_slow
    <3> QED
      BY <3>1, <3>2, Zenon
  <2>5. CASE op \in {"eq", "neq", "strict_eq", "strict_neq"}
    <3>1. Binary(op, v, w) \in {Bool(js_eq_slow(v, w)), Bool(~js_eq_slow(v, w)), Bool(js_strict_eq(v, w)), Bool(~js_strict_eq(v, w))}
      BY <2>5, Zenon DEF Binary
    <3> QED
      BY <3>1, Zenon
  <2> QED
    BY <2>1, <2>2, <2>3, <2>4, <2>5 DEF ValueBinary
<1> QED
  BY <1>1, Scalars, Zenon

-----------------------------------------------------------------------------
(* Instructions that only the operand stack is touched by. *)
LEMMA HeapIs ==
    ASSUME TInv, Running
    PROVE  /\ HeapOK(code, objs, DOMAIN cells) /\ GrewTo(objs, objs) /\ IsSeq(objs) /\ Len(objs) \in Nat
           /\ \A i \in 1 .. Len(objs) : ObjectOK(code, objs, DOMAIN cells, objs[i])
           /\ Len(objs) >= 7
<1>1. HeapOK(code, objs, DOMAIN cells)
  BY Situation DEF Good
<1>2. IsSeq(objs) /\ Len(objs) \in Nat
  BY <1>1, Sequence DEF HeapOK
<1> QED
  BY <1>1, <1>2 DEF GrewTo, HeapOK

LEMMA FetchedOK ==
    ASSUME TInv, NEW ops, Fetch(ops)
    PROVE  Running /\ exc = NoExc /\ Opcode \in ops
BY Fetched DEF TInv, Fetch

LEMMA Continued ==
    ASSUME TInv, Running, exc = NoExc, NEW p, NEW m \in Nat, Effect(Instruction) = <<p, m>>, Opcode \notin Special \cup Enders,
           NEW st, Left(st, p, m, objs), Proceeds(st)
    PROVE  Typed'
<1>1. frames' = To(st) /\ objs' = objs /\ cells' = cells /\ exc' = NoExc /\ Going
  BY DEF Proceeds
<1>2. HeapOK(code, objs', DOMAIN cells) /\ GrewTo(objs, objs')
  BY <1>1, HeapIs
<1>3. Left(st, p, m, objs')
  BY <1>1
<1> QED
  BY <1>1, <1>2, <1>3, Computed

LEMMA ContinuedWith ==
    ASSUME TInv, Running, exc = NoExc, NEW p, Effect(Instruction) = <<p, 1>>, Opcode \notin Special \cup Enders,
           NEW v, ValueOK(objs, v)
    PROVE  /\ Proceeds(Append(Below(p), v)) => Typed'
           /\ p = 0 /\ Proceeds(Append(Top.stack, v)) => Typed'
<1>1. IsSeq(Top.stack) /\ p \in 0 .. Len(Top.stack) /\ Len(Top.stack) \in Nat
  BY Operands
<1>2. Left(Below(p), p, 0, objs) /\ Left(Top.stack, 0, 0, objs)
  BY <1>1, LeftBelow, LeftTop
<1>3. 0 \in 0 .. Len(Top.stack) /\ 0 + 1 = 1
  BY <1>1
<1>4. Left(Append(Below(p), v), p, 0 + 1, objs) /\ Left(Append(Top.stack, v), 0, 0 + 1, objs)
  <2>1. PICK st : st = Below(p)
    OBVIOUS
  <2>2. Left(Append(st, v), p, 0 + 1, objs)
    BY <1>1, <1>2, <2>1, LeftAppend
  <2>3. Left(Append(Top.stack, v), 0, 0 + 1, objs)
    BY <1>1, <1>2, <1>3, LeftAppend
  <2> QED
    BY <2>1, <2>2, <2>3
<1>5. Left(Append(Below(p), v), p, 1, objs) /\ Left(Append(Top.stack, v), 0, 1, objs)
  BY <1>3, <1>4
<1>6. ASSUME Proceeds(Append(Below(p), v))
      PROVE  Typed'
  <2>1. PICK st : st = Append(Below(p), v)
    OBVIOUS
  <2> QED
    BY <1>5, <1>6, <2>1, Continued
<1>7. ASSUME p = 0, Proceeds(Append(Top.stack, v))
      PROVE  Typed'
  <2>1. PICK st : st = Append(Top.stack, v)
    OBVIOUS
  <2> QED
    BY <1>5, <1>7, <2>1, Continued
<1> QED
  BY <1>6, <1>7

LEMMA Thrown ==
    ASSUME TInv, Running, exc = NoExc, NEW v, ValueOK(objs, v), Throw(v)
    PROVE  Typed'
<1>1. /\ Compiled(code, ShapeOf(prog)) /\ Good(code, ShapeOf(prog), objs, cells, frames, exc)
  BY Situation
<1>2. \A d \in 1 .. Len(frames) : DepthOK(ShapeOf(prog), frames, v, d)
  BY <1>1 DEF Good, DepthOK
<1>3. Good(code, ShapeOf(prog), objs, cells, frames, v)
  BY <1>1, <1>2 DEF Good
<1> QED
  BY <1>1, <1>3 DEF Throw, Typed

LEMMA ThrownError == ASSUME TInv, Running, exc = NoExc, NEW a, Throw(Error(a)) PROVE Typed'
<1>1. ValueOK(objs, Error(a))
  BY Scalars
<1> QED
  BY <1>1, Thrown

LEMMA OperatorsOK ==
    ASSUME TInv, PushConst \/ UnaryOp \/ BinaryOp \/ TypeOf \/ InOp \/ PostOp
    PROVE  Typed'
<1>1. ASSUME PushConst
      PROVE  Typed'
  <2>1. Running /\ exc = NoExc /\ Opcode \in {"push_const"}
    BY <1>1, FetchedOK DEF PushConst
  <2>2. Opcode = Instruction[1] /\ Opcode \notin Special \cup Enders
    BY <2>1, Instructed, ShuffleOps DEF Special, Enders, LiteralOps
  <2>3. Effect(Instruction) = <<0, 1>>
    BY <2>1, <2>2, EffectPair, Effects
  <2>4. PICK v : v = Const
    OBVIOUS
  <2>5. ValueOK(objs, v) /\ Proceeds(Append(Top.stack, v))
    BY <1>1, <2>4, Proceeding, Scalars DEF PushConst, Const
  <2> QED
    BY <2>1, <2>2, <2>3, <2>5, ContinuedWith
<1>2. ASSUME UnaryOp
      PROVE  Typed'
  <2>1. Running /\ exc = NoExc /\ Opcode \in ValueUnary
    BY <1>2, FetchedOK DEF UnaryOp
  <2>2. Opcode = Instruction[1] /\ Opcode \notin Special \cup Enders
    BY <2>1, Instructed, ShuffleOps DEF Special, Enders, LiteralOps, ValueUnary
  <2>3. Effect(Instruction) = <<1, 1>>
    BY <2>1, <2>2, EffectPair, Effects
  <2>4. PICK v : v = Unary(Opcode, S(0))
    OBVIOUS
  <2>5. ValueOK(objs, v)
    BY <2>1, <2>4, UnaryScalar, Scalars
  <2>6. Proceeds(Append(Below(1), v))
    BY <1>2, <2>4, Proceeding DEF UnaryOp
  <2> QED
    BY <2>1, <2>2, <2>3, <2>5, <2>6, ContinuedWith
<1>3. ASSUME BinaryOp
      PROVE  Typed'
  <2>1. Running /\ exc = NoExc /\ Opcode \in ValueBinary
    BY <1>3, FetchedOK DEF BinaryOp
  <2>2. Opcode = Instruction[1] /\ Opcode \notin Special \cup Enders
    BY <2>1, Instructed, ShuffleOps DEF Special, Enders, LiteralOps, ValueBinary
  <2>3. Effect(Instruction) = <<2, 1>>
    BY <2>1, <2>2, EffectPair, Effects
  <2>4. PICK v : v = Binary(Opcode, S(1), S(0))
    OBVIOUS
  <2>5. ValueOK(objs, v)
    BY <2>1, <2>4, BinaryScalar, Scalars
  <2>6. Proceeds(Append(Below(2), v))
    BY <1>3, <2>4, Proceeding DEF BinaryOp
  <2> QED
    BY <2>1, <2>2, <2>3, <2>5, <2>6, ContinuedWith
<1>4. ASSUME TypeOf
      PROVE  Typed'
  <2>1. Running /\ exc = NoExc /\ Opcode \in {"typeof"}
    BY <1>4, FetchedOK DEF TypeOf
  <2>2. Opcode = Instruction[1] /\ Opcode \notin Special \cup Enders
    BY <2>1, Instructed, ShuffleOps DEF Special, Enders, LiteralOps
  <2>3. Effect(Instruction) = <<1, 1>>
    BY <2>1, <2>2, EffectPair, Effects
  <2>4. PICK v : v = Str(js_operator_typeof(objs, S(0)))
    OBVIOUS
  <2>5. ValueOK(objs, v) /\ Proceeds(Append(Below(1), v))
    BY <1>4, <2>4, Proceeding, Scalars DEF TypeOf
  <2> QED
    BY <2>1, <2>2, <2>3, <2>5, ContinuedWith
<1>5. ASSUME InOp
      PROVE  Typed'
  <2>1. Running /\ exc = NoExc /\ Opcode \in {"in"}
    BY <1>5, FetchedOK DEF InOp
  <2>2. Opcode = Instruction[1] /\ Opcode \notin Special \cup Enders
    BY <2>1, Instructed, ShuffleOps DEF Special, Enders, LiteralOps
  <2>3. Effect(Instruction) = <<2, 1>>
    BY <2>1, <2>2, EffectPair, Effects
  <2>4. PICK v : v = Bool(JS_HasProperty(objs, S(0).n, JS_ToPropertyKey(S(1))))
    OBVIOUS
  <2>5. ValueOK(objs, v)
    BY <2>4, Scalars, Zenon
  <2>6. Throw(Error("TypeError")) \/ Proceeds(Append(Below(2), v))
    BY <1>5, <2>4, Proceeding, Zenon DEF InOp
  <2> QED
    BY <2>1, <2>2, <2>3, <2>5, <2>6, ContinuedWith, ThrownError
<1>6. ASSUME PostOp
      PROVE  Typed'
  <2>1. Running /\ exc = NoExc /\ Opcode \in {"post_inc", "post_dec"}
    BY <1>6, FetchedOK DEF PostOp
  <2>2. Opcode = Instruction[1] /\ Opcode \notin Special \cup Enders
    BY <2>1, Instructed, ShuffleOps DEF Special, Enders, LiteralOps
  <2>3. Effect(Instruction) = <<1, 2>>
    BY <2>1, <2>2, EffectPair, Effects
  <2>4. PICK v, w, t : /\ v = JS_ToNumber(S(0)) /\ w = Unary(IF Opcode = "post_inc" THEN "inc" ELSE "dec", v)
                       /\ t = Below(1) \o <<v, w>>
    OBVIOUS
  <2>5. ValueOK(objs, v) /\ ValueOK(objs, w)
    <3>1. Scalar(v)
      BY <2>4, ToNumber DEF Scalar
    <3>2. Scalar(w)
      BY <2>4, UnaryScalar DEF ValueUnary
    <3> QED
      BY <3>1, <3>2, Scalars
  <2>6. Proceeds(t)
    BY <1>6, <2>4 DEF PostOp, Proceeds, Quiet, Going
  <2>7. /\ IsSeq(Top.stack) /\ Len(Top.stack) \in Nat /\ 1 \in 0 .. Len(Top.stack)
    BY <2>1, <2>3, Operands
  <2>8. PICK rest, two : rest = Below(1) /\ two = <<v, w>>
    OBVIOUS
  <2>9. IsSeq(rest) /\ Len(rest) = Len(Top.stack) - 1 /\ \A i \in 1 .. Len(Top.stack) - 1 : rest[i] = Top.stack[i]
    BY <2>7, <2>8, LessOf DEF Below
  <2>10. IsSeq(two) /\ Len(two) = 2 /\ two[1] = v /\ two[2] = w
    BY <2>8, PairTuple
  <2>11. JoinOf(t, rest, two)
    BY <2>4, <2>8, <2>9, <2>10, ConcatOf
  <2>12. \A i \in 1 .. 2 : ValueOK(objs, two[i])
    <3>1. \A i \in 1 .. 2 : i = 1 \/ i = 2
      OBVIOUS
    <3> QED
      BY <2>5, <2>10, <3>1, Zenon
  <2>13. Left(t, 1, 2, objs)
    BY <2>9, <2>10, <2>11, <2>12 DEF JoinOf, Left, KeptTo
  <2> QED
    BY <2>1, <2>2, <2>3, <2>6, <2>13, Continued
<1> QED
  BY <1>1, <1>2, <1>3, <1>4, <1>5, <1>6

(* The kinds of places that the instruction's own kind is for. *)
LEMMA Places ==
    ASSUME TInv, Running, exc = NoExc, NEW p \in 0 .. Len(Here), NEW m \in Nat, NEW news,
           NEW ks, ks = Shaped(Instruction, Here), Reshaped(ks, Here, p, m, news), Opcode \notin Enders,
           NEW vals, NEW st, Reshaped(st, Top.stack, p, m, vals),
           \A i \in 1 .. m : Holds(Fn, Shape, objs', vals[i], news[i]),
           frames' = To(st), cells' = cells, exc' = NoExc, Going,
           HeapOK(code, objs', DOMAIN cells), GrewTo(objs, objs')
    PROVE  Typed'
<1>1. PICK heap, pc : heap = objs' /\ pc = Top.pc + 1
  OBVIOUS
<1>2. StackOK(Fn, Shape, heap, st, ks) /\ IsSeq(ks) /\ Len(st) = Len(ks)
  BY <1>1, Leaves
<1>3. <<pc, ks>> \in Successors(Fn, Shape, Top.pc)
  BY <1>1, Falls
<1>4. pc \in DOMAIN Shape /\ StackOK(Fn, Shape, heap, st, Shape[pc]) /\ Len(st) = Len(Shape[pc])
  BY <1>2, <1>3, Reaches
<1>5. frames' = Jump(st, pc)
  BY <1>1 DEF To, Jump
<1> QED
  BY <1>1, <1>4, <1>5, Jumped

LEMMA PushOK == ASSUME TInv, Push PROVE Typed'
<1>1. Running /\ exc = NoExc /\ Opcode \in DOMAIN Pushed
  BY FetchedOK DEF Push
<1>2. Opcode \in {"push_value", "undefined", "null", "push_this", "push_false", "push_true", "this_func", "new_target", "catch"}
  BY <1>1 DEF Pushed
<1>3. PICK v : v = Pushed[Opcode]
  OBVIOUS
<1>4. Proceeds(Append(Top.stack, v))
  BY <1>3, Proceeding DEF Push
<1>5. Opcode = Instruction[1] /\ Operand = Instruction[2] /\ Opcode \notin Enders
  BY <1>1, <1>2, Instructed DEF Enders
<1>6. CASE Opcode = "catch"
  <2>1. Effect(Instruction) = <<0, 1>>
    <3>1. Instruction[1] \in {"catch"}
      BY <1>5, <1>6
    <3> QED
      BY <3>1, EffectPair, Effects
  <2>2. IsSeq(Here) /\ Len(Here) \in Nat /\ 0 \in 0 .. Len(Here) /\ IsSeq(Top.stack) /\ Len(Top.stack) = Len(Here)
    BY <1>1, <2>1, Instructed, Situation, Operands, Sequence
  <2>3. PICK ks, k : ks = Shaped(Instruction, Here) /\ k = Kind("catch", Operand)
    OBVIOUS
  <2>4. Reshaped(ks, Here, 0, 1, <<k>>)
    BY <1>5, <1>6, <2>1, <2>2, <2>3, SpecialShapes
  <2>5. PICK st : st = Append(Top.stack, v)
    OBVIOUS
  <2>6. Reshaped(st, Top.stack, 0, 1, <<v>>)
    <3>1. Top.stack = Less(Top.stack, 0)
      BY <2>2, NothingLess
    <3> QED
      BY <2>2, <2>5, <3>1, AppendOf
  <2>7. Holds(Fn, Shape, objs, v, k)
    <3>1. v = CatchOffset(Operand)
      BY <1>3, <1>6 DEF Pushed
    <3> QED
      BY <2>3, <3>1 DEF Holds, Kind, CatchOffset, Value, Plain
  <2>8. \A i \in 1 .. 1 : Holds(Fn, Shape, objs', <<v>>[i], <<k>>[i])
    BY <1>4, <2>7 DEF Proceeds
  <2>9. /\ frames' = To(st) /\ cells' = cells /\ exc' = NoExc /\ Going
        /\ HeapOK(code, objs', DOMAIN cells) /\ GrewTo(objs, objs')
    BY <1>1, <1>4, <2>5, HeapIs DEF Proceeds
  <2> QED
    BY <1>1, <1>5, <2>2, <2>3, <2>4, <2>6, <2>8, <2>9, Places
<1>7. CASE Opcode # "catch"
  <2>1. Effect(Instruction) = <<0, 1>>
    BY <1>2, <1>5, EffectPair, Effects
  <2>2. Opcode \notin Special
    BY <1>2, <1>7, ShuffleOps DEF Special, LiteralOps
  <2>3. ValueOK(objs, v)
    <3>1. ValueOK(objs, Top.this) /\ ValueOK(objs, Top.func)
      BY <1>1, Situation DEF FrameOK
    <3>2. PICK a, b, c, d, e, f, g, h, k :
             /\ Pushed = [push_value |-> a, undefined |-> b, null |-> c, push_this |-> d, push_false |-> e,
                          push_true |-> f, this_func |-> g, new_target |-> h, catch |-> k]
             /\ a = Num(Operand) /\ b = Undefined /\ c = Null /\ d = Top.this /\ e = Bool(FALSE) /\ f = Bool(TRUE)
             /\ g = Top.func /\ h = IF CTOR \in Top.flags THEN Top.func ELSE Undefined
      BY Zenon DEF Pushed
    <3>3. v \in {a, b, c, d, e, f, g, h}
      <4>1. Pushed = [push_value |-> a, undefined |-> b, null |-> c, push_this |-> d, push_false |-> e,
                      push_true |-> f, this_func |-> g, new_target |-> h, catch |-> k]
        BY <3>2, Zenon
      <4> QED
        BY <1>2, <1>3, <1>7, <4>1
    <3>4. \A x \in {a, b, c, d, e, f, g, h} : ValueOK(objs, x)
      BY <3>1, <3>2, Scalars, Zenon
    <3> QED
      BY <3>3, <3>4
  <2> QED
    BY <1>1, <1>4, <1>5, <2>1, <2>2, <2>3, ContinuedWith
<1> QED
  BY <1>6, <1>7

LEMMA GetSlotOK == ASSUME TInv, GetSlot PROVE Typed'
<1>1. Running /\ exc = NoExc /\ Opcode \in {"get_loc", "get_arg"}
  BY FetchedOK DEF GetSlot
<1>2. /\ Opcode = Instruction[1] /\ Operand = Instruction[2] /\ NamesKept(code, Fn, Instruction)
      /\ Opcode \notin Special \cup Enders
  BY <1>1, Instructed, ShuffleOps DEF Special, Enders, LiteralOps
<1>3. Effect(Instruction) = <<0, 1>>
  BY <1>1, <1>2, EffectPair, Effects
<1>4. FrameOK(code, ShapeOf(prog), objs, Top)
  BY <1>1, Situation
<1>5. PICK v : v = SlotOf(Top, IF Opcode = "get_loc" THEN "loc" ELSE "arg", Operand)
  OBVIOUS
<1>6. ValueOK(objs, v)
  <2>1. CASE Opcode = "get_loc"
    <3>1. Operand \in 1 .. Len(Top.locs)
      BY <1>2, <1>4, <2>1 DEF NamesKept, FrameOK, Fn
    <3> QED
      BY <1>4, <1>5, <2>1, <3>1 DEF FrameOK, ValuesOK, SlotOf
  <2>2. CASE Opcode = "get_arg"
    <3>1. Operand \in 1 .. Fn.nargs /\ Fn.nargs <= Len(Top.args) /\ Len(Top.args) \in Nat
      BY <1>2, <1>4, <2>2, Sequence DEF NamesKept, FrameOK, Fn, ValuesOK
    <3>2. Operand \in 1 .. Len(Top.args)
      <4>1. Fn.nargs \in Int
        BY <1>1, Situation DEF ShapeKept
      <4> QED
        BY <3>1, <4>1
    <3> QED
      BY <1>4, <1>5, <2>2, <3>2 DEF FrameOK, ValuesOK, SlotOf
  <2> QED
    BY <1>1, <2>1, <2>2
<1>7. Proceeds(Append(Top.stack, v))
  BY <1>5, Proceeding DEF GetSlot
<1> QED
  BY <1>1, <1>2, <1>3, <1>6, <1>7, ContinuedWith

(* What a cell refers to. *)
LEMMA CellHolds ==
    ASSUME TInv, Running, NEW r \in DOMAIN cells
    PROVE  ValueOK(objs, CellValue(cells[r]))
<1>1. /\ CellOK(objs, frames, cells[r])
      /\ \A d \in 1 .. Len(frames) : FrameOK(code, ShapeOf(prog), objs, frames[d])
  BY Situation DEF Good
<1>2. PICK c : c = cells[r]
  OBVIOUS
<1>3. CASE c.attached
  <2>1. /\ c.depth \in 1 .. Len(frames)
        /\ \/ c.kind = "arg" /\ c.idx \in 1 .. Len(frames[c.depth].args)
           \/ c.kind = "loc" /\ c.idx \in 1 .. Len(frames[c.depth].locs)
    BY <1>1, <1>2, <1>3 DEF CellOK
  <2>2. ValuesOK(objs, frames[c.depth].args) /\ ValuesOK(objs, frames[c.depth].locs)
    BY <1>1, <2>1 DEF FrameOK
  <2>3. ValueOK(objs, SlotOf(frames[c.depth], c.kind, c.idx))
    BY <2>1, <2>2 DEF ValuesOK, SlotOf
  <2> QED
    BY <1>2, <1>3, <2>3 DEF CellValue
<1>4. CASE ~c.attached
  BY <1>1, <1>2, <1>4 DEF CellOK, CellValue
<1> QED
  BY <1>3, <1>4

LEMMA RefIs ==
    ASSUME TInv, Running, Operand \in DOMAIN Fn.ext
    PROVE  Ref \in DOMAIN cells
<1>1. FrameOK(code, ShapeOf(prog), objs, Top)
  BY Situation
<1>2. PICK o : o = objs[Top.func.n]
  OBVIOUS
<1>3. /\ Top.func.n \in 1 .. Len(objs) /\ o.cls = "closure" /\ o.fn = Top.fn
  BY <1>1, <1>2 DEF FrameOK, ValueOK
<1>4. ObjectOK(code, objs, DOMAIN cells, o)
  BY <1>2, <1>3, HeapIs
<1>5. \A i \in DOMAIN Fn.ext : o.refs[i] \in DOMAIN cells
  BY <1>3, <1>4 DEF ObjectOK, Fn
<1> QED
  BY <1>2, <1>5 DEF Ref

LEMMA GetVarRefOK == ASSUME TInv, GetVarRef PROVE Typed'
<1>1. Running /\ exc = NoExc /\ Opcode \in {"get_var_ref", "get_var_ref_nocheck"}
  BY FetchedOK DEF GetVarRef
<1>2. /\ Opcode = Instruction[1] /\ Operand = Instruction[2] /\ NamesKept(code, Fn, Instruction)
      /\ Opcode \notin Special \cup Enders
  BY <1>1, Instructed, ShuffleOps DEF Special, Enders, LiteralOps
<1>3. Effect(Instruction) = <<0, 1>>
  BY <1>1, <1>2, EffectPair, Effects
<1>4. Ref \in DOMAIN cells
  BY <1>1, <1>2, RefIs DEF NamesKept
<1>5. PICK v : v = CellValue(cells[Ref])
  OBVIOUS
<1>6. ValueOK(objs, v)
  BY <1>1, <1>4, <1>5, CellHolds
<1>7. Throw(Error("ReferenceError")) \/ Proceeds(Append(Top.stack, v))
  BY <1>5, Proceeding DEF GetVarRef
<1> QED
  BY <1>1, <1>2, <1>3, <1>6, <1>7, ContinuedWith, ThrownError

-----------------------------------------------------------------------------
(* New objects. *)
LEMMA EmptyObject ==
    ASSUME NEW heap, NEW cls, NEW proto, NEW o, o = Object(cls, proto)
    PROVE  /\ DOMAIN o = ObjectFields /\ o.cls = cls /\ o.proto = proto /\ o.pos = 0
           /\ PropertiesOK(heap, o.props) /\ ValuesOK(heap, o.tab)
<1>1. PICK t : t = <<>>
  OBVIOUS
<1>2. IsSeq(t) /\ Len(t) = 0
  BY <1>1, EmptyTuple
<1>3. /\ DOMAIN o = ObjectFields /\ o.cls = cls /\ o.proto = proto /\ o.props = t /\ o.tab = t /\ o.pos = 0
  BY <1>1 DEF Object, ObjectFields
<1> QED
  BY <1>2, <1>3 DEF PropertiesOK, ValuesOK

LEMMA PlainObjectOK ==
    ASSUME NEW fns, NEW heap, NEW places, NEW proto \in 0 .. Len(heap), NEW o, o = Object("object", proto)
    PROVE  ObjectOK(fns, heap, places, o) /\ o.proto = proto
<1>1. /\ DOMAIN o = ObjectFields /\ o.cls = "object" /\ o.proto = proto
      /\ PropertiesOK(heap, o.props) /\ ValuesOK(heap, o.tab)
  BY EmptyObject
<1> QED
  BY <1>1 DEF ObjectOK

LEMMA ArrayOK ==
    ASSUME NEW fns, NEW heap, NEW places, Len(heap) \in Nat, Len(heap) >= 7, NEW tab, ValuesOK(heap, tab),
           NEW o, o = [Object("array", ArrayProto) EXCEPT !.tab = tab]
    PROVE  ObjectOK(fns, heap, places, o) /\ o.proto = 3
<1>1. PICK b : b = Object("array", ArrayProto)
  OBVIOUS
<1>2. /\ DOMAIN b = ObjectFields /\ b.cls = "array" /\ b.proto = ArrayProto
      /\ PropertiesOK(heap, b.props) /\ ValuesOK(heap, b.tab)
  BY <1>1, EmptyObject
<1>3. /\ DOMAIN o = ObjectFields /\ o.cls = "array" /\ o.proto = ArrayProto /\ o.tab = tab /\ o.props = b.props
  BY <1>1, <1>2 DEF ObjectFields
<1>4. ArrayProto = 3 /\ ArrayProto \in 0 .. Len(heap)
  BY DEF ArrayProto
<1> QED
  BY <1>2, <1>3, <1>4 DEF ObjectOK

(* An instruction that puts a new object on top of what it leaves. *)
LEMMA Allocated ==
    ASSUME TInv, Running, NEW o, NEW st, Allocate(o, st),
           GrewTo(objs, objs') => ObjectOK(code, objs', DOMAIN cells, o), o.proto \in {1, 2, 3}
    PROVE  /\ HeapOK(code, objs', DOMAIN cells) /\ GrewTo(objs, objs') /\ ValueOK(objs', Obj(Len(objs) + 1))
           /\ frames' = To(Append(st, Obj(Len(objs) + 1))) /\ cells' = cells /\ exc' = exc /\ Going
<1>1. HeapOK(code, objs, DOMAIN cells) /\ Len(objs) \in Nat /\ Len(objs) >= 7
  BY HeapIs
<1>2. PICK heap : heap = objs'
  OBVIOUS
<1>3. heap = Append(objs, o)
  BY <1>2 DEF Allocate
<1>4. o.proto # Len(objs) + 1
  BY <1>1
<1>5. HeapStep(code, objs, heap, DOMAIN cells)
  BY <1>1, <1>2, <1>3, <1>4, NewObjectOK
<1>7. Len(heap) = Len(objs) + 1
  <2>1. ExtensionOf(heap, objs, o)
    BY <1>3, HeapIs, Extended
  <2> QED
    BY <2>1 DEF ExtensionOf
<1>6. ValueOK(heap, Obj(Len(objs) + 1))
  BY <1>1, <1>7 DEF ValueOK, Obj, Value
<1> QED
  BY <1>2, <1>5, <1>6 DEF HeapStep, Allocate, Quiet, Going

LEMMA NewObjectInstruction == ASSUME TInv, NewObject PROVE Typed'
<1>1. Running /\ exc = NoExc /\ Opcode \in {"object"}
  BY FetchedOK DEF NewObject
<1>2. Opcode = Instruction[1] /\ IsSeq(Here) /\ Opcode \notin Enders
  BY <1>1, Instructed DEF Enders
<1>3. Effect(Instruction) = <<0, 1>>
  BY <1>1, <1>2, EffectPair, Effects
<1>4. Len(Here) \in Nat /\ 0 \in 0 .. Len(Here) /\ IsSeq(Top.stack) /\ Len(Top.stack) = Len(Here)
  BY <1>1, <1>2, <1>3, Situation, Operands, Sequence
<1>5. PICK o : o = Object("object", ObjectProto)
  OBVIOUS
<1>6. ObjectProto = 1 /\ Len(objs) >= 7 /\ Len(objs) \in Nat
  BY <1>1, HeapIs DEF ObjectProto
<1>7. GrewTo(objs, objs') => ObjectOK(code, objs', DOMAIN cells, o)
  <2>1. ASSUME GrewTo(objs, objs')
        PROVE  ObjectOK(code, objs', DOMAIN cells, o)
    <3>1. ObjectProto \in 0 .. Len(objs')
      BY <1>6, <2>1 DEF GrewTo
    <3> QED
      BY <1>5, <3>1, PlainObjectOK
  <2> QED
    BY <2>1
<1>8. o.proto \in {1, 2, 3}
  BY <1>5, <1>6, EmptyObject
<1>9. PICK v, st : v = Obj(Len(objs) + 1) /\ st = Append(Top.stack, v)
  OBVIOUS
<1>10. /\ HeapOK(code, objs', DOMAIN cells) /\ GrewTo(objs, objs') /\ ValueOK(objs', v)
       /\ frames' = To(st) /\ cells' = cells /\ exc' = NoExc /\ Going
  <2>1. Allocate(o, Top.stack)
    BY <1>5 DEF NewObject
  <2>2. /\ HeapOK(code, objs', DOMAIN cells) /\ GrewTo(objs, objs') /\ ValueOK(objs', Obj(Len(objs) + 1))
        /\ frames' = To(Append(Top.stack, Obj(Len(objs) + 1))) /\ cells' = cells /\ exc' = exc /\ Going
    BY <1>1, <1>7, <1>8, <2>1, Allocated
  <2> QED
    BY <1>1, <1>9, <2>2
<1>11. PICK ks, k : ks = Shaped(Instruction, Here) /\ k = Kind("object", 0)
  OBVIOUS
<1>12. Reshaped(ks, Here, 0, 1, <<k>>)
  BY <1>1, <1>2, <1>3, <1>4, <1>11, SpecialShapes
<1>13. Reshaped(st, Top.stack, 0, 1, <<v>>)
  <2>1. Top.stack = Less(Top.stack, 0)
    BY <1>4, NothingLess
  <2> QED
    BY <1>4, <1>9, <2>1, AppendOf
<1>14. Holds(Fn, Shape, objs', v, k)
  <2>1. k.k = "object" /\ v.t = "obj"
    BY <1>9, <1>11 DEF Kind, Obj, Value
  <2> QED
    BY <1>10, <2>1 DEF Holds, Plain
<1>15. \A i \in 1 .. 1 : Holds(Fn, Shape, objs', <<v>>[i], <<k>>[i])
  BY <1>14
<1> QED
  BY <1>1, <1>2, <1>4, <1>10, <1>11, <1>12, <1>13, <1>15, Places

LEMMA ArraysOK == ASSUME TInv, ArrayFrom \/ Arguments PROVE Typed'
<1>1. Running /\ exc = NoExc /\ Opcode \in {"array_from", "arguments"}
  BY FetchedOK DEF ArrayFrom, Arguments
<1>2. Opcode = Instruction[1] /\ Operand = Instruction[2] /\ Opcode \notin Special \cup Enders
  BY <1>1, Instructed, ShuffleOps DEF Special, Enders, LiteralOps
<1>3. PICK p : p = IF Opcode = "array_from" THEN Operand ELSE 0
  OBVIOUS
<1>4. Effect(Instruction) = <<p, 1>>
  <2>1. PICK q, m : Effect(Instruction) = <<q, m>>
    BY EffectPair
  <2>2. CASE Opcode = "array_from"
    <3>1. q = Instruction[2] /\ m = 1
      BY <1>2, <2>1, <2>2, Effects
    <3> QED
      BY <1>2, <1>3, <2>1, <2>2, <3>1
  <2>3. CASE Opcode = "arguments"
    <3>1. Instruction[1] \in {"arguments"}
      BY <1>2, <2>3
    <3>2. q = 0 /\ m = 1
      BY <2>1, <3>1, Effects
    <3> QED
      BY <1>3, <2>1, <2>3, <3>2
  <2> QED
    BY <1>1, <2>2, <2>3
<1>5. IsSeq(Top.stack) /\ Len(Top.stack) \in Nat /\ p \in 0 .. Len(Top.stack)
  BY <1>1, <1>4, Operands
<1>6. PICK tab : tab = IF Opcode = "array_from" THEN [i \in 1 .. Operand |-> S(Operand - i)] ELSE SubSeq(Top.args, 1, Top.argc)
  OBVIOUS
<1>7. ValuesOK(objs, tab)
  <2>1. CASE Opcode = "array_from"
    <3>1. tab = [i \in 1 .. p |-> S(p - i)] /\ p \in Nat
      BY <1>3, <1>5, <1>6, <2>1
    <3>2. IsSeq(tab) /\ Len(tab) = p
      <4>1. tab = [i \in 1 .. p |-> tab[i]]
        BY <3>1
      <4> QED
        BY <3>1, <4>1, FunctionOf
    <3>3. \A i \in 0 .. p - 1 : ValueOK(objs, S(i))
      BY <1>1, <1>4, <2>1, Operands, ShuffleOps
    <3>4. ASSUME NEW i \in 1 .. p
          PROVE  ValueOK(objs, tab[i])
      <4>1. p - i \in 0 .. p - 1 /\ tab[i] = S(p - i)
        BY <3>1
      <4> QED
        BY <3>3, <4>1
    <3> QED
      BY <3>2, <3>4 DEF ValuesOK
  <2>2. CASE Opcode = "arguments"
    <3>1. ValuesOK(objs, Top.args) /\ Top.argc \in 0 .. Len(Top.args)
      BY <1>1, Situation DEF FrameOK
    <3>2. IsSeq(tab) /\ Len(tab) = Top.argc /\ \A i \in 1 .. Top.argc : tab[i] = Top.args[i]
      <4>1. PICK as, n : as = Top.args /\ n = Top.argc
        OBVIOUS
      <4>2. IsSeq(as) /\ n \in 0 .. Len(as) /\ tab = SubSeq(as, 1, n)
        BY <1>6, <2>2, <3>1, <4>1 DEF ValuesOK
      <4>3. IsSeq(tab) /\ Len(tab) = n /\ \A i \in 1 .. n : tab[i] = as[i]
        BY <4>2, CutOf
      <4> QED
        BY <4>1, <4>3
    <3>3. Len(Top.args) \in Nat
      BY <3>1, Sequence DEF ValuesOK
    <3> QED
      BY <3>1, <3>2, <3>3 DEF ValuesOK
  <2> QED
    BY <1>1, <2>1, <2>2
<1>8. PICK o : o = [Object("array", ArrayProto) EXCEPT !.tab = tab]
  OBVIOUS
<1>9. Len(objs) >= 7 /\ Len(objs) \in Nat
  BY <1>1, HeapIs
<1>10. GrewTo(objs, objs') => ObjectOK(code, objs', DOMAIN cells, o)
  <2>1. ASSUME GrewTo(objs, objs')
        PROVE  ObjectOK(code, objs', DOMAIN cells, o)
    <3>1. ValuesOK(objs', tab)
      BY <1>7, <2>1, StaysOK
    <3>2. Len(objs') \in Nat /\ Len(objs') >= 7
      BY <1>9, <2>1 DEF GrewTo
    <3> QED
      BY <1>8, <3>1, <3>2, ArrayOK
  <2> QED
    BY <2>1
<1>11. o.proto \in {1, 2, 3}
  BY <1>7, <1>8, <1>9, ArrayOK
<1>12. PICK rest : rest = IF Opcode = "array_from" THEN Below(p) ELSE Top.stack
  OBVIOUS
<1>13. Allocate(o, rest)
  BY <1>1, <1>3, <1>6, <1>8, <1>12 DEF ArrayFrom, Arguments, Fetch
<1>14. /\ HeapOK(code, objs', DOMAIN cells) /\ GrewTo(objs, objs') /\ ValueOK(objs', Obj(Len(objs) + 1))
       /\ frames' = To(Append(rest, Obj(Len(objs) + 1))) /\ cells' = cells /\ exc' = exc /\ Going
  BY <1>1, <1>10, <1>11, <1>13, Allocated
<1>15. Left(rest, p, 0, objs')
  <2>1. CASE Opcode = "array_from"
    BY <1>5, <1>12, <2>1, LeftBelow
  <2>2. CASE Opcode # "array_from"
    BY <1>3, <1>5, <1>12, <2>2, LeftTop
  <2> QED
    BY <2>1, <2>2
<1>16. PICK v, st : v = Obj(Len(objs) + 1) /\ st = Append(rest, v)
  OBVIOUS
<1>17. Left(st, p, 0 + 1, objs')
  BY <1>5, <1>14, <1>15, <1>16, LeftAppend
<1>18. Left(st, p, 1, objs')
  BY <1>17
<1> QED
  BY <1>1, <1>2, <1>4, <1>14, <1>16, <1>18, Computed

-----------------------------------------------------------------------------
(* Instructions that put operands back. *)
LEMMA PickedOperands ==
    ASSUME NEW op \in Shuffles, NEW p, NEW m, NEW x, Effect(<<op, x>>) = <<p, m>>
    PROVE  /\ p \in Nat /\ IsSeq(Picks[op]) /\ Len(Picks[op]) \in Nat
           /\ DOMAIN Picks[op] = 1 .. Len(Picks[op])
           /\ \A i \in 1 .. Len(Picks[op]) : Picks[op][i] \in 0 .. p - 1
<1>1. PICK t : t = Picks[op]
  OBVIOUS
<1>2. PICK c : c = <<op, x>>
  OBVIOUS
<1>3. c[1] = op /\ Effect(c) = <<p, m>>
  BY <1>2
<1>4. op \in {"drop", "nip", "dup", "dup2", "insert2", "insert3", "perm3", "perm4", "swap", "rot3l"}
  BY ShuffleOps
<1>5. /\ p \in {1, 2, 3, 4}
      /\ op \in {"nip", "dup2", "insert2", "swap"} => p = 2
      /\ op \in {"insert3", "perm3", "rot3l"} => p = 3
      /\ op = "perm4" => p = 4
  BY <1>3, <1>4, Effects
<1>6. t \in Seq(0 .. p - 1)
  <2>1. CASE op = "drop"
    BY <1>1, <1>5, <2>1 DEF Picks
  <2>2. CASE op = "nip"
    BY <1>1, <1>5, <2>2 DEF Picks
  <2>3. CASE op = "dup"
    BY <1>1, <1>5, <2>3 DEF Picks
  <2>4. CASE op = "dup2"
    BY <1>1, <1>5, <2>4 DEF Picks
  <2>5. CASE op = "insert2"
    BY <1>1, <1>5, <2>5 DEF Picks
  <2>6. CASE op = "insert3"
    BY <1>1, <1>5, <2>6 DEF Picks
  <2>7. CASE op = "perm3"
    BY <1>1, <1>5, <2>7 DEF Picks
  <2>8. CASE op = "perm4"
    BY <1>1, <1>5, <2>8 DEF Picks
  <2>9. CASE op = "swap"
    BY <1>1, <1>5, <2>9 DEF Picks
  <2>10. CASE op = "rot3l"
    BY <1>1, <1>5, <2>10 DEF Picks
  <2> QED
    BY <1>4, <2>1, <2>2, <2>3, <2>4, <2>5, <2>6, <2>7, <2>8, <2>9, <2>10
<1>7. \A i \in 1 .. Len(t) : t[i] \in 0 .. p - 1
  <2>1. PICK E : E = 0 .. p - 1
    OBVIOUS
  <2>2. t \in Seq(E)
    BY <1>6, <2>1
  <2>3. \A i \in 1 .. Len(t) : t[i] \in E
    BY <2>2
  <2> QED
    BY <2>1, <2>3
<1>8. IsSeq(t)
  BY <1>6, IsSeqOf
<1> QED
  BY <1>1, <1>5, <1>7, <1>8, Sequence

LEMMA ShuffledOf ==
    ASSUME NEW op \in Shuffles, NEW p, NEW m, Effect(<<op, 0>>) = <<p, m>>, NEW s, IsSeq(s), p \in 0 .. Len(s),
           NEW t, t = Shuffled(op, s)
    PROVE  Reshaped(t, s, p, Len(Picks[op]), [i \in 1 .. Len(Picks[op]) |-> FromTop(s, Picks[op][i])])
<1>1. Len(Picks[op]) \in Nat /\ DOMAIN Picks[op] = 1 .. Len(Picks[op])
  BY PickedOperands
<1>2. PICK n : n = Len(Picks[op])
  OBVIOUS
<1>3. PICK news : news = [i \in 1 .. n |-> FromTop(s, Picks[op][i])]
  OBVIOUS
<1>4. IsSeq(news) /\ Len(news) = n
  <2>1. news = [i \in 1 .. n |-> news[i]]
    BY <1>3
  <2> QED
    BY <1>1, <1>2, <2>1, FunctionOf
<1>5. t = Less(s, p) \o news
  <2>1. Effect(<<op, 0>>)[1] = p
    OBVIOUS
  <2>2. t = Less(s, Effect(<<op, 0>>)[1]) \o [i \in DOMAIN Picks[op] |-> FromTop(s, Picks[op][i])]
    BY Zenon DEF Shuffled
  <2> QED
    BY <1>1, <1>2, <1>3, <2>1, <2>2, Zenon
<1>6. Reshaped(t, s, p, n, news)
  BY <1>1, <1>2, <1>4, <1>5, ReshapeOf
<1> QED
  BY <1>2, <1>3, <1>6, Zenon

LEMMA ShuffleOK == ASSUME TInv, Shuffle PROVE Typed'
<1>1. Running /\ exc = NoExc /\ Opcode \in Shuffles
  BY FetchedOK DEF Shuffle
<1>2. Opcode = Instruction[1] /\ IsSeq(Here) /\ OperandsKept(Instruction, Here) /\ Opcode \notin Enders
  BY <1>1, Instructed, ShuffleOps DEF Enders
<1>3. StackOK(Fn, Shape, objs, Top.stack, Here) /\ Len(Top.stack) = Len(Here)
  BY <1>1, Situation
<1>4. PICK op : op = Opcode
  OBVIOUS
<1>5. PICK p, m : Effect(<<op, 0>>) = <<p, m>>
  BY EffectPair
<1>6. Effect(Instruction) = <<p, m>>
  <2>1. PICK q, k : Effect(Instruction) = <<q, k>>
    BY EffectPair
  <2>2. PICK c : c = <<op, 0>>
    OBVIOUS
  <2>3. c[1] = op /\ Effect(c) = <<p, m>> /\ Instruction[1] = op
    BY <1>2, <1>4, <1>5, <2>2
  <2>4. op \in {"drop", "nip", "dup", "dup2", "insert2", "insert3", "perm3", "perm4", "swap", "rot3l"}
    BY <1>1, <1>4, ShuffleOps
  <2>5. op \in {"drop"} \/ op \in {"nip"} \/ op \in {"dup"} \/ op \in {"swap"} \/ op \in {"perm3", "rot3l"}
        \/ op = "dup2" \/ op = "insert2" \/ op = "insert3" \/ op = "perm4"
    BY <2>4
  <2>6. q = p /\ k = m
    BY <2>1, <2>3, <2>5, Effects
  <2> QED
    BY <2>1, <2>6
<1>7. IsSeq(Top.stack) /\ Len(Top.stack) \in Nat /\ p \in 0 .. Len(Top.stack)
  BY <1>1, <1>6, Operands
<1>8. PICK n : n = Len(Picks[op])
  OBVIOUS
<1>9. n \in Nat /\ \A i \in 1 .. n : Picks[op][i] \in 0 .. p - 1
  BY <1>1, <1>4, <1>5, <1>8, PickedOperands
<1>10. PICK ks, st : ks = Shaped(Instruction, Here) /\ st = Shuffled(op, Top.stack)
  OBVIOUS
<1>11. PICK news, vals : /\ news = [i \in 1 .. n |-> FromTop(Here, Picks[op][i])]
                         /\ vals = [i \in 1 .. n |-> FromTop(Top.stack, Picks[op][i])]
  OBVIOUS
<1>12. Reshaped(ks, Here, p, n, news)
  <2>1. ks = Shuffled(op, Here)
    <3>1. Opcode \notin LiteralOps \cup {"object", "for_in_start", "for_of_start", "catch", "for_of_next"}
      BY <1>1, ShuffleOps DEF LiteralOps
    <3> QED
      BY <1>1, <1>2, <1>4, <1>10, <3>1, Zenon DEF Shaped
  <2> QED
    BY <1>1, <1>2, <1>3, <1>4, <1>5, <1>7, <1>8, <1>11, <2>1, ShuffledOf
<1>13. Reshaped(st, Top.stack, p, n, vals)
  BY <1>1, <1>4, <1>5, <1>7, <1>8, <1>10, <1>11, ShuffledOf
<1>14. Proceeds(st)
  BY <1>4, <1>10, Proceeding DEF Shuffle
<1>15. ASSUME NEW i \in 1 .. n
       PROVE  Holds(Fn, Shape, objs, vals[i], news[i])
  <2>1. PICK j : j = Picks[op][i]
    OBVIOUS
  <2>2. j \in 0 .. p - 1 /\ Len(Here) - j \in 1 .. Len(Top.stack)
    BY <1>3, <1>7, <1>9, <2>1
  <2>3. vals[i] = Top.stack[Len(Here) - j] /\ news[i] = Here[Len(Here) - j]
    BY <1>3, <1>11, <2>1 DEF FromTop
  <2> QED
    BY <1>3, <2>2, <2>3 DEF StackOK
<1>16. /\ frames' = To(st) /\ cells' = cells /\ exc' = NoExc /\ Going
       /\ HeapOK(code, objs', DOMAIN cells) /\ GrewTo(objs, objs') /\ objs' = objs
  BY <1>1, <1>14, HeapIs DEF Proceeds
<1>17. \A i \in 1 .. n : Holds(Fn, Shape, objs', vals[i], news[i])
  BY <1>15, <1>16
<1>18. p \in 0 .. Len(Here)
  BY <1>3, <1>7
<1> QED
  BY <1>1, <1>2, <1>9, <1>10, <1>12, <1>13, <1>16, <1>17, <1>18, Places

-----------------------------------------------------------------------------
(* Instructions that jump. *)
LEMMA JumpedTo ==
    ASSUME TInv, Running, exc = NoExc, NEW p, Effect(Instruction) = <<p, 0>>, Opcode \notin Special,
           NEW pc, <<pc, Shaped(Instruction, Here)>> \in Successors(Fn, Shape, Top.pc),
           NEW st, Left(st, p, 0, objs), frames' = Jump(st, pc), objs' = objs, cells' = cells, exc' = NoExc, Going
    PROVE  Typed'
<1>1. /\ IsSeq(Here) /\ Opcode = Instruction[1] /\ Len(Top.stack) = Len(Here) /\ Len(Here) \in Nat
      /\ p \in 0 .. Len(Here)
  BY Situation, Instructed, Operands, Sequence
<1>2. PICK ks, news, vals : ks = Shaped(Instruction, Here) /\ news = [i \in 1 .. 0 |-> AnyValue] /\ vals = <<>>
  OBVIOUS
<1>3. Reshaped(ks, Here, p, 0, news)
  BY <1>1, <1>2, OrdinaryShape
<1>4. Reshaped(st, Top.stack, p, 0, vals)
  BY DEF Left, KeptTo, Reshaped
<1>5. HeapOK(code, objs, DOMAIN cells) /\ GrewTo(objs, objs)
  BY HeapIs
<1>6. StackOK(Fn, Shape, objs, st, ks) /\ IsSeq(ks) /\ Len(st) = Len(ks)
  BY <1>1, <1>3, <1>4, <1>5, Leaves
<1>7. pc \in DOMAIN Shape /\ StackOK(Fn, Shape, objs, st, Shape[pc]) /\ Len(st) = Len(Shape[pc])
  BY <1>2, <1>6, Reaches
<1> QED
  BY <1>5, <1>7, Jumped

LEMMA GotoOK == ASSUME TInv, Goto \/ Branch PROVE Typed'
<1>1. Running /\ exc = NoExc /\ Opcode \in {"goto", "if_false", "if_true"}
  BY FetchedOK DEF Goto, Branch
<1>2. Opcode = Instruction[1] /\ Operand = Instruction[2] /\ Opcode \notin Special
  BY <1>1, Instructed, ShuffleOps DEF Special, LiteralOps
<1>3. PICK p : p = IF Opcode = "goto" THEN 0 ELSE 1
  OBVIOUS
<1>4. Effect(Instruction) = <<p, 0>>
  <2>1. CASE Opcode = "goto"
    <3>1. Instruction[1] \in {"goto"}
      BY <1>2, <2>1
    <3> QED
      BY <1>3, <2>1, <3>1, EffectPair, Effects
  <2>2. CASE Opcode \in {"if_false", "if_true"}
    BY <1>2, <1>3, <2>2, EffectPair, Effects
  <2> QED
    BY <1>1, <2>1, <2>2
<1>5. IsSeq(Top.stack) /\ Len(Top.stack) \in Nat /\ p \in 0 .. Len(Top.stack)
  BY <1>1, <1>4, Operands
<1>6. PICK st, pc : /\ frames' = Jump(st, pc) /\ st = IF Opcode = "goto" THEN Top.stack ELSE Below(1)
                    /\ pc = Operand \/ (Opcode # "goto" /\ pc = Top.pc + 1)
  <2>1. CASE Goto
    BY <2>1 DEF Goto, Fetch
  <2>2. CASE Branch
    <3>1. PICK pc : pc = IF JS_ToBool(S(0)) = (Opcode = "if_true") THEN Operand ELSE Top.pc + 1
      OBVIOUS
    <3>2. frames' = Jump(Below(1), pc) /\ Opcode # "goto" /\ (pc = Operand \/ pc = Top.pc + 1)
      BY <2>2, <3>1, Zenon DEF Branch, Fetch
    <3> QED
      BY <3>2
  <2> QED
    BY <2>1, <2>2
<1>7. Left(st, p, 0, objs)
  <2>1. CASE Opcode = "goto"
    BY <1>3, <1>5, <1>6, <2>1, LeftTop
  <2>2. CASE Opcode # "goto"
    BY <1>3, <1>5, <1>6, <2>2, LeftBelow
  <2> QED
    BY <2>1, <2>2
<1>8. <<pc, Shaped(Instruction, Here)>> \in Successors(Fn, Shape, Top.pc)
  <2>1. CASE pc = Operand
    BY <1>1, <1>2, <2>1 DEF Successors, Opcode, Instruction, Here
  <2>2. CASE pc = Top.pc + 1 /\ Opcode # "goto"
    BY <1>1, <2>2, Falls DEF Enders
  <2> QED
    BY <1>6, <2>1, <2>2
<1>9. objs' = objs /\ cells' = cells /\ exc' = NoExc /\ Going
  BY <1>1 DEF Goto, Branch, Quiet, Going
<1> QED
  BY <1>1, <1>2, <1>4, <1>6, <1>7, <1>8, <1>9, JumpedTo

(* gosub leaves the address after it, and ret comes back to one of those. *)
LEMMA GosubOK == ASSUME TInv, Gosub PROVE Typed'
<1>1. Running /\ exc = NoExc /\ Opcode \in {"gosub"}
  BY FetchedOK DEF Gosub
<1>2. Opcode = Instruction[1] /\ Operand = Instruction[2] /\ IsSeq(Here)
  BY <1>1, Instructed
<1>3. StackOK(Fn, Shape, objs, Top.stack, Here) /\ Len(Top.stack) = Len(Here) /\ Top.pc \in DOMAIN Shape
  BY <1>1, Situation
<1>4. IsSeq(Top.stack) /\ Len(Here) \in Nat /\ 0 \in 0 .. Len(Here)
  BY <1>2, <1>3, Sequence DEF StackOK
<1>5. PICK v, k, st, ks : /\ v = Num(Top.pc + 1) /\ k = Kind("ret", Operand)
                          /\ st = Append(Top.stack, v) /\ ks = Append(Here, k)
  OBVIOUS
<1>6. Reshaped(ks, Here, 0, 1, <<k>>) /\ Reshaped(st, Top.stack, 0, 1, <<v>>)
  <2>1. Top.stack = Less(Top.stack, 0) /\ Here = Less(Here, 0)
    BY <1>2, <1>4, NothingLess
  <2> QED
    BY <1>2, <1>3, <1>4, <1>5, <2>1, AppendOf
<1>7. Holds(Fn, Shape, objs, v, k)
  <2>1. v.t = "num" /\ v.n = Top.pc + 1 /\ k.k = "ret" /\ k.at = Operand
    BY <1>5 DEF Num, Value, Kind
  <2>2. IsGosub(Fn.code[Top.pc], k.at)
    BY <1>1, <1>2, <2>1 DEF IsGosub, Instruction
  <2> QED
    BY <1>3, <2>1, <2>2 DEF Holds, Plain
<1>8. \A i \in 1 .. 1 : Holds(Fn, Shape, objs, <<v>>[i], <<k>>[i])
  BY <1>7
<1>9. HeapOK(code, objs, DOMAIN cells) /\ GrewTo(objs, objs)
  BY <1>1, HeapIs
<1>10. StackOK(Fn, Shape, objs, st, ks) /\ IsSeq(ks) /\ Len(st) = Len(ks)
  BY <1>1, <1>4, <1>6, <1>8, <1>9, Leaves
<1>11. <<Operand, ks>> \in Successors(Fn, Shape, Top.pc)
  BY <1>1, <1>2, <1>5 DEF Successors, Opcode, Instruction, Here
<1>12. PICK pc : pc = Operand
  OBVIOUS
<1>13. pc \in DOMAIN Shape /\ StackOK(Fn, Shape, objs, st, Shape[pc]) /\ Len(st) = Len(Shape[pc])
  BY <1>1, <1>10, <1>11, <1>12, Reaches
<1>14. frames' = Jump(st, pc) /\ objs' = objs /\ cells' = cells /\ exc' = NoExc /\ Going
  BY <1>1, <1>5, <1>12 DEF Gosub, ReturnAddress, Quiet, Going
<1> QED
  BY <1>1, <1>9, <1>13, <1>14, Jumped

LEMMA RetOK == ASSUME TInv, Ret PROVE Typed'
<1>1. Running /\ exc = NoExc /\ Opcode \in {"ret"}
  BY FetchedOK DEF Ret
<1>2. Opcode = Instruction[1] /\ IsSeq(Here) /\ OperandsKept(Instruction, Here)
  BY <1>1, Instructed
<1>3. StackOK(Fn, Shape, objs, Top.stack, Here) /\ Len(Top.stack) = Len(Here)
  BY <1>1, Situation
<1>4. Effect(Instruction) = <<1, 0>>
  BY <1>1, <1>2, EffectPair, Effects
<1>5. IsSeq(Top.stack) /\ Len(Top.stack) \in Nat /\ 1 \in 0 .. Len(Top.stack)
  BY <1>1, <1>4, Operands
<1>6. PICK n \in Nat : n = Len(Here) /\ n \in 1 .. n
  BY <1>3, <1>5
<1>7. FromTop(Here, 0) = Here[n] /\ S(0) = Top.stack[n]
  BY <1>3, <1>6 DEF FromTop, S
<1>8. Here[n].k = "ret" /\ Holds(Fn, Shape, objs, S(0), Here[n])
  BY <1>1, <1>2, <1>3, <1>6, <1>7 DEF OperandsKept, StackOK
<1>9. PICK q \in DOMAIN Shape : S(0).t = "num" /\ IsGosub(Fn.code[q], Here[n].at) /\ S(0).n = q + 1
  BY <1>8 DEF Holds
<1>10. PICK st, ks, pc : st = Below(1) /\ ks = Less(Here, 1) /\ pc = q + 1
  OBVIOUS
<1>11. <<pc, ks>> \in Successors(Fn, Shape, Top.pc)
  BY <1>1, <1>7, <1>9, <1>10 DEF Successors, Opcode, Instruction, Here
<1>12. IsSeq(ks) /\ Len(ks) = n - 1 /\ \A i \in 1 .. n - 1 : ks[i] = Here[i]
  <2>1. 1 \in 0 .. Len(Here)
    BY <1>3, <1>5
  <2>2. IsSeq(ks) /\ Len(ks) = Len(Here) - 1 /\ \A i \in 1 .. Len(Here) - 1 : ks[i] = Here[i]
    BY <1>2, <1>10, <2>1, LessOf
  <2> QED
    BY <1>6, <2>2
<1>13. IsSeq(st) /\ Len(st) = n - 1 /\ \A i \in 1 .. n - 1 : st[i] = Top.stack[i]
  <2>1. PICK s : s = Top.stack
    OBVIOUS
  <2>2. IsSeq(st) /\ Len(st) = Len(s) - 1 /\ \A i \in 1 .. Len(s) - 1 : st[i] = s[i]
    <3>1. st = Less(s, 1) /\ IsSeq(s) /\ 1 \in 0 .. Len(s)
      BY <1>5, <1>10, <2>1 DEF Below
    <3> QED
      BY <3>1, LessOf
  <2> QED
    BY <1>3, <1>6, <2>1, <2>2
<1>14. StackOK(Fn, Shape, objs, st, ks)
  BY <1>3, <1>6, <1>12, <1>13 DEF StackOK
<1>15. pc \in DOMAIN Shape /\ StackOK(Fn, Shape, objs, st, Shape[pc]) /\ Len(st) = Len(Shape[pc])
  BY <1>1, <1>11, <1>12, <1>13, <1>14, Reaches
<1>16. frames' = Jump(st, pc) /\ objs' = objs /\ cells' = cells /\ exc' = NoExc /\ Going
  BY <1>1, <1>9, <1>10 DEF Ret, Quiet, Going
<1>17. HeapOK(code, objs, DOMAIN cells) /\ GrewTo(objs, objs)
  BY <1>1, HeapIs
<1> QED
  BY <1>1, <1>15, <1>16, <1>17, Jumped

LEMMA ThrowOpOK == ASSUME TInv, ThrowOp PROVE Typed'
<1>1. Running /\ exc = NoExc /\ Opcode \in {"throw"}
  BY FetchedOK DEF ThrowOp
<1>2. Opcode = Instruction[1]
  BY <1>1, Instructed
<1>3. Effect(Instruction) = <<1, 0>>
  BY <1>1, <1>2, EffectPair, Effects
<1>4. ValueOK(objs, S(0))
  <2>1. 0 \in 0 .. 1 - 1 /\ Opcode \notin Shuffles \cup {"ret"}
    BY <1>1, ShuffleOps
  <2> QED
    BY <1>1, <1>3, <2>1, Operands
<1>5. Throw(S(0))
  BY DEF ThrowOp
<1> QED
  BY <1>1, <1>4, <1>5, Thrown

LEMMA InterruptOK == ASSUME TInv, Interrupt PROVE Typed'
<1>1. Running /\ exc = NoExc
  BY FetchedOK DEF Interrupt
<1>2. /\ Compiled(code, ShapeOf(prog)) /\ Good(code, ShapeOf(prog), objs, cells, frames, exc)
  BY <1>1, Situation
<1>3. PICK v : v = Error("InternalError")
  OBVIOUS
<1>4. ValueOK(objs, v)
  BY <1>3, Scalars
<1>5. v # NoExc
  BY <1>3 DEF NoExc, Error, Value
<1>6. \A d \in 1 .. Len(frames) : DepthOK(ShapeOf(prog), frames, v, d)
  BY <1>2, <1>5 DEF Good, DepthOK
<1>7. Good(code, ShapeOf(prog), objs, cells, frames, v)
  BY <1>2, <1>4, <1>6 DEF Good
<1> QED
  BY <1>2, <1>3, <1>7 DEF Interrupt, Typed

-----------------------------------------------------------------------------
(* Instructions that write a slot: the stack first, the slot then. *)
LEMMA Advanced ==
    ASSUME TInv, Running, exc = NoExc, NEW p, NEW m \in Nat, Effect(Instruction) = <<p, m>>, Opcode \notin Special \cup Enders,
           NEW st, Left(st, p, m, objs), NEW fs, fs = To(st)
    PROVE  Good(code, ShapeOf(prog), objs, cells, fs, NoExc)
<1>1. /\ Good(code, ShapeOf(prog), objs, cells, frames, exc)
      /\ IsSeq(frames) /\ Depth \in 1 .. Len(frames) /\ Depth = Len(frames) /\ Top = frames[Depth]
      /\ FrameOK(code, ShapeOf(prog), objs, Top)
  BY Situation
<1>2. HeapOK(code, objs, DOMAIN cells) /\ GrewTo(objs, objs)
  BY HeapIs
<1>3. PICK pc : pc = Top.pc + 1
  OBVIOUS
<1>4. pc \in DOMAIN Shape /\ StackOK(Fn, Shape, objs, st, Shape[pc]) /\ Len(st) = Len(Shape[pc])
  BY <1>2, <1>3, Ordinary
<1>5. PICK f : f = At(st, pc)
  OBVIOUS
<1>6. /\ DOMAIN f = FrameFields /\ f.stack = st /\ f.pc = pc /\ f.fn = Top.fn /\ f.func = Top.func /\ f.this = Top.this
      /\ f.argc = Top.argc /\ f.flags = Top.flags /\ f.args = Top.args /\ f.locs = Top.locs
  BY <1>1, <1>5 DEF At, FrameOK, FrameFields
<1>7. FrameOK(code, ShapeOf(prog), objs, f)
  BY <1>1, <1>4, <1>6 DEF FrameOK, Shape, Fn
<1>8. Len(f.stack) = Len(ShapeOf(prog)[f.fn][f.pc])
  BY <1>4, <1>6 DEF Shape
<1>9. fs = [frames EXCEPT ![Depth] = f]
  BY <1>3, <1>5 DEF To
<1>10. PICK n : n = Depth
  OBVIOUS
<1>11. UpdateOf(fs, frames, n, f)
  BY <1>1, <1>9, <1>10, Updated
<1>12. SameSlots(frames, fs)
  BY <1>1, <1>6, <1>10, <1>11, Sequence DEF SameSlots, UpdateOf
<1>13. \A r \in DOMAIN cells : CellOK(objs, fs, cells[r])
  BY <1>1, <1>2, <1>12, CellStays DEF Good
<1>14. ValueOK(objs, NoExc)
  BY DEF NoExc, Value, ValueOK
<1>15. PICK e2 : e2 = NoExc
  OBVIOUS
<1>16. n \in 1 .. Len(frames) /\ n = Len(frames) /\ f.flags = frames[n].flags
  BY <1>1, <1>6, <1>9, <1>10
<1>17. Good(code, ShapeOf(prog), objs, cells, fs, e2)
  <2>1. ValueOK(objs, e2) /\ (e2 = NoExc => Len(f.stack) = Len(ShapeOf(prog)[f.fn][f.pc]))
    BY <1>8, <1>14, <1>15
  <2> QED
    BY <1>1, <1>2, <1>7, <1>11, <1>13, <1>16, <2>1, TopChanges
<1> QED
  BY <1>15, <1>17

(* A slot of any of the frames. *)
PutIn(fs2, fs, d, i, v) == fs2 = [fs EXCEPT ![d].args[i] = v] \/ fs2 = [fs EXCEPT ![d].locs[i] = v]
LEMMA SlotPut ==
    ASSUME NEW fns, NEW shapes, NEW heap, NEW cs, NEW fs, NEW e, Good(fns, shapes, heap, cs, fs, e),
           NEW d \in 1 .. Len(fs), NEW i, NEW v, ValueOK(heap, v),
           NEW fs2, PutIn(fs2, fs, d, i, v)
    PROVE  Good(fns, shapes, heap, cs, fs2, e)
<1>1. IsSeq(fs) /\ FrameOK(fns, shapes, heap, fs[d]) /\ Len(fs) \in Nat
  BY Sequence DEF Good
<1>2. PICK g, args, locs : g = fs[d] /\ args = [g.args EXCEPT ![i] = v] /\ locs = [g.locs EXCEPT ![i] = v]
  OBVIOUS
<1>3. /\ ValuesOK(heap, args) /\ Len(args) = Len(g.args) /\ ValuesOK(heap, locs) /\ Len(locs) = Len(g.locs)
  <2>1. PICK as, ls : as = g.args /\ ls = g.locs
    OBVIOUS
  <2>2. ValuesOK(heap, as) /\ ValuesOK(heap, ls) /\ args = [as EXCEPT ![i] = v] /\ locs = [ls EXCEPT ![i] = v]
    BY <1>1, <1>2, <2>1 DEF FrameOK
  <2>3. UpdateOf(args, as, i, v)
    BY <2>2, Updated DEF ValuesOK
  <2>4. UpdateOf(locs, ls, i, v)
    BY <2>2, Updated DEF ValuesOK
  <2>5. ValuesOK(heap, as) /\ ValuesOK(heap, ls)
    BY <2>2
  <2>6. ValuesOK(heap, args) /\ Len(args) = Len(as)
    BY <2>3, <2>5 DEF ValuesOK, UpdateOf
  <2>7. ValuesOK(heap, locs) /\ Len(locs) = Len(ls)
    BY <2>4, <2>5 DEF ValuesOK, UpdateOf
  <2> QED
    BY <2>1, <2>6, <2>7
<1>4. PICK f : fs2 = [fs EXCEPT ![d] = f] /\ (f = [g EXCEPT !.args = args] \/ f = [g EXCEPT !.locs = locs])
  <2>1. CASE fs2 = [fs EXCEPT ![d].args[i] = v]
    <3>1. PICK f : f = [g EXCEPT !.args = args]
      OBVIOUS
    <3>2. fs2 = [fs EXCEPT ![d] = f]
      BY <1>2, <2>1, <3>1
    <3> QED
      BY <3>1, <3>2
  <2>2. CASE fs2 = [fs EXCEPT ![d].locs[i] = v]
    <3>1. PICK f : f = [g EXCEPT !.locs = locs]
      OBVIOUS
    <3>2. fs2 = [fs EXCEPT ![d] = f]
      BY <1>2, <2>2, <3>1
    <3> QED
      BY <3>1, <3>2
  <2> QED
    BY <2>1, <2>2 DEF PutIn
<1>5. /\ DOMAIN f = FrameFields /\ f.fn = g.fn /\ f.func = g.func /\ f.this = g.this /\ f.argc = g.argc
      /\ f.flags = g.flags /\ f.pc = g.pc /\ f.stack = g.stack
      /\ ValuesOK(heap, f.args) /\ Len(f.args) = Len(g.args) /\ ValuesOK(heap, f.locs) /\ Len(f.locs) = Len(g.locs)
  <2>1. DOMAIN g = FrameFields /\ ValuesOK(heap, g.args) /\ ValuesOK(heap, g.locs)
    BY <1>1, <1>2 DEF FrameOK
  <2>2. CASE f = [g EXCEPT !.args = args]
    BY <1>3, <2>1, <2>2 DEF FrameFields
  <2>3. CASE f = [g EXCEPT !.locs = locs]
    BY <1>3, <2>1, <2>3 DEF FrameFields
  <2> QED
    BY <1>4, <2>2, <2>3
<1>6. FrameOK(fns, shapes, heap, f)
  BY <1>1, <1>2, <1>5, Zenon DEF FrameOK
<1>7. UpdateOf(fs2, fs, d, f)
  BY <1>1, <1>4, Updated
<1>8. IsSeq(fs2) /\ Len(fs2) = Len(fs) /\ \A k \in 1 .. Len(fs) : fs2[k] = IF k = d THEN f ELSE fs[k]
  BY <1>7 DEF UpdateOf
<1>9. \A k \in 1 .. Len(fs) : fs2[k].fn = fs[k].fn /\ fs2[k].pc = fs[k].pc /\ fs2[k].stack = fs[k].stack /\ fs2[k].flags = fs[k].flags
  BY <1>2, <1>5, <1>8
<1>10. ASSUME NEW k \in 1 .. Len(fs)
       PROVE  FrameOK(fns, shapes, heap, fs2[k]) /\ DepthOK(shapes, fs2, e, k)
  <2>1. FrameOK(fns, shapes, heap, fs2[k])
    BY <1>6, <1>8 DEF Good
  <2>2. DepthOK(shapes, fs, e, k)
    BY DEF Good
  <2>3. k # Len(fs) => k + 1 \in 1 .. Len(fs)
    BY <1>1
  <2>4. DepthOK(shapes, fs2, e, k)
    BY <1>8, <1>9, <2>2, <2>3, Zenon DEF DepthOK
  <2> QED
    BY <2>1, <2>4
<1>11. SameSlots(fs, fs2)
  BY <1>1, <1>2, <1>5, <1>8 DEF SameSlots
<1>12. GrewTo(heap, heap)
  BY Sequence DEF Good, HeapOK, GrewTo
<1>13. \A r \in DOMAIN cs : CellOK(heap, fs2, cs[r])
  BY <1>11, <1>12, CellStays DEF Good
<1> QED
  BY <1>8, <1>10, <1>13 DEF Good

LEMMA PutSlotOK == ASSUME TInv, PutSlot PROVE Typed'
<1>1. Running /\ exc = NoExc /\ Opcode \in {"put_loc", "put_arg"}
  BY FetchedOK DEF PutSlot
<1>2. Opcode = Instruction[1] /\ Opcode \notin Special \cup Enders
  BY <1>1, Instructed, ShuffleOps DEF Special, Enders, LiteralOps
<1>3. Effect(Instruction) = <<1, 0>>
  BY <1>1, <1>2, EffectPair, Effects
<1>4. IsSeq(Top.stack) /\ 1 \in 0 .. Len(Top.stack) /\ ValueOK(objs, S(0))
  <2>1. 0 \in 0 .. 1 - 1 /\ Opcode \notin Shuffles \cup {"ret"}
    BY <1>1, ShuffleOps
  <2> QED
    BY <1>1, <1>3, <2>1, Operands
<1>5. PICK st, fs, v, d, i : st = Below(1) /\ fs = To(st) /\ v = S(0) /\ d = Depth /\ i = Operand
  OBVIOUS
<1>6. Good(code, ShapeOf(prog), objs, cells, fs, NoExc)
  <2>1. Left(st, 1, 0, objs)
    BY <1>4, <1>5, LeftBelow
  <2> QED
    BY <1>1, <1>2, <1>3, <1>5, <2>1, Advanced
<1>7. d \in 1 .. Len(fs)
  <2>1. PICK f : fs = [frames EXCEPT ![d] = f]
    BY <1>5 DEF To
  <2>2. UpdateOf(fs, frames, d, f) /\ d \in 1 .. Len(frames)
    BY <1>1, <1>5, <2>1, Situation, Updated
  <2> QED
    BY <2>2 DEF UpdateOf
<1>8. PICK fs2 : fs2 = frames'
  OBVIOUS
<1>9. PutIn(fs2, fs, d, i, v)
  BY <1>5, <1>8, Zenon DEF PutSlot, PutIn
<1>10. Good(code, ShapeOf(prog), objs, cells, fs2, NoExc)
  BY <1>4, <1>5, <1>6, <1>7, <1>9, SlotPut
<1>11. objs' = objs /\ cells' = cells /\ exc' = NoExc /\ code' = code /\ prog' = prog
  BY <1>1 DEF PutSlot, Quiet
<1>12. Compiled(code, ShapeOf(prog))
  BY <1>1, Situation
<1> QED
  BY <1>8, <1>10, <1>11, <1>12 DEF Typed

LEMMA PutVarRefOK == ASSUME TInv, PutVarRef PROVE Typed'
<1>1. Running /\ exc = NoExc /\ Opcode \in {"put_var_ref", "put_var_ref_nocheck"}
  BY FetchedOK DEF PutVarRef
<1>2. /\ Opcode = Instruction[1] /\ Operand = Instruction[2] /\ NamesKept(code, Fn, Instruction)
      /\ Opcode \notin Special \cup Enders
  BY <1>1, Instructed, ShuffleOps DEF Special, Enders, LiteralOps
<1>3. Effect(Instruction) = <<1, 0>>
  BY <1>1, <1>2, EffectPair, Effects
<1>4. IsSeq(Top.stack) /\ 1 \in 0 .. Len(Top.stack) /\ ValueOK(objs, S(0))
  <2>1. 0 \in 0 .. 1 - 1 /\ Opcode \notin Shuffles \cup {"ret"}
    BY <1>1, ShuffleOps
  <2> QED
    BY <1>1, <1>3, <2>1, Operands
<1>5. Ref \in DOMAIN cells
  BY <1>1, <1>2, RefIs DEF NamesKept
<1>6. PICK st, fs, v, r, c : st = Below(1) /\ fs = To(st) /\ v = S(0) /\ r = Ref /\ c = cells[r]
  OBVIOUS
<1>7. Good(code, ShapeOf(prog), objs, cells, fs, NoExc)
  <2>1. Left(st, 1, 0, objs)
    BY <1>4, <1>6, LeftBelow
  <2> QED
    BY <1>1, <1>2, <1>3, <1>6, <2>1, Advanced
<1>8. CellOK(objs, fs, c)
  BY <1>5, <1>6, <1>7 DEF Good
<1>9. Compiled(code, ShapeOf(prog))
  BY <1>1, Situation
<1>10. CASE Throw(Error("ReferenceError"))
  BY <1>1, <1>10, ThrownError
<1>11. CASE ~Throw(Error("ReferenceError"))
  <2>1. /\ frames' = IF ~c.attached THEN fs
                     ELSE IF c.kind = "arg" THEN [fs EXCEPT ![c.depth].args[c.idx] = v]
                     ELSE [fs EXCEPT ![c.depth].locs[c.idx] = v]
        /\ cells' = IF c.attached THEN cells ELSE [cells EXCEPT ![r].val = v]
        /\ Quiet /\ UNCHANGED <<objs, exc>>
    BY <1>6, <1>11, Zenon DEF PutVarRef
  <2>2. code' = code /\ prog' = prog /\ objs' = objs /\ exc' = NoExc
    BY <1>1, <2>1 DEF Quiet
  <2>3. PICK fs2, cs2 : fs2 = frames' /\ cs2 = cells'
    OBVIOUS
  <2>4. Good(code, ShapeOf(prog), objs, cs2, fs2, NoExc)
    <3>1. CASE c.attached
      <4>1. PICK d, i : d = c.depth /\ i = c.idx
        OBVIOUS
      <4>2. d \in 1 .. Len(fs)
        BY <1>8, <3>1, <4>1 DEF CellOK
      <4>3. PutIn(fs2, fs, d, i, v)
        BY <2>1, <2>3, <3>1, <4>1, Zenon DEF PutIn
      <4>4. cs2 = cells
        BY <2>1, <2>3, <3>1
      <4> QED
        BY <1>4, <1>6, <1>7, <4>2, <4>3, <4>4, SlotPut
    <3>2. CASE ~c.attached
      <4>1. fs2 = fs /\ cs2 = [cells EXCEPT ![r].val = v]
        BY <2>1, <2>3, <3>2
      <4>2. PICK c2 : c2 = [c EXCEPT !.val = v]
        OBVIOUS
      <4>3. DOMAIN cs2 = DOMAIN cells /\ \A q \in DOMAIN cells : cs2[q] = IF q = r THEN c2 ELSE cells[q]
        BY <1>5, <1>6, <4>1, <4>2
      <4>4. CellOK(objs, fs, c2)
        BY <1>4, <1>6, <1>8, <3>2, <4>2 DEF CellOK, CellFields
      <4>5. \A q \in DOMAIN cs2 : CellOK(objs, fs, cs2[q])
        BY <1>7, <4>3, <4>4 DEF Good
      <4> QED
        BY <1>7, <4>1, <4>3, <4>5 DEF Good
    <3> QED
      BY <3>1, <3>2
  <2> QED
    BY <1>9, <2>2, <2>3, <2>4 DEF Typed
<1> QED
  BY <1>10, <1>11

-----------------------------------------------------------------------------
(* Following a chain that comes to an end: next[i] comes after i, unless i is
   one of the stops.  e[i] is the stop that is reached from i.               *)
Ends(e, D, stops, next) ==
    /\ DOMAIN e = D
    /\ \A i \in D : /\ e[i] \in D /\ e[i] \in stops
                    /\ i \in stops => e[i] = i
                    /\ i \notin stops => e[i] = e[next[i]]
LEMMA ChainEnds ==
    ASSUME NEW D, NEW stops, NEW next, \A i \in D : i \notin stops => next[i] \in D,
           \A A \in SUBSET D : A # {} => \E i \in A : i \in stops \/ next[i] \notin A
    PROVE  \E e : Ends(e, D, stops, next)
<1> DEFINE Closed(T) == /\ \A i \in D : i \in stops => <<i, i>> \in T
                        /\ \A i, j \in D : i \notin stops /\ <<next[i], j>> \in T => <<i, j>> \in T
           Least == {t \in D \X D : \A T \in SUBSET (D \X D) : Closed(T) => t \in T}
<1>1. Closed(Least)
  <2>1. ASSUME NEW i \in D, i \in stops
        PROVE  <<i, i>> \in Least
    BY <2>1
  <2>2. ASSUME NEW i \in D, NEW j \in D, i \notin stops, <<next[i], j>> \in Least
        PROVE  <<i, j>> \in Least
    BY <2>2
  <2> QED
    BY <2>1, <2>2
<1>2. Least \in SUBSET (D \X D) /\ \A T \in SUBSET (D \X D) : Closed(T) => Least \subseteq T
  OBVIOUS
<1>3. PICK L : L \in SUBSET (D \X D) /\ Closed(L) /\ \A T \in SUBSET (D \X D) : Closed(T) => L \subseteq T
  <2> HIDE DEF Closed, Least
  <2> QED
    BY <1>1, <1>2, Zenon
<1>4. ASSUME NEW i \in D, NEW j \in D, <<i, j>> \in L
      PROVE  /\ j \in stops /\ (i \in stops => i = j)
             /\ i \notin stops => <<next[i], j>> \in L
  <2> DEFINE K == {t \in L : t[2] \in stops /\ (t[1] \in stops => t[1] = t[2])
                             /\ (t[1] \notin stops => <<next[t[1]], t[2]>> \in L)}
  <2>1. K \in SUBSET (D \X D)
    BY <1>3
  <2>2. ASSUME NEW x \in D, x \in stops
        PROVE  <<x, x>> \in K
    BY <1>3, <2>2
  <2>3. ASSUME NEW x \in D, NEW y \in D, x \notin stops, <<next[x], y>> \in K
        PROVE  <<x, y>> \in K
    <3>1. <<next[x], y>> \in L /\ y \in stops
      BY <2>3
    <3>2. <<x, y>> \in L
      BY <1>3, <2>3, <3>1
    <3> QED
      BY <2>3, <3>1, <3>2
  <2>4. Closed(K)
    BY <2>2, <2>3
  <2>5. <<i, j>> \in K
    BY <1>3, <1>4, <2>1, <2>4
  <2> QED
    BY <2>5
<1>5. \A i \in D : \E j \in D : <<i, j>> \in L
  <2> DEFINE B == {i \in D : \A j \in D : <<i, j>> \notin L}
  <2>1. SUFFICES ASSUME B # {}
                 PROVE  FALSE
    OBVIOUS
  <2>2. PICK i \in B : i \in stops \/ next[i] \notin B
    BY <2>1
  <2>3. i \notin stops
    BY <1>3
  <2>4. PICK j \in D : <<next[i], j>> \in L
    BY <2>2, <2>3
  <2>5. <<i, j>> \in L
    BY <1>3, <2>3, <2>4
  <2> QED
    BY <2>5
<1>6. \A i, j, k \in D : <<i, j>> \in L /\ <<i, k>> \in L => j = k
  <2> DEFINE B == {i \in D : \E j, k \in D : <<i, j>> \in L /\ <<i, k>> \in L /\ j # k}
  <2>1. SUFFICES ASSUME B # {}
                 PROVE  FALSE
    OBVIOUS
  <2>2. PICK i \in B : i \in stops \/ next[i] \notin B
    BY <2>1
  <2>3. PICK j \in D, k \in D : <<i, j>> \in L /\ <<i, k>> \in L /\ j # k
    OBVIOUS
  <2>4. i \notin stops
    BY <1>4, <2>3
  <2>5. next[i] \in D /\ <<next[i], j>> \in L /\ <<next[i], k>> \in L
    BY <1>4, <2>3, <2>4
  <2> QED
    BY <2>2, <2>3, <2>4, <2>5
<1>7. PICK e : e = [i \in D |-> CHOOSE j \in D : <<i, j>> \in L]
  OBVIOUS
<1>8. DOMAIN e = D /\ \A i \in D : e[i] \in D /\ <<i, e[i]>> \in L
  BY <1>5, <1>7
<1>9. ASSUME NEW i \in D
      PROVE  /\ e[i] \in D /\ e[i] \in stops
             /\ i \in stops => e[i] = i
             /\ i \notin stops => e[i] = e[next[i]]
  <2>1. e[i] \in D /\ e[i] \in stops /\ (i \in stops => e[i] = i)
    BY <1>4, <1>8
  <2>2. ASSUME i \notin stops
        PROVE  e[i] = e[next[i]]
    <3>1. next[i] \in D /\ <<next[i], e[i]>> \in L /\ <<next[i], e[next[i]]>> \in L /\ e[next[i]] \in D
      BY <1>4, <1>8, <2>2
    <3> QED
      BY <1>6, <2>1, <3>1
  <2> QED
    BY <2>1, <2>2
<1> QED
  BY <1>8, <1>9 DEF Ends

-----------------------------------------------------------------------------
(* Properties: an object's own, or those of its prototype chain. *)
LEMMA OwnProperty ==
    ASSUME NEW heap, NEW o, PropertiesOK(heap, o.props), NEW key, NEW i, i = FindOwn(o, key)
    PROVE  i = 0 \/ (i \in 1 .. Len(o.props) /\ i # 0 /\ ValueOK(heap, o.props[i].val) /\ ValueOK(heap, o.props[i].set))
<1>1. PICK ps : ps = o.props
  OBVIOUS
<1>2. IsSeq(ps) /\ DOMAIN ps = 1 .. Len(ps) /\ \A j \in 1 .. Len(ps) : ValueOK(heap, ps[j].val) /\ ValueOK(heap, ps[j].set)
  BY <1>1, Sequence DEF PropertiesOK
<1>3. i = 0 \/ i \in 1 .. Len(ps)
  BY <1>1, <1>2 DEF FindOwn
<1> QED
  BY <1>1, <1>2, <1>3

LookUpAt(heap, key, i, above) ==
    LET o == heap[i]
        p == o.props[FindOwn(o, key)]
    IN IF o.cls = "array" /\ key.t = "num" /\ key.n \in 0 .. Len(o.tab) - 1 THEN Found("value", o.tab[key.n + 1])
       ELSE IF FindOwn(o, key) # 0
            THEN IF p.kind = "normal" THEN Found("value", p.val)
                 ELSE IF p.val = Undefined THEN Found("value", Undefined) ELSE Found("call", p.val)
       ELSE IF o.proto = 0 THEN Found("value", Undefined)
       ELSE above[o.proto]
LEMMA LookUpIs ==
    ASSUME NEW heap, NEW id, NEW key
    PROVE  LookUp(heap, id, key) = (CHOOSE f : f = [i \in DOMAIN heap |-> LookUpAt(heap, key, i, f)])[id]
BY DEF LookUp, LookUpAt

(* Chains of prototypes end at an object that has none, or earlier. *)
LEMMA PrototypesEnd ==
    ASSUME NEW heap, Grounded(heap), NEW D, 1 .. Len(heap) \subseteq D, NEW stops, NEW next,
           \A i \in D : i \notin stops => i \in 1 .. Len(heap) /\ next[i] = heap[i].proto /\ next[i] \in D
    PROVE  \E e : Ends(e, D, stops, next)
<1>1. ASSUME NEW A \in SUBSET D, A # {}
      PROVE  \E i \in A : i \in stops \/ next[i] \notin A
  <2>1. CASE \E i \in A : i \in stops
    BY <2>1
  <2>2. CASE \A i \in A : i \notin stops
    <3>1. A \in SUBSET (1 .. Len(heap)) /\ \A i \in A : next[i] = heap[i].proto
      BY <2>2
    <3>2. PICK i \in A : heap[i].proto \notin A
      BY <1>1, <3>1 DEF Grounded
    <3> QED
      BY <3>1, <3>2
  <2> QED
    BY <2>1, <2>2
<1> QED
  BY <1>1, ChainEnds

ResultOK(heap, r) == r.k \in {"value", "call"} /\ ValueOK(heap, r.v)
LEMMA LookUpOK ==
    ASSUME NEW fns, NEW heap, NEW places, HeapOK(fns, heap, places), NEW id \in 1 .. Len(heap), NEW key
    PROVE  ResultOK(heap, LookUp(heap, id, key))
<1>1. IsSeq(heap) /\ DOMAIN heap = 1 .. Len(heap) /\ Len(heap) \in Nat /\ Grounded(heap)
  BY Sequence DEF HeapOK
<1>2. \A i \in 1 .. Len(heap) : ObjectOK(fns, heap, places, heap[i])
  BY DEF HeapOK
<1> DEFINE Stops(i) == \/ heap[i].cls = "array" /\ key.t = "num" /\ key.n \in 0 .. Len(heap[i].tab) - 1
                       \/ FindOwn(heap[i], key) # 0
                       \/ heap[i].proto = 0
           none == [i \in {} |-> 0]
           f0(e) == [i \in 1 .. Len(heap) |-> LookUpAt(heap, key, e[i], none)]
<1>3. \A i, g, h : Stops(i) => LookUpAt(heap, key, i, g) = LookUpAt(heap, key, i, h)
  BY Zenon DEF LookUpAt
<1>4. \A i, g : ~Stops(i) => LookUpAt(heap, key, i, g) = g[heap[i].proto]
  BY Zenon DEF LookUpAt
<1>5. \E e : Ends(e, 1 .. Len(heap), {i \in 1 .. Len(heap) : Stops(i)}, [i \in 1 .. Len(heap) |-> heap[i].proto])
  <2>1. PICK stops, next, D : /\ stops = {i \in 1 .. Len(heap) : Stops(i)}
                              /\ next = [i \in 1 .. Len(heap) |-> heap[i].proto] /\ D = 1 .. Len(heap)
    OBVIOUS
  <2>2. ASSUME NEW i \in D, i \notin stops
        PROVE  i \in 1 .. Len(heap) /\ next[i] = heap[i].proto /\ next[i] \in D
    <3>1. heap[i].proto \in 0 .. Len(heap) /\ heap[i].proto # 0
      BY <1>2, <2>1, <2>2 DEF ObjectOK
    <3> QED
      BY <1>1, <2>1, <3>1
  <2>3. \E e : Ends(e, D, stops, next)
    <3> HIDE DEF Stops
    <3> QED
      BY <1>1, <2>1, <2>2, PrototypesEnd
  <2> QED
    BY <2>1, <2>3
<1>6. PICK e : /\ \A i \in 1 .. Len(heap) : /\ e[i] \in 1 .. Len(heap) /\ Stops(e[i])
                                            /\ Stops(i) => e[i] = i
                                            /\ ~Stops(i) => e[i] = e[heap[i].proto]
  <2> HIDE DEF Stops
  <2> QED
    BY <1>5 DEF Ends
<1>7. PICK f : f = f0(e)
  OBVIOUS
<1>8. \A i \in 1 .. Len(heap) : f[i] = LookUpAt(heap, key, i, f)
  <2> SUFFICES ASSUME NEW i \in 1 .. Len(heap)
               PROVE  f[i] = LookUpAt(heap, key, i, f)
    OBVIOUS
  <2>1. f[i] = LookUpAt(heap, key, e[i], none)
    BY <1>7
  <2>2. CASE Stops(i)
    <3> HIDE DEF Stops
    <3> QED
      BY <1>3, <1>6, <2>1, <2>2
  <2>3. CASE ~Stops(i)
    <3>1. heap[i].proto \in 1 .. Len(heap)
      BY <1>1, <1>2, <2>3 DEF ObjectOK
    <3>2. f[heap[i].proto] = LookUpAt(heap, key, e[heap[i].proto], none)
      BY <1>7, <3>1
    <3>3. e[i] = e[heap[i].proto]
      <4> HIDE DEF Stops
      <4> QED
        BY <1>6, <2>3
    <3>4. LookUpAt(heap, key, i, f) = f[heap[i].proto]
      <4> HIDE DEF Stops
      <4> QED
        BY <1>4, <2>3
    <3> QED
      BY <2>1, <3>2, <3>3, <3>4, Zenon
  <2> QED
    BY <2>2, <2>3
<1>9. f = [i \in DOMAIN heap |-> LookUpAt(heap, key, i, f)]
  <2>1. DOMAIN f = 1 .. Len(heap) /\ f = [i \in 1 .. Len(heap) |-> f[i]]
    BY <1>7
  <2> QED
    BY <1>1, <1>8, <2>1
<1>10. PICK from : /\ from = [i \in DOMAIN heap |-> LookUpAt(heap, key, i, from)]
                   /\ LookUp(heap, id, key) = from[id]
  <2>1. PICK g : g = CHOOSE h : h = [i \in DOMAIN heap |-> LookUpAt(heap, key, i, h)]
    OBVIOUS
  <2>2. g = [i \in DOMAIN heap |-> LookUpAt(heap, key, i, g)]
    BY <1>9, <2>1, Zenon
  <2>3. LookUp(heap, id, key) = g[id]
    BY <2>1, LookUpIs, Zenon
  <2> QED
    BY <2>2, <2>3
<1>11. \A i \in 1 .. Len(heap) : from[i] = LookUpAt(heap, key, i, from)
  BY <1>1, <1>10, Zenon
<1>12. ASSUME NEW i \in 1 .. Len(heap), Stops(i)
       PROVE  ResultOK(heap, LookUpAt(heap, key, i, from))
  <2>1. PICK o : o = heap[i]
    OBVIOUS
  <2>2. ObjectOK(fns, heap, places, o)
    BY <1>2, <2>1
  <2>3. PICK j, p : j = FindOwn(o, key) /\ p = o.props[j]
    OBVIOUS
  <2>4. j = 0 \/ ValueOK(heap, p.val)
    BY <2>2, <2>3, OwnProperty DEF ObjectOK
  <2>5. \A k \in {"value", "call"} : \A v : ValueOK(heap, v) => ResultOK(heap, Found(k, v))
    BY DEF ResultOK, Found
  <2>6. ValueOK(heap, Undefined)
    BY Scalars
  <2>7. PICK r : r = LookUpAt(heap, key, i, from)
    OBVIOUS
  <2>8. CASE o.cls = "array" /\ key.t = "num" /\ key.n \in 0 .. Len(o.tab) - 1
    <3>1. r = Found("value", o.tab[key.n + 1])
      BY <2>1, <2>7, <2>8, Zenon DEF LookUpAt
    <3>2. ValueOK(heap, o.tab[key.n + 1])
      <4>1. IsSeq(o.tab) /\ Len(o.tab) \in Nat
        BY <2>2, Sequence DEF ObjectOK, ValuesOK
      <4>2. key.n + 1 \in 1 .. Len(o.tab)
        BY <2>8, <4>1
      <4> QED
        BY <2>2, <4>2 DEF ObjectOK, ValuesOK
    <3> QED
      BY <2>5, <2>7, <3>1, <3>2
  <2>9. CASE ~(o.cls = "array" /\ key.t = "num" /\ key.n \in 0 .. Len(o.tab) - 1) /\ j # 0
    <3>1. r = Found("value", p.val) \/ r = Found("value", Undefined) \/ r = Found("call", p.val)
      BY <2>1, <2>3, <2>7, <2>9, Zenon DEF LookUpAt
    <3> QED
      BY <2>4, <2>5, <2>6, <2>7, <2>9, <3>1
  <2>10. CASE ~(o.cls = "array" /\ key.t = "num" /\ key.n \in 0 .. Len(o.tab) - 1) /\ j = 0
    <3>1. o.proto = 0
      BY <1>12, <2>1, <2>3, <2>10
    <3>2. r = Found("value", Undefined)
      BY <2>1, <2>3, <2>7, <2>10, <3>1, Zenon DEF LookUpAt
    <3> QED
      BY <2>5, <2>6, <2>7, <3>2
  <2> QED
    BY <2>8, <2>9, <2>10
<1>13. \A i \in 1 .. Len(heap) : ResultOK(heap, from[i])
  <2> DEFINE B == {i \in 1 .. Len(heap) : ~ResultOK(heap, from[i])}
  <2>1. SUFFICES ASSUME B # {}
                 PROVE  FALSE
    OBVIOUS
  <2>2. PICK i \in B : heap[i].proto \notin B
    BY <1>1, <2>1 DEF Grounded
  <2>3. ~Stops(i)
    <3> HIDE DEF Stops
    <3> QED
      BY <1>11, <1>12
  <2>4. heap[i].proto \in 1 .. Len(heap)
    BY <1>1, <1>2, <2>3 DEF ObjectOK
  <2>5. from[i] = from[heap[i].proto]
    <3> HIDE DEF Stops
    <3> QED
      BY <1>4, <1>11, <2>3
  <2> QED
    BY <2>2, <2>4, <2>5
<1> QED
  BY <1>10, <1>13

(* The object of the chain whose setter is to be called, or 0. *)
SetterAt(heap, key, o, above) ==
    LET i == FindOwn(heap[o], key)
    IN IF o = 0 THEN 0
       ELSE IF i # 0 THEN (IF heap[o].props[i].kind = "getset" THEN o ELSE 0)
       ELSE above[heap[o].proto]
LEMMA SetterIs ==
    ASSUME NEW heap, NEW id, NEW key
    PROVE  FindSetter(heap, id, key) = (CHOOSE f : f = [o \in 0 .. Len(heap) |-> SetterAt(heap, key, o, f)])[id]
BY DEF FindSetter, SetterAt

LEMMA FindSetterOK ==
    ASSUME NEW fns, NEW heap, NEW places, HeapOK(fns, heap, places), NEW id \in 1 .. Len(heap), NEW key,
           NEW s, s = FindSetter(heap, id, key)
    PROVE  s = 0 \/ (s \in 1 .. Len(heap) /\ FindOwn(heap[s], key) # 0)
<1>1. IsSeq(heap) /\ DOMAIN heap = 1 .. Len(heap) /\ Len(heap) \in Nat /\ Grounded(heap)
  BY Sequence DEF HeapOK
<1>2. \A i \in 1 .. Len(heap) : heap[i].proto \in 0 .. Len(heap)
  BY DEF HeapOK, ObjectOK
<1> DEFINE D == 0 .. Len(heap)
           Stops(i) == i = 0 \/ FindOwn(heap[i], key) # 0
           none == [i \in {} |-> 0]
<1>3. \A i, g, h : Stops(i) => SetterAt(heap, key, i, g) = SetterAt(heap, key, i, h)
  BY Zenon DEF SetterAt
<1>4. \A i, g : ~Stops(i) => SetterAt(heap, key, i, g) = g[heap[i].proto]
  BY Zenon DEF SetterAt
<1>5. \A i, g : i \in D /\ Stops(i) => LET t == SetterAt(heap, key, i, g)
                                       IN t = 0 \/ (t \in 1 .. Len(heap) /\ FindOwn(heap[t], key) # 0)
  <2> SUFFICES ASSUME NEW i \in D, NEW g, Stops(i), NEW t, t = SetterAt(heap, key, i, g)
               PROVE  t = 0 \/ (t \in 1 .. Len(heap) /\ FindOwn(heap[t], key) # 0)
    BY Zenon
  <2>1. t = 0 \/ (i # 0 /\ FindOwn(heap[i], key) # 0 /\ t = i)
    BY Zenon DEF SetterAt
  <2>2. i # 0 => i \in 1 .. Len(heap)
    BY <1>1
  <2> QED
    BY <2>1, <2>2
<1>6. PICK e : /\ \A i \in D : /\ e[i] \in D /\ Stops(e[i])
                               /\ Stops(i) => e[i] = i
                               /\ ~Stops(i) => e[i] = e[heap[i].proto]
  <2>1. PICK stops, next, E : stops = {i \in D : Stops(i)} /\ next = [i \in D |-> heap[i].proto] /\ E = D
    OBVIOUS
  <2>2. ASSUME NEW i \in E, i \notin stops
        PROVE  i \in 1 .. Len(heap) /\ next[i] = heap[i].proto /\ next[i] \in E
    <3>1. i \in 1 .. Len(heap)
      BY <1>1, <2>1, <2>2
    <3> QED
      BY <1>2, <2>1, <3>1
  <2>3. 1 .. Len(heap) \subseteq E
    BY <2>1
  <2>4. PICK e : Ends(e, E, stops, next)
    <3> HIDE DEF Stops
    <3> QED
      BY <1>1, <2>2, <2>3, PrototypesEnd
  <2>5. \A i \in D : next[i] = heap[i].proto /\ (i \in stops <=> Stops(i))
    BY <2>1
  <2> HIDE DEF Stops, D
  <2> QED
    BY <2>1, <2>4, <2>5 DEF Ends
<1>7. PICK f : f = [i \in D |-> SetterAt(heap, key, e[i], none)]
  OBVIOUS
<1>8. \A i \in D : f[i] = SetterAt(heap, key, i, f)
  <2> SUFFICES ASSUME NEW i \in D
               PROVE  f[i] = SetterAt(heap, key, i, f)
    OBVIOUS
  <2>1. f[i] = SetterAt(heap, key, e[i], none)
    BY <1>7
  <2>2. CASE Stops(i)
    <3> HIDE DEF Stops
    <3> QED
      BY <1>3, <1>6, <2>1, <2>2
  <2>3. CASE ~Stops(i)
    <3>1. heap[i].proto \in D
      BY <1>1, <1>2, <2>3
    <3>2. f[heap[i].proto] = SetterAt(heap, key, e[heap[i].proto], none)
      BY <1>7, <3>1
    <3>3. e[i] = e[heap[i].proto]
      <4> HIDE DEF Stops
      <4> QED
        BY <1>6, <2>3
    <3>4. SetterAt(heap, key, i, f) = f[heap[i].proto]
      <4> HIDE DEF Stops
      <4> QED
        BY <1>4, <2>3
    <3> QED
      BY <2>1, <3>2, <3>3, <3>4, Zenon
  <2> QED
    BY <2>2, <2>3
<1>9. f = [i \in D |-> SetterAt(heap, key, i, f)]
  <2>1. DOMAIN f = D /\ f = [i \in D |-> f[i]]
    BY <1>7
  <2> QED
    BY <1>8, <2>1
<1>10. PICK from : from = [i \in D |-> SetterAt(heap, key, i, from)] /\ s = from[id]
  <2>1. PICK g : g = CHOOSE h : h = [i \in D |-> SetterAt(heap, key, i, h)]
    OBVIOUS
  <2>2. g = [i \in D |-> SetterAt(heap, key, i, g)]
    BY <1>9, <2>1, Zenon
  <2>3. s = g[id]
    BY <2>1, SetterIs, Zenon
  <2> QED
    BY <2>2, <2>3
<1>11. \A i \in D : from[i] = SetterAt(heap, key, i, from)
  BY <1>10, Zenon
<1> DEFINE B == {i \in D : ~(from[i] = 0 \/ (from[i] \in 1 .. Len(heap) /\ FindOwn(heap[from[i]], key) # 0))}
<1>12. B = {}
  <2>1. SUFFICES ASSUME B # {}
                 PROVE  FALSE
    OBVIOUS
  <2>2. \A i \in B : ~Stops(i)
    <3> HIDE DEF Stops
    <3> QED
      BY <1>5, <1>11, Zenon
  <2>3. B \in SUBSET (1 .. Len(heap))
    BY <1>1, <2>2
  <2>4. PICK i \in B : heap[i].proto \notin B
    BY <1>1, <2>1, <2>3 DEF Grounded
  <2>5. heap[i].proto \in D
    BY <1>1, <1>2, <2>3
  <2>6. from[i] = from[heap[i].proto]
    <3> HIDE DEF Stops
    <3> QED
      BY <1>4, <1>11, <2>2
  <2> QED
    BY <2>4, <2>5, <2>6
<1> QED
  <2>1. id \in D /\ id \notin B
    BY <1>1, <1>12
  <2> QED
    BY <1>10, <2>1

(* A new prototype whose chain does not come back leaves no chain that does. *)
AboveAt(heap, p, i, above) == LET proto == heap[i].proto IN proto # 0 /\ (p = Obj(proto) \/ above[proto])
LEMMA AboveIs ==
    ASSUME NEW heap, NEW id, NEW p
    PROVE  HasProto(heap, id, p) = (CHOOSE f : f = [i \in DOMAIN heap |-> AboveAt(heap, p, i, f)])[id]
BY DEF HasProto, AboveAt

LEMMA AboveRelation ==
    ASSUME NEW fns, NEW heap, NEW places, HeapOK(fns, heap, places), NEW p
    PROVE  \E from : /\ \A id : HasProto(heap, id, p) = from[id]
                     /\ \A i \in 1 .. Len(heap) : from[i] <=> AboveAt(heap, p, i, from)
<1>1. IsSeq(heap) /\ DOMAIN heap = 1 .. Len(heap) /\ Len(heap) \in Nat /\ Grounded(heap)
  BY Sequence DEF HeapOK
<1>2. \A i \in 1 .. Len(heap) : heap[i].proto \in 0 .. Len(heap)
  BY DEF HeapOK, ObjectOK
<1> DEFINE Stops(i) == heap[i].proto = 0 \/ p = Obj(heap[i].proto)
<1>3. PICK e : /\ \A i \in 1 .. Len(heap) : /\ e[i] \in 1 .. Len(heap) /\ Stops(e[i])
                                            /\ Stops(i) => e[i] = i
                                            /\ ~Stops(i) => e[i] = e[heap[i].proto]
  <2>1. PICK stops, next, D : /\ stops = {i \in 1 .. Len(heap) : Stops(i)}
                              /\ next = [i \in 1 .. Len(heap) |-> heap[i].proto] /\ D = 1 .. Len(heap)
    OBVIOUS
  <2>2. ASSUME NEW i \in D, i \notin stops
        PROVE  i \in 1 .. Len(heap) /\ next[i] = heap[i].proto /\ next[i] \in D
    <3>1. heap[i].proto \in 0 .. Len(heap) /\ heap[i].proto # 0
      BY <1>2, <2>1, <2>2
    <3> QED
      BY <1>1, <2>1, <3>1
  <2>3. PICK e : Ends(e, D, stops, next)
    <3> HIDE DEF Stops
    <3> QED
      BY <1>1, <2>1, <2>2, PrototypesEnd
  <2>4. \A i \in 1 .. Len(heap) : next[i] = heap[i].proto /\ (i \in stops <=> Stops(i))
    BY <2>1
  <2> HIDE DEF Stops
  <2>5. \A i \in 1 .. Len(heap) : /\ e[i] \in 1 .. Len(heap) /\ e[i] \in stops
                                  /\ i \in stops => e[i] = i
                                  /\ i \notin stops => e[i] = e[next[i]]
    BY ONLY <2>1, <2>3 DEF Ends
  <2>6. \A i \in 1 .. Len(heap) : /\ e[i] \in 1 .. Len(heap) /\ Stops(e[i])
                                  /\ Stops(i) => e[i] = i
                                  /\ ~Stops(i) => e[i] = e[heap[i].proto]
    BY ONLY <2>4, <2>5
  <2> QED
    BY ONLY <2>6
<1>4. PICK f : f = [i \in 1 .. Len(heap) |-> heap[e[i]].proto # 0]
  OBVIOUS
<1>5. \A i \in 1 .. Len(heap) : f[i] = AboveAt(heap, p, i, f)
  <2> SUFFICES ASSUME NEW i \in 1 .. Len(heap)
               PROVE  f[i] = AboveAt(heap, p, i, f)
    OBVIOUS
  <2>1. f[i] = (heap[e[i]].proto # 0)
    BY <1>4, Zenon
  <2>2. CASE heap[i].proto = 0
    <3>1. e[i] = i
      BY <1>3, <2>2
    <3> QED
      BY <2>1, <2>2, <3>1, Zenon DEF AboveAt
  <2>3. CASE heap[i].proto # 0 /\ p = Obj(heap[i].proto)
    <3>1. e[i] = i
      BY <1>3, <2>3
    <3> QED
      BY <2>1, <2>3, <3>1, Zenon DEF AboveAt
  <2>4. CASE heap[i].proto # 0 /\ p # Obj(heap[i].proto)
    <3>1. e[i] = e[heap[i].proto] /\ heap[i].proto \in 1 .. Len(heap)
      BY <1>1, <1>2, <1>3, <2>4
    <3>2. f[heap[i].proto] = (heap[e[heap[i].proto]].proto # 0)
      BY <1>4, <3>1, Zenon
    <3> QED
      BY <2>1, <2>4, <3>1, <3>2, Zenon DEF AboveAt
  <2> QED
    BY <2>2, <2>3, <2>4
<1>6. f = [i \in DOMAIN heap |-> AboveAt(heap, p, i, f)]
  <2>1. f = [i \in 1 .. Len(heap) |-> f[i]]
    BY <1>4, Zenon
  <2> QED
    BY <1>1, <1>5, <2>1, Zenon
<1>7. PICK g : g = CHOOSE h : h = [i \in DOMAIN heap |-> AboveAt(heap, p, i, h)]
  OBVIOUS
<1>8. g = [i \in DOMAIN heap |-> AboveAt(heap, p, i, g)]
  BY <1>6, <1>7, Zenon
<1>9. \A id : HasProto(heap, id, p) = g[id]
  BY <1>7, AboveIs, Zenon
<1>10. \A i \in 1 .. Len(heap) : g[i] = AboveAt(heap, p, i, g)
  BY <1>1, <1>8, Zenon
<1> QED
  BY <1>9, <1>10, Zenon

LEMMA StillGrounded ==
    ASSUME NEW fns, NEW heap, NEW places, HeapOK(fns, heap, places), NEW id \in 1 .. Len(heap), NEW p \in 0 .. Len(heap),
           p # 0 => ~Circular(id, p), heap = objs, NEW heap2, Len(heap2) = Len(heap),
           \A i \in 1 .. Len(heap) : heap2[i].proto = IF i = id THEN p ELSE heap[i].proto
    PROVE  Grounded(heap2)
<1>1. Len(heap) \in Nat /\ Grounded(heap)
  BY Sequence DEF HeapOK
<1>2. PICK above : /\ \A i : HasProto(heap, i, Obj(id)) = above[i]
                   /\ \A i \in 1 .. Len(heap) : above[i] <=> AboveAt(heap, Obj(id), i, above)
  BY AboveRelation
<1>3. SUFFICES ASSUME NEW A \in SUBSET (1 .. Len(heap)), A # {}, \A i \in A : heap2[i].proto \in A
               PROVE  FALSE
  BY DEF Grounded
<1>4. CASE id \notin A
  <2>1. \A i \in A : heap[i].proto \in A
    BY <1>3, <1>4
  <2> QED
    BY <1>1, <1>3, <2>1 DEF Grounded
<1>5. CASE id \in A
  <2>1. p \in A /\ p # 0
    BY <1>3, <1>5
  <2>2. p # id /\ ~above[p]
    BY <1>2, <2>1 DEF Circular
  <2> DEFINE C == {i \in A : ~above[i] /\ i # id}
  <2>3. C \in SUBSET (1 .. Len(heap)) /\ C # {}
    BY <2>1, <2>2
  <2>4. ASSUME NEW i \in C
        PROVE  heap[i].proto \in C
    <3>1. heap[i].proto \in A /\ heap[i].proto # 0
      BY <1>3
    <3>2. ~AboveAt(heap, Obj(id), i, above)
      BY <1>2
    <3>3. Obj(id) # Obj(heap[i].proto) /\ ~above[heap[i].proto]
      BY <3>1, <3>2, Zenon DEF AboveAt
    <3> QED
      BY <3>1, <3>3
  <2> QED
    BY <1>1, <2>3, <2>4 DEF Grounded
<1> QED
  BY <1>4, <1>5

-----------------------------------------------------------------------------
(* What writes to objects. *)
LEMMA HeapStays ==
    ASSUME NEW fns, NEW heap, NEW places, HeapOK(fns, heap, places)
    PROVE  HeapStep(fns, heap, heap, places)
BY Sequence DEF HeapStep, HeapOK, GrewTo

LEMMA HeapSteps ==
    ASSUME NEW fns, NEW heap, NEW heap1, NEW heap2, NEW places,
           HeapStep(fns, heap, heap1, places), HeapStep(fns, heap1, heap2, places)
    PROVE  HeapStep(fns, heap, heap2, places)
BY DEF HeapStep, GrewTo

LEMMA PropertiesWritten ==
    ASSUME NEW fns, NEW heap, NEW places, HeapOK(fns, heap, places), NEW id \in 1 .. Len(heap),
           NEW ps, PropertiesOK(heap, ps), NEW heap2, heap2 = [heap EXCEPT ![id].props = ps]
    PROVE  HeapStep(fns, heap, heap2, places)
<1>1. PICK b, o : b = heap[id] /\ o = [b EXCEPT !.props = ps]
  OBVIOUS
<1>2. ObjectOK(fns, heap, places, b)
  BY <1>1 DEF HeapOK
<1>3. /\ DOMAIN o = ObjectFields /\ o.props = ps /\ o.cls = b.cls /\ o.fn = b.fn /\ o.proto = b.proto
      /\ o.tab = b.tab /\ o.refs = b.refs /\ o.pos = b.pos
  BY <1>1, <1>2 DEF ObjectOK, ObjectFields
<1>4. ObjectOK(fns, heap, places, o)
  BY <1>2, <1>3 DEF ObjectOK
<1>5. heap2 = [heap EXCEPT ![id] = o]
  BY <1>1
<1> QED
  BY <1>1, <1>3, <1>4, <1>5, WrittenOK

LEMMA TableWritten ==
    ASSUME NEW fns, NEW heap, NEW places, HeapOK(fns, heap, places), NEW id \in 1 .. Len(heap),
           NEW tab, ValuesOK(heap, tab), NEW heap2, heap2 = [heap EXCEPT ![id].tab = tab]
    PROVE  HeapStep(fns, heap, heap2, places)
<1>1. PICK b, o : b = heap[id] /\ o = [b EXCEPT !.tab = tab]
  OBVIOUS
<1>2. ObjectOK(fns, heap, places, b)
  BY <1>1 DEF HeapOK
<1>3. /\ DOMAIN o = ObjectFields /\ o.tab = tab /\ o.cls = b.cls /\ o.fn = b.fn /\ o.proto = b.proto
      /\ o.props = b.props /\ o.refs = b.refs /\ o.pos = b.pos
  BY <1>1, <1>2 DEF ObjectOK, ObjectFields
<1>4. ObjectOK(fns, heap, places, o)
  BY <1>2, <1>3 DEF ObjectOK
<1>5. heap2 = [heap EXCEPT ![id] = o]
  BY <1>1
<1> QED
  BY <1>1, <1>3, <1>4, <1>5, WrittenOK

LEMMA DefinedOK ==
    ASSUME NEW fns, NEW heap, NEW places, HeapOK(fns, heap, places), NEW id \in 1 .. Len(heap),
           NEW p, ValueOK(heap, p.val), ValueOK(heap, p.set), NEW heap2, heap2 = JS_DefineProperty(heap, id, p)
    PROVE  HeapStep(fns, heap, heap2, places)
<1>1. PICK ps, i : ps = heap[id].props /\ i = FindOwn(heap[id], p.key)
  OBVIOUS
<1>2. PropertiesOK(heap, ps)
  BY <1>1 DEF HeapOK, ObjectOK
<1>3. PICK qs : qs = IF i = 0 THEN Append(ps, p) ELSE [ps EXCEPT ![i] = p]
  OBVIOUS
<1>4. PropertiesOK(heap, qs)
  <2>1. CASE i = 0
    <3>1. ExtensionOf(qs, ps, p)
      BY <1>2, <1>3, <2>1, Extended DEF PropertiesOK
    <3>2. Len(ps) \in Nat
      BY <1>2, Sequence DEF PropertiesOK
    <3>3. \A k \in 1 .. Len(ps) + 1 : k \in 1 .. Len(ps) \/ k = Len(ps) + 1
      BY <3>2
    <3> QED
      BY <1>2, <3>1, <3>3 DEF PropertiesOK, ExtensionOf
  <2>2. CASE i # 0
    <3>1. UpdateOf(qs, ps, i, p)
      BY <1>2, <1>3, <2>2, Updated DEF PropertiesOK
    <3> QED
      BY <1>2, <3>1 DEF PropertiesOK, UpdateOf
  <2> QED
    BY <2>1, <2>2
<1>5. heap2 = [heap EXCEPT ![id].props = qs]
  BY <1>1, <1>3 DEF JS_DefineProperty
<1> QED
  BY <1>4, <1>5, PropertiesWritten

LEMMA NormalOK ==
    ASSUME NEW heap, NEW key, NEW v, ValueOK(heap, v), NEW p, p = Normal(key, v)
    PROVE  ValueOK(heap, p.val) /\ ValueOK(heap, p.set)
BY Scalars DEF Normal

WriteOK(fns, heap, places, r) ==
    r.k \in {"throw", "call", "value"} /\ ValueOK(heap, r.v) /\ HeapStep(fns, heap, r.heap, places)
LEMMA SetPropertyOK ==
    ASSUME NEW fns, NEW heap, NEW places, HeapOK(fns, heap, places), NEW this, ValueOK(heap, this),
           NEW key, NEW v, ValueOK(heap, v), NEW r, r = JS_SetPropertyInternal(heap, this, key, v)
    PROVE  WriteOK(fns, heap, places, r)
<1>1. HeapStep(fns, heap, heap, places) /\ ValueOK(heap, Undefined) /\ ValueOK(heap, Error("TypeError"))
  BY HeapStays, Scalars
<1>2. \A k \in {"throw", "call", "value"} : \A w, heap2 :
          ValueOK(heap, w) /\ HeapStep(fns, heap, heap2, places) => WriteOK(fns, heap, places, [k |-> k, v |-> w, heap |-> heap2])
  BY DEF WriteOK
<1>3. CASE this.t # "obj"
  <2>1. r = [k |-> "throw", v |-> Error("TypeError"), heap |-> heap]
    BY <1>3, Zenon DEF JS_SetPropertyInternal
  <2> QED
    BY <1>1, <1>2, <2>1
<1>4. CASE this.t = "obj"
  <2>1. PICK id, o : id = this.n /\ o = heap[id]
    OBVIOUS
  <2>2. id \in 1 .. Len(heap) /\ ObjectOK(fns, heap, places, o)
    BY <1>4, <2>1 DEF ValueOK, HeapOK
  <2>3. CASE o.cls = "array" /\ key.t = "num"
    <3>1. CASE key.n \notin 0 .. Len(o.tab)
      <4>1. r = [k |-> "throw", v |-> Error("TypeError"), heap |-> heap]
        BY <1>4, <2>1, <2>3, <3>1, Zenon DEF JS_SetPropertyInternal
      <4> QED
        BY <1>1, <1>2, <4>1
    <3>2. CASE key.n \in 0 .. Len(o.tab)
      <4>1. PICK tab, n : tab = o.tab /\ n = key.n
        OBVIOUS
      <4>2. PICK tab2 : tab2 = IF n = Len(tab) THEN Append(tab, v) ELSE [tab EXCEPT ![n + 1] = v]
        OBVIOUS
      <4>3. PICK heap2 : heap2 = [heap EXCEPT ![id].tab = tab2]
        OBVIOUS
      <4>4. r = Stored(heap2)
        <5>1. r = Stored([heap EXCEPT ![id].tab = IF n = Len(@) THEN Append(@, v) ELSE [@ EXCEPT ![n + 1] = v]])
          BY <1>4, <2>1, <2>3, <3>2, <4>1, Zenon DEF JS_SetPropertyInternal
        <5>2. [heap EXCEPT ![id].tab = IF n = Len(@) THEN Append(@, v) ELSE [@ EXCEPT ![n + 1] = v]] = heap2
          BY <2>1, <4>1, <4>2, <4>3
        <5> QED
          BY <5>1, <5>2, Zenon
      <4>5. ValuesOK(heap, tab2)
        <5>1. ValuesOK(heap, tab) /\ IsSeq(tab) /\ Len(tab) \in Nat
          BY <2>2, <4>1, Sequence DEF ObjectOK, ValuesOK
        <5>2. CASE n = Len(tab)
          <6>1. ExtensionOf(tab2, tab, v)
            BY <4>2, <5>1, <5>2, Extended
          <6>2. \A k \in 1 .. Len(tab) + 1 : k \in 1 .. Len(tab) \/ k = Len(tab) + 1
            BY <5>1
          <6> QED
            BY <5>1, <6>1, <6>2 DEF ValuesOK, ExtensionOf
        <5>3. CASE n # Len(tab)
          <6>1. UpdateOf(tab2, tab, n + 1, v)
            BY <4>2, <5>1, <5>3, Updated
          <6> QED
            BY <5>1, <6>1 DEF ValuesOK, UpdateOf
        <5> QED
          BY <5>2, <5>3
      <4>6. HeapStep(fns, heap, heap2, places)
        BY <2>2, <4>3, <4>5, TableWritten
      <4> QED
        BY <1>1, <1>2, <4>4, <4>6 DEF Stored
    <3> QED
      BY <3>1, <3>2
  <2>4. CASE ~(o.cls = "array" /\ key.t = "num")
    <3>1. PICK s : s = FindSetter(heap, id, key)
      OBVIOUS
    <3>2. s = 0 \/ (s \in 1 .. Len(heap) /\ FindOwn(heap[s], key) # 0)
      BY <2>2, <3>1, FindSetterOK
    <3>3. r = IF s = 0 THEN Stored(JS_DefineProperty(heap, id, Normal(key, v)))
              ELSE [k |-> "call", v |-> heap[s].props[FindOwn(heap[s], key)].set, heap |-> heap]
      BY <1>4, <2>1, <2>4, <3>1, Zenon DEF JS_SetPropertyInternal
    <3>4. CASE s = 0
      <4>1. PICK p, heap2 : p = Normal(key, v) /\ heap2 = JS_DefineProperty(heap, id, p)
        OBVIOUS
      <4>2. ValueOK(heap, p.val) /\ ValueOK(heap, p.set)
        BY <4>1, NormalOK
      <4>3. HeapStep(fns, heap, heap2, places)
        BY <2>2, <4>1, <4>2, DefinedOK
      <4>4. r = Stored(heap2)
        BY <3>3, <3>4, <4>1, Zenon
      <4> QED
        BY <1>1, <1>2, <4>3, <4>4 DEF Stored
    <3>5. CASE s # 0
      <4>1. PICK i, q : i = FindOwn(heap[s], key) /\ q = heap[s]
        OBVIOUS
      <4>2. ObjectOK(fns, heap, places, q)
        BY <3>2, <3>5, <4>1 DEF HeapOK
      <4>3. ValueOK(heap, q.props[i].set)
        BY <3>2, <3>5, <4>1, <4>2, OwnProperty DEF ObjectOK
      <4>4. r = [k |-> "call", v |-> q.props[i].set, heap |-> heap]
        BY <3>3, <3>5, <4>1, Zenon
      <4> QED
        BY <1>1, <1>2, <4>3, <4>4
    <3> QED
      BY <3>4, <3>5
  <2> QED
    BY <2>3, <2>4
<1> QED
  BY <1>3, <1>4

LEMMA DeletedOK ==
    ASSUME NEW fns, NEW heap, NEW places, HeapOK(fns, heap, places), NEW v, ValueOK(heap, v), NEW key,
           NEW heap2, heap2 = JS_DeleteProperty(heap, v, key)
    PROVE  HeapStep(fns, heap, heap2, places)
<1>1. PICK id, i : id = v.n /\ i = FindOwn(heap[id], key)
  OBVIOUS
<1>2. CASE v.t # "obj" \/ i = 0
  <2>1. heap2 = heap
    BY <1>1, <1>2, Zenon DEF JS_DeleteProperty
  <2> QED
    BY <2>1, HeapStays
<1>3. CASE v.t = "obj" /\ i # 0
  <2>1. id \in 1 .. Len(heap)
    BY <1>1, <1>3 DEF ValueOK
  <2>2. PICK o, ps : o = heap[id] /\ ps = o.props
    OBVIOUS
  <2>3. PropertiesOK(heap, ps) /\ IsSeq(ps) /\ Len(ps) \in Nat
    BY <2>1, <2>2, Sequence DEF HeapOK, ObjectOK, PropertiesOK
  <2>4. i \in 1 .. Len(ps)
    BY <1>1, <1>3, <2>2, <2>3, OwnProperty
  <2>5. PICK a, b, qs : a = SubSeq(ps, 1, i - 1) /\ b = SubSeq(ps, i + 1, Len(ps)) /\ qs = a \o b
    OBVIOUS
  <2>6. IsSeq(a) /\ Len(a) = i - 1 /\ \A k \in 1 .. Len(a) : a[k] = ps[k]
    <3>1. i - 1 \in 0 .. Len(ps)
      BY <2>3, <2>4
    <3> QED
      BY <2>3, <2>5, <3>1, CutOf
  <2>7. IsSeq(b) /\ \A k \in 1 .. Len(b) : \E j \in 1 .. Len(ps) : b[k] = ps[j]
    <3>1. PICK j, l : j = i + 1 /\ l = Len(ps)
      OBVIOUS
    <3>2. j \in 1 .. Len(ps) + 1 /\ l \in j - 1 .. Len(ps) /\ b = SubSeq(ps, j, l)
      BY <2>3, <2>4, <2>5, <3>1
    <3>3. IsSeq(b) /\ Len(b) = l - j + 1 /\ \A k \in 1 .. Len(b) : b[k] = ps[j + k - 1]
      <4>1. PartOf(b, ps, j, l)
        BY <2>3, <3>2, SliceOf
      <4> QED
        BY <4>1 DEF PartOf
    <3>4. \A k \in 1 .. Len(b) : j + k - 1 \in 1 .. Len(ps)
      BY <2>3, <2>4, <3>1, <3>3
    <3> QED
      BY <3>3, <3>4
  <2>8. PropertiesOK(heap, qs)
    <3>1. JoinOf(qs, a, b)
      BY <2>5, <2>6, <2>7, ConcatOf
    <3>2. Len(a) \in Nat /\ Len(b) \in Nat
      BY <2>6, <2>7, Sequence
    <3>3. ASSUME NEW k \in 1 .. Len(qs)
          PROVE  \E j \in 1 .. Len(ps) : qs[k] = ps[j]
      <4>1. CASE k \in 1 .. Len(a)
        <5>1. k \in 1 .. Len(ps) /\ qs[k] = ps[k]
          BY <2>3, <2>4, <2>6, <3>1, <4>1 DEF JoinOf
        <5> QED
          BY <5>1
      <4>2. CASE k \notin 1 .. Len(a)
        <5>1. PICK m \in 1 .. Len(b) : k = Len(a) + m
          <6>1. k - Len(a) \in 1 .. Len(b) /\ k = Len(a) + (k - Len(a))
            BY <3>1, <3>2, <4>2 DEF JoinOf
          <6> QED
            BY <6>1
        <5>2. qs[k] = b[m]
          BY <3>1, <5>1 DEF JoinOf
        <5> QED
          BY <2>7, <5>2
      <4> QED
        BY <4>1, <4>2
    <3> QED
      BY <2>3, <3>1, <3>3 DEF PropertiesOK, JoinOf
  <2>9. heap2 = [heap EXCEPT ![id].props = qs]
    <3>1. heap2 = [heap EXCEPT ![id].props = RemoveAt(@, i)]
      BY <1>1, <1>3, Zenon DEF JS_DeleteProperty
    <3>2. RemoveAt(ps, i) = qs
      BY <2>5 DEF RemoveAt
    <3> QED
      BY <2>2, <3>1, <3>2
  <2> QED
    BY <2>1, <2>8, <2>9, PropertiesWritten
<1> QED
  BY <1>2, <1>3

(* The prototype of a function, made when it is asked for. *)
PrototypeOK(fns, heap, places, r) == HeapStep(fns, heap, r.heap, places) /\ ValueOK(r.heap, r.v)
LEMMA FunctionPrototypeOK ==
    ASSUME NEW fns, NEW heap, NEW places, HeapOK(fns, heap, places), NEW f, ValueOK(heap, f),
           NEW r, r = js_function_get_prototype(heap, f)
    PROVE  PrototypeOK(fns, heap, places, r)
<1>1. CASE f.t # "obj" \/ heap[f.n].cls # "closure"
  <2>1. r = [heap |-> heap, v |-> Undefined]
    BY <1>1, Zenon DEF js_function_get_prototype
  <2>2. HeapStep(fns, heap, heap, places) /\ ValueOK(heap, Undefined)
    BY HeapStays, Scalars
  <2> QED
    BY <2>1, <2>2 DEF PrototypeOK
<1>2. CASE f.t = "obj" /\ heap[f.n].cls = "closure"
  <2>1. PICK p, c, ps, b, o, heap1, q, heap2 :
           /\ p = Obj(Len(heap) + 1) /\ c = Normal(Str("constructor"), f) /\ ps = <<c>>
           /\ b = Object("object", ObjectProto) /\ o = [b EXCEPT !.props = ps] /\ heap1 = Append(heap, o)
           /\ q = Normal(Str("prototype"), p) /\ heap2 = JS_DefineProperty(heap1, f.n, q)
    OBVIOUS
  <2>2. r = [heap |-> heap2, v |-> p]
    BY <1>2, <2>1, Zenon DEF js_function_get_prototype
  <2>3. IsSeq(heap) /\ Len(heap) \in Nat /\ Len(heap) >= 7 /\ f.n \in 1 .. Len(heap)
    BY <1>2, Sequence DEF HeapOK, ValueOK
  <2>4. /\ DOMAIN b = ObjectFields /\ b.cls = "object" /\ b.proto = 1 /\ ValuesOK(heap, b.tab)
    <3>1. /\ DOMAIN b = ObjectFields /\ b.cls = "object" /\ b.proto = ObjectProto /\ b.pos = 0
          /\ PropertiesOK(heap, b.props) /\ ValuesOK(heap, b.tab)
      BY <2>1, EmptyObject
    <3> QED
      BY <3>1 DEF ObjectProto
  <2>5. PropertiesOK(heap, ps)
    <3>1. IsSeq(ps) /\ Len(ps) = 1 /\ ps[1] = c
      BY <2>1, SingleTuple
    <3>2. ValueOK(heap, c.val) /\ ValueOK(heap, c.set)
      BY <2>1, NormalOK
    <3>3. \A i \in 1 .. 1 : i = 1
      OBVIOUS
    <3> QED
      BY <3>1, <3>2, <3>3 DEF PropertiesOK
  <2>6. /\ DOMAIN o = ObjectFields /\ o.cls = "object" /\ o.proto = 1 /\ o.tab = b.tab /\ o.props = ps
    BY <2>1, <2>4 DEF ObjectFields
  <2>7. ObjectOK(fns, heap, places, o)
    <3>1. 1 \in 0 .. Len(heap)
      BY <2>3
    <3> QED
      BY <2>4, <2>5, <2>6, <3>1 DEF ObjectOK
  <2>8. GrewTo(heap, heap1) => ObjectOK(fns, heap1, places, o)
    BY <2>7, ObjectStaysOK
  <2>9. o.proto # Len(heap) + 1
    BY <2>3, <2>6
  <2>10. HeapStep(fns, heap, heap1, places)
    BY <2>1, <2>8, <2>9, NewObjectOK
  <2>11. Len(heap1) = Len(heap) + 1
    <3>1. ExtensionOf(heap1, heap, o)
      BY <2>1, <2>3, Extended
    <3> QED
      BY <3>1 DEF ExtensionOf
  <2>12. ValueOK(heap1, p) /\ f.n \in 1 .. Len(heap1)
    <3>1. p.t = "obj" /\ p.n = Len(heap) + 1
      BY <2>1 DEF Obj, Value
    <3> QED
      BY <2>3, <2>11, <3>1 DEF ValueOK
  <2>13. ValueOK(heap1, q.val) /\ ValueOK(heap1, q.set)
    BY <2>1, <2>12, NormalOK
  <2>14. HeapStep(fns, heap1, heap2, places)
    BY <2>1, <2>10, <2>12, <2>13, DefinedOK DEF HeapStep
  <2>15. HeapStep(fns, heap, heap2, places) /\ ValueOK(heap2, p)
    BY <2>10, <2>12, <2>14, HeapSteps, StaysOK DEF HeapStep
  <2> QED
    BY <2>2, <2>15 DEF PrototypeOK
<1> QED
  BY <1>1, <1>2

LEMMA GetPrototypeOK ==
    ASSUME NEW fns, NEW heap, NEW places, HeapOK(fns, heap, places), NEW f, ValueOK(heap, f), f.t = "obj",
           NEW r, r = GetPrototype(heap, f)
    PROVE  PrototypeOK(fns, heap, places, r)
<1>1. PICK p : p = LookUp(heap, f.n, Str("prototype"))
  OBVIOUS
<1>2. ResultOK(heap, p)
  BY <1>1, LookUpOK DEF ValueOK
<1>3. r = IF p.k = "call" THEN js_function_get_prototype(heap, f) ELSE [heap |-> heap, v |-> p.v]
  BY <1>1, Zenon DEF GetPrototype
<1>4. CASE p.k = "call"
  BY <1>3, <1>4, FunctionPrototypeOK
<1>5. CASE p.k # "call"
  <2>1. HeapStep(fns, heap, heap, places)
    BY HeapStays
  <2> QED
    BY <1>2, <1>3, <1>5, <2>1 DEF PrototypeOK, ResultOK
<1> QED
  BY <1>4, <1>5

-----------------------------------------------------------------------------
(* Instructions that write to objects. *)
LEMMA PutOn ==
    ASSUME TInv, Running, exc = NoExc, NEW p, Effect(Instruction) = <<p, 1>>, Opcode \notin Special \cup Enders,
           NEW v, ValueOK(objs', v), NEW st, st = Append(Below(p), v), frames' = To(st), cells' = cells, exc' = NoExc, Going,
           HeapStep(code, objs, objs', DOMAIN cells)
    PROVE  Typed'
<1>1. IsSeq(Top.stack) /\ p \in 0 .. Len(Top.stack)
  BY Operands
<1>2. PICK heap, rest : heap = objs' /\ rest = Below(p)
  OBVIOUS
<1>3. Left(rest, p, 0, heap)
  BY <1>1, <1>2, LeftBelow
<1>4. Left(st, p, 0 + 1, heap)
  BY <1>1, <1>2, <1>3, LeftAppend
<1>5. Left(st, p, 1, heap)
  BY <1>4
<1>6. HeapOK(code, objs', DOMAIN cells) /\ GrewTo(objs, objs')
  BY DEF HeapStep
<1> QED
  BY <1>2, <1>5, <1>6, Computed

LEMMA Deletes == ASSUME TInv, Delete PROVE Typed'
<1>1. Running /\ exc = NoExc /\ Opcode \in {"delete"}
  BY FetchedOK DEF Delete
<1>2. Opcode = Instruction[1] /\ Opcode \notin Special \cup Enders
  BY <1>1, Instructed, ShuffleOps DEF Special, Enders, LiteralOps
<1>3. Effect(Instruction) = <<2, 1>>
  BY <1>1, <1>2, EffectPair, Effects
<1>4. ValueOK(objs, S(1))
  <2>1. 1 \in 0 .. 2 - 1 /\ Opcode \notin Shuffles \cup {"ret"}
    BY <1>1, ShuffleOps
  <2> QED
    BY <1>1, <1>3, <2>1, Operands
<1>5. HeapOK(code, objs, DOMAIN cells)
  BY <1>1, HeapIs
<1>6. PICK v, key, heap2, b, st :
         v = S(1) /\ key = JS_ToPropertyKey(S(0)) /\ heap2 = objs' /\ b = Bool(TRUE) /\ st = Append(Below(2), b)
  OBVIOUS
<1>7. /\ heap2 = JS_DeleteProperty(objs, v, key) /\ frames' = To(st)
      /\ cells' = cells /\ exc' = NoExc /\ Going
  BY <1>1, <1>6, Zenon DEF Delete, Quiet, Going
<1>8. HeapStep(code, objs, heap2, DOMAIN cells)
  BY <1>4, <1>5, <1>6, <1>7, DeletedOK
<1>9. ValueOK(heap2, b)
  BY <1>6, Scalars
<1> QED
  BY <1>1, <1>2, <1>3, <1>6, <1>7, <1>8, <1>9, PutOn

LEMMA InstanceOfOK == ASSUME TInv, InstanceOf PROVE Typed'
<1>1. Running /\ exc = NoExc /\ Opcode \in {"instanceof"}
  BY FetchedOK DEF InstanceOf
<1>2. Opcode = Instruction[1] /\ Opcode \notin Special \cup Enders
  BY <1>1, Instructed, ShuffleOps DEF Special, Enders, LiteralOps
<1>3. Effect(Instruction) = <<2, 1>>
  BY <1>1, <1>2, EffectPair, Effects
<1>4. ValueOK(objs, S(0))
  <2>1. 0 \in 0 .. 2 - 1 /\ Opcode \notin Shuffles \cup {"ret"}
    BY <1>1, ShuffleOps
  <2> QED
    BY <1>1, <1>3, <2>1, Operands
<1>5. HeapOK(code, objs, DOMAIN cells)
  BY <1>1, HeapIs
<1>6. PICK f, p, b, st, heap2 :
         /\ f = S(0) /\ p = GetPrototype(objs, f) /\ b = Bool(S(1).t = "obj" /\ HasProto(p.heap, S(1).n, p.v))
         /\ st = Append(Below(2), b) /\ heap2 = objs'
  OBVIOUS
<1>7. CASE ~IsFunction(objs, f)
  <2>1. Throw(Error("TypeError"))
    BY <1>6, <1>7, Zenon DEF InstanceOf
  <2> QED
    BY <1>1, <2>1, ThrownError
<1>8. CASE IsFunction(objs, f)
  <2>1. heap2 = p.heap /\ frames' = To(st) /\ cells' = cells /\ exc' = NoExc /\ Going
    BY <1>1, <1>6, <1>8, Zenon DEF InstanceOf, Quiet, Going
  <2>2. f.t = "obj"
    BY <1>8 DEF IsFunction
  <2>3. PrototypeOK(code, objs, DOMAIN cells, p)
    BY <1>4, <1>5, <1>6, <2>2, GetPrototypeOK
  <2>4. HeapStep(code, objs, heap2, DOMAIN cells)
    BY <2>1, <2>3 DEF PrototypeOK
  <2>5. ValueOK(heap2, b)
    BY <1>6, Scalars, Zenon
  <2> QED
    BY <1>1, <1>2, <1>3, <1>6, <2>1, <2>4, <2>5, PutOn
<1> QED
  BY <1>7, <1>8

(* Instructions of an object literal: the object is below the value. *)
LEMMA LiteralOperands ==
    ASSUME TInv, Running, exc = NoExc, Opcode \in LiteralOps
    PROVE  /\ Effect(Instruction) = <<2, 1>> /\ Opcode = Instruction[1]
           /\ ValueOK(objs, S(0)) /\ S(1).n \in 1 .. Len(objs)
<1>1. Opcode = Instruction[1] /\ IsSeq(Here) /\ OperandsKept(Instruction, Here)
  BY Instructed
<1>2. Effect(Instruction) = <<2, 1>>
  BY <1>1, EffectPair, Effects DEF LiteralOps
<1>3. ValueOK(objs, S(0)) /\ ValueOK(objs, S(1)) /\ Len(Top.stack) \in Nat /\ 2 \in 0 .. Len(Top.stack)
  <2>1. 0 \in 0 .. 2 - 1 /\ 1 \in 0 .. 2 - 1 /\ Opcode \notin Shuffles \cup {"ret"}
    BY ShuffleOps DEF LiteralOps
  <2> QED
    BY <1>2, <2>1, Operands
<1>4. StackOK(Fn, Shape, objs, Top.stack, Here) /\ Len(Top.stack) = Len(Here)
  BY Situation
<1>5. PICK i : i = Len(Here) - 1
  OBVIOUS
<1>6. i \in 1 .. Len(Top.stack) /\ FromTop(Here, 1) = Here[i] /\ S(1) = Top.stack[i]
  BY <1>3, <1>4, <1>5 DEF FromTop, S
<1>7. Here[i].k = "object" /\ Holds(Fn, Shape, objs, S(1), Here[i])
  BY <1>1, <1>4, <1>6 DEF OperandsKept, StackOK
<1>8. S(1).n \in 1 .. Len(objs)
  BY <1>3, <1>7 DEF Holds, ValueOK
<1> QED
  BY <1>1, <1>2, <1>3, <1>8

LEMMA LiteralOK ==
    ASSUME TInv, Running, exc = NoExc, Opcode \in LiteralOps, frames' = To(Below(1)), cells' = cells, exc' = NoExc, Going,
           HeapStep(code, objs, objs', DOMAIN cells)
    PROVE  Typed'
<1>1. Effect(Instruction) = <<2, 1>> /\ Opcode = Instruction[1] /\ IsSeq(Here) /\ Opcode \notin Enders
  BY LiteralOperands, Instructed DEF LiteralOps, Enders
<1>2. IsSeq(Top.stack) /\ Len(Top.stack) \in Nat /\ 2 \in 0 .. Len(Top.stack) /\ Len(Top.stack) = Len(Here)
  BY <1>1, Operands, Situation
<1>3. PICK ks, st, none : ks = Shaped(Instruction, Here) /\ st = Below(1) /\ none = <<>>
  OBVIOUS
<1>4. Reshaped(ks, Here, 1, 0, none)
  <2>1. Reshaped(ks, Here, 1, 0, <<>>)
    BY <1>1, <1>2, <1>3, SpecialShapes
  <2> QED
    BY <1>3, <2>1
<1>5. 1 \in 0 .. Len(Here) /\ 1 \in 0 .. Len(Top.stack)
  BY <1>2
<1>6. Reshaped(st, Top.stack, 1, 0, none)
  <2>1. IsSeq(st) /\ Len(st) = Len(Top.stack) - 1 /\ \A i \in 1 .. Len(Top.stack) - 1 : st[i] = Top.stack[i]
    BY <1>2, <1>3, <1>5, LessOf DEF Below
  <2> QED
    BY <1>2, <2>1 DEF Reshaped
<1>7. HeapOK(code, objs', DOMAIN cells) /\ GrewTo(objs, objs')
  BY DEF HeapStep
<1>8. \A i \in 1 .. 0 : Holds(Fn, Shape, objs', none[i], none[i])
  OBVIOUS
<1> QED
  BY <1>1, <1>3, <1>4, <1>5, <1>6, <1>7, <1>8, Places

LEMMA DefineFieldOK == ASSUME TInv, DefineField PROVE Typed'
<1>1. Running /\ exc = NoExc /\ Opcode \in {"define_field", "define_getter", "define_setter"}
  BY FetchedOK DEF DefineField
<1>2. Opcode \in LiteralOps
  BY <1>1 DEF LiteralOps
<1>3. HeapOK(code, objs, DOMAIN cells)
  BY <1>1, HeapIs
<1>4. PICK v, id : v = S(0) /\ id = S(1).n
  OBVIOUS
<1>5. ValueOK(objs, v) /\ id \in 1 .. Len(objs)
  BY <1>1, <1>2, <1>4, LiteralOperands
<1>6. PICK key, i : key = JS_ToPropertyKey(Const) /\ i = FindOwn(objs[id], key)
  OBVIOUS
<1>7. PICK old, new :
         /\ old = IF i = 0 THEN Getset(key, Undefined, Undefined) ELSE objs[id].props[i]
         /\ new = CASE Opcode = "define_field" -> Normal(key, v)
                    [] Opcode = "define_getter" -> Getset(key, v, old.set)
                    [] Opcode = "define_setter" -> Getset(key, old.val, v)
  OBVIOUS
<1>8. CASE i # 0 /\ old.kind # new.kind
  <2>1. Throw(Error("TypeError"))
    BY <1>4, <1>6, <1>7, <1>8, Zenon DEF DefineField
  <2> QED
    BY <1>1, <2>1, ThrownError
<1>9. CASE ~(i # 0 /\ old.kind # new.kind)
  <2>1. PICK heap2 : heap2 = objs'
    OBVIOUS
  <2>2. heap2 = JS_DefineProperty(objs, id, new) /\ frames' = To(Below(1)) /\ cells' = cells /\ exc' = NoExc /\ Going
    BY <1>1, <1>4, <1>6, <1>7, <1>9, <2>1, Zenon DEF DefineField, Quiet, Going
  <2>3. ValueOK(objs, old.val) /\ ValueOK(objs, old.set)
    <3>1. CASE i = 0
      <4>1. old = Getset(key, Undefined, Undefined)
        BY <1>7, <3>1, Zenon
      <4>2. old.val = Undefined /\ old.set = Undefined
        BY <4>1 DEF Getset
      <4> QED
        BY <4>2, Scalars
    <3>2. CASE i # 0
      <4>1. PICK o : o = objs[id]
        OBVIOUS
      <4>2. ObjectOK(code, objs, DOMAIN cells, o) /\ i = FindOwn(o, key) /\ old = o.props[i]
        BY <1>3, <1>5, <1>6, <1>7, <3>2, <4>1 DEF HeapOK
      <4> QED
        BY <3>2, <4>2, OwnProperty DEF ObjectOK
    <3> QED
      BY <3>1, <3>2
  <2>4. ValueOK(objs, new.val) /\ ValueOK(objs, new.set)
    <3>1. CASE Opcode = "define_field"
      <4>1. new = Normal(key, v)
        BY <1>7, <3>1, Zenon
      <4> QED
        BY <1>5, <4>1, NormalOK
    <3>2. CASE Opcode = "define_getter"
      <4>1. Opcode # "define_field"
        BY <3>2
      <4>2. new = Getset(key, v, old.set)
        BY <1>7, <3>2, <4>1, Zenon
      <4> QED
        BY <1>5, <2>3, <4>2 DEF Getset
    <3>3. CASE Opcode = "define_setter"
      <4>1. Opcode # "define_field" /\ Opcode # "define_getter"
        BY <3>3
      <4>2. new = Getset(key, old.val, v)
        BY <1>7, <3>3, <4>1, Zenon
      <4> QED
        BY <1>5, <2>3, <4>2 DEF Getset
    <3> QED
      BY <1>1, <3>1, <3>2, <3>3
  <2>5. HeapStep(code, objs, heap2, DOMAIN cells)
    BY <1>3, <1>5, <2>2, <2>4, DefinedOK
  <2> QED
    BY <1>1, <1>2, <2>1, <2>2, <2>5, LiteralOK
<1> QED
  BY <1>8, <1>9

LEMMA SetProtoOK == ASSUME TInv, SetProto PROVE Typed'
<1>1. Running /\ exc = NoExc /\ Opcode \in {"set_proto"}
  BY FetchedOK DEF SetProto
<1>2. Opcode \in LiteralOps
  BY <1>1 DEF LiteralOps
<1>3. HeapOK(code, objs, DOMAIN cells)
  BY <1>1, HeapIs
<1>4. PICK v, id : v = S(0) /\ id = S(1).n
  OBVIOUS
<1>5. ValueOK(objs, v) /\ id \in 1 .. Len(objs)
  BY <1>1, <1>2, <1>4, LiteralOperands
<1>6. CASE v.t = "obj" /\ Circular(id, v.n)
  <2>1. Throw(Error("TypeError"))
    BY <1>4, <1>6, Zenon DEF SetProto
  <2> QED
    BY <1>1, <2>1, ThrownError
<1>7. CASE ~(v.t = "obj" /\ Circular(id, v.n))
  <2>1. PICK heap2 : heap2 = objs'
    OBVIOUS
  <2>2. /\ heap2 = IF v.t \notin {"obj", "null"} THEN objs ELSE [objs EXCEPT ![id].proto = v.n]
        /\ frames' = To(Below(1)) /\ cells' = cells /\ exc' = NoExc /\ Going
    BY <1>1, <1>4, <1>7, <2>1, Zenon DEF SetProto, Quiet, Going
  <2>3. HeapStep(code, objs, heap2, DOMAIN cells)
    <3>1. CASE v.t \notin {"obj", "null"}
      <4>1. heap2 = objs
        BY <2>2, <3>1, Zenon
      <4> QED
        BY <1>3, <4>1, HeapStays
    <3>2. CASE v.t \in {"obj", "null"}
      <4>1. PICK p, b, o : p = v.n /\ b = objs[id] /\ o = [b EXCEPT !.proto = p]
        OBVIOUS
      <4>2. IsSeq(objs) /\ Len(objs) \in Nat /\ Len(objs) >= 7
        BY <1>1, HeapIs
      <4>3. p \in 0 .. Len(objs) /\ (p # 0 => ~Circular(id, p))
        BY <1>5, <1>7, <3>2, <4>1, <4>2 DEF ValueOK
      <4>4. heap2 = [objs EXCEPT ![id] = o]
        BY <2>2, <3>2, <4>1
      <4>5. UpdateOf(heap2, objs, id, o)
        BY <4>2, <4>4, Updated
      <4>6. ObjectOK(code, objs, DOMAIN cells, b)
        BY <1>3, <1>5, <4>1 DEF HeapOK
      <4>7. /\ DOMAIN o = ObjectFields /\ o.props = b.props /\ o.cls = b.cls /\ o.fn = b.fn /\ o.proto = p
            /\ o.tab = b.tab /\ o.refs = b.refs /\ o.pos = b.pos
        BY <4>1, <4>6 DEF ObjectOK, ObjectFields
      <4>8. ObjectOK(code, objs, DOMAIN cells, o)
        BY <4>3, <4>6, <4>7 DEF ObjectOK
      <4>9. /\ IsSeq(heap2) /\ Len(heap2) = Len(objs)
            /\ \A k \in 1 .. Len(objs) : heap2[k] = IF k = id THEN o ELSE objs[k]
        BY <4>5 DEF UpdateOf
      <4>10. GrewTo(objs, heap2)
        <5>1. o.cls = objs[id].cls /\ o.fn = objs[id].fn
          BY <4>1, <4>7
        <5>2. \A k \in 1 .. Len(objs) : heap2[k].cls = objs[k].cls /\ heap2[k].fn = objs[k].fn
          BY <4>9, <5>1
        <5> QED
          BY <4>2, <4>9, <5>2 DEF GrewTo
      <4>11. \A k \in 1 .. Len(objs) : ObjectOK(code, objs, DOMAIN cells, heap2[k])
        BY <1>3, <4>8, <4>9 DEF HeapOK
      <4>12. \A k \in 1 .. Len(heap2) : ObjectOK(code, heap2, DOMAIN cells, heap2[k])
        BY <4>9, <4>10, <4>11, ObjectStaysOK
      <4>13. Grounded(heap2)
        <5>1. PICK heap : heap = objs
          OBVIOUS
        <5>2. Len(heap2) = Len(heap) /\ \A k \in 1 .. Len(heap) : heap2[k].proto = IF k = id THEN p ELSE heap[k].proto
          BY <4>7, <4>9, <5>1
        <5>3. HeapOK(code, heap, DOMAIN cells) /\ id \in 1 .. Len(heap) /\ p \in 0 .. Len(heap)
          BY <1>3, <1>5, <4>3, <5>1
        <5> QED
          BY <4>3, <5>1, <5>2, <5>3, StillGrounded
      <4> QED
        BY <4>2, <4>9, <4>10, <4>12, <4>13 DEF HeapOK, HeapStep
    <3> QED
      BY <3>1, <3>2
  <2> QED
    BY <1>1, <1>2, <2>1, <2>2, <2>3, LiteralOK
<1> QED
  BY <1>6, <1>7

-----------------------------------------------------------------------------
(* Loops over keys and elements. *)
LEMMA KeysOK ==
    ASSUME NEW heap, NEW o, PropertiesOK(heap, o.props), ValuesOK(heap, o.tab), NEW keys, keys = js_object_keys(o)
    PROVE  ValuesOK(heap, keys)
<1>1. PICK a : a = IF o.cls = "array" THEN [i \in DOMAIN o.tab |-> Str(ToString(i - 1))] ELSE <<>>
  OBVIOUS
<1>2. PICK b : b = [i \in DOMAIN o.props |-> Str(JS_ToString(o.props[i].key))]
  OBVIOUS
<1>3. keys = a \o b
  BY <1>1, <1>2, Zenon DEF js_object_keys
<1>4. IsSeq(a) /\ \A i \in 1 .. Len(a) : ValueOK(heap, a[i])
  <2>1. CASE o.cls = "array"
    <3>1. PICK n \in Nat : n = Len(o.tab) /\ DOMAIN o.tab = 1 .. n
      BY Sequence DEF ValuesOK
    <3>2. a = [i \in 1 .. n |-> Str(ToString(i - 1))]
      BY <1>1, <2>1, <3>1, Zenon
    <3>3. a = [i \in 1 .. n |-> a[i]]
      BY <3>2, Zenon
    <3>4. IsSeq(a) /\ Len(a) = n
      BY <3>3, FunctionOf
    <3>5. ASSUME NEW i \in 1 .. n
          PROVE  ValueOK(heap, a[i])
      <4>1. a[i] = Str(ToString(i - 1))
        BY <3>2, Zenon
      <4> QED
        BY <4>1, Scalars, Zenon
    <3> QED
      BY <3>4, <3>5
  <2>2. CASE o.cls # "array"
    <3>1. a = <<>>
      BY <1>1, <2>2, Zenon
    <3>2. IsSeq(a) /\ Len(a) = 0
      BY <3>1, EmptyTuple
    <3> QED
      BY <3>2
  <2> QED
    BY <2>1, <2>2
<1>5. IsSeq(b) /\ \A i \in 1 .. Len(b) : ValueOK(heap, b[i])
  <2>1. PICK n \in Nat : n = Len(o.props) /\ DOMAIN o.props = 1 .. n
    BY Sequence DEF PropertiesOK
  <2>2. b = [i \in 1 .. n |-> Str(JS_ToString(o.props[i].key))]
    BY <1>2, <2>1, Zenon
  <2>3. b = [i \in 1 .. n |-> b[i]]
    BY <2>2, Zenon
  <2>4. IsSeq(b) /\ Len(b) = n
    BY <2>3, FunctionOf
  <2>5. ASSUME NEW i \in 1 .. n
        PROVE  ValueOK(heap, b[i])
    <3>1. b[i] = Str(JS_ToString(o.props[i].key))
      BY <2>2, Zenon
    <3> QED
      BY <3>1, Scalars, Zenon
  <2> QED
    BY <2>4, <2>5
<1>6. JoinOf(keys, a, b)
  BY <1>3, <1>4, <1>5, ConcatOf
<1>7. Len(a) \in Nat /\ Len(b) \in Nat
  BY <1>4, <1>5, Sequence
<1>8. ASSUME NEW i \in 1 .. Len(keys)
      PROVE  ValueOK(heap, keys[i])
  <2>1. i \in 1 .. Len(a) \/ \E j \in 1 .. Len(b) : i = Len(a) + j
    <3>1. i \in 1 .. Len(a) + Len(b)
      BY <1>6 DEF JoinOf
    <3>2. CASE i <= Len(a)
      BY <1>7, <3>1, <3>2
    <3>3. CASE i > Len(a)
      <4>1. i - Len(a) \in 1 .. Len(b) /\ i = Len(a) + (i - Len(a))
        BY <1>7, <3>1, <3>3
      <4> QED
        BY <4>1
    <3> QED
      BY <1>7, <3>1, <3>2, <3>3
  <2> QED
    BY <1>4, <1>5, <1>6, <2>1 DEF JoinOf
<1> QED
  BY <1>6, <1>8 DEF JoinOf, ValuesOK

LEMMA IteratorOK ==
    ASSUME NEW fns, NEW heap, NEW places, NEW arr \in 1 .. Len(heap), Len(heap) \in Nat,
           NEW refs, refs = <<arr>>, NEW o, o = [Object("iterator", 0) EXCEPT !.refs = refs]
    PROVE  ObjectOK(fns, heap, places, o) /\ o.proto = 0 /\ o.cls = "iterator"
<1>1. PICK b : b = Object("iterator", 0)
  OBVIOUS
<1>2. /\ DOMAIN b = ObjectFields /\ b.cls = "iterator" /\ b.proto = 0 /\ b.pos = 0
      /\ PropertiesOK(heap, b.props) /\ ValuesOK(heap, b.tab)
  BY <1>1, EmptyObject
<1>3. /\ DOMAIN o = ObjectFields /\ o.cls = "iterator" /\ o.proto = 0 /\ o.tab = b.tab /\ o.props = b.props /\ o.pos = 0
      /\ o.refs = refs
  BY <1>1, <1>2 DEF ObjectFields
<1>4. refs[1] = arr
  OBVIOUS
<1>5. 0 \in 0 .. Len(heap)
  OBVIOUS
<1> QED
  BY <1>2, <1>3, <1>4, <1>5 DEF ObjectOK

LEMMA ForStartOK == ASSUME TInv, ForStart PROVE Typed'
<1>1. Running /\ exc = NoExc /\ Opcode \in {"for_in_start", "for_of_start"}
  BY FetchedOK DEF ForStart
<1>2. Opcode = Instruction[1] /\ IsSeq(Here) /\ Opcode \notin Enders
  BY <1>1, Instructed DEF Enders
<1>3. Effect(Instruction) = <<1, 1>>
  BY <1>1, <1>2, EffectPair, Effects
<1>4. Len(Here) \in Nat /\ 1 \in 0 .. Len(Here) /\ IsSeq(Top.stack) /\ Len(Top.stack) = Len(Here) /\ 1 \in 0 .. Len(Top.stack)
  BY <1>1, <1>2, <1>3, Situation, Operands, Sequence
<1>5. HeapOK(code, objs, DOMAIN cells) /\ IsSeq(objs) /\ Len(objs) \in Nat /\ Len(objs) >= 7
  BY <1>1, HeapIs
<1>6. PICK v : v = S(0)
  OBVIOUS
<1>7. ValueOK(objs, v)
  <2>1. 0 \in 0 .. 1 - 1 /\ Opcode \notin Shuffles \cup {"ret"}
    BY <1>1, ShuffleOps
  <2> QED
    BY <1>1, <1>3, <1>6, <2>1, Operands
<1>8. PICK id, source, tab, keys : /\ id = v.n /\ source = objs[id] /\ tab = js_object_keys(source)
                                   /\ keys = [Object("array", ArrayProto) EXCEPT !.tab = tab]
  OBVIOUS
<1>9. PICK heap : heap = IF Opcode = "for_in_start" THEN Append(objs, keys) ELSE objs
  OBVIOUS
<1>10. PICK arr : arr = IF Opcode = "for_in_start" THEN Len(heap) ELSE id
  OBVIOUS
<1>11. CASE v.t # "obj" \/ heap[arr].cls # "array"
  <2>1. Throw(Error("TypeError"))
    BY <1>6, <1>8, <1>9, <1>10, <1>11, Zenon DEF ForStart
  <2> QED
    BY <1>1, <2>1, ThrownError
<1>12. CASE ~(v.t # "obj" \/ heap[arr].cls # "array")
  <2>1. PICK refs, o, heap2, w, st :
           /\ refs = <<arr>> /\ o = [Object("iterator", 0) EXCEPT !.refs = refs] /\ heap2 = objs'
           /\ w = Obj(Len(heap) + 1) /\ st = Append(Below(1), w)
    OBVIOUS
  <2>2. heap2 = Append(heap, o) /\ frames' = To(st) /\ cells' = cells /\ exc' = NoExc /\ Going
    BY <1>1, <1>6, <1>8, <1>9, <1>10, <1>12, <2>1, Zenon DEF ForStart, Quiet, Going
  <2>3. id \in 1 .. Len(objs)
    BY <1>7, <1>8, <1>12 DEF ValueOK
  <2>4. HeapStep(code, objs, heap, DOMAIN cells) /\ Len(heap) \in Nat /\ arr \in 1 .. Len(heap)
    <3>1. CASE Opcode = "for_in_start"
      <4>1. heap = Append(objs, keys) /\ arr = Len(heap)
        BY <1>9, <1>10, <3>1, Zenon
      <4>2. ObjectOK(code, objs, DOMAIN cells, source)
        BY <1>5, <1>8, <2>3 DEF HeapOK
      <4>3. ValuesOK(objs, tab)
        BY <1>8, <4>2, KeysOK DEF ObjectOK
      <4>4. ASSUME GrewTo(objs, heap)
            PROVE  ObjectOK(code, heap, DOMAIN cells, keys)
        <5>1. ValuesOK(heap, tab)
          BY <4>3, <4>4, StaysOK
        <5>2. Len(heap) \in Nat /\ Len(heap) >= 7
          BY <1>5, <4>4 DEF GrewTo
        <5> QED
          BY <1>8, <5>1, <5>2, ArrayOK
      <4>5. keys.proto = 3
        BY <1>5, <1>8, <4>3, ArrayOK
      <4>6. keys.proto # Len(objs) + 1
        BY <1>5, <4>5
      <4>7. HeapStep(code, objs, heap, DOMAIN cells)
        BY <1>5, <4>1, <4>4, <4>6, NewObjectOK
      <4>8. ExtensionOf(heap, objs, keys)
        BY <1>5, <4>1, Extended
      <4>9. Len(heap) = Len(objs) + 1
        BY <4>8 DEF ExtensionOf
      <4> QED
        BY <1>5, <4>1, <4>7, <4>9
    <3>2. CASE Opcode # "for_in_start"
      <4>1. heap = objs /\ arr = id
        BY <1>9, <1>10, <3>2, Zenon
      <4> QED
        BY <1>5, <2>3, <4>1, HeapStays
    <3> QED
      BY <3>1, <3>2
  <2>5. ExtensionOf(heap2, heap, o)
    BY <2>2, <2>4, Extended DEF HeapStep, HeapOK
  <2>6. Len(heap2) = Len(heap) + 1 /\ heap2[Len(heap) + 1] = o /\ Len(heap2) \in Nat
    BY <2>4, <2>5 DEF ExtensionOf
  <2>7. o.proto = 0 /\ o.cls = "iterator"
    BY <2>1, <2>4, IteratorOK
  <2>8. ObjectOK(code, heap2, DOMAIN cells, o)
    <3>1. arr \in 1 .. Len(heap2)
      BY <2>4, <2>6
    <3> QED
      BY <2>1, <2>6, <3>1, IteratorOK
  <2>9. HeapStep(code, heap, heap2, DOMAIN cells)
    <3>1. o.proto # Len(heap) + 1
      BY <2>4, <2>7
    <3> QED
      BY <2>2, <2>4, <2>8, <3>1, NewObjectOK DEF HeapStep
  <2>10. HeapStep(code, objs, heap2, DOMAIN cells)
    BY <2>4, <2>9, HeapSteps
  <2>11. PICK ks, k : ks = Shaped(Instruction, Here) /\ k = Kind("iterator", 0)
    OBVIOUS
  <2>12. Reshaped(ks, Here, 1, 1, <<k>>)
    BY <1>1, <1>2, <1>3, <1>4, <2>11, SpecialShapes
  <2>13. Reshaped(st, Top.stack, 1, 1, <<w>>)
    <3>1. PICK rest : rest = Below(1)
      OBVIOUS
    <3> QED
      BY <1>4, <2>1, <3>1, AppendOf DEF Below
  <2>14. Holds(Fn, Shape, heap2, w, k)
    <3>1. w.t = "obj" /\ w.n = Len(heap) + 1 /\ k.k = "iterator"
      BY <2>1, <2>11 DEF Kind, Obj, Value
    <3>2. ValueOK(heap2, w) /\ heap2[w.n].cls = "iterator"
      BY <2>4, <2>6, <2>7, <3>1 DEF ValueOK
    <3> QED
      BY <3>1, <3>2 DEF Holds
  <2>15. \A i \in 1 .. 1 : Holds(Fn, Shape, objs', <<w>>[i], <<k>>[i])
    BY <2>1, <2>14
  <2>16. HeapOK(code, objs', DOMAIN cells) /\ GrewTo(objs, objs')
    BY <2>1, <2>10 DEF HeapStep
  <2> QED
    BY <1>1, <1>2, <1>4, <2>2, <2>11, <2>12, <2>13, <2>15, <2>16, Places
<1> QED
  BY <1>11, <1>12

LEMMA ForNextOK == ASSUME TInv, ForNext PROVE Typed'
<1>1. Running /\ exc = NoExc /\ Opcode \in {"for_of_next"}
  BY FetchedOK DEF ForNext
<1>2. Opcode = Instruction[1] /\ IsSeq(Here) /\ OperandsKept(Instruction, Here) /\ Opcode \notin Enders
  BY <1>1, Instructed DEF Enders
<1>3. Effect(Instruction) = <<1, 3>>
  BY <1>1, <1>2, EffectPair, Effects
<1>4. Len(Here) \in Nat /\ 0 \in 0 .. Len(Here) /\ IsSeq(Top.stack) /\ Len(Top.stack) = Len(Here) /\ 1 \in 0 .. Len(Top.stack)
  BY <1>1, <1>2, <1>3, Situation, Operands, Sequence
<1>5. HeapOK(code, objs, DOMAIN cells) /\ IsSeq(objs) /\ Len(objs) \in Nat /\ GrewTo(objs, objs)
  BY <1>1, HeapIs
<1>6. PICK v, id, it : v = S(0) /\ id = v.n /\ it = objs[id]
  OBVIOUS
<1>7. id \in 1 .. Len(objs) /\ it.cls = "iterator"
  <2>1. StackOK(Fn, Shape, objs, Top.stack, Here)
    BY <1>1, Situation
  <2>2. PICK i : i = Len(Here)
    OBVIOUS
  <2>3. i \in 1 .. Len(Top.stack) /\ FromTop(Here, 0) = Here[i] /\ v = Top.stack[i]
    BY <1>4, <1>6, <2>2 DEF FromTop, S
  <2>4. Here[i].k = "iterator" /\ Holds(Fn, Shape, objs, v, Here[i])
    BY <1>1, <1>2, <2>1, <2>3 DEF OperandsKept, StackOK
  <2> QED
    BY <1>6, <2>4 DEF Holds, ValueOK, Plain
<1>8. ObjectOK(code, objs, DOMAIN cells, it)
  BY <1>5, <1>6, <1>7 DEF HeapOK
<1>9. PICK from, tab : from = it.refs[1] /\ tab = objs[from].tab
  OBVIOUS
<1>10. it.pos \in Nat /\ ValuesOK(objs, tab)
  <2>1. from \in 1 .. Len(objs) /\ it.pos \in Nat
    BY <1>7, <1>8, <1>9 DEF ObjectOK
  <2>2. ObjectOK(code, objs, DOMAIN cells, objs[from])
    BY <1>5, <2>1 DEF HeapOK
  <2> QED
    BY <1>9, <2>1, <2>2 DEF ObjectOK
<1>11. PICK ks, any, news : ks = Shaped(Instruction, Here) /\ any = AnyValue /\ news = <<any, any>>
  OBVIOUS
<1>12. Reshaped(ks, Here, 0, 2, news)
  <2>1. Reshaped(ks, Here, 0, 2, <<AnyValue, AnyValue>>)
    BY <1>1, <1>2, <1>3, <1>4, <1>11, SpecialShapes
  <2> QED
    BY <1>11, <2>1
<1>13. ASSUME NEW a, NEW b, ValueOK(objs', a), ValueOK(objs', b), frames' = To(Top.stack \o <<a, b>>),
              cells' = cells, exc' = NoExc, Going, HeapStep(code, objs, objs', DOMAIN cells)
       PROVE  Typed'
  <2>1. PICK vals, st : vals = <<a, b>> /\ st = Top.stack \o vals
    OBVIOUS
  <2>2. IsSeq(vals) /\ Len(vals) = 2 /\ vals[1] = a /\ vals[2] = b
    BY <2>1, PairTuple
  <2>3. Reshaped(st, Top.stack, 0, 2, vals)
    <3>1. Top.stack = Less(Top.stack, 0) /\ 0 \in 0 .. Len(Top.stack)
      BY <1>4, NothingLess
    <3>2. st = Less(Top.stack, 0) \o vals
      BY <2>1, <3>1, Zenon
    <3> QED
      BY <1>4, <2>2, <3>1, <3>2, ReshapeOf
  <2>4. \A i \in 1 .. 2 : Holds(Fn, Shape, objs', vals[i], news[i])
    <3>1. IsSeq(news) /\ Len(news) = 2 /\ news[1] = any /\ news[2] = any
      BY <1>11, PairTuple
    <3>2. \A i \in 1 .. 2 : news[i] = any /\ (vals[i] = a \/ vals[i] = b)
      BY <2>2, <3>1
    <3>3. any.k = "any"
      BY <1>11 DEF AnyValue, Kind
    <3> QED
      BY <1>13, <3>2, <3>3 DEF Holds
  <2>5. HeapOK(code, objs', DOMAIN cells) /\ GrewTo(objs, objs')
    BY <1>13 DEF HeapStep
  <2>6. frames' = To(st)
    BY <1>13, <2>1, Zenon
  <2> QED
    BY <1>1, <1>2, <1>4, <1>11, <1>12, <1>13, <2>3, <2>4, <2>5, <2>6, Places
<1>14. PICK yes, no : yes = Bool(TRUE) /\ no = Bool(FALSE)
  OBVIOUS
<1>15. CASE it.pos >= Len(tab)
  <2>1. Proceeds(Top.stack \o <<Undefined, yes>>)
    BY <1>6, <1>9, <1>14, <1>15, Zenon DEF ForNext, Proceeds, Quiet, Going
  <2>2. frames' = To(Top.stack \o <<Undefined, yes>>) /\ objs' = objs /\ cells' = cells /\ exc' = NoExc /\ Going
    BY <1>1, <2>1, Zenon DEF Proceeds
  <2>3. ValueOK(objs', Undefined) /\ ValueOK(objs', yes)
    BY <1>14, Scalars
  <2>4. HeapStep(code, objs, objs', DOMAIN cells)
    BY <1>5, <2>2, HeapStays
  <2> QED
    BY <1>13, <2>2, <2>3, <2>4
<1>16. CASE ~(it.pos >= Len(tab))
  <2>1. PICK heap2, w, q, o : heap2 = objs' /\ w = tab[it.pos + 1] /\ q = it.pos + 1 /\ o = [it EXCEPT !.pos = q]
    OBVIOUS
  <2>2. /\ heap2 = [objs EXCEPT ![id].pos = @ + 1] /\ frames' = To(Top.stack \o <<w, no>>)
        /\ cells' = cells /\ exc' = NoExc /\ Going
    BY <1>1, <1>6, <1>9, <1>14, <1>16, <2>1, Zenon DEF ForNext, Quiet, Going
  <2>3. heap2 = [objs EXCEPT ![id] = o]
    BY <1>6, <2>1, <2>2
  <2>4. /\ DOMAIN o = ObjectFields /\ o.cls = it.cls /\ o.proto = it.proto /\ o.props = it.props /\ o.tab = it.tab
        /\ o.fn = it.fn /\ o.refs = it.refs /\ o.pos = q
    BY <1>8, <2>1 DEF ObjectOK, ObjectFields
  <2>5. q \in Nat
    BY <1>10, <2>1
  <2>6. ObjectOK(code, objs, DOMAIN cells, o)
    BY <1>7, <1>8, <2>4, <2>5 DEF ObjectOK
  <2>7. o.cls = objs[id].cls /\ o.fn = objs[id].fn /\ o.proto = objs[id].proto
    BY <1>6, <2>4
  <2>8. HeapStep(code, objs, heap2, DOMAIN cells)
    BY <1>5, <1>7, <2>3, <2>6, <2>7, WrittenOK
  <2>9. ValueOK(objs, w)
    <3>1. Len(tab) \in Nat
      BY <1>10, Sequence DEF ValuesOK
    <3>2. q \in 1 .. Len(tab) /\ w = tab[q]
      BY <1>10, <1>16, <2>1, <3>1
    <3> QED
      BY <1>10, <3>2 DEF ValuesOK
  <2>10. ValueOK(heap2, w) /\ ValueOK(heap2, no)
    BY <1>14, <2>8, <2>9, StaysOK, Scalars DEF HeapStep
  <2> QED
    BY <1>13, <2>1, <2>2, <2>8, <2>10
<1> QED
  BY <1>15, <1>16

-----------------------------------------------------------------------------
(* Calls.  The smallest and the largest of some numbers. *)
LEMMA Least ==
    ASSUME NEW T \in SUBSET Nat, T # {}
    PROVE  \E x \in T : \A y \in T : x <= y
<1>1. PICK R : R = OpToRel(<, Nat)
  OBVIOUS
<1>2. IsWellFoundedOn(R, Nat)
  BY <1>1, NatLessThanWellFounded
<1>3. PICK x \in T : \A y \in T : <<y, x>> \notin R
  BY <1>2, WFMin
<1>4. \A y \in T : y < x => <<y, x>> \in R
  BY <1>1 DEF OpToRel
<1>5. \A y \in T : ~(y < x)
  BY <1>3, <1>4
<1>6. \A y \in T : y \in Nat /\ x \in Nat
  OBVIOUS
<1>7. \A y \in T : x <= y
  BY <1>5, <1>6
<1> QED
  BY <1>7

LEMMA MinOf ==
    ASSUME NEW T \in SUBSET Nat, T # {}, NEW m, m = Min(T)
    PROVE  m \in T /\ \A y \in T : m <= y
BY Least DEF Min

LEMMA MaxOf ==
    ASSUME NEW n \in Nat, NEW T \in SUBSET (0 .. n), T # {}, NEW m, m = Max(T)
    PROVE  m \in T /\ \A y \in T : m >= y
<1> DEFINE U == {n - i : i \in T}
<1>1. U \in SUBSET Nat /\ U # {}
  <2>1. \A i \in T : n - i \in Nat
    OBVIOUS
  <2> QED
    BY <2>1
<1> HIDE DEF U
<1>2. PICK u \in U : \A y \in U : u <= y
  BY <1>1, Least
<1>3. PICK x \in T : u = n - x
  BY <1>2 DEF U
<1>4. \A y \in T : n - y \in U
  BY DEF U
<1>5. \A y \in T : x >= y
  BY <1>2, <1>3, <1>4
<1> QED
  BY <1>5 DEF Max

(* A frame that a function is called with. *)
NewFrame(fns, shapes, heap, g) == FrameOK(fns, shapes, heap, g) /\ Len(g.stack) = Len(shapes[g.fn][g.pc])
LEMMA FrameMade ==
    ASSUME NEW fns, NEW shapes, Compiled(fns, shapes), NEW id \in DOMAIN fns, NEW heap,
           NEW func, func.t = "obj", ValueOK(heap, func), heap[func.n].cls = "closure", heap[func.n].fn = id,
           NEW this, ValueOK(heap, this), NEW args, ValuesOK(heap, args), NEW flags,
           NEW g, g = Frame(fns[id], id, func, this, args, flags)
    PROVE  NewFrame(fns, shapes, heap, g) /\ g.flags = flags
<1>1. PICK fn, shape : fn = fns[id] /\ shape = shapes[id]
  OBVIOUS
<1>2. ShapeKept(fns, fn, shape)
  BY <1>1 DEF Compiled
<1>3. fn.vars \in Seq(STRING) /\ fn.nargs \in 0 .. Len(fn.vars) /\ 1 \in DOMAIN shape /\ shape[1] = <<>>
  BY <1>2 DEF ShapeKept
<1>4. Len(fn.vars) \in Nat /\ fn.nargs \in Nat /\ Len(args) \in Nat /\ IsSeq(args)
  BY <1>3, Sequence DEF ValuesOK
<1>5. PICK n : n = Max({0, fn.nargs - Len(args)})
  OBVIOUS
<1>6. n \in Nat /\ fn.nargs <= Len(args) + n
  <2>1. PICK m : m = IF fn.nargs - Len(args) > 0 THEN fn.nargs - Len(args) ELSE 0
    OBVIOUS
  <2>2. PICK T : T = {0, fn.nargs - Len(args)}
    OBVIOUS
  <2>3. m \in T /\ \A y \in T : m >= y
    BY <1>4, <2>1, <2>2
  <2>4. n = CHOOSE x \in T : \A y \in T : x >= y
    BY <1>5, <2>2, Zenon DEF Max
  <2>5. n \in T /\ \A y \in T : n >= y
    BY <2>3, <2>4, Zenon
  <2> QED
    BY <1>4, <2>2, <2>5
<1>7. PICK more : more = [i \in 1 .. n |-> Undefined]
  OBVIOUS
<1>8. IsSeq(more) /\ Len(more) = n /\ \A i \in 1 .. n : more[i] = Undefined
  <2>1. more = [i \in 1 .. n |-> more[i]]
    BY <1>7
  <2> QED
    BY <1>6, <1>7, <2>1, FunctionOf
<1>9. PICK all : all = args \o more
  OBVIOUS
<1>10. JoinOf(all, args, more)
  BY <1>4, <1>8, <1>9, ConcatOf
<1>11. ValueOK(heap, Undefined)
  BY Scalars
<1>12. ValuesOK(heap, all) /\ Len(all) = Len(args) + n
  <2>1. IsSeq(all) /\ Len(all) = Len(args) + n
    BY <1>8, <1>10 DEF JoinOf
  <2>2. ASSUME NEW i \in 1 .. Len(all)
        PROVE  ValueOK(heap, all[i])
    <3>1. CASE i \in 1 .. Len(args)
      BY <1>10, <3>1 DEF JoinOf, ValuesOK
    <3>2. CASE i \notin 1 .. Len(args)
      <4>1. PICK j : j = i - Len(args)
        OBVIOUS
      <4>2. j \in 1 .. n /\ i = Len(args) + j
        BY <1>4, <1>6, <2>1, <3>2, <4>1
      <4>3. all[i] = more[j]
        BY <1>8, <1>10, <4>2 DEF JoinOf
      <4> QED
        BY <1>8, <1>11, <4>2, <4>3
    <3> QED
      BY <3>1, <3>2
  <2> QED
    BY <2>1, <2>2 DEF ValuesOK
<1>13. PICK l : l = Len(fn.vars) - fn.nargs
  OBVIOUS
<1>14. PICK locs : locs = [i \in 1 .. l |-> Undefined]
  OBVIOUS
<1>15. ValuesOK(heap, locs) /\ Len(locs) = l
  <2>1. l \in Nat
    BY <1>3, <1>4, <1>13
  <2>2. locs = [i \in 1 .. l |-> locs[i]] /\ \A i \in 1 .. l : locs[i] = Undefined
    BY <1>14
  <2>3. IsSeq(locs) /\ Len(locs) = l
    BY <2>1, <2>2, FunctionOf
  <2> QED
    BY <1>11, <2>2, <2>3 DEF ValuesOK
<1>16. PICK st, argc, refs, none : st = <<>> /\ argc = Len(args) /\ refs = {} /\ none = shape[1]
  OBVIOUS
<1>17. g = [fn |-> id, func |-> func, this |-> this, argc |-> argc, flags |-> flags, pc |-> 1,
            args |-> all, locs |-> locs, stack |-> st, refs |-> refs]
  BY <1>1, <1>5, <1>7, <1>9, <1>13, <1>14, <1>16, Zenon DEF Frame
<1>18. /\ DOMAIN g = FrameFields /\ g.fn = id /\ g.func = func /\ g.this = this /\ g.argc = argc /\ g.flags = flags
       /\ g.pc = 1 /\ g.args = all /\ g.locs = locs /\ g.stack = st
  BY <1>17 DEF FrameFields
<1>19. IsSeq(st) /\ Len(st) = 0 /\ Len(none) = 0
  BY <1>3, <1>16, EmptyTuple
<1>20. StackOK(fn, shape, heap, st, none)
  BY <1>19 DEF StackOK
<1>21. argc \in 0 .. Len(all) /\ fn.nargs <= Len(all) /\ Len(locs) = Locals(fn)
  BY <1>4, <1>6, <1>12, <1>13, <1>15, <1>16 DEF Locals
<1>22. FrameOK(fns, shapes, heap, g)
  BY <1>1, <1>3, <1>12, <1>15, <1>16, <1>18, <1>20, <1>21 DEF FrameOK
<1>23. Len(g.stack) = Len(shapes[g.fn][g.pc])
  BY <1>1, <1>16, <1>18, <1>19
<1> QED
  BY <1>18, <1>22, <1>23 DEF NewFrame

(* What comes back from a call finds the stack as the caller left it, without
   the operands: p were taken off and m put on.                              *)
Calling(st, flags, p, m) ==
    /\ Left(st, p, m, objs) /\ Opcode \notin Special \cup Enders
    /\ Effect(Instruction) = <<p, IF POP_RET \in flags THEN m ELSE m + 1>>
LEMMA LeftStays ==
    ASSUME NEW st, NEW p, NEW m, NEW heap, Left(st, p, m, heap), NEW heap2, GrewTo(heap, heap2)
    PROVE  Left(st, p, m, heap2)
<1>1. \A v : ValueOK(heap, v) => ValueOK(heap2, v)
  BY StaysOK
<1> QED
  BY <1>1 DEF Left, KeptTo

PutBack(st, p, n, heap) == n \in Nat /\ Effect(Instruction) = <<p, n>> /\ Left(st, p, n, heap)
LEMMA CalledWith ==
    ASSUME TInv, Running, exc = NoExc, NEW st, NEW flags, NEW p, NEW m \in Nat, Calling(st, flags, p, m),
           NEW heap, GrewTo(objs, heap), NEW v, ValueOK(heap, v), NEW n, n = IF POP_RET \in flags THEN m ELSE m + 1,
           NEW st2, st2 = IF POP_RET \in flags THEN st ELSE Append(st, v)
    PROVE  PutBack(st2, p, n, heap)
<1>1. n \in Nat /\ Effect(Instruction) = <<p, n>>
  BY DEF Calling
<1>2. Left(st, p, m, heap)
  BY LeftStays DEF Calling
<1>3. IsSeq(Top.stack) /\ p \in 0 .. Len(Top.stack)
  BY <1>1, Operands
<1>4. CASE POP_RET \in flags
  <2>1. n = m /\ st2 = st
    BY <1>4, Zenon
  <2>2. Left(st2, p, n, heap)
    BY <1>2, <2>1, Zenon
  <2> QED
    BY <1>1, <2>2, Zenon DEF PutBack
<1>5. CASE POP_RET \notin flags
  <2>1. Left(Append(st, v), p, m + 1, heap)
    BY <1>2, <1>3, LeftAppend
  <2>2. n = m + 1 /\ st2 = Append(st, v)
    BY <1>5, Zenon
  <2>3. Left(st2, p, n, heap)
    BY <2>1, <2>2, Zenon
  <2> QED
    BY <1>1, <2>3, Zenon DEF PutBack
<1> QED
  BY <1>4, <1>5, Zenon

LEMMA Returned ==
    ASSUME TInv, Running, exc = NoExc, NEW st, NEW flags, NEW p, NEW m \in Nat, Calling(st, flags, p, m),
           HeapStep(code, objs, objs', DOMAIN cells), NEW v, ValueOK(objs', v),
           NEW st2, st2 = IF POP_RET \in flags THEN st ELSE Append(st, v),
           frames' = To(st2), cells' = cells, exc' = NoExc, Going
    PROVE  Typed'
<1>1. PICK n, heap : n = (IF POP_RET \in flags THEN m ELSE m + 1) /\ heap = objs'
  OBVIOUS
<1>2. HeapOK(code, objs', DOMAIN cells) /\ GrewTo(objs, objs')
  BY DEF HeapStep
<1>3. n \in Nat /\ Effect(Instruction) = <<p, n>> /\ Left(st2, p, n, heap)
  <2>1. PutBack(st2, p, n, heap)
    BY <1>1, <1>2, CalledWith
  <2> QED
    BY <2>1 DEF PutBack
<1>4. Opcode \notin Special \cup Enders
  BY DEF Calling
<1> QED
  BY <1>1, <1>2, <1>3, <1>4, Computed

Suspended(f, flags, heap) ==
    /\ FrameOK(code, ShapeOf(prog), heap, f) /\ f.flags = Top.flags /\ Waits(ShapeOf(prog), f, flags)
    /\ Len(f.args) = Len(Top.args) /\ Len(f.locs) = Len(Top.locs)
LEMMA SuspendedOK ==
    ASSUME TInv, Running, exc = NoExc, NEW st, NEW flags, NEW p, NEW m \in Nat, Calling(st, flags, p, m),
           NEW heap, GrewTo(objs, heap), NEW f, f = At(st, Top.pc + 1)
    PROVE  Suspended(f, flags, heap)
<1>1. PICK n, st2, pc : /\ n = (IF POP_RET \in flags THEN m ELSE m + 1) /\ pc = Top.pc + 1
                        /\ st2 = IF POP_RET \in flags THEN st ELSE Append(st, Undefined)
  OBVIOUS
<1>2. n \in Nat /\ Effect(Instruction) = <<p, n>> /\ Left(st2, p, n, heap) /\ Opcode \notin Special \cup Enders
  <2>1. ValueOK(heap, Undefined)
    BY Scalars
  <2>2. PutBack(st2, p, n, heap)
    BY <1>1, <2>1, CalledWith
  <2> QED
    BY <2>2 DEF PutBack, Calling
<1>3. PICK ks : ks = Shape[pc]
  OBVIOUS
<1>4. /\ pc \in DOMAIN Shape /\ StackOK(Fn, Shape, heap, st2, ks) /\ Len(st2) = Len(ks)
      /\ n > 0 => ks[Len(ks)] = AnyValue
  BY <1>1, <1>2, <1>3, Ordinary
<1>5. IsSeq(st) /\ Len(st) \in Nat
  BY Sequence DEF Calling, Left, KeptTo
<1>6. /\ StackOK(Fn, Shape, heap, st, ks)
      /\ IF POP_RET \in flags THEN Len(st) = Len(ks) ELSE Len(st) + 1 = Len(ks) /\ ks[Len(ks)] = AnyValue
  <2>1. CASE POP_RET \in flags
    BY <1>1, <1>4, <2>1
  <2>2. CASE POP_RET \notin flags
    <3>1. PICK u : u = Undefined
      OBVIOUS
    <3>2. st2 = Append(st, u) /\ n = m + 1
      BY <1>1, <2>2, <3>1
    <3>3. ExtensionOf(st2, st, u)
      BY <1>5, <3>2, Extended
    <3>4. Len(st2) = Len(st) + 1 /\ \A i \in 1 .. Len(st) : st2[i] = st[i]
      BY <3>3 DEF ExtensionOf
    <3>5. \A i \in 1 .. Len(st) : i \in 1 .. Len(st2)
      BY <1>5, <3>4
    <3>6. \A i \in 1 .. Len(st) : Holds(Fn, Shape, heap, st[i], ks[i])
      BY <1>4, <3>4, <3>5 DEF StackOK
    <3>7. Len(st) <= Len(ks) /\ n > 0
      BY <1>4, <1>5, <3>2, <3>4
    <3> QED
      BY <1>4, <1>5, <2>2, <3>4, <3>6, <3>7 DEF StackOK
  <2> QED
    BY <2>1, <2>2
<1>7. FrameOK(code, ShapeOf(prog), heap, Top)
  BY Situation, FrameStays
<1>8. /\ DOMAIN f = FrameFields /\ f.stack = st /\ f.pc = pc /\ f.fn = Top.fn /\ f.func = Top.func /\ f.this = Top.this
      /\ f.argc = Top.argc /\ f.flags = Top.flags /\ f.args = Top.args /\ f.locs = Top.locs
  BY <1>1, <1>7 DEF At, FrameOK, FrameFields
<1>9. FrameOK(code, ShapeOf(prog), heap, f)
  BY <1>3, <1>4, <1>6, <1>7, <1>8 DEF FrameOK, Shape, Fn
<1>10. Waits(ShapeOf(prog), f, flags)
  BY <1>3, <1>6, <1>8 DEF Waits, Shape
<1> QED
  BY <1>8, <1>9, <1>10 DEF Suspended

(* The function, this and the arguments that are left once `call' called. *)
TargetOK(t) == ValueOK(objs, t.func) /\ ValueOK(objs, t.this) /\ ValuesOK(objs, t.args)
LEMMA TargetIs ==
    ASSUME NEW func, ValueOK(objs, func), NEW this, ValueOK(objs, this), NEW args, ValuesOK(objs, args),
           NEW t, t = Target(func, this, args)
    PROVE  TargetOK(t)
<1>1. PICK two, given : two = <<func, this>> /\ given = two \o args
  OBVIOUS
<1>2. IsSeq(two) /\ Len(two) = 2 /\ two[1] = func /\ two[2] = this
  BY <1>1, PairTuple
<1>3. IsSeq(args) /\ Len(args) \in Nat /\ \A i \in 1 .. Len(args) : ValueOK(objs, args[i])
  BY Sequence DEF ValuesOK
<1>4. JoinOf(given, two, args)
  BY <1>1, <1>2, <1>3, ConcatOf
<1>5. IsSeq(given) /\ Len(given) = Len(args) + 2 /\ Len(given) \in Nat
  BY <1>2, <1>3, <1>4 DEF JoinOf
<1>6. ASSUME NEW i \in 1 .. Len(given)
      PROVE  ValueOK(objs, given[i])
  <2>1. CASE i = 1 \/ i = 2
    BY <1>2, <1>4, <2>1 DEF JoinOf
  <2>2. CASE ~(i = 1 \/ i = 2)
    <3>1. PICK j : j = i - 2
      OBVIOUS
    <3>2. j \in 1 .. Len(args) /\ i = 2 + j
      BY <1>3, <1>5, <2>2, <3>1
    <3>3. given[i] = args[j]
      BY <1>2, <1>4, <3>2 DEF JoinOf
    <3> QED
      BY <1>3, <3>2, <3>3
  <2> QED
    BY <2>1, <2>2
<1>7. ASSUME NEW i \in Nat, i >= 1
      PROVE  ValueOK(objs, Arg(given, i))
  <2>1. CASE i > Len(given)
    BY <2>1, Scalars DEF Arg
  <2>2. CASE ~(i > Len(given))
    <3>1. i \in 1 .. Len(given) /\ Arg(given, i) = given[i]
      BY <1>5, <1>7, <2>2 DEF Arg
    <3> QED
      BY <1>6, <3>1
  <2> QED
    BY <2>1, <2>2
<1>8. PICK T : T = {i \in 1 .. Len(given) + 1 : ~IsCall(Arg(given, i))}
  OBVIOUS
<1>9. PICK k : k = Min(T)
  OBVIOUS
<1>10. k \in Nat /\ k >= 1
  <2>1. PICK n : n = Len(given) + 1
    OBVIOUS
  <2>2. Arg(given, n) = Undefined
    BY <1>5, <2>1 DEF Arg
  <2>3. ~IsFunction(objs, Undefined)
    BY DEF IsFunction, Undefined, Value
  <2>4. n \in T
    BY <1>5, <1>8, <2>1, <2>2, <2>3 DEF IsCall
  <2>5. \A i \in T : i \in Nat /\ i >= 1
    BY <1>5, <1>8
  <2>6. k \in T
    BY <1>9, <2>4, <2>5, MinOf
  <2> QED
    BY <2>5, <2>6
<1>11. PICK rest : rest = SubSeq(given, k + 2, Len(given))
  OBVIOUS
<1>12. ValuesOK(objs, rest)
  <2>1. CASE k + 2 <= Len(given)
    <3>1. PICK a, b : a = k + 2 /\ b = Len(given)
      OBVIOUS
    <3>2. a \in 1 .. Len(given) + 1 /\ b \in a - 1 .. Len(given) /\ rest = SubSeq(given, a, b)
      BY <1>5, <1>10, <1>11, <2>1, <3>1
    <3>3. PartOf(rest, given, a, b)
      BY <1>5, <3>2, SliceOf
    <3>4. IsSeq(rest) /\ Len(rest) = b - a + 1 /\ \A i \in 1 .. Len(rest) : rest[i] = given[a + i - 1]
      BY <3>3 DEF PartOf
    <3>5. \A i \in 1 .. Len(rest) : a + i - 1 \in 1 .. Len(given)
      BY <1>5, <1>10, <3>1, <3>4
    <3> QED
      BY <1>6, <3>4, <3>5 DEF ValuesOK
  <2>2. CASE ~(k + 2 <= Len(given))
    <3>1. k + 2 \in Int /\ Len(given) \in Int /\ Len(given) < k + 2
      BY <1>5, <1>10, <2>2
    <3>2. rest = <<>>
      BY <1>11, <3>1, SubSeqEmpty
    <3>3. IsSeq(rest) /\ Len(rest) = 0
      BY <3>2, EmptyTuple
    <3> QED
      BY <3>3 DEF ValuesOK
  <2> QED
    BY <2>1, <2>2
<1>13. PICK f, v : f = Arg(given, k) /\ v = Arg(given, k + 1)
  OBVIOUS
<1>14. ValueOK(objs, f) /\ ValueOK(objs, v)
  <2>1. k + 1 \in Nat /\ k + 1 >= 1
    BY <1>10
  <2> QED
    BY <1>7, <1>10, <1>13, <2>1
<1>15. t = [func |-> f, this |-> v, args |-> rest]
  BY <1>1, <1>8, <1>9, <1>11, <1>13, Zenon DEF Target
<1> QED
  BY <1>12, <1>14, <1>15 DEF TargetOK

LEMMA CFunctionCallOK ==
    ASSUME TInv, Running, exc = NoExc, NEW st, NEW flags, NEW p, NEW m \in Nat, Calling(st, flags, p, m),
           NEW t, TargetOK(t), CFunctionCall(t, st, flags)
    PROVE  Typed'
<1>1. HeapOK(code, objs, DOMAIN cells)
  BY HeapIs
<1>2. PICK name, get : name = objs[t.func.n].name /\ get = js_function_get_prototype(objs, t.this)
  OBVIOUS
<1>3. PICK a : a = Arg(t.args, 1)
  OBVIOUS
<1>4. ValueOK(objs, a)
  <2>1. CASE 1 > Len(t.args)
    BY <1>3, <2>1, Scalars DEF Arg
  <2>2. CASE ~(1 > Len(t.args))
    <3>1. Len(t.args) \in Nat
      BY Sequence DEF TargetOK, ValuesOK
    <3>2. 1 \in 1 .. Len(t.args) /\ a = t.args[1]
      BY <1>3, <2>2, <3>1 DEF Arg
    <3> QED
      BY <3>2 DEF TargetOK, ValuesOK
  <2> QED
    BY <2>1, <2>2
<1>5. PICK u : u = Undefined
  OBVIOUS
<1>6. ValueOK(objs, u)
  BY <1>5, Scalars
<1>7. PICK pr : pr = Normal(Str("prototype"), a)
  OBVIOUS
<1>8. ASSUME NEW v, NEW heap2, heap2 = objs', HeapStep(code, objs, heap2, DOMAIN cells), ValueOK(heap2, v),
             frames' = To(IF POP_RET \in flags THEN st ELSE Append(st, v)), cells' = cells, exc' = exc, Going
      PROVE  Typed'
  <2>1. PICK st2 : st2 = IF POP_RET \in flags THEN st ELSE Append(st, v)
    OBVIOUS
  <2>2. frames' = To(st2)
    BY <1>8, <2>1, Zenon
  <2>3. HeapStep(code, objs, objs', DOMAIN cells) /\ ValueOK(objs', v) /\ exc' = NoExc
    BY <1>8, Zenon
  <2> QED
    BY <1>8, <2>1, <2>2, <2>3, Returned
<1>9. CASE name \in {"get_prototype", "set_prototype"} /\ ~IsFunction(objs, t.this)
  <2>1. Throw(Error("TypeError"))
    BY <1>2, <1>9, Zenon DEF CFunctionCall
  <2> QED
    BY <2>1, ThrownError
<1>10. CASE ~(name \in {"get_prototype", "set_prototype"} /\ ~IsFunction(objs, t.this))
  <2>1. /\ \/ name = "print" /\ frames' = To(IF POP_RET \in flags THEN st ELSE Append(st, u)) /\ objs' = objs
           \/ name = "get_prototype" /\ frames' = To(IF POP_RET \in flags THEN st ELSE Append(st, get.v)) /\ objs' = get.heap
           \/ name = "set_prototype" /\ frames' = To(IF POP_RET \in flags THEN st ELSE Append(st, u))
                                     /\ objs' = JS_DefineProperty(objs, t.this.n, pr)
        /\ cells' = cells /\ exc' = exc /\ Going
    BY <1>2, <1>3, <1>5, <1>7, <1>10, Zenon DEF CFunctionCall, Going
  <2>2. CASE name = "print" /\ frames' = To(IF POP_RET \in flags THEN st ELSE Append(st, u)) /\ objs' = objs
    <3>1. HeapStep(code, objs, objs, DOMAIN cells)
      BY <1>1, HeapStays
    <3> QED
      BY <1>6, <1>8, <2>1, <2>2, <3>1, Zenon
  <2>3. CASE name = "get_prototype" /\ frames' = To(IF POP_RET \in flags THEN st ELSE Append(st, get.v)) /\ objs' = get.heap
    <3>1. PICK v, heap2 : v = get.v /\ heap2 = get.heap
      OBVIOUS
    <3>2. HeapStep(code, objs, heap2, DOMAIN cells) /\ ValueOK(heap2, v)
      <4>1. PrototypeOK(code, objs, DOMAIN cells, get)
        BY <1>1, <1>2, FunctionPrototypeOK DEF TargetOK
      <4> QED
        BY <3>1, <4>1 DEF PrototypeOK
    <3>3. heap2 = objs' /\ frames' = To(IF POP_RET \in flags THEN st ELSE Append(st, v))
      BY <2>3, <3>1, Zenon
    <3> QED
      BY <1>8, <2>1, <3>2, <3>3, Zenon
  <2>4. CASE name = "set_prototype" /\ frames' = To(IF POP_RET \in flags THEN st ELSE Append(st, u))
                                    /\ objs' = JS_DefineProperty(objs, t.this.n, pr)
    <3>1. PICK id, heap2 : id = t.this.n /\ heap2 = JS_DefineProperty(objs, id, pr)
      OBVIOUS
    <3>2. id \in 1 .. Len(objs)
      BY <1>10, <2>4, <3>1 DEF IsFunction, TargetOK, ValueOK
    <3>3. ValueOK(objs, pr.val) /\ ValueOK(objs, pr.set)
      BY <1>4, <1>7, NormalOK
    <3>4. HeapStep(code, objs, heap2, DOMAIN cells)
      BY <1>1, <3>1, <3>2, <3>3, DefinedOK
    <3>5. ValueOK(heap2, u)
      BY <1>5, Scalars
    <3>6. heap2 = objs'
      BY <2>4, <3>1, Zenon
    <3> QED
      BY <1>8, <2>1, <2>4, <3>4, <3>5, <3>6, Zenon
  <2> QED
    BY <2>1, <2>2, <2>3, <2>4, Zenon
<1> QED
  BY <1>9, <1>10, Zenon

LEMMA ClosureCallOK ==
    ASSUME TInv, Running, exc = NoExc, NEW st, NEW flags, NEW p, NEW m \in Nat, Calling(st, flags, p, m),
           NEW t, TargetOK(t), t.func.t = "obj", objs[t.func.n].cls = "closure", ClosureCall(t, st, flags)
    PROVE  Typed'
<1>1. HeapOK(code, objs, DOMAIN cells) /\ Len(objs) \in Nat /\ Len(objs) >= 7
  BY HeapIs
<1>2. PICK func, this0, args : func = t.func /\ this0 = t.this /\ args = t.args
  OBVIOUS
<1>3. ValueOK(objs, func) /\ ValueOK(objs, this0) /\ ValuesOK(objs, args)
  BY <1>2 DEF TargetOK
<1>4. PICK r : r = IF CTOR \in flags THEN GetPrototype(objs, func) ELSE [heap |-> objs, v |-> Undefined]
  OBVIOUS
<1>5. PICK proto, this, id, heap2 :
         /\ proto = (IF r.v.t = "obj" THEN r.v.n ELSE ObjectProto)
         /\ this = (IF CTOR \in flags THEN Obj(Len(r.heap) + 1) ELSE this0)
         /\ id = objs[func.n].fn /\ heap2 = objs'
  OBVIOUS
<1>6. PICK f, g : f = At(st, Top.pc + 1) /\ g = Frame(code[id], id, func, this, args, flags)
  OBVIOUS
<1>7. PICK fs1, fs2 : fs1 = [frames EXCEPT ![Depth] = f] /\ fs2 = frames'
  OBVIOUS
<1>8. /\ heap2 = (IF CTOR \in flags THEN Append(r.heap, Object("object", proto)) ELSE objs)
      /\ fs2 = Append(fs1, g) /\ cells' = cells /\ exc' = exc /\ Going
  BY <1>2, <1>4, <1>5, <1>6, <1>7, Zenon DEF ClosureCall, To, Quiet, Going
<1>9. HeapStep(code, objs, heap2, DOMAIN cells) /\ ValueOK(heap2, this)
  <2>1. CASE CTOR \in flags
    <3>1. r = GetPrototype(objs, func) /\ this = Obj(Len(r.heap) + 1) /\ heap2 = Append(r.heap, Object("object", proto))
      BY <1>4, <1>5, <1>8, <2>1, Zenon
    <3>2. PrototypeOK(code, objs, DOMAIN cells, r)
      BY <1>1, <1>2, <1>3, <3>1, GetPrototypeOK
    <3>3. PICK heap, v : heap = r.heap /\ v = r.v
      OBVIOUS
    <3>4. HeapStep(code, objs, heap, DOMAIN cells) /\ ValueOK(heap, v)
      BY <3>2, <3>3 DEF PrototypeOK
    <3>5. Len(heap) \in Nat /\ Len(heap) >= 7 /\ IsSeq(heap) /\ HeapOK(code, heap, DOMAIN cells)
      BY <3>4 DEF HeapStep, HeapOK, GrewTo
    <3>6. proto \in 0 .. Len(heap)
      <4>1. CASE v.t = "obj"
        <5>1. proto = v.n /\ v.n \in 1 .. Len(heap)
          BY <1>5, <3>3, <3>4, <4>1 DEF ValueOK
        <5> QED
          BY <3>5, <5>1
      <4>2. CASE v.t # "obj"
        <5>1. proto = 1
          BY <1>5, <3>3, <4>2 DEF ObjectProto
        <5> QED
          BY <3>5, <5>1
      <4> QED
        BY <4>1, <4>2
    <3>7. PICK o : o = Object("object", proto)
      OBVIOUS
    <3>8. heap2 = Append(heap, o)
      BY <3>1, <3>3, <3>7
    <3>9. ASSUME GrewTo(heap, heap2)
          PROVE  ObjectOK(code, heap2, DOMAIN cells, o)
      <4>1. proto \in 0 .. Len(heap2)
        BY <3>5, <3>6, <3>9 DEF GrewTo
      <4> QED
        BY <3>7, <4>1, PlainObjectOK
    <3>10. o.proto # Len(heap) + 1
      <4>1. o.proto = proto
        BY <3>6, <3>7, PlainObjectOK
      <4> QED
        BY <3>5, <3>6, <4>1
    <3>11. HeapStep(code, heap, heap2, DOMAIN cells)
      BY <3>5, <3>8, <3>9, <3>10, NewObjectOK
    <3>12. ExtensionOf(heap2, heap, o)
      BY <3>5, <3>8, Extended
    <3>13. Len(heap2) = Len(heap) + 1
      BY <3>12 DEF ExtensionOf
    <3>14. this.t = "obj" /\ this.n = Len(heap) + 1
      BY <3>1, <3>3 DEF Obj, Value
    <3>15. ValueOK(heap2, this)
      BY <3>5, <3>13, <3>14 DEF ValueOK
    <3> QED
      BY <3>4, <3>11, <3>15, HeapSteps
  <2>2. CASE CTOR \notin flags
    <3>1. heap2 = objs /\ this = this0
      BY <1>5, <1>8, <2>2, Zenon
    <3> QED
      BY <1>1, <1>3, <3>1, HeapStays
  <2> QED
    BY <2>1, <2>2
<1>10. GrewTo(objs, heap2)
  BY <1>9 DEF HeapStep
<1>11. NewFrame(code, ShapeOf(prog), heap2, g) /\ g.flags = flags
  <2>1. ValueOK(heap2, func) /\ ValuesOK(heap2, args)
    BY <1>3, <1>10, StaysOK
  <2>2. func.n \in 1 .. Len(objs) /\ func.t = "obj"
    BY <1>2, <1>3 DEF ValueOK
  <2>3. heap2[func.n].cls = "closure" /\ heap2[func.n].fn = id
    BY <1>2, <1>5, <1>10, <2>2 DEF GrewTo
  <2>4. id \in DOMAIN code
    <3>1. ObjectOK(code, objs, DOMAIN cells, objs[func.n])
      BY <1>1, <2>2 DEF HeapOK
    <3> QED
      BY <1>2, <1>5, <3>1 DEF ObjectOK
  <2>5. Compiled(code, ShapeOf(prog))
    BY Situation
  <2> QED
    BY <1>6, <1>9, <2>1, <2>2, <2>3, <2>4, <2>5, FrameMade
<1>12. Suspended(f, flags, heap2)
  BY <1>6, <1>10, SuspendedOK
<1>13. /\ Compiled(code, ShapeOf(prog)) /\ Good(code, ShapeOf(prog), objs, cells, frames, exc)
       /\ IsSeq(frames) /\ Depth \in 1 .. Len(frames) /\ Depth = Len(frames) /\ Top = frames[Depth]
  BY Situation
<1>14. PICK n : n = Depth
  OBVIOUS
<1>15. UpdateOf(fs1, frames, n, f)
  BY <1>7, <1>13, <1>14, Updated
<1>16. ExtensionOf(fs2, fs1, g)
  BY <1>8, <1>15, Extended DEF UpdateOf
<1>17. Good(code, ShapeOf(prog), heap2, cells, fs2, exc)
  <2>1. /\ FrameOK(code, ShapeOf(prog), heap2, f) /\ f.flags = frames[n].flags /\ Waits(ShapeOf(prog), f, g.flags)
        /\ Len(f.args) = Len(frames[n].args) /\ Len(f.locs) = Len(frames[n].locs)
    BY <1>11, <1>12, <1>13, <1>14 DEF Suspended
  <2>2. FrameOK(code, ShapeOf(prog), heap2, g) /\ Len(g.stack) = Len(ShapeOf(prog)[g.fn][g.pc])
    BY <1>11 DEF NewFrame
  <2> QED
    BY <1>9, <1>13, <1>14, <1>15, <1>16, <2>1, <2>2, FramePushed
<1>18. code' = code /\ prog' = prog
  BY <1>8 DEF Going
<1> QED
  BY <1>5, <1>7, <1>8, <1>13, <1>17, <1>18 DEF Typed

(* A call that loses its flags changes nothing yet. *)
LEMMA LoseFlagsOK == ASSUME TInv, Running, LoseFlags PROVE Typed'
<1>1. Typed
  BY DEF TInv, Running
<1> QED
  BY <1>1 DEF LoseFlags, Typed

LEMMA CallOK ==
    ASSUME TInv, Running, exc = NoExc, NEW st, NEW flags, NEW p, NEW m \in Nat, Calling(st, flags, p, m),
           NEW func, ValueOK(objs, func), NEW this, ValueOK(objs, this), NEW args, ValuesOK(objs, args),
           Call(func, this, args, st, flags)
    PROVE  Typed'
<1>1. PICK t : t = Target(func, this, args)
  OBVIOUS
<1>2. TargetOK(t)
  BY <1>1, TargetIs
<1>3. \/ Throw(Error("TypeError")) \/ LoseFlags
      \/ IsFunction(objs, t.func) /\ objs[t.func.n].cls = "cfunc" /\ CFunctionCall(t, st, flags)
      \/ IsFunction(objs, t.func) /\ objs[t.func.n].cls # "cfunc" /\ ClosureCall(t, st, flags)
  BY <1>1, Zenon DEF Call
<1>4. IsFunction(objs, t.func) => t.func.t = "obj" /\ objs[t.func.n].cls \in {"closure", "cfunc"}
  BY DEF IsFunction
<1>5. CASE Throw(Error("TypeError"))
  BY <1>5, ThrownError
<1>6. CASE CFunctionCall(t, st, flags)
  BY <1>2, <1>6, CFunctionCallOK
<1>7. CASE IsFunction(objs, t.func) /\ objs[t.func.n].cls # "cfunc" /\ ClosureCall(t, st, flags)
  <2>1. t.func.t = "obj" /\ objs[t.func.n].cls = "closure"
    BY <1>4, <1>7
  <2> QED
    BY <1>2, <1>7, <2>1, ClosureCallOK
<1> QED
  BY <1>3, <1>5, <1>6, <1>7, LoseFlagsOK

LEMMA CallingWith ==
    ASSUME NEW st, NEW flags, NEW p, NEW m, Left(st, p, m, objs), Opcode \notin Special \cup Enders,
           NEW n, Effect(Instruction) = <<p, n>>, n = IF POP_RET \in flags THEN m ELSE m + 1
    PROVE  Calling(st, flags, p, m)
BY Zenon DEF Calling

LEMMA CallOpOK == ASSUME TInv, CallOp PROVE Typed'
<1>1. Running /\ exc = NoExc /\ Opcode \in {"call", "call_constructor", "call_method"}
  BY FetchedOK DEF CallOp
<1>2. Opcode = Instruction[1] /\ Operand = Instruction[2] /\ OperandsKept(Instruction, Here) /\ Opcode \notin Special \cup Enders
  BY <1>1, Instructed, ShuffleOps DEF Special, Enders, LiteralOps
<1>3. PICK n, p : n = Operand /\ p = IF Opcode = "call_method" THEN n + 2 ELSE n + 1
  OBVIOUS
<1>4. n \in Nat
  BY <1>1, <1>2, <1>3 DEF OperandsKept
<1>5. Effect(Instruction) = <<p, 1>> /\ p \in Nat
  <2>1. PICK q, k : Effect(Instruction) = <<q, k>>
    BY EffectPair
  <2>2. /\ Instruction[1] \in {"call", "call_constructor"} => q = 1 + Instruction[2] /\ k = 1
        /\ Instruction[1] = "call_method" => q = 2 + Instruction[2] /\ k = 1
    BY <2>1, Effects
  <2>3. q = p /\ k = 1
    BY <1>1, <1>2, <1>3, <1>4, <2>2
  <2> QED
    BY <1>3, <1>4, <2>1, <2>3
<1>6. /\ IsSeq(Top.stack) /\ Len(Top.stack) \in Nat /\ p \in 0 .. Len(Top.stack)
      /\ \A i \in 0 .. p - 1 : ValueOK(objs, S(i))
  <2>1. Opcode \notin Shuffles \cup {"ret"}
    BY <1>1, ShuffleOps
  <2> QED
    BY <1>1, <1>5, <2>1, Operands
<1>7. PICK l, a, args : l = Len(Top.stack) /\ a = l - n + 1 /\ args = SubSeq(Top.stack, a, l)
  OBVIOUS
<1>8. ValuesOK(objs, args)
  <2>1. a \in 1 .. Len(Top.stack) + 1 /\ l \in a - 1 .. Len(Top.stack)
    BY <1>3, <1>4, <1>6, <1>7
  <2>2. PartOf(args, Top.stack, a, l)
    BY <1>6, <1>7, <2>1, SliceOf
  <2>3. IsSeq(args) /\ Len(args) = n /\ \A i \in 1 .. n : args[i] = Top.stack[a + i - 1]
    <3>1. IsSeq(args) /\ Len(args) = l - a + 1 /\ \A i \in 1 .. Len(args) : args[i] = Top.stack[a + i - 1]
      BY <2>2 DEF PartOf
    <3>2. l - a + 1 = n
      BY <1>4, <1>6, <1>7
    <3> QED
      BY <3>1, <3>2
  <2>4. ASSUME NEW i \in 1 .. n
        PROVE  ValueOK(objs, args[i])
    <3>1. PICK j : j = n - i
      OBVIOUS
    <3>2. j \in 0 .. p - 1 /\ a + i - 1 = l - j
      BY <1>3, <1>4, <1>6, <1>7, <3>1
    <3>3. S(j) = Top.stack[l - j]
      BY <1>7 DEF S, FromTop
    <3>4. args[i] = S(j)
      BY <2>3, <3>2, <3>3
    <3> QED
      BY <1>6, <3>2, <3>4
  <2> QED
    BY <2>3, <2>4 DEF ValuesOK
<1>9. PICK func, this, flags, st :
         /\ func = S(n) /\ this = (IF Opcode = "call_method" THEN S(n + 1) ELSE Undefined) /\ st = Below(p)
         /\ flags = IF Opcode = "call_constructor" THEN {CTOR} ELSE {}
  OBVIOUS
<1>10. Call(func, this, args, st, flags)
  <2>1. CASE Opcode = "call_method"
    <3>1. p = n + 2 /\ this = S(n + 1) /\ flags = {}
      BY <1>3, <1>9, <2>1
    <3> QED
      BY <1>3, <1>7, <1>9, <2>1, <3>1, Zenon DEF CallOp
  <2>2. CASE Opcode # "call_method"
    <3>1. p = n + 1 /\ this = Undefined
      BY <1>3, <1>9, <2>2
    <3> QED
      BY <1>3, <1>7, <1>9, <2>2, <3>1, Zenon DEF CallOp
  <2> QED
    BY <2>1, <2>2
<1>11. ValueOK(objs, func) /\ ValueOK(objs, this)
  <2>1. n \in 0 .. p - 1 /\ (Opcode = "call_method" => n + 1 \in 0 .. p - 1)
    BY <1>3, <1>4
  <2>2. ValueOK(objs, func)
    BY <1>6, <1>9, <2>1
  <2>3. CASE Opcode = "call_method"
    <3>1. this = S(n + 1) /\ ValueOK(objs, S(n + 1))
      BY <1>6, <1>9, <2>1, <2>3
    <3> QED
      BY <2>2, <3>1
  <2>4. CASE Opcode # "call_method"
    <3>1. this = Undefined
      BY <1>9, <2>4
    <3> QED
      BY <2>2, <3>1, Scalars
  <2> QED
    BY <2>3, <2>4
<1>12. Left(st, p, 0, objs)
  BY <1>6, <1>9, LeftBelow
<1>13. POP_RET \notin flags
  BY <1>9 DEF CTOR, POP_RET
<1>14. Calling(st, flags, p, 0)
  <2>1. PICK one : one = 0 + 1
    OBVIOUS
  <2>2. Effect(Instruction) = <<p, one>> /\ one = IF POP_RET \in flags THEN 0 ELSE 0 + 1
    <3>1. one = 1
      BY <2>1
    <3> QED
      BY <1>5, <1>13, <2>1, <3>1, Zenon
  <2> QED
    BY <1>2, <1>12, <2>2, CallingWith
<1> QED
  BY <1>1, <1>8, <1>10, <1>11, <1>14, CallOK

-----------------------------------------------------------------------------
(* Properties that are read and written. *)
GotOK(heap, r) == (r.k = "throw" /\ ValueOK(heap, r.v)) \/ ResultOK(heap, r)
LEMMA GetPropertyOK ==
    ASSUME NEW fns, NEW heap, NEW places, HeapOK(fns, heap, places), NEW v, ValueOK(heap, v), NEW key,
           NEW r, r = JS_GetPropertyInternal(heap, v, key)
    PROVE  GotOK(heap, r)
<1>1. CASE v.t \in {"null", "undefined"}
  <2>1. r = Found("throw", Error("TypeError"))
    BY <1>1, Zenon DEF JS_GetPropertyInternal
  <2>2. PICK e : e = Error("TypeError")
    OBVIOUS
  <2>3. r = [k |-> "throw", v |-> e]
    BY <2>1, <2>2, Zenon DEF Found
  <2>4. ValueOK(heap, e)
    BY <2>2, Scalars
  <2> QED
    BY <2>3, <2>4 DEF GotOK
<1>2. CASE v.t = "obj"
  <2>1. v.t \notin {"null", "undefined"} /\ v.n \in 1 .. Len(heap)
    BY <1>2 DEF ValueOK
  <2>2. r = LookUp(heap, v.n, key)
    BY <1>2, <2>1, Zenon DEF JS_GetPropertyInternal
  <2> QED
    BY <2>1, <2>2, LookUpOK DEF GotOK
<1>3. CASE v.t \notin {"null", "undefined", "obj"}
  <2>1. v.t \notin {"null", "undefined"} /\ v.t # "obj"
    BY <1>3
  <2>2. r = LookUp(heap, ObjectProto, key)
    BY <2>1, Zenon DEF JS_GetPropertyInternal
  <2>3. ObjectProto \in 1 .. Len(heap)
    BY Sequence DEF HeapOK, ObjectProto
  <2> QED
    BY <2>2, <2>3, LookUpOK DEF GotOK
<1> QED
  BY <1>1, <1>2, <1>3

LEMMA ReadOK ==
    ASSUME TInv, Running, exc = NoExc, NEW st, NEW p, NEW m \in Nat, Left(st, p, m, objs), NEW n, n = m + 1,
           Effect(Instruction) = <<p, n>>, Opcode \notin Special \cup Enders,
           NEW v, ValueOK(objs, v), NEW key, NEW flags, POP_RET \notin flags, Read(v, key, st, flags)
    PROVE  Typed'
<1>1. PICK r : r = JS_GetPropertyInternal(objs, v, key)
  OBVIOUS
<1>2. GotOK(objs, r)
  BY <1>1, HeapIs, GetPropertyOK
<1>3. ValueOK(objs, r.v)
  BY <1>2 DEF GotOK, ResultOK
<1>4. CASE r.k = "throw"
  <2>1. Throw(r.v)
    BY <1>1, <1>4, Zenon DEF Read
  <2> QED
    BY <1>3, <2>1, Thrown
<1>5. CASE r.k = "call"
  <2>1. PICK none : none = <<>>
    OBVIOUS
  <2>2. r.k # "throw"
    BY <1>5
  <2>3. Call(r.v, v, none, st, flags)
    BY <1>1, <1>5, <2>1, <2>2, Zenon DEF Read
  <2>4. IsSeq(none) /\ Len(none) = 0
    BY <2>1, EmptyTuple
  <2>5. ValuesOK(objs, none)
    BY <2>4 DEF ValuesOK
  <2>6. n = IF POP_RET \in flags THEN m ELSE m + 1
    OBVIOUS
  <2>7. Calling(st, flags, p, m)
    BY <2>6, CallingWith
  <2> QED
    BY <1>3, <2>3, <2>5, <2>7, CallOK
<1>6. CASE r.k \notin {"throw", "call"}
  <2>1. r.k # "throw" /\ r.k # "call"
    BY <1>6
  <2>2. PICK st2 : st2 = Append(st, r.v)
    OBVIOUS
  <2>3. Proceeds(st2)
    BY <1>1, <2>1, <2>2, Proceeding, Zenon DEF Read
  <2>4. n \in Nat
    OBVIOUS
  <2>5. Left(st2, p, n, objs)
    <3>1. IsSeq(Top.stack) /\ p \in 0 .. Len(Top.stack)
      BY Operands
    <3>2. Left(Append(st, r.v), p, m + 1, objs)
      BY <1>3, <3>1, LeftAppend
    <3> QED
      BY <2>2, <3>2
  <2> QED
    BY <2>3, <2>4, <2>5, Continued
<1> QED
  BY <1>4, <1>5, <1>6

LEMMA WritesOK ==
    ASSUME TInv, Running, exc = NoExc, NEW p, Effect(Instruction) = <<p, 0>>, Opcode \notin Special \cup Enders,
           NEW v, ValueOK(objs, v), NEW w, ValueOK(objs, w), NEW key, NEW st, st = Below(p),
           NEW flags, POP_RET \in flags, Write(v, key, w, st, flags)
    PROVE  Typed'
<1>1. PICK r : r = JS_SetPropertyInternal(objs, v, key, w)
  OBVIOUS
<1>2. WriteOK(code, objs, DOMAIN cells, r)
  BY <1>1, HeapIs, SetPropertyOK
<1>3. Left(st, p, 0, objs)
  BY Operands, LeftBelow
<1>4. CASE r.k = "throw"
  <2>1. Throw(r.v)
    BY <1>1, <1>4, Zenon DEF Write
  <2> QED
    BY <1>2, <2>1, Thrown DEF WriteOK
<1>5. CASE r.k = "call"
  <2>1. PICK args : args = <<w>>
    OBVIOUS
  <2>2. r.k # "throw"
    BY <1>5
  <2>3. Call(r.v, v, args, st, flags)
    BY <1>1, <1>5, <2>1, <2>2, Zenon DEF Write
  <2>4. IsSeq(args) /\ Len(args) = 1 /\ args[1] = w
    BY <2>1, SingleTuple
  <2>5. ValuesOK(objs, args)
    BY <2>4 DEF ValuesOK
  <2>6. PICK none : none = 0
    OBVIOUS
  <2>7. none = IF POP_RET \in flags THEN 0 ELSE 0 + 1
    BY <2>1, <2>6
  <2>8. Calling(st, flags, p, 0)
    <3>1. Effect(Instruction) = <<p, none>>
      BY <2>6
    <3> QED
      BY <1>3, <2>7, <3>1, CallingWith
  <2> QED
    BY <1>2, <2>3, <2>5, <2>8, CallOK DEF WriteOK
<1>6. CASE r.k \notin {"throw", "call"}
  <2>1. r.k # "throw" /\ r.k # "call"
    BY <1>6
  <2>2. objs' = r.heap /\ frames' = To(st) /\ cells' = cells /\ exc' = NoExc /\ Going
    BY <1>1, <2>1, Zenon DEF Write, Store, Quiet, Going
  <2>3. PICK heap : heap = objs'
    OBVIOUS
  <2>4. HeapStep(code, objs, heap, DOMAIN cells)
    BY <1>2, <2>2, <2>3 DEF WriteOK
  <2>5. HeapOK(code, objs', DOMAIN cells) /\ GrewTo(objs, objs')
    BY <2>3, <2>4 DEF HeapStep
  <2>6. Left(st, p, 0, objs')
    BY <1>3, <2>5, LeftStays
  <2> QED
    BY <2>2, <2>5, <2>6, Computed
<1> QED
  BY <1>4, <1>5, <1>6

LEMMA PutFieldsOK == ASSUME TInv, PutField \/ PutArrayEl PROVE Typed'
<1>1. Running /\ exc = NoExc /\ Opcode \in {"put_field", "put_array_el"}
  BY FetchedOK DEF PutField, PutArrayEl
<1>2. Opcode = Instruction[1] /\ Opcode \notin Special \cup Enders
  BY <1>1, Instructed, ShuffleOps DEF Special, Enders, LiteralOps
<1>3. CASE Opcode = "put_field"
  <2>1. Effect(Instruction) = <<2, 0>>
    <3>1. PICK p, m : Effect(Instruction) = <<p, m>>
      BY EffectPair
    <3>2. p = 2 /\ m = 0
      BY <1>2, <1>3, <3>1, Effects
    <3> QED
      BY <3>1, <3>2
  <2>2. PICK v, w, key, st, flags : v = S(1) /\ w = S(0) /\ key = Const /\ st = Below(2) /\ flags = {POP_RET}
    OBVIOUS
  <2>3. ValueOK(objs, v) /\ ValueOK(objs, w)
    <3>1. 0 \in 0 .. 2 - 1 /\ 1 \in 0 .. 2 - 1 /\ Opcode \notin Shuffles \cup {"ret"}
      BY <1>3, ShuffleOps
    <3> QED
      BY <1>1, <2>1, <2>2, <3>1, Operands
  <2>4. Write(v, key, w, st, flags) /\ POP_RET \in flags
    BY <1>3, <2>2 DEF PutField, PutArrayEl, Fetch
  <2> QED
    BY <1>1, <1>2, <2>1, <2>2, <2>3, <2>4, WritesOK
<1>4. CASE Opcode = "put_array_el"
  <2>1. Effect(Instruction) = <<3, 0>>
    <3>1. Instruction[1] = "put_array_el"
      BY <1>2, <1>4
    <3> QED
      BY <3>1 DEF Effect, ValueBinary, ValueUnary
  <2>2. PICK v, w, key, st, flags : /\ v = S(2) /\ w = S(0) /\ key = JS_ToPropertyKey(S(1)) /\ st = Below(3)
                                    /\ flags = {POP_RET, PC_ADD1}
    OBVIOUS
  <2>3. ValueOK(objs, v) /\ ValueOK(objs, w)
    <3>1. 0 \in 0 .. 3 - 1 /\ 2 \in 0 .. 3 - 1 /\ Opcode \notin Shuffles \cup {"ret"}
      BY <1>4, ShuffleOps
    <3> QED
      BY <1>1, <2>1, <2>2, <3>1, Operands
  <2>4. Write(v, key, w, st, flags) /\ POP_RET \in flags
    BY <1>4, <2>2 DEF PutField, PutArrayEl, Fetch
  <2> QED
    BY <1>1, <1>2, <2>1, <2>2, <2>3, <2>4, WritesOK
<1> QED
  BY <1>1, <1>3, <1>4

(* The value that is read stays under the one of its property for a call of a
   method: it counts as taken and put back.                                   *)
LEMMA ReadShape ==
    ASSUME TInv, Running, exc = NoExc, Opcode \in {"get_field", "get_length", "get_array_el", "get_field2", "get_length2", "get_array_el2"},
           NEW q, q = (IF Opcode \in {"get_array_el", "get_array_el2"} THEN 1 ELSE 0),
           NEW st, st = IF Opcode \in {"get_field", "get_length", "get_array_el"} THEN Below(q + 1) ELSE Below(q)
    PROVE  /\ ValueOK(objs, S(q)) /\ Opcode \notin Special \cup Enders
           /\ \E p, m, n : m \in Nat /\ n = m + 1 /\ Effect(Instruction) = <<p, n>> /\ Left(st, p, m, objs)
<1>1. Opcode = Instruction[1] /\ Opcode \notin Special \cup Enders /\ Opcode \notin Shuffles \cup {"ret"}
  BY Instructed, ShuffleOps DEF Special, Enders, LiteralOps
<1>2. PICK p, n : Effect(Instruction) = <<p, n>>
  BY EffectPair
<1>3. p = q + 1 /\ n = IF Opcode \in {"get_field", "get_length", "get_array_el"} THEN 1 ELSE 2
  BY <1>1, <1>2, Effects
<1>4. /\ IsSeq(Top.stack) /\ Len(Top.stack) \in Nat /\ p \in 0 .. Len(Top.stack)
      /\ \A i \in 0 .. p - 1 : ValueOK(objs, S(i))
  BY <1>1, <1>2, Operands
<1>5. q \in Nat /\ q \in 0 .. p - 1 /\ p \in Nat
  BY <1>3
<1>6. CASE Opcode \in {"get_field", "get_length", "get_array_el"}
  <2>1. st = Below(p) /\ n = 1
    BY <1>3, <1>6
  <2>2. Left(st, p, 0, objs)
    BY <1>4, <2>1, LeftBelow
  <2>3. 0 \in Nat /\ n = 0 + 1
    BY <2>1
  <2> QED
    BY <1>1, <1>2, <1>4, <1>5, <2>2, <2>3
<1>7. CASE Opcode \notin {"get_field", "get_length", "get_array_el"}
  <2>1. st = Below(q) /\ n = 2
    BY <1>3, <1>7
  <2>2. q \in 0 .. Len(Top.stack) /\ q + 1 <= Len(Top.stack)
    BY <1>3, <1>4, <1>5
  <2>3. Left(st, q, 0, objs)
    BY <1>4, <2>1, <2>2, LeftBelow
  <2>4. Left(st, q + 1, 0 + 1, objs)
    BY <1>4, <1>5, <2>2, <2>3, LeftOperand
  <2>5. Left(st, p, 1, objs) /\ 1 \in Nat /\ n = 1 + 1
    BY <1>3, <2>1, <2>4
  <2> QED
    BY <1>1, <1>2, <1>4, <1>5, <2>5
<1> QED
  BY <1>6, <1>7

LEMMA GetFieldsOK == ASSUME TInv, GetField \/ GetLength \/ GetArrayEl PROVE Typed'
<1>1. /\ Running /\ exc = NoExc
      /\ Opcode \in {"get_field", "get_length", "get_array_el", "get_field2", "get_length2", "get_array_el2"}
  BY FetchedOK DEF GetField, GetLength, GetArrayEl, FieldOps, LengthOps, ElementOps
<1>2. PICK q : q = IF Opcode \in {"get_array_el", "get_array_el2"} THEN 1 ELSE 0
  OBVIOUS
<1>3. PICK v, st : v = S(q) /\ st = IF Opcode \in {"get_field", "get_length", "get_array_el"} THEN Below(q + 1) ELSE Below(q)
  OBVIOUS
<1>4. /\ ValueOK(objs, v) /\ Opcode \notin Special \cup Enders
      /\ \E p, m, n : m \in Nat /\ n = m + 1 /\ Effect(Instruction) = <<p, n>> /\ Left(st, p, m, objs)
  BY <1>1, <1>2, <1>3, ReadShape
<1>5. PICK p, m, n : m \in Nat /\ n = m + 1 /\ Effect(Instruction) = <<p, n>> /\ Left(st, p, m, objs)
  BY <1>4
<1>6. ASSUME NEW key, NEW flags, POP_RET \notin flags, Read(v, key, st, flags)
      PROVE  Typed'
  BY <1>1, <1>4, <1>5, <1>6, ReadOK
<1>7. ASSUME NEW x, Proceeds(Append(st, Num(x)))
      PROVE  Typed'
  <2>1. PICK u, st2 : u = Num(x) /\ st2 = Append(st, u)
    OBVIOUS
  <2>2. IsSeq(Top.stack) /\ p \in 0 .. Len(Top.stack) /\ n \in Nat
    BY <1>1, <1>5, Operands
  <2>3. ValueOK(objs, u)
    BY <2>1, Scalars
  <2>4. Left(st2, p, m + 1, objs)
    BY <1>5, <2>1, <2>2, <2>3, LeftAppend
  <2>5. Left(st2, p, n, objs) /\ Proceeds(st2)
    BY <1>5, <1>7, <2>1, <2>4
  <2> QED
    BY <1>1, <1>4, <1>5, <2>2, <2>5, Continued
<1>8. Top.stack = Below(0)
  <2>1. IsSeq(Top.stack)
    BY <1>1, <1>5, Operands
  <2> QED
    BY <2>1, NothingLess DEF Below
<1>9. CASE Opcode \in {"get_field", "get_field2"}
  <2>1. q = 0 /\ v = S(0) /\ st = IF Opcode = "get_field" THEN Below(1) ELSE Top.stack
    BY <1>2, <1>3, <1>8, <1>9
  <2>2. GetField
    BY <1>9 DEF GetField, GetLength, GetArrayEl, Fetch, LengthOps, ElementOps
  <2>3. Read(v, Const, st, {}) /\ POP_RET \notin {}
    BY <2>1, <2>2, Zenon DEF GetField
  <2> QED
    BY <1>6, <2>3
<1>10. CASE Opcode \in {"get_length", "get_length2"}
  <2>1. q = 0 /\ v = S(0) /\ st = IF Opcode = "get_length" THEN Below(1) ELSE Top.stack
    BY <1>2, <1>3, <1>8, <1>10
  <2>2. GetLength
    BY <1>10 DEF GetField, GetLength, GetArrayEl, Fetch, FieldOps, ElementOps
  <2>3. \/ Yield(st, Num(Len(objs[v.n].tab)))
        \/ Yield(st, Num(Len(v.a)))
        \/ Yield(st, Num(1))
        \/ Read(v, Str("length"), st, {PC_ADD1})
    BY <2>1, <2>2, Zenon DEF GetLength
  <2>4. POP_RET \notin {PC_ADD1}
    BY DEF POP_RET, PC_ADD1
  <2> QED
    BY <1>6, <1>7, <2>3, <2>4, Proceeding, Zenon
<1>11. CASE Opcode \in {"get_array_el", "get_array_el2"}
  <2>1. q = 1 /\ v = S(1) /\ st = IF Opcode = "get_array_el" THEN Below(2) ELSE Below(1)
    BY <1>2, <1>3, <1>11
  <2>2. GetArrayEl
    BY <1>11 DEF GetField, GetLength, GetArrayEl, Fetch, FieldOps, LengthOps
  <2>3. Read(v, JS_ToPropertyKey(S(0)), st, {PC_ADD1})
    BY <2>1, <2>2, Zenon DEF GetArrayEl
  <2>4. POP_RET \notin {PC_ADD1}
    BY DEF POP_RET, PC_ADD1
  <2> QED
    BY <1>6, <2>3, <2>4
<1> QED
  BY <1>1, <1>9, <1>10, <1>11

-----------------------------------------------------------------------------
(* Closures: the cells they capture are there, and those of slots are cells of
   slots that the frame has.                                                 *)
SlotIn(f, kind, idx) == (kind = "arg" /\ idx \in 1 .. Len(f.args)) \/ (kind = "loc" /\ idx \in 1 .. Len(f.locs))
CapturableFrom(e, fs, depth, outer) ==
    \/ e.kind \in {"arg", "loc"} /\ depth \in 1 .. Len(fs) /\ SlotIn(fs[depth], e.kind, e.idx)
    \/ e.kind = "var_ref" /\ outer[e.idx] \in DOMAIN cells
    \/ e.kind = "global"
CaptureOK(a, fn, heap, fs) ==
    /\ DOMAIN a.ids = DOMAIN fn.ext /\ \A i \in DOMAIN fn.ext : a.ids[i] \in DOMAIN a.cells
    /\ DOMAIN cells \subseteq DOMAIN a.cells
    /\ \A r \in DOMAIN a.cells : CellOK(heap, fs, a.cells[r])
LEMMA CapturesOK ==
    ASSUME Shapes, NEW refs, refs \subseteq DOMAIN cells, NEW depth, NEW fn, NEW outer, NEW heap, NEW fs,
           \A r \in DOMAIN cells : CellOK(heap, fs, cells[r]),
           \A i \in DOMAIN fn.ext : CapturableFrom(fn.ext[i], fs, depth, outer),
           NEW a, a = js_closure(fn, depth, refs, outer)
    PROVE  CaptureOK(a, fn, heap, fs)
<1> DEFINE OfKind(kinds) == {e \in ToSet(fn.ext) : e.kind \in kinds}
           slots == {get_var_ref(refs, e) : e \in OfKind({"arg", "loc"})}
           names == {e.name : e \in OfKind({"global"})}
           defined == {add_global_var(e.name) : e \in {g \in OfKind({"global"}) : g.idx = 1}}
           Defined(c) == IF c.val = Uninitialized THEN [c EXCEPT !.val = Undefined] ELSE c
           Cell(r) == IF r \in DOMAIN cells THEN cells[r]
                      ELSE IF r \in slots THEN Attached(depth, r[2], r[3]) ELSE Detached(Uninitialized)
           Id(i) == CASE fn.ext[i].kind \in {"arg", "loc"} -> get_var_ref(refs, fn.ext[i])
                      [] fn.ext[i].kind = "var_ref" -> outer[fn.ext[i].idx]
                      [] OTHER -> add_global_var(fn.ext[i].name)
<1>1. /\ a.ids = [i \in DOMAIN fn.ext |-> Id(i)]
      /\ a.cells = [c \in DOMAIN cells \cup slots \cup {add_global_var(n) : n \in names} |->
                        IF c \in defined THEN Defined(Cell(c)) ELSE Cell(c)]
  BY Zenon DEF js_closure
<1>2. DOMAIN a.cells = DOMAIN cells \cup slots \cup {add_global_var(n) : n \in names}
  BY <1>1
<1>3. \A i \in DOMAIN fn.ext : fn.ext[i] \in ToSet(fn.ext)
  BY DEF ToSet
<1>4. ASSUME NEW e \in ToSet(fn.ext)
      PROVE  CapturableFrom(e, fs, depth, outer)
  BY DEF ToSet
<1>5. ASSUME NEW i \in DOMAIN fn.ext
      PROVE  a.ids[i] \in DOMAIN a.cells
  <2>1. PICK e : e = fn.ext[i]
    OBVIOUS
  <2>2. e \in ToSet(fn.ext) /\ CapturableFrom(e, fs, depth, outer)
    BY <1>3, <2>1
  <2>3. a.ids[i] = Id(i)
    BY <1>1, Zenon
  <2>4. CASE e.kind \in {"arg", "loc"}
    <3>1. Id(i) = get_var_ref(refs, e)
      BY <2>1, <2>4, Zenon
    <3>2. get_var_ref(refs, e) \in slots
      BY <2>2, <2>4
    <3> QED
      BY <1>2, <2>3, <3>1, <3>2
  <2>5. CASE e.kind = "var_ref"
    <3>1. e.kind \notin {"arg", "loc"}
      BY <2>5
    <3>2. Id(i) = outer[e.idx]
      BY <2>1, <2>5, <3>1, Zenon
    <3>3. outer[e.idx] \in DOMAIN cells
      BY <2>2, <2>5 DEF CapturableFrom
    <3> QED
      BY <1>2, <2>3, <3>2, <3>3
  <2>6. CASE e.kind = "global"
    <3>1. e.kind \notin {"arg", "loc"} /\ e.kind # "var_ref"
      BY <2>6
    <3>2. Id(i) = add_global_var(e.name)
      BY <2>1, <3>1, Zenon
    <3>3. e.name \in names
      BY <2>2, <2>6
    <3> QED
      BY <1>2, <2>3, <3>2, <3>3
  <2> QED
    BY <2>2, <2>4, <2>5, <2>6 DEF CapturableFrom
<1>6. DOMAIN a.ids = DOMAIN fn.ext
  BY <1>1
<1> HIDE DEF Id
<1>7. ValueOK(heap, Undefined) /\ ValueOK(heap, Uninitialized)
  BY Scalars
<1>8. ASSUME NEW r \in slots, r \notin DOMAIN cells
      PROVE  CellOK(heap, fs, Attached(depth, r[2], r[3]))
  <2>1. PICK e \in OfKind({"arg", "loc"}) : r = get_var_ref(refs, e)
    OBVIOUS
  <2>2. CapturableFrom(e, fs, depth, outer) /\ e.kind \in {"arg", "loc"}
    BY <1>4
  <2>3. PICK have : have = {q \in refs : SlotName(cells[q]) = <<e.kind, e.idx>>}
    OBVIOUS
  <2>4. r = IF have # {} THEN CHOOSE q \in have : TRUE ELSE Address(e.kind, e.idx, "")
    BY <2>1, <2>3, Zenon DEF get_var_ref
  <2>5. have = {}
    <3>1. ASSUME have # {}
          PROVE  FALSE
      <4>1. r = CHOOSE q \in have : TRUE
        BY <2>4, <3>1, Zenon
      <4>2. r \in have
        BY <3>1, <4>1, Zenon
      <4> QED
        BY <1>8, <2>3, <4>2
    <3> QED
      BY <3>1
  <2>6. r = Address(e.kind, e.idx, "")
    BY <2>4, <2>5, Zenon
  <2>7. r[2] = e.kind /\ r[3] = e.idx
    BY <2>6 DEF Address
  <2>8. PICK c : c = Attached(depth, r[2], r[3])
    OBVIOUS
  <2>9. /\ DOMAIN c = CellFields /\ c.depth = depth /\ c.kind = e.kind /\ c.idx = e.idx /\ c.val = Undefined
    BY <2>7, <2>8 DEF Attached, CellFields
  <2>10. depth \in 1 .. Len(fs) /\ SlotIn(fs[depth], e.kind, e.idx)
    BY <2>2 DEF CapturableFrom
  <2>11. CellOK(heap, fs, c)
    BY <1>7, <2>9, <2>10 DEF CellOK, SlotIn
  <2> QED
    BY <2>8, <2>11
<1>9. CellOK(heap, fs, Detached(Uninitialized))
  <2>1. PICK c : c = Detached(Uninitialized)
    OBVIOUS
  <2>2. DOMAIN c = CellFields /\ c.val = Uninitialized
    BY <2>1 DEF Detached, CellFields
  <2>3. ~c.attached
    BY <2>1 DEF Detached
  <2>4. CellOK(heap, fs, c)
    BY <1>7, <2>2, <2>3 DEF CellOK
  <2> QED
    BY <2>1, <2>4
<1> HIDE DEF slots, names, defined
<1>10. ASSUME NEW r \in DOMAIN a.cells
       PROVE  CellOK(heap, fs, a.cells[r])
  <2>1. PICK k : k = Cell(r)
    OBVIOUS
  <2>2. CellOK(heap, fs, k)
    <3>1. CASE r \in DOMAIN cells
      <4>1. k = cells[r]
        BY <2>1, <3>1, Zenon
      <4> QED
        BY <3>1, <4>1
    <3>2. CASE r \notin DOMAIN cells /\ r \in slots
      <4>1. k = Attached(depth, r[2], r[3])
        BY <2>1, <3>2, Zenon
      <4> QED
        BY <1>8, <3>2, <4>1
    <3>3. CASE r \notin DOMAIN cells /\ r \notin slots
      <4>1. k = Detached(Uninitialized)
        BY <2>1, <3>3, Zenon
      <4> QED
        BY <1>9, <4>1
    <3> QED
      BY <3>1, <3>2, <3>3
  <2>3. CellOK(heap, fs, [k EXCEPT !.val = Undefined])
    <3>1. PICK u, c : u = Undefined /\ c = [k EXCEPT !.val = u]
      OBVIOUS
    <3>2. /\ DOMAIN c = CellFields /\ (c.attached <=> k.attached) /\ c.depth = k.depth /\ c.kind = k.kind /\ c.idx = k.idx
          /\ c.val = u
      BY <2>2, <3>1 DEF CellOK, CellFields
    <3>3. CellOK(heap, fs, c)
      BY <1>7, <2>2, <3>1, <3>2 DEF CellOK
    <3> QED
      BY <3>1, <3>3
  <2>4. a.cells[r] = IF r \in defined THEN Defined(k) ELSE k
    BY <1>1, <1>2, <2>1, Zenon
  <2>5. a.cells[r] = k \/ a.cells[r] = [k EXCEPT !.val = Undefined]
    BY <2>4, Zenon
  <2> QED
    BY <2>2, <2>3, <2>5
<1> QED
  BY <1>2, <1>5, <1>6, <1>10 DEF CaptureOK

LEMMA ClosureOK ==
    ASSUME NEW fns, NEW heap, NEW places, Len(heap) \in Nat, Len(heap) >= 7, NEW id \in DOMAIN fns,
           NEW ids, DOMAIN ids = DOMAIN fns[id].ext, \A i \in DOMAIN ids : ids[i] \in places, NEW o, o = Closure(id, ids)
    PROVE  ObjectOK(fns, heap, places, o) /\ o.proto = 2 /\ o.cls = "closure" /\ o.fn = id
<1>1. PICK b : b = Object("closure", FunctionProto)
  OBVIOUS
<1>2. /\ DOMAIN b = ObjectFields /\ b.cls = "closure" /\ b.proto = FunctionProto
      /\ PropertiesOK(heap, b.props) /\ ValuesOK(heap, b.tab)
  BY <1>1, EmptyObject
<1>3. o = [b EXCEPT !.fn = id, !.refs = ids]
  BY <1>1, Zenon DEF Closure
<1>4. /\ DOMAIN o = ObjectFields /\ o.cls = "closure" /\ o.proto = b.proto /\ o.tab = b.tab /\ o.props = b.props
      /\ o.fn = id /\ o.refs = ids
  BY <1>2, <1>3 DEF ObjectFields
<1>5. b.proto = 2 /\ 2 \in 0 .. Len(heap)
  BY <1>2 DEF FunctionProto
<1> QED
  BY <1>2, <1>4, <1>5 DEF ObjectOK

(* What a function captures of the one that makes it is there. *)
LEMMA Captured ==
    ASSUME TInv, Running, NEW e, EntryKept(Fn, e)
    PROVE  CapturableFrom(e, frames, Depth, objs[Top.func.n].refs)
<1>1. /\ FrameOK(code, ShapeOf(prog), objs, Top) /\ ShapeKept(code, Fn, Shape)
      /\ Depth \in 1 .. Len(frames) /\ Top = frames[Depth]
  BY Situation
<1>2. PICK f : f = Top
  OBVIOUS
<1>3. Len(f.args) \in Nat /\ Len(f.locs) = Locals(Fn) /\ Fn.nargs <= Len(f.args)
  BY <1>1, <1>2, Sequence DEF FrameOK, ValuesOK, Fn
<1>4. Fn.nargs \in Nat
  <2>1. Fn.vars \in Seq(STRING) /\ Fn.nargs \in 0 .. Len(Fn.vars)
    BY <1>1 DEF ShapeKept
  <2> QED
    BY <2>1
<1>5. CASE e.kind = "arg"
  <2>1. e.idx \in 1 .. Fn.nargs
    BY <1>5 DEF EntryKept
  <2>2. e.idx \in 1 .. Len(f.args)
    BY <1>3, <1>4, <2>1
  <2> QED
    BY <1>1, <1>2, <1>5, <2>2 DEF CapturableFrom, SlotIn
<1>6. CASE e.kind = "loc"
  <2>1. e.idx \in 1 .. Len(f.locs)
    BY <1>3, <1>6 DEF EntryKept
  <2> QED
    BY <1>1, <1>2, <1>6, <2>1 DEF CapturableFrom, SlotIn
<1>7. CASE e.kind = "var_ref"
  <2>1. e.idx \in DOMAIN Fn.ext
    BY <1>7 DEF EntryKept
  <2>2. PICK o : o = objs[Top.func.n]
    OBVIOUS
  <2>3. /\ Top.func.n \in 1 .. Len(objs) /\ o.cls = "closure" /\ o.fn = Top.fn
    BY <1>1, <2>2 DEF FrameOK, ValueOK
  <2>4. ObjectOK(code, objs, DOMAIN cells, o)
    BY <2>2, <2>3, HeapIs
  <2>5. \A i \in DOMAIN Fn.ext : o.refs[i] \in DOMAIN cells
    BY <2>3, <2>4 DEF ObjectOK, Fn
  <2> QED
    BY <1>7, <2>1, <2>2, <2>5 DEF CapturableFrom
<1>8. CASE e.kind = "global"
  BY <1>8 DEF CapturableFrom
<1> QED
  BY <1>5, <1>6, <1>7, <1>8 DEF EntryKept

LEMMA FClosureOK == ASSUME TInv, FClosure PROVE Typed'
<1>1. Running /\ exc = NoExc /\ Opcode \in {"fclosure"}
  BY FetchedOK DEF FClosure
<1>2. /\ Opcode = Instruction[1] /\ Operand = Instruction[2] /\ NamesKept(code, Fn, Instruction)
      /\ Opcode \notin Special \cup Enders
  BY <1>1, Instructed, ShuffleOps DEF Special, Enders, LiteralOps
<1>3. Effect(Instruction) = <<0, 1>>
  BY <1>1, <1>2, EffectPair, Effects
<1>4. PICK id, a, n, heap, v, st, o :
         /\ id = Fn.cpool[Operand][2]
         /\ a = js_closure(code[id], Depth, Top.refs, objs[Top.func.n].refs)
         /\ n = Depth /\ heap = objs' /\ v = Obj(Len(objs) + 1) /\ st = Append(Top.stack, v) /\ o = Closure(id, a.ids)
  OBVIOUS
<1>5. PICK fs1, g, fs2 : fs1 = To(st) /\ g = [fs1[n] EXCEPT !.refs = a.refs] /\ fs2 = [fs1 EXCEPT ![n] = g]
  OBVIOUS
<1>6. /\ heap = Append(objs, o) /\ cells' = a.cells /\ frames' = [fs1 EXCEPT ![n].refs = a.refs]
      /\ prog' = prog /\ code' = code /\ exc' = exc
  BY <1>4, <1>5, Zenon DEF FClosure
<1>7. frames' = fs2
  BY <1>5, <1>6
<1>8. id \in DOMAIN code /\ \A e \in ToSet(code[id].ext) : EntryKept(Fn, e)
  BY <1>1, <1>2, <1>4 DEF NamesKept
<1>9. /\ Compiled(code, ShapeOf(prog)) /\ Good(code, ShapeOf(prog), objs, cells, frames, exc)
      /\ IsSeq(frames) /\ n \in 1 .. Len(frames) /\ n = Len(frames) /\ n \in Nat /\ Top = frames[n]
      /\ FrameOK(code, ShapeOf(prog), objs, Top)
  BY <1>1, <1>4, Situation
<1>10. CaptureOK(a, code[id], objs, frames)
  <2>1. Top.refs \subseteq DOMAIN cells
    <3>1. n \in DOMAIN frames
      BY <1>9, Sequence
    <3> QED
      BY <1>9, <3>1 DEF TInv, IInv, CapturedOnce
  <2>2. \A r \in DOMAIN cells : CellOK(objs, frames, cells[r])
    BY <1>9 DEF Good
  <2>3. PICK fn, outer : fn = code[id] /\ outer = objs[Top.func.n].refs
    OBVIOUS
  <2>4. ASSUME NEW i \in DOMAIN fn.ext
        PROVE  CapturableFrom(fn.ext[i], frames, n, outer)
    <3>1. fn.ext[i] \in ToSet(fn.ext)
      BY DEF ToSet
    <3>2. EntryKept(Fn, fn.ext[i])
      BY <1>8, <2>3, <3>1
    <3> QED
      BY <1>1, <1>4, <2>3, <3>2, Captured
  <2>5. Shapes
    BY DEF TInv, IInv
  <2>6. a = js_closure(fn, n, Top.refs, outer)
    BY <1>4, <2>3
  <2>7. CaptureOK(a, fn, objs, frames)
    BY <2>1, <2>2, <2>4, <2>5, <2>6, CapturesOK
  <2> QED
    BY <2>3, <2>7
<1>11. PICK cs, ids : cs = a.cells /\ ids = a.ids
  OBVIOUS
<1>12. /\ DOMAIN ids = DOMAIN code[id].ext /\ \A i \in DOMAIN ids : ids[i] \in DOMAIN cs
       /\ DOMAIN cells \subseteq DOMAIN cs /\ \A r \in DOMAIN cs : CellOK(objs, frames, cs[r])
  BY <1>10, <1>11 DEF CaptureOK
<1>32. PICK places : places = DOMAIN cs
  OBVIOUS
<1>33. o = Closure(id, ids) /\ DOMAIN ids = DOMAIN code[id].ext /\ \A i \in DOMAIN ids : ids[i] \in places
  BY <1>4, <1>11, <1>12, <1>32
<1>13. HeapOK(code, objs, DOMAIN cs) /\ Len(objs) \in Nat /\ Len(objs) >= 7 /\ IsSeq(objs)
  BY <1>1, <1>12, HeapIs, NewCells
<1>14. HeapStep(code, objs, heap, DOMAIN cs)
  <2>1. ASSUME GrewTo(objs, heap)
        PROVE  ObjectOK(code, heap, DOMAIN cs, o)
    <3>1. Len(heap) \in Nat /\ Len(heap) >= 7
      BY <1>13, <2>1 DEF GrewTo
    <3> QED
      BY <1>8, <1>32, <1>33, <3>1, ClosureOK
  <2>2. o.proto = 2
    <3>1. ObjectOK(code, objs, places, o) /\ o.proto = 2
      BY <1>8, <1>13, <1>33, ClosureOK
    <3> QED
      BY <3>1
  <2>3. o.proto # Len(objs) + 1
    BY <1>13, <2>2
  <2> QED
    BY <1>6, <1>13, <2>1, <2>3, NewObjectOK
<1>15. GrewTo(objs, heap) /\ HeapOK(code, heap, DOMAIN cs)
  BY <1>14 DEF HeapStep
<1>16. ValueOK(heap, v)
  <2>1. ExtensionOf(heap, objs, o)
    BY <1>6, <1>13, Extended
  <2>2. Len(heap) = Len(objs) + 1
    BY <2>1 DEF ExtensionOf
  <2>3. v.t = "obj" /\ v.n = Len(objs) + 1
    BY <1>4 DEF Obj, Value
  <2> QED
    BY <1>13, <2>2, <2>3 DEF ValueOK
<1>17. Left(st, 0, 1, heap)
  <2>1. IsSeq(Top.stack) /\ Len(Top.stack) \in Nat /\ 0 \in 0 .. Len(Top.stack)
    BY <1>1, <1>3, Operands
  <2>2. Left(Top.stack, 0, 0, heap)
    BY <2>1, LeftTop
  <2>3. Left(st, 0, 0 + 1, heap)
    BY <1>4, <1>16, <2>1, <2>2, LeftAppend
  <2> QED
    BY <2>3
<1>18. PICK ks : ks = Shape[Top.pc + 1]
  OBVIOUS
<1>19. Top.pc + 1 \in DOMAIN Shape /\ StackOK(Fn, Shape, heap, st, ks) /\ Len(st) = Len(ks)
  BY <1>1, <1>2, <1>3, <1>15, <1>17, <1>18, Ordinary
<1>20. PICK top, next : top = At(st, next) /\ next = Top.pc + 1
  OBVIOUS
<1>21. /\ IsSeq(fs1) /\ Len(fs1) = n /\ fs1[n] = top
       /\ \A d \in 1 .. n : fs1[d] = IF d = n THEN top ELSE frames[d]
  <2>1. fs1 = [frames EXCEPT ![n] = top]
    BY <1>4, <1>5, <1>20 DEF To
  <2>2. UpdateOf(fs1, frames, n, top)
    BY <1>9, <2>1, Updated
  <2> QED
    BY <1>9, <2>2 DEF UpdateOf
<1>22. PICK f : f = Top
  OBVIOUS
<1>23. top = [f EXCEPT !.stack = st, !.pc = next] /\ g = [top EXCEPT !.refs = a.refs] /\ DOMAIN f = FrameFields
  BY <1>5, <1>9, <1>20, <1>21, <1>22 DEF At, FrameOK
<1>24. /\ DOMAIN g = FrameFields /\ g.fn = f.fn /\ g.func = f.func /\ g.this = f.this /\ g.argc = f.argc /\ g.flags = f.flags
       /\ g.pc = next /\ g.args = f.args /\ g.locs = f.locs /\ g.stack = st
  BY <1>23 DEF FrameFields
<1>25. FrameOK(code, ShapeOf(prog), heap, g)
  <2>1. FrameOK(code, ShapeOf(prog), heap, f)
    BY <1>9, <1>15, <1>22, FrameStays
  <2>2. StackOK(code[g.fn], ShapeOf(prog)[g.fn], heap, g.stack, ShapeOf(prog)[g.fn][g.pc])
    BY <1>18, <1>19, <1>20, <1>22, <1>24 DEF Fn, Shape
  <2>3. g.pc \in DOMAIN ShapeOf(prog)[g.fn]
    BY <1>19, <1>20, <1>22, <1>24 DEF Shape
  <2> QED
    BY <1>24, <2>1, <2>2, <2>3 DEF FrameOK
<1>26. Len(g.stack) = Len(ShapeOf(prog)[g.fn][g.pc])
  BY <1>18, <1>19, <1>20, <1>22, <1>24 DEF Shape
<1>27. UpdateOf(fs2, frames, n, g) /\ SameSlots(frames, fs2)
  <2>1. UpdateOf(fs2, fs1, n, g)
    BY <1>5, <1>21, Updated
  <2>2. IsSeq(fs2) /\ Len(fs2) = n /\ \A d \in 1 .. n : fs2[d] = IF d = n THEN g ELSE frames[d]
    BY <1>21, <2>1 DEF UpdateOf
  <2> QED
    BY <1>9, <1>22, <1>24, <2>2 DEF UpdateOf, SameSlots
<1>28. \A r \in DOMAIN cs : CellOK(heap, fs2, cs[r])
  BY <1>12, <1>15, <1>27, CellStays
<1>29. ValueOK(heap, exc)
  BY <1>9, <1>15, StaysOK DEF Good
<1>30. g.flags = frames[n].flags
  BY <1>9, <1>22, <1>24
<1>31. Good(code, ShapeOf(prog), heap, cs, fs2, exc)
  BY <1>9, <1>15, <1>25, <1>26, <1>27, <1>28, <1>29, <1>30, TopChanges
<1> QED
  BY <1>4, <1>6, <1>7, <1>9, <1>11, <1>31 DEF Typed

-----------------------------------------------------------------------------
(* A program starts with the standard objects and print. *)
LEMMA StandardOK ==
    ASSUME NEW fns, NEW places, NEW heap, heap = StandardObjects
    PROVE  HeapOK(fns, heap, places)
<1>1. PICK a, b, b0, c, d, e, f, g, pp :
         /\ a = Object("object", 0) /\ b0 = Object("object", ObjectProto)
         /\ pp = << Getset(Str("prototype"), Obj(4), Obj(5)), Normal(Str("call"), Obj(6)),
                   Getset(Str("run"), Obj(6), Obj(6)) >>
         /\ b = [b0 EXCEPT !.props = pp]
         /\ c = Object("array", ObjectProto)
         /\ d = CFunction("get_prototype") /\ e = CFunction("set_prototype") /\ f = CFunction("call") /\ g = CFunction("print")
  OBVIOUS
<1>2. heap = <<a, b, c, d, e, f, g>>
  BY <1>1, Zenon DEF StandardObjects
<1>3. /\ IsSeq(heap) /\ Len(heap) = 7
      /\ heap[1] = a /\ heap[2] = b /\ heap[3] = c /\ heap[4] = d /\ heap[5] = e /\ heap[6] = f /\ heap[7] = g
  <2>1. heap \in Seq({a, b, c, d, e, f, g})
    BY <1>2
  <2>2. IsSeq(heap)
    BY <2>1, IsSeqOf
  <2>3. /\ Len(heap) = 7 /\ heap[1] = a /\ heap[2] = b /\ heap[3] = c
        /\ heap[4] = d /\ heap[5] = e /\ heap[6] = f /\ heap[7] = g
    BY <1>2
  <2> QED
    BY <2>2, <2>3
<1>4. ASSUME NEW o, NEW cls, NEW proto, o = Object(cls, proto), proto \in 0 .. 7, cls \notin {"closure", "iterator"}
      PROVE  ObjectOK(fns, heap, places, o) /\ o.proto = proto
  <2>1. /\ DOMAIN o = ObjectFields /\ o.cls = cls /\ o.proto = proto
        /\ PropertiesOK(heap, o.props) /\ ValuesOK(heap, o.tab)
    BY <1>4, EmptyObject
  <2> QED
    BY <1>3, <1>4, <2>1 DEF ObjectOK
<1>5. ASSUME NEW o, NEW name, o = CFunction(name)
      PROVE  ObjectOK(fns, heap, places, o) /\ o.proto = 2
  <2>1. PICK q : q = Object("cfunc", FunctionProto)
    OBVIOUS
  <2>2. /\ DOMAIN q = ObjectFields /\ q.cls = "cfunc" /\ q.proto = 2
        /\ PropertiesOK(heap, q.props) /\ ValuesOK(heap, q.tab)
    BY <2>1, EmptyObject DEF FunctionProto
  <2>3. o = [q EXCEPT !.name = name]
    BY <1>5, <2>1 DEF CFunction
  <2>4. /\ DOMAIN o = ObjectFields /\ o.cls = "cfunc" /\ o.proto = 2 /\ o.props = q.props /\ o.tab = q.tab
    BY <2>2, <2>3 DEF ObjectFields
  <2> QED
    BY <1>3, <2>2, <2>4 DEF ObjectOK
<1>6. ObjectOK(fns, heap, places, a) /\ a.proto = 0 /\ ObjectOK(fns, heap, places, c) /\ c.proto = 1
  <2>1. ObjectProto = 1
    BY DEF ObjectProto
  <2> QED
    BY <1>1, <1>4, <2>1
<1>7. PropertiesOK(heap, pp)
  <2>1. PICK k1, k2, k3, v1, w1, v2, w2 :
           /\ k1 = Str("prototype") /\ k2 = Str("call") /\ k3 = Str("run")
           /\ v1 = Obj(4) /\ w1 = Obj(5) /\ v2 = Obj(6) /\ w2 = Undefined
    OBVIOUS
  <2>2. PICK p1, p2, p3 : p1 = Getset(k1, v1, w1) /\ p2 = Normal(k2, v2) /\ p3 = Getset(k3, v2, v2)
    OBVIOUS
  <2>3. p1.val = v1 /\ p1.set = w1 /\ p2.val = v2 /\ p2.set = w2 /\ p3.val = v2 /\ p3.set = v2
    BY <2>1, <2>2 DEF Getset, Normal
  <2>4. ValueOK(heap, v1) /\ ValueOK(heap, w1) /\ ValueOK(heap, v2)
    <3>1. /\ v1.t = "obj" /\ v1.n = 4 /\ w1.t = "obj" /\ w1.n = 5 /\ v2.t = "obj" /\ v2.n = 6
      BY <2>1 DEF Obj, Value
    <3>2. \A i \in {4, 5, 6} : i \in 1 .. Len(heap)
      BY <1>3
    <3> QED
      BY <3>1, <3>2 DEF ValueOK
  <2>5. ValueOK(heap, w2)
    BY <2>1, Scalars
  <2>6. pp = <<p1, p2, p3>>
    BY <1>1, <2>1, <2>2
  <2>7. IsSeq(pp) /\ Len(pp) = 3 /\ pp[1] = p1 /\ pp[2] = p2 /\ pp[3] = p3
    <3>1. pp \in Seq({p1, p2, p3})
      BY <2>6
    <3> QED
      BY <2>6, <3>1, IsSeqOf
  <2> QED
    BY <2>3, <2>4, <2>5, <2>7 DEF PropertiesOK
<1>8. ObjectOK(fns, heap, places, b) /\ b.proto = 1
  <2>1. /\ DOMAIN b0 = ObjectFields /\ b0.cls = "object" /\ b0.proto = 1 /\ ValuesOK(heap, b0.tab)
    BY <1>1, EmptyObject DEF ObjectProto
  <2>2. /\ DOMAIN b = ObjectFields /\ b.cls = "object" /\ b.proto = 1 /\ b.props = pp /\ b.tab = b0.tab
    BY <1>1, <2>1 DEF ObjectFields
  <2> QED
    BY <1>3, <1>7, <2>1, <2>2 DEF ObjectOK
<1>9. /\ ObjectOK(fns, heap, places, d) /\ d.proto = 2 /\ ObjectOK(fns, heap, places, e) /\ e.proto = 2
      /\ ObjectOK(fns, heap, places, f) /\ f.proto = 2 /\ ObjectOK(fns, heap, places, g) /\ g.proto = 2
  BY <1>1, <1>5
<1>10. 1 .. 7 = {1, 2, 3, 4, 5, 6, 7}
  OBVIOUS
<1>11. \A i \in 1 .. Len(heap) : ObjectOK(fns, heap, places, heap[i])
  BY <1>3, <1>6, <1>8, <1>9, <1>10
<1>12. Grounded(heap)
  <2>1. ASSUME NEW A \in SUBSET (1 .. Len(heap)), A # {}
        PROVE  \E i \in A : heap[i].proto \notin A
    <3>1. CASE 1 \in A
      <4>1. 0 \notin A
        BY <1>3
      <4> QED
        BY <1>3, <1>6, <3>1, <4>1
    <3>2. CASE 1 \notin A /\ (2 \in A \/ 3 \in A)
      BY <1>3, <1>6, <1>8, <3>2
    <3>3. CASE 1 \notin A /\ 2 \notin A /\ 3 \notin A
      <4>1. PICK i \in A : i \in {4, 5, 6, 7}
        BY <1>3, <1>10, <2>1, <3>3
      <4>2. heap[i].proto = 2
        BY <1>3, <1>9, <4>1
      <4> QED
        BY <3>3, <4>2
    <3> QED
      BY <3>1, <3>2, <3>3
  <2> QED
    BY <2>1 DEF Grounded
<1> QED
  BY <1>3, <1>11, <1>12 DEF HeapOK

LEMMA CompiledOK == ASSUME Phases, status = "parsed" PROVE Compiled(code, ShapeOf(prog))
<1>1. prog \in Programs /\ CodeOf(prog).err = "" /\ code = CodeOf(prog).fns
  BY DEF Phases
<1>2. PICK c, s : c = CodeOf(prog) /\ s = ShapeOf(prog)
  OBVIOUS
<1>3. DOMAIN s = DOMAIN c.fns /\ 1 \in DOMAIN s /\ \A id \in DOMAIN s : ShapeKept(c.fns, c.fns[id], s[id])
  BY <1>1, <1>2, ShapesKept
<1> QED
  BY <1>1, <1>2, <1>3 DEF Compiled

LEMMA PrintCellOK ==
    ASSUME NEW heap, Len(heap) >= 7, Len(heap) \in Nat, NEW fs, NEW c, c = Detached(Obj(7))
    PROVE  CellOK(heap, fs, c)
<1>1. PICK v : v = Obj(7)
  OBVIOUS
<1>2. v.t = "obj" /\ v.n = 7
  BY <1>1 DEF Obj, Value
<1>3. 7 \in 1 .. Len(heap)
  OBVIOUS
<1>4. ValueOK(heap, v)
  BY <1>2, <1>3 DEF ValueOK
<1>5. DOMAIN c = CellFields /\ c.val = v /\ ~c.attached
  BY <1>1 DEF Detached, CellFields
<1> QED
  BY <1>4, <1>5 DEF CellOK

LEMMA RunOK == ASSUME TInv, JS_Run PROVE Typed'
<1>1. /\ status = "parsed" /\ IInv /\ Shapes /\ Phases /\ objs = StandardObjects /\ frames = <<>> /\ exc = NoExc
      /\ cells = [r \in {PrintCell} |-> Detached(Obj(7))] /\ prog \in Programs
      /\ CodeOf(prog).err = "" /\ code = CodeOf(prog).fns
  BY DEF JS_Run, TInv, IInv, Phases
<1>2. Compiled(code, ShapeOf(prog)) /\ 1 \in DOMAIN code
  BY <1>1, CompiledOK DEF Compiled
<1>3. PICK fn, a, heap, v, o, null, args, outer :
         /\ fn = code[1] /\ a = js_closure(fn, 0, {}, outer) /\ heap = objs' /\ v = Obj(Len(objs) + 1)
         /\ o = Closure(1, a.ids) /\ null = Null /\ args = <<>> /\ outer = <<>>
  OBVIOUS
<1>4. PICK g, fs : g = Frame(fn, 1, v, null, args, {}) /\ fs = <<g>>
  OBVIOUS
<1>5. /\ heap = Append(objs, o) /\ cells' = a.cells /\ frames' = fs /\ prog' = prog /\ code' = code /\ exc' = exc
  BY <1>3, <1>4, Zenon DEF JS_Run
<1>6. HeapOK(code, objs, DOMAIN cells)
  BY <1>1, StandardOK
<1>7. IsSeq(objs) /\ Len(objs) >= 7 /\ Len(objs) \in Nat
  BY <1>6, Sequence DEF HeapOK
<1>8. \A r \in DOMAIN cells : CellOK(objs, frames, cells[r])
  BY <1>1, <1>7, PrintCellOK
<1>9. ASSUME NEW i \in DOMAIN fn.ext
      PROVE  CapturableFrom(fn.ext[i], frames, 0, outer)
  <2>1. fn.ext[i] \in ToSet(fn.ext)
    BY DEF ToSet
  <2>2. fn.ext[i].kind = "global"
    BY <1>1, <1>3, <2>1, EvalCapturesGlobals
  <2> QED
    BY <2>2 DEF CapturableFrom
<1>10. CaptureOK(a, fn, objs, frames)
  <2>1. {} \subseteq DOMAIN cells
    OBVIOUS
  <2> QED
    BY <1>1, <1>3, <1>8, <1>9, <2>1, CapturesOK
<1>11. PICK cs, ids, places : cs = a.cells /\ ids = a.ids /\ places = DOMAIN cs
  OBVIOUS
<1>12. /\ DOMAIN ids = DOMAIN code[1].ext /\ \A i \in DOMAIN ids : ids[i] \in places
       /\ DOMAIN cells \subseteq places /\ \A r \in DOMAIN cs : CellOK(objs, frames, cs[r])
       /\ o = Closure(1, ids)
  BY <1>3, <1>10, <1>11 DEF CaptureOK
<1>13. HeapOK(code, objs, places)
  BY <1>6, <1>12, NewCells
<1>14. HeapStep(code, objs, heap, places)
  <2>1. ASSUME GrewTo(objs, heap)
        PROVE  ObjectOK(code, heap, places, o)
    <3>1. Len(heap) \in Nat /\ Len(heap) >= 7
      BY <1>7, <2>1 DEF GrewTo
    <3> QED
      BY <1>2, <1>12, <3>1, ClosureOK
  <2>2. o.proto = 2
    <3>1. ObjectOK(code, objs, places, o) /\ o.proto = 2
      BY <1>2, <1>7, <1>12, ClosureOK
    <3> QED
      BY <3>1
  <2>3. o.proto # Len(objs) + 1
    BY <1>7, <2>2
  <2> QED
    BY <1>5, <1>13, <2>1, <2>3, NewObjectOK
<1>15. GrewTo(objs, heap) /\ HeapOK(code, heap, places)
  BY <1>14 DEF HeapStep
<1>16. Len(heap) = Len(objs) + 1 /\ heap[Len(objs) + 1] = o
  <2>1. ExtensionOf(heap, objs, o)
    BY <1>5, <1>7, Extended
  <2> QED
    BY <2>1 DEF ExtensionOf
<1>17. v.t = "obj" /\ v.n = Len(objs) + 1
  BY <1>3 DEF Obj, Value
<1>18. ValueOK(heap, v)
  BY <1>7, <1>16, <1>17 DEF ValueOK
<1>19. heap[v.n].cls = "closure" /\ heap[v.n].fn = 1
  <2>1. ObjectOK(code, objs, places, o) /\ o.proto = 2 /\ o.cls = "closure" /\ o.fn = 1
    BY <1>2, <1>7, <1>12, ClosureOK
  <2> QED
    BY <1>16, <1>17, <2>1
<1>20. ValueOK(heap, null) /\ ValuesOK(heap, args) /\ ValueOK(heap, exc)
  <2>1. ValueOK(heap, null)
    BY <1>3, Scalars
  <2>2. ValuesOK(heap, args)
    BY <1>3, EmptyTuple DEF ValuesOK
  <2>3. ValueOK(heap, exc)
    BY <1>1 DEF NoExc, Value, ValueOK
  <2> QED
    BY <2>1, <2>2, <2>3
<1>21. NewFrame(code, ShapeOf(prog), heap, g)
  BY <1>2, <1>3, <1>4, <1>17, <1>18, <1>19, <1>20, FrameMade
<1>22. IsSeq(fs) /\ Len(fs) = 1 /\ fs[1] = g
  BY <1>4, SingleTuple
<1>23. SameSlots(frames, fs)
  <2>1. Len(frames) = 0
    BY <1>1, EmptyTuple
  <2> QED
    BY <1>22, <2>1 DEF SameSlots
<1>24. \A r \in DOMAIN cs : CellOK(heap, fs, cs[r])
  BY <1>12, <1>15, <1>23, CellStays
<1>25. ASSUME NEW d \in 1 .. Len(fs)
       PROVE  FrameOK(code, ShapeOf(prog), heap, fs[d]) /\ DepthOK(ShapeOf(prog), fs, exc, d)
  <2>1. d = 1
    BY <1>22
  <2> QED
    BY <1>21, <1>22, <2>1 DEF NewFrame, DepthOK
<1>26. Good(code, ShapeOf(prog), heap, cs, fs, exc)
  BY <1>11, <1>15, <1>20, <1>22, <1>24, <1>25 DEF Good
<1> QED
  BY <1>2, <1>3, <1>5, <1>11, <1>26 DEF Typed

LEMMA InitiallyTyped == Init => TInv
<1> SUFFICES ASSUME Init PROVE TInv
  OBVIOUS
<1>1. IInv
  BY Initially
<1> QED
  BY <1>1, Zenon DEF Init, TInv

-----------------------------------------------------------------------------
(* The nearest handler: the shape where it is leaves the exception above what
   lies below it. *)
LEMMA CaughtOK == ASSUME TInv, Unwind, Handlers # {} PROVE Typed'
<1>1. Running
  BY DEF Unwind, Handlers, Running
<1>2. /\ StackOK(Fn, Shape, objs, Top.stack, Here) /\ ShapeKept(code, Fn, Shape) /\ Top.pc \in DOMAIN Shape
      /\ Good(code, ShapeOf(prog), objs, cells, frames, exc)
  BY <1>1, Situation
<1>3. PICK s, ks : s = Top.stack /\ ks = Here
  OBVIOUS
<1>4. /\ IsSeq(s) /\ Len(s) \in Nat /\ DOMAIN s = 1 .. Len(s) /\ IsSeq(ks) /\ Len(ks) \in Nat /\ DOMAIN ks = 1 .. Len(ks)
      /\ Len(s) <= Len(ks) /\ \A i \in 1 .. Len(s) : Holds(Fn, Shape, objs, s[i], ks[i])
  BY <1>1, <1>2, <1>3, Instructed, Sequence DEF StackOK
<1>5. PICK T, h : T = Handlers /\ h = Max(T)
  OBVIOUS
<1>6. h \in T /\ T \subseteq 1 .. Len(s) /\ \A i \in T : s[i].t = "catch"
  <2>1. T \subseteq 1 .. Len(s) /\ \A i \in T : s[i].t = "catch"
    BY <1>3, <1>4, <1>5 DEF Handlers, CatchOffsets
  <2>2. T \in SUBSET (0 .. Len(s)) /\ T # {}
    BY <1>4, <1>5, <2>1
  <2> QED
    BY <1>4, <1>5, <2>1, <2>2, MaxOf
<1>7. h \in 1 .. Len(s) /\ h \in 1 .. Len(ks) /\ h \in DOMAIN ks /\ s[h].t = "catch"
  BY <1>4, <1>6
<1>8. ks[h].k = "catch" /\ s[h].n = ks[h].at
  <2>1. Holds(Fn, Shape, objs, s[h], ks[h])
    BY <1>4, <1>7
  <2>2. ks[h].k \in Plain \cup {"catch", "ret"}
    BY <1>2, <1>3, <1>7, Known DEF Here
  <2>3. ks[h].k \notin Plain
    BY <1>7, <2>1 DEF Holds, ValueOK
  <2>4. ks[h].k # "ret"
    BY <1>7, <2>1 DEF Holds
  <2> QED
    BY <2>1, <2>2, <2>3, <2>4 DEF Holds
<1>9. PICK at, low, klow, st, kst : /\ at = ks[h].at /\ low = SubSeq(s, 1, h - 1) /\ klow = SubSeq(ks, 1, h - 1)
                                    /\ st = Append(low, exc) /\ kst = Append(klow, AnyValue)
  OBVIOUS
<1>10. <<at, kst>> \in Successors(Fn, Shape, Top.pc)
  BY <1>3, <1>7, <1>8, <1>9 DEF Successors, Here
<1>11. PICK m \in Nat : m = h - 1
  BY <1>4, <1>7
<1>12. /\ IsSeq(low) /\ Len(low) = m /\ \A i \in 1 .. m : low[i] = s[i]
       /\ IsSeq(klow) /\ Len(klow) = m /\ \A i \in 1 .. m : klow[i] = ks[i]
  <2>1. m \in 0 .. Len(s) /\ m \in 0 .. Len(ks) /\ low = SubSeq(s, 1, m) /\ klow = SubSeq(ks, 1, m)
    BY <1>4, <1>7, <1>9, <1>11
  <2> QED
    BY <1>4, <2>1, CutOf
<1>13. /\ IsSeq(st) /\ Len(st) = m + 1 /\ st[m + 1] = exc /\ \A i \in 1 .. m : st[i] = s[i]
       /\ IsSeq(kst) /\ Len(kst) = m + 1 /\ kst[m + 1] = AnyValue /\ \A i \in 1 .. m : kst[i] = ks[i]
  <2>1. ExtensionOf(st, low, exc) /\ ExtensionOf(kst, klow, AnyValue)
    BY <1>9, <1>12, Extended
  <2> QED
    BY <1>12, <2>1 DEF ExtensionOf
<1>14. ASSUME NEW i \in 1 .. m + 1
       PROVE  Holds(Fn, Shape, objs, st[i], kst[i])
  <2>1. CASE i = m + 1
    <3>1. ValueOK(objs, exc)
      BY <1>2 DEF Good
    <3> QED
      BY <1>13, <2>1, <3>1 DEF Holds, AnyValue, Kind
  <2>2. CASE i # m + 1
    <3>1. i \in 1 .. m /\ i \in 1 .. Len(s)
      BY <1>4, <1>7, <1>11, <2>2
    <3> QED
      BY <1>4, <1>13, <3>1
  <2> QED
    BY <2>1, <2>2
<1>15. StackOK(Fn, Shape, objs, st, kst)
  BY <1>13, <1>14 DEF StackOK
<1>16. at \in DOMAIN Shape /\ StackOK(Fn, Shape, objs, st, Shape[at]) /\ Len(Shape[at]) = Len(kst)
  BY <1>1, <1>10, <1>13, <1>15, Reaches
<1>17. frames' = Jump(Append(SubSeq(Top.stack, 1, h - 1), exc), Top.stack[h].n) /\ exc' = NoExc /\ objs' = objs /\ cells' = cells
       /\ Going
  BY <1>5, Zenon DEF Unwind, Quiet, Going
<1>18. frames' = Jump(st, at)
  BY <1>3, <1>8, <1>9, <1>17
<1>19. HeapOK(code, objs, DOMAIN cells) /\ GrewTo(objs, objs)
  BY <1>1, HeapIs
<1> QED
  BY <1>1, <1>13, <1>16, <1>17, <1>18, <1>19, Jumped

(* The top frame goes: what is left of the call stack is as it was, but for the
   value that the caller waited for. *)
LEMMA LeaveOK ==
    ASSUME TInv, status = "running", NEW v, Leave(v), exc = NoExc => ValueOK(objs, v), Depth > 1 => exc' = exc
    PROVE  (status' = "running" => Typed') /\ (status' # "running" => frames' = <<>>)
<1>1. /\ Compiled(code, ShapeOf(prog)) /\ Good(code, ShapeOf(prog), objs, cells, frames, exc)
      /\ IsSeq(frames) /\ frames # <<>> /\ CapturedOnce
  BY DEF TInv, Typed, Good, IInv, Phases
<1>2. PICK n \in Nat \ {0} : n = Len(frames) /\ DOMAIN frames = 1 .. n /\ Depth = n /\ Top = frames[n]
  BY <1>1, Sequence DEF Depth, Top
<1>3. \A d \in 1 .. n : FrameOK(code, ShapeOf(prog), objs, frames[d]) /\ DepthOK(ShapeOf(prog), frames, exc, d)
  BY <1>1, <1>2 DEF Good
<1>4. PICK top, ret : top = Top /\ ret = IF CTOR \in top.flags /\ ~IsObj(v) THEN top.this ELSE v
  OBVIOUS
<1>5. PICK fs, cs, fs2 : fs = Front(frames) /\ cs = cells' /\ fs2 = frames'
  OBVIOUS
<1>6. /\ cs = [r \in DOMAIN cells |-> IF r \in top.refs THEN Detached(SlotOf(top, cells[r].kind, cells[r].idx)) ELSE cells[r]]
      /\ fs2 = IF exc # NoExc \/ Depth = 1 \/ POP_RET \in top.flags THEN fs
               ELSE [fs EXCEPT ![Depth - 1].stack = Append(@, ret)]
      /\ status' = IF Depth > 1 THEN "running" ELSE IF exc = NoExc THEN "returned" ELSE "thrown"
      /\ objs' = objs /\ prog' = prog /\ code' = code
  BY <1>4, <1>5, Zenon DEF Leave
<1>7. IsSeq(fs) /\ Len(fs) = n - 1 /\ \A d \in 1 .. n - 1 : fs[d] = frames[d]
  BY <1>1, <1>2, <1>5, Shortened
<1>8. CASE n = 1
  <2>1. fs2 = fs /\ status' # "running"
    BY <1>2, <1>6, <1>8
  <2>2. Len(fs) = 0
    BY <1>7, <1>8
  <2> QED
    BY <1>5, <1>7, <2>1, <2>2, Sequence
<1>9. CASE n > 1
  <2>1. PICK l \in Nat \ {0} : l = n - 1 /\ l < n /\ n = l + 1 /\ l \in 1 .. n
    BY <1>2, <1>9
  <2>2. status' = "running" /\ exc' = exc
    BY <1>2, <1>6, <1>9
  <2>3. PICK f : f = frames[l]
    OBVIOUS
  <2>4. FrameOK(code, ShapeOf(prog), objs, f) /\ DepthOK(ShapeOf(prog), frames, exc, l)
    BY <1>3, <2>1, <2>3
  <2>5. PICK g : g = IF exc # NoExc \/ POP_RET \in top.flags THEN f ELSE [f EXCEPT !.stack = Append(@, ret)]
    OBVIOUS
  <2>6. PICK ks : ks = ShapeOf(prog)[f.fn][f.pc]
    OBVIOUS
  <2>7. /\ FrameOK(code, ShapeOf(prog), objs, g) /\ g.args = f.args /\ g.locs = f.locs /\ g.flags = f.flags
        /\ exc = NoExc => Len(g.stack) = Len(ShapeOf(prog)[g.fn][g.pc])
    <3>1. l # Len(frames) /\ frames[l + 1] = top
      BY <1>2, <1>4, <2>1
    <3>2. CASE exc # NoExc
      BY <2>4, <2>5, <3>2
    <3>3. CASE exc = NoExc /\ POP_RET \in top.flags
      <4>1. g = f
        BY <2>5, <3>3
      <4>2. Len(f.stack) = Len(ks)
        BY <2>3, <2>4, <2>6, <3>1, <3>3 DEF DepthOK
      <4> QED
        BY <2>4, <2>6, <4>1, <4>2
    <3>4. CASE exc = NoExc /\ POP_RET \notin top.flags
      <4>1. PICK s, st : s = f.stack /\ st = Append(s, ret)
        OBVIOUS
      <4>2. g = [f EXCEPT !.stack = st] /\ DOMAIN f = FrameFields
        BY <2>4, <2>5, <3>4, <4>1 DEF FrameOK
      <4>3. /\ DOMAIN g = FrameFields /\ g.fn = f.fn /\ g.func = f.func /\ g.this = f.this /\ g.argc = f.argc /\ g.flags = f.flags
            /\ g.pc = f.pc /\ g.args = f.args /\ g.locs = f.locs /\ g.stack = st
        BY <4>2 DEF FrameFields
      <4>4. Len(s) + 1 = Len(ks) /\ ks[Len(ks)] = AnyValue
        BY <2>3, <2>4, <2>6, <3>1, <3>4, <4>1 DEF DepthOK
      <4>5. /\ StackOK(code[f.fn], ShapeOf(prog)[f.fn], objs, s, ks)
        BY <2>4, <2>6, <4>1 DEF FrameOK
      <4>6. PICK m \in Nat : m = Len(s) /\ IsSeq(s)
        BY <4>5, Sequence DEF StackOK
      <4>7. IsSeq(st) /\ Len(st) = m + 1 /\ st[m + 1] = ret /\ \A i \in 1 .. m : st[i] = s[i]
        <5>1. ExtensionOf(st, s, ret)
          BY <4>1, <4>6, Extended
        <5> QED
          BY <4>6, <5>1 DEF ExtensionOf
      <4>8. ValueOK(objs, ret)
        <5>1. ValueOK(objs, top.this)
          BY <1>2, <1>3, <1>4 DEF FrameOK
        <5> QED
          BY <1>4, <3>4, <5>1
      <4>9. ASSUME NEW i \in 1 .. m + 1
            PROVE  Holds(code[f.fn], ShapeOf(prog)[f.fn], objs, st[i], ks[i])
        <5>1. CASE i = m + 1
          <6>1. st[i] = ret /\ ks[i] = AnyValue
            BY <4>4, <4>6, <4>7, <5>1
          <6> QED
            BY <4>8, <6>1 DEF Holds, AnyValue, Kind
        <5>2. CASE i # m + 1
          <6>1. i \in 1 .. m
            BY <5>2
          <6> QED
            BY <4>5, <4>6, <4>7, <6>1 DEF StackOK
        <5> QED
          BY <5>1, <5>2
      <4>10. StackOK(code[f.fn], ShapeOf(prog)[f.fn], objs, st, ks) /\ Len(st) = Len(ks)
        BY <4>4, <4>6, <4>7, <4>9 DEF StackOK
      <4> QED
        BY <2>4, <2>6, <4>3, <4>10 DEF FrameOK
    <3> QED
      BY <3>2, <3>3, <3>4
  <2>8. UpdateOf(fs2, fs, l, g)
    <3>1. CASE exc # NoExc \/ POP_RET \in top.flags
      <4>2. fs[l] = f
        BY <1>7, <2>1, <2>3
      <4>1. fs2 = fs /\ g = fs[l]
        BY <1>6, <2>5, <3>1, <4>2, Zenon
      <4> QED
        BY <1>7, <4>1 DEF UpdateOf
    <3>2. CASE ~(exc # NoExc \/ POP_RET \in top.flags)
      <4>1. Depth # 1
        BY <1>2, <1>9
      <4>2. Depth - 1 = l
        BY <1>2, <2>1
      <4>3. fs2 = [fs EXCEPT ![l].stack = Append(@, ret)]
        BY <1>6, <3>2, <4>1, <4>2, Zenon
      <4>4. fs[l] = f
        BY <1>7, <2>1, <2>3
      <4>5. g = [fs[l] EXCEPT !.stack = Append(@, ret)]
        BY <2>5, <3>2, <4>4, Zenon
      <4>6. fs2 = [fs EXCEPT ![l] = g]
        BY <4>3, <4>5
      <4> QED
        BY <1>7, <4>6, Updated
    <3> QED
      BY <3>1, <3>2
  <2>9. IsSeq(fs2) /\ Len(fs2) = l /\ \A d \in 1 .. l : fs2[d] = IF d = l THEN g ELSE frames[d]
    BY <1>7, <2>1, <2>8 DEF UpdateOf
  <2>10. ASSUME NEW d \in 1 .. l
         PROVE  FrameOK(code, ShapeOf(prog), objs, fs2[d]) /\ DepthOK(ShapeOf(prog), fs2, exc, d)
    <3>1. CASE d = l
      BY <2>7, <2>9, <3>1 DEF DepthOK
    <3>2. CASE d # l
      <4>1. d \in 1 .. n /\ d + 1 \in 1 .. l /\ fs2[d] = frames[d] /\ fs2[d + 1].flags = frames[d + 1].flags
            /\ d # Len(frames) /\ d # Len(fs2)
        BY <1>2, <2>1, <2>3, <2>7, <2>9, <3>2
      <4>2. FrameOK(code, ShapeOf(prog), objs, frames[d]) /\ DepthOK(ShapeOf(prog), frames, exc, d)
        BY <1>3, <4>1
      <4> QED
        BY <4>1, <4>2 DEF DepthOK
    <3> QED
      BY <3>1, <3>2
  <2>11. ASSUME NEW r \in DOMAIN cells
         PROVE  CellOK(objs, fs2, cs[r])
    <3>1. PICK c : c = cells[r]
      OBVIOUS
    <3>2. CellOK(objs, frames, c)
      BY <1>1, <3>1 DEF Good
    <3>3. CASE r \in top.refs
      <4>1. c.attached /\ c.depth = n
        BY <1>1, <1>2, <1>4, <3>1, <3>3 DEF CapturedOnce
      <4>2. ValueOK(objs, SlotOf(top, c.kind, c.idx))
        <5>1. \/ c.kind = "arg" /\ c.idx \in 1 .. Len(top.args)
              \/ c.kind = "loc" /\ c.idx \in 1 .. Len(top.locs)
          BY <1>2, <1>4, <3>2, <4>1 DEF CellOK
        <5>2. ValuesOK(objs, top.args) /\ ValuesOK(objs, top.locs)
          BY <1>2, <1>3, <1>4 DEF FrameOK
        <5> QED
          BY <5>1, <5>2 DEF SlotOf, ValuesOK
      <4>3. PICK w, b : w = SlotOf(top, c.kind, c.idx) /\ b = Detached(w)
        OBVIOUS
      <4>4. cs[r] = b
        BY <1>6, <3>1, <3>3, <4>3, Zenon
      <4>5. DOMAIN b = CellFields /\ b.val = w /\ ~b.attached
        BY <4>3 DEF Detached, CellFields
      <4> QED
        BY <4>2, <4>3, <4>4, <4>5 DEF CellOK
    <3>4. CASE r \notin top.refs
      <4>1. cs[r] = c
        BY <1>6, <3>1, <3>4, Zenon
      <4>2. ASSUME c.attached
            PROVE  c.depth \in 1 .. l /\ fs2[c.depth].args = frames[c.depth].args /\ fs2[c.depth].locs = frames[c.depth].locs
        <5>1. c.depth \in 1 .. n /\ r \in frames[c.depth].refs
          BY <1>1, <1>2, <3>1, <4>2 DEF CapturedOnce
        <5>2. c.depth # n
          BY <1>2, <1>4, <3>4, <5>1
        <5>3. c.depth \in 1 .. l
          BY <2>1, <5>1, <5>2
        <5> QED
          BY <2>3, <2>7, <2>9, <5>3
      <4>3. DOMAIN c = CellFields /\ ValueOK(objs, c.val)
        BY <3>2 DEF CellOK
      <4> QED
        BY <2>9, <3>2, <4>1, <4>2, <4>3 DEF CellOK
    <3> QED
      BY <3>3, <3>4
  <2>12. DOMAIN cs = DOMAIN cells
    BY <1>6
  <2>13. Good(code, ShapeOf(prog), objs, cs, fs2, exc)
    BY <1>1, <2>9, <2>10, <2>11, <2>12 DEF Good
  <2> QED
    BY <1>1, <1>5, <1>6, <2>2, <2>13 DEF Typed
<1> QED
  BY <1>2, <1>8, <1>9

LEMMA LeavesOK ==
    ASSUME TInv, Return \/ (Unwind /\ Handlers = {})
    PROVE  (status' = "running" => Typed') /\ (status' # "running" => frames' = <<>>)
<1>1. CASE Return
  <2>1. Running /\ exc = NoExc /\ Opcode \in {"return", "return_undef"}
    BY <1>1, FetchedOK DEF Return
  <2>2. PICK v : v = IF Opcode = "return" THEN S(0) ELSE Undefined
    OBVIOUS
  <2>3. Leave(v) /\ exc' = exc
    BY <1>1, <2>2 DEF Return
  <2>4. ValueOK(objs, v)
    <3>1. CASE Opcode = "return"
      <4>1. Instruction[1] \in {"return"} /\ Opcode \notin Shuffles \cup {"ret"}
        BY <2>1, <3>1, Instructed, ShuffleOps
      <4>2. Effect(Instruction) = <<1, 0>>
        BY <4>1, EffectPair, Effects
      <4>3. 0 \in 0 .. 1 - 1
        OBVIOUS
      <4> QED
        BY <2>1, <2>2, <3>1, <4>1, <4>2, <4>3, Operands
    <3>2. CASE Opcode # "return"
      BY <2>2, <3>2, Scalars
    <3> QED
      BY <3>1, <3>2
  <2> QED
    BY <2>1, <2>3, <2>4, LeaveOK DEF Running
<1>2. CASE Unwind /\ Handlers = {}
  <2>1. status = "running" /\ exc # NoExc /\ Leave(Undefined) /\ exc' = IF Depth = 1 THEN NoExc ELSE exc
    BY <1>2, Zenon DEF Unwind
  <2>2. Depth > 1 => exc' = exc
    BY <2>1
  <2> QED
    BY <2>1, <2>2, LeaveOK
<1> QED
  BY <1>1, <1>2

-----------------------------------------------------------------------------
(* Every instruction leaves what is on the stacks, in the slots, in the cells
   and in the objects as the code it comes to expects it. *)
LEMMA StepTyped ==
    ASSUME TInv, Next
    PROVE  \/ status \in {"source", "parsed"} /\ (JS_Parse \/ (JS_Run /\ Typed'))
           \/ status = "running" /\ status' = "running" /\ Typed'
           \/ status = "running" /\ status' \notin {"source", "parsed", "running"} /\ frames' = <<>> /\ objs' = objs
           \/ UNCHANGED vars
<1>1. \/ Push \/ PushConst \/ NewObject \/ ArrayFrom \/ Arguments \/ Shuffle \/ GetSlot \/ UnaryOp \/ PostOp \/ BinaryOp
      \/ TypeOf \/ ThrowOp \/ InOp \/ GetVarRef
      \/ Goto \/ Branch \/ Gosub \/ Ret
      \/ PutSlot \/ PutVarRef \/ SetProto \/ Delete \/ ForStart \/ ForNext
      \/ DefineField \/ InstanceOf
      \/ CallOp \/ GetField \/ GetLength \/ GetArrayEl \/ PutField \/ PutArrayEl
      \/ FClosure \/ Return \/ Unwind \/ JS_Run \/ JS_Parse \/ Interrupt \/ Terminated
  BY Zenon DEF Next
<1>2. IInv
  BY DEF TInv
<1>3. Computes \/ Calls \/ FClosure \/ Interrupt => status = "running" /\ status' = "running"
  BY DEF Computes, Calls, Running, Going, FClosure, Interrupt, Fetch
<1>4. CASE \/ Push \/ PushConst \/ NewObject \/ ArrayFrom \/ Arguments \/ Shuffle \/ GetSlot \/ UnaryOp \/ PostOp \/ BinaryOp
           \/ TypeOf \/ ThrowOp \/ InOp \/ GetVarRef
  <2>1. Typed'
    BY <1>4, PushOK, OperatorsOK, NewObjectInstruction, ArraysOK, ShuffleOK, GetSlotOK, ThrowOpOK, GetVarRefOK
  <2> QED
    BY <1>2, <1>3, <1>4, <2>1, StackOnly
<1>5. CASE Goto \/ Branch \/ Gosub \/ Ret
  BY <1>2, <1>3, <1>5, JumpsCompute, GotoOK, GosubOK, RetOK
<1>6. CASE PutSlot \/ PutVarRef \/ SetProto \/ Delete \/ ForStart \/ ForNext
  BY <1>2, <1>3, <1>6, Writes, PutSlotOK, PutVarRefOK, SetProtoOK, Deletes, ForStartOK, ForNextOK
<1>7. CASE DefineField \/ InstanceOf
  BY <1>2, <1>3, <1>7, Defines, DefineFieldOK, InstanceOfOK
<1>8. CASE CallOp \/ GetField \/ GetLength \/ GetArrayEl \/ PutField \/ PutArrayEl
  BY <1>2, <1>3, <1>8, CallsOrNot, CallOpOK, GetFieldsOK, PutFieldsOK
<1>9. CASE FClosure \/ Interrupt
  BY <1>3, <1>9, FClosureOK, InterruptOK
<1>10. CASE Unwind /\ Handlers # {}
  BY <1>2, <1>3, <1>10, Caught, CaughtOK
<1>11. CASE Return \/ (Unwind /\ Handlers = {})
  <2>1. (status' = "running" => Typed') /\ (status' # "running" => frames' = <<>>)
    BY <1>11, LeavesOK
  <2>2. status = "running" /\ \E v : Leave(v)
    <3>1. CASE Return
      BY <3>1 DEF Return, Fetch
    <3>2. CASE Unwind /\ Handlers = {}
      BY <3>2, Zenon DEF Unwind
    <3> QED
      BY <1>11, <3>1, <3>2
  <2>3. status' = IF Depth > 1 THEN "running" ELSE IF exc = NoExc THEN "returned" ELSE "thrown"
    BY <2>2, Zenon DEF Leave
  <2>4. status' \in {"running", "returned", "thrown"}
    BY <2>3
  <2>5. objs' = objs
    BY <2>2, Zenon DEF Leave
  <2> QED
    BY <2>1, <2>2, <2>4, <2>5
<1>12. CASE JS_Run
  BY <1>12, RunOK DEF JS_Run
<1>13. CASE JS_Parse
  BY <1>13 DEF JS_Parse
<1>14. CASE Terminated
  BY <1>14 DEF Terminated
<1> QED
  BY <1>1, <1>4, <1>5, <1>6, <1>7, <1>8, <1>9, <1>10, <1>11, <1>12, <1>13, <1>14

LEMMA TypedKeeps == TInv /\ [Next]_vars => TInv'
<1> SUFFICES ASSUME TInv, [Next]_vars PROVE TInv'
  OBVIOUS
<1>1. IInv'
  BY StepKeeps DEF TInv
<1>2. CASE UNCHANGED vars
  BY <1>1, <1>2 DEF vars, TInv, Typed
<1>3. CASE JS_Parse
  <2>1. /\ status = "source" /\ status' # "running" /\ frames' = frames /\ UNCHANGED <<objs, cells, globals, exc>>
    BY <1>3 DEF JS_Parse
  <2> QED
    BY <1>1, <2>1 DEF TInv
<1>4. CASE JS_Run /\ Typed'
  BY <1>1, <1>4 DEF JS_Run, TInv
<1>5. CASE status' = "running" /\ Typed'
  BY <1>1, <1>5 DEF TInv
<1>6. CASE status' \notin {"source", "parsed", "running"} /\ frames' = <<>>
  BY <1>1, <1>6 DEF TInv
<1> QED
  BY <1>2, <1>3, <1>4, <1>5, <1>6, StepTyped

(* Wherever the interpreter comes to an instruction that compute_stack_size
   explored, by a jump, a call that returns or a finally block, the operand stack
   is as deep as that pass found it, whatever the program, up to the tail call of
   a C function that drops its caller's flags: there the model ends, and in the
   code a setter's result stays on the stack or the pc is wrong.  That pass does
   not go on to the handlers of OP_catch, and this says nothing of those.      *)
THEOREM StacksAreAsExplored == Spec => []StackAsExplored
<1>1. TInv => StackAsExplored
  <2> SUFFICES ASSUME TInv,
                      NEW d \in DOMAIN frames,
                      d < Depth \/ exc = NoExc, frames[d].pc \in DOMAIN Explored(frames[d])
               PROVE  Len(frames[d].stack) + (IF d < Depth /\ POP_RET \notin frames[d + 1].flags THEN 1 ELSE 0)
                          = Explored(frames[d])[frames[d].pc]
    BY Zenon DEF StackAsExplored
  <2>1. status = "running"
    <3>1. CASE status # "running"
      <4>1. frames = <<>>
        BY <3>1 DEF TInv
      <4> QED
        BY <4>1
    <3> QED
      BY <3>1
  <2>2. Compiled(code, ShapeOf(prog)) /\ Good(code, ShapeOf(prog), objs, cells, frames, exc)
    BY <2>1 DEF TInv, Typed
  <2>3. d \in 1 .. Len(frames) /\ Len(frames) \in Nat /\ Depth = Len(frames)
    BY <2>2, Sequence DEF Good, Depth
  <2>4. PICK f, ks, shape, n :
           /\ f = frames[d] /\ shape = ShapeOf(prog)[f.fn] /\ ks = shape[f.pc]
           /\ n = IF d < Depth /\ POP_RET \notin frames[d + 1].flags THEN 1 ELSE 0
    OBVIOUS
  <2>5. FrameOK(code, ShapeOf(prog), objs, f) /\ DepthOK(ShapeOf(prog), frames, exc, d)
    BY <2>2, <2>3, <2>4 DEF Good
  <2>6. f.fn \in DOMAIN ShapeOf(prog) /\ ShapeKept(code, code[f.fn], shape)
    BY <2>2, <2>4, <2>5 DEF FrameOK, Compiled
  <2>7. Len(ks) = Explored(f)[f.pc]
    BY <2>4, <2>6 DEF ShapeKept, Explored
  <2>8. Len(f.stack) \in Nat
    <3>1. IsSeq(f.stack)
      BY <2>5 DEF FrameOK, StackOK
    <3> QED
      BY <3>1, Sequence
  <2>9. Len(f.stack) + n = Len(ks)
    <3>1. CASE d = Len(frames)
      <4>1. exc = NoExc /\ n = 0
        BY <2>3, <2>4, <3>1
      <4>2. Len(f.stack) = Len(ks)
        BY <2>4, <2>5, <3>1, <4>1 DEF DepthOK
      <4> QED
        BY <2>8, <4>1, <4>2
    <3>2. CASE d # Len(frames) /\ POP_RET \in frames[d + 1].flags
      <4>1. n = 0
        BY <2>4, <3>2
      <4>2. Len(f.stack) = Len(ks)
        BY <2>4, <2>5, <3>2 DEF DepthOK
      <4> QED
        BY <2>8, <4>1, <4>2
    <3>3. CASE d # Len(frames) /\ POP_RET \notin frames[d + 1].flags
      <4>1. n = 1
        BY <2>3, <2>4, <3>3
      <4>2. Len(f.stack) + 1 = Len(ks)
        BY <2>4, <2>5, <3>3 DEF DepthOK
      <4> QED
        BY <4>1, <4>2
    <3> QED
      BY <3>1, <3>2, <3>3
  <2> QED
    BY <2>4, <2>7, <2>9
<1> QED
  BY <1>1, InitiallyTyped, TypedKeeps, PTL DEF Spec

(* While a program runs nothing dangles: every object that a stack, a slot, a
   cell, a property or an element names is there, a closure's captured variables
   are cells that are there and belong to slots their frame has, and an
   instruction's operands are the values, loop iterators, handlers and return
   addresses it takes them for, in catch handlers too (JS_Call trusts the compiler
   with all of this).  It holds up to a call that loses its flags, where the
   model ends: of what JS_Call does from there with the wrong stack or pc it says
   nothing.                                                                      *)
THEOREM NothingDangles == Spec => [](status = "running" => Typed)
<1>1. TInv => (status = "running" => Typed)
  BY DEF TInv
<1> QED
  BY <1>1, InitiallyTyped, TypedKeeps, PTL DEF Spec

(* No object gets onto its own prototype chain, so the loops over a chain of
   JS_GetPropertyInternal, JS_SetPropertyInternal and js_operator_instanceof end
   (the circular chain that js_set_prototype_internal refuses to make).        *)
THEOREM PrototypeChainsEnd == Spec => []Grounded(objs)
<1>1. Init => Grounded(objs)
  <2> SUFFICES ASSUME Init PROVE Grounded(objs)
    OBVIOUS
  <2>1. HeapOK(code, objs, DOMAIN cells)
    BY StandardOK DEF Init
  <2> QED
    BY <2>1 DEF HeapOK
<1>2. TInv /\ [Next]_vars /\ Grounded(objs) => Grounded(objs)'
  <2> SUFFICES ASSUME TInv, [Next]_vars, Grounded(objs) PROVE Grounded(objs')
    OBVIOUS
  <2>1. CASE Typed'
    BY <2>1 DEF Typed, Good, HeapOK
  <2>2. CASE objs' = objs
    BY <2>2
  <2>3. JS_Parse \/ UNCHANGED vars => objs' = objs
    BY DEF JS_Parse, vars
  <2> QED
    BY <2>1, <2>2, <2>3, StepTyped
<1> QED
  BY <1>1, <1>2, InitiallyTyped, TypedKeeps, PTL DEF Spec

=============================================================================
