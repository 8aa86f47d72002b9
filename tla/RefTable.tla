------------------------------ MODULE RefTable ------------------------------
(***************************************************************************)
(* The slot table of native/shim/mquickjs_kmp.c: the table of reference    *)
(* counted, generation tagged handles through which the host holds JS      *)
(* objects, together with the engine's intrusive list of GC roots into     *)
(* which every live slot is linked.                                        *)
(*                                                                         *)
(* Slots are numbered 1..slotCount: number i stands for the C index i - 1, *)
(* exactly as in the low half of a handle, so 0 plays the part of -1 in    *)
(* free_head and next_free and of the failure handle 0.                    *)
(***************************************************************************)
EXTENDS Integers, FiniteSets

CONSTANTS
  Object,     (* JS objects a slot can hold                                *)
  Undefined,  (* the value of a slot that holds nothing                    *)
  MaxSlots,   (* INT32_MAX in the code: slot_count never passes it         *)
  FirstCap,   (* 16 in the code: capacity of the first allocation          *)
  GenMod,     (* 2^32 in the code: generations are uint32_t                *)
  MaxCount    (* bound of the model: a slot's refcount stops growing here  *)

ASSUME RefTableConstants ==
  /\ Undefined \notin Object
  /\ MaxSlots \in Nat \ {0}
  /\ FirstCap \in Nat \ {0}
  /\ GenMod   \in Nat \ {0}
  /\ MaxCount \in Nat \ {0}

VARIABLES
  slotCount,  (* slot_count: slots allocated so far, live and reusable     *)
  slotCap,    (* slot_cap: entries the slots array has room for            *)
  refcount,   (* kmp_slot.refcount                                         *)
  gen,        (* kmp_slot.gen                                              *)
  nextFree,   (* kmp_slot.next_free                                        *)
  val,        (* kmp_slot.gc.val                                           *)
  links,      (* times the slot is linked into the engine's GC root list   *)
  freeHead,   (* free_head                                                 *)
  loading,    (* kmpjs_load_bytecode is between slot_reserve and slot_new  *)
  phase,      (* "open", "destroyed", or "aborted" by JS_DeleteGCRef       *)
  issued,     (* history: every <<handle, object>> slot_new ever returned  *)
  wrapped     (* history: the slots whose generation went round GenMod     *)

table == <<slotCount, slotCap, refcount, gen, nextFree, val, links, freeHead>>
vars  == <<table, loading, phase, issued, wrapped>>

Slot   == 1..MaxSlots
Handle == (0..GenMod-1) \X Slot

Allocated == 1..slotCount
Free      == {i \in Allocated : refcount[i] = 0}

\* slot_get: the slot a handle names, or 0 when the handle is stale.
SlotGet(h) ==
  IF h[2] <= slotCount /\ refcount[h[2]] > 0 /\ gen[h[2]] = h[1] THEN h[2] ELSE 0

Live(h) == SlotGet(h) # 0

----------------------------------------------------------------------------
(* The operations.                                                          *)

\* Growing the pointer array: realloc may fail, and a success is kept even
\* when the calloc of the slot itself then fails.
Doubled == IF slotCap = 0 THEN FirstCap ELSE 2 * slotCap

\* Mutant: the capacity test is off by one.
MutGrowLate == IF slotCount > slotCap THEN Doubled ELSE slotCap

CapAfterGrow == IF slotCount = slotCap THEN Doubled ELSE slotCap

\* uint32_t arithmetic on the generation.
\* Mutants: the generation is not advanced; it is kept in a wider type.
MutGenKept(g) == g
MutGenWide(g) == g + 1

NextGen(g) == (g + 1) % GenMod

\* Pushing slot i on the free list.
\* Mutant: the rest of the list is dropped.
MutListRestarted(i) == [nextFree EXCEPT ![i] = 0]

ListedBefore(i) == [nextFree EXCEPT ![i] = freeHead]

\* Unlinking slot i from the GC root list, and all live slots at the end.
\* Mutants: the slot is released, or the context freed, without unlinking.
MutStillLinked(i) == links
MutAllLinked      == links

Unlinked(i) == [links EXCEPT ![i] = @ - 1]

LiveUnlinked ==
  [i \in Slot |-> IF i \in Allocated /\ refcount[i] > 0 THEN links[i] - 1 ELSE links[i]]

\* The head of the free list once slot_reserve has allocated a slot.
\* Mutant: the new slot is not put on the list.
MutNotReserved == freeHead

ReservedHead == slotCount + 1

\* JS_AddGCRef and the store through the pointer it returns.
Occupy(i, v) ==
  /\ refcount' = [refcount EXCEPT ![i] = 1]
  /\ nextFree' = [nextFree EXCEPT ![i] = 0]
  /\ links'    = [links    EXCEPT ![i] = @ + 1]
  /\ val'      = [val      EXCEPT ![i] = v]
  /\ issued'   = issued \cup {<<<<gen[i], i>>, v>>}
  /\ UNCHANGED <<gen, phase, wrapped>>

\* slot_new served from the free list: it cannot fail.
NewFromFreeList(v) ==
  /\ freeHead # 0
  /\ freeHead' = nextFree[freeHead]
  /\ Occupy(freeHead, v)
  /\ UNCHANGED <<slotCount, slotCap>>

\* slot_new that has to allocate a slot.
NewByGrowing(v) ==
  /\ freeHead = 0
  /\ slotCount < MaxSlots
  /\ slotCap'   = CapAfterGrow
  /\ slotCount' = slotCount + 1
  /\ Occupy(slotCount + 1, v)
  /\ UNCHANGED freeHead

\* realloc or calloc fails: 0 is returned, only the capacity may have grown.
AllocationFails ==
  /\ freeHead = 0
  /\ slotCap' \in {slotCap} \cup (IF slotCount < MaxSlots THEN {CapAfterGrow} ELSE {})
  /\ UNCHANGED <<slotCount, refcount, gen, nextFree, val, links, freeHead,
                 phase, issued, wrapped>>

\* slot_new
TakeSlot(v) == NewFromFreeList(v) \/ NewByGrowing(v) \/ AllocationFails

\* value_to_out hands an object out as a reference.
SlotNew(v) ==
  /\ phase = "open" /\ ~loading
  /\ TakeSlot(v)
  /\ UNCHANGED loading

\* slot_reserve: the free list has a slot already, gets a new one, or stays
\* empty because the allocation failed, in which case the load is given up.
SlotReserve ==
  /\ phase = "open" /\ ~loading
  /\ \/ freeHead # 0 /\ loading' = TRUE /\ UNCHANGED <<table, phase, issued, wrapped>>
     \/ /\ freeHead = 0
        /\ slotCount < MaxSlots
        /\ slotCap'   = CapAfterGrow
        /\ slotCount' = slotCount + 1
        /\ nextFree'  = [nextFree EXCEPT ![slotCount + 1] = 0]
        /\ freeHead'  = ReservedHead
        /\ loading'   = TRUE
        /\ UNCHANGED <<refcount, gen, val, links, phase, issued, wrapped>>
     \/ AllocationFails /\ UNCHANGED loading

\* kmpjs_load_bytecode after the reservation: JS_LoadBytecode, which runs no
\* script, either rejects the bytes or its result takes the reserved slot.
LoadRejected ==
  /\ loading
  /\ loading' = FALSE
  /\ UNCHANGED <<table, phase, issued, wrapped>>

LoadNew(v) ==
  /\ loading
  /\ TakeSlot(v)
  /\ loading' = FALSE

\* kmpjs_ref_retain
Retain(h) ==
  /\ phase = "open" /\ ~loading
  /\ LET i == SlotGet(h) IN
       /\ i # 0
       /\ refcount[i] < MaxCount
       /\ refcount' = [refcount EXCEPT ![i] = @ + 1]
  /\ UNCHANGED <<slotCount, slotCap, gen, nextFree, val, links, freeHead,
                 loading, phase, issued, wrapped>>

\* slot_free, reached when the count drops to 0. JS_DeleteGCRef aborts the
\* process when the slot is not in the list.
SlotFree(i) ==
  IF links[i] = 0
  THEN phase' = "aborted" /\ UNCHANGED <<table, wrapped>>
  ELSE /\ links'    = Unlinked(i)
       /\ val'      = [val      EXCEPT ![i] = Undefined]
       /\ refcount' = [refcount EXCEPT ![i] = 0]
       /\ gen'      = [gen      EXCEPT ![i] = NextGen(@)]
       /\ wrapped'  = IF gen[i] + 1 = GenMod THEN wrapped \cup {i} ELSE wrapped
       /\ nextFree' = ListedBefore(i)
       /\ freeHead' = i
       /\ UNCHANGED <<slotCount, slotCap, phase>>

\* kmpjs_ref_release, by js_kmp_host for a transient argument or by the host.
Release(h) ==
  /\ phase = "open" /\ ~loading
  /\ LET i == SlotGet(h) IN
       /\ i # 0
       /\ IF refcount[i] = 1
          THEN SlotFree(i)
          ELSE /\ refcount' = [refcount EXCEPT ![i] = @ - 1]
               /\ UNCHANGED <<slotCount, slotCap, gen, nextFree, val, links,
                              freeHead, phase, wrapped>>
  /\ UNCHANGED <<loading, issued>>

\* kmpjs_destroy unlinks every live slot, then frees context and slots.
Destroy ==
  /\ phase = "open" /\ ~loading
  /\ IF \E i \in Allocated : refcount[i] > 0 /\ links[i] = 0
     THEN phase' = "aborted" /\ UNCHANGED table
     ELSE /\ phase'     = "destroyed"
          /\ links'     = LiveUnlinked
          /\ slotCount' = 0
          /\ UNCHANGED <<slotCap, refcount, gen, nextFree, val, freeHead>>
  /\ UNCHANGED <<loading, issued, wrapped>>

----------------------------------------------------------------------------

\* kmpjs_create: calloc clears the engine and, later, every slot.
Init ==
  /\ slotCount = 0
  /\ slotCap   = 0
  /\ refcount  = [i \in Slot |-> 0]
  /\ gen       = [i \in Slot |-> 0]
  /\ nextFree  = [i \in Slot |-> 0]
  /\ val       = [i \in Slot |-> Undefined]
  /\ links     = [i \in Slot |-> 0]
  /\ freeHead  = 0
  /\ loading   = FALSE
  /\ phase     = "open"
  /\ issued    = {}
  /\ wrapped   = {}

IssuedHandles == {p[1] : p \in issued}

Next ==
  \/ \E v \in Object : SlotNew(v) \/ LoadNew(v)
  \/ SlotReserve
  \/ LoadRejected
  \/ \E h \in IssuedHandles : Retain(h) \/ Release(h)
  \/ Destroy

Spec == Init /\ [][Next]_vars

----------------------------------------------------------------------------
(* Properties.                                                              *)

\* Type invariant of the slot table.
TypeOK ==
  /\ slotCount \in 0..MaxSlots
  /\ slotCap   \in Nat
  /\ refcount  \in [Slot -> 0..MaxCount]
  /\ gen       \in [Slot -> 0..GenMod-1]
  /\ nextFree  \in [Slot -> 0..MaxSlots]
  /\ val       \in [Slot -> Object \cup {Undefined}]
  /\ links     \in [Slot -> Nat]
  /\ freeHead  \in 0..MaxSlots
  /\ loading   \in BOOLEAN
  /\ phase     \in {"open", "destroyed", "aborted"}
  /\ issued    \subseteq Handle \X Object
  /\ wrapped   \subseteq Slot

\* The GC root list holds each live slot exactly once and no free slot: a slot
\* linked twice ties the intrusive list into a cycle, a live slot left out lets
\* the collector move or reclaim the host's object, and a slot released while
\* out of the list makes JS_DeleteGCRef abort the process.
RootsAreLiveSlots ==
  phase = "open" =>
    \A i \in Slot : links[i] = IF i \in Allocated /\ refcount[i] > 0 THEN 1 ELSE 0

\* No operation ever reaches the abort in JS_DeleteGCRef, and tearing the
\* engine down leaves no slot linked into the freed context.
CleanTeardown ==
  /\ phase # "aborted"
  /\ phase = "destroyed" => \A i \in Slot : links[i] = 0

\* The first n slots of order are the list read from free_head by next_free.
ListReads(n, order) ==
  /\ freeHead = IF n = 0 THEN 0 ELSE order[1]
  /\ \A k \in 1..n : nextFree[order[k]] = IF k = n THEN 0 ELSE order[k+1]

\* The free list starting at free_head visits every allocated slot with count
\* 0 once, and no other: a slot missing from it is never reused (the table
\* grows for ever), a live slot on it would be handed out twice.
FreeListExact ==
  phase = "open" =>
    \E order \in [1..Cardinality(Free) -> Free] :
      /\ ListReads(Cardinality(Free), order)
      /\ \A i \in Free : \E k \in 1..Cardinality(Free) : order[k] = i

\* A handle the host was given for an object resolves to that object or to
\* nothing, whatever was released and reallocated since, until the slot's
\* 32-bit generation comes round ("a stale handle whose slot was reused is
\* rejected instead of touching another object").
HandleNamesItsObject ==
  phase = "open" =>
    \A p \in issued :
      LET i == SlotGet(p[1]) IN i # 0 /\ i \notin wrapped => val[i] = p[2]

\* The slot kmpjs_load_bytecode reserves is still there when JS_LoadBytecode,
\* which cannot be undone, has succeeded: its slot_new cannot fail.
ReservationHolds == loading => freeHead # 0

\* The slots array is never indexed past its capacity.
WithinCapacity == slotCount <= slotCap \/ phase = "destroyed"

\* Once released for good, a handle stays dead: slot_new never issues it again
\* and no later reuse of its slot brings it back, short of a generation wrap.
NoResurrection ==
  [][\A h \in IssuedHandles : ~Live(h) /\ h[2] \notin wrapped' => ~Live(h)']_vars

=============================================================================
