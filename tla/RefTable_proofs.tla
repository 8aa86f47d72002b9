--------------------------- MODULE RefTable_proofs ---------------------------
(***************************************************************************)
(* Proofs about the slot table, for every number of slots, every capacity  *)
(* step, every generation width and every set of objects.                  *)
(***************************************************************************)
EXTENDS RefTableRefs, FiniteSetTheorems, TLAPS

(***************************************************************************)
(* The inductive invariant. The root list and the handles can only be      *)
(* kept right if slot_new never takes a live slot, so the invariant has to *)
(* follow the free list: every free slot's successor is free, no two free  *)
(* slots share a successor, and the head is nobody's successor.            *)
(***************************************************************************)
Untouched ==
  \A i \in Slot : i > slotCount => refcount[i] = 0 /\ links[i] = 0

IsFreeOrNone(i) == i = 0 \/ (i \in Allocated /\ refcount[i] = 0)

FreeListSound ==
  /\ IsFreeOrNone(freeHead)
  /\ \A i \in Free : IsFreeOrNone(nextFree[i])
  /\ \A i, j \in Free : nextFree[i] = nextFree[j] /\ nextFree[i] # 0 => i = j
  /\ freeHead # 0 => \A i \in Free : nextFree[i] # freeHead

IssuedInPast ==
  \A p \in issued :
    /\ p[1][2] \in Allocated
    /\ p[1][2] \notin wrapped =>
         /\ p[1][1] <= gen[p[1][2]]
         /\ refcount[p[1][2]] = 0 => p[1][1] < gen[p[1][2]]
         /\ refcount[p[1][2]] > 0 /\ gen[p[1][2]] = p[1][1] => val[p[1][2]] = p[2]

OpenInv ==
  /\ RootsAreLiveSlots
  /\ Untouched
  /\ FreeListSound
  /\ IssuedInPast
  /\ slotCount <= slotCap

IInv ==
  /\ TypeOK
  /\ CleanTeardown
  /\ phase = "destroyed" => slotCount = 0
  /\ loading => phase = "open" /\ freeHead # 0
  /\ phase = "open" => OpenInv

USE DEF Slot, Handle, Allocated, Free

(* Advancing a generation is uint32_t arithmetic.                           *)
LEMMA NextGenIs ==
  ASSUME NEW g \in 0..GenMod-1
  PROVE  NextGen(g) = IF g + 1 = GenMod THEN 0 ELSE g + 1
BY RefTableConstants DEF NextGen

(* An allocated slot is a slot, of typed contents.                          *)
LEMMA SlotTypes ==
  ASSUME TypeOK, NEW i \in Allocated
  PROVE  i \in Slot /\ refcount[i] \in 0..MaxCount /\ links[i] \in Nat /\ gen[i] \in 0..GenMod-1
BY RefTableConstants DEF TypeOK

LEMMA IssuedType ==
  ASSUME TypeOK, NEW i \in Slot, NEW v \in Object
  PROVE  issued \cup {<<<<gen[i], i>>, v>>} \subseteq Handle \X Object
BY RefTableConstants DEF TypeOK

LEMMA Updated ==
  ASSUME NEW S, NEW T, NEW f \in [S -> T], NEW i \in S, NEW v \in T
  PROVE  [f EXCEPT ![i] = v] \in [S -> T]
OBVIOUS

(* Slot i is taken for an object, or given back.                            *)
LEMMA TypeOccupied ==
  ASSUME TypeOK, NEW i \in Slot, NEW v \in Object,
         refcount' = [refcount EXCEPT ![i] = 1],
         nextFree' = [nextFree EXCEPT ![i] = 0],
         links'    = [links    EXCEPT ![i] = links[i] + 1],
         val'      = [val      EXCEPT ![i] = v],
         issued'   = issued \cup {<<<<gen[i], i>>, v>>},
         UNCHANGED <<gen, phase, wrapped>>,
         slotCount' \in 0..MaxSlots, slotCap' \in Nat, freeHead' \in 0..MaxSlots, loading' \in BOOLEAN
  PROVE  TypeOK'
<1>0. 0 \in 0..MaxSlots /\ 1 \in 0..MaxCount
  BY RefTableConstants
<1>1. refcount' \in [Slot -> 0..MaxCount]
  BY <1>0, Updated DEF TypeOK
<1>a. nextFree' \in [Slot -> 0..MaxSlots]
  BY <1>0, Updated DEF TypeOK
<1>2. links' \in [Slot -> Nat] /\ val' \in [Slot -> Object \cup {Undefined}]
  BY DEF TypeOK
<1>3. issued' \subseteq Handle \X Object
  BY IssuedType
<1>4. QED
  BY <1>1, <1>a, <1>2, <1>3 DEF TypeOK

LEMMA TypeReleased ==
  ASSUME TypeOK, NEW i \in Slot, links[i] = 1,
         links'    = [links    EXCEPT ![i] = links[i] - 1],
         val'      = [val      EXCEPT ![i] = Undefined],
         refcount' = [refcount EXCEPT ![i] = 0],
         NEW g \in 0..GenMod-1, gen' = [gen EXCEPT ![i] = g],
         wrapped' \subseteq wrapped \cup {i},
         nextFree' = [nextFree EXCEPT ![i] = freeHead],
         freeHead' = i,
         UNCHANGED <<slotCount, slotCap, phase, loading, issued>>
  PROVE  TypeOK'
<1>0. 0 \in 0..MaxCount
  BY RefTableConstants
<1>1. refcount' \in [Slot -> 0..MaxCount]
  BY <1>0, Updated DEF TypeOK
<1>a. nextFree' \in [Slot -> 0..MaxSlots]
  BY DEF TypeOK
<1>b. freeHead' \in 0..MaxSlots
  BY RefTableConstants
<1>2. links' \in [Slot -> Nat] /\ val' \in [Slot -> Object \cup {Undefined}]
  BY DEF TypeOK
<1>3. gen' \in [Slot -> 0..GenMod-1] /\ wrapped' \subseteq Slot
  BY DEF TypeOK
<1>4. QED
  BY <1>1, <1>a, <1>b, <1>2, <1>3 DEF TypeOK

LEMMA CapGrows ==
  ASSUME TypeOK, slotCount <= slotCap
  PROVE  /\ CapAfterGrow \in Nat
         /\ slotCount < CapAfterGrow
BY RefTableConstants DEF CapAfterGrow, Doubled, TypeOK

(* What the invariant says of an engine that is open.                       *)
LEMMA WhenOpen ==
  ASSUME IInv, phase = "open"
  PROVE  /\ TypeOK /\ RootsAreLiveSlots /\ Untouched /\ FreeListSound /\ IssuedInPast
         /\ slotCount <= slotCap
         /\ \A i \in Slot : links[i] = IF i \in Allocated /\ refcount[i] > 0 THEN 1 ELSE 0
BY DEF IInv, OpenInv, RootsAreLiveSlots

(* How the next state of an open engine is shown to satisfy it.             *)
LEMMA StaysOpen ==
  ASSUME TypeOK', RootsAreLiveSlots', Untouched', FreeListSound', IssuedInPast',
         (slotCount <= slotCap)', phase' = "open", loading' => freeHead' # 0
  PROVE  IInv'
BY DEF IInv, OpenInv, CleanTeardown

(* A step that leaves the table and the phase alone.                        *)
LEMMA TableUnchanged ==
  ASSUME IInv, UNCHANGED <<table, phase, issued, wrapped>>, loading' \in BOOLEAN,
         loading' => phase = "open" /\ freeHead # 0
  PROVE  IInv'
<1> USE DEF table
<1>1. TypeOK'
  BY DEF IInv, TypeOK
<1>2. CleanTeardown' /\ (phase' = "destroyed" => slotCount' = 0)
  BY DEF IInv, CleanTeardown
<1>3. ASSUME phase = "open" PROVE OpenInv'
  <2>1. RootsAreLiveSlots'
    BY <1>3, WhenOpen DEF RootsAreLiveSlots
  <2>2. Untouched'
    BY <1>3, WhenOpen DEF Untouched
  <2>3. FreeListSound'
    BY <1>3, WhenOpen DEF FreeListSound, IsFreeOrNone
  <2>4. IssuedInPast'
    BY <1>3, WhenOpen DEF IssuedInPast
  <2>5. QED
    BY <1>3, <2>1, <2>2, <2>3, <2>4, WhenOpen DEF OpenInv
<1>4. QED
  BY <1>1, <1>2, <1>3 DEF IInv

LEMMA InvInit == Init => IInv
<1> SUFFICES ASSUME Init PROVE IInv
  OBVIOUS
<1> USE RefTableConstants DEF Init
<1>1. TypeOK
  <2>1. slotCount \in 0..MaxSlots /\ freeHead \in 0..MaxSlots /\ slotCap \in Nat
    OBVIOUS
  <2>2. refcount \in [Slot -> 0..MaxCount] /\ gen \in [Slot -> 0..GenMod-1]
    OBVIOUS
  <2>3. nextFree \in [Slot -> 0..MaxSlots] /\ links \in [Slot -> Nat]
    OBVIOUS
  <2>4. QED
    BY <2>1, <2>2, <2>3 DEF TypeOK
<1>2. RootsAreLiveSlots /\ Untouched
  BY DEF RootsAreLiveSlots, Untouched
<1>3. FreeListSound
  BY DEF FreeListSound, IsFreeOrNone
<1>4. IssuedInPast
  BY DEF IssuedInPast
<1>5. QED
  BY <1>1, <1>2, <1>3, <1>4 DEF IInv, OpenInv, CleanTeardown

(* slot_new served from the free list: the head is a dead slot, and popping *)
(* it leaves a list no other slot of which leads back to it.                *)
LEMMA InvFreeList ==
  ASSUME IInv, phase = "open", NEW v \in Object, NewFromFreeList(v), loading' = FALSE
  PROVE  IInv'
<1> DEFINE i == freeHead
<1>0. FreeListSound /\ TypeOK
  BY WhenOpen
<1>a. i \in Allocated /\ refcount[i] = 0
  BY <1>0 DEF NewFromFreeList, FreeListSound, IsFreeOrNone
<1>1. /\ i \in Slot /\ i \in Allocated /\ refcount[i] = 0
      /\ TypeOK
  BY <1>0, <1>a, SlotTypes
<1>2. /\ freeHead' = nextFree[i]
      /\ refcount' = [refcount EXCEPT ![i] = 1]
      /\ nextFree' = [nextFree EXCEPT ![i] = 0]
      /\ links'    = [links    EXCEPT ![i] = links[i] + 1]
      /\ val'      = [val      EXCEPT ![i] = v]
      /\ issued'   = issued \cup {<<<<gen[i], i>>, v>>}
      /\ UNCHANGED <<slotCount, slotCap, gen, phase, wrapped>>
  BY DEF NewFromFreeList, Occupy
<1> HIDE DEF i
<1>3. TypeOK'
  <2>1. slotCount' \in 0..MaxSlots /\ slotCap' \in Nat /\ freeHead' \in 0..MaxSlots
    BY <1>1, <1>2 DEF TypeOK
  <2>2. QED
    BY <1>1, <1>2, <2>1, TypeOccupied
<1>4. RootsAreLiveSlots'
  BY <1>1, <1>2, WhenOpen DEF TypeOK, RootsAreLiveSlots
<1>5. Untouched'
  BY <1>1, <1>2, WhenOpen DEF TypeOK, Untouched
<1>6. FreeListSound'
  BY <1>1, <1>2, WhenOpen DEF TypeOK, FreeListSound, IsFreeOrNone, i
<1>7. IssuedInPast'
  BY <1>1, <1>2, WhenOpen DEF TypeOK, IssuedInPast
<1>8. QED
  BY <1>2, <1>3, <1>4, <1>5, <1>6, <1>7, WhenOpen, StaysOpen

(* slot_new that grows the table takes a slot nothing refers to yet.        *)
LEMMA InvGrow ==
  ASSUME IInv, phase = "open", NEW v \in Object, NewByGrowing(v), loading' = FALSE
  PROVE  IInv'
<1> DEFINE i == slotCount + 1
<1>0. CapAfterGrow \in Nat /\ slotCount < CapAfterGrow
  BY CapGrows, WhenOpen
<1>a. TypeOK /\ Untouched
  BY WhenOpen
<1>b. slotCount \in 0..MaxSlots /\ slotCount < MaxSlots /\ freeHead = 0
  BY <1>a DEF NewByGrowing, TypeOK
<1>1. /\ i \in Slot /\ refcount[i] = 0 /\ links[i] = 0 /\ freeHead = 0
      /\ TypeOK
  BY <1>a, <1>b, RefTableConstants DEF Untouched
<1>2. /\ freeHead' = 0
      /\ slotCount' = i
      /\ slotCap' = CapAfterGrow
      /\ refcount' = [refcount EXCEPT ![i] = 1]
      /\ nextFree' = [nextFree EXCEPT ![i] = 0]
      /\ links'    = [links    EXCEPT ![i] = links[i] + 1]
      /\ val'      = [val      EXCEPT ![i] = v]
      /\ issued'   = issued \cup {<<<<gen[i], i>>, v>>}
      /\ UNCHANGED <<gen, phase, wrapped>>
  BY <1>1 DEF NewByGrowing, Occupy
<1>3. TypeOK'
  <2>1. slotCount' \in 0..MaxSlots /\ slotCap' \in Nat /\ freeHead' \in 0..MaxSlots
    BY <1>0, <1>1, <1>2, RefTableConstants DEF TypeOK
  <2>2. QED
    BY <1>1, <1>2, <2>1, TypeOccupied
<1>4. RootsAreLiveSlots'
  BY <1>1, <1>2, WhenOpen DEF TypeOK, RootsAreLiveSlots
<1>5. Untouched'
  BY <1>1, <1>2, WhenOpen DEF TypeOK, Untouched
<1>6. FreeListSound'
  BY <1>1, <1>2, WhenOpen DEF TypeOK, FreeListSound, IsFreeOrNone
<1>7. IssuedInPast'
  BY <1>1, <1>2, WhenOpen DEF TypeOK, IssuedInPast
<1>8. slotCount' <= slotCap'
  BY <1>0, <1>2, <1>1 DEF TypeOK
<1>9. QED
  BY <1>2, <1>3, <1>4, <1>5, <1>6, <1>7, <1>8, StaysOpen

LEMMA InvFails ==
  ASSUME IInv, phase = "open", AllocationFails, loading' = FALSE
  PROVE  IInv'
<1>0. slotCap' \in Nat /\ slotCount <= slotCap'
  BY CapGrows, WhenOpen DEF AllocationFails, TypeOK
<1>1. UNCHANGED <<slotCount, refcount, gen, nextFree, val, links, freeHead,
                  phase, issued, wrapped>>
  BY DEF AllocationFails
<1>2. TypeOK'
  BY <1>0, <1>1, WhenOpen DEF TypeOK
<1>3. RootsAreLiveSlots' /\ Untouched'
  BY <1>1, WhenOpen DEF RootsAreLiveSlots, Untouched
<1>4. FreeListSound'
  BY <1>1, WhenOpen DEF FreeListSound, IsFreeOrNone
<1>5. IssuedInPast'
  BY <1>1, WhenOpen DEF IssuedInPast
<1>6. QED
  BY <1>0, <1>1, <1>2, <1>3, <1>4, <1>5, StaysOpen

LEMMA InvReserve ==
  ASSUME IInv, SlotReserve
  PROVE  IInv'
<1>0. phase = "open" /\ loading = FALSE
  BY DEF SlotReserve, IInv, TypeOK
<1>1. CASE freeHead # 0 /\ loading' = TRUE /\ UNCHANGED <<table, phase, issued, wrapped>>
  BY <1>0, <1>1, TableUnchanged
<1>2. CASE AllocationFails /\ UNCHANGED loading
  BY <1>0, <1>2, InvFails
<1>3. CASE /\ freeHead = 0
           /\ slotCount < MaxSlots
           /\ slotCap'   = CapAfterGrow
           /\ slotCount' = slotCount + 1
           /\ nextFree'  = [nextFree EXCEPT ![slotCount + 1] = 0]
           /\ freeHead'  = ReservedHead
           /\ loading'   = TRUE
           /\ UNCHANGED <<refcount, gen, val, links, phase, issued, wrapped>>
  <2> USE <1>0, <1>3 DEF ReservedHead
  <2>1. CapAfterGrow \in Nat /\ slotCount < CapAfterGrow
    BY CapGrows, WhenOpen
  <2>2. slotCount \in Nat /\ slotCount + 1 \in Slot /\ refcount[slotCount + 1] = 0
    BY WhenOpen, RefTableConstants DEF TypeOK, Untouched
  <2>3. TypeOK'
    BY <2>1, <2>2, WhenOpen DEF TypeOK
  <2>4. RootsAreLiveSlots' /\ Untouched'
    BY <2>2, WhenOpen DEF TypeOK, Untouched, RootsAreLiveSlots
  <2>5. FreeListSound'
    BY <2>2, WhenOpen DEF TypeOK, FreeListSound, IsFreeOrNone
  <2>6. IssuedInPast'
    BY <2>2, WhenOpen DEF TypeOK, IssuedInPast
  <2>7. (slotCount <= slotCap)' /\ freeHead' # 0
    BY <2>1, <2>2
  <2>8. QED
    BY <2>3, <2>4, <2>5, <2>6, <2>7, StaysOpen
<1>4. QED
  BY <1>1, <1>2, <1>3 DEF SlotReserve

(* A count that stays positive leaves lists and handles as they are.        *)
LEMMA InvCount ==
  ASSUME IInv, phase = "open", loading = FALSE, NEW i \in Allocated, refcount[i] > 0,
         NEW n \in 1..MaxCount, refcount' = [refcount EXCEPT ![i] = n],
         UNCHANGED <<slotCount, slotCap, gen, nextFree, val, links, freeHead,
                     loading, phase, issued, wrapped>>
  PROVE  IInv'
<1>0. TypeOK /\ i \in Slot
  BY WhenOpen, SlotTypes
<1>1. TypeOK'
  <2>1. refcount' \in [Slot -> 0..MaxCount]
    BY <1>0, RefTableConstants DEF TypeOK
  <2>2. QED
    BY <1>0, <2>1 DEF TypeOK
<1>2. RootsAreLiveSlots' /\ Untouched'
  BY <1>0, WhenOpen DEF TypeOK, RootsAreLiveSlots, Untouched
<1>3. FreeListSound'
  BY <1>0, WhenOpen DEF TypeOK, FreeListSound, IsFreeOrNone
<1>4. IssuedInPast'
  BY <1>0, WhenOpen DEF TypeOK, IssuedInPast
<1>5. QED
  BY <1>1, <1>2, <1>3, <1>4, WhenOpen, StaysOpen

LEMMA InvRetain ==
  ASSUME IInv, NEW h \in IssuedHandles, Retain(h)
  PROVE  IInv'
<1>1. PICK i \in Allocated : i = SlotGet(h) /\ refcount[i] > 0
  BY DEF Retain, SlotGet, IssuedHandles, IInv, TypeOK
<1>2. /\ refcount[i] + 1 \in 1..MaxCount
      /\ refcount' = [refcount EXCEPT ![i] = refcount[i] + 1]
      /\ phase = "open" /\ loading = FALSE
      /\ UNCHANGED <<slotCount, slotCap, gen, nextFree, val, links, freeHead,
                     loading, phase, issued, wrapped>>
  <2>1. TypeOK /\ refcount[i] \in 0..MaxCount
    BY <1>1, SlotTypes DEF IInv
  <2>2. refcount[i] < MaxCount /\ phase = "open" /\ ~loading /\ loading \in BOOLEAN
    BY <1>1, <2>1 DEF Retain, TypeOK
  <2>3. QED
    BY <1>1, <2>1, <2>2, RefTableConstants DEF Retain
<1>3. QED
  BY <1>1, <1>2, InvCount

(* slot_free: the slot leaves the root list, joins the free list, and every *)
(* handle issued for it so far is of an earlier generation.                 *)
LEMMA InvFree ==
  ASSUME IInv, phase = "open", loading = FALSE, loading' = loading, issued' = issued,
         NEW i \in Allocated, refcount[i] = 1, SlotFree(i)
  PROVE  IInv'
<1>0. links[i] = 1 /\ i \in Slot /\ TypeOK
  BY WhenOpen, SlotTypes
<1>1. /\ links'    = [links    EXCEPT ![i] = links[i] - 1]
      /\ val'      = [val      EXCEPT ![i] = Undefined]
      /\ refcount' = [refcount EXCEPT ![i] = 0]
      /\ gen'      = [gen      EXCEPT ![i] = NextGen(gen[i])]
      /\ wrapped'  = IF gen[i] + 1 = GenMod THEN wrapped \cup {i} ELSE wrapped
      /\ nextFree' = [nextFree EXCEPT ![i] = freeHead]
      /\ freeHead' = i
      /\ UNCHANGED <<slotCount, slotCap, phase>>
  BY <1>0 DEF SlotFree, Unlinked, ListedBefore
<1>2. /\ NextGen(gen[i]) = IF gen[i] + 1 = GenMod THEN 0 ELSE gen[i] + 1
      /\ NextGen(gen[i]) \in 0..GenMod-1
      /\ gen[i] \in 0..GenMod-1
  BY NextGenIs, SlotTypes, <1>0, RefTableConstants
<1>3. TypeOK'
  BY <1>0, <1>1, <1>2, TypeReleased
<1>4. RootsAreLiveSlots' /\ Untouched'
  BY <1>0, <1>1, WhenOpen DEF TypeOK, RootsAreLiveSlots, Untouched
<1>5. FreeListSound'
  BY <1>0, <1>1, WhenOpen DEF TypeOK, FreeListSound, IsFreeOrNone
<1>6. IssuedInPast'
  BY <1>0, <1>1, <1>2, WhenOpen DEF TypeOK, IssuedInPast
<1>7. QED
  BY <1>0, <1>1, <1>3, <1>4, <1>5, <1>6, WhenOpen, StaysOpen

LEMMA InvRelease ==
  ASSUME IInv, NEW h \in IssuedHandles, Release(h)
  PROVE  IInv'
<1>1. PICK i \in Allocated : i = SlotGet(h) /\ refcount[i] > 0
  BY DEF Release, SlotGet, IssuedHandles, IInv, TypeOK
<1>2. /\ phase = "open" /\ loading = FALSE /\ UNCHANGED <<loading, issued>>
      /\ i \in Slot /\ refcount[i] \in 1..MaxCount
  <2>1. TypeOK /\ i \in Slot /\ refcount[i] \in 0..MaxCount
    BY <1>1, SlotTypes DEF IInv
  <2>2. phase = "open" /\ ~loading /\ loading \in BOOLEAN /\ UNCHANGED <<loading, issued>>
    BY <2>1 DEF Release, TypeOK
  <2>3. QED
    BY <1>1, <2>1, <2>2, RefTableConstants
<1>3. CASE refcount[i] = 1
  BY <1>1, <1>2, <1>3, InvFree DEF Release
<1>4. CASE refcount[i] # 1
  <2>1. /\ refcount' = [refcount EXCEPT ![i] = refcount[i] - 1]
        /\ UNCHANGED <<slotCount, slotCap, gen, nextFree, val, links, freeHead,
                       loading, phase, issued, wrapped>>
    BY <1>1, <1>4 DEF Release
  <2>2. refcount[i] - 1 \in 1..MaxCount
    BY <1>2, <1>4, RefTableConstants
  <2>3. QED
    BY <1>1, <1>2, <2>1, <2>2, InvCount
<1>5. QED
  BY <1>3, <1>4

LEMMA InvDestroy ==
  ASSUME IInv, Destroy
  PROVE  IInv'
<1>0. phase = "open" /\ loading = FALSE /\ UNCHANGED <<loading, issued, wrapped>> /\ TypeOK
  BY DEF Destroy, IInv, TypeOK
<1>1. \A i \in Slot : links[i] = IF i \in Allocated /\ refcount[i] > 0 THEN 1 ELSE 0
  BY <1>0, WhenOpen
<1>2. \A i \in Allocated : i \in Slot
  BY <1>0, RefTableConstants DEF TypeOK
<1>3. /\ phase' = "destroyed" /\ links' = LiveUnlinked /\ slotCount' = 0
      /\ UNCHANGED <<slotCap, refcount, gen, nextFree, val, freeHead>>
  BY <1>1, <1>2 DEF Destroy
<1>4. \A i \in Slot : LiveUnlinked[i] = 0
  BY <1>1 DEF LiveUnlinked
<1>5. LiveUnlinked \in [Slot -> Nat]
  BY <1>4 DEF LiveUnlinked
<1>6. TypeOK'
  <2>1. slotCount' \in 0..MaxSlots /\ links' \in [Slot -> Nat]
    BY <1>3, <1>5, RefTableConstants
  <2>2. QED
    BY <1>0, <1>3, <2>1 DEF TypeOK
<1>7. QED
  BY <1>0, <1>3, <1>4, <1>6 DEF IInv, CleanTeardown

LEMMA InvNext == IInv /\ [Next]_vars => IInv'
<1> SUFFICES ASSUME IInv, [Next]_vars PROVE IInv'
  OBVIOUS
<1>0. loading \in BOOLEAN /\ (loading => phase = "open" /\ freeHead # 0)
  BY DEF IInv, TypeOK
<1>1. ASSUME NEW v \in Object, SlotNew(v) PROVE IInv'
  BY <1>0, <1>1, InvFreeList, InvGrow, InvFails DEF SlotNew, TakeSlot
<1>2. ASSUME NEW v \in Object, LoadNew(v) PROVE IInv'
  BY <1>0, <1>2, InvFreeList, InvGrow, InvFails DEF LoadNew, TakeSlot
<1>3. CASE SlotReserve
  BY <1>3, InvReserve
<1>4. CASE LoadRejected
  BY <1>4, TableUnchanged DEF LoadRejected
<1>5. ASSUME NEW h \in IssuedHandles, Retain(h) PROVE IInv'
  BY <1>5, InvRetain
<1>6. ASSUME NEW h \in IssuedHandles, Release(h) PROVE IInv'
  BY <1>6, InvRelease
<1>7. CASE Destroy
  BY <1>7, InvDestroy
<1>8. CASE UNCHANGED vars
  BY <1>0, <1>8, TableUnchanged DEF vars
<1>9. QED
  BY <1>1, <1>2, <1>3, <1>4, <1>5, <1>6, <1>7, <1>8 DEF Next

LEMMA Invariant == Spec => []IInv
BY InvInit, InvNext, PTL DEF Spec

----------------------------------------------------------------------------

(* The slot table is type correct.                                          *)
THEOREM Typing == Spec => []TypeOK
<1>1. IInv => TypeOK
  BY DEF IInv
<1>2. QED
  BY <1>1, Invariant, PTL

(* Every live slot is linked exactly once into the engine's GC root list,   *)
(* and no other slot is.                                                    *)
THEOREM RootList == Spec => []RootsAreLiveSlots
<1>1. IInv => RootsAreLiveSlots
  BY DEF IInv, OpenInv, RootsAreLiveSlots
<1>2. QED
  BY <1>1, Invariant, PTL

(* No operation or teardown runs into the abort of JS_DeleteGCRef, and none *)
(* leaves a slot linked into a freed context.                               *)
THEOREM Teardown == Spec => []CleanTeardown
<1>1. IInv => CleanTeardown
  BY DEF IInv
<1>2. QED
  BY <1>1, Invariant, PTL

(* A handle resolves to the object it was issued for or to nothing, until   *)
(* the generation of its slot wraps.                                        *)
THEOREM HandlesAreSafe == Spec => []HandleNamesItsObject
<1>1. IInv => HandleNamesItsObject
  BY DEF IInv, OpenInv, HandleNamesItsObject, IssuedInPast, SlotGet, TypeOK
<1>2. QED
  BY <1>1, Invariant, PTL

(* A slot that is live after a step had the same generation before it, and  *)
(* wraps are remembered.                                                    *)
LEMMA GenOfLive ==
  ASSUME IInv, phase = "open", Next, NEW i \in Slot, i <= slotCount', refcount'[i] > 0
  PROVE  gen'[i] = gen[i] /\ wrapped \subseteq wrapped'
<1>0. TypeOK
  BY WhenOpen
<1>1. ASSUME NEW v \in Object, SlotNew(v) \/ LoadNew(v)
      PROVE  UNCHANGED <<gen, wrapped>>
  BY <1>1 DEF SlotNew, LoadNew, TakeSlot, NewFromFreeList, NewByGrowing, AllocationFails, Occupy
<1>2. CASE SlotReserve \/ LoadRejected
  <2>1. UNCHANGED <<gen, wrapped>>
    BY <1>2 DEF SlotReserve, LoadRejected, AllocationFails, table
  <2>2. QED
    BY <2>1
<1>3. ASSUME NEW h \in IssuedHandles, Retain(h)
      PROVE  UNCHANGED <<gen, wrapped>>
  BY <1>3 DEF Retain
<1>4. ASSUME NEW h \in IssuedHandles, Release(h)
      PROVE  gen'[i] = gen[i] /\ wrapped \subseteq wrapped'
  <2>1. CASE UNCHANGED <<gen, wrapped>>
    BY <2>1
  <2>2. CASE SlotFree(SlotGet(h))
    <3>1. UNCHANGED <<gen, wrapped>> \/ i # SlotGet(h)
      <4> SUFFICES ASSUME i = SlotGet(h) PROVE UNCHANGED <<gen, wrapped>>
        OBVIOUS
      <4>1. CASE links[i] = 0
        BY <2>2, <4>1 DEF SlotFree, table
      <4>2. CASE links[i] # 0
        <5>1. refcount' = [refcount EXCEPT ![SlotGet(h)] = 0]
          BY <2>2, <4>2 DEF SlotFree
        <5>2. refcount'[i] = 0
          BY <1>0, <5>1 DEF TypeOK
        <5>3. QED
          BY <5>2
      <4>3. QED
        BY <4>1, <4>2
    <3>2. CASE i # SlotGet(h)
      BY <1>0, <2>2, <3>2 DEF SlotFree, table, TypeOK
    <3>3. QED
      BY <3>1, <3>2
  <2>3. QED
    BY <1>4, <2>1, <2>2 DEF Release
<1>5. CASE Destroy
  BY <1>5 DEF Destroy, table
<1>6. QED
  BY <1>1, <1>2, <1>3, <1>4, <1>5 DEF Next

(* A dead handle stays dead: retain and release act on live slots only, and *)
(* slot_new tags a slot with a generation it never had before.              *)
THEOREM DeadStaysDead == Spec => NoResurrection
<1>1. ASSUME IInv, [Next]_vars, NEW h \in IssuedHandles, ~Live(h), h[2] \notin wrapped'
      PROVE  ~Live(h)'
  <2>1. PICK p \in issued : p[1] = h
    BY DEF IssuedHandles
  <2>2. CASE UNCHANGED vars \/ phase # "open"
    <3>1. UNCHANGED vars
      BY <1>1, <2>2 DEF IInv, TypeOK, Next, SlotNew, LoadNew, SlotReserve, LoadRejected, Retain, Release, Destroy
    <3>2. QED
      BY <1>1, <3>1 DEF vars, table, Live, SlotGet
  <2>3. CASE Next /\ phase = "open"
    <3>1. SUFFICES ASSUME h[2] <= slotCount', refcount'[h[2]] > 0 PROVE gen'[h[2]] # h[1]
      BY DEF Live, SlotGet
    <3>2. TypeOK /\ IssuedInPast /\ h[2] \in Allocated
      BY <1>1, <2>1, <2>3, WhenOpen DEF IssuedInPast
    <3>3. h[2] \in Slot /\ gen[h[2]] \in Int /\ refcount[h[2]] \in Nat /\ h[1] \in Int
      <4>1. h \in Handle
        BY <2>1, <3>2 DEF TypeOK
      <4>2. h[2] \in Slot /\ gen[h[2]] \in 0..GenMod-1 /\ refcount[h[2]] \in 0..MaxCount
        BY <3>2, SlotTypes
      <4>3. QED
        BY <4>1, <4>2, RefTableConstants
    <3>4. gen'[h[2]] = gen[h[2]] /\ h[2] \notin wrapped
      BY <1>1, <2>3, <3>1, <3>3, GenOfLive
    <3>5. CASE refcount[h[2]] = 0
      BY <2>1, <3>2, <3>3, <3>4, <3>5 DEF IssuedInPast
    <3>6. CASE refcount[h[2]] > 0
      BY <1>1, <3>2, <3>3, <3>4, <3>6 DEF Live, SlotGet
    <3>7. QED
      BY <3>3, <3>5, <3>6
  <2>4. QED
    BY <1>1, <2>2, <2>3
<1>2. IInv /\ [Next]_vars => [\A h \in IssuedHandles : ~Live(h) /\ h[2] \notin wrapped' => ~Live(h)']_vars
  BY <1>1
<1>3. QED
  BY <1>2, Invariant, PTL DEF Spec, NoResurrection

(* The array is never overrun, and the slot reserved before JS_LoadBytecode *)
(* is still there after it.                                                 *)
THEOREM Reservation == Spec => [](ReservationHolds /\ WithinCapacity)
<1>1. IInv => ReservationHolds /\ WithinCapacity
  BY DEF IInv, OpenInv, ReservationHolds, WithinCapacity, TypeOK, CleanTeardown
<1>2. QED
  BY <1>1, Invariant, PTL

----------------------------------------------------------------------------
(***************************************************************************)
(* The free list holds every free slot once. Beyond the local shape that   *)
(* IInv keeps, this needs an order of the free slots in which the list     *)
(* runs: taking the head drops its first element, releasing a slot puts    *)
(* one before it, and reserving starts a list that was empty.              *)
(***************************************************************************)
HIDE DEF Slot, Handle, Allocated, Free

\* The free slots in list order.
IsFreeOrder(order) ==
  /\ order \in [1..Cardinality(Free) -> Free]
  /\ ListReads(Cardinality(Free), order)
  /\ \A i \in Free : \E k \in 1..Cardinality(Free) : order[k] = i

LEMMA FreeIsFinite ==
  ASSUME TypeOK
  PROVE  /\ IsFiniteSet(Free) /\ Cardinality(Free) \in Nat
         /\ Free \subseteq Slot /\ 0 \notin Free
<1>1. slotCount \in Int /\ slotCount <= MaxSlots
  BY RefTableConstants DEF TypeOK
<1>2. IsFiniteSet(1..slotCount)
  BY <1>1, FS_Interval
<1>3. Free \subseteq 1..slotCount
  BY DEF Free, Allocated
<1>4. Free \subseteq Slot /\ 0 \notin Free
  BY <1>1, <1>3, RefTableConstants DEF Slot
<1> QED
  BY <1>2, <1>3, <1>4, FS_Subset, FS_CardinalityType

\* What shows the list of the next state to be right.
LEMMA ListShown ==
  ASSUME NEW order, order \in [1..Cardinality(Free') -> Free'],
         freeHead' = IF Cardinality(Free') = 0 THEN 0 ELSE order[1],
         \A k \in 1..Cardinality(Free') :
           nextFree'[order[k]] = IF k = Cardinality(Free') THEN 0 ELSE order[k+1],
         \A i \in Free' : \E k \in 1..Cardinality(Free') : order[k] = i
  PROVE  FreeListExact'
<1>1. ListReads(Cardinality(Free), order)'
  BY DEF ListReads
<1> QED
  BY <1>1 DEF FreeListExact

\* The list is what the same free slots in the same order make it.
LEMMA ListKept ==
  ASSUME FreeListExact, phase = "open",
         Free' = Free, freeHead' = freeHead, \A i \in Free : nextFree'[i] = nextFree[i]
  PROVE  FreeListExact'
<1>1. PICK order : IsFreeOrder(order)
  BY DEF FreeListExact, IsFreeOrder
<1>2. \A k \in 1..Cardinality(Free) : nextFree'[order[k]] = nextFree[order[k]]
  BY <1>1 DEF IsFreeOrder
<1>3. Cardinality(Free') = Cardinality(Free)
  OBVIOUS
<1>4. /\ order \in [1..Cardinality(Free) -> Free']
      /\ freeHead' = IF Cardinality(Free) = 0 THEN 0 ELSE order[1]
      /\ \A k \in 1..Cardinality(Free) :
           nextFree'[order[k]] = IF k = Cardinality(Free) THEN 0 ELSE order[k+1]
      /\ \A i \in Free' : \E k \in 1..Cardinality(Free) : order[k] = i
  BY <1>1, <1>2 DEF IsFreeOrder, ListReads
<1> QED
  BY <1>3, <1>4, ListShown

LEMMA ListPopped ==
  ASSUME IInv, phase = "open", FreeListExact, freeHead # 0,
         freeHead' = nextFree[freeHead], slotCount' = slotCount,
         refcount' = [refcount EXCEPT ![freeHead] = 1],
         nextFree' = [nextFree EXCEPT ![freeHead] = 0]
  PROVE  FreeListExact'
<1> DEFINE i == freeHead
<1>0. TypeOK /\ FreeListSound
  BY WhenOpen
<1>1. PICK order : IsFreeOrder(order)
  BY DEF FreeListExact, IsFreeOrder
<1>n. PICK n : n = Cardinality(Free)
  OBVIOUS
<1>2. /\ n \in Nat /\ Free \subseteq Slot /\ IsFiniteSet(Free)
      /\ refcount \in [Slot -> 0..MaxCount] /\ nextFree \in [Slot -> 0..MaxSlots]
  BY <1>0, <1>n, FreeIsFinite DEF TypeOK
<1>3. /\ order \in [1..n -> Free]
      /\ \A k \in 1..n : nextFree[order[k]] = IF k = n THEN 0 ELSE order[k+1]
      /\ \A j \in Free : \E k \in 1..n : order[k] = j
  BY <1>1, <1>n DEF IsFreeOrder, ListReads
<1>4. n # 0 /\ i = order[1] /\ i \in Free /\ i \in Slot
  <2>1. n # 0 /\ i = order[1]
    BY <1>1, <1>n DEF IsFreeOrder, ListReads
  <2> QED
    BY <2>1, <1>2, <1>3
<1>5. Free' = Free \ {i}
  BY <1>2, <1>4 DEF Free, Allocated
<1>6. Cardinality(Free') = n - 1
  BY <1>2, <1>4, <1>5, <1>n, FS_RemoveElement
<1>7. \A k \in 1..(n-1) : k + 1 \in 1..n /\ order[k+1] \in Free'
  <2> SUFFICES ASSUME NEW k \in 1..(n-1) PROVE k + 1 \in 1..n /\ order[k+1] \in Free'
    OBVIOUS
  <2>1. k \in 1..n /\ k # n /\ k + 1 \in 1..n
    BY <1>2
  <2>2. nextFree[order[k]] = order[k+1] /\ order[k] \in Free /\ order[k+1] \in Free
    BY <1>3, <2>1
  <2>3. nextFree[order[k]] # i
    BY <1>0, <2>2 DEF FreeListSound
  <2> QED
    BY <1>5, <2>1, <2>2, <2>3
<1> DEFINE rest == [k \in 1..(n-1) |-> order[k+1]]
<1>8. rest \in [1..(n-1) -> Free']
  BY <1>7
<1>9. freeHead' = IF n - 1 = 0 THEN 0 ELSE rest[1]
  <2>1. 1 \in 1..n /\ (n - 1 # 0 => 1 \in 1..(n-1))
    BY <1>2, <1>4
  <2> QED
    BY <1>2, <1>3, <1>4, <2>1
<1>10. \A k \in 1..(n-1) : nextFree'[rest[k]] = IF k = n - 1 THEN 0 ELSE rest[k+1]
  <2> SUFFICES ASSUME NEW k \in 1..(n-1)
               PROVE  nextFree'[rest[k]] = IF k = n - 1 THEN 0 ELSE rest[k+1]
    OBVIOUS
  <2>1. rest[k] = order[k+1] /\ rest[k] # i /\ rest[k] \in Slot
    BY <1>2, <1>5, <1>7
  <2>2. nextFree'[rest[k]] = nextFree[order[k+1]]
    BY <1>2, <2>1
  <2>3. k + 1 \in 1..n /\ (k # n - 1 => k + 1 \in 1..(n-1))
    BY <1>2
  <2> QED
    BY <1>2, <1>3, <2>2, <2>3
<1>11. \A j \in Free' : \E k \in 1..(n-1) : rest[k] = j
  <2> SUFFICES ASSUME NEW j \in Free' PROVE \E k \in 1..(n-1) : rest[k] = j
    OBVIOUS
  <2>1. PICK k \in 1..n : order[k] = j
    BY <1>3, <1>5
  <2>2. k # 1
    BY <1>4, <1>5, <2>1
  <2>3. k - 1 \in 1..(n-1) /\ rest[k-1] = j
    BY <1>2, <2>1, <2>2
  <2> QED
    BY <2>3
<1> HIDE DEF rest
<1>12. /\ rest \in [1..Cardinality(Free') -> Free']
       /\ freeHead' = IF Cardinality(Free') = 0 THEN 0 ELSE rest[1]
       /\ \A k \in 1..Cardinality(Free') :
            nextFree'[rest[k]] = IF k = Cardinality(Free') THEN 0 ELSE rest[k+1]
       /\ \A j \in Free' : \E k \in 1..Cardinality(Free') : rest[k] = j
  BY <1>6, <1>8, <1>9, <1>10, <1>11
<1> QED
  BY <1>12, ListShown

\* slot_free and slot_reserve put slot i before the list.
LEMMA ListPushed ==
  ASSUME TypeOK, FreeListExact, phase = "open", NEW i \in Slot,
         i \notin Free, Free' = Free \cup {i}, freeHead' = i,
         nextFree' = [nextFree EXCEPT ![i] = freeHead]
  PROVE  FreeListExact'
<1>1. PICK order : IsFreeOrder(order)
  BY DEF FreeListExact, IsFreeOrder
<1>n. PICK n : n = Cardinality(Free)
  OBVIOUS
<1>2. /\ n \in Nat /\ Free \subseteq Slot /\ IsFiniteSet(Free)
      /\ nextFree \in [Slot -> 0..MaxSlots]
  BY <1>n, FreeIsFinite DEF TypeOK
<1>3. /\ order \in [1..n -> Free]
      /\ freeHead = IF n = 0 THEN 0 ELSE order[1]
      /\ \A k \in 1..n : nextFree[order[k]] = IF k = n THEN 0 ELSE order[k+1]
      /\ \A j \in Free : \E k \in 1..n : order[k] = j
  BY <1>1, <1>n DEF IsFreeOrder, ListReads
<1>4. Cardinality(Free') = n + 1
  BY <1>2, <1>n, FS_AddElement
<1> DEFINE longer == [k \in 1..(n+1) |-> IF k = 1 THEN i ELSE order[k-1]]
<1>5. \A k \in 1..(n+1) : k # 1 => k - 1 \in 1..n /\ order[k-1] \in Free
  BY <1>2, <1>3
<1>6. longer \in [1..(n+1) -> Free']
  BY <1>5
<1>7. freeHead' = IF n + 1 = 0 THEN 0 ELSE longer[1]
  BY <1>2
<1>8. \A k \in 1..(n+1) : nextFree'[longer[k]] = IF k = n + 1 THEN 0 ELSE longer[k+1]
  <2> SUFFICES ASSUME NEW k \in 1..(n+1)
               PROVE  nextFree'[longer[k]] = IF k = n + 1 THEN 0 ELSE longer[k+1]
    OBVIOUS
  <2>1. k # n + 1 => longer[k+1] = order[k]
    BY <1>2
  <2>2. CASE k = 1
    BY <1>2, <1>3, <2>1, <2>2
  <2>3. CASE k # 1
    <3>1. longer[k] = order[k-1] /\ order[k-1] \in Free /\ k - 1 \in 1..n
      BY <1>5, <2>3
    <3>2. nextFree'[longer[k]] = nextFree[order[k-1]]
      BY <1>2, <3>1
    <3>3. nextFree[order[k-1]] = IF k - 1 = n THEN 0 ELSE order[(k-1)+1]
      BY <1>3, <3>1
    <3> QED
      BY <1>2, <2>1, <3>2, <3>3
  <2> QED
    BY <2>2, <2>3
<1>9. \A j \in Free' : \E k \in 1..(n+1) : longer[k] = j
  <2> SUFFICES ASSUME NEW j \in Free' PROVE \E k \in 1..(n+1) : longer[k] = j
    OBVIOUS
  <2>1. CASE j = i
    <3>1. 1 \in 1..(n+1) /\ longer[1] = i
      BY <1>2
    <3> QED
      BY <2>1, <3>1
  <2>2. CASE j # i
    <3>1. PICK k \in 1..n : order[k] = j
      BY <1>3, <2>2
    <3>2. k + 1 \in 1..(n+1) /\ k + 1 # 1 /\ (k + 1) - 1 = k
      BY <1>2
    <3>3. longer[k+1] = j
      BY <3>1, <3>2
    <3> QED
      BY <3>2, <3>3
  <2> QED
    BY <2>1, <2>2
<1> HIDE DEF longer
<1>10. /\ longer \in [1..Cardinality(Free') -> Free']
       /\ freeHead' = IF Cardinality(Free') = 0 THEN 0 ELSE longer[1]
       /\ \A k \in 1..Cardinality(Free') :
            nextFree'[longer[k]] = IF k = Cardinality(Free') THEN 0 ELSE longer[k+1]
       /\ \A j \in Free' : \E k \in 1..Cardinality(Free') : longer[k] = j
  BY <1>4, <1>6, <1>7, <1>8, <1>9
<1> QED
  BY <1>10, ListShown

\* An empty list: no slot is free.
LEMMA ListEmpty ==
  ASSUME TypeOK, FreeListExact, phase = "open", freeHead = 0
  PROVE  Free = {}
<1>1. PICK order : IsFreeOrder(order)
  BY DEF FreeListExact, IsFreeOrder
<1>2. Cardinality(Free) \in Nat /\ 0 \notin Free
  BY FreeIsFinite
<1>3. Cardinality(Free) = 0
  <2> SUFFICES ASSUME Cardinality(Free) # 0 PROVE FALSE
    OBVIOUS
  <2>1. freeHead = order[1] /\ 1 \in 1..Cardinality(Free)
    BY <1>1, <1>2 DEF IsFreeOrder, ListReads
  <2> QED
    BY <1>1, <1>2, <2>1 DEF IsFreeOrder
<1> QED
  BY <1>1, <1>3 DEF IsFreeOrder

LEMMA ListTakeSlot ==
  ASSUME IInv, phase = "open", FreeListExact, NEW v \in Object, TakeSlot(v)
  PROVE  FreeListExact'
<1>0. TypeOK /\ Untouched
  BY WhenOpen
<1>1. CASE NewFromFreeList(v)
  BY <1>1, ListPopped DEF NewFromFreeList, Occupy
<1>2. CASE NewByGrowing(v)
  <2>1. Free = {}
    BY <1>0, <1>2, ListEmpty DEF NewByGrowing
  <2>2. /\ slotCount \in Nat /\ slotCount + 1 \in Slot /\ slotCount' = slotCount + 1
        /\ refcount' = [refcount EXCEPT ![slotCount + 1] = 1]
        /\ freeHead' = freeHead
    BY <1>0, <1>2, RefTableConstants DEF NewByGrowing, Occupy, TypeOK, Slot
  <2>3. Free' = {}
    BY <1>0, <2>1, <2>2 DEF Free, Allocated, TypeOK, Slot
  <2> QED
    BY <2>1, <2>2, <2>3, ListKept
<1>3. CASE AllocationFails
  <2>1. Free' = Free
    BY <1>3 DEF AllocationFails, Free, Allocated
  <2> QED
    BY <1>3, <2>1, ListKept DEF AllocationFails
<1> QED
  BY <1>1, <1>2, <1>3 DEF TakeSlot

LEMMA ListReserve ==
  ASSUME IInv, FreeListExact, SlotReserve
  PROVE  FreeListExact'
<1>0. phase = "open" /\ TypeOK /\ Untouched
  BY WhenOpen DEF SlotReserve
<1>1. CASE UNCHANGED <<table, phase>>
  <2>1. Free' = Free
    BY <1>1 DEF table, Free, Allocated
  <2> QED
    BY <1>0, <1>1, <2>1, ListKept DEF table
<1>2. CASE AllocationFails
  <2>1. Free' = Free
    BY <1>2 DEF AllocationFails, Free, Allocated
  <2> QED
    BY <1>0, <1>2, <2>1, ListKept DEF AllocationFails
<1>3. CASE /\ freeHead = 0
           /\ slotCount < MaxSlots
           /\ slotCount' = slotCount + 1
           /\ nextFree'  = [nextFree EXCEPT ![slotCount + 1] = 0]
           /\ freeHead'  = slotCount + 1
           /\ refcount'  = refcount
  <2>1. Free = {}
    BY <1>0, <1>3, ListEmpty
  <2>2. slotCount \in Nat /\ slotCount + 1 \in Slot /\ refcount[slotCount + 1] = 0
    BY <1>0, <1>3, RefTableConstants DEF TypeOK, Untouched, Slot
  <2>3. Free' = Free \cup {slotCount + 1}
    BY <1>3, <2>2 DEF Free, Allocated
  <2> QED
    BY <1>0, <1>3, <2>1, <2>2, <2>3, ListPushed
<1> QED
  BY <1>1, <1>2, <1>3 DEF SlotReserve, ReservedHead

LEMMA ListRelease ==
  ASSUME IInv, FreeListExact, NEW h \in IssuedHandles, Retain(h) \/ Release(h)
  PROVE  FreeListExact'
<1> DEFINE i == SlotGet(h)
<1>0. phase = "open" /\ TypeOK
  BY WhenOpen DEF Retain, Release
<1>1. i # 0 /\ i \in Allocated /\ i \in Slot /\ refcount[i] > 0 /\ refcount[i] \in Nat
  <2>1. i # 0 /\ h[2] \in Nat /\ h[2] # 0
    <3>1. PICK p \in issued : p[1] = h
      BY DEF IssuedHandles
    <3>2. h \in Handle
      BY <1>0, <3>1 DEF TypeOK
    <3>3. h[2] \in Nat /\ h[2] # 0
      BY <3>2, RefTableConstants DEF Handle, Slot
    <3> QED
      BY <3>3 DEF Retain, Release
  <2>2. i = h[2] /\ i <= slotCount /\ refcount[i] > 0
    BY <2>1 DEF SlotGet
  <2>3. i \in Allocated
    BY <1>0, <2>1, <2>2, RefTableConstants DEF Allocated, TypeOK
  <2> QED
    BY <1>0, <2>1, <2>2, <2>3, SlotTypes, RefTableConstants
<1> HIDE DEF i
<1>2. CASE SlotFree(i) /\ links[i] # 0
  <2>1. /\ refcount' = [refcount EXCEPT ![i] = 0]
        /\ nextFree' = [nextFree EXCEPT ![i] = freeHead]
        /\ freeHead' = i /\ slotCount' = slotCount
    BY <1>2 DEF SlotFree, ListedBefore
  <2>2. i \notin Free
    BY <1>1 DEF Free
  <2>3. Free' = Free \cup {i}
    BY <1>0, <1>1, <2>1 DEF Free, Allocated, TypeOK
  <2> QED
    BY <1>0, <1>1, <2>1, <2>2, <2>3, ListPushed
<1>3. CASE \E n \in Nat : /\ n > 0
                          /\ refcount' = [refcount EXCEPT ![i] = n]
                          /\ UNCHANGED <<slotCount, nextFree, freeHead>>
  <2>1. Free' = Free
    <3>1. \A j \in Slot : refcount'[j] = 0 <=> refcount[j] = 0
      BY <1>0, <1>1, <1>3 DEF TypeOK
    <3>2. Allocated \subseteq Slot /\ Allocated' = Allocated
      BY <1>0, <1>3, RefTableConstants DEF TypeOK, Allocated, Slot
    <3> QED
      BY <3>1, <3>2 DEF Free
  <2> QED
    BY <1>0, <1>3, <2>1, ListKept
<1>4. links[i] # 0
  BY <1>0, <1>1, WhenOpen
<1>5. CASE Retain(h)
  <2>1. /\ refcount' = [refcount EXCEPT ![i] = refcount[i] + 1]
        /\ UNCHANGED <<slotCount, nextFree, freeHead>>
    BY <1>5 DEF Retain, i
  <2>2. refcount[i] + 1 \in Nat /\ refcount[i] + 1 > 0
    BY <1>1
  <2> QED
    BY <1>3, <2>1, <2>2
<1>6. CASE Release(h) /\ refcount[i] = 1
  BY <1>2, <1>4, <1>6 DEF Release, i
<1>7. CASE Release(h) /\ refcount[i] # 1
  <2>1. /\ refcount' = [refcount EXCEPT ![i] = refcount[i] - 1]
        /\ UNCHANGED <<slotCount, nextFree, freeHead>>
    BY <1>7 DEF Release, i
  <2>2. refcount[i] - 1 \in Nat /\ refcount[i] - 1 > 0
    BY <1>1, <1>7
  <2> QED
    BY <1>3, <2>1, <2>2
<1> QED
  BY <1>5, <1>6, <1>7

LEMMA ListNext == IInv /\ FreeListExact /\ [Next]_vars => FreeListExact'
<1> SUFFICES ASSUME IInv, FreeListExact, [Next]_vars PROVE FreeListExact'
  OBVIOUS
<1>0. loading => phase = "open"
  BY DEF IInv
<1>1. ASSUME NEW v \in Object, SlotNew(v) \/ LoadNew(v) PROVE FreeListExact'
  BY <1>0, <1>1, ListTakeSlot DEF SlotNew, LoadNew
<1>2. CASE SlotReserve
  BY <1>2, ListReserve
<1>3. ASSUME NEW h \in IssuedHandles, Retain(h) \/ Release(h) PROVE FreeListExact'
  BY <1>3, ListRelease
<1>4. CASE Destroy
  BY <1>4 DEF Destroy, FreeListExact
<1>5. CASE LoadRejected \/ UNCHANGED vars
  <2>1. UNCHANGED <<table, phase>>
    BY <1>5 DEF LoadRejected, vars
  <2>2. Free' = Free
    BY <2>1 DEF table, Free, Allocated
  <2>3. CASE phase = "open"
    BY <2>1, <2>2, <2>3, ListKept DEF table
  <2>4. CASE phase # "open"
    BY <2>1, <2>4 DEF FreeListExact
  <2> QED
    BY <2>3, <2>4
<1> QED
  BY <1>1, <1>2, <1>3, <1>4, <1>5 DEF Next

LEMMA ListInit == Init => FreeListExact
<1> SUFFICES ASSUME Init PROVE FreeListExact
  OBVIOUS
<1>1. Free = {}
  BY DEF Init, Free, Allocated
<1>2. Cardinality(Free) = 0
  BY <1>1, FS_EmptySet
<1>3. [k \in 1..0 |-> 0] \in [1..0 -> Free]
  OBVIOUS
<1> QED
  BY <1>1, <1>2, <1>3 DEF Init, FreeListExact, ListReads

(* The free list is exactly the allocated slots with count 0, each once: no *)
(* slot the engine ever allocated is lost, and none that is live can be     *)
(* handed out again.                                                        *)
THEOREM NoSlotIsLost == Spec => []FreeListExact
BY ListInit, ListNext, Invariant, PTL DEF Spec

----------------------------------------------------------------------------
(***************************************************************************)
(* The slot table implements the store of references of Refs, for every    *)
(* number of slots, generation width and set of objects, as long as no     *)
(* generation wraps. It is the argument above seen from the host: a slot   *)
(* that is taken has a generation no handle carries yet, and every other   *)
(* handle keeps its slot, count and object.                                *)
(***************************************************************************)

\* Steps without a wrap are steps of the slot table.
LEMMA Unwrapped == SpecUnwrapped => [](IInv /\ wrapped = {})
<1>1. SpecUnwrapped => Spec
  <2>1. NextUnwrapped => Next
    BY DEF NextUnwrapped
  <2> QED
    BY <2>1, PTL DEF SpecUnwrapped, Spec
<1>2. Init => wrapped = {}
  BY DEF Init
<1>3. wrapped = {} /\ [NextUnwrapped]_vars => (wrapped = {})'
  BY DEF NextUnwrapped, vars
<1>4. SpecUnwrapped => [](wrapped = {})
  BY <1>2, <1>3, PTL DEF SpecUnwrapped
<1> QED
  BY <1>1, <1>4, Invariant, PTL

\* A handle is a generation and a slot.
LEMMA HandleParts ==
  /\ \A h \in Handle : h[1] \in Int /\ h[2] \in Slot /\ h[2] \in Int /\ h[2] # 0 /\ h = <<h[1], h[2]>>
  /\ \A i \in Slot, g \in 0..GenMod-1 : <<g, i>> \in Handle
<1>1. \A i \in Slot : i \in Int /\ i # 0
  BY RefTableConstants DEF Slot
<1>2. \A g \in 0..GenMod-1 : g \in Int
  BY RefTableConstants
<1>3. \A h \in Handle : h[1] \in 0..GenMod-1 /\ h[2] \in Slot /\ h = <<h[1], h[2]>>
  BY DEF Handle
<1> QED
  BY <1>1, <1>2, <1>3 DEF Handle

\* What makes a handle live while the table is open, before and after a step.
LEMMA LiveIs ==
  ASSUME phase = "open"
  PROVE  LiveHandles = {h \in Handle : h[2] <= slotCount /\ refcount[h[2]] > 0 /\ gen[h[2]] = h[1]}
  BY HandleParts DEF LiveHandles, Live, SlotGet

LEMMA LiveWillBe ==
  ASSUME phase' = "open"
  PROVE  LiveHandles' = {h \in Handle : h[2] <= slotCount' /\ refcount'[h[2]] > 0 /\ gen'[h[2]] = h[1]}
  BY HandleParts DEF LiveHandles, Live, SlotGet

\* Nothing the host can see changes with the free list, the capacity, the
\* reservation and slots that are allocated but not taken.
LEMMA HostSeesNothing ==
  ASSUME IInv, phase = "open", phase' = "open",
         UNCHANGED <<refcount, gen, val, issued>>,
         slotCount' = slotCount \/ (slotCount' = slotCount + 1 /\ slotCount < MaxSlots)
  PROVE  UNCHANGED <<liveRefs, IssuedHandles>>
<1>0. TypeOK /\ Untouched
  BY WhenOpen
<1>1. \A h \in Handle : h[2] <= slotCount' /\ refcount[h[2]] > 0 => h[2] <= slotCount
  <2> SUFFICES ASSUME NEW h \in Handle, refcount[h[2]] > 0 PROVE h[2] <= slotCount
    OBVIOUS
  <2>1. h[2] \in Slot /\ h[2] \in Int /\ slotCount \in Int
    BY <1>0, HandleParts, RefTableConstants DEF TypeOK
  <2> QED
    BY <1>0, <2>1 DEF Untouched
<1>2. \A h \in Handle : h[2] <= slotCount => h[2] <= slotCount'
  <2>1. slotCount \in Int
    BY <1>0, RefTableConstants DEF TypeOK
  <2> QED
    BY <2>1, HandleParts
<1>3. LiveHandles' = {h \in Handle : h[2] <= slotCount' /\ refcount'[h[2]] > 0 /\ gen'[h[2]] = h[1]}
  BY LiveWillBe
<1>4. LiveHandles' = LiveHandles
  BY <1>1, <1>2, <1>3, LiveIs
<1> QED
  BY <1>4 DEF liveRefs, IssuedHandles

\* Taking a slot issues a new handle for the object.
LEMMA TakenIsNew ==
  ASSUME IInv, wrapped = {}, phase = "open", NEW i \in Slot, NEW v \in Object,
         refcount[i] = 0, Occupy(i, v), i <= slotCount',
         slotCount' = slotCount \/ (slotCount' = slotCount + 1 /\ i = slotCount')
  PROVE  Store!New(<<gen[i], i>>, v)
<1> DEFINE h == <<gen[i], i>>
<1>0. TypeOK /\ Untouched /\ IssuedInPast
  BY WhenOpen
<1>h. h \in Handle
  BY <1>0, HandleParts DEF TypeOK
<1>1. /\ refcount' = [refcount EXCEPT ![i] = 1] /\ gen' = gen
      /\ val' = [val EXCEPT ![i] = v] /\ issued' = issued \cup {<<h, v>>}
      /\ phase' = "open"
  BY DEF Occupy
<1>2. h \notin IssuedHandles
  <2> SUFFICES ASSUME NEW p \in issued, p[1] = h PROVE FALSE
    BY DEF IssuedHandles
  <2>1. p[1][1] < gen[i] /\ p[1][1] = gen[i]
    BY <1>0 DEF IssuedInPast
  <2>2. gen[i] \in Int
    BY <1>0, RefTableConstants DEF TypeOK
  <2> QED
    BY <2>1, <2>2
<1>3. IssuedHandles' = IssuedHandles \cup {h}
  <2>1. issued' = issued \cup {<<h, v>>} /\ <<h, v>>[1] = h
    BY <1>1
  <2> QED
    BY <2>1 DEF IssuedHandles
<1>4. LiveHandles' = LiveHandles \cup {h}
  <2>1. \A g \in Handle : g # h => (g[2] = i => g[1] # gen[i])
    BY HandleParts
  <2>2. refcount'[i] = 1 /\ \A j \in Slot : j # i => refcount'[j] = refcount[j]
    BY <1>0, <1>1 DEF TypeOK
  <2>3. \A g \in Handle : g[2] # i => (g[2] <= slotCount' <=> g[2] <= slotCount)
    <3>1. slotCount \in Int
      BY <1>0, RefTableConstants DEF TypeOK
    <3> QED
      BY <3>1, HandleParts
  <2>4. LiveHandles' = {g \in Handle : g[2] <= slotCount' /\ refcount'[g[2]] > 0 /\ gen'[g[2]] = g[1]}
    BY <1>1, LiveWillBe
  <2>5. h \in LiveHandles'
    BY <1>h, <1>1, <2>2, <2>4
  <2>6. \A g \in Handle : g # h => (g \in LiveHandles' <=> g \in LiveHandles)
    <3> SUFFICES ASSUME NEW g \in Handle, g # h PROVE g \in LiveHandles' <=> g \in LiveHandles
      OBVIOUS
    <3>1. CASE g[2] = i
      BY <3>1, <2>1, <2>4, <1>1, LiveIs
    <3>2. CASE g[2] # i
      BY <3>2, <2>2, <2>3, <2>4, <1>1, LiveIs
    <3> QED
      BY <3>1, <3>2
  <2>7. LiveHandles' \subseteq Handle /\ LiveHandles \subseteq Handle
    BY <2>4, LiveIs
  <2> QED
    BY <2>5, <2>6, <2>7
<1>5. \A g \in LiveHandles : g # h => refcount'[g[2]] = refcount[g[2]] /\ val'[g[2]] = val[g[2]]
  <2> SUFFICES ASSUME NEW g \in LiveHandles, g # h PROVE g[2] # i /\ g[2] \in Slot
    BY <1>0, <1>1 DEF TypeOK
  <2>1. g \in Handle /\ gen[g[2]] = g[1]
    BY LiveIs
  <2> QED
    BY <2>1, HandleParts
<1>6. refcount'[i] = 1 /\ val'[i] = v
  BY <1>0, <1>1 DEF TypeOK
<1>7. liveRefs' = [g \in LiveHandles \cup {h} |->
                    IF g = h THEN [object |-> v, owners |-> 1] ELSE liveRefs[g]]
  BY <1>4, <1>5, <1>6 DEF liveRefs
<1> QED
  BY <1>2, <1>3, <1>7 DEF Store!New, Store!LiveIds, liveRefs

\* A step on the count of one live slot leaves every other handle alone.
LEMMA RetainIsRetain ==
  ASSUME IInv, NEW h \in Handle, Retain(h)
  PROVE  Store!Retain(h)
<1> DEFINE i == h[2]
<1>0. phase = "open" /\ phase' = "open"
  BY DEF Retain
<1>1. TypeOK
  BY DEF IInv
<1>2. SlotGet(h) = i /\ i \in Slot /\ i # 0 /\ i <= slotCount /\ refcount[i] > 0 /\ gen[i] = h[1]
  BY HandleParts DEF Retain, SlotGet
<1>3. /\ refcount' = [refcount EXCEPT ![i] = refcount[i] + 1]
      /\ UNCHANGED <<slotCount, gen, val, issued>>
  BY <1>2 DEF Retain
<1>4. h \in LiveHandles
  BY <1>0, <1>2, LiveIs
<1>5. \A j \in Slot : refcount'[j] = IF j = i THEN refcount[j] + 1 ELSE refcount[j]
  BY <1>1, <1>3 DEF TypeOK
<1>6. \A j \in Slot : refcount'[j] > 0 <=> refcount[j] > 0
  <2>1. refcount[i] \in Int
    BY <1>1, <1>2, RefTableConstants DEF TypeOK
  <2> QED
    BY <1>2, <1>5, <2>1
<1>7. LiveHandles' = LiveHandles
  BY <1>0, <1>3, <1>6, LiveIs, LiveWillBe, HandleParts
<1>8. \A g \in LiveHandles : g \in Handle /\ g[2] \in Slot /\ (g[2] = i <=> g = h)
  BY <1>0, <1>2, LiveIs, HandleParts
<1>9. liveRefs' = [liveRefs EXCEPT ![h].owners = @ + 1]
  BY <1>3, <1>4, <1>5, <1>7, <1>8 DEF liveRefs
<1> QED
  BY <1>3, <1>4, <1>9 DEF Store!Retain, Store!LiveIds, liveRefs, IssuedHandles

LEMMA ReleaseIsRelease ==
  ASSUME IInv, NEW h \in Handle, Release(h), wrapped' = {}, wrapped = {}
  PROVE  Store!Release(h)
<1> DEFINE i == h[2]
<1>0. phase = "open"
  BY DEF Release
<1>1. TypeOK /\ \A j \in Slot : links[j] = IF j \in Allocated /\ refcount[j] > 0 THEN 1 ELSE 0
  BY <1>0, WhenOpen
<1>2. SlotGet(h) = i /\ i \in Slot /\ i \in Int /\ i # 0 /\ i <= slotCount /\ refcount[i] > 0 /\ gen[i] = h[1]
  BY HandleParts DEF Release, SlotGet
<1>3. h \in LiveHandles /\ liveRefs[h].owners = refcount[i]
  BY <1>0, <1>2, LiveIs DEF liveRefs
<1>4. \A g \in LiveHandles : g \in Handle /\ g[2] \in Slot /\ (g[2] = i <=> g = h)
  BY <1>0, <1>2, LiveIs, HandleParts
<1>5. UNCHANGED IssuedHandles
  BY DEF Release, IssuedHandles
<1>6. CASE refcount[i] = 1
  <2>1. SlotFree(i)
    BY <1>2, <1>6 DEF Release
  <2>2. links[i] # 0
    <3>1. i \in Allocated
      BY <1>1, <1>2, RefTableConstants DEF TypeOK, Allocated, Slot
    <3> QED
      BY <1>1, <1>2, <3>1
  <2>3. /\ phase' = "open" /\ slotCount' = slotCount
        /\ val'      = [val      EXCEPT ![i] = Undefined]
        /\ refcount' = [refcount EXCEPT ![i] = 0]
    BY <2>1, <2>2, <1>0 DEF SlotFree
  <2>4. gen' = [gen EXCEPT ![i] = NextGen(gen[i])]
    BY <2>1, <2>2 DEF SlotFree
  <2>5. /\ refcount'[i] = 0
        /\ \A j \in Slot : j # i => refcount'[j] = refcount[j] /\ gen'[j] = gen[j] /\ val'[j] = val[j]
    BY <1>1, <1>2, <2>3, <2>4 DEF TypeOK
  <2>6. LiveHandles' = LiveHandles \ {h}
    <3>1. LiveHandles' = {g \in Handle : g[2] <= slotCount /\ refcount'[g[2]] > 0 /\ gen'[g[2]] = g[1]}
      BY <2>3, LiveWillBe
    <3>2. \A g \in Handle : g[2] \in Slot
      BY HandleParts
    <3>3. \A g \in Handle : g \in LiveHandles' <=> g \in LiveHandles /\ g[2] # i
      BY <1>0, <2>5, <3>1, <3>2, LiveIs
    <3>4. LiveHandles' \subseteq Handle /\ LiveHandles \subseteq Handle
      BY <1>0, <3>1, LiveIs
    <3> QED
      BY <1>4, <3>3, <3>4
  <2>7. liveRefs' = [g \in LiveHandles \ {h} |-> liveRefs[g]]
    BY <1>4, <2>5, <2>6 DEF liveRefs
  <2> QED
    BY <1>3, <1>5, <1>6, <2>7 DEF Store!Release, Store!LastOwner, Store!LiveIds, liveRefs
<1>7. CASE refcount[i] # 1
  <2>1. /\ refcount' = [refcount EXCEPT ![i] = refcount[i] - 1]
        /\ UNCHANGED <<slotCount, gen, val, phase>>
    BY <1>2, <1>7 DEF Release
  <2>2. \A j \in Slot : refcount'[j] = IF j = i THEN refcount[j] - 1 ELSE refcount[j]
    BY <1>1, <2>1 DEF TypeOK
  <2>3. \A j \in Slot : refcount'[j] > 0 <=> refcount[j] > 0
    <3>1. refcount[i] \in Int
      BY <1>1, <1>2, RefTableConstants DEF TypeOK
    <3> QED
      BY <1>2, <1>7, <2>2, <3>1
  <2>4. LiveHandles' = LiveHandles
    BY <1>0, <2>1, <2>3, LiveIs, LiveWillBe, HandleParts
  <2>5. liveRefs' = [liveRefs EXCEPT ![h].owners = @ - 1]
    BY <1>3, <1>4, <2>1, <2>2, <2>4 DEF liveRefs
  <2> QED
    BY <1>3, <1>5, <1>7, <2>5 DEF Store!Release, Store!LastOwner, Store!LiveIds, liveRefs
<1> QED
  BY <1>6, <1>7

\* Taking a slot in any of its three ways.
LEMMA TakeSlotRefines ==
  ASSUME IInv, wrapped = {}, phase = "open", NEW v \in Object, TakeSlot(v)
  PROVE  (\E h \in Handle : Store!New(h, v)) \/ UNCHANGED <<liveRefs, IssuedHandles>>
<1>0. TypeOK /\ Untouched /\ FreeListSound
  BY WhenOpen
<1>1. CASE NewFromFreeList(v)
  <2>1. freeHead \in Slot /\ refcount[freeHead] = 0 /\ freeHead <= slotCount
    BY <1>0, <1>1, RefTableConstants DEF NewFromFreeList, FreeListSound, IsFreeOrNone, TypeOK, Allocated, Slot
  <2>2. Store!New(<<gen[freeHead], freeHead>>, v)
    BY <1>1, <2>1, TakenIsNew DEF NewFromFreeList
  <2>3. <<gen[freeHead], freeHead>> \in Handle
    BY <1>0, <2>1, HandleParts DEF TypeOK
  <2> QED
    BY <2>2, <2>3
<1>2. CASE NewByGrowing(v)
  <2> DEFINE i == slotCount + 1
  <2>1. i \in Slot /\ refcount[i] = 0 /\ slotCount' = i /\ i <= slotCount'
    BY <1>0, <1>2, RefTableConstants DEF NewByGrowing, Untouched, TypeOK, Slot
  <2>a. Occupy(i, v)
    BY <1>2 DEF NewByGrowing
  <2>b. slotCount' = slotCount + 1 /\ i = slotCount'
    BY <2>1
  <2> HIDE DEF i
  <2>2. Store!New(<<gen[i], i>>, v)
    BY <2>1, <2>a, <2>b, TakenIsNew
  <2>3. <<gen[i], i>> \in Handle
    BY <1>0, <2>1, HandleParts DEF TypeOK
  <2> QED
    BY <2>2, <2>3
<1>3. CASE AllocationFails
  BY <1>3, HostSeesNothing DEF AllocationFails
<1> QED
  BY <1>1, <1>2, <1>3 DEF TakeSlot

LEMMA ReserveIsHidden ==
  ASSUME IInv, SlotReserve \/ LoadRejected
  PROVE  UNCHANGED <<liveRefs, IssuedHandles>>
<1>1. phase = "open"
  BY DEF SlotReserve, LoadRejected, IInv
<1>2. /\ phase' = "open" /\ UNCHANGED <<refcount, gen, val, issued>>
      /\ slotCount' = slotCount \/ (slotCount' = slotCount + 1 /\ slotCount < MaxSlots)
  BY <1>1 DEF SlotReserve, LoadRejected, AllocationFails, table
<1> QED
  BY <1>1, <1>2, HostSeesNothing

\* Tearing the engine down ends every handle.
LEMMA DestroyIsClear ==
  ASSUME IInv, Destroy
  PROVE  Store!Clear
<1>1. phase' # "open" /\ UNCHANGED issued
  BY DEF Destroy
<1>2. LiveHandles' = {}
  BY <1>1 DEF LiveHandles
<1>3. liveRefs' = [g \in {} |-> liveRefs[g]]
  BY <1>2 DEF liveRefs
<1> QED
  BY <1>1, <1>3 DEF Store!Clear, IssuedHandles

\* Every step of the slot table is a step of the store or none.
LEMMA StepRefines ==
  ASSUME IInv, wrapped = {}, [NextUnwrapped]_vars
  PROVE  [Store!Next]_(Store!refVars)
<1>0. IssuedHandles \subseteq Handle
  BY DEF IInv, TypeOK, IssuedHandles
<1>1. ASSUME NEW v \in Object, SlotNew(v)
      PROVE  [Store!Next]_(Store!refVars)
  BY <1>1, TakeSlotRefines DEF SlotNew, Store!Next, Store!refVars
<1>2. ASSUME NEW v \in Object, LoadNew(v)
      PROVE  [Store!Next]_(Store!refVars)
  BY <1>2, TakeSlotRefines DEF LoadNew, IInv, Store!Next, Store!refVars
<1>3. CASE SlotReserve \/ LoadRejected
  BY <1>3, ReserveIsHidden DEF Store!refVars
<1>4. ASSUME NEW h \in IssuedHandles, Retain(h)
      PROVE  [Store!Next]_(Store!refVars)
  BY <1>0, <1>4, RetainIsRetain DEF Store!Next
<1>5. ASSUME NEW h \in IssuedHandles, Release(h), wrapped' = {}
      PROVE  [Store!Next]_(Store!refVars)
  BY <1>0, <1>5, ReleaseIsRelease DEF Store!Next
<1>6. CASE Destroy
  BY <1>6, DestroyIsClear DEF Store!Next
<1>7. CASE UNCHANGED vars
  <2>1. UNCHANGED <<liveRefs, IssuedHandles>>
    BY <1>7 DEF vars, table, liveRefs, LiveHandles, Live, SlotGet, IssuedHandles
  <2> QED
    BY <2>1 DEF Store!refVars
<1> QED
  BY <1>1, <1>2, <1>3, <1>4, <1>5, <1>6, <1>7 DEF NextUnwrapped, Next

LEMMA StartRefines ==
  ASSUME Init
  PROVE  Store!Init
<1>1. LiveHandles = {}
  BY HandleParts DEF Init, LiveHandles, Live, SlotGet
<1> QED
  BY <1>1 DEF Init, Store!Init, liveRefs, IssuedHandles

\* The slot table keeps what Refs promises: kmpjs_ref_* on a handle act on the
\* object it was issued for, until its owners have all released it.
THEOREM TableIsStore == SpecUnwrapped => ImplementsStore
<1>1. Init => Store!Init
  BY StartRefines
<1>2. IInv /\ wrapped = {} /\ [NextUnwrapped]_vars => [Store!Next]_(Store!refVars)
  BY StepRefines
<1>3. SpecUnwrapped => Init /\ [][NextUnwrapped]_vars
  BY DEF SpecUnwrapped
<1> QED
  BY <1>1, <1>2, <1>3, Unwrapped, PTL DEF ImplementsStore, Store!Spec

==============================================================================
