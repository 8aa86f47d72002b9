---------------------------- MODULE JsRefs_proofs ----------------------------
(***************************************************************************)
(* Proofs about the host's references, for every number of handles,        *)
(* objects, JsRefs and nested calls, and for a host that closes only what  *)
(* is its own to close.                                                    *)
(***************************************************************************)
EXTENDS JsRefs, FiniteSetTheorems, SequenceTheorems, TLAPS

(***************************************************************************)
(* The inductive invariant: the count of every handle of an open engine is *)
(* the number of its open JsRefs, and one more while js_kmp_host holds it  *)
(* for a call that is being prepared or wound up. For a callback that is   *)
(* running, that hold stands for the argument's JsRef instead, which ties  *)
(* the handles of each host call to its arguments one to one.              *)
(***************************************************************************)
HostFrames == {k \in 1..Len(stack) : stack[k].step = "host"}
CallFrames == {k \in 1..Len(stack) : stack[k].step # "script"}

Ids(frame) == {frame.ids[j] : j \in 1..Len(frame.ids)}

\* Only what runs innermost prepares or winds up a call.
OnlyTopIsPending ==
  \A k \in 1..Len(stack) : stack[k].step \in {"converting", "releasing"} => k = Len(stack)

\* The handles made for a call are different ones.
IdsDiffer ==
  \A k \in CallFrames : \A i, j \in 1..Len(stack[k].ids) :
    stack[k].ids[i] = stack[k].ids[j] => i = j

HandlesAreUsed ==
  /\ \A r \in 1..Len(refs) : refs[r].id \in used
  /\ \A k \in CallFrames : Ids(stack[k]) \subseteq used

\* The arguments of a running callback are its handles.
ArgsAreIds ==
  \A k \in HostFrames :
    /\ \A r \in stack[k].args :
         r \in 1..Len(refs) /\ refs[r].arg /\ ~refs[r].closed /\ refs[r].id \in Ids(stack[k])
    /\ \A h \in Ids(stack[k]) : \E r \in stack[k].args : refs[r].id = h
    /\ \A r, s \in stack[k].args : refs[r].id = refs[s].id => r = s

ArgsDiffer ==
  \A k, l \in HostFrames : k # l => stack[k].args \cap stack[l].args = {}

\* The count of a handle, and the handles js_kmp_host holds.
Owners(h) == IF IsLive(h) THEN live[h].owners ELSE 0
Pending   == IF At("converting") \/ At("releasing") THEN Ids(Top) ELSE {}

Counted ==
  open => \A h \in RefId :
    Owners(h) = Cardinality(OpenRefs(h)) + (IF h \in Pending THEN 1 ELSE 0)

IInv ==
  /\ TypeOK
  /\ open \/ stack = <<>>
  /\ OnlyTopIsPending
  /\ IdsDiffer
  /\ HandlesAreUsed
  /\ ArgsAreIds
  /\ ArgsDiffer
  /\ ArgsEndWithTheCall
  /\ Counted

----------------------------------------------------------------------------
(* The store of references.                                                 *)

StoreOK ==
  /\ used \subseteq RefId /\ DOMAIN live \subseteq used
  /\ \A h \in DOMAIN live : live[h] \in [object : Object, owners : Nat \ {0}]

LEMMA OwnersAre ==
  ASSUME StoreOK, NEW h \in RefId
  PROVE  Owners(h) \in Nat /\ (Owners(h) # 0 <=> IsLive(h))
BY DEF StoreOK, Owners, IsLive, Store!LiveIds

LEMMA NewOwner ==
  ASSUME StoreOK, NEW h \in RefId, NEW v \in Object, Store!New(h, v)
  PROVE  /\ StoreOK' /\ used' = used \cup {h} /\ h \notin used
         /\ Owners(h) = 0 /\ Owners(h)' = 1
         /\ \A g \in RefId : g # h => Owners(g)' = Owners(g)
<1>1. /\ h \notin used /\ used' = used \cup {h} /\ DOMAIN live' = DOMAIN live \cup {h}
      /\ live'[h] = [object |-> v, owners |-> 1]
      /\ \A g \in DOMAIN live : g # h /\ live'[g] = live[g]
  BY DEF Store!New, Store!LiveIds, StoreOK
<1>2. StoreOK'
  BY <1>1 DEF StoreOK
<1> QED
  BY <1>1, <1>2 DEF StoreOK, Owners, IsLive, Store!LiveIds

LEMMA OneMoreOwner ==
  ASSUME StoreOK, NEW h \in RefId, IsLive(h), Store!Retain(h)
  PROVE  /\ StoreOK' /\ used' = used
         /\ Owners(h)' = Owners(h) + 1
         /\ \A g \in RefId : g # h => Owners(g)' = Owners(g)
<1>1. /\ used' = used /\ DOMAIN live' = DOMAIN live /\ h \in DOMAIN live
      /\ live' = [live EXCEPT ![h].owners = live[h].owners + 1]
  BY DEF Store!Retain, Store!LiveIds, StoreOK
<1>2. /\ live'[h] = [live[h] EXCEPT !.owners = live[h].owners + 1]
      /\ \A g \in DOMAIN live : g # h => live'[g] = live[g]
  BY <1>1
<1>3. /\ live[h] \in [object : Object, owners : Nat \ {0}]
      /\ live'[h] \in [object : Object, owners : Nat \ {0}]
      /\ live'[h].owners = live[h].owners + 1
  BY <1>1, <1>2 DEF StoreOK
<1>4. StoreOK'
  BY <1>1, <1>2, <1>3 DEF StoreOK
<1> QED
  BY <1>1, <1>2, <1>3, <1>4 DEF Owners, IsLive, Store!LiveIds

LEMMA OneOwnerLess ==
  ASSUME StoreOK, NEW h \in RefId, IsLive(h), ReleaseHandle(h)
  PROVE  /\ StoreOK' /\ used' = used
         /\ Owners(h)' = Owners(h) - 1
         /\ \A g \in RefId : g # h => Owners(g)' = Owners(g)
<1>1. /\ used' = used /\ h \in DOMAIN live
      /\ live' = IF live[h].owners = 1
                 THEN [g \in DOMAIN live \ {h} |-> live[g]]
                 ELSE [live EXCEPT ![h].owners = live[h].owners - 1]
      /\ live[h] \in [object : Object, owners : Nat \ {0}]
  BY DEF ReleaseHandle, IsLive, Store!Release, Store!LastOwner, Store!LiveIds, StoreOK
<1>2. CASE live[h].owners = 1
  <2>1. DOMAIN live' = DOMAIN live \ {h} /\ \A g \in DOMAIN live' : live'[g] = live[g]
    BY <1>1, <1>2
  <2>2. StoreOK'
    BY <1>1, <2>1 DEF StoreOK
  <2> QED
    BY <1>1, <1>2, <2>1, <2>2 DEF Owners, IsLive, Store!LiveIds
<1>3. CASE live[h].owners # 1
  <2>1. /\ DOMAIN live' = DOMAIN live
        /\ live'[h] = [live[h] EXCEPT !.owners = live[h].owners - 1]
        /\ \A g \in DOMAIN live : g # h => live'[g] = live[g]
    BY <1>1, <1>3
  <2>2. /\ live'[h] \in [object : Object, owners : Nat \ {0}]
        /\ live'[h].owners = live[h].owners - 1
    BY <1>1, <1>3, <2>1
  <2>3. StoreOK'
    BY <1>1, <2>1, <2>2 DEF StoreOK
  <2> QED
    BY <1>1, <2>1, <2>2, <2>3 DEF Owners, IsLive, Store!LiveIds
<1> QED
  BY <1>2, <1>3

----------------------------------------------------------------------------
(* The JsRefs.                                                              *)

RefsOK == refs \in Seq(JsRef) /\ Len(refs) <= MaxRefs

LEMMA RefIs ==
  ASSUME RefsOK, NEW r \in 1..Len(refs)
  PROVE  refs[r] \in JsRef /\ refs[r].id \in RefId /\ refs[r].closed \in BOOLEAN
         /\ refs[r].arg \in BOOLEAN
<1>1. refs[r] \in JsRef
  BY DEF RefsOK
<1> QED
  BY <1>1 DEF JsRef

LEMMA OpenRefsAreFinite ==
  ASSUME RefsOK, NEW h
  PROVE  IsFiniteSet(OpenRefs(h)) /\ Cardinality(OpenRefs(h)) \in Nat
<1>1. IsFiniteSet(1..Len(refs))
  BY FS_Interval DEF RefsOK
<1>2. OpenRefs(h) \subseteq 1..Len(refs)
  BY DEF OpenRefs
<1> QED
  BY <1>1, <1>2, FS_Subset, FS_CardinalityType

\* decode adds an open JsRef of the host's own.
LEMMA OneMoreRef ==
  ASSUME RefsOK, Len(refs) < MaxRefs, MaxRefs \in Nat, NEW h \in RefId,
         refs' = Append(refs, [id |-> h, closed |-> FALSE, arg |-> FALSE])
  PROVE  /\ RefsOK' /\ Len(refs') = Len(refs) + 1
         /\ \A r \in 1..Len(refs) : refs'[r] = refs[r]
         /\ refs'[Len(refs) + 1] = [id |-> h, closed |-> FALSE, arg |-> FALSE]
         /\ Cardinality(OpenRefs(h)') = Cardinality(OpenRefs(h)) + 1
         /\ \A g : g # h => OpenRefs(g)' = OpenRefs(g)
<1>0. PICK ref \in JsRef : ref = [id |-> h, closed |-> FALSE, arg |-> FALSE]
  BY DEF JsRef
<1>1. refs' = Append(refs, ref) /\ ref.id = h /\ ~ref.closed
  BY <1>0
<1>2. /\ refs' \in Seq(JsRef) /\ Len(refs') = Len(refs) + 1 /\ Len(refs) \in Nat
      /\ \A r \in 1..Len(refs) : refs'[r] = refs[r]
      /\ refs'[Len(refs) + 1] = ref
  BY <1>1 DEF RefsOK
<1>3. RefsOK'
  BY <1>2 DEF RefsOK
<1>4. OpenRefs(h)' = OpenRefs(h) \cup {Len(refs) + 1} /\ Len(refs) + 1 \notin OpenRefs(h)
  BY <1>1, <1>2 DEF OpenRefs
<1>5. \A g : g # h => OpenRefs(g)' = OpenRefs(g)
  BY <1>1, <1>2 DEF OpenRefs
<1>6. Cardinality(OpenRefs(h)') = Cardinality(OpenRefs(h)) + 1
  BY <1>4, OpenRefsAreFinite, FS_AddElement
<1> QED
  BY <1>0, <1>2, <1>3, <1>5, <1>6

\* close
LEMMA OneRefLess ==
  ASSUME RefsOK, NEW r \in 1..Len(refs), ~refs[r].closed,
         refs' = [refs EXCEPT ![r].closed = TRUE]
  PROVE  /\ RefsOK' /\ Len(refs') = Len(refs)
         /\ \A s \in 1..Len(refs) : s # r => refs'[s] = refs[s]
         /\ refs'[r] = [refs[r] EXCEPT !.closed = TRUE]
         /\ refs'[r].id = refs[r].id /\ refs'[r].arg = refs[r].arg /\ refs'[r].closed
         /\ r \in OpenRefs(refs[r].id)
         /\ Cardinality(OpenRefs(refs[r].id)') = Cardinality(OpenRefs(refs[r].id)) - 1
         /\ \A g : g # refs[r].id => OpenRefs(g)' = OpenRefs(g)
<1>0. PICK ref : ref = [refs[r] EXCEPT !.closed = TRUE]
  OBVIOUS
<1>1. refs' = [refs EXCEPT ![r] = ref] /\ refs[r] \in JsRef /\ ref \in JsRef
  BY <1>0, RefIs DEF JsRef
<1>2. /\ refs' \in Seq(JsRef) /\ Len(refs') = Len(refs)
      /\ \A s \in 1..Len(refs) : s # r => refs'[s] = refs[s]
      /\ refs'[r] = [refs[r] EXCEPT !.closed = TRUE]
  <2>1. refs \in Seq(JsRef)
    BY DEF RefsOK
  <2>2. [refs EXCEPT ![r] = ref] \in Seq(JsRef) /\ Len([refs EXCEPT ![r] = ref]) = Len(refs)
    BY <1>1, <2>1, ExceptSeq
  <2>3. \A s \in 1..Len(refs) : [refs EXCEPT ![r] = ref][s] = IF s = r THEN ref ELSE refs[s]
    BY <1>1, <2>1, ExceptSeq
  <2> QED
    BY <1>0, <1>1, <2>2, <2>3
<1>3. refs'[r].id = refs[r].id /\ refs'[r].arg = refs[r].arg /\ refs'[r].closed
  BY <1>0, <1>1, <1>2 DEF JsRef
<1>4. PICK h : h = refs[r].id
  OBVIOUS
<1>5. OpenRefs(h)' = OpenRefs(h) \ {r} /\ r \in OpenRefs(h)
  BY <1>2, <1>3, <1>4 DEF OpenRefs
<1>6. \A g : g # h => OpenRefs(g)' = OpenRefs(g)
  BY <1>2, <1>3, <1>4 DEF OpenRefs
<1>7. Cardinality(OpenRefs(h)') = Cardinality(OpenRefs(h)) - 1
  BY <1>5, OpenRefsAreFinite, FS_RemoveElement
<1>8. RefsOK'
  BY <1>2 DEF RefsOK
<1> QED
  BY <1>2, <1>3, <1>4, <1>5, <1>6, <1>7, <1>8

----------------------------------------------------------------------------
(* The stack.                                                               *)

StackOK == stack \in Seq(Frame) /\ OnlyTopIsPending /\ IdsDiffer

\* The host's view of the stack: the callbacks that are running.
SameCallbacks ==
  HostFrames' = HostFrames /\ \A k \in HostFrames : stack'[k] = stack[k]

LEMMA FrameIs ==
  ASSUME NEW f \in Frame
  PROVE  /\ f.step \in {"script", "converting", "host", "releasing"}
         /\ f.step # "script" =>
              f \in CallFrame /\ f.ids \in Seq(RefId) /\ f.args \in SUBSET (1..MaxRefs)
              /\ f.left \in 0..MaxArgs
  BY DEF Frame, ScriptFrame, CallFrame

LEMMA TopIs ==
  ASSUME StackOK, stack # <<>>
  PROVE  Len(stack) \in 1..Len(stack) /\ Top \in Frame /\ Top = stack[Len(stack)]
BY DEF StackOK, Top

\* A script, or a call without handles yet, starts where nothing is pending.
LEMMA Pushed ==
  ASSUME StackOK, ~At("converting"), ~At("releasing"), NEW f \in Frame, Push(f),
         f.step # "host", f.step # "script" => f.ids = <<>>
  PROVE  /\ StackOK' /\ SameCallbacks /\ Pending' = {} /\ stack' # <<>>
         /\ \A k \in CallFrames' : Ids(stack'[k]) = {} \/ (k \in CallFrames /\ stack'[k] = stack[k])
<1>1. /\ stack' \in Seq(Frame) /\ Len(stack') = Len(stack) + 1 /\ Len(stack) \in Nat
      /\ \A k \in 1..Len(stack) : stack'[k] = stack[k]
      /\ stack'[Len(stack) + 1] = f
  BY DEF StackOK, Push
<1>2. \A k \in 1..Len(stack) : stack[k].step \notin {"converting", "releasing"}
  BY <1>1 DEF StackOK, OnlyTopIsPending, At, Top
<1>3. OnlyTopIsPending'
  BY <1>1, <1>2 DEF OnlyTopIsPending
<1>4. IdsDiffer'
  <2> SUFFICES ASSUME NEW k \in CallFrames', NEW i \in 1..Len(stack'[k].ids),
                      NEW j \in 1..Len(stack'[k].ids), stack'[k].ids[i] = stack'[k].ids[j]
               PROVE  i = j
    BY DEF IdsDiffer
  <2>1. CASE k = Len(stack) + 1
    BY <1>1, <2>1 DEF CallFrames
  <2>2. CASE k # Len(stack) + 1
    BY <1>1, <2>2 DEF CallFrames, StackOK, IdsDiffer
  <2> QED
    BY <2>1, <2>2
<1>5. SameCallbacks
  BY <1>1 DEF SameCallbacks, HostFrames
<1>6. Pending' = {}
  BY <1>1, FrameIs DEF Pending, At, Top, Ids
<1>7. \A k \in CallFrames' : Ids(stack'[k]) = {} \/ (k \in CallFrames /\ stack'[k] = stack[k])
  BY <1>1 DEF CallFrames, Ids
<1> QED
  BY <1>1, <1>3, <1>4, <1>5, <1>6, <1>7 DEF StackOK

\* What runs innermost ends, unless it is a callback.
LEMMA Popped ==
  ASSUME StackOK, stack # <<>>, Top.step # "host", Pop
  PROVE  /\ StackOK' /\ SameCallbacks /\ Pending' = {}
         /\ \A k \in CallFrames' : k \in CallFrames /\ stack'[k] = stack[k]
<1>1. stack \in Seq(Frame) /\ Len(stack) \in Nat /\ Len(stack) > 0
  BY DEF StackOK
<1>2. /\ stack' \in Seq(Frame) /\ Len(stack') = Len(stack) - 1
      /\ \A k \in 1..Len(stack) - 1 : stack'[k] = stack[k]
  <2>1. PICK l \in Nat : l = Len(stack) - 1
    BY <1>1
  <2>2. \A k \in 1..l : stack[k] \in Frame
    BY <1>1, <2>1
  <2>3. /\ SubSeq(stack, 1, l) \in Seq(Frame)
        /\ Len(SubSeq(stack, 1, l)) = IF 1 <= l THEN l - 1 + 1 ELSE 0
        /\ \A k \in 1..l - 1 + 1 : SubSeq(stack, 1, l)[k] = stack[1 + k - 1]
    BY <2>2, SubSeqProperties
  <2>4. Len(SubSeq(stack, 1, l)) = l /\ \A k \in 1..l : SubSeq(stack, 1, l)[k] = stack[k]
    BY <2>3
  <2> QED
    BY <2>1, <2>3, <2>4 DEF Pop
<1>3. \A k \in 1..Len(stack') : stack'[k].step \notin {"converting", "releasing"}
  BY <1>1, <1>2 DEF StackOK, OnlyTopIsPending
<1>4. OnlyTopIsPending' /\ IdsDiffer'
  BY <1>1, <1>2, <1>3 DEF StackOK, OnlyTopIsPending, IdsDiffer, CallFrames
<1>5. SameCallbacks
  BY <1>1, <1>2 DEF SameCallbacks, HostFrames, Top
<1>6. Pending' = {}
  <2>1. stack' # <<>> => Len(stack') \in 1..Len(stack')
    BY <1>2
  <2> QED
    BY <1>3, <2>1 DEF Pending, At, Top
<1>7. \A k \in CallFrames' : k \in CallFrames /\ stack'[k] = stack[k]
  BY <1>1, <1>2 DEF CallFrames
<1> QED
  BY <1>2, <1>4, <1>5, <1>6, <1>7 DEF StackOK

\* A call that is prepared or wound up takes its next step.
LEMMA Became ==
  ASSUME StackOK, stack # <<>>, NEW f \in Frame, Become(f), f.step # "script",
         \A i, j \in 1..Len(f.ids) : f.ids[i] = f.ids[j] => i = j
  PROVE  /\ StackOK' /\ stack' # <<>> /\ Len(stack') = Len(stack) /\ Top' = f
         /\ \A k \in 1..Len(stack) : k # Len(stack) => stack'[k] = stack[k]
         /\ Pending' = IF f.step \in {"converting", "releasing"} THEN Ids(f) ELSE {}
         /\ \A k \in CallFrames' : k = Len(stack) \/ (k \in CallFrames /\ stack'[k] = stack[k])
<1>1. /\ stack' \in Seq(Frame) /\ Len(stack') = Len(stack) /\ Len(stack) \in 1..Len(stack)
      /\ \A k \in 1..Len(stack) : k # Len(stack) => stack'[k] = stack[k]
      /\ stack'[Len(stack)] = f
  BY TopIs, ExceptSeq DEF StackOK, Become
<1>2. stack' # <<>> /\ Top' = f
  BY <1>1 DEF Top
<1>3. OnlyTopIsPending' /\ IdsDiffer'
  BY <1>1 DEF StackOK, OnlyTopIsPending, IdsDiffer, CallFrames
<1>4. Pending' = IF f.step \in {"converting", "releasing"} THEN Ids(f) ELSE {}
  BY <1>2 DEF Pending, At, Ids
<1>5. \A k \in CallFrames' : k = Len(stack) \/ (k \in CallFrames /\ stack'[k] = stack[k])
  BY <1>1 DEF CallFrames
<1> QED
  BY <1>1, <1>2, <1>3, <1>4, <1>5 DEF StackOK

\* Steps of a call outside its callback leave the callbacks alone.
LEMMA BecameQuiet ==
  ASSUME StackOK, stack # <<>>, NEW f \in Frame, Become(f), f.step # "script",
         \A i, j \in 1..Len(f.ids) : f.ids[i] = f.ids[j] => i = j,
         Top.step # "host", f.step # "host"
  PROVE  SameCallbacks
<1>1. /\ Len(stack') = Len(stack) /\ Top' = f /\ Top' = stack'[Len(stack)]
      /\ \A k \in 1..Len(stack) : k # Len(stack) => stack'[k] = stack[k]
  BY Became DEF Top
<1> QED
  BY <1>1 DEF SameCallbacks, HostFrames, Top

----------------------------------------------------------------------------
(* The parts of the invariant.                                              *)

ArgsOK == ArgsAreIds /\ ArgsDiffer /\ ArgsEndWithTheCall

LEMMA Parts ==
  ASSUME IInv
  PROVE  /\ StoreOK /\ RefsOK /\ StackOK /\ HandlesAreUsed /\ ArgsOK /\ Counted
         /\ open \in BOOLEAN /\ (open \/ stack = <<>>)
BY DEF IInv, TypeOK, StoreOK, RefsOK, StackOK, ArgsOK

LEMMA Whole ==
  ASSUME StoreOK', RefsOK', StackOK', HandlesAreUsed', ArgsOK', Counted',
         open' \in BOOLEAN, open' \/ stack' = <<>>
  PROVE  IInv'
BY DEF IInv, TypeOK, StoreOK, RefsOK, StackOK, ArgsOK

\* The callbacks keep their arguments whatever the host does with its own.
LEMMA ArgsKept ==
  ASSUME ArgsOK, RefsOK, RefsOK', SameCallbacks, Len(refs) <= Len(refs'),
         \A r \in 1..Len(refs) : /\ refs'[r].id = refs[r].id /\ (refs'[r].arg <=> refs[r].arg)
                                 /\ refs[r].arg => (refs'[r].closed <=> refs[r].closed),
         \A r \in 1..Len(refs') : r \notin 1..Len(refs) => ~refs'[r].arg
  PROVE  ArgsOK'
<1>1. /\ HostFrames' = HostFrames
      /\ \A k \in HostFrames : stack'[k] = stack[k] /\ Ids(stack'[k]) = Ids(stack[k])
  BY DEF SameCallbacks, Ids
<1>2. \A r \in 1..Len(refs) : r \in 1..Len(refs')
  BY DEF RefsOK
<1>3. ArgsDiffer'
  BY <1>1 DEF ArgsOK, ArgsDiffer
<1>4. ArgsAreIds'
  <2> SUFFICES ASSUME NEW k \in HostFrames
      PROVE  /\ \A r \in stack[k].args :
                  /\ r \in 1..Len(refs') /\ refs'[r].arg /\ ~refs'[r].closed
                  /\ refs'[r].id \in Ids(stack[k])
             /\ \A h \in Ids(stack[k]) : \E r \in stack[k].args : refs'[r].id = h
             /\ \A r, s \in stack[k].args : refs'[r].id = refs'[s].id => r = s
    BY <1>1 DEF ArgsAreIds
  <2>1. /\ \A r \in stack[k].args :
             r \in 1..Len(refs) /\ refs[r].arg /\ ~refs[r].closed /\ refs[r].id \in Ids(stack[k])
        /\ \A h \in Ids(stack[k]) : \E r \in stack[k].args : refs[r].id = h
        /\ \A r, s \in stack[k].args : refs[r].id = refs[s].id => r = s
    BY DEF ArgsOK, ArgsAreIds
  <2>2. \A r \in stack[k].args :
          refs'[r].id = refs[r].id /\ refs'[r].arg /\ ~refs'[r].closed /\ r \in 1..Len(refs')
    BY <1>2, <2>1
  <2> QED
    BY <2>1, <2>2
<1>5. ArgsEndWithTheCall'
  <2> SUFFICES ASSUME NEW r \in 1..Len(refs'), refs'[r].arg, ~refs'[r].closed
               PROVE  \E k \in HostFrames' : r \in stack'[k].args
    BY DEF ArgsEndWithTheCall, HostFrames
  <2>1. r \in 1..Len(refs) /\ refs[r].arg /\ ~refs[r].closed
    OBVIOUS
  <2>2. PICK k \in HostFrames : r \in stack[k].args
    BY <2>1 DEF ArgsOK, ArgsEndWithTheCall, HostFrames
  <2> QED
    BY <1>1, <2>2
<1> QED
  BY <1>3, <1>4, <1>5 DEF ArgsOK

\* The same references and handles, held in another step of the call.
LEMMA QuietStep ==
  ASSUME IInv, UNCHANGED <<live, used, open, refs>>, open, StackOK', SameCallbacks,
         Pending' = Pending, \A k \in CallFrames' : Ids(stack'[k]) \subseteq used
  PROVE  IInv'
<1>1. StoreOK' /\ RefsOK'
  BY Parts DEF StoreOK, RefsOK
<1>2. ArgsOK'
  BY <1>1, Parts, ArgsKept DEF RefsOK
<1>3. HandlesAreUsed'
  BY Parts DEF HandlesAreUsed
<1>4. Counted'
  <2> SUFFICES ASSUME NEW h \in RefId
      PROVE  Owners(h)' = Cardinality(OpenRefs(h)') + (IF h \in Pending' THEN 1 ELSE 0)
    BY DEF Counted
  <2>1. Owners(h)' = Owners(h) /\ OpenRefs(h)' = OpenRefs(h)
    BY DEF Owners, IsLive, Store!LiveIds, OpenRefs
  <2> QED
    BY <2>1, Parts DEF Counted
<1> QED
  BY <1>1, <1>2, <1>3, <1>4, Parts, Whole

\* Where neither a call is prepared nor wound up, js_kmp_host holds nothing.
LEMMA NothingPending ==
  ASSUME ~At("converting"), ~At("releasing")
  PROVE  Pending = {}
BY DEF Pending

LEMMA OneStep ==
  ASSUME NEW s, At(s)
  PROVE  stack # <<>> /\ Top.step = s /\ \A t : At(t) => t = s
BY DEF At

----------------------------------------------------------------------------
(* The steps that only move the stack.                                      *)

LEMMA PushKeeps ==
  ASSUME IInv, open, ~At("converting"), ~At("releasing"), NEW f \in Frame, Push(f),
         f.step # "host", f.step # "script" => f.ids = <<>>,
         UNCHANGED <<live, used, open, refs>>
  PROVE  IInv'
<1>1. /\ StackOK' /\ SameCallbacks /\ Pending' = {}
      /\ \A k \in CallFrames' : Ids(stack'[k]) = {} \/ (k \in CallFrames /\ stack'[k] = stack[k])
  BY Parts, Pushed
<1>2. \A k \in CallFrames' : Ids(stack'[k]) \subseteq used
  BY <1>1, Parts DEF HandlesAreUsed, Ids
<1> QED
  BY <1>1, <1>2, NothingPending, QuietStep

LEMMA PopKeeps ==
  ASSUME IInv, open, stack # <<>>, Top.step # "host", Pending = {}, Pop,
         UNCHANGED <<live, used, open, refs>>
  PROVE  IInv'
<1>1. /\ StackOK' /\ SameCallbacks /\ Pending' = {}
      /\ \A k \in CallFrames' : k \in CallFrames /\ stack'[k] = stack[k]
  BY Parts, Popped
<1>2. \A k \in CallFrames' : Ids(stack'[k]) \subseteq used
  BY <1>1, Parts DEF HandlesAreUsed, Ids
<1> QED
  BY <1>1, <1>2, QuietStep

LEMMA RunScriptKeeps ==
  ASSUME IInv, open, HostRuns, NEW gives \in BOOLEAN, RunScript(gives)
  PROVE  IInv'
<1>1. ~At("converting") /\ ~At("releasing")
  BY DEF HostRuns, At
<1>2. PICK f \in Frame : f = [step |-> "script", gives |-> gives]
  BY DEF Frame, ScriptFrame
<1>3. Push(f) /\ f.step = "script" /\ UNCHANGED <<live, used, open, refs>>
  BY <1>2 DEF RunScript
<1> QED
  BY <1>1, <1>3, PushKeeps

LEMMA ScriptCallsHostKeeps ==
  ASSUME IInv, NEW argc \in 0..MaxArgs, ScriptCallsHost(argc)
  PROVE  IInv'
<1>1. ~At("converting") /\ ~At("releasing") /\ stack # <<>>
  BY DEF ScriptCallsHost, At
<1>2. open
  BY <1>1, Parts
<1>3. PICK f : f = [step |-> "converting", left |-> argc, ids |-> <<>>, args |-> {}]
  OBVIOUS
<1>4. f \in Frame
  BY <1>3 DEF Frame, CallFrame
<1>5. Push(f) /\ f.step = "converting" /\ f.ids = <<>> /\ UNCHANGED <<live, used, open, refs>>
  BY <1>3 DEF ScriptCallsHost
<1> QED
  BY <1>1, <1>2, <1>4, <1>5, PushKeeps

LEMMA EndKeeps ==
  ASSUME IInv, ScriptEnds \/ HostCallEnds
  PROVE  IInv'
<1>1. stack # <<>> /\ Top.step # "host" /\ Pop /\ UNCHANGED <<live, used, open, refs>>
  BY DEF ScriptEnds, HostCallEnds, At
<1>2. open
  BY <1>1, Parts
<1>3. Pending = {}
  BY DEF ScriptEnds, HostCallEnds, At, Pending, Ids
<1> QED
  BY <1>1, <1>2, <1>3, PopKeeps

\* A call being prepared or wound up, and what may become of it.
LEMMA CallTop ==
  ASSUME IInv, stack # <<>>, Top.step # "script"
  PROVE  /\ open /\ Len(stack) \in CallFrames
         /\ Top \in CallFrame /\ Top.ids \in Seq(RefId) /\ Top.left \in 0..MaxArgs
         /\ Top.args \in SUBSET (1..MaxRefs)
         /\ \A i, j \in 1..Len(Top.ids) : Top.ids[i] = Top.ids[j] => i = j
         /\ Ids(Top) \subseteq used /\ Ids(Top) \subseteq RefId
<1>1. open /\ StackOK /\ HandlesAreUsed /\ StoreOK
  BY Parts
<1>2. Len(stack) \in CallFrames /\ Top \in Frame /\ Top = stack[Len(stack)]
  BY <1>1, TopIs DEF CallFrames
<1>3. /\ \A i, j \in 1..Len(Top.ids) : Top.ids[i] = Top.ids[j] => i = j
      /\ Ids(Top) \subseteq used
  BY <1>1, <1>2 DEF StackOK, IdsDiffer, HandlesAreUsed, Ids
<1> QED
  BY <1>1, <1>2, <1>3, FrameIs DEF StoreOK

LEMMA ConversionFailsKeeps ==
  ASSUME IInv, ConversionFails
  PROVE  IInv'
<1>1. /\ stack # <<>> /\ Top.step = "converting" /\ UNCHANGED <<live, used, open, refs>>
      /\ Become([Top EXCEPT !.step = "releasing"])
  BY DEF ConversionFails, At, AfterFailure
<1>2. PICK f : f = [Top EXCEPT !.step = "releasing"]
  OBVIOUS
<1>3. f \in Frame /\ f.step = "releasing" /\ f.ids = Top.ids
  BY <1>1, <1>2, CallTop DEF CallFrame, Frame
<1>4. /\ StackOK' /\ Pending' = Ids(f) /\ SameCallbacks
      /\ \A k \in CallFrames' : k = Len(stack) \/ (k \in CallFrames /\ stack'[k] = stack[k])
      /\ stack'[Len(stack)] = f
  <2>1. Become(f)
    BY <1>1, <1>2
  <2> QED
    BY <1>1, <1>3, <2>1, CallTop, Parts, Became, BecameQuiet DEF Top
<1>5. Ids(f) = Ids(Top) /\ Pending = Ids(Top)
  BY <1>1, <1>3 DEF Ids, Pending, At
<1>6. \A k \in CallFrames' : Ids(stack'[k]) \subseteq used
  <2>1. Ids(f) \subseteq used /\ \A k \in CallFrames : Ids(stack[k]) \subseteq used
    BY <1>1, <1>5, CallTop, Parts DEF HandlesAreUsed
  <2>2. \A k \in CallFrames' : stack'[k] = f \/ (k \in CallFrames /\ stack'[k] = stack[k])
    BY <1>4
  <2> QED
    BY <2>1, <2>2 DEF Ids
<1> QED
  BY <1>1, <1>4, <1>5, <1>6, CallTop, QuietStep

----------------------------------------------------------------------------
(* The steps that make and take back references.                            *)

\* One handle's count moves with its JsRefs and with what js_kmp_host holds.
LEMMA OneCountMoves ==
  ASSUME Counted, open, NEW h \in RefId,
         \A g \in RefId : g # h => /\ Owners(g)' = Owners(g)
                                   /\ OpenRefs(g)' = OpenRefs(g)
                                   /\ g \in Pending' <=> g \in Pending,
         Owners(h)' = Cardinality(OpenRefs(h)') + (IF h \in Pending' THEN 1 ELSE 0)
  PROVE  Counted'
<1> SUFFICES ASSUME NEW g \in RefId
    PROVE  Owners(g)' = Cardinality(OpenRefs(g)') + (IF g \in Pending' THEN 1 ELSE 0)
  BY DEF Counted
<1>1. CASE g = h
  BY <1>1
<1>2. CASE g # h
  BY <1>2 DEF Counted
<1> QED
  BY <1>1, <1>2

\* No JsRef has a handle that was never issued, and no call holds it.
LEMMA UnusedHandle ==
  ASSUME IInv, NEW h \in RefId, h \notin used
  PROVE  OpenRefs(h) = {} /\ Cardinality(OpenRefs(h)) = 0 /\ h \notin Pending
<1>1. OpenRefs(h) = {}
  BY Parts DEF OpenRefs, HandlesAreUsed
<1>2. Cardinality(OpenRefs(h)) = 0
  BY <1>1, FS_EmptySet
<1>3. h \notin Pending
  BY CallTop DEF Pending, At
<1> QED
  BY <1>1, <1>2, <1>3

\* An open JsRef, and a handle held for a call, have an owner.
LEMMA OpenIsLive ==
  ASSUME IInv, open, NEW h \in RefId, OpenRefs(h) # {} \/ h \in Pending
  PROVE  IsLive(h)
<1>1. /\ StoreOK /\ RefsOK
      /\ Owners(h) = Cardinality(OpenRefs(h)) + (IF h \in Pending THEN 1 ELSE 0)
  BY Parts DEF Counted
<1>2. Cardinality(OpenRefs(h)) \in Nat /\ IsFiniteSet(OpenRefs(h))
  BY <1>1, OpenRefsAreFinite
<1>3. OpenRefs(h) # {} => Cardinality(OpenRefs(h)) # 0
  BY <1>2, FS_EmptySet
<1>4. Owners(h) # 0
  BY <1>1, <1>2, <1>3
<1> QED
  BY <1>1, <1>4, OwnersAre

LEMMA ScriptGivesKeeps ==
  ASSUME IInv, NEW h \in RefId, NEW v \in Object, ScriptGives(h, v)
  PROVE  IInv'
<1>1. /\ stack # <<>> /\ Top.step = "script" /\ Len(refs) < MaxRefs /\ Store!New(h, v)
      /\ refs' = Append(refs, [id |-> h, closed |-> FALSE, arg |-> FALSE])
      /\ Pop /\ open' = open
  BY DEF ScriptGives, At, Decoded
<1>2. open /\ Pending = {}
  BY <1>1, Parts DEF Pending, At
<1>3. /\ StackOK' /\ SameCallbacks /\ Pending' = {}
      /\ \A k \in CallFrames' : k \in CallFrames /\ stack'[k] = stack[k]
  BY <1>1, Parts, Popped
<1>4. /\ StoreOK' /\ used' = used \cup {h} /\ h \notin used /\ Owners(h)' = 1
      /\ \A g \in RefId : g # h => Owners(g)' = Owners(g)
  BY <1>1, Parts, NewOwner
<1>5. /\ RefsOK' /\ Len(refs') = Len(refs) + 1
      /\ \A r \in 1..Len(refs) : refs'[r] = refs[r]
      /\ refs'[Len(refs) + 1] = [id |-> h, closed |-> FALSE, arg |-> FALSE]
      /\ Cardinality(OpenRefs(h)') = Cardinality(OpenRefs(h)) + 1
      /\ \A g : g # h => OpenRefs(g)' = OpenRefs(g)
  BY <1>1, Parts, OneMoreRef, JsRefsConstants
<1>6. Cardinality(OpenRefs(h)) = 0
  BY <1>4, UnusedHandle
<1>7. Counted'
  BY <1>2, <1>3, <1>4, <1>5, <1>6, Parts, OneCountMoves
<1>8. HandlesAreUsed'
  <2>1. \A r \in 1..Len(refs') : r = Len(refs) + 1 \/ r \in 1..Len(refs)
    BY <1>5, Parts DEF RefsOK
  <2>2. \A r \in 1..Len(refs') : refs'[r].id \in used'
    BY <1>4, <1>5, <2>1, Parts DEF HandlesAreUsed
  <2>3. \A k \in CallFrames' : Ids(stack'[k]) \subseteq used'
    BY <1>3, <1>4, Parts DEF HandlesAreUsed, Ids
  <2> QED
    BY <2>2, <2>3 DEF HandlesAreUsed
<1>9. ArgsOK'
  <2>1. Len(refs) <= Len(refs') /\ \A r \in 1..Len(refs') : r \notin 1..Len(refs) => r = Len(refs) + 1
    BY <1>5, Parts DEF RefsOK
  <2>2. \A r \in 1..Len(refs') : r \notin 1..Len(refs) => ~refs'[r].arg
    BY <1>5, <2>1
  <2> QED
    BY <1>3, <1>5, <2>1, <2>2, Parts, ArgsKept
<1> QED
  BY <1>1, <1>2, <1>3, <1>4, <1>5, <1>7, <1>8, <1>9, Whole

LEMMA ConvertArgKeeps ==
  ASSUME IInv, NEW h \in RefId, NEW v \in Object, ConvertArg(h, v)
  PROVE  IInv'
<1>1. /\ stack # <<>> /\ Top.step = "converting" /\ Top.left > 0 /\ Store!New(h, v)
      /\ Become([Top EXCEPT !.left = @ - 1, !.ids = Append(@, h)])
      /\ UNCHANGED <<open, refs>>
  BY DEF ConvertArg, At
<1>2. PICK f : f = [Top EXCEPT !.left = Top.left - 1, !.ids = Append(Top.ids, h)]
  OBVIOUS
<1>3. /\ open /\ Top \in CallFrame /\ Top.ids \in Seq(RefId) /\ Top.left \in 0..MaxArgs
      /\ \A i, j \in 1..Len(Top.ids) : Top.ids[i] = Top.ids[j] => i = j
      /\ Ids(Top) \subseteq used /\ Ids(Top) \subseteq RefId
      /\ Pending = Ids(Top)
  BY <1>1, CallTop DEF Pending, At
<1>4. /\ f \in Frame /\ f.step = "converting" /\ f.ids = Append(Top.ids, h)
  <2>1. Append(Top.ids, h) \in Seq(RefId) /\ Top.left - 1 \in 0..MaxArgs
    BY <1>1, <1>3, JsRefsConstants
  <2> QED
    BY <1>1, <1>2, <1>3, <2>1 DEF CallFrame, Frame
<1>5. /\ StoreOK' /\ used' = used \cup {h} /\ h \notin used /\ Owners(h)' = 1
      /\ \A g \in RefId : g # h => Owners(g)' = Owners(g)
  BY <1>1, Parts, NewOwner
<1>6. /\ Len(f.ids) = Len(Top.ids) + 1 /\ Len(Top.ids) \in Nat /\ f.ids[Len(Top.ids) + 1] = h
      /\ \A i \in 1..Len(Top.ids) : f.ids[i] = Top.ids[i]
  BY <1>3, <1>4
<1>7. Ids(f) = Ids(Top) \cup {h} /\ h \notin Ids(Top)
  BY <1>3, <1>5, <1>6 DEF Ids
<1>8. \A i, j \in 1..Len(f.ids) : f.ids[i] = f.ids[j] => i = j
  <2>1. \A i \in 1..Len(f.ids) : i = Len(Top.ids) + 1 \/ i \in 1..Len(Top.ids)
    BY <1>6
  <2>2. \A i \in 1..Len(Top.ids) : Top.ids[i] # h
    BY <1>7 DEF Ids
  <2> QED
    BY <1>3, <1>6, <2>1, <2>2
<1>9. Become(f)
  BY <1>1, <1>2
<1>10. /\ StackOK' /\ Pending' = Ids(f) /\ SameCallbacks
       /\ \A k \in CallFrames' : k = Len(stack) \/ (k \in CallFrames /\ stack'[k] = stack[k])
       /\ stack'[Len(stack)] = f
  <2>1. StackOK /\ Top.step # "host" /\ f.step \in {"converting", "releasing"} /\ f.step # "host"
    BY <1>1, <1>4, Parts
  <2>2. SameCallbacks
    BY <1>1, <1>4, <1>8, <1>9, <2>1, BecameQuiet
  <2> QED
    BY <1>1, <1>4, <1>8, <1>9, <2>1, <2>2, Became DEF Top
<1>11. OpenRefs(h) = {} /\ Cardinality(OpenRefs(h)) = 0 /\ \A g : OpenRefs(g)' = OpenRefs(g)
  BY <1>1, <1>5, UnusedHandle DEF OpenRefs
<1>12. Counted'
  <2>1. h \in Pending' /\ \A g \in RefId : g # h => (g \in Pending' <=> g \in Pending)
    BY <1>3, <1>7, <1>10
  <2>2. Cardinality(OpenRefs(h)') = 0
    BY <1>11
  <2> QED
    BY <1>3, <1>5, <1>11, <2>1, <2>2, Parts, OneCountMoves
<1>13. HandlesAreUsed'
  <2>1. \A r \in 1..Len(refs') : refs'[r].id \in used'
    BY <1>1, <1>5, Parts DEF HandlesAreUsed
  <2>2. \A k \in CallFrames' : stack'[k] = f \/ (k \in CallFrames /\ stack'[k] = stack[k])
    BY <1>10
  <2>3. Ids(f) \subseteq used' /\ \A k \in CallFrames : Ids(stack[k]) \subseteq used'
    BY <1>3, <1>5, <1>7, Parts DEF HandlesAreUsed
  <2>4. \A k \in CallFrames' : Ids(stack'[k]) \subseteq used'
    BY <2>2, <2>3 DEF Ids
  <2> QED
    BY <2>1, <2>4 DEF HandlesAreUsed
<1>14. RefsOK' /\ ArgsOK'
  <2>1. RefsOK' /\ Len(refs) <= Len(refs')
    BY <1>1, Parts DEF RefsOK
  <2> QED
    BY <1>1, <1>10, <2>1, Parts, ArgsKept
<1> QED
  BY <1>1, <1>3, <1>5, <1>10, <1>12, <1>13, <1>14, Whole

\* js_kmp_host releases the first of the handles it still holds.
LEMMA ReleaseArgKeeps ==
  ASSUME IInv, ReleaseArg
  PROVE  IInv'
<1> DEFINE h == Head(Top.ids)
<1>1. /\ stack # <<>> /\ Top.step = "releasing" /\ Top.ids # <<>> /\ ReleaseHandle(h)
      /\ Become([Top EXCEPT !.ids = Tail(Top.ids)]) /\ UNCHANGED <<open, refs>>
  BY DEF ReleaseArg, At
<1>2. PICK f : f = [Top EXCEPT !.ids = Tail(Top.ids)]
  OBVIOUS
<1>3. /\ open /\ Top \in CallFrame /\ Top.ids \in Seq(RefId)
      /\ \A i, j \in 1..Len(Top.ids) : Top.ids[i] = Top.ids[j] => i = j
      /\ Ids(Top) \subseteq used /\ Ids(Top) \subseteq RefId
      /\ Pending = Ids(Top)
  BY <1>1, CallTop DEF Pending, At
<1>4. /\ Tail(Top.ids) \in Seq(RefId) /\ Len(Tail(Top.ids)) = Len(Top.ids) - 1
      /\ Len(Top.ids) \in Nat /\ Len(Top.ids) > 0 /\ h = Top.ids[1]
      /\ \A i \in 1..Len(Tail(Top.ids)) : Tail(Top.ids)[i] = Top.ids[i+1]
  BY <1>1, <1>3, HeadTailProperties
<1>5. f \in Frame /\ f.step = "releasing" /\ f.ids = Tail(Top.ids)
  BY <1>1, <1>2, <1>3, <1>4 DEF CallFrame, Frame
<1> HIDE DEF h
<1>6. h \in Ids(Top) /\ h \in RefId /\ Ids(f) = Ids(Top) \ {h}
  <2>1. h \in Ids(Top)
    BY <1>4 DEF Ids
  <2>2. \A i \in 1..Len(f.ids) : i + 1 \in 1..Len(Top.ids) /\ f.ids[i] = Top.ids[i+1] /\ i + 1 # 1
    BY <1>4, <1>5
  <2>3. 1 \in 1..Len(Top.ids)
    BY <1>4
  <2>4. Ids(f) \subseteq Ids(Top) \ {h}
    BY <1>3, <1>4, <2>2, <2>3 DEF Ids
  <2>5. ASSUME NEW g \in Ids(Top), g # h PROVE g \in Ids(f)
    <3>1. PICK i \in 1..Len(Top.ids) : Top.ids[i] = g
      BY DEF Ids
    <3>2. i # 1
      BY <1>4, <2>5, <3>1
    <3>3. i - 1 \in 1..Len(f.ids) /\ (i - 1) + 1 = i
      BY <1>4, <1>5, <3>1, <3>2
    <3>4. f.ids[i-1] = g
      BY <2>2, <3>1, <3>3
    <3> QED
      BY <3>3, <3>4 DEF Ids
  <2> QED
    BY <1>3, <2>1, <2>4, <2>5
<1>7. \A i, j \in 1..Len(f.ids) : f.ids[i] = f.ids[j] => i = j
  <2> SUFFICES ASSUME NEW i \in 1..Len(f.ids), NEW j \in 1..Len(f.ids), f.ids[i] = f.ids[j]
               PROVE  i = j
    OBVIOUS
  <2>1. i + 1 \in 1..Len(Top.ids) /\ j + 1 \in 1..Len(Top.ids) /\ Top.ids[i+1] = Top.ids[j+1]
    BY <1>4, <1>5
  <2>2. i + 1 = j + 1
    BY <1>3, <2>1
  <2> QED
    BY <2>2
<1>8. Become(f)
  BY <1>1, <1>2
<1>9. /\ StackOK' /\ Pending' = Ids(f) /\ SameCallbacks
      /\ \A k \in CallFrames' : k = Len(stack) \/ (k \in CallFrames /\ stack'[k] = stack[k])
      /\ stack'[Len(stack)] = f
  <2>1. StackOK /\ Top.step # "host" /\ f.step \in {"converting", "releasing"} /\ f.step # "host"
    BY <1>1, <1>5, Parts
  <2>2. SameCallbacks
    BY <1>1, <1>5, <1>7, <1>8, <2>1, BecameQuiet
  <2> QED
    BY <1>1, <1>5, <1>7, <1>8, <2>1, <2>2, Became DEF Top
<1>10. PICK g : g = h
  OBVIOUS
<1>11. /\ StoreOK' /\ used' = used /\ Owners(g)' = Owners(g) - 1
       /\ \A i \in RefId : i # g => Owners(i)' = Owners(i)
  <2>1. IsLive(g) /\ g \in RefId /\ ReleaseHandle(g)
    BY <1>1, <1>3, <1>6, <1>10, OpenIsLive
  <2> QED
    BY <2>1, Parts, OneOwnerLess
<1>12. \A i : OpenRefs(i)' = OpenRefs(i)
  BY <1>1 DEF OpenRefs
<1>13. Counted'
  <2>1. g \notin Pending' /\ g \in Pending /\ \A i \in RefId : i # g => (i \in Pending' <=> i \in Pending)
    BY <1>3, <1>6, <1>9, <1>10
  <2>2. Owners(g) = Cardinality(OpenRefs(g)) + 1 /\ Cardinality(OpenRefs(g)) \in Nat
    BY <1>3, <1>6, <1>10, <2>1, Parts, OpenRefsAreFinite DEF Counted
  <2>3. Owners(g)' = Cardinality(OpenRefs(g)')
    BY <1>11, <1>12, <2>2
  <2>4. Cardinality(OpenRefs(g)') \in Nat
    BY <1>12, <2>2
  <2> QED
    BY <1>3, <1>6, <1>10, <1>11, <1>12, <2>1, <2>3, <2>4, Parts, OneCountMoves
<1>14. HandlesAreUsed'
  <2>1. \A r \in 1..Len(refs') : refs'[r].id \in used'
    BY <1>1, <1>11, Parts DEF HandlesAreUsed
  <2>2. \A k \in CallFrames' : stack'[k] = f \/ (k \in CallFrames /\ stack'[k] = stack[k])
    BY <1>9
  <2>3. Ids(f) \subseteq used' /\ \A k \in CallFrames : Ids(stack[k]) \subseteq used'
    BY <1>3, <1>6, <1>11, Parts DEF HandlesAreUsed
  <2>4. \A k \in CallFrames' : Ids(stack'[k]) \subseteq used'
    BY <2>2, <2>3 DEF Ids
  <2> QED
    BY <2>1, <2>4 DEF HandlesAreUsed
<1>15. RefsOK' /\ ArgsOK'
  <2>1. RefsOK' /\ Len(refs) <= Len(refs')
    BY <1>1, Parts DEF RefsOK
  <2> QED
    BY <1>1, <1>9, <2>1, Parts, ArgsKept
<1> QED
  BY <1>1, <1>3, <1>9, <1>11, <1>13, <1>14, <1>15, Whole

\* onHostCall decodes the arguments: each handle gets its JsRef.
LEMMA CallHostKeeps ==
  ASSUME IInv, CallHost
  PROVE  IInv'
<1> DEFINE L == Len(refs)
           n == Len(Top.ids)
<1>1. /\ stack # <<>> /\ Top.step = "converting" /\ L + n <= MaxRefs
      /\ refs' = refs \o [k \in 1..n |-> [id |-> Top.ids[k], closed |-> FALSE, arg |-> TRUE]]
      /\ Become([Top EXCEPT !.step = "host", !.args = (L+1)..(L+n)])
      /\ UNCHANGED <<live, used, open>>
  BY DEF CallHost, At
<1>2. PICK f : f = [Top EXCEPT !.step = "host", !.args = (L+1)..(L+n)]
  OBVIOUS
<1>3. /\ open /\ Top \in CallFrame /\ Top.ids \in Seq(RefId)
      /\ \A i, j \in 1..n : Top.ids[i] = Top.ids[j] => i = j
      /\ Ids(Top) \subseteq used /\ Ids(Top) \subseteq RefId
      /\ Pending = Ids(Top) /\ n \in Nat /\ L \in Nat
  BY <1>1, CallTop, Parts DEF Pending, At, RefsOK
<1> HIDE DEF L, n
<1>4. f \in Frame /\ f.step = "host" /\ f.ids = Top.ids /\ f.args = (L+1)..(L+n)
  <2>1. (L+1)..(L+n) \in SUBSET (1..MaxRefs)
    BY <1>1, <1>3, JsRefsConstants
  <2> QED
    BY <1>2, <1>3, <2>1 DEF CallFrame, Frame
<1>5. Ids(f) = Ids(Top)
  BY <1>4 DEF Ids
<1>6. /\ RefsOK' /\ Len(refs') = L + n
      /\ \A r \in 1..L : refs'[r] = refs[r]
      /\ \A j \in 1..n : refs'[L+j] = [id |-> Top.ids[j], closed |-> FALSE, arg |-> TRUE]
  <2>1. PICK new : new = [k \in 1..n |-> [id |-> Top.ids[k], closed |-> FALSE, arg |-> TRUE]]
    OBVIOUS
  <2>2. \A k \in 1..n : Top.ids[k] \in RefId
    BY <1>3 DEF n
  <2>3. \A k \in 1..n : [id |-> Top.ids[k], closed |-> FALSE, arg |-> TRUE] \in JsRef
    BY <2>2 DEF JsRef
  <2>4. new \in Seq(JsRef) /\ Len(new) = n
    BY <1>3, <2>1, <2>3
  <2>5. refs \in Seq(JsRef) /\ refs' = refs \o new
    BY <1>1, <2>1, Parts DEF RefsOK
  <2>6. /\ refs' \in Seq(JsRef) /\ Len(refs') = L + n
        /\ \A i \in 1..(L + n) : refs'[i] = IF i <= L THEN refs[i] ELSE new[i - L]
    BY <2>4, <2>5, ConcatProperties DEF L
  <2>7. \A r \in 1..L : refs'[r] = refs[r]
    BY <1>3, <2>6
  <2>8. \A j \in 1..n : refs'[L+j] = new[j]
    <3> SUFFICES ASSUME NEW j \in 1..n PROVE refs'[L+j] = new[j]
      OBVIOUS
    <3>1. L + j \in 1..(L + n) /\ ~(L + j <= L) /\ (L + j) - L = j
      BY <1>3
    <3> QED
      BY <2>6, <3>1
  <2>9. RefsOK'
    BY <1>1, <2>6 DEF RefsOK
  <2> QED
    BY <2>1, <2>6, <2>7, <2>8, <2>9
<1>7. \A j \in 1..n : /\ refs'[L+j].id = Top.ids[j] /\ refs'[L+j].arg /\ ~refs'[L+j].closed
                      /\ L + j \in 1..Len(refs') /\ L + j \notin 1..L
  <2> SUFFICES ASSUME NEW j \in 1..n
      PROVE  /\ refs'[L+j].id = Top.ids[j] /\ refs'[L+j].arg /\ ~refs'[L+j].closed
             /\ L + j \in 1..Len(refs') /\ L + j \notin 1..L
    OBVIOUS
  <2>1. refs'[L+j] = [id |-> Top.ids[j], closed |-> FALSE, arg |-> TRUE]
    BY <1>6
  <2>2. L + j \in 1..Len(refs') /\ L + j \notin 1..L
    BY <1>3, <1>6
  <2> QED
    BY <2>1, <2>2
<1>8. \A r \in 1..Len(refs') : r \in 1..L \/ \E j \in 1..n : r = L + j
  <2> SUFFICES ASSUME NEW r \in 1..Len(refs'), r \notin 1..L PROVE \E j \in 1..n : r = L + j
    OBVIOUS
  <2>1. r - L \in 1..n /\ r = L + (r - L)
    BY <1>3, <1>6
  <2> QED
    BY <2>1
<1>9. Become(f)
  BY <1>1, <1>2
<1>10. /\ StackOK' /\ Pending' = {} /\ Len(stack') = Len(stack)
       /\ \A k \in CallFrames' : k = Len(stack) \/ (k \in CallFrames /\ stack'[k] = stack[k])
       /\ \A k \in 1..Len(stack) : k # Len(stack) => stack'[k] = stack[k]
       /\ stack'[Len(stack)] = f /\ Len(stack) \in 1..Len(stack)
  <2>1. \A i, j \in 1..Len(f.ids) : f.ids[i] = f.ids[j] => i = j
    BY <1>3, <1>4 DEF n
  <2>2. StackOK /\ f.step # "script"
    BY <1>4, Parts
  <2> QED
    BY <1>1, <1>4, <1>9, <2>1, <2>2, Became, TopIs DEF Top
\* Each handle gains an open JsRef and loses the hold of js_kmp_host.
<1>11. Counted'
  <2> SUFFICES ASSUME NEW h \in RefId
      PROVE  Owners(h)' = Cardinality(OpenRefs(h)') + (IF h \in Pending' THEN 1 ELSE 0)
    BY DEF Counted
  <2>0. h \notin Pending'
    BY <1>10
  <2>1. Owners(h)' = Owners(h)
    BY <1>1 DEF Owners, IsLive, Store!LiveIds
  <2>2. /\ Owners(h) = Cardinality(OpenRefs(h)) + (IF h \in Ids(Top) THEN 1 ELSE 0)
        /\ IsFiniteSet(OpenRefs(h)) /\ Cardinality(OpenRefs(h)) \in Nat
    BY <1>3, Parts, OpenRefsAreFinite DEF Counted
  <2>3. \A r \in 1..L : r \in OpenRefs(h)' <=> r \in OpenRefs(h)
    BY <1>3, <1>6 DEF OpenRefs, L
  <2>4. OpenRefs(h) \subseteq 1..L /\ OpenRefs(h)' \subseteq 1..Len(refs')
    BY DEF OpenRefs, L
  <2>5. \A j \in 1..n : L + j \in OpenRefs(h)' <=> Top.ids[j] = h
    BY <1>7 DEF OpenRefs
  <2>6. CASE h \in Ids(Top)
    <3>1. PICK j \in 1..n : Top.ids[j] = h
      BY <2>6 DEF Ids, n
    <3>2. \A i \in 1..n : Top.ids[i] = h => i = j
      BY <1>3, <3>1
    <3>3. OpenRefs(h)' = OpenRefs(h) \cup {L + j} /\ L + j \notin OpenRefs(h)
      BY <1>7, <1>8, <2>3, <2>4, <2>5, <3>1, <3>2
    <3>4. Cardinality(OpenRefs(h)') = Cardinality(OpenRefs(h)) + 1
      BY <2>2, <3>3, FS_AddElement
    <3> QED
      BY <2>0, <2>1, <2>2, <2>6, <3>4
  <2>7. CASE h \notin Ids(Top)
    <3>1. \A j \in 1..n : Top.ids[j] # h
      BY <2>7 DEF Ids, n
    <3>2. OpenRefs(h)' = OpenRefs(h)
      BY <1>8, <2>3, <2>4, <2>5, <3>1
    <3> QED
      BY <2>0, <2>1, <2>2, <2>7, <3>2
  <2> QED
    BY <2>6, <2>7
<1>12. HandlesAreUsed'
  <2>1. \A j \in 1..n : Top.ids[j] \in used
    BY <1>3 DEF Ids, n
  <2>2. \A r \in 1..Len(refs') : refs'[r].id \in used'
    <3>1. \A r \in 1..L : refs'[r].id \in used
      BY <1>6, Parts DEF HandlesAreUsed, L
    <3>2. \A j \in 1..n : refs'[L+j].id \in used
      BY <1>7, <2>1
    <3> QED
      BY <1>1, <1>8, <3>1, <3>2
  <2>3. \A k \in CallFrames' : stack'[k] = f \/ (k \in CallFrames /\ stack'[k] = stack[k])
    BY <1>10
  <2>4. Ids(f) \subseteq used' /\ \A k \in CallFrames : Ids(stack[k]) \subseteq used'
    BY <1>1, <1>3, <1>5, Parts DEF HandlesAreUsed
  <2>5. \A k \in CallFrames' : Ids(stack'[k]) \subseteq used'
    BY <2>3, <2>4 DEF Ids
  <2> QED
    BY <2>2, <2>5 DEF HandlesAreUsed
<1>13. /\ HostFrames' = HostFrames \cup {Len(stack)} /\ Len(stack) \notin HostFrames
       /\ \A k \in HostFrames : stack'[k] = stack[k]
  BY <1>1, <1>4, <1>10 DEF HostFrames, Top
<1>14. /\ ArgsAreIds /\ ArgsDiffer /\ ArgsEndWithTheCall
  BY Parts DEF ArgsOK
<1>15. \A k \in HostFrames : stack[k].args \subseteq 1..L
  BY <1>14 DEF ArgsAreIds, L
<1>16. \A r \in f.args : r \notin 1..L /\ \E j \in 1..n : r = L + j
  <2> SUFFICES ASSUME NEW r \in f.args PROVE r \notin 1..L /\ \E j \in 1..n : r = L + j
    OBVIOUS
  <2>1. r \notin 1..L /\ r - L \in 1..n /\ r = L + (r - L)
    BY <1>3, <1>4
  <2> QED
    BY <2>1
<1>17. \A j \in 1..n : L + j \in f.args
  BY <1>3, <1>4
<1>18. ArgsDiffer'
  BY <1>10, <1>13, <1>14, <1>15, <1>16 DEF ArgsDiffer
<1>19. ArgsAreIds'
  <2>1. \A k \in HostFrames : Ids(stack'[k]) = Ids(stack[k])
    BY <1>13 DEF Ids
  <2>2. ASSUME NEW k \in HostFrames
        PROVE  /\ \A r \in stack[k].args : /\ r \in 1..Len(refs') /\ refs'[r].arg
                                           /\ ~refs'[r].closed /\ refs'[r].id \in Ids(stack[k])
               /\ \A h \in Ids(stack[k]) : \E r \in stack[k].args : refs'[r].id = h
               /\ \A r, s \in stack[k].args : refs'[r].id = refs'[s].id => r = s
    <3>1. \A r \in stack[k].args : refs'[r] = refs[r] /\ r \in 1..Len(refs')
      BY <1>3, <1>6, <1>15
    <3> QED
      BY <1>14, <3>1 DEF ArgsAreIds
  <2>3. /\ \A r \in f.args : /\ r \in 1..Len(refs') /\ refs'[r].arg
                             /\ ~refs'[r].closed /\ refs'[r].id \in Ids(f)
        /\ \A h \in Ids(f) : \E r \in f.args : refs'[r].id = h
        /\ \A r, s \in f.args : refs'[r].id = refs'[s].id => r = s
    <3>1. \A r \in f.args : /\ r \in 1..Len(refs') /\ refs'[r].arg
                            /\ ~refs'[r].closed /\ refs'[r].id \in Ids(f)
      <4>1. \A j \in 1..n : Top.ids[j] \in Ids(f)
        BY <1>5 DEF Ids, n
      <4> QED
        BY <1>7, <1>16, <4>1
    <3>2. ASSUME NEW h \in Ids(f) PROVE \E r \in f.args : refs'[r].id = h
      <4>1. PICK j \in 1..n : Top.ids[j] = h
        BY <1>5 DEF Ids, n
      <4> QED
        BY <1>7, <1>17, <4>1
    <3>3. ASSUME NEW r \in f.args, NEW s \in f.args, refs'[r].id = refs'[s].id PROVE r = s
      <4>1. PICK i \in 1..n : r = L + i
        BY <1>16
      <4>2. PICK j \in 1..n : s = L + j
        BY <1>16
      <4>3. Top.ids[i] = Top.ids[j]
        BY <1>7, <3>3, <4>1, <4>2
      <4> QED
        BY <1>3, <4>1, <4>2, <4>3
    <3> QED
      BY <3>1, <3>2, <3>3
  <2>4. Ids(stack'[Len(stack)]) = Ids(f) /\ stack'[Len(stack)].args = f.args
    BY <1>10 DEF Ids
  <2> SUFFICES ASSUME NEW k \in HostFrames'
      PROVE  /\ \A r \in stack'[k].args : /\ r \in 1..Len(refs') /\ refs'[r].arg
                                          /\ ~refs'[r].closed /\ refs'[r].id \in Ids(stack'[k])
             /\ \A h \in Ids(stack'[k]) : \E r \in stack'[k].args : refs'[r].id = h
             /\ \A r, s \in stack'[k].args : refs'[r].id = refs'[s].id => r = s
    BY DEF ArgsAreIds, Ids
  <2>5. CASE k \in HostFrames
    BY <1>13, <2>1, <2>2, <2>5
  <2>6. CASE k = Len(stack)
    BY <2>3, <2>4, <2>6
  <2> QED
    BY <1>13, <2>5, <2>6
<1>20. ArgsEndWithTheCall'
  <2> SUFFICES ASSUME NEW r \in 1..Len(refs'), refs'[r].arg, ~refs'[r].closed
               PROVE  \E k \in HostFrames' : r \in stack'[k].args
    BY DEF ArgsEndWithTheCall, HostFrames
  <2>1. CASE r \in 1..L
    <3>1. PICK k \in HostFrames : r \in stack[k].args
      BY <1>6, <1>14, <2>1 DEF ArgsEndWithTheCall, HostFrames, L
    <3> QED
      BY <1>13, <3>1
  <2>2. CASE r \notin 1..L
    BY <1>8, <1>10, <1>13, <1>17, <2>2
  <2> QED
    BY <2>1, <2>2
<1>21. StoreOK' /\ open' = open
  BY <1>1, Parts DEF StoreOK
<1> QED
  BY <1>3, <1>6, <1>10, <1>11, <1>12, <1>18, <1>19, <1>20, <1>21, Whole DEF ArgsOK

\* The callback is over: its arguments' JsRefs are closed, and js_kmp_host
\* holds their handles again.
LEMMA HostReturnsKeeps ==
  ASSUME IInv, HostReturns
  PROVE  IInv'
<1>1. /\ stack # <<>> /\ Top.step = "host" /\ Top = stack[Len(stack)]
      /\ refs' = [r \in 1..Len(refs) |-> [refs[r] EXCEPT !.closed = @ \/ r \in Top.args]]
      /\ Become([Top EXCEPT !.step = "releasing"])
      /\ UNCHANGED <<live, used, open>>
  BY DEF HostReturns, At, Invalidated, Top
<1>2. PICK f : f = [Top EXCEPT !.step = "releasing"]
  OBVIOUS
<1>3. /\ open /\ Top \in CallFrame /\ Top.ids \in Seq(RefId)
      /\ \A i, j \in 1..Len(Top.ids) : Top.ids[i] = Top.ids[j] => i = j
      /\ Ids(Top) \subseteq used /\ Ids(Top) \subseteq RefId
      /\ Pending = {} /\ Len(stack) \in 1..Len(stack)
  BY <1>1, CallTop, Parts, TopIs DEF Pending, At
<1>4. f \in Frame /\ f.step = "releasing" /\ f.ids = Top.ids
  BY <1>2, <1>3 DEF CallFrame, Frame
<1>5. Ids(f) = Ids(Top)
  BY <1>4 DEF Ids
<1>6. /\ RefsOK' /\ Len(refs') = Len(refs)
      /\ \A r \in 1..Len(refs) : /\ refs'[r].id = refs[r].id
                                 /\ refs'[r].arg <=> refs[r].arg
                                 /\ refs'[r].closed <=> refs[r].closed \/ r \in Top.args
  <2>1. refs \in Seq(JsRef) /\ Len(refs) \in Nat /\ Len(refs) <= MaxRefs
    BY Parts DEF RefsOK
  <2>2. \A r \in 1..Len(refs) : refs[r] \in JsRef
    BY <2>1
  <2>3. \A r \in 1..Len(refs) : refs'[r] = [refs[r] EXCEPT !.closed = @ \/ r \in Top.args]
    BY <1>1
  <2>4. \A r \in 1..Len(refs) :
          /\ refs'[r] \in JsRef
          /\ refs'[r].id = refs[r].id
          /\ refs'[r].arg <=> refs[r].arg
          /\ refs'[r].closed <=> refs[r].closed \/ r \in Top.args
    BY <2>2, <2>3 DEF JsRef
  <2>5. refs' \in Seq(JsRef) /\ Len(refs') = Len(refs)
    BY <1>1, <2>1, <2>4
  <2> QED
    BY <2>1, <2>4, <2>5 DEF RefsOK
<1>7. Become(f)
  BY <1>1, <1>2
<1>8. /\ StackOK' /\ Pending' = Ids(Top) /\ Len(stack') = Len(stack)
      /\ \A k \in CallFrames' : k = Len(stack) \/ (k \in CallFrames /\ stack'[k] = stack[k])
      /\ \A k \in 1..Len(stack) : k # Len(stack) => stack'[k] = stack[k]
      /\ stack'[Len(stack)] = f
  <2>1. \A i, j \in 1..Len(f.ids) : f.ids[i] = f.ids[j] => i = j
    BY <1>3, <1>4
  <2>2. StackOK /\ f.step # "script"
    BY <1>4, Parts
  <2> QED
    BY <1>1, <1>4, <1>5, <1>7, <2>1, <2>2, Became DEF Top
<1>9. /\ HostFrames' = HostFrames \ {Len(stack)} /\ Len(stack) \in HostFrames
      /\ \A k \in HostFrames' : stack'[k] = stack[k]
  BY <1>1, <1>3, <1>4, <1>8 DEF HostFrames
<1>10. /\ ArgsAreIds /\ ArgsDiffer /\ ArgsEndWithTheCall /\ RefsOK
  BY Parts DEF ArgsOK
<1>11. /\ \A r \in Top.args : r \in 1..Len(refs) /\ ~refs[r].closed /\ refs[r].id \in Ids(Top)
       /\ \A h \in Ids(Top) : \E r \in Top.args : refs[r].id = h
       /\ \A r, s \in Top.args : refs[r].id = refs[s].id => r = s
  BY <1>1, <1>9, <1>10 DEF ArgsAreIds
<1>12. Counted'
  <2> SUFFICES ASSUME NEW h \in RefId
      PROVE  Owners(h)' = Cardinality(OpenRefs(h)') + (IF h \in Pending' THEN 1 ELSE 0)
    BY DEF Counted
  <2>1. Owners(h)' = Owners(h)
    BY <1>1 DEF Owners, IsLive, Store!LiveIds
  <2>2. /\ Owners(h) = Cardinality(OpenRefs(h))
        /\ IsFiniteSet(OpenRefs(h)) /\ Cardinality(OpenRefs(h)) \in Nat
    <3>1. Owners(h) = Cardinality(OpenRefs(h)) + (IF h \in Pending THEN 1 ELSE 0)
      BY <1>3, Parts DEF Counted
    <3>2. IsFiniteSet(OpenRefs(h)) /\ Cardinality(OpenRefs(h)) \in Nat
      BY <1>10, OpenRefsAreFinite
    <3> QED
      BY <1>3, <3>1, <3>2
  <2>3. \A r : r \in OpenRefs(h)' <=> r \in OpenRefs(h) /\ r \notin Top.args
    BY <1>6 DEF OpenRefs
  <2>4. CASE h \in Ids(Top)
    <3>1. PICK r \in Top.args : refs[r].id = h
      BY <1>11, <2>4
    <3>2. \A s \in OpenRefs(h) : s \in Top.args => s = r
      BY <1>11, <3>1 DEF OpenRefs
    <3>3. OpenRefs(h)' = OpenRefs(h) \ {r} /\ r \in OpenRefs(h)
      <4>1. r \in OpenRefs(h)
        BY <1>11, <3>1 DEF OpenRefs
      <4> QED
        BY <2>3, <3>1, <3>2, <4>1
    <3>4. Cardinality(OpenRefs(h)') = Cardinality(OpenRefs(h)) - 1
      BY <2>2, <3>3, FS_RemoveElement
    <3> QED
      BY <1>8, <2>1, <2>2, <2>4, <3>4
  <2>5. CASE h \notin Ids(Top)
    <3>1. \A s \in OpenRefs(h) : s \notin Top.args
      BY <1>11, <2>5 DEF OpenRefs
    <3>2. OpenRefs(h)' = OpenRefs(h)
      BY <2>3, <3>1
    <3> QED
      BY <1>8, <2>1, <2>2, <2>5, <3>2
  <2> QED
    BY <2>4, <2>5
<1>13. HandlesAreUsed'
  <2>1. \A r \in 1..Len(refs') : refs'[r].id \in used'
    BY <1>1, <1>6, Parts DEF HandlesAreUsed
  <2>2. \A k \in CallFrames' : stack'[k] = f \/ (k \in CallFrames /\ stack'[k] = stack[k])
    BY <1>8
  <2>3. Ids(f) \subseteq used' /\ \A k \in CallFrames : Ids(stack[k]) \subseteq used'
    BY <1>1, <1>3, <1>5, Parts DEF HandlesAreUsed
  <2>4. \A k \in CallFrames' : Ids(stack'[k]) \subseteq used'
    BY <2>2, <2>3 DEF Ids
  <2> QED
    BY <2>1, <2>4 DEF HandlesAreUsed
<1>14. \A k \in HostFrames' : k \in HostFrames /\ stack[k].args \cap Top.args = {}
  BY <1>1, <1>9, <1>10 DEF ArgsDiffer
<1>15. ArgsDiffer'
  BY <1>9, <1>10 DEF ArgsDiffer
<1>16. ArgsAreIds'
  <2> SUFFICES ASSUME NEW k \in HostFrames'
      PROVE  /\ \A r \in stack'[k].args : /\ r \in 1..Len(refs') /\ refs'[r].arg
                                          /\ ~refs'[r].closed /\ refs'[r].id \in Ids(stack'[k])
             /\ \A h \in Ids(stack'[k]) : \E r \in stack'[k].args : refs'[r].id = h
             /\ \A r, s \in stack'[k].args : refs'[r].id = refs'[s].id => r = s
    BY DEF ArgsAreIds, Ids
  <2>1. stack'[k] = stack[k] /\ Ids(stack'[k]) = Ids(stack[k]) /\ k \in HostFrames
    BY <1>9 DEF Ids
  <2>2. /\ \A r \in stack[k].args :
             r \in 1..Len(refs) /\ refs[r].arg /\ ~refs[r].closed /\ refs[r].id \in Ids(stack[k])
        /\ \A h \in Ids(stack[k]) : \E r \in stack[k].args : refs[r].id = h
        /\ \A r, s \in stack[k].args : refs[r].id = refs[s].id => r = s
    BY <1>10, <2>1 DEF ArgsAreIds
  <2>3. \A r \in stack[k].args :
          refs'[r].id = refs[r].id /\ refs'[r].arg /\ ~refs'[r].closed /\ r \in 1..Len(refs')
    BY <1>6, <1>14, <2>2
  <2> QED
    BY <2>1, <2>2, <2>3
<1>17. ArgsEndWithTheCall'
  <2> SUFFICES ASSUME NEW r \in 1..Len(refs'), refs'[r].arg, ~refs'[r].closed
               PROVE  \E k \in HostFrames' : r \in stack'[k].args
    BY DEF ArgsEndWithTheCall, HostFrames
  <2>1. r \in 1..Len(refs) /\ refs[r].arg /\ ~refs[r].closed /\ r \notin Top.args
    BY <1>6
  <2>2. PICK k \in HostFrames : r \in stack[k].args
    BY <1>10, <2>1 DEF ArgsEndWithTheCall, HostFrames
  <2>3. k # Len(stack)
    BY <1>1, <2>1, <2>2
  <2> QED
    BY <1>9, <2>2, <2>3
<1>18. StoreOK' /\ open' = open
  BY <1>1, Parts DEF StoreOK
<1> QED
  BY <1>3, <1>6, <1>8, <1>12, <1>13, <1>15, <1>16, <1>17, <1>18, Whole DEF ArgsOK

----------------------------------------------------------------------------
(* What the host does with its references.                                  *)

LEMMA StackRests ==
  ASSUME StackOK, UNCHANGED stack
  PROVE  StackOK' /\ SameCallbacks /\ Pending' = Pending /\ CallFrames' = CallFrames
BY DEF StackOK, OnlyTopIsPending, IdsDiffer, CallFrames, SameCallbacks, HostFrames, Pending, At, Top, Ids

LEMMA RetainKeeps ==
  ASSUME IInv, NEW r \in 1..Len(refs), Retain(r)
  PROVE  IInv'
<1>1. PICK h : h = refs[r].id
  OBVIOUS
<1>2. /\ open /\ ~refs[r].closed /\ Len(refs) < MaxRefs /\ RetainHandle(h)
      /\ refs' = Append(refs, [id |-> h, closed |-> FALSE, arg |-> FALSE])
      /\ UNCHANGED <<open, stack>>
  BY <1>1 DEF Retain, Decoded
<1>3. h \in RefId /\ h \in used
  BY <1>1, Parts, RefIs DEF HandlesAreUsed
<1>4. IsLive(h)
  BY <1>1, <1>2, <1>3, OpenIsLive DEF OpenRefs
<1>5. Store!Retain(h)
  BY <1>2, <1>4 DEF RetainHandle
<1>6. /\ StoreOK' /\ used' = used /\ Owners(h)' = Owners(h) + 1
      /\ \A g \in RefId : g # h => Owners(g)' = Owners(g)
  BY <1>3, <1>4, <1>5, Parts, OneMoreOwner
<1>7. /\ RefsOK' /\ Len(refs') = Len(refs) + 1
      /\ \A s \in 1..Len(refs) : refs'[s] = refs[s]
      /\ refs'[Len(refs) + 1] = [id |-> h, closed |-> FALSE, arg |-> FALSE]
      /\ Cardinality(OpenRefs(h)') = Cardinality(OpenRefs(h)) + 1
      /\ \A g : g # h => OpenRefs(g)' = OpenRefs(g)
  BY <1>2, <1>3, Parts, OneMoreRef, JsRefsConstants
<1>8. StackOK' /\ SameCallbacks /\ Pending' = Pending /\ CallFrames' = CallFrames
  BY <1>2, Parts, StackRests
<1>9. Counted'
  <2>1. Owners(h) = Cardinality(OpenRefs(h)) + (IF h \in Pending THEN 1 ELSE 0)
    BY <1>2, <1>3, Parts DEF Counted
  <2>2. Cardinality(OpenRefs(h)) \in Nat
    BY Parts, OpenRefsAreFinite
  <2>3. Owners(h)' = Cardinality(OpenRefs(h)') + (IF h \in Pending' THEN 1 ELSE 0)
    BY <1>6, <1>7, <1>8, <2>1, <2>2
  <2> QED
    BY <1>2, <1>3, <1>6, <1>7, <1>8, <2>3, Parts, OneCountMoves
<1>10. \A s \in 1..Len(refs') : s \in 1..Len(refs) \/ s = Len(refs) + 1
  BY <1>7, Parts DEF RefsOK
<1>11. HandlesAreUsed'
  <2>1. \A s \in 1..Len(refs') : refs'[s].id \in used'
    BY <1>3, <1>6, <1>7, <1>10, Parts DEF HandlesAreUsed
  <2>2. \A k \in CallFrames' : Ids(stack'[k]) \subseteq used'
    BY <1>2, <1>6, <1>8, Parts DEF HandlesAreUsed, Ids
  <2> QED
    BY <2>1, <2>2 DEF HandlesAreUsed
<1>12. ArgsOK'
  <2>1. Len(refs) <= Len(refs') /\ \A s \in 1..Len(refs') : s \notin 1..Len(refs) => ~refs'[s].arg
    BY <1>7, <1>10, Parts DEF RefsOK
  <2> QED
    BY <1>7, <1>8, <2>1, Parts, ArgsKept
<1> QED
  BY <1>2, <1>6, <1>7, <1>8, <1>9, <1>11, <1>12, Whole

LEMMA CloseKeeps ==
  ASSUME CloseArgs = FALSE, IInv, NEW r \in 1..Len(refs), Close(r)
  PROVE  IInv'
<1>1. PICK h : h = refs[r].id
  OBVIOUS
<1>2. /\ ~refs[r].closed /\ ~refs[r].arg
      /\ refs' = [refs EXCEPT ![r].closed = TRUE]
      /\ IF open THEN ReleaseHandle(h) ELSE UNCHANGED <<live, used>>
      /\ UNCHANGED <<open, stack>>
  BY <1>1 DEF Close
<1>3. h \in RefId /\ h \in used
  BY <1>1, Parts, RefIs DEF HandlesAreUsed
<1>4. /\ RefsOK' /\ Len(refs') = Len(refs)
      /\ \A s \in 1..Len(refs) : s # r => refs'[s] = refs[s]
      /\ refs'[r].id = refs[r].id /\ refs'[r].arg = refs[r].arg /\ refs'[r].closed
      /\ r \in OpenRefs(h)
      /\ Cardinality(OpenRefs(h)') = Cardinality(OpenRefs(h)) - 1
      /\ \A g : g # h => OpenRefs(g)' = OpenRefs(g)
  BY <1>1, <1>2, Parts, OneRefLess
<1>5. StackOK' /\ SameCallbacks /\ Pending' = Pending /\ CallFrames' = CallFrames
  BY <1>2, Parts, StackRests
<1>6. /\ StoreOK' /\ used' = used
      /\ open => /\ Owners(h)' = Owners(h) - 1
                 /\ \A g \in RefId : g # h => Owners(g)' = Owners(g)
  <2>1. CASE open
    <3>1. IsLive(h)
      BY <1>3, <1>4, <2>1, OpenIsLive
    <3> QED
      BY <1>2, <1>3, <2>1, <3>1, Parts, OneOwnerLess
  <2>2. CASE ~open
    BY <1>2, <2>2, Parts DEF StoreOK
  <2> QED
    BY <2>1, <2>2
<1>7. Counted'
  <2>1. CASE open
    <3>1. Owners(h) = Cardinality(OpenRefs(h)) + (IF h \in Pending THEN 1 ELSE 0)
      BY <1>3, <2>1, Parts DEF Counted
    <3>2. Cardinality(OpenRefs(h)) \in Nat
      BY Parts, OpenRefsAreFinite
    <3>3. Owners(h)' = Cardinality(OpenRefs(h)') + (IF h \in Pending' THEN 1 ELSE 0)
      BY <1>4, <1>5, <1>6, <2>1, <3>1, <3>2
    <3> QED
      BY <1>3, <1>4, <1>5, <1>6, <2>1, <3>3, Parts, OneCountMoves
  <2>2. CASE ~open
    BY <1>2, <2>2 DEF Counted
  <2> QED
    BY <2>1, <2>2
<1>8. HandlesAreUsed'
  <2>1. \A s \in 1..Len(refs') : refs'[s].id \in used'
    BY <1>1, <1>3, <1>4, <1>6, Parts DEF HandlesAreUsed
  <2>2. \A k \in CallFrames' : Ids(stack'[k]) \subseteq used'
    BY <1>2, <1>5, <1>6, Parts DEF HandlesAreUsed, Ids
  <2> QED
    BY <2>1, <2>2 DEF HandlesAreUsed
<1>9. ArgsOK'
  <2>1. Len(refs) <= Len(refs') /\ Len(refs) \in Nat
    BY <1>4, Parts DEF RefsOK
  <2>2. \A s \in 1..Len(refs) :
          /\ refs'[s].id = refs[s].id /\ (refs'[s].arg <=> refs[s].arg)
          /\ refs[s].arg => (refs'[s].closed <=> refs[s].closed)
    BY <1>1, <1>2, <1>4
  <2> QED
    BY <1>4, <1>5, <2>1, <2>2, Parts, ArgsKept
<1> QED
  BY <1>2, <1>4, <1>5, <1>6, <1>7, <1>8, <1>9, Parts, Whole

LEMMA CloseEngineKeeps ==
  ASSUME IInv, CloseEngine
  PROVE  IInv'
<1>1. /\ stack = <<>> /\ open' = FALSE /\ used' = used /\ UNCHANGED <<refs, stack>>
      /\ DOMAIN live' = {}
  BY DEF CloseEngine, Store!Clear
<1>2. StoreOK' /\ RefsOK' /\ Counted'
  BY <1>1, Parts DEF StoreOK, RefsOK, Counted
<1>3. StackOK' /\ SameCallbacks /\ CallFrames' = CallFrames
  BY <1>1, Parts, StackRests
<1>4. HandlesAreUsed'
  BY <1>1, <1>3, Parts DEF HandlesAreUsed, Ids
<1>5. ArgsOK'
  BY <1>1, <1>2, <1>3, Parts, ArgsKept DEF RefsOK
<1> QED
  BY <1>1, <1>2, <1>3, <1>4, <1>5, Whole

----------------------------------------------------------------------------

LEMMA InitHolds == Init => IInv
<1> SUFFICES ASSUME Init PROVE IInv
  OBVIOUS
<1>1. used = {} /\ DOMAIN live = {} /\ open = TRUE /\ refs = <<>> /\ stack = <<>>
  BY DEF Init, Store!Init
<1>2. TypeOK
  BY <1>1, JsRefsConstants DEF TypeOK
<1>3. OnlyTopIsPending /\ IdsDiffer /\ HandlesAreUsed /\ ArgsAreIds /\ ArgsDiffer /\ ArgsEndWithTheCall
  BY <1>1 DEF OnlyTopIsPending, IdsDiffer, HandlesAreUsed, ArgsAreIds, ArgsDiffer,
              ArgsEndWithTheCall, CallFrames, HostFrames
<1>4. Counted
  <2> SUFFICES ASSUME NEW h \in RefId
      PROVE  Owners(h) = Cardinality(OpenRefs(h)) + (IF h \in Pending THEN 1 ELSE 0)
    BY DEF Counted
  <2>1. OpenRefs(h) = {} /\ Pending = {} /\ Owners(h) = 0
    BY <1>1 DEF OpenRefs, Pending, At, Owners, IsLive, Store!LiveIds
  <2>2. Cardinality(OpenRefs(h)) = 0
    BY <2>1, FS_EmptySet
  <2> QED
    BY <2>1, <2>2
<1> QED
  BY <1>1, <1>2, <1>3, <1>4 DEF IInv

LEMMA HostStepHolds ==
  ASSUME CloseArgs = FALSE, IInv, HostStep
  PROVE  IInv'
<1>1. CASE Evaluate
  BY <1>1, RunScriptKeeps DEF Evaluate
<1>2. ASSUME NEW r \in 1..Len(refs), RefGet(r) \/ RefSet(r) \/ RefToJson(r) PROVE IInv'
  BY <1>2, RunScriptKeeps DEF RefGet, RefSet, RefToJson, Operable
<1>3. ASSUME NEW r \in 1..Len(refs), NEW this \in 0..Len(refs), RefCall(r, this) PROVE IInv'
  BY <1>3, RunScriptKeeps DEF RefCall, Callable, Operable
<1>4. ASSUME NEW r \in 1..Len(refs), Retain(r) PROVE IInv'
  BY <1>4, RetainKeeps
<1>5. ASSUME NEW r \in 1..Len(refs), Close(r) PROVE IInv'
  BY <1>5, CloseKeeps
<1>6. CASE CloseEngine
  BY <1>6, CloseEngineKeeps
<1> QED
  BY <1>1, <1>2, <1>3, <1>4, <1>5, <1>6 DEF HostStep

LEMMA StepHolds ==
  ASSUME CloseArgs = FALSE, IInv, [Next]_vars
  PROVE  IInv'
<1>1. CASE HostStep
  BY <1>1, HostStepHolds
<1>2. CASE ScriptStep
  BY <1>2, EndKeeps, ScriptCallsHostKeeps, ScriptGivesKeeps DEF ScriptStep
<1>3. CASE CallStep
  BY <1>3, ConvertArgKeeps, ConversionFailsKeeps, CallHostKeeps, HostReturnsKeeps,
     ReleaseArgKeeps, EndKeeps DEF CallStep
<1>4. CASE UNCHANGED vars
  <2>1. UNCHANGED <<live, used, open, refs, stack>>
    BY <1>4 DEF vars
  <2>2. StackOK' /\ SameCallbacks /\ Pending' = Pending /\ CallFrames' = CallFrames
    BY <2>1, Parts, StackRests
  <2>3. CASE open
    <3>1. \A k \in CallFrames' : Ids(stack'[k]) \subseteq used
      BY <2>1, <2>2, Parts DEF HandlesAreUsed, Ids
    <3> QED
      BY <2>1, <2>2, <2>3, <3>1, QuietStep
  <2>4. CASE ~open
    <3>1. StoreOK' /\ RefsOK' /\ Counted'
      BY <2>1, <2>4, Parts DEF StoreOK, RefsOK, Counted
    <3>2. HandlesAreUsed'
      BY <2>1, <2>2, Parts DEF HandlesAreUsed, Ids
    <3>3. ArgsOK'
      BY <2>1, <2>2, <3>1, Parts, ArgsKept DEF RefsOK
    <3> QED
      BY <2>1, <2>2, <3>1, <3>2, <3>3, Parts, Whole
  <2> QED
    BY <2>3, <2>4
<1> QED
  BY <1>1, <1>2, <1>3, <1>4 DEF Next

LEMMA Invariant ==
  ASSUME CloseArgs = FALSE
  PROVE  Spec => []IInv
<1>1. IInv /\ [Next]_vars => IInv'
  BY StepHolds
<1> QED
  BY <1>1, InitHolds, PTL DEF Spec

----------------------------------------------------------------------------

(* The references, their JsRefs and the calls are type correct.             *)
THEOREM Typing ==
  ASSUME CloseArgs = FALSE
  PROVE  Spec => []TypeOK
<1>1. IInv => TypeOK
  BY DEF IInv
<1> QED
  BY <1>1, Invariant, PTL

(* Whenever the host can look, the count of a handle is the number of close *)
(* calls still owed for it, whatever calls failed, nested or returned.      *)
THEOREM EveryCountIsOwed ==
  ASSUME CloseArgs = FALSE
  PROVE  Spec => []CountsAreOwed
<1>1. ASSUME IInv, open, HostRuns, NEW h \in DOMAIN live
      PROVE  live[h].owners = Cardinality(OpenRefs(h))
  <2>1. h \in RefId /\ Cardinality(OpenRefs(h)) \in Nat
    BY <1>1, Parts, OpenRefsAreFinite DEF StoreOK
  <2>2. Pending = {}
    BY <1>1 DEF HostRuns, At, Pending
  <2>3. Owners(h) = live[h].owners
    BY <1>1 DEF Owners, IsLive, Store!LiveIds
  <2>4. Owners(h) = Cardinality(OpenRefs(h)) + (IF h \in Pending THEN 1 ELSE 0)
    BY <1>1, <2>1, Parts DEF Counted
  <2> QED
    BY <2>1, <2>2, <2>3, <2>4
<1>2. IInv => CountsAreOwed
  BY <1>1 DEF CountsAreOwed
<1> QED
  BY <1>2, Invariant, PTL

(* While a JsRef is neither closed nor invalidated its handle is live.      *)
THEOREM OpenRefsAreLive ==
  ASSUME CloseArgs = FALSE
  PROVE  Spec => []OpenRefsResolve
<1>1. ASSUME IInv, open, NEW r \in 1..Len(refs), ~refs[r].closed
      PROVE  IsLive(refs[r].id)
  <2>1. refs[r].id \in RefId /\ r \in OpenRefs(refs[r].id)
    BY <1>1, Parts, RefIs DEF OpenRefs
  <2> QED
    BY <1>1, <2>1, OpenIsLive
<1>2. IInv => OpenRefsResolve
  BY <1>1 DEF OpenRefsResolve
<1> QED
  BY <1>2, Invariant, PTL

(* The JsRef of an argument is open only while its callback runs.           *)
THEOREM ArgumentsExpire ==
  ASSUME CloseArgs = FALSE
  PROVE  Spec => []ArgsEndWithTheCall
<1>1. IInv => ArgsEndWithTheCall
  BY DEF IInv
<1> QED
  BY <1>1, Invariant, PTL

----------------------------------------------------------------------------

\* No step does more than one thing to the store of references.
LEMMA StepOfStore ==
  ASSUME IInv, [Next]_vars
  PROVE  [Store!Next]_(Store!refVars)
<1> USE DEF Store!Next, Store!refVars
<1>1. ASSUME UNCHANGED <<live, used>>
      PROVE  [Store!Next]_(Store!refVars)
  BY <1>1
<1>2. ASSUME NEW r \in 1..Len(refs), Retain(r) \/ Close(r)
      PROVE  [Store!Next]_(Store!refVars)
  <2>1. refs[r].id \in RefId
    BY Parts, RefIs
  <2> QED
    BY <1>1, <1>2, <2>1 DEF Retain, Close, RetainHandle, ReleaseHandle
<1>3. CASE ReleaseArg
  <2>1. Head(Top.ids) \in RefId
    <3>1. stack # <<>> /\ Top.step = "releasing" /\ Top.ids # <<>>
      BY <1>3 DEF ReleaseArg, At
    <3>2. Top.ids \in Seq(RefId)
      BY <3>1, CallTop
    <3> QED
      BY <3>1, <3>2, HeadTailProperties
  <2> QED
    BY <1>1, <1>3, <2>1 DEF ReleaseArg, ReleaseHandle
<1>4. ASSUME NEW h \in RefId, NEW v \in Object, ScriptGives(h, v) \/ ConvertArg(h, v)
      PROVE  [Store!Next]_(Store!refVars)
  BY <1>4 DEF ScriptGives, ConvertArg
<1>5. CASE CloseEngine
  BY <1>5 DEF CloseEngine
<1>6. CASE UNCHANGED vars
  BY <1>1, <1>6 DEF vars
<1>7. CASE HostStep
  <2>1. CASE Evaluate
    BY <1>1, <2>1 DEF Evaluate, RunScript
  <2>2. ASSUME NEW r \in 1..Len(refs), RefGet(r) \/ RefSet(r) \/ RefToJson(r)
        PROVE  [Store!Next]_(Store!refVars)
    BY <1>1, <2>2 DEF RefGet, RefSet, RefToJson, RunScript
  <2>3. ASSUME NEW r \in 1..Len(refs), NEW this \in 0..Len(refs), RefCall(r, this)
        PROVE  [Store!Next]_(Store!refVars)
    BY <1>1, <2>3 DEF RefCall, RunScript
  <2> QED
    BY <1>2, <1>5, <1>7, <2>1, <2>2, <2>3 DEF HostStep
<1>8. CASE ScriptStep
  BY <1>1, <1>4, <1>8 DEF ScriptStep, ScriptEnds, ScriptCallsHost
<1>9. CASE CallStep
  BY <1>1, <1>3, <1>4, <1>9 DEF CallStep, ConversionFails, CallHost, HostReturns, HostCallEnds
<1> QED
  BY <1>6, <1>7, <1>8, <1>9 DEF Next

(* The host's calls and the engine's handing over of objects use the store  *)
(* of references only as the slot table promises it.                        *)
THEOREM HostUsesStore ==
  ASSUME CloseArgs = FALSE
  PROVE  Spec => Store!Spec
<1>1. IInv /\ [Next]_vars => [Store!Next]_(Store!refVars)
  BY StepOfStore
<1>2. Init => Store!Init
  BY DEF Init
<1> QED
  BY <1>1, <1>2, Invariant, PTL DEF Spec, Store!Spec

=============================================================================
