------------------------ MODULE InterruptClose_proofs ------------------------
(***************************************************************************)
(* No interrupt reaches a freed engine, and the engine is freed once, for  *)
(* any finite number of interrupting threads and any closing threads.      *)
(*                                                                         *)
(* The argument: inFlight counts the announced interrupts exactly, so the  *)
(* closer leaves its wait only when there are none; and from then on       *)
(* closed is set, so a later interrupt turns back at its check.            *)
(***************************************************************************)
EXTENDS InterruptClose, FiniteSetTheorems, TLAPS

USE InterruptCloseConstants

Closing == {"wait", "read", "clear", "destroy"}
Past    == {"read", "clear", "destroy"}

Flying == {t \in Interrupters : pc[t] \in Announced}

\* Where each kind of thread can be.
Places ==
  /\ \A t \in Interrupters : pc[t] \in Announced \cup {"idle"}
  /\ \A t \in Closers : pc[t] \in Closing \cup {"idle", "done"}

\* The counter is exact.
Exact == inFlight = Cardinality(Flying)

\* Whoever is closing holds the claim, alone, and nothing is freed yet.
OneCloser ==
  /\ \A t \in Closers : pc[t] \in Closing => closed /\ freed = 0
  /\ \A t, u \in Closers : pc[t] \in Closing /\ pc[u] \in Closing => t = u
  /\ freed \in 0..1
  /\ freed > 0 => closed

\* Once the wait is over, no interrupt is past its check.
NobodySends ==
  (freed > 0 \/ \E t \in Closers : pc[t] \in Past)
    => \A t \in Interrupters : pc[t] \notin {"load", "send"}

IInv == TypeOK /\ Places /\ Exact /\ OneCloser /\ NobodySends

----------------------------------------------------------------------------

\* One thread moves: what its new place does to the set of announced interrupts.
LEMMA Moves ==
  ASSUME Places, pc \in [Threads -> Announced \cup {"idle", "wait", "read", "clear", "destroy", "done"}],
         NEW t \in Threads, NEW next \in Announced \cup {"idle", "wait", "read", "clear", "destroy", "done"},
         GoTo(t, next)
  PROVE  /\ pc' \in [Threads -> Announced \cup {"idle", "wait", "read", "clear", "destroy", "done"}]
         /\ pc'[t] = next
         /\ \A u \in Threads : u # t => pc'[u] = pc[u]
  BY DEF GoTo

\* The announced threads are a finite set.
LEMMA FlyingFinite == IsFiniteSet(Flying)
  BY FS_Subset DEF Flying

\* A thread that stays announced, or stays out, leaves the count alone.
LEMMA FlyingKept ==
  ASSUME NEW t \in Threads,
         \A u \in Threads : u # t => pc'[u] = pc[u],
         t \in Interrupters => (pc[t] \in Announced <=> pc'[t] \in Announced)
  PROVE  Flying' = Flying
  BY DEF Flying, Threads

\* An increment comes with one more announced thread, a decrement with one less.
LEMMA FlyingGrows ==
  ASSUME NEW t \in Interrupters, pc[t] \notin Announced, pc'[t] \in Announced,
         \A u \in Threads : u # t => pc'[u] = pc[u]
  PROVE  Cardinality(Flying') = Cardinality(Flying) + 1
<1>1. Flying' = Flying \cup {t} /\ t \notin Flying
  BY DEF Flying, Threads
<1> QED
  BY <1>1, FlyingFinite, FS_AddElement

LEMMA FlyingShrinks ==
  ASSUME NEW t \in Interrupters, pc[t] \in Announced, pc'[t] \notin Announced,
         \A u \in Threads : u # t => pc'[u] = pc[u]
  PROVE  Cardinality(Flying') = Cardinality(Flying) - 1
<1>1. Flying' = Flying \ {t} /\ t \in Flying
  BY DEF Flying, Threads
<1> QED
  BY <1>1, FlyingFinite, FS_RemoveElement

LEMMA Starts == Init => IInv
<1> SUFFICES ASSUME Init PROVE IInv
  OBVIOUS
<1>1. \A t \in Threads : pc[t] = "idle"
  BY DEF Init
<1>2. TypeOK
  <2>1. calls \in [Interrupters -> 0..MaxCalls]
    BY DEF Init
  <2>2. pc \in [Threads -> Announced \cup {"idle", "wait", "read", "clear", "destroy", "done"}]
    BY DEF Init
  <2> QED
    BY <2>1, <2>2 DEF Init, TypeOK
<1>3. Places
  BY <1>1 DEF Places, Threads
<1>4. Exact
  <2>1. Flying = {}
    BY <1>1 DEF Flying, Announced, Threads
  <2> QED
    BY <2>1, FS_EmptySet DEF Exact, Init
<1>5. OneCloser
  BY <1>1 DEF OneCloser, Threads, Closing, Init
<1>6. NobodySends
  BY <1>1 DEF NobodySends, Threads, Past, Init
<1> QED
  BY <1>2, <1>3, <1>4, <1>5, <1>6 DEF IInv

\* No step of an interrupting thread harms the invariant.
LEMMA InterruptKeeps ==
  ASSUME IInv, NEW t \in Interrupters, InterruptStep(t) PROVE IInv'
<1> USE DEF IInv
<1>t. t \in Threads /\ t \notin Closers
  BY DEF Threads
<1>p. pc[t] \in Announced \cup {"idle"}
  BY DEF Places
<1>1. PICK next \in Announced \cup {"idle"} : GoTo(t, next)
  BY DEF InterruptStep, Announce, Check, AfterCheck, LoadPtr, Send, Leave, Announced
<1>2. /\ pc' \in [Threads -> Announced \cup {"idle", "wait", "read", "clear", "destroy", "done"}]
      /\ pc'[t] = next
      /\ \A u \in Threads : u # t => pc'[u] = pc[u]
  BY <1>1, <1>t, Moves DEF TypeOK
<1>3. closed' = closed /\ ptr' = ptr /\ freed' = freed
  BY DEF InterruptStep, Announce, Check, LoadPtr, Send, Leave
<1>4. \A u \in Closers : pc'[u] = pc[u]
  BY <1>2, <1>t DEF Threads
<1>5. inFlight' = Cardinality(Flying')
  <2>1. CASE Announce(t)
    <3>1. pc[t] \notin Announced /\ pc'[t] \in Announced /\ inFlight' = inFlight + 1
      BY <2>1, <1>2, <1>t DEF Announce, At, GoTo, AfterIncrement, Announced, TypeOK
    <3> QED
      BY <3>1, <1>2, FlyingGrows DEF Exact
  <2>2. CASE Leave(t)
    <3>1. pc[t] \in Announced /\ pc'[t] \notin Announced /\ inFlight' = inFlight - 1
      BY <2>2, <1>2, <1>t DEF Leave, At, GoTo, Announced, TypeOK
    <3> QED
      BY <3>1, <1>2, FlyingShrinks DEF Exact
  <2>3. CASE Check(t) \/ LoadPtr(t) \/ Send(t)
    <3>1. pc[t] \in Announced /\ pc'[t] \in Announced /\ inFlight' = inFlight
      BY <2>3, <1>2, <1>t DEF Check, AfterCheck, LoadPtr, Send, At, GoTo, Announced, TypeOK
    <3> QED
      BY <3>1, <1>2, <1>t, FlyingKept DEF Exact
  <2> QED
    BY <2>1, <2>2, <2>3 DEF InterruptStep
<1>6. TypeOK'
  <2>1. inFlight' \in Nat
    <3>1. IsFiniteSet(Flying')
      BY FS_Subset DEF Flying
    <3> QED
      BY <1>5, <3>1, FS_CardinalityType
  <2>2. calls' \in [Interrupters -> 0..MaxCalls]
    <3>1. CASE Announce(t)
      BY <3>1 DEF Announce, TypeOK
    <3>2. CASE ~Announce(t)
      BY <3>2 DEF InterruptStep, Check, LoadPtr, Send, Leave, TypeOK
    <3> QED
      BY <3>1, <3>2
  <2> QED
    BY <2>1, <2>2, <1>2, <1>3 DEF TypeOK
<1>7. Places'
  BY <1>2, <1>4 DEF Places, Threads
<1>8. OneCloser'
  BY <1>3, <1>4 DEF OneCloser
<1>9. NobodySends'
  <2> SUFFICES ASSUME freed > 0 \/ \E u \in Closers : pc[u] \in Past
               PROVE  pc'[t] \notin {"load", "send"}
    BY <1>2, <1>3, <1>4 DEF NobodySends, Threads
  <2>1. closed
    BY DEF OneCloser, Past, Closing
  <2>2. pc[t] \notin {"load", "send"}
    BY DEF NobodySends
  <2> QED
    BY <2>1, <2>2, <1>t DEF InterruptStep, Announce, Check, AfterCheck, LoadPtr, Send, Leave, At, GoTo, TypeOK
<1> QED
  BY <1>5, <1>6, <1>7, <1>8, <1>9 DEF Exact

\* No step of a closing thread harms the invariant.
LEMMA CloseKeeps ==
  ASSUME IInv, NEW t \in Closers, CloseStep(t) PROVE IInv'
<1> USE DEF IInv
<1>t. t \in Threads /\ t \notin Interrupters
  BY DEF Threads
<1>1. PICK next \in Closing \cup {"done"} : GoTo(t, next)
  BY DEF CloseStep, Claim, Claims, Wait, WaitIsOver, ReadPtr, ClearPtr, Destroy, Closing
<1>2. /\ pc' \in [Threads -> Announced \cup {"idle", "wait", "read", "clear", "destroy", "done"}]
      /\ pc'[t] = next
      /\ \A u \in Threads : u # t => pc'[u] = pc[u]
  BY <1>1, <1>t, Moves DEF TypeOK, Closing
<1>3. inFlight' = inFlight /\ calls' = calls
  BY DEF CloseStep, Claim, Wait, ReadPtr, ClearPtr, Destroy
<1>4. \A u \in Interrupters : pc'[u] = pc[u]
  BY <1>2, <1>t DEF Threads
<1>5. Flying' = Flying
  BY <1>2, <1>t, FlyingKept
<1>6. TypeOK'
  <2>1. closed' \in BOOLEAN /\ ptr' \in BOOLEAN /\ freed' \in Nat
    <3>1. CASE Destroy(t)
      BY <3>1 DEF Destroy, TypeOK
    <3>2. CASE ~Destroy(t)
      BY <3>2 DEF CloseStep, Claim, Wait, ReadPtr, ClearPtr, TypeOK
    <3> QED
      BY <3>1, <3>2
  <2> QED
    BY <2>1, <1>2, <1>3 DEF TypeOK
<1>7. Places'
  BY <1>2, <1>4 DEF Places, Threads, Closing
<1>8. Exact'
  BY <1>3, <1>5 DEF Exact
<1>9. OneCloser' /\ NobodySends'
  <2>c. \A u \in Closers : u # t => pc'[u] = pc[u]
    BY <1>2 DEF Threads
  <2>q. pc' = [pc EXCEPT ![t] = next]
    BY <1>1 DEF GoTo
  <2>1. CASE Claim(t)
    <3>1. /\ pc[t] = "idle" /\ closed' /\ freed' = freed
          /\ pc'[t] = IF closed THEN "done" ELSE "wait"
      BY <2>1, <1>t DEF Claim, Claims, At, GoTo, TypeOK
    <3>2. OneCloser'
      BY <3>1, <2>c DEF OneCloser, Closing, Claims
    <3>3. NobodySends'
      BY <3>1, <2>c, <1>4 DEF NobodySends, Past
    <3> QED
      BY <3>2, <3>3
  <2>2. CASE Wait(t)
    <3>1. /\ pc[t] = "wait" /\ closed' = closed /\ freed' = freed
          /\ pc'[t] = IF inFlight = 0 THEN "read" ELSE "wait"
      BY <2>2, <1>t DEF Wait, WaitIsOver, At, GoTo, TypeOK
    <3>2. OneCloser'
      BY <3>1, <2>c DEF OneCloser, Closing
    <3>3. inFlight = 0 => \A u \in Interrupters : pc[u] \notin {"load", "send"}
      <4>1. inFlight = 0 => Flying = {}
        BY FlyingFinite, FS_EmptySet DEF Exact
      <4> QED
        BY <4>1 DEF Flying, Announced
    <3>4. NobodySends'
      BY <3>1, <3>3, <2>c, <1>4 DEF NobodySends, Past
    <3> QED
      BY <3>2, <3>4
  <2>3. CASE ReadPtr(t) \/ ClearPtr(t)
    <3>1. /\ pc[t] \in Past /\ closed' = closed /\ freed' = freed
          /\ pc'[t] \in Past \cup {"done"}
      BY <2>3, <1>t DEF ReadPtr, ClearPtr, At, GoTo, TypeOK, Past
    <3>2. OneCloser'
      BY <3>1, <2>c DEF OneCloser, Closing, Past
    <3>3. NobodySends'
      BY <3>1, <2>c, <1>4 DEF NobodySends, Past
    <3> QED
      BY <3>2, <3>3
  <2>4. CASE Destroy(t)
    <3>1. /\ pc[t] = "destroy" /\ closed' = closed /\ freed' = freed + 1
          /\ pc'[t] = "done"
      BY <2>4, <1>t DEF Destroy, At, GoTo, TypeOK
    <3>2. freed = 0 /\ closed /\ \A u \in Closers : u # t => pc[u] \notin Closing
      BY <3>1 DEF OneCloser, Closing
    <3>3. OneCloser'
      BY <3>1, <3>2, <2>c DEF OneCloser, Closing
    <3>4. NobodySends'
      BY <3>1, <2>c, <1>4 DEF NobodySends, Past
    <3> QED
      BY <3>3, <3>4
  <2> QED
    BY <2>1, <2>2, <2>3, <2>4 DEF CloseStep
<1> QED
  BY <1>6, <1>7, <1>8, <1>9

\* Stuttering changes nothing.
LEMMA StutterKeeps == IInv /\ UNCHANGED vars => IInv'
  BY DEF vars, IInv, TypeOK, Places, Exact, Flying, OneCloser, NobodySends

LEMMA Invariant == Spec => []IInv
<1>1. IInv /\ [Next]_vars => IInv'
  BY InterruptKeeps, CloseKeeps, StutterKeeps DEF Next
<1> QED
  BY Starts, <1>1, PTL DEF Spec

----------------------------------------------------------------------------

\* JsEngine.interrupt never hands a freed engine to kmpjs_interrupt, however
\* its threads interleave with those of close.
THEOREM InterruptIsSafe == Spec => []NoUseAfterFree
<1>1. IInv => NoUseAfterFree
  BY DEF IInv, NoUseAfterFree, NobodySends, OneCloser, At
<1> QED
  BY Invariant, <1>1, PTL

\* Closing threads free the engine at most once between them.
THEOREM EngineFreedOnce == Spec => []FreedOnce
<1>1. IInv => FreedOnce
  BY DEF IInv, FreedOnce, OneCloser
<1> QED
  BY Invariant, <1>1, PTL

=============================================================================
