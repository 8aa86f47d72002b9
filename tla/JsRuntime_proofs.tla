-------------------------- MODULE JsRuntime_proofs --------------------------
(***************************************************************************)
(* Exclusive access, no use of a closed engine and no interrupt on         *)
(* somebody else's behalf, for any numbers of callers and closers.         *)
(*                                                                         *)
(* The argument: whoever is inside runExclusive or closes the engine holds *)
(* the mutex; closed is set before anybody can close the engine; a run is  *)
(* in progress only inside; and a watchdog that may still interrupt        *)
(* belongs to a call that is still inside, because its scope waits for it. *)
(***************************************************************************)
EXTENDS JsRuntime, TLAPS

USE JsRuntimeConstants

Critical == Inside \cup {"locked", "unlock", "closing", "release"}

\* Before its block has ended, a call has no outcome.
Before == {"start", "queued", "locked", "dispatch", "block", "native", "thrown"}

MutexHeld == \A p \in Processes : pc[p] \in Critical => lock = p

ClosedFirst ==
  /\ pendingClose => closed
  /\ engineClosed => closed
  /\ \A p \in Processes : pc[p] \in {"try lock", "closing"} => closed
  /\ \A p \in Closers : pc[p] \notin {"start", "done"} => closed

ClosersStayOut == \A p \in Closers : pc[p] \in CloserPlaces

RunsInside == state # "IDLE" => \E c \in Callers : pc[c] = "native"

WatchdogsInside ==
  \A c \in Callers :
    /\ watchdog[c] \notin {"none", "ended"} => pc[c] \in Inside \ {"dispatch"}
    /\ watchdog[c] \in {"fired", "interrupting"} => c \in cancelled \/ pc[c] = "join"

StoppedAsked == \A c \in stopped : c \in cancelled \/ closed

NoOutcomeYet == \A c \in Callers : pc[c] \in Before => outcome[c] = "none"

\* Who may touch the engine.
Access == MutexHeld /\ ClosersStayOut /\ ClosedFirst /\ NoUseAfterClose

\* Whom an interrupt can hit.
Interrupts == RunsInside /\ WatchdogsInside /\ OnlyAskedInterrupts /\ StoppedAsked

\* What a call reports.
Outcomes == NoOutcomeYet /\ InterruptSeenAsCancellation

IInv == TypeOK /\ Access /\ Interrupts /\ Outcomes

----------------------------------------------------------------------------

\* The initial states satisfy the invariant.
LEMMA Starts == Init => IInv
<1> SUFFICES ASSUME Init PROVE IInv
  OBVIOUS
<1> USE DEF Init, Processes, Closers
<1>1. TypeOK
  <2>1. runs \in [Callers -> 0..MaxRuns]
    OBVIOUS
  <2>2. pc \in [Processes -> CallerPlaces \cup CloserPlaces] /\ lock \in Processes \cup {Nobody}
    BY DEF CallerPlaces
  <2> QED
    BY <2>1, <2>2 DEF TypeOK
<1>2. Access
  BY DEF Access, MutexHeld, ClosersStayOut, ClosedFirst, NoUseAfterClose, Critical, Inside, CloserPlaces
<1>3. Interrupts
  BY DEF Interrupts, RunsInside, WatchdogsInside, OnlyAskedInterrupts, StoppedAsked, At
<1>4. Outcomes
  BY DEF Outcomes, NoOutcomeYet, InterruptSeenAsCancellation
<1> QED
  BY <1>1, <1>2, <1>3, <1>4 DEF IInv

\* A block never makes more engine calls than the bound.
LEMMA RunsBounded ==
  ASSUME TypeOK, NEW c \in Callers, runs[c] < MaxRuns
  PROVE  [runs EXCEPT ![c] = @ + 1] \in [Callers -> 0..MaxRuns]
<1>1. runs \in [Callers -> 0..MaxRuns]
  BY DEF TypeOK
<1>2. runs[c] \in 0..MaxRuns /\ MaxRuns \in Nat
  BY <1>1
<1>3. runs[c] + 1 \in 0..MaxRuns
  BY <1>2
<1> QED
  BY <1>1, <1>3

\* A mutex taken, tried or queued for: p holds it afterwards only if it was
\* free, and nothing but pc and lock changes.
LEMMA LockStepKeeps ==
  ASSUME IInv, NEW p \in Processes, NEW next \in {"locked", "queued", "closing", "done"}, GoTo(p, next),
         pc[p] \notin Critical, pc[p] \in {"start", "lock", "try lock"},
         p \in Closers => pc[p] # "start",
         p \in Callers => pc[p] # "lock",
         next = "closing" => closed,
         pc[p] = "try lock" => next \in {"closing", "done"},
         \/ lock = Nobody /\ lock' = p
         \/ next \in {"queued", "done"} /\ lock' = lock,
         UNCHANGED <<flagVars, engineVars, callVars>>
  PROVE  IInv'
<1> USE DEF IInv, GoTo
<1>1. /\ closed' = closed /\ pendingClose' = pendingClose /\ engineClosed' = engineClosed
      /\ state' = state /\ cancelled' = cancelled /\ done' = done /\ watchdog' = watchdog
      /\ endless' = endless /\ runs' = runs /\ outcome' = outcome /\ stopped' = stopped
  BY DEF flagVars, engineVars, callVars
<1>2. pc' \in [Processes -> CallerPlaces \cup CloserPlaces] /\ pc'[p] = next
  BY DEF TypeOK, CallerPlaces
<1>3. \A q \in Processes : q # p => pc'[q] = pc[q]
  BY DEF TypeOK
<1>4. Callers \subseteq Processes /\ Closers \subseteq Processes /\ Callers \cap Closers = {}
  BY DEF Processes, Closers
<1>5. TypeOK'
  <2>1. lock' \in Processes \cup {Nobody}
    BY DEF TypeOK
  <2> QED
    BY <1>1, <1>2, <2>1 DEF TypeOK
<1>6. Access'
  <2>1. MutexHeld'
    <3>1. CASE lock = Nobody /\ lock' = p
      <4>1. \A q \in Processes : pc[q] \notin Critical
        BY <3>1 DEF Access, MutexHeld, Processes, Closers
      <4> QED
        BY <3>1, <4>1, <1>2, <1>3 DEF MutexHeld
    <3>2. CASE next \in {"queued", "done"} /\ lock' = lock
      BY <3>2, <1>2, <1>3 DEF Access, MutexHeld, Critical, Inside
    <3> QED
      BY <3>1, <3>2
  <2>2. ClosersStayOut'
    BY <1>2, <1>3, <1>4 DEF Access, ClosersStayOut, CloserPlaces
  <2>3. ClosedFirst'
    BY <1>1, <1>2, <1>3, <1>4 DEF Access, ClosedFirst
  <2>4. NoUseAfterClose'
    BY <1>1, <1>2, <1>3, <1>4 DEF Access, NoUseAfterClose, Inside
  <2> QED
    BY <2>1, <2>2, <2>3, <2>4 DEF Access
<1>7. Interrupts'
  <2>1. pc[p] # "native" /\ pc[p] \notin Inside
    BY DEF Inside
  <2>2. RunsInside'
    BY <1>1, <1>3, <1>4, <2>1 DEF Interrupts, RunsInside
  <2>3. WatchdogsInside'
    BY <1>1, <1>3, <1>4, <2>1 DEF Interrupts, WatchdogsInside, Inside
  <2>4. OnlyAskedInterrupts'
    BY <1>1, <1>2, <1>3, <1>4 DEF Interrupts, OnlyAskedInterrupts, At
  <2>5. StoppedAsked'
    BY <1>1 DEF Interrupts, StoppedAsked
  <2> QED
    BY <2>2, <2>3, <2>4, <2>5 DEF Interrupts
<1>8. Outcomes'
  BY <1>1, <1>2, <1>3, <1>4 DEF Outcomes, NoOutcomeYet, InterruptSeenAsCancellation, Before
<1> QED
  BY <1>5, <1>6, <1>7, <1>8

\* A caller takes the mutex or queues for it.
LEMMA EnterKeeps ==
  ASSUME IInv, NEW c \in Callers, Enter(c) PROVE IInv'
<1>1. c \in Processes /\ pc[c] \notin Critical /\ c \notin Closers
  BY DEF Enter, At, Critical, Inside, Processes, Closers
<1>2. PICK next \in {"locked", "queued"} :
        /\ GoTo(c, next)
        /\ (lock = Nobody /\ lock' = c) \/ (next = "queued" /\ lock' = lock)
  BY DEF Enter, Lock
<1> QED
  BY <1>1, <1>2, LockStepKeeps DEF Enter, Lock, At

\* A waiter resumes with the mutex.
LEMMA GrantedKeeps ==
  ASSUME IInv, NEW p \in Processes, Granted(p) PROVE IInv'
<1> USE DEF IInv, TypeOK, Granted, At, GoTo, Processes, Closers, CallerPlaces, CloserPlaces,
            flagVars, engineVars, callVars
<1>1. TypeOK'
  OBVIOUS
<1>2. Access'
  BY DEF Access, MutexHeld, ClosersStayOut, ClosedFirst, NoUseAfterClose, Critical, Inside
<1>3. Interrupts'
  BY DEF Interrupts, RunsInside, WatchdogsInside, OnlyAskedInterrupts, StoppedAsked, Inside
<1>4. Outcomes'
  BY DEF Outcomes, NoOutcomeYet, InterruptSeenAsCancellation, Before
<1> QED
  BY <1>1, <1>2, <1>3, <1>4

\* A cancelled caller leaves the queue.
LEMMA AbandonKeeps ==
  ASSUME IInv, NEW c \in Callers, Abandon(c) PROVE IInv'
<1> USE DEF IInv, TypeOK, Abandon, At, GoTo, Processes, Closers, CallerPlaces, CloserPlaces,
            flagVars, engineVars, callVars
<1>1. TypeOK'
  OBVIOUS
<1>2. Access'
  BY DEF Access, MutexHeld, ClosersStayOut, ClosedFirst, NoUseAfterClose, Critical, Inside
<1>3. Interrupts'
  BY DEF Interrupts, RunsInside, WatchdogsInside, OnlyAskedInterrupts, StoppedAsked, Inside
<1>4. Outcomes'
  BY DEF Outcomes, NoOutcomeYet, InterruptSeenAsCancellation, Before
<1> QED
  BY <1>1, <1>2, <1>3, <1>4

\* The check keeps calls off a closed engine.
LEMMA CheckClosedKeeps ==
  ASSUME IInv, NEW c \in Callers, CheckClosed(c) PROVE IInv'
<1> USE DEF IInv, TypeOK, CheckClosed, AfterCheck, At, GoTo, Processes, Closers, CallerPlaces, CloserPlaces,
            flagVars, engineVars, callVars
<1>1. TypeOK'
  OBVIOUS
<1>2. Access'
  BY DEF Access, MutexHeld, ClosersStayOut, ClosedFirst, NoUseAfterClose, Critical, Inside
<1>3. Interrupts'
  BY DEF Interrupts, RunsInside, WatchdogsInside, OnlyAskedInterrupts, StoppedAsked, Inside
<1>4. Outcomes'
  BY DEF Outcomes, NoOutcomeYet, InterruptSeenAsCancellation, Before
<1> QED
  BY <1>1, <1>2, <1>3, <1>4

\* The block is dispatched with its watchdog, or not at all.
LEMMA DispatchKeeps ==
  ASSUME IInv, NEW c \in Callers, Dispatch(c) PROVE IInv'
<1> USE DEF IInv, TypeOK, Dispatch, At, GoTo, Processes, Closers, CallerPlaces, CloserPlaces,
            flagVars, engineVars, callVars
<1>1. TypeOK'
  OBVIOUS
<1>2. Access'
  BY DEF Access, MutexHeld, ClosersStayOut, ClosedFirst, NoUseAfterClose, Critical, Inside
<1>3. Interrupts'
  <2>1. RunsInside' /\ OnlyAskedInterrupts' /\ StoppedAsked'
    BY DEF Interrupts, RunsInside, OnlyAskedInterrupts, StoppedAsked
  <2>2. WatchdogsInside'
    <3>1. watchdog[c] \in {"none", "ended", "launched", "waiting"} \/ c \in cancelled
      BY DEF Interrupts, WatchdogsInside
    <3>2. CASE c \in cancelled
      BY <3>2 DEF Interrupts, WatchdogsInside, Inside
    <3>3. CASE c \notin cancelled
      BY <3>3 DEF Interrupts, WatchdogsInside, Inside
    <3> QED
      BY <3>2, <3>3
  <2> QED
    BY <2>1, <2>2 DEF Interrupts
<1>4. Outcomes'
  BY DEF Outcomes, NoOutcomeYet, InterruptSeenAsCancellation, Before
<1> QED
  BY <1>1, <1>2, <1>3, <1>4

\* A run begins; nothing ran before, so nothing is interrupted yet.
LEMMA BeginRunKeeps ==
  ASSUME IInv, NEW c \in Callers, BeginRun(c) PROVE IInv'
<1> USE DEF IInv, TypeOK, BeginRun, At, GoTo, Processes, Closers, CallerPlaces, CloserPlaces,
            flagVars, engineVars, callVars
<1>1. TypeOK'
  <2>1. runs' \in [Callers -> 0..MaxRuns]
    BY RunsBounded
  <2>2. endless' \in [Callers -> BOOLEAN]
    OBVIOUS
  <2>3. pc' \in [Processes -> CallerPlaces \cup CloserPlaces] /\ state' \in {"IDLE", "RUNNING", "INTERRUPTED"}
    OBVIOUS
  <2> QED
    BY <2>1, <2>2, <2>3
<1>2. Access'
  BY DEF Access, MutexHeld, ClosersStayOut, ClosedFirst, NoUseAfterClose, Critical, Inside
<1>3. Interrupts'
  BY DEF Interrupts, RunsInside, WatchdogsInside, OnlyAskedInterrupts, StoppedAsked, Inside, Access, MutexHeld, Critical
<1>4. Outcomes'
  BY DEF Outcomes, NoOutcomeYet, InterruptSeenAsCancellation, Before
<1> QED
  BY <1>1, <1>2, <1>3, <1>4

\* A run returns.
LEMMA ReturnsKeeps ==
  ASSUME IInv, NEW c \in Callers, Returns(c) PROVE IInv'
<1> USE DEF IInv, TypeOK, Returns, RunEnds, At, GoTo, Processes, Closers, CallerPlaces, CloserPlaces,
            flagVars, engineVars, callVars
<1>1. TypeOK'
  OBVIOUS
<1>2. Access'
  BY DEF Access, MutexHeld, ClosersStayOut, ClosedFirst, NoUseAfterClose, Critical, Inside
<1>3. Interrupts'
  BY DEF Interrupts, RunsInside, WatchdogsInside, OnlyAskedInterrupts, StoppedAsked, Inside
<1>4. Outcomes'
  BY DEF Outcomes, NoOutcomeYet, InterruptSeenAsCancellation, Before
<1> QED
  BY <1>1, <1>2, <1>3, <1>4

\* A run throws.
LEMMA ThrowsKeeps ==
  ASSUME IInv, NEW c \in Callers, Throws(c) PROVE IInv'
<1> USE DEF IInv, TypeOK, Throws, RunEnds, At, GoTo, Processes, Closers, CallerPlaces, CloserPlaces,
            flagVars, engineVars, callVars
<1>1. TypeOK'
  OBVIOUS
<1>2. Access'
  BY DEF Access, MutexHeld, ClosersStayOut, ClosedFirst, NoUseAfterClose, Critical, Inside
<1>3. Interrupts'
  BY DEF Interrupts, RunsInside, WatchdogsInside, OnlyAskedInterrupts, StoppedAsked, Inside
<1>4. Outcomes'
  BY DEF Outcomes, NoOutcomeYet, InterruptSeenAsCancellation, Before
<1> QED
  BY <1>1, <1>2, <1>3, <1>4

\* A run ends by an interrupt, which somebody asked for.
LEMMA InterruptedKeeps ==
  ASSUME IInv, NEW c \in Callers, Interrupted(c) PROVE IInv'
<1>1. PICK next \in {"block", "thrown"} : RunEnds(c, next)
  BY DEF Interrupted
<1>2. /\ pc' = [pc EXCEPT ![c] = next] /\ pc[c] = "native" /\ stopped' = stopped \cup {c}
      /\ state = "INTERRUPTED" /\ state' = "IDLE" /\ lock' = lock /\ engineClosed' = engineClosed
      /\ closed' = closed /\ pendingClose' = pendingClose
      /\ cancelled' = cancelled /\ done' = done /\ watchdog' = watchdog
      /\ endless' = endless /\ runs' = runs /\ outcome' = outcome
  BY <1>1 DEF Interrupted, RunEnds, At, GoTo, flagVars
<1> USE <1>2 DEF IInv, TypeOK, Processes, Closers
<1>3. TypeOK'
  BY DEF CallerPlaces
<1>4. Access'
  BY DEF Access, MutexHeld, ClosersStayOut, ClosedFirst, NoUseAfterClose, Critical, Inside, CloserPlaces
<1>5. c \in cancelled \/ closed
  BY DEF Interrupts, OnlyAskedInterrupts, At
<1>6. Interrupts'
  <2>1. RunsInside' /\ OnlyAskedInterrupts'
    BY DEF RunsInside, OnlyAskedInterrupts
  <2>2. WatchdogsInside'
    BY DEF Interrupts, WatchdogsInside, Inside
  <2>3. StoppedAsked'
    BY <1>5 DEF Interrupts, StoppedAsked
  <2> QED
    BY <2>1, <2>2, <2>3 DEF Interrupts
<1>7. Outcomes'
  BY <1>5 DEF Outcomes, NoOutcomeYet, InterruptSeenAsCancellation, Before
<1> QED
  BY <1>3, <1>4, <1>6, <1>7

\* The block returns.
LEMMA BlockReturnsKeeps ==
  ASSUME IInv, NEW c \in Callers, BlockReturns(c) PROVE IInv'
<1> USE DEF IInv, TypeOK, BlockReturns, At, GoTo, Processes, Closers, CallerPlaces, CloserPlaces,
            flagVars, engineVars, callVars
<1>1. TypeOK'
  OBVIOUS
<1>2. Access'
  BY DEF Access, MutexHeld, ClosersStayOut, ClosedFirst, NoUseAfterClose, Critical, Inside
<1>3. Interrupts'
  BY DEF Interrupts, RunsInside, WatchdogsInside, OnlyAskedInterrupts, StoppedAsked, Inside
<1>4. Outcomes'
  BY DEF Outcomes, NoOutcomeYet, InterruptSeenAsCancellation, Before
<1> QED
  BY <1>1, <1>2, <1>3, <1>4

\* The block threw.
LEMMA CatchKeeps ==
  ASSUME IInv, NEW c \in Callers, Catch(c) PROVE IInv'
<1> USE DEF IInv, TypeOK, Catch, OutcomeOf, At, GoTo, Processes, Closers, CallerPlaces, CloserPlaces,
            flagVars, engineVars, callVars
<1>1. TypeOK'
  OBVIOUS
<1>2. Access'
  BY DEF Access, MutexHeld, ClosersStayOut, ClosedFirst, NoUseAfterClose, Critical, Inside
<1>3. Interrupts'
  BY DEF Interrupts, RunsInside, WatchdogsInside, OnlyAskedInterrupts, StoppedAsked, Inside
<1>4. Outcomes'
  BY DEF Outcomes, NoOutcomeYet, InterruptSeenAsCancellation, Before, Interrupts, StoppedAsked
<1> QED
  BY <1>1, <1>2, <1>3, <1>4

\* The done flag is set.
LEMMA SetDoneKeeps ==
  ASSUME IInv, NEW c \in Callers, SetDone(c) PROVE IInv'
<1> USE DEF IInv, TypeOK, SetDone, At, GoTo, Processes, Closers, CallerPlaces, CloserPlaces,
            flagVars, engineVars, callVars
<1>1. TypeOK'
  OBVIOUS
<1>2. Access'
  BY DEF Access, MutexHeld, ClosersStayOut, ClosedFirst, NoUseAfterClose, Critical, Inside
<1>3. Interrupts'
  BY DEF Interrupts, RunsInside, WatchdogsInside, OnlyAskedInterrupts, StoppedAsked, Inside
<1>4. Outcomes'
  BY DEF Outcomes, NoOutcomeYet, InterruptSeenAsCancellation, Before
<1> QED
  BY <1>1, <1>2, <1>3, <1>4

\* The watchdog is told to end.
LEMMA CancelWatchdogKeeps ==
  ASSUME IInv, NEW c \in Callers, CancelWatchdog(c) PROVE IInv'
<1> USE DEF IInv, TypeOK, CancelWatchdog, WatchdogCancelled, At, GoTo, Processes, Closers, CallerPlaces, CloserPlaces,
            flagVars, engineVars, callVars
<1>1. TypeOK'
  OBVIOUS
<1>2. Access'
  BY DEF Access, MutexHeld, ClosersStayOut, ClosedFirst, NoUseAfterClose, Critical, Inside
<1>3. Interrupts'
  BY DEF Interrupts, RunsInside, WatchdogsInside, OnlyAskedInterrupts, StoppedAsked, Inside
<1>4. Outcomes'
  BY DEF Outcomes, NoOutcomeYet, InterruptSeenAsCancellation, Before
<1> QED
  BY <1>1, <1>2, <1>3, <1>4

\* The scope ends, its watchdog with it.
LEMMA JoinKeeps ==
  ASSUME IInv, NEW c \in Callers, Join(c) PROVE IInv'
<1> USE DEF IInv, TypeOK, Join, Joined, At, GoTo, Processes, Closers, CallerPlaces, CloserPlaces,
            flagVars, engineVars, callVars
<1>1. TypeOK'
  OBVIOUS
<1>2. Access'
  BY DEF Access, MutexHeld, ClosersStayOut, ClosedFirst, NoUseAfterClose, Critical, Inside
<1>3. Interrupts'
  BY DEF Interrupts, RunsInside, WatchdogsInside, OnlyAskedInterrupts, StoppedAsked, Inside
<1>4. Outcomes'
  BY DEF Outcomes, NoOutcomeYet, InterruptSeenAsCancellation, Before
<1> QED
  BY <1>1, <1>2, <1>3, <1>4

\* The mutex goes to a waiter or is free.
LEMMA UnlockKeeps ==
  ASSUME IInv, NEW c \in Callers, Unlock(c) PROVE IInv'
<1> USE DEF IInv, TypeOK, Unlock, HandOver, AfterUnlock, Waiting, At, GoTo, Processes, Closers, CallerPlaces, CloserPlaces,
            flagVars, engineVars, callVars
<1>1. TypeOK'
  OBVIOUS
<1>2. Access'
  BY DEF Access, MutexHeld, ClosersStayOut, ClosedFirst, NoUseAfterClose, Critical, Inside
<1>3. Interrupts'
  BY DEF Interrupts, RunsInside, WatchdogsInside, OnlyAskedInterrupts, StoppedAsked, Inside
<1>4. Outcomes'
  BY DEF Outcomes, NoOutcomeYet, InterruptSeenAsCancellation, Before
<1> QED
  BY <1>1, <1>2, <1>3, <1>4

\* A call is cancelled.
LEMMA CancelKeeps ==
  ASSUME IInv, NEW c \in Callers, Cancel(c) PROVE IInv'
<1> USE DEF IInv, TypeOK, Cancel, WatchdogCancelled, At, GoTo, Processes, Closers, CallerPlaces, CloserPlaces,
            flagVars, engineVars, callVars
<1>1. TypeOK'
  OBVIOUS
<1>2. Access'
  BY DEF Access, MutexHeld, ClosersStayOut, ClosedFirst, NoUseAfterClose, Critical, Inside
<1>3. Interrupts'
  BY DEF Interrupts, RunsInside, WatchdogsInside, OnlyAskedInterrupts, StoppedAsked, Inside
<1>4. Outcomes'
  BY DEF Outcomes, NoOutcomeYet, InterruptSeenAsCancellation, Before
<1> QED
  BY <1>1, <1>2, <1>3, <1>4

\* A watchdog starts.
LEMMA WatchdogStartsKeeps ==
  ASSUME IInv, NEW c \in Callers, WatchdogStarts(c) PROVE IInv'
<1> USE DEF IInv, TypeOK, WatchdogStarts, At, GoTo, Processes, Closers, CallerPlaces, CloserPlaces,
            flagVars, engineVars, callVars
<1>1. TypeOK'
  OBVIOUS
<1>2. Access'
  BY DEF Access, MutexHeld, ClosersStayOut, ClosedFirst, NoUseAfterClose, Critical, Inside
<1>3. Interrupts'
  BY DEF Interrupts, RunsInside, WatchdogsInside, OnlyAskedInterrupts, StoppedAsked, Inside
<1>4. Outcomes'
  BY DEF Outcomes, NoOutcomeYet, InterruptSeenAsCancellation, Before
<1> QED
  BY <1>1, <1>2, <1>3, <1>4

\* A cancelled watchdog reads the done flag.
LEMMA WatchdogFiresKeeps ==
  ASSUME IInv, NEW c \in Callers, WatchdogFires(c) PROVE IInv'
<1> USE DEF IInv, TypeOK, WatchdogFires, At, GoTo, Processes, Closers, CallerPlaces, CloserPlaces,
            flagVars, engineVars, callVars
<1>1. TypeOK'
  OBVIOUS
<1>2. Access'
  BY DEF Access, MutexHeld, ClosersStayOut, ClosedFirst, NoUseAfterClose, Critical, Inside
<1>3. Interrupts'
  BY DEF Interrupts, RunsInside, WatchdogsInside, OnlyAskedInterrupts, StoppedAsked, Inside
<1>4. Outcomes'
  BY DEF Outcomes, NoOutcomeYet, InterruptSeenAsCancellation, Before
<1> QED
  BY <1>1, <1>2, <1>3, <1>4

\* The watchdog's call is still inside, so the run it hits is its own call's.
LEMMA WatchdogInterruptsKeeps ==
  ASSUME IInv, NEW c \in Callers, WatchdogInterrupts(c) PROVE IInv'
<1> USE DEF IInv, TypeOK, WatchdogInterrupts, StateAfterInterrupt, At, GoTo, Processes, Closers, CallerPlaces, CloserPlaces,
            flagVars, engineVars, callVars
<1>1. TypeOK'
  OBVIOUS
<1>2. Access'
  BY DEF Access, MutexHeld, ClosersStayOut, ClosedFirst, NoUseAfterClose, Critical, Inside
<1>3. Interrupts'
  BY DEF Interrupts, RunsInside, WatchdogsInside, OnlyAskedInterrupts, StoppedAsked, Inside, Access, MutexHeld, Critical
<1>4. Outcomes'
  BY DEF Outcomes, NoOutcomeYet, InterruptSeenAsCancellation, Before
<1> QED
  BY <1>1, <1>2, <1>3, <1>4

\* The runtime is closed, once.
LEMMA ClaimKeeps ==
  ASSUME IInv, NEW p \in Closers, Claim(p) PROVE IInv'
<1> USE DEF IInv, TypeOK, Claim, At, GoTo, Processes, Closers, CallerPlaces, CloserPlaces,
            flagVars, engineVars, callVars
<1>1. TypeOK'
  OBVIOUS
<1>2. Access'
  BY DEF Access, MutexHeld, ClosersStayOut, ClosedFirst, NoUseAfterClose, Critical, Inside
<1>3. Interrupts'
  BY DEF Interrupts, RunsInside, WatchdogsInside, OnlyAskedInterrupts, StoppedAsked, Inside
<1>4. Outcomes'
  BY DEF Outcomes, NoOutcomeYet, InterruptSeenAsCancellation, Before
<1> QED
  BY <1>1, <1>2, <1>3, <1>4

\* A closer interrupts what runs.
LEMMA InterruptEngineKeeps ==
  ASSUME IInv, NEW p \in Closers, InterruptEngine(p) PROVE IInv'
<1> USE DEF IInv, TypeOK, InterruptEngine, StateAfterInterrupt, At, GoTo, Processes, Closers, CallerPlaces, CloserPlaces,
            flagVars, engineVars, callVars
<1>1. TypeOK'
  OBVIOUS
<1>2. Access'
  BY DEF Access, MutexHeld, ClosersStayOut, ClosedFirst, NoUseAfterClose, Critical, Inside
<1>3. Interrupts'
  BY DEF Interrupts, RunsInside, WatchdogsInside, OnlyAskedInterrupts, StoppedAsked, Inside, Access, ClosedFirst
<1>4. Outcomes'
  BY DEF Outcomes, NoOutcomeYet, InterruptSeenAsCancellation, Before
<1> QED
  BY <1>1, <1>2, <1>3, <1>4

\* shutdown takes the mutex or queues for it.
LEMMA ShutdownLocksKeeps ==
  ASSUME IInv, NEW p \in Closers, ShutdownLocks(p) PROVE IInv'
<1>1. p \in Processes /\ pc[p] \notin Critical /\ p \notin Callers
  BY DEF ShutdownLocks, At, Critical, Inside, Processes, Closers
<1>2. PICK next \in {"locked", "queued"} :
        /\ GoTo(p, next)
        /\ (lock = Nobody /\ lock' = p) \/ (next = "queued" /\ lock' = lock)
  BY DEF ShutdownLocks, Lock
<1> QED
  BY <1>1, <1>2, LockStepKeeps DEF ShutdownLocks, Lock, At

\* shutdown has the mutex.
LEMMA ShutdownHoldsKeeps ==
  ASSUME IInv, NEW p \in Closers, ShutdownHolds(p) PROVE IInv'
<1> USE DEF IInv, TypeOK, ShutdownHolds, At, GoTo, Processes, Closers, CallerPlaces, CloserPlaces,
            flagVars, engineVars, callVars
<1>1. TypeOK'
  OBVIOUS
<1>2. Access'
  BY DEF Access, MutexHeld, ClosersStayOut, ClosedFirst, NoUseAfterClose, Critical, Inside
<1>3. Interrupts'
  BY DEF Interrupts, RunsInside, WatchdogsInside, OnlyAskedInterrupts, StoppedAsked, Inside
<1>4. Outcomes'
  BY DEF Outcomes, NoOutcomeYet, InterruptSeenAsCancellation, Before
<1> QED
  BY <1>1, <1>2, <1>3, <1>4

\* close leaves its request.
LEMMA SetPendingKeeps ==
  ASSUME IInv, NEW p \in Closers, SetPending(p) PROVE IInv'
<1> USE DEF IInv, TypeOK, SetPending, At, GoTo, Processes, Closers, CallerPlaces, CloserPlaces,
            flagVars, engineVars, callVars
<1>1. TypeOK'
  OBVIOUS
<1>2. Access'
  BY DEF Access, MutexHeld, ClosersStayOut, ClosedFirst, NoUseAfterClose, Critical, Inside
<1>3. Interrupts'
  BY DEF Interrupts, RunsInside, WatchdogsInside, OnlyAskedInterrupts, StoppedAsked, Inside
<1>4. Outcomes'
  BY DEF Outcomes, NoOutcomeYet, InterruptSeenAsCancellation, Before
<1> QED
  BY <1>1, <1>2, <1>3, <1>4

\* closeIfPending reads the request.
LEMMA LoadPendingKeeps ==
  ASSUME IInv, NEW p \in Processes, LoadPending(p) PROVE IInv'
<1> USE DEF IInv, TypeOK, LoadPending, At, GoTo, Processes, Closers, CallerPlaces, CloserPlaces,
            flagVars, engineVars, callVars
<1>1. TypeOK'
  OBVIOUS
<1>2. Access'
  BY DEF Access, MutexHeld, ClosersStayOut, ClosedFirst, NoUseAfterClose, Critical, Inside
<1>3. Interrupts'
  BY DEF Interrupts, RunsInside, WatchdogsInside, OnlyAskedInterrupts, StoppedAsked, Inside
<1>4. Outcomes'
  BY DEF Outcomes, NoOutcomeYet, InterruptSeenAsCancellation, Before
<1> QED
  BY <1>1, <1>2, <1>3, <1>4

\* closeIfPending tries the mutex.
LEMMA TryLockKeeps ==
  ASSUME IInv, NEW p \in Processes, TryLock(p) PROVE IInv'
<1>1. pc[p] \notin Critical /\ closed
  BY DEF TryLock, At, Critical, Inside, IInv, Access, ClosedFirst
<1>2. PICK next \in {"closing", "done"} :
        /\ GoTo(p, next)
        /\ (lock = Nobody /\ lock' = p) \/ (next = "done" /\ lock' = lock)
  BY DEF TryLock, CanTryLock
<1> QED
  BY <1>1, <1>2, LockStepKeeps DEF TryLock, At

\* The holder of the mutex closes the engine.
LEMMA CloseEngineKeeps ==
  ASSUME IInv, NEW p \in Processes, CloseEngine(p) PROVE IInv'
<1> USE DEF IInv, TypeOK, CloseEngine, At, GoTo, Processes, Closers, CallerPlaces, CloserPlaces,
            flagVars, engineVars, callVars
<1>1. TypeOK'
  OBVIOUS
<1>2. Access'
  BY DEF Access, MutexHeld, ClosersStayOut, ClosedFirst, NoUseAfterClose, Critical, Inside
<1>3. Interrupts'
  BY DEF Interrupts, RunsInside, WatchdogsInside, OnlyAskedInterrupts, StoppedAsked, Inside
<1>4. Outcomes'
  BY DEF Outcomes, NoOutcomeYet, InterruptSeenAsCancellation, Before
<1> QED
  BY <1>1, <1>2, <1>3, <1>4

\* The mutex goes to a waiter or is free.
LEMMA ReleaseLockKeeps ==
  ASSUME IInv, NEW p \in Processes, ReleaseLock(p) PROVE IInv'
<1> USE DEF IInv, TypeOK, ReleaseLock, HandOver, Waiting, At, GoTo, Processes, Closers, CallerPlaces, CloserPlaces,
            flagVars, engineVars, callVars
<1>1. TypeOK'
  OBVIOUS
<1>2. Access'
  BY DEF Access, MutexHeld, ClosersStayOut, ClosedFirst, NoUseAfterClose, Critical, Inside
<1>3. Interrupts'
  BY DEF Interrupts, RunsInside, WatchdogsInside, OnlyAskedInterrupts, StoppedAsked, Inside
<1>4. Outcomes'
  BY DEF Outcomes, NoOutcomeYet, InterruptSeenAsCancellation, Before
<1> QED
  BY <1>1, <1>2, <1>3, <1>4

\* Stuttering changes nothing.
LEMMA StutterKeeps == IInv /\ UNCHANGED vars => IInv'
<1> SUFFICES ASSUME IInv, UNCHANGED vars PROVE IInv'
  OBVIOUS
<1> USE DEF IInv, vars
<1>1. TypeOK'
  BY DEF TypeOK
<1>2. Access'
  BY DEF Access, MutexHeld, ClosersStayOut, ClosedFirst, NoUseAfterClose
<1>3. Interrupts'
  BY DEF Interrupts, RunsInside, WatchdogsInside, OnlyAskedInterrupts, StoppedAsked, At
<1>4. Outcomes'
  BY DEF Outcomes, NoOutcomeYet, InterruptSeenAsCancellation
<1> QED
  BY <1>1, <1>2, <1>3, <1>4

LEMMA Invariant == Spec => []IInv
<1>1. ASSUME IInv, NEW p \in Processes, CloseIfPending(p) PROVE IInv'
  BY <1>1, LoadPendingKeeps, TryLockKeeps, CloseEngineKeeps, ReleaseLockKeeps DEF CloseIfPending
<1>2. ASSUME IInv, NEW c \in Callers, CallerStep(c) PROVE IInv'
  <2>1. c \in Processes
    BY DEF Processes
  <2> QED
    BY <1>1, <1>2, <2>1, GrantedKeeps, AbandonKeeps, CheckClosedKeeps, DispatchKeeps, BeginRunKeeps,
       ReturnsKeeps, ThrowsKeeps, InterruptedKeeps, BlockReturnsKeeps, CatchKeeps, SetDoneKeeps,
       CancelWatchdogKeeps, JoinKeeps, UnlockKeeps
    DEF CallerStep
<1>3. ASSUME IInv, NEW c \in Callers, WatchdogStep(c) PROVE IInv'
  BY <1>3, WatchdogStartsKeeps, WatchdogFiresKeeps, WatchdogInterruptsKeeps DEF WatchdogStep
<1>4. ASSUME IInv, NEW p \in Closers, CloserStep(p) PROVE IInv'
  <2>1. p \in Processes
    BY DEF Processes
  <2> QED
    BY <1>1, <1>4, <2>1, InterruptEngineKeeps, ShutdownLocksKeeps, GrantedKeeps, ShutdownHoldsKeeps,
       SetPendingKeeps
    DEF CloserStep
<1>5. IInv /\ [Next]_vars => IInv'
  BY <1>2, <1>3, <1>4, EnterKeeps, CancelKeeps, ClaimKeeps, StutterKeeps DEF Next
<1> QED
  BY Starts, <1>5, PTL DEF Spec

----------------------------------------------------------------------------

\* JsRuntime is type correct.
THEOREM Typing == Spec => []TypeOK
<1>1. IInv => TypeOK
  BY DEF IInv
<1> QED
  BY Invariant, <1>1, PTL

\* withEngine gives exclusive access: no two coroutines are inside
\* runExclusive or closing the engine at once.
THEOREM ExclusiveAccess == Spec => []Exclusive
<1>1. IInv => Exclusive
  BY DEF IInv, Access, MutexHeld, Exclusive, Critical
<1> QED
  BY Invariant, <1>1, PTL

\* Neither shutdown nor close frees the engine under a running block, and no
\* block starts once the engine is closed.
THEOREM NeverUsedClosed == Spec => []NoUseAfterClose
<1>1. IInv => NoUseAfterClose
  BY DEF IInv, Access
<1> QED
  BY Invariant, <1>1, PTL

\* A watchdog interrupts the run of its own call or nothing.
THEOREM InterruptsAreAsked == Spec => []OnlyAskedInterrupts
<1>1. IInv => OnlyAskedInterrupts
  BY DEF IInv, Interrupts
<1> QED
  BY Invariant, <1>1, PTL

\* A caller whose script was interrupted for its cancellation gets a
\* CancellationException, not the script's error.
THEOREM CancellationReported == Spec => []InterruptSeenAsCancellation
<1>1. IInv => InterruptSeenAsCancellation
  BY DEF IInv, Outcomes
<1> QED
  BY Invariant, <1>1, PTL

=============================================================================
