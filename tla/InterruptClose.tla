--------------------------- MODULE InterruptClose ---------------------------
(***************************************************************************)
(* JsEngine.interrupt against JsEngine.close. Interrupts come from any     *)
(* thread; close frees the native engine they dereference. The protocol is *)
(* store-then-load on both sides: an interrupt announces itself in         *)
(* inFlightInterrupts and then reads closed, close sets closed and then    *)
(* waits until inFlightInterrupts reads zero. Both are Kotlin atomics and  *)
(* so sequentially consistent; the native pointer is a plain field.        *)
(***************************************************************************)
EXTENDS Integers, FiniteSets

CONSTANTS
  Interrupters,  (* threads that call interrupt                            *)
  Closers,       (* threads that call close                                *)
  MaxCalls       (* bound: calls of interrupt per thread                   *)

ASSUME InterruptCloseConstants ==
  /\ IsFiniteSet(Interrupters)
  /\ Interrupters \cap Closers = {}
  /\ MaxCalls \in Nat \ {0}

VARIABLES
  closed,        (* JsEngine.closed                                        *)
  inFlight,      (* JsEngine.inFlightInterrupts                            *)
  ptr,           (* NativeEngine.ptr is set                                *)
  freed,         (* how often kmpjs_destroy freed the engine               *)
  pc,            (* where each thread is                                   *)
  calls          (* calls of interrupt each thread has begun               *)

vars == <<closed, inFlight, ptr, freed, pc, calls>>

Threads == Interrupters \cup Closers

\* An interrupt between its increment and its decrement.
Announced == {"check", "load", "send", "leave"}

At(t, here)   == pc[t] = here
GoTo(t, next) == pc' = [pc EXCEPT ![t] = next]

----------------------------------------------------------------------------
(* interrupt                                                                *)

\* Mutant: the interrupt is not announced.
MutAnnounceNothing(n) == n

AfterIncrement(n) == n + 1

\* inFlightInterrupts.incrementAndFetch()
Announce(t) ==
  /\ At(t, "idle")
  /\ calls[t] < MaxCalls
  /\ calls'    = [calls EXCEPT ![t] = @ + 1]
  /\ inFlight' = AfterIncrement(inFlight)
  /\ GoTo(t, "check")
  /\ UNCHANGED <<closed, ptr, freed>>

\* Mutant: a closed engine is left without the decrement of the finally.
MutSkipFinally(c) == IF c THEN "idle" ELSE "load"

\* if (!closed.load()), inside the try
AfterCheck(c) == IF c THEN "leave" ELSE "load"

Check(t) ==
  /\ At(t, "check")
  /\ GoTo(t, AfterCheck(closed))
  /\ UNCHANGED <<closed, inFlight, ptr, freed, calls>>

\* NativeEngine.interrupt: val p = ptr; if (p != 0L)
LoadPtr(t) ==
  /\ At(t, "load")
  /\ GoTo(t, IF ptr THEN "send" ELSE "leave")
  /\ UNCHANGED <<closed, inFlight, ptr, freed, calls>>

\* kmpjs_interrupt(p); its effect on the run state is in RunState.
Send(t) ==
  /\ At(t, "send")
  /\ GoTo(t, "leave")
  /\ UNCHANGED <<closed, inFlight, ptr, freed, calls>>

\* finally { inFlightInterrupts.decrementAndFetch() }
Leave(t) ==
  /\ At(t, "leave")
  /\ inFlight' = inFlight - 1
  /\ GoTo(t, "idle")
  /\ UNCHANGED <<closed, ptr, freed, calls>>

----------------------------------------------------------------------------
(* close                                                                    *)

\* Mutants: the compare-and-set lets everybody through; close does not wait.
MutClaimAlways(c) == TRUE
MutWaitOver(n)    == TRUE

\* closed.compareAndSet(expectedValue = false, newValue = true)
Claims(c) == ~c

Claim(t) ==
  /\ At(t, "idle")
  /\ closed' = TRUE
  /\ GoTo(t, IF Claims(closed) THEN "wait" ELSE "done")
  /\ UNCHANGED <<inFlight, ptr, freed, calls>>

\* while (inFlightInterrupts.load() != 0)
WaitIsOver(n) == n = 0

Wait(t) ==
  /\ At(t, "wait")
  /\ GoTo(t, IF WaitIsOver(inFlight) THEN "read" ELSE "wait")
  /\ UNCHANGED <<closed, inFlight, ptr, freed, calls>>

\* NativeEngine.close: val p = ptr; if (p != 0L)
ReadPtr(t) ==
  /\ At(t, "read")
  /\ GoTo(t, IF ptr THEN "clear" ELSE "done")
  /\ UNCHANGED <<closed, inFlight, ptr, freed, calls>>

\* ptr = 0L
ClearPtr(t) ==
  /\ At(t, "clear")
  /\ ptr' = FALSE
  /\ GoTo(t, "destroy")
  /\ UNCHANGED <<closed, inFlight, freed, calls>>

\* kmpjs_destroy(p)
Destroy(t) ==
  /\ At(t, "destroy")
  /\ freed' = freed + 1
  /\ GoTo(t, "done")
  /\ UNCHANGED <<closed, inFlight, ptr, calls>>

----------------------------------------------------------------------------

Init ==
  /\ closed   = FALSE
  /\ inFlight = 0
  /\ ptr      = TRUE
  /\ freed    = 0
  /\ pc       = [t \in Threads |-> "idle"]
  /\ calls    = [t \in Interrupters |-> 0]

InterruptStep(t) == Announce(t) \/ Check(t) \/ LoadPtr(t) \/ Send(t) \/ Leave(t)
CloseStep(t)     == Claim(t) \/ Wait(t) \/ ReadPtr(t) \/ ClearPtr(t) \/ Destroy(t)

Next ==
  \/ \E t \in Interrupters : InterruptStep(t)
  \/ \E t \in Closers : CloseStep(t)

\* Threads are scheduled; nobody is obliged to call interrupt or close.
Fairness ==
  /\ \A t \in Interrupters :
       WF_vars(Check(t)) /\ WF_vars(LoadPtr(t)) /\ WF_vars(Send(t)) /\ WF_vars(Leave(t))
  /\ \A t \in Closers :
       WF_vars(Wait(t)) /\ WF_vars(ReadPtr(t)) /\ WF_vars(ClearPtr(t)) /\ WF_vars(Destroy(t))

Spec     == Init /\ [][Next]_vars
FairSpec == Spec /\ Fairness

----------------------------------------------------------------------------
(* Properties.                                                              *)

\* Type invariant of the interrupt and close protocol.
TypeOK ==
  /\ closed   \in BOOLEAN
  /\ inFlight \in Nat
  /\ ptr      \in BOOLEAN
  /\ freed    \in Nat
  /\ pc       \in [Threads -> Announced \cup {"idle", "wait", "read", "clear", "destroy", "done"}]
  /\ calls    \in [Interrupters -> 0..MaxCalls]

\* "An interrupt that passed the closed check must finish before the handle
\* is freed": no thread holds the native pointer once the engine is freed.
NoUseAfterFree ==
  \A t \in Interrupters : At(t, "send") => freed = 0

\* Concurrent and repeated close calls free the engine once.
FreedOnce == freed <= 1

\* A claimed close does free the engine: the spin ends once the interrupts
\* that were under way, and the finitely many still to come, have finished.
CloseCompletes == closed ~> freed = 1

=============================================================================
