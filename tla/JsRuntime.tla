------------------------------ MODULE JsRuntime ------------------------------
(***************************************************************************)
(* JsRuntime: coroutines that share one engine under a mutex, the watchdog *)
(* that turns the cancellation of a call into an interrupt, and the two    *)
(* ways to close the runtime, shutdown and close.                          *)
(*                                                                         *)
(* A caller runs one withEngine. Its block makes up to MaxRuns engine      *)
(* calls; a script returns, throws, or (Endless) never ends by itself.     *)
(* A timeout is a cancellation. kotlinx.coroutines is external and         *)
(* modelled by what the source relies on: a mutex that hands itself over   *)
(* to a waiter, prompt cancellation of suspended callers, a scope that     *)
(* waits for its children, a child that never starts once it is cancelled. *)
(* interrupt and close of the engine are single steps here, which          *)
(* InterruptClose justifies; the run state is that of RunState, seen       *)
(* without nesting.                                                        *)
(***************************************************************************)
EXTENDS Integers

CONSTANTS
  Callers,     (* coroutines that call withEngine                          *)
  Shutdowns,   (* coroutines that call shutdown                            *)
  Closes,      (* threads that call close                                  *)
  Nobody,      (* not one of them: the mutex is free                       *)
  MaxRuns,     (* bound: engine calls in one block                         *)
  Endless      (* scripts may run for ever                                 *)

ASSUME JsRuntimeConstants ==
  /\ Callers \cap (Shutdowns \cup Closes) = {} /\ Shutdowns \cap Closes = {}
  /\ Nobody \notin Callers \cup Shutdowns \cup Closes
  /\ MaxRuns \in Nat \ {0}
  /\ Endless \in BOOLEAN

VARIABLES
  pc,            (* where each coroutine is                                *)
  lock,          (* holder of the mutex                                    *)
  closed,        (* JsRuntime.closed                                       *)
  pendingClose,  (* JsRuntime.pendingClose                                 *)
  engineClosed,  (* engine.close has run                                   *)
  state,         (* the engine's run state                                 *)
  cancelled,     (* the callers whose job is cancelled                     *)
  done,          (* the callers whose done flag is set                     *)
  watchdog,      (* the watchdog of each caller                            *)
  endless,       (* the script a caller runs never ends by itself          *)
  runs,          (* engine calls each caller's block has made              *)
  outcome,       (* how each call ended                                    *)
  stopped        (* history: the callers whose run an interrupt ended      *)

vars == <<pc, lock, closed, pendingClose, engineClosed, state, cancelled, done,
          watchdog, endless, runs, outcome, stopped>>

Closers   == Shutdowns \cup Closes
Processes == Callers \cup Closers

At(p, here)   == pc[p] = here
GoTo(p, next) == pc' = [pc EXCEPT ![p] = next]

engineVars == <<engineClosed, state>>
flagVars   == <<closed, pendingClose>>
callVars   == <<cancelled, done, watchdog, endless, runs, outcome, stopped>>

----------------------------------------------------------------------------
(* The mutex.                                                               *)

Waiting == {p \in Processes : At(p, "queued")}

\* Mutant: tryLock succeeds while somebody holds the mutex.
MutTryLock(holder) == TRUE

CanTryLock(holder) == holder = Nobody

\* mutex.lock(): taken at once, or queued.
Lock(p) ==
  /\ \/ lock = Nobody /\ lock' = p /\ GoTo(p, "locked")
     \/ lock # Nobody /\ lock' = lock /\ GoTo(p, "queued")
  /\ UNCHANGED <<flagVars, engineVars, callVars>>

\* A waiter that was handed the mutex resumes, unless it is cancelled: then it
\* gives the mutex back and throws.
Granted(p) ==
  /\ At(p, "queued")
  /\ lock = p
  /\ GoTo(p, IF p \in cancelled THEN "unlock" ELSE "locked")
  /\ outcome' = IF p \in cancelled THEN [outcome EXCEPT ![p] = "cancelled"] ELSE outcome
  /\ UNCHANGED <<lock, flagVars, engineVars, cancelled, done, watchdog, endless, runs, stopped>>

\* Unlocking hands the mutex over to a waiter, if there is one.
HandOver ==
  IF Waiting = {} THEN lock' = Nobody ELSE lock' \in Waiting

----------------------------------------------------------------------------
(* withEngine                                                               *)

Enter(c) == At(c, "start") /\ Lock(c)

\* A caller cancelled in the queue leaves it.
Abandon(c) ==
  /\ At(c, "queued")
  /\ lock # c
  /\ c \in cancelled
  /\ GoTo(c, "pending")
  /\ outcome' = [outcome EXCEPT ![c] = "cancelled"]
  /\ UNCHANGED <<lock, flagVars, engineVars, cancelled, done, watchdog, endless, runs, stopped>>

\* Mutants: the check is missing; its exception leaves the mutex locked.
MutNoCheck(isClosed)    == "dispatch"
MutKeepsLock(isClosed)  == IF isClosed THEN "pending" ELSE "dispatch"

\* check(!closed.load()), inside withLock
AfterCheck(isClosed) == IF isClosed THEN "unlock" ELSE "dispatch"

CheckClosed(c) ==
  /\ At(c, "locked")
  /\ GoTo(c, AfterCheck(closed))
  /\ outcome' = IF closed THEN [outcome EXCEPT ![c] = "illegal state"] ELSE outcome
  /\ UNCHANGED <<lock, flagVars, engineVars, cancelled, done, watchdog, endless, runs, stopped>>

\* withContext(dispatcher) { coroutineScope { launch the watchdog: a call that
\* was cancelled before it is dispatched does not run.
Dispatch(c) ==
  /\ At(c, "dispatch")
  /\ \/ /\ c \in cancelled
        /\ GoTo(c, "unlock")
        /\ outcome' = [outcome EXCEPT ![c] = "cancelled"]
        /\ UNCHANGED watchdog
     \/ /\ c \notin cancelled
        /\ GoTo(c, "block")
        /\ watchdog' = [watchdog EXCEPT ![c] = "launched"]
        /\ UNCHANGED outcome
  /\ UNCHANGED <<lock, flagVars, engineVars, cancelled, done, endless, runs, stopped>>

\* The block calls the engine (run_begin, JsEngine.checkOpen).
BeginRun(c) ==
  /\ At(c, "block")
  /\ runs[c] < MaxRuns
  /\ ~engineClosed
  /\ state' = IF state = "IDLE" THEN "RUNNING" ELSE state
  /\ runs'  = [runs EXCEPT ![c] = @ + 1]
  /\ \E e \in {FALSE, Endless} : endless' = [endless EXCEPT ![c] = e]
  /\ GoTo(c, "native")
  /\ UNCHANGED <<lock, flagVars, engineClosed, cancelled, done, watchdog, outcome, stopped>>

\* The engine call ends (run_end): with a value, or with a JsException that the
\* block catches or lets through.
RunEnds(c, next) ==
  /\ state' = "IDLE"
  /\ GoTo(c, next)
  /\ UNCHANGED <<lock, flagVars, engineClosed, cancelled, done, watchdog, endless, runs, outcome>>

Returns(c) == At(c, "native") /\ ~endless[c] /\ RunEnds(c, "block") /\ UNCHANGED stopped
Throws(c)  == At(c, "native") /\ ~endless[c] /\ RunEnds(c, "thrown") /\ UNCHANGED stopped

\* A poll of the VM sees the interrupt.
Interrupted(c) ==
  /\ At(c, "native")
  /\ state = "INTERRUPTED"
  /\ \E next \in {"block", "thrown"} : RunEnds(c, next)
  /\ stopped' = stopped \cup {c}

BlockReturns(c) ==
  /\ At(c, "block")
  /\ GoTo(c, "finally")
  /\ outcome' = [outcome EXCEPT ![c] = "value"]
  /\ UNCHANGED <<lock, flagVars, engineVars, cancelled, done, watchdog, endless, runs, stopped>>

\* Mutants: the exception is passed on whether or not the call is active; an
\* interruption is reported as a kind of its own.
MutRethrow(c)    == "failed"
MutOwnOutcome(c) == "interrupted"

\* catch (e: JsException) { if (isActive) throw e; throw CancellationException }
OutcomeOf(c) == IF c \in cancelled THEN "cancelled" ELSE "failed"

Catch(c) ==
  /\ At(c, "thrown")
  /\ GoTo(c, "finally")
  /\ outcome' = [outcome EXCEPT ![c] = OutcomeOf(c)]
  /\ UNCHANGED <<lock, flagVars, engineVars, cancelled, done, watchdog, endless, runs, stopped>>

\* finally { done.store(true)
SetDone(c) ==
  /\ At(c, "finally")
  /\ done' = done \cup {c}
  /\ GoTo(c, "cancel watchdog")
  /\ UNCHANGED <<lock, flagVars, engineVars, cancelled, watchdog, endless, runs, outcome, stopped>>

\* Mutant: the watchdog is left waiting.
MutWatchdogKept(w) == w

\* Cancelling a coroutine that has not started keeps it from starting; one that
\* is suspended in awaitCancellation runs its finally.
WatchdogCancelled(w) ==
  IF w = "launched" THEN "ended" ELSE IF w = "waiting" THEN "fired" ELSE w

\* watchdog.cancel() }
CancelWatchdog(c) ==
  /\ At(c, "cancel watchdog")
  /\ watchdog' = [watchdog EXCEPT ![c] = WatchdogCancelled(@)]
  /\ GoTo(c, "join")
  /\ UNCHANGED <<lock, flagVars, engineVars, cancelled, done, endless, runs, outcome, stopped>>

\* Mutant: the scope does not wait for the watchdog.
MutNoJoin(w) == TRUE

\* coroutineScope waits for the watchdog.
Joined(w) == w = "ended"

\* The scope, then withContext, return: a value is dropped when the caller is
\* cancelled by then.
Join(c) ==
  /\ At(c, "join")
  /\ Joined(watchdog[c])
  /\ outcome' = [outcome EXCEPT ![c] = IF @ = "value" /\ c \in cancelled THEN "cancelled" ELSE @]
  /\ GoTo(c, "unlock")
  /\ UNCHANGED <<lock, flagVars, engineVars, cancelled, done, watchdog, endless, runs, stopped>>

\* Mutant: withEngine ends without closeIfPending.
MutNoFinally == "done"

\* } finally { closeIfPending() }
AfterUnlock == "pending"

\* withLock's finally.
Unlock(c) ==
  /\ At(c, "unlock")
  /\ HandOver
  /\ GoTo(c, AfterUnlock)
  /\ UNCHANGED <<flagVars, engineVars, callVars>>

----------------------------------------------------------------------------
(* The watchdog of a call, and the cancellation of the call.                *)

\* The caller's job is cancelled, or its timeout expires.
Cancel(c) ==
  /\ ~At(c, "start") /\ ~At(c, "done")
  /\ c \notin cancelled
  /\ cancelled' = cancelled \cup {c}
  /\ watchdog'  = [watchdog EXCEPT ![c] = WatchdogCancelled(@)]
  /\ UNCHANGED <<pc, lock, flagVars, engineVars, done, endless, runs, outcome, stopped>>

WatchdogStarts(c) ==
  /\ watchdog[c] = "launched"
  /\ watchdog' = [watchdog EXCEPT ![c] = "waiting"]
  /\ UNCHANGED <<pc, lock, flagVars, engineVars, cancelled, done, endless, runs, outcome, stopped>>

\* finally { if (!done.load())
WatchdogFires(c) ==
  /\ watchdog[c] = "fired"
  /\ watchdog' = [watchdog EXCEPT ![c] = IF c \in done THEN "ended" ELSE "interrupting"]
  /\ UNCHANGED <<pc, lock, flagVars, engineVars, cancelled, done, endless, runs, outcome, stopped>>

\* engine.interrupt(): kmpjs_interrupt only hits a run in progress.
StateAfterInterrupt(s) == IF s = "RUNNING" /\ ~engineClosed THEN "INTERRUPTED" ELSE s

WatchdogInterrupts(c) ==
  /\ watchdog[c] = "interrupting"
  /\ state'    = StateAfterInterrupt(state)
  /\ watchdog' = [watchdog EXCEPT ![c] = "ended"]
  /\ UNCHANGED <<pc, lock, flagVars, engineClosed, cancelled, done, endless, runs, outcome, stopped>>

----------------------------------------------------------------------------
(* shutdown and close                                                       *)

\* closed.compareAndSet(false, true): later closers return at once.
Claim(p) ==
  /\ At(p, "start")
  /\ closed' = TRUE
  /\ GoTo(p, IF closed THEN "done" ELSE "interrupt")
  /\ UNCHANGED <<lock, pendingClose, engineVars, callVars>>

\* engine.interrupt()
InterruptEngine(p) ==
  /\ At(p, "interrupt")
  /\ state' = StateAfterInterrupt(state)
  /\ GoTo(p, IF p \in Shutdowns THEN "lock" ELSE "set pending")
  /\ UNCHANGED <<lock, flagVars, engineClosed, callVars>>

\* shutdown: withContext(NonCancellable) { mutex.withLock { engine.close() } }
ShutdownLocks(p) == At(p, "lock") /\ Lock(p)

ShutdownHolds(p) ==
  /\ At(p, "locked")
  /\ GoTo(p, "closing")
  /\ UNCHANGED <<lock, flagVars, engineVars, callVars>>

\* close: pendingClose.store(true)
SetPending(p) ==
  /\ At(p, "set pending")
  /\ pendingClose' = TRUE
  /\ GoTo(p, "pending")
  /\ UNCHANGED <<lock, closed, engineVars, callVars>>

\* closeIfPending: if (!pendingClose.load()
LoadPending(p) ==
  /\ At(p, "pending")
  /\ GoTo(p, IF pendingClose THEN "try lock" ELSE "done")
  /\ UNCHANGED <<lock, flagVars, engineVars, callVars>>

\* || !mutex.tryLock()) return
TryLock(p) ==
  /\ At(p, "try lock")
  /\ \/ CanTryLock(lock) /\ lock' = p /\ GoTo(p, "closing")
     \/ ~CanTryLock(lock) /\ lock' = lock /\ GoTo(p, "done")
  /\ UNCHANGED <<flagVars, engineVars, callVars>>

\* try { engine.close() }
CloseEngine(p) ==
  /\ At(p, "closing")
  /\ engineClosed' = TRUE
  /\ GoTo(p, "release")
  /\ UNCHANGED <<lock, flagVars, state, callVars>>

\* finally { mutex.unlock() }
ReleaseLock(p) ==
  /\ At(p, "release")
  /\ HandOver
  /\ GoTo(p, "done")
  /\ UNCHANGED <<flagVars, engineVars, callVars>>

----------------------------------------------------------------------------

Init ==
  /\ pc           = [p \in Processes |-> "start"]
  /\ lock         = Nobody
  /\ closed       = FALSE
  /\ pendingClose = FALSE
  /\ engineClosed = FALSE
  /\ state        = "IDLE"
  /\ cancelled    = {}
  /\ stopped      = {}
  /\ done         = {}
  /\ watchdog     = [c \in Callers |-> "none"]
  /\ endless      = [c \in Callers |-> FALSE]
  /\ runs         = [c \in Callers |-> 0]
  /\ outcome      = [c \in Callers |-> "none"]

CloseIfPending(p) == LoadPending(p) \/ TryLock(p) \/ CloseEngine(p) \/ ReleaseLock(p)

\* What the threads that execute a caller do of themselves; a script that runs
\* for ever is left to the interrupt.
CallerStep(c) ==
  \/ Granted(c) \/ Abandon(c) \/ CheckClosed(c) \/ Dispatch(c)
  \/ BeginRun(c) \/ Returns(c) \/ Throws(c) \/ Interrupted(c) \/ BlockReturns(c) \/ Catch(c)
  \/ SetDone(c) \/ CancelWatchdog(c) \/ Join(c) \/ Unlock(c)
  \/ CloseIfPending(c)

WatchdogStep(c) == WatchdogStarts(c) \/ WatchdogFires(c) \/ WatchdogInterrupts(c)

CloserStep(p) ==
  \/ InterruptEngine(p) \/ ShutdownLocks(p) \/ Granted(p) \/ ShutdownHolds(p) \/ SetPending(p)
  \/ CloseIfPending(p)

Next ==
  \/ \E c \in Callers : Enter(c) \/ CallerStep(c) \/ WatchdogStep(c) \/ Cancel(c)
  \/ \E p \in Closers : Claim(p) \/ CloserStep(p)

\* Dispatchers run what is dispatched, and threads go on; nobody is obliged to
\* call, to cancel or to close.
Fairness ==
  /\ \A c \in Callers : WF_vars(CallerStep(c)) /\ WF_vars(WatchdogStep(c))
  /\ \A p \in Closers : WF_vars(CloserStep(p))

Spec     == Init /\ [][Next]_vars
FairSpec == Spec /\ Fairness

----------------------------------------------------------------------------
(* Properties.                                                              *)

CallerPlaces == {"start", "queued", "locked", "dispatch", "block", "native", "thrown", "finally",
                 "cancel watchdog", "join", "unlock", "pending", "try lock", "closing", "release", "done"}
CloserPlaces == {"start", "interrupt", "lock", "queued", "locked", "set pending", "pending",
                 "try lock", "closing", "release", "done"}

\* Type invariant of the runtime.
TypeOK ==
  /\ pc \in [Processes -> CallerPlaces \cup CloserPlaces]
  /\ lock \in Processes \cup {Nobody}
  /\ closed \in BOOLEAN /\ pendingClose \in BOOLEAN /\ engineClosed \in BOOLEAN
  /\ state \in {"IDLE", "RUNNING", "INTERRUPTED"}
  /\ cancelled \subseteq Callers /\ stopped \subseteq Callers
  /\ done \subseteq Callers
  /\ watchdog \in [Callers -> {"none", "launched", "waiting", "fired", "interrupting", "ended"}]
  /\ endless \in [Callers -> BOOLEAN]
  /\ runs \in [Callers -> 0..MaxRuns]
  /\ outcome \in [Callers -> {"none", "value", "failed", "cancelled", "illegal state"}]

\* Inside runExclusive, where the block may use the engine.
Inside == {"dispatch", "block", "native", "thrown", "finally", "cancel watchdog", "join"}

\* The engine is used by one coroutine at a time, and closed by none while
\* another uses it: "exclusive access to the engine".
Exclusive ==
  \A p, q \in Processes :
    pc[p] \in Inside \cup {"closing"} /\ pc[q] \in Inside \cup {"closing"} => p = q

\* No block runs on a closed engine, whichever way it was closed.
NoUseAfterClose ==
  engineClosed => \A c \in Callers : pc[c] \notin Inside

\* A run is interrupted only on behalf of its own caller or of a close, never
\* by the watchdog of an earlier call.
OnlyAskedInterrupts ==
  \A c \in Callers :
    At(c, "native") /\ state = "INTERRUPTED" => c \in cancelled \/ closed

\* "The block then completes with CancellationException": a call whose script
\* was interrupted sees the JsException itself only if the runtime was closed.
InterruptSeenAsCancellation ==
  \A c \in stopped : outcome[c] = "failed" => closed

\* "No missed-close window": once close has set pendingClose, the engine gets
\* closed, whoever holds the mutex or waits for it.
CloseCompletes == pendingClose ~> engineClosed

\* shutdown "interrupts running work, waits for it to release the engine, then
\* closes it".
ShutdownCompletes == \A p \in Shutdowns : At(p, "interrupt") ~> engineClosed

\* Every call returns: watchdogs, closers and other callers never leave one
\* stuck in the queue or in the scope.
EveryCallReturns ==
  \A c \in Callers : ~At(c, "start") ~> At(c, "done")

\* "Cancelling the calling coroutine interrupts a script that is still running;
\* the block then completes."
CancelledCallReturns ==
  \A c \in Callers : c \in cancelled ~> At(c, "done")

=============================================================================
