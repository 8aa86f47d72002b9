------------------------------ MODULE RunState ------------------------------
(***************************************************************************)
(* The run state of the shim (KMP_IDLE, KMP_RUNNING, KMP_INTERRUPTED), the *)
(* nested runs that share it, the interrupts other threads send, and the   *)
(* points at which the VM asks for them.                                   *)
(*                                                                         *)
(* A run is one call of the shim that executes script. Its script may call *)
(* a host function, which may start a run of its own, one level deeper.    *)
(* kmpjs_eval, kmpjs_ref_* and kmpjs_run_program are guarded: they are in  *)
(* run_begin and run_end, and pass through the same stages: the script     *)
(* itself, the conversion of its value (value_to_out, where toJSON and     *)
(* accessors are script again) and, when either throws, the report of the  *)
(* exception (exception_to_out, where toString and then the getter of      *)
(* "stack" may be script). kmpjs_define_function, whose JS_SetPropertyStr  *)
(* may reach a setter, and kmpjs_load_bytecode, which reports a refused    *)
(* program, execute script without run_begin: the state stays as it is.    *)
(***************************************************************************)
EXTENDS Integers

CONSTANTS
  MaxDepth,   (* nesting of runs; JS_MAX_CALL_RECURSE bounds it in the VM  *)
  PollEvery,  (* JS_INTERRUPT_COUNTER_INIT                                 *)
  Uses        (* which of "sort", "define" and "load" the script and the   *)
              (* host use: sorts that compare with a function, and calls   *)
              (* that execute script without run_begin                     *)

ASSUME RunStateConstants ==
  /\ MaxDepth  \in Nat \ {0}
  /\ PollEvery \in Nat \ {0}
  /\ Uses      \subseteq {"sort", "define", "load"}

VARIABLES
  state,      (* the engine's atomic state                                 *)
  depth,      (* number of runs in progress; the deepest is executing      *)
  run,        (* the run at each depth                                     *)
  counter,    (* ctx->interrupt_counter, shared by all runs                *)
  outcome,    (* what the last run to end returned to its caller           *)
  hit         (* history: an interrupt took effect since the last          *)
              (* outermost run began                                       *)

vars == <<state, depth, run, counter, outcome, hit>>

Depth  == 1..MaxDepth
Reports == {"tostring", "stack"}
Stages  == {"script", "convert"} \cup Reports

\* guarded: the run called run_begin; outermost is what that returned.
\* sorting: script of the run is in the comparison of an array sort, or of a
\* sort within that.
\* exc is the exception being unwound: "error" can be caught by script,
\* "interrupted" is current_exception_is_uncatchable.
\* stopped is a history bit: a poll of this very run, made outside of a
\* sort's comparison, raised the interruption.
Run == [guarded : BOOLEAN, outermost : BOOLEAN, stage : Stages, inHost : BOOLEAN,
        sorting : BOOLEAN, stopped : BOOLEAN, exc : {"none", "error", "interrupted"}]

NoRun == [guarded |-> FALSE, outermost |-> FALSE, stage |-> "script", inHost |-> FALSE,
          sorting |-> FALSE, stopped |-> FALSE, exc |-> "none"]

Guarded == {d \in Depth : run[d].guarded}

Top(d) == depth = d

\* Script of the deepest run is executing.
Executing(d) == Top(d) /\ ~run[d].inHost /\ run[d].exc = "none"

----------------------------------------------------------------------------
(* The atomic operations on the state.                                      *)

\* Mutant: every run stores RUNNING.
MutBeginStores(s) == "RUNNING"

\* run_begin: compare and set IDLE to RUNNING; a nested run leaves it alone.
StateAfterBegin(s) == IF s = "IDLE" THEN "RUNNING" ELSE s

\* Mutants: a nested run returns the engine to idle; the outermost one does not.
MutEndAlways(outermost, s) == "IDLE"
MutEndNever(outermost, s)  == s

\* run_end
StateAfterEnd(outermost, s) == IF outermost THEN "IDLE" ELSE s

\* Mutant: the interrupt is stored even when nothing runs.
MutInterruptStores(s) == "INTERRUPTED"

\* kmpjs_interrupt: compare and set RUNNING to INTERRUPTED.
StateAfterInterrupt(s) == IF s = "RUNNING" THEN "INTERRUPTED" ELSE s

----------------------------------------------------------------------------
(* The engine's thread.                                                     *)

\* A call of the shim, from idle host code or from a host function called by
\* the deepest run.
Enter(r) ==
  /\ depth < MaxDepth
  /\ depth > 0 => run[depth].inHost
  /\ depth' = depth + 1
  /\ run'   = [run EXCEPT ![depth + 1] = r]
  /\ UNCHANGED <<counter, outcome>>

\* kmpjs_eval, kmpjs_ref_* or kmpjs_run_program.
Begin ==
  /\ Enter([NoRun EXCEPT !.guarded = TRUE, !.outermost = (state = "IDLE")])
  /\ state' = StateAfterBegin(state)
  /\ hit'   = IF state = "IDLE" THEN FALSE ELSE hit

\* kmpjs_define_function: a setter of the global object is script.
Define ==
  /\ "define" \in Uses
  /\ Enter(NoRun)
  /\ UNCHANGED <<state, hit>>

\* kmpjs_load_bytecode refuses the program and reports why.
RefuseLoad ==
  /\ "load" \in Uses
  /\ Enter([NoRun EXCEPT !.stage = "tostring"])
  /\ UNCHANGED <<state, hit>>

\* Mutants: the poll ignores the state; the counter is not reset.
MutPollIgnores(s)   == "none"
MutCounterRunsOut(c) == c - 1

\* kmp_interrupt_handler, and the uncatchable error __js_poll_interrupt throws.
PollResult(s) == IF s = "INTERRUPTED" THEN "interrupted" ELSE "none"

\* POLL_INTERRUPT counts down and resets the counter when it polls.
CounterAfter(c) == IF c <= 1 THEN PollEvery ELSE c - 1

\* A branch, a loop iteration or a call: the VM counts down, and polls when
\* the count runs out.
Branch(d) ==
  /\ Executing(d)
  /\ counter' = CounterAfter(counter)
  /\ LET e == IF counter <= 1 THEN PollResult(state) ELSE "none" IN
       run' = [run EXCEPT ![d].exc = e, ![d].stopped = @ \/ (e = "interrupted" /\ ~run[d].sorting)]
  /\ UNCHANGED <<state, depth, outcome, hit>>

\* The script, toJSON, a getter or the conversion itself throws.
Throw(d) ==
  /\ Executing(d)
  /\ run' = [run EXCEPT ![d].exc = "error"]
  /\ UNCHANGED <<state, depth, counter, outcome, hit>>

\* Mutant: the unwinding stops at a catch clause whatever is being thrown.
MutCatchAll(e) == e # "none"

\* The unwinding skips every catch clause for an uncatchable exception.
Catchable(e) == e = "error"

Catch(d) ==
  /\ Top(d)
  /\ Catchable(run[d].exc)
  /\ run' = [run EXCEPT ![d].exc = "none"]
  /\ UNCHANGED <<state, depth, counter, outcome, hit>>

\* js_array_sort calls its comparison, and the comparison returns; what it
\* returns is converted to a number (JS_ToNumber) outside of it, and a failure
\* of that is an exception of the sort.
Compare(d) ==
  /\ "sort" \in Uses
  /\ Executing(d)
  /\ run' = [run EXCEPT ![d].sorting = ~@]
  /\ UNCHANGED <<state, depth, counter, outcome, hit>>

\* js_array_sort_cmp returns JS_EXCEPTION for the order of the two elements
\* and leaves s->exception alone: the sort takes it for a number and goes on,
\* whatever the comparison threw.
SwallowedBySort(d) ==
  /\ Top(d)
  /\ run[d].sorting
  /\ run[d].exc # "none"
  /\ run' = [run EXCEPT ![d].exc = "none"]
  /\ UNCHANGED <<state, depth, counter, outcome, hit>>

\* js_kmp_host: the call is itself a branch point, so it is taken only when
\* its countdown does not raise.
CallHost(d) ==
  /\ Executing(d)
  /\ counter <= 1 => PollResult(state) = "none"
  /\ counter' = CounterAfter(counter)
  /\ run'     = [run EXCEPT ![d].inHost = TRUE]
  /\ UNCHANGED <<state, depth, outcome, hit>>

\* The host function returns, or fails: its message becomes an ordinary Error
\* (throw_message), also when it relays the interruption of a nested run.
HostEnds(d) ==
  /\ Top(d)
  /\ run[d].inHost
  /\ \E e \in {"none", "error"} :
       run' = [run EXCEPT ![d].inHost = FALSE, ![d].exc = e]
  /\ UNCHANGED <<state, depth, counter, outcome, hit>>

\* run_end, with the value or the exception the caller gets; a run that is not
\* guarded just returns.
End(d, result) ==
  /\ depth'   = d - 1
  /\ run'     = [run EXCEPT ![d] = NoRun]
  /\ state'   = StateAfterEnd(run[d].outermost, state)
  /\ outcome' = result
  /\ UNCHANGED <<counter, hit>>

GoTo(d, stage) ==
  /\ run' = [run EXCEPT ![d].stage = stage, ![d].exc = "none"]
  /\ UNCHANGED <<state, depth, counter, outcome, hit>>

\* exception_to_out goes on to "stack", also when toString threw, if what it
\* reports is an Error.
AfterToString(d) == GoTo(d, "stack") \/ End(d, "exception")

\* A stage completes.
StageDone(d) ==
  /\ Executing(d)
  /\ ~run[d].sorting
  /\ \/ run[d].stage = "script" /\ run[d].guarded  /\ GoTo(d, "convert")
     \/ run[d].stage = "script" /\ ~run[d].guarded /\ End(d, "value")
     \/ run[d].stage = "convert"  /\ End(d, "value")
     \/ run[d].stage = "tostring" /\ AfterToString(d)
     \/ run[d].stage = "stack"    /\ End(d, "exception")

\* An exception leaves a stage: it is reported, or, when the report itself
\* fails, replaced by "unknown exception".
StageFails(d) ==
  /\ Top(d)
  /\ run[d].exc # "none"
  /\ ~run[d].sorting
  /\ \/ run[d].stage \notin Reports /\ GoTo(d, "tostring")
     \/ run[d].stage = "tostring"   /\ AfterToString(d)
     \/ run[d].stage = "stack"      /\ End(d, "exception")

(* Any other thread.                                                        *)
Interrupt ==
  /\ state' = StateAfterInterrupt(state)
  /\ hit'   = (hit \/ state = "RUNNING")
  /\ UNCHANGED <<depth, run, counter, outcome>>

----------------------------------------------------------------------------

\* kmpjs_create; the VM zeroes its counter, so the first branch polls.
Init ==
  /\ state   = "IDLE"
  /\ depth   = 0
  /\ run     = [d \in Depth |-> NoRun]
  /\ counter = 0
  /\ outcome = "none"
  /\ hit     = FALSE

Next ==
  \/ Begin \/ Define \/ RefuseLoad
  \/ Interrupt
  \/ \E d \in Depth :
       \/ Branch(d) \/ Throw(d) \/ Catch(d) \/ Compare(d) \/ SwallowedBySort(d)
       \/ CallHost(d) \/ HostEnds(d) \/ StageDone(d) \/ StageFails(d)

\* Script that executes for ever passes branch points for ever; unwinding goes
\* on; host functions return. Nothing obliges script to end by itself.
Fairness ==
  \A d \in Depth :
    /\ SF_vars(Branch(d)) /\ SF_vars(HostEnds(d))
    /\ WF_vars(StageFails(d)) /\ WF_vars(SwallowedBySort(d))

Spec     == Init /\ [][Next]_vars
FairSpec == Spec /\ Fairness

----------------------------------------------------------------------------
(* Properties.                                                              *)

\* Type invariant of the run state.
TypeOK ==
  /\ state   \in {"IDLE", "RUNNING", "INTERRUPTED"}
  /\ depth   \in 0..MaxDepth
  /\ run     \in [Depth -> Run]
  /\ counter \in 0..PollEvery
  /\ outcome \in {"none", "value", "exception"}
  /\ hit     \in BOOLEAN

\* The engine is idle exactly when no guarded run is in progress, and the
\* outermost run is the lowest of them: otherwise an interrupt would be
\* dropped while guarded script executes, or a finished nested run would make
\* the rest of its caller uninterruptible. The script of a registration is in
\* no guarded run unless one is around it: kmpjs_interrupt does not reach it.
StateTracksRuns ==
  /\ state = "IDLE" <=> Guarded = {}
  /\ \A d \in Depth :
       run[d].outermost <=> d \in Guarded /\ \A e \in Guarded : d <= e

\* An interrupt never stops a run that began after it: every interruption
\* being unwound goes back to an interrupt of the current outermost run.
NoStaleInterrupt ==
  \A d \in Depth : run[d].exc = "interrupted" => hit

\* "Nested runs keep the outer state so an interrupt is never lost": once the
\* engine is interrupted it stays so until the outermost run has ended, which
\* may be inside of a registration.
InterruptKept ==
  [][state = "INTERRUPTED" /\ Guarded' # {} => state' = "INTERRUPTED"]_vars

\* The deepest run that can exist, once interrupted, ends: no catch clause,
\* conversion or report can hold it up, whether it is a guarded run or a
\* registration inside of one. Only array sorts can, and only if it comes
\* back to their comparisons for ever, where the interruption is swallowed.
InnermostStops ==
  [](depth = MaxDepth /\ state = "INTERRUPTED"
     => <>(depth < MaxDepth) \/ []<>run[MaxDepth].sorting)

\* A run whose own poll, outside of a sort's comparison, raised the
\* interruption fails its caller: no catch clause, conversion or failing
\* report turns it into a value.
StoppedRunThrows ==
  [][\A d \in Depth : depth = d /\ run[d].stopped /\ depth' < d
                      => outcome' = "exception"]_vars

\* "An interrupt is never lost": an interrupted engine becomes idle.
InterruptedStops == state = "INTERRUPTED" ~> state = "IDLE"

=============================================================================
