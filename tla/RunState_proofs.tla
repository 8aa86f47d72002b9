--------------------------- MODULE RunState_proofs ---------------------------
(***************************************************************************)
(* Proofs about the run state, for every nesting depth and every polling   *)
(* interval. The invariant has to say what the properties leave out: that  *)
(* no run is left over above the depth, that an engine is interrupted only *)
(* after an interrupt of the runs in progress, and that a run that was     *)
(* stopped is still unwinding or already reporting its failure.            *)
(***************************************************************************)
EXTENDS RunState, TLAPS

NoneAbove == \A d \in Depth : d > depth => run[d] = NoRun

InterruptedIsHit == state = "INTERRUPTED" => hit

StoppedFails ==
  \A d \in Depth : run[d].stopped =>
    (run[d].exc = "interrupted" /\ ~run[d].sorting) \/ run[d].stage \in Reports

NothingUnwindsInHost == \A d \in Depth : run[d].inHost => run[d].exc = "none"

BelowInHost == \A d \in Depth : d < depth => run[d].inHost

IInv ==
  /\ TypeOK
  /\ NothingUnwindsInHost
  /\ BelowInHost
  /\ StateTracksRuns
  /\ NoStaleInterrupt
  /\ NoneAbove
  /\ InterruptedIsHit
  /\ StoppedFails

\* The deepest run is replaced by r; what r has to satisfy for the invariant
\* to stay.
LEMMA RunReplaced ==
  ASSUME IInv, NEW d \in Depth, d = depth, NEW r \in Run,
         run' = [run EXCEPT ![d] = r],
         r.outermost = run[d].outermost,
         r.guarded = run[d].guarded,
         r.exc = "interrupted" => hit,
         r.stopped => (r.exc = "interrupted" /\ ~r.sorting) \/ r.stage \in Reports,
         r.inHost => r.exc = "none",
         UNCHANGED <<state, depth, hit>>,
         counter' \in 0..PollEvery, outcome' \in {"none", "value", "exception"}
  PROVE  IInv'
<1>1. TypeOK'
  BY DEF IInv, TypeOK
<1>2. \A e \in Depth : run'[e] = IF e = d THEN r ELSE run[e]
  BY DEF IInv, TypeOK
<1>3. StateTracksRuns'
  <2>1. Guarded' = Guarded
    BY <1>2 DEF Guarded
  <2> QED
    BY <1>2, <2>1 DEF IInv, StateTracksRuns
<1>4. NoStaleInterrupt'
  BY <1>2 DEF IInv, NoStaleInterrupt
<1>5. NoneAbove' /\ BelowInHost'
  <2>1. \A e \in Depth : (e > depth \/ e < depth) => e # d
    BY RunStateConstants DEF IInv, TypeOK, Depth
  <2> QED
    BY <1>2, <2>1 DEF IInv, NoneAbove, BelowInHost
<1>6. InterruptedIsHit' /\ StoppedFails' /\ NothingUnwindsInHost'
  BY <1>2 DEF IInv, InterruptedIsHit, StoppedFails, NothingUnwindsInHost
<1> QED
  BY <1>1, <1>3, <1>4, <1>5, <1>6 DEF IInv

LEMMA CounterType ==
  ASSUME TypeOK
  PROVE  CounterAfter(counter) \in 0..PollEvery
BY RunStateConstants DEF TypeOK, CounterAfter

\* What the invariant says of a run that exists.
LEMMA RunType ==
  ASSUME IInv, NEW d \in Depth
  PROVE  /\ run[d] \in Run /\ TypeOK
         /\ run[d].stopped => (run[d].exc = "interrupted" /\ ~run[d].sorting) \/ run[d].stage \in Reports
         /\ run[d].exc = "interrupted" => hit
         /\ state = "INTERRUPTED" => hit
         /\ d \in Nat
BY RunStateConstants DEF IInv, TypeOK, StoppedFails, NoStaleInterrupt, InterruptedIsHit, Depth

\* The runs in run_begin and run_end are at most as deep as the deepest run.
LEMMA GuardedExist ==
  ASSUME IInv
  PROVE  \A d \in Guarded : d \in Depth /\ d \in Nat /\ d <= depth
<1>1. \A d \in Depth : d \in Nat /\ (d > depth \/ d <= depth)
  BY RunStateConstants DEF IInv, TypeOK, Depth
<1>2. \A d \in Depth : d > depth => ~run[d].guarded
  BY DEF IInv, NoneAbove, NoRun
<1> QED
  BY <1>1, <1>2 DEF Guarded

\* A call of the shim adds a run r that is fresh in every respect but those of
\* StateTracksRuns and of the interrupts.
LEMMA EnterKeeps ==
  ASSUME IInv, NEW r \in Run, Enter(r),
         ~r.inHost, ~r.stopped, r.exc = "none",
         state' \in {"IDLE", "RUNNING", "INTERRUPTED"}, hit' \in BOOLEAN,
         state' = "INTERRUPTED" => hit'
  PROVE  /\ TypeOK' /\ NothingUnwindsInHost' /\ BelowInHost' /\ NoStaleInterrupt'
         /\ NoneAbove' /\ InterruptedIsHit' /\ StoppedFails'
         /\ depth + 1 \in Depth
         /\ \A d \in Depth : run'[d] = IF d = depth + 1 THEN r ELSE run[d]
<1> DEFINE n == depth + 1
<1>0. TypeOK /\ n \in Depth /\ depth \in Nat
  BY RunStateConstants DEF IInv, TypeOK, Enter, Depth
<1>1. /\ depth' = n /\ UNCHANGED <<counter, outcome>>
      /\ run' = [run EXCEPT ![n] = r]
      /\ depth > 0 => run[depth].inHost
  BY DEF Enter
<1>2. TypeOK'
  <2>1. run' \in [Depth -> Run]
    BY <1>0, <1>1 DEF TypeOK
  <2>2. depth' \in 0..MaxDepth
    BY <1>0, <1>1, RunStateConstants DEF Depth
  <2> QED
    BY <1>0, <1>1, <2>1, <2>2 DEF TypeOK
<1>3. \A d \in Depth : run'[d] = IF d = n THEN r ELSE run[d]
  BY <1>0, <1>1 DEF TypeOK
<1>4. \A d \in Depth : d \in Nat /\ d # 0
  BY RunStateConstants DEF Depth
<1>5. \A d \in Depth : d < n => run[d].inHost
  <2> SUFFICES ASSUME NEW d \in Depth, d < n PROVE run[d].inHost
    OBVIOUS
  <2>1. d < depth \/ (d = depth /\ depth > 0)
    BY <1>0, <1>4
  <2> QED
    BY <1>1, <2>1 DEF IInv, BelowInHost
<1>6. BelowInHost'
  BY <1>0, <1>1, <1>3, <1>4, <1>5 DEF BelowInHost
<1>7. \A d \in Depth : run'[d].exc = "none"
  <2>1. \A d \in Depth : d > n => run[d].exc = "none"
    BY <1>0, <1>4 DEF IInv, NoneAbove, NoRun
  <2>2. \A d \in Depth : d < n => run[d].exc = "none"
    BY <1>5 DEF IInv, NothingUnwindsInHost
  <2>3. \A d \in Depth : d < n \/ d = n \/ d > n
    BY <1>0, <1>4
  <2> QED
    BY <1>3, <2>1, <2>2, <2>3
<1>8. NoStaleInterrupt' /\ NothingUnwindsInHost'
  BY <1>7 DEF NoStaleInterrupt, NothingUnwindsInHost
<1>9. NoneAbove'
  BY <1>0, <1>1, <1>3, <1>4 DEF IInv, NoneAbove
<1>10. InterruptedIsHit'
  BY DEF InterruptedIsHit
<1>11. StoppedFails'
  BY <1>3 DEF IInv, StoppedFails
<1> QED
  BY <1>0, <1>2, <1>3, <1>6, <1>8, <1>9, <1>10, <1>11

LEMMA BeginKeeps ==
  ASSUME IInv, Begin
  PROVE  IInv'
<1> DEFINE n == depth + 1
           r == [NoRun EXCEPT !.guarded = TRUE, !.outermost = (state = "IDLE")]
<1>1. /\ Enter(r) /\ state' = StateAfterBegin(state)
      /\ hit' = IF state = "IDLE" THEN FALSE ELSE hit
  BY DEF Begin
<1>2. /\ r \in Run /\ ~r.inHost /\ ~r.stopped /\ r.exc = "none"
      /\ r.guarded /\ r.outermost = (state = "IDLE")
  BY DEF NoRun, Run, Stages
<1>3. state \in {"IDLE", "RUNNING", "INTERRUPTED"} /\ hit \in BOOLEAN /\ (state = "INTERRUPTED" => hit)
  BY DEF IInv, TypeOK, InterruptedIsHit
<1>4. /\ state' \in {"IDLE", "RUNNING", "INTERRUPTED"} /\ hit' \in BOOLEAN
      /\ state' = "INTERRUPTED" => hit'
      /\ state' # "IDLE"
  BY <1>1, <1>3 DEF StateAfterBegin
<1>5. /\ TypeOK' /\ NothingUnwindsInHost' /\ BelowInHost' /\ NoStaleInterrupt'
      /\ NoneAbove' /\ InterruptedIsHit' /\ StoppedFails'
      /\ n \in Depth
      /\ \A d \in Depth : run'[d] = IF d = n THEN r ELSE run[d]
  <2> HIDE DEF r
  <2> QED
    BY <1>1, <1>2, <1>4, EnterKeeps
<1>6. StateTracksRuns'
  <2> HIDE DEF r
  <2>0. /\ \A e \in Guarded : e \in Depth /\ e \in Nat /\ e <= depth
        /\ state = "IDLE" <=> Guarded = {}
        /\ \A d \in Depth : run[d].outermost <=> d \in Guarded /\ \A e \in Guarded : d <= e
        /\ depth \in Nat
        /\ n \in Nat
    BY GuardedExist, RunStateConstants DEF IInv, StateTracksRuns, TypeOK
  <2>1. Guarded' = Guarded \cup {n}
    <3>1. Guarded' = {d \in Depth : run'[d].guarded}
      BY DEF Guarded
    <3>2. \A d \in Depth : run'[d].guarded <=> d \in Guarded \/ d = n
      BY <1>2, <1>5, <2>0 DEF Guarded
    <3> QED
      BY <1>5, <2>0, <3>1, <3>2
  <2>2. run'[n].outermost <=> \A e \in Guarded : n <= e
    <3>1. run'[n].outermost <=> Guarded = {}
      BY <1>2, <1>5, <2>0
    <3>2. \A e \in Guarded : ~ (n <= e)
      BY <2>0
    <3> QED
      BY <3>1, <3>2
  <2>3. ASSUME NEW d \in Depth, d # n
        PROVE  run'[d].outermost <=> d \in Guarded /\ \A e \in Guarded : d <= e
    BY <1>5, <2>0, <2>3
  <2>4. ASSUME NEW d \in Depth
        PROVE  run'[d].outermost <=> d \in Guarded' /\ \A e \in Guarded' : d <= e
    <3>1. CASE d = n
      BY <2>0, <2>1, <2>2, <3>1
    <3>2. CASE d # n
      BY <2>0, <2>1, <2>3, <3>2
    <3> QED
      BY <3>1, <3>2
  <2> QED
    BY <1>4, <2>1, <2>4 DEF StateTracksRuns
<1> QED
  BY <1>5, <1>6 DEF IInv

\* A call that does without run_begin leaves the state to the runs around it.
LEMMA UnguardedKeeps ==
  ASSUME IInv, Define \/ RefuseLoad
  PROVE  IInv'
<1>1. PICK r \in {NoRun, [NoRun EXCEPT !.stage = "tostring"]} : Enter(r) /\ UNCHANGED <<state, hit>>
  BY DEF Define, RefuseLoad
<1>2. r \in Run /\ ~r.inHost /\ ~r.stopped /\ r.exc = "none" /\ ~r.guarded /\ ~r.outermost
  <2>1. CASE r = NoRun
    BY <2>1 DEF NoRun, Run, Stages
  <2>2. CASE r = [NoRun EXCEPT !.stage = "tostring"]
    BY <2>2 DEF NoRun, Run, Stages, Reports
  <2> QED
    BY <2>1, <2>2
<1>3. /\ state' \in {"IDLE", "RUNNING", "INTERRUPTED"} /\ hit' \in BOOLEAN
      /\ state' = "INTERRUPTED" => hit'
  BY <1>1 DEF IInv, TypeOK, InterruptedIsHit
<1>4. /\ TypeOK' /\ NothingUnwindsInHost' /\ BelowInHost' /\ NoStaleInterrupt'
      /\ NoneAbove' /\ InterruptedIsHit' /\ StoppedFails'
      /\ depth + 1 \in Depth
      /\ \A d \in Depth : run'[d] = IF d = depth + 1 THEN r ELSE run[d]
  BY <1>1, <1>2, <1>3, EnterKeeps
<1>5. ~run[depth + 1].guarded /\ ~run[depth + 1].outermost
  <2>1. depth + 1 > depth
    BY DEF IInv, TypeOK
  <2> QED
    BY <1>4, <2>1 DEF IInv, NoneAbove, NoRun
<1>6. Guarded' = Guarded
  BY <1>2, <1>4, <1>5 DEF Guarded
<1>7. \A d \in Depth : run'[d].outermost <=> run[d].outermost
  BY <1>2, <1>4, <1>5
<1>8. StateTracksRuns'
  BY <1>1, <1>6, <1>7 DEF IInv, StateTracksRuns
<1> QED
  BY <1>4, <1>8 DEF IInv

\* The end of the deepest run, with run_end when it is guarded.
LEMMA EndKeeps ==
  ASSUME IInv, NEW d \in Depth, depth = d, NEW result \in {"value", "exception"}, End(d, result)
  PROVE  IInv'
<1>0. TypeOK /\ d \in Nat /\ d > 0 /\ d <= MaxDepth
  BY RunStateConstants DEF IInv, Depth
<1>1. /\ depth' = d - 1 /\ run' = [run EXCEPT ![d] = NoRun]
      /\ state' = IF run[d].outermost THEN "IDLE" ELSE state
      /\ outcome' = result /\ UNCHANGED <<counter, hit>>
  BY DEF End, StateAfterEnd
<1>2. TypeOK'
  <2>1. NoRun \in Run
    BY DEF NoRun, Run, Stages
  <2>2. run' \in [Depth -> Run]
    BY <1>0, <1>1, <2>1 DEF TypeOK
  <2>3. depth' \in 0..MaxDepth
    BY <1>0, <1>1, RunStateConstants
  <2> QED
    BY <1>0, <1>1, <2>2, <2>3 DEF TypeOK
<1>3. \A e \in Depth : run'[e] = IF e = d THEN NoRun ELSE run[e]
  BY <1>0, <1>1 DEF TypeOK
<1>4. Guarded' = Guarded \ {d}
  BY <1>3 DEF Guarded, NoRun
<1>5. StateTracksRuns'
  <2>0. /\ \A e \in Guarded : e \in Depth /\ e \in Nat /\ e <= d
        /\ state = "IDLE" <=> Guarded = {}
        /\ \A e \in Depth : run[e].outermost <=> e \in Guarded /\ \A f \in Guarded : e <= f
    BY GuardedExist DEF IInv, StateTracksRuns
  <2>1. CASE run[d].outermost
    <3>1. Guarded = {d}
      <4>1. d \in Guarded /\ \A f \in Guarded : d <= f
        BY <2>0, <2>1
      <4>2. \A f \in Guarded : f = d
        BY <1>0, <2>0, <4>1
      <4> QED
        BY <4>1, <4>2
    <3>2. state' = "IDLE" /\ Guarded' = {}
      BY <1>1, <1>4, <2>1, <3>1
    <3>3. \A e \in Depth : ~run'[e].outermost
      BY <1>3, <2>0, <3>1 DEF NoRun
    <3> QED
      BY <3>2, <3>3 DEF StateTracksRuns
  <2>2. CASE ~run[d].outermost
    <3>1. d \in Guarded => \E f \in Guarded : f < d
      BY <1>0, <2>0, <2>2
    <3>2. Guarded' = {} <=> Guarded = {}
      BY <1>0, <1>4, <3>1
    <3>3. ASSUME NEW e \in Depth, e # d
          PROVE  run'[e].outermost <=> e \in Guarded' /\ \A f \in Guarded' : e <= f
      BY <1>0, <1>3, <1>4, <2>0, <3>3
    <3>4. ~run'[d].outermost /\ d \notin Guarded'
      BY <1>3, <1>4 DEF NoRun
    <3> QED
      BY <1>1, <2>0, <2>2, <3>2, <3>3, <3>4 DEF StateTracksRuns
  <2> QED
    BY <2>1, <2>2
<1>6. NoStaleInterrupt' /\ StoppedFails' /\ NothingUnwindsInHost'
  BY <1>1, <1>3 DEF IInv, NoStaleInterrupt, StoppedFails, NothingUnwindsInHost, NoRun
<1>7. NoneAbove' /\ BelowInHost'
  <2>1. \A e \in Depth : (e > d - 1 => e = d \/ e > d) /\ (e < d - 1 => e # d /\ e < d)
    BY <1>0 DEF Depth
  <2> QED
    BY <1>1, <1>3, <2>1 DEF IInv, NoneAbove, BelowInHost
<1>8. InterruptedIsHit'
  <2>1. state' = "INTERRUPTED" => state = "INTERRUPTED"
    BY <1>1
  <2> QED
    BY <1>1, <2>1 DEF IInv, InterruptedIsHit
<1> QED
  BY <1>2, <1>5, <1>6, <1>7, <1>8 DEF IInv

LEMMA InterruptKeeps ==
  ASSUME IInv, Interrupt
  PROVE  IInv'
<1>1. TypeOK'
  BY DEF IInv, TypeOK, Interrupt, StateAfterInterrupt
<1>2. NoStaleInterrupt' /\ NoneAbove' /\ StoppedFails' /\ NothingUnwindsInHost' /\ BelowInHost'
  BY DEF IInv, Interrupt, NoStaleInterrupt, NoneAbove, StoppedFails, NothingUnwindsInHost, BelowInHost
<1>4. StateTracksRuns'
  <2>1. Guarded' = Guarded /\ run' = run /\ (state' = "IDLE" <=> state = "IDLE")
    BY DEF Interrupt, StateAfterInterrupt, Guarded
  <2> QED
    BY <2>1 DEF IInv, StateTracksRuns
<1>3. InterruptedIsHit'
  BY DEF IInv, Interrupt, StateAfterInterrupt, InterruptedIsHit
<1> QED
  BY <1>1, <1>2, <1>3, <1>4 DEF IInv

\* A step of the deepest run that keeps it going.
LEMMA RunKeeps ==
  ASSUME IInv, NEW d \in Depth,
         Branch(d) \/ Throw(d) \/ Catch(d) \/ Compare(d) \/ SwallowedBySort(d)
         \/ CallHost(d) \/ HostEnds(d)
         \/ (depth = d /\ \E stage \in Stages :
               /\ run[d].stopped => stage \in Reports
               /\ GoTo(d, stage))
  PROVE  IInv'
<1>0. /\ run[d] \in Run /\ TypeOK /\ d \in Nat
      /\ run[d].stopped => (run[d].exc = "interrupted" /\ ~run[d].sorting) \/ run[d].stage \in Reports
      /\ run[d].exc = "interrupted" => hit
      /\ state = "INTERRUPTED" => hit
      /\ CounterAfter(counter) \in 0..PollEvery
      /\ counter \in 0..PollEvery /\ outcome \in {"none", "value", "exception"}
  BY RunType, CounterType DEF TypeOK
<1>1. CASE Branch(d)
  <2> DEFINE e == IF counter <= 1 THEN PollResult(state) ELSE "none"
             r == [run[d] EXCEPT !.exc = e, !.stopped = @ \/ (e = "interrupted" /\ ~run[d].sorting)]
  <2>1. /\ run' = [run EXCEPT ![d] = r] /\ depth = d
        /\ counter' = CounterAfter(counter) /\ UNCHANGED <<state, depth, outcome, hit>>
    BY <1>0, <1>1 DEF Branch, Executing, Top, TypeOK
  <2>2. e \in {"none", "interrupted"} /\ (e = "interrupted" => hit)
    BY <1>0 DEF PollResult
  <2>3. run[d].exc = "none" /\ ~run[d].inHost
    BY <1>1 DEF Branch, Executing
  <2>4. /\ r \in Run /\ r.outermost = run[d].outermost /\ r.guarded = run[d].guarded
        /\ r.exc = e /\ r.stage = run[d].stage /\ r.sorting = run[d].sorting
        /\ r.inHost = run[d].inHost
        /\ r.stopped = (run[d].stopped \/ (e = "interrupted" /\ ~run[d].sorting))
    <3> HIDE DEF e
    <3> QED
      BY <1>0, <2>2 DEF Run
  <2>5. r.stopped => (r.exc = "interrupted" /\ ~r.sorting) \/ r.stage \in Reports
    BY <1>0, <2>3, <2>4
  <2> HIDE DEF r, e
  <2> QED
    BY <1>0, <2>1, <2>2, <2>3, <2>4, <2>5, RunReplaced
<1>2. CASE Throw(d)
  <2> DEFINE r == [run[d] EXCEPT !.exc = "error"]
  <2>1. /\ run' = [run EXCEPT ![d] = r] /\ depth = d /\ run[d].exc = "none" /\ ~run[d].inHost
        /\ UNCHANGED <<state, depth, outcome, hit, counter>>
    BY <1>0, <1>2 DEF Throw, Executing, Top, TypeOK
  <2>2. /\ r \in Run /\ r.outermost = run[d].outermost /\ r.guarded = run[d].guarded /\ r.exc = "error" /\ r.inHost = run[d].inHost
        /\ r.stage = run[d].stage /\ r.stopped = run[d].stopped
    BY <1>0 DEF Run
  <2> HIDE DEF r
  <2> QED
    BY <1>0, <2>1, <2>2, RunReplaced
<1>3. CASE Catch(d)
  <2> DEFINE r == [run[d] EXCEPT !.exc = "none"]
  <2>1. /\ run' = [run EXCEPT ![d] = r] /\ depth = d /\ run[d].exc = "error"
        /\ UNCHANGED <<state, depth, outcome, hit, counter>>
    BY <1>0, <1>3 DEF Catch, Catchable, Top, TypeOK
  <2>2. /\ r \in Run /\ r.outermost = run[d].outermost /\ r.guarded = run[d].guarded /\ r.exc = "none"
        /\ r.stage = run[d].stage /\ r.stopped = run[d].stopped /\ r.sorting = run[d].sorting
    BY <1>0 DEF Run
  <2> HIDE DEF r
  <2> QED
    BY <1>0, <2>1, <2>2, RunReplaced
<1>4. CASE CallHost(d)
  <2> DEFINE r == [run[d] EXCEPT !.inHost = TRUE]
  <2>1. /\ run' = [run EXCEPT ![d] = r] /\ depth = d /\ run[d].exc = "none"
        /\ counter' = CounterAfter(counter) /\ UNCHANGED <<state, depth, outcome, hit>>
    BY <1>0, <1>4 DEF CallHost, Executing, Top, TypeOK
  <2>2. /\ r \in Run /\ r.outermost = run[d].outermost /\ r.guarded = run[d].guarded /\ r.exc = run[d].exc
        /\ r.stage = run[d].stage /\ r.stopped = run[d].stopped /\ r.sorting = run[d].sorting
    BY <1>0 DEF Run
  <2> HIDE DEF r
  <2> QED
    BY <1>0, <2>1, <2>2, RunReplaced
<1>5. CASE HostEnds(d)
  <2>1. PICK e \in {"none", "error"} : run' = [run EXCEPT ![d].inHost = FALSE, ![d].exc = e]
    BY <1>5 DEF HostEnds
  <2> DEFINE r == [run[d] EXCEPT !.inHost = FALSE, !.exc = e]
  <2>2. /\ run' = [run EXCEPT ![d] = r] /\ depth = d
        /\ UNCHANGED <<state, depth, outcome, hit, counter>>
    BY <1>0, <1>5, <2>1 DEF HostEnds, Top, TypeOK
  <2>3. /\ r \in Run /\ r.outermost = run[d].outermost /\ r.guarded = run[d].guarded /\ r.exc = e /\ ~r.inHost
        /\ r.stage = run[d].stage /\ r.stopped = run[d].stopped
    BY <1>0, <2>1 DEF Run
  <2>4. run[d].exc # "interrupted"
    BY <1>5 DEF HostEnds, IInv, NothingUnwindsInHost
  <2> HIDE DEF r
  <2> QED
    BY <1>0, <2>1, <2>2, <2>3, <2>4, RunReplaced
<1>6. CASE Compare(d)
  <2> DEFINE r == [run[d] EXCEPT !.sorting = ~@]
  <2>1. /\ run' = [run EXCEPT ![d] = r] /\ depth = d /\ run[d].exc = "none" /\ ~run[d].inHost
        /\ UNCHANGED <<state, depth, outcome, hit, counter>>
    BY <1>0, <1>6 DEF Compare, Executing, Top, TypeOK
  <2>2. /\ r \in Run /\ r.outermost = run[d].outermost /\ r.guarded = run[d].guarded
        /\ r.exc = run[d].exc /\ r.inHost = run[d].inHost
        /\ r.stage = run[d].stage /\ r.stopped = run[d].stopped
    BY <1>0 DEF Run
  <2> HIDE DEF r
  <2> QED
    BY <1>0, <2>1, <2>2, RunReplaced
<1>7. CASE SwallowedBySort(d)
  <2> DEFINE r == [run[d] EXCEPT !.exc = "none"]
  <2>1. /\ run' = [run EXCEPT ![d] = r] /\ depth = d /\ run[d].sorting
        /\ UNCHANGED <<state, depth, outcome, hit, counter>>
    BY <1>0, <1>7 DEF SwallowedBySort, Top, TypeOK
  <2>2. /\ r \in Run /\ r.outermost = run[d].outermost /\ r.guarded = run[d].guarded /\ r.exc = "none"
        /\ r.stage = run[d].stage /\ r.stopped = run[d].stopped
    BY <1>0 DEF Run
  <2> HIDE DEF r
  <2> QED
    BY <1>0, <2>1, <2>2, RunReplaced
<1>8. ASSUME depth = d, NEW stage \in Stages, run[d].stopped => stage \in Reports, GoTo(d, stage)
      PROVE  IInv'
  <2> DEFINE r == [run[d] EXCEPT !.stage = stage, !.exc = "none"]
  <2>1. /\ run' = [run EXCEPT ![d] = r] /\ depth = d
        /\ UNCHANGED <<state, depth, outcome, hit, counter>>
    BY <1>0, <1>8 DEF GoTo, TypeOK
  <2>2. /\ r \in Run /\ r.outermost = run[d].outermost /\ r.guarded = run[d].guarded /\ r.exc = "none"
        /\ r.stage = stage /\ r.stopped = run[d].stopped
    BY <1>0, <1>8 DEF Run
  <2> HIDE DEF r
  <2> QED
    BY <1>0, <1>8, <2>1, <2>2, RunReplaced
<1> QED
  BY <1>1, <1>2, <1>3, <1>4, <1>5, <1>6, <1>7, <1>8

\* How each step of the deepest run falls under the lemmas above.
LEMMA StageSteps ==
  ASSUME IInv, NEW d \in Depth, StageDone(d) \/ StageFails(d)
  PROVE  /\ depth = d
         /\ \/ \E stage \in Stages :
                 (run[d].stopped => stage \in Reports) /\ GoTo(d, stage)
            \/ (End(d, "value") /\ ~run[d].stopped)
            \/ End(d, "exception")
<1>0. run[d].stopped => (run[d].exc = "interrupted" /\ ~run[d].sorting) \/ run[d].stage \in Reports
  BY RunType
<1>1. CASE StageDone(d)
  BY <1>0, <1>1 DEF StageDone, AfterToString, Executing, Top, Stages, Reports
<1>2. CASE StageFails(d)
  BY <1>2 DEF StageFails, AfterToString, Top, Stages, Reports
<1> QED
  BY <1>1, <1>2

LEMMA StepKeeps ==
  ASSUME IInv, [Next]_vars
  PROVE  IInv'
<1>1. ASSUME NEW d \in Depth,
             Branch(d) \/ Throw(d) \/ Catch(d) \/ Compare(d) \/ SwallowedBySort(d)
             \/ CallHost(d) \/ HostEnds(d)
      PROVE  IInv'
  BY <1>1, RunKeeps
<1>2. ASSUME NEW d \in Depth, StageDone(d) \/ StageFails(d)
      PROVE  IInv'
  BY <1>2, StageSteps, RunKeeps, EndKeeps
<1>3. CASE UNCHANGED vars
  BY <1>3 DEF vars, IInv, TypeOK, StateTracksRuns, NoStaleInterrupt, NoneAbove, InterruptedIsHit,
              StoppedFails, NothingUnwindsInHost, BelowInHost, Guarded
<1> QED
  BY <1>1, <1>2, <1>3, BeginKeeps, UnguardedKeeps, InterruptKeeps DEF Next

LEMMA InitKeeps ==
  ASSUME Init
  PROVE  IInv
<1>1. TypeOK
  <2>1. NoRun \in Run
    BY DEF NoRun, Run, Stages
  <2>2. 0 \in 0..MaxDepth /\ 0 \in 0..PollEvery
    BY RunStateConstants
  <2> QED
    BY <2>1, <2>2 DEF Init, TypeOK
<1>2. StateTracksRuns
  BY DEF Init, StateTracksRuns, NoRun, Guarded
<1>3. /\ NoStaleInterrupt /\ NoneAbove /\ InterruptedIsHit /\ StoppedFails /\ NothingUnwindsInHost
      /\ BelowInHost
  BY DEF Init, NoStaleInterrupt, NoneAbove, InterruptedIsHit, StoppedFails, NothingUnwindsInHost, NoRun,
         BelowInHost, Depth
<1> QED
  BY <1>1, <1>2, <1>3 DEF IInv

LEMMA Invariant == Spec => []IInv
BY InitKeeps, StepKeeps, PTL DEF Spec

\* The run state and the runs are type correct.
THEOREM Typing == Spec => []TypeOK
<1>1. IInv => TypeOK
  BY DEF IInv
<1> QED
  BY Invariant, <1>1, PTL

\* The engine is idle exactly while no call is between run_begin and run_end,
\* whatever nests in what; a registration that is in no such call executes its
\* setter while idle.
THEOREM IdleBetweenRuns == Spec => []StateTracksRuns
<1>1. IInv => StateTracksRuns
  BY DEF IInv
<1> QED
  BY Invariant, <1>1, PTL

\* kmpjs_interrupt never stops a run that began after it.
THEOREM InterruptsAreFresh == Spec => []NoStaleInterrupt
<1>1. IInv => NoStaleInterrupt
  BY DEF IInv
<1> QED
  BY Invariant, <1>1, PTL

\* Which steps lower the depth, and how.
LEMMA DepthFalls ==
  ASSUME IInv, [Next]_vars
  PROVE  \/ \E d \in Depth : depth = d /\ ((End(d, "value") /\ ~run[d].stopped) \/ End(d, "exception"))
         \/ UNCHANGED depth /\ (state = "INTERRUPTED" => UNCHANGED state)
         \/ depth' = depth + 1 /\ (state = "INTERRUPTED" => UNCHANGED state)
<1>1. ASSUME NEW d \in Depth,
             Branch(d) \/ Throw(d) \/ Catch(d) \/ Compare(d) \/ SwallowedBySort(d)
             \/ CallHost(d) \/ HostEnds(d)
      PROVE  UNCHANGED <<depth, state>>
  BY <1>1 DEF Branch, Throw, Catch, Compare, SwallowedBySort, CallHost, HostEnds
<1>2. ASSUME NEW d \in Depth, StageDone(d) \/ StageFails(d)
      PROVE  \/ depth = d /\ ((End(d, "value") /\ ~run[d].stopped) \/ End(d, "exception"))
             \/ UNCHANGED <<depth, state>>
  BY <1>2, StageSteps DEF GoTo
<1>3. CASE Begin \/ Define \/ RefuseLoad
  BY <1>3 DEF Begin, Define, RefuseLoad, Enter, StateAfterBegin
<1>4. CASE Interrupt
  BY <1>4 DEF Interrupt, StateAfterInterrupt
<1>5. CASE UNCHANGED vars
  BY <1>5 DEF vars
<1> QED
  BY <1>1, <1>2, <1>3, <1>4, <1>5 DEF Next

\* Which runs are guarded after the deepest one has ended.
LEMMA OutermostEndsLast ==
  ASSUME IInv, NEW d \in Depth, depth = d, NEW result, End(d, result), run[d].outermost
  PROVE  Guarded' = {}
<1>0. d \in Nat /\ TypeOK
  BY RunType
<1>1. d \in Guarded /\ \A f \in Guarded : d <= f /\ f <= d /\ f \in Nat
  BY GuardedExist DEF IInv, StateTracksRuns
<1>2. \A f \in Guarded : f = d
  BY <1>0, <1>1
<1>3. \A e \in Depth : run'[e] = IF e = d THEN NoRun ELSE run[e]
  BY <1>0 DEF End, TypeOK
<1> QED
  BY <1>2, <1>3 DEF Guarded, NoRun

\* run_begin and run_end of nested runs leave an interrupt in place.
THEOREM InterruptSurvives == Spec => InterruptKept
<1>1. IInv /\ [Next]_vars => (state = "INTERRUPTED" /\ Guarded' # {} => state' = "INTERRUPTED")
  <2> SUFFICES ASSUME IInv, [Next]_vars, state = "INTERRUPTED", Guarded' # {}
               PROVE  state' = "INTERRUPTED"
    OBVIOUS
  <2>1. ASSUME NEW d \in Depth, depth = d, NEW result, End(d, result)
        PROVE  state' = "INTERRUPTED"
    <3>1. state' = IF run[d].outermost THEN "IDLE" ELSE state
      BY <2>1 DEF End, StateAfterEnd
    <3>2. ~run[d].outermost
      BY <2>1, OutermostEndsLast
    <3> QED
      BY <3>1, <3>2
  <2> QED
    BY <2>1, DepthFalls
<1> QED
  BY Invariant, <1>1, PTL DEF Spec, InterruptKept

\* No catch clause, toJSON, getter or failing report makes a value of a run
\* whose own poll raised the interruption outside of a sort's comparison.
THEOREM StoppedIsReported == Spec => StoppedRunThrows
<1>1. IInv /\ [Next]_vars =>
        \A d \in Depth : depth = d /\ run[d].stopped /\ depth' < d => outcome' = "exception"
  <2> SUFFICES ASSUME IInv, [Next]_vars, NEW d \in Depth, depth = d, run[d].stopped, depth' < d
               PROVE  outcome' = "exception"
    OBVIOUS
  <2>0. d \in Nat
    BY RunType
  <2>1. ~ (depth' = depth) /\ ~ (depth' = depth + 1)
    BY <2>0
  <2>2. End(d, "exception")
    BY <2>1, DepthFalls
  <2> QED
    BY <2>2 DEF End
<1> QED
  BY Invariant, <1>1, PTL DEF Spec, StoppedRunThrows

=============================================================================
