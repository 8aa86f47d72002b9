---------------------------- MODULE HostFunctions ----------------------------
(***************************************************************************)
(* Host functions of one engine: JsEngine.registerFunction, the native     *)
(* function kmpjs_define_function makes for it, and the dispatch of        *)
(* js_kmp_host by number. Setting a global runs script when script has     *)
(* defined a setter under that name, and such a script may keep the        *)
(* function, throw, or call the host, which may register others meanwhile. *)
(* So may the script that reports a failure (exception_to_out), before the *)
(* registration is rolled back.                                            *)
(***************************************************************************)
EXTENDS Integers, Sequences, FiniteSets

CONSTANTS
  Funs,        (* Kotlin functions; each is registered at most once        *)
  Names,       (* names of globals                                         *)
  MaxDepth,    (* bound of the model: nested evaluations and calls         *)
  Reckless     (* whether a registration may fail when script has kept its *)
               (* function or another function was registered meanwhile    *)

VARIABLES
  functions,   (* JsEngine.functions; a function's number is its index     *)
  natives,     (* the native functions script can call                     *)
  exposed,     (* those of the registrations that returned normally        *)
  setters,     (* the names script has defined a setter for                *)
  stack        (* what is being executed, innermost last                   *)

funVars == <<functions, natives, exposed, setters, stack>>

\* A native function: its number, and what it was made for (history).
Native == [id : Nat, fun : Funs, name : Names]

\* The steps of a registration in which script may run: the setter it calls,
\* and the report of what the setter threw or of a want of memory.
Registering == {"setter", "thrown", "report"}

\* An evaluation, a registration or a host call.
Frame == [step : {"script", "call"}] \cup [step : Registering, native : Native]

Top == stack[Len(stack)]
Push(frame) == Len(stack) < MaxDepth /\ stack' = Append(stack, frame)
Pop         == stack' = SubSeq(stack, 1, Len(stack) - 1)

At(step)   == stack # <<>> /\ Top.step = step
HostRuns   == stack = <<>> \/ At("call")
ScriptRuns == stack # <<>> /\ Top.step # "call"

----------------------------------------------------------------------------
(* registerFunction                                                         *)

\* Mutant: the number is taken before the function is added.
MutNumber(fs) == Len(fs)

\* functions.size - 1, once the function is added.
Number(fs) == Len(fs) - 1

\* Mutant: the function of a failed registration stays.
MutRollback(fs) == fs

\* functions.removeAt(functions.size - 1)
Rollback(fs) == SubSeq(fs, 1, Len(fs) - 1)

Added(f) == Append(functions, f)

NativeFor(f, n) == [id |-> Number(Added(f)), fun |-> f, name |-> n]

\* In range, functions[id]; otherwise the host call fails in Kotlin.
InRange(id)  == id < Len(functions)
Dispatch(id) == functions[id + 1]

\* A function that is not in the list, nor meant by a native one.
Fresh(f) ==
  /\ \A k \in 1..Len(functions) : functions[k] # f
  /\ \A m \in natives \cup exposed : m.fun # f

\* JS_SetPropertyStr stores the function in the global object.
Register(f, n) ==
  /\ HostRuns /\ Fresh(f) /\ n \notin setters
  /\ functions' = Added(f)
  /\ natives' = natives \cup {NativeFor(f, n)}
  /\ exposed' = exposed \cup {NativeFor(f, n)}
  /\ UNCHANGED <<setters, stack>>

\* No memory for the function or the property, or a property that has only a
\* getter: the error is reported.
RegisterFails(f, n) ==
  /\ HostRuns /\ Fresh(f)
  /\ functions' = Added(f)
  /\ Push([step |-> "report", native |-> NativeFor(f, n)])
  /\ UNCHANGED <<natives, exposed, setters>>

\* JS_SetPropertyStr calls the setter.
RegisterOverSetter(f, n) ==
  /\ HostRuns /\ Fresh(f) /\ n \in setters
  /\ functions' = Added(f)
  /\ Push([step |-> "setter", native |-> NativeFor(f, n)])
  /\ UNCHANGED <<natives, exposed, setters>>

\* The setter has its function as an argument, and what it throws may lead to
\* it as well.
HasFunction == At("setter") \/ At("thrown")

\* Script keeps the function where it finds it again.
SetterKeeps ==
  /\ HasFunction
  /\ natives' = natives \cup {Top.native}
  /\ UNCHANGED <<functions, exposed, setters, stack>>

SetterReturns ==
  /\ At("setter")
  /\ exposed' = exposed \cup {Top.native}
  /\ Pop
  /\ UNCHANGED <<functions, natives, setters>>

\* The exception of the setter is reported: toString and the getter of
\* "stack" may be script.
SetterThrows ==
  /\ At("setter")
  /\ stack' = [stack EXCEPT ![Len(stack)].step = "thrown"]
  /\ UNCHANGED <<functions, natives, exposed, setters>>

\* Script has not kept the function, which is still the last one.
Harmless == Top.native \notin natives /\ Number(functions) = Top.native.id

\* The JsException of the registration removes the last function.
ReportEnds ==
  /\ At("thrown") \/ At("report")
  /\ Reckless \/ Harmless
  /\ functions' = Rollback(functions)
  /\ Pop
  /\ UNCHANGED <<natives, exposed, setters>>

----------------------------------------------------------------------------
(* Script and host calls                                                    *)

Evaluate ==
  /\ HostRuns
  /\ Push([step |-> "script"])
  /\ UNCHANGED <<functions, natives, exposed, setters>>

ScriptEnds ==
  /\ At("script")
  /\ Pop
  /\ UNCHANGED <<functions, natives, exposed, setters>>

\* Object.defineProperty, which refuses a name that holds a value.
DefineSetter(n) ==
  /\ ScriptRuns
  /\ \A m \in exposed : m.name # n
  /\ setters' = setters \cup {n}
  /\ UNCHANGED <<functions, natives, exposed, stack>>

\* The native functions script can call now.
Callable == natives \cup (IF HasFunction THEN {Top.native} ELSE {})

CallHost(m) ==
  /\ ScriptRuns /\ m \in Callable /\ InRange(m.id)
  /\ Push([step |-> "call"])
  /\ UNCHANGED <<functions, natives, exposed, setters>>

HostReturns ==
  /\ At("call")
  /\ Pop
  /\ UNCHANGED <<functions, natives, exposed, setters>>

----------------------------------------------------------------------------

Init ==
  /\ functions = <<>>
  /\ natives = {} /\ exposed = {}
  /\ setters = {}
  /\ stack = <<>>

Next ==
  \/ \E f \in Funs, n \in Names :
       Register(f, n) \/ RegisterOverSetter(f, n) \/ RegisterFails(f, n)
  \/ SetterKeeps \/ SetterReturns \/ SetterThrows \/ ReportEnds
  \/ Evaluate \/ ScriptEnds
  \/ \E n \in Names : DefineSetter(n)
  \/ \E m \in Callable : CallHost(m)
  \/ HostReturns

Spec == Init /\ [][Next]_funVars

----------------------------------------------------------------------------
(* Properties.                                                              *)

\* Type invariant.
TypeOK ==
  /\ functions \in Seq(Funs)
  /\ natives \subseteq Native /\ exposed \subseteq Native
  /\ setters \subseteq Names
  /\ stack \in Seq(Frame)

\* The registrations in progress.
Setters == {k \in 1..Len(stack) : stack[k].step \in Registering}
Pending == {stack[k].native : k \in Setters}

CallsItsOwn(m) == InRange(m.id) /\ Dispatch(m.id) = m.fun

\* Whatever is registered from inside whatever call, and however many
\* registrations fail, the number of a native function still leads to the
\* Kotlin function it was made for, also from a setter whose registration has
\* not returned and from the report of its failure. Reckless failures break it.
NumbersStay == \A m \in natives \cup exposed \cup Pending : CallsItsOwn(m)

\* "Exposes function to scripts as the global name": the claim of
\* registerFunction for a registration that has returned normally.
ExposedIsCalled == \A m \in exposed : CallsItsOwn(m)

\* The list holds one function for each registration that succeeded or is in
\* progress: none is left behind by a failure, none is taken away by another.
NoneLeftBehind == Len(functions) = Cardinality(exposed \cup Pending)

=============================================================================
