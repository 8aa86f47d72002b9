------------------------------- MODULE JsRefs -------------------------------
(***************************************************************************)
(* Ownership of JS objects by the host: the Kotlin JsRef objects of one    *)
(* engine, the native reference counts behind them, and the nesting of     *)
(* script and host calls through which they are handed over. A handle's    *)
(* count is changed by JsRef.retain and close, by every object that        *)
(* crosses to the host, and by js_kmp_host, which takes back at the end of *)
(* a call the references it made for its arguments.                        *)
(*                                                                         *)
(* Handles live in the store of Refs, which the slot table implements.     *)
(***************************************************************************)
EXTENDS Integers, Sequences, FiniteSets

CONSTANTS
  RefId,      (* handles                                                   *)
  Object,     (* JS objects                                                *)
  MaxRefs,    (* bound of the model: JsRef objects ever created            *)
  MaxDepth,   (* bound of the model: nested script and host calls          *)
  MaxArgs,    (* bound of the model: object arguments of a host call       *)
  CloseArgs   (* whether the host may close the JsRef of an argument       *)

ASSUME JsRefsConstants ==
  /\ MaxRefs \in Nat /\ MaxDepth \in Nat /\ MaxArgs \in Nat
  /\ CloseArgs \in BOOLEAN

VARIABLES
  live, used, (* the store of references                                   *)
  open,       (* the engine is not closed                                  *)
  refs,       (* the JsRef objects, in the order of their creation         *)
  stack       (* what is being executed, innermost last                    *)

vars == <<live, used, open, refs, stack>>

Store == INSTANCE Refs

JsRef == [id : RefId, closed : BOOLEAN, arg : BOOLEAN]

\* decode of a reference: an open JsRef, of an argument or of the host's own.
Decoded(h, isArg) == Append(refs, [id |-> h, closed |-> FALSE, arg |-> isArg])

\* The stack: scripts, and host calls with the handles js_kmp_host has made
\* for the arguments and the JsRefs that stand for them in the callback.
ScriptFrame == [step : {"script"}, gives : BOOLEAN]
CallFrame   == [step : {"converting", "host", "releasing"}, left : 0..MaxArgs,
                ids : Seq(RefId), args : SUBSET (1..MaxRefs)]
Frame       == ScriptFrame \cup CallFrame

Top == stack[Len(stack)]
Push(frame) == stack' = Append(stack, frame)
Pop         == stack' = SubSeq(stack, 1, Len(stack) - 1)
Become(frame) == stack' = [stack EXCEPT ![Len(stack)] = frame]

At(step)   == stack # <<>> /\ Top.step = step
HostRuns   == stack = <<>> \/ At("host")

\* slot_get
IsLive(h) == h \in Store!LiveIds

\* kmpjs_ref_release: nothing happens when the handle is stale.
ReleaseHandle(h) == IF IsLive(h) THEN Store!Release(h) ELSE UNCHANGED <<live, used>>

----------------------------------------------------------------------------
(* The host starts script.                                                  *)

RunScript(gives) ==
  /\ Len(stack) < MaxDepth
  /\ Push([step |-> "script", gives |-> gives])
  /\ UNCHANGED <<live, used, open, refs>>

\* evaluate, with objects returned as references or as JSON.
Evaluate ==
  /\ HostRuns /\ open
  /\ \E gives \in BOOLEAN : RunScript(gives)

\* op: the JsRef and its engine are open and slot_get finds the handle; when
\* it does not, "invalid or released ref" is thrown and nothing changes.
Operable(r) == HostRuns /\ open /\ ~refs[r].closed /\ IsLive(refs[r].id)

\* Accessors run script: get by name or index, set, and toJSON.
RefGet(r)    == Operable(r) /\ \E gives \in BOOLEAN : RunScript(gives)
RefSet(r)    == Operable(r) /\ RunScript(FALSE)
RefToJson(r) == Operable(r) /\ RunScript(FALSE)

\* invoke: of `this` only the engine and, natively, the handle are checked.
Callable(r, this) == Operable(r) /\ (this # 0 => IsLive(refs[this].id))

RefCall(r, this) ==
  /\ Callable(r, this)
  /\ \E gives \in BOOLEAN : RunScript(gives)

\* The script ends: with an exception, a value, or an object as a reference.
ScriptEnds ==
  /\ At("script")
  /\ Pop
  /\ UNCHANGED <<live, used, refs, open>>

ScriptGives(h, v) ==
  /\ At("script") /\ Top.gives
  /\ Len(refs) < MaxRefs
  /\ Store!New(h, v)
  /\ refs' = Decoded(h, FALSE)
  /\ Pop
  /\ UNCHANGED open

----------------------------------------------------------------------------
(* A script calls a host function: js_kmp_host.                             *)

ScriptCallsHost(argc) ==
  /\ At("script")
  /\ Len(stack) < MaxDepth
  /\ Push([step |-> "converting", left |-> argc, ids |-> <<>>, args |-> {}])
  /\ UNCHANGED <<live, used, open, refs>>

ConvertArg(h, v) ==
  /\ At("converting") /\ Top.left > 0
  /\ Store!New(h, v)
  /\ Become([Top EXCEPT !.left = @ - 1, !.ids = Append(@, h)])
  /\ UNCHANGED <<open, refs>>

\* Mutant: only the arguments of a call that was made are taken back.
MutAfterFailure(frame) == [frame EXCEPT !.step = "releasing", !.ids = <<>>]

\* After a conversion that failed the host is not called, but the arguments
\* already converted are released.
AfterFailure(frame) == [frame EXCEPT !.step = "releasing"]

ConversionFails ==
  /\ At("converting") /\ Top.left > 0
  /\ Become(AfterFailure(Top))
  /\ UNCHANGED <<live, used, open, refs>>

\* onHostCall decodes the arguments and calls the function.
CallHost ==
  /\ At("converting") /\ Top.left = 0
  /\ Len(refs) + Len(Top.ids) <= MaxRefs
  /\ refs' = refs \o [k \in 1..Len(Top.ids) |-> [id |-> Top.ids[k], closed |-> FALSE, arg |-> TRUE]]
  /\ Become([Top EXCEPT !.step = "host",
                        !.args = (Len(refs)+1)..(Len(refs) + Len(Top.ids))])
  /\ UNCHANGED <<live, used, open>>

\* Mutant: the arguments stay usable after the call.
MutInvalidated(args) == refs

Invalidated(args) == [r \in 1..Len(refs) |-> [refs[r] EXCEPT !.closed = @ \/ r \in args]]

\* The callback returns or throws; either way the arguments are invalidated.
HostReturns ==
  /\ At("host")
  /\ refs' = Invalidated(Top.args)
  /\ Become([Top EXCEPT !.step = "releasing"])
  /\ UNCHANGED <<live, used, open>>

\* Back in js_kmp_host: the converted arguments are released one by one.
ReleaseArg ==
  /\ At("releasing") /\ Top.ids # <<>>
  /\ ReleaseHandle(Head(Top.ids))
  /\ Become([Top EXCEPT !.ids = Tail(@)])
  /\ UNCHANGED <<open, refs>>

HostCallEnds ==
  /\ At("releasing") /\ Top.ids = <<>>
  /\ Pop
  /\ UNCHANGED <<live, used, open, refs>>

----------------------------------------------------------------------------
(* The host keeps and gives back references.                                *)

\* Mutant: a second JsRef without a second count.
MutNotCounted(h) == UNCHANGED <<live, used>>

\* kmpjs_ref_retain: nothing happens when the handle is stale.
RetainHandle(h) == IF IsLive(h) THEN Store!Retain(h) ELSE UNCHANGED <<live, used>>

Retain(r) ==
  /\ HostRuns /\ open /\ ~refs[r].closed
  /\ Len(refs) < MaxRefs
  /\ RetainHandle(refs[r].id)
  /\ refs' = Decoded(refs[r].id, FALSE)
  /\ UNCHANGED <<open, stack>>

\* close, a second time without effect; releaseRef does nothing once the
\* engine is closed. A host that keeps to JsRef's documentation has no reason
\* to close an argument, whose reference is not its own.
Close(r) ==
  /\ HostRuns /\ ~refs[r].closed
  /\ CloseArgs \/ ~refs[r].arg
  /\ refs' = [refs EXCEPT ![r].closed = TRUE]
  /\ IF open THEN ReleaseHandle(refs[r].id) ELSE UNCHANGED <<live, used>>
  /\ UNCHANGED <<open, stack>>

\* JsEngine.close, which is no host function's to call: it frees the engine.
CloseEngine ==
  /\ stack = <<>> /\ open
  /\ open' = FALSE
  /\ Store!Clear
  /\ UNCHANGED <<refs, stack>>

----------------------------------------------------------------------------

Init ==
  /\ Store!Init
  /\ open  = TRUE
  /\ refs  = <<>>
  /\ stack = <<>>

HostStep ==
  \/ Evaluate
  \/ \E r \in 1..Len(refs) :
       \/ RefGet(r) \/ RefSet(r) \/ RefToJson(r)
       \/ \E this \in 0..Len(refs) : RefCall(r, this)
       \/ Retain(r) \/ Close(r)
  \/ CloseEngine

ScriptStep ==
  \/ ScriptEnds
  \/ \E argc \in 0..MaxArgs : ScriptCallsHost(argc)
  \/ \E h \in RefId, v \in Object : ScriptGives(h, v)

CallStep ==
  \/ \E h \in RefId, v \in Object : ConvertArg(h, v)
  \/ ConversionFails \/ CallHost \/ HostReturns \/ ReleaseArg \/ HostCallEnds

Next == HostStep \/ ScriptStep \/ CallStep

Spec == Init /\ [][Next]_vars

----------------------------------------------------------------------------
(* Properties.                                                              *)

\* Type invariant.
TypeOK ==
  /\ used \subseteq RefId
  /\ DOMAIN live \subseteq used
  /\ \A h \in DOMAIN live : live[h] \in [object : Object, owners : Nat \ {0}]
  /\ open \in BOOLEAN
  /\ refs \in Seq(JsRef) /\ Len(refs) <= MaxRefs
  /\ stack \in Seq(Frame)

OpenRefs(h) == {r \in 1..Len(refs) : refs[r].id = h /\ ~refs[r].closed}

\* "The object stays alive in the engine's fixed memory until close": while a
\* JsRef is neither closed nor invalidated its handle is live, whoever else
\* retained, closed or was passed the same object in the meantime.
OpenRefsResolve ==
  open => \A r \in 1..Len(refs) : ~refs[r].closed => IsLive(refs[r].id)

\* "liveRefs is the number of close calls still owed: every open JsRef counts
\* one, a retain adds one more, and transient host-function arguments count
\* during the call": whenever the host can look, the count of every handle is
\* the number of its open JsRefs, so nothing leaks and nothing is freed early,
\* on the paths of failed conversions and nested calls too.
CountsAreOwed ==
  open /\ HostRuns => \A h \in DOMAIN live : live[h].owners = Cardinality(OpenRefs(h))

\* "Refs received as host-function arguments are valid only for the duration
\* of that call": an argument's JsRef is open only while its callback is on
\* the stack, however that callback ended.
ArgsEndWithTheCall ==
  \A r \in 1..Len(refs) : refs[r].arg /\ ~refs[r].closed =>
    \E k \in 1..Len(stack) : stack[k].step = "host" /\ r \in stack[k].args

=============================================================================
