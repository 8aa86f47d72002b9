------------------------- MODULE HostFunctions_proofs -------------------------
(***************************************************************************)
(* Proofs about the registration of host functions, for any number of      *)
(* functions, names and nested calls, when no failure of a registration is *)
(* reckless. The invariant adds what makes a rollback safe: a function     *)
(* belongs to one native function, a registration in progress is not yet   *)
(* exposed, and no two frames of the stack stand for the same one.         *)
(***************************************************************************)
EXTENDS HostFunctions, SequenceTheorems, FiniteSetTheorems, TLAPS

Known == natives \cup exposed \cup Pending

OneNative == \A m1, m2 \in Known : m1.fun = m2.fun => m1 = m2

PendingNotExposed == \A k \in Setters : stack[k].native \notin exposed

FramesDiffer == \A j, k \in Setters : stack[j].native = stack[k].native => j = k

Counted == IsFiniteSet(exposed \cup Pending) /\ NoneLeftBehind

IInv ==
  /\ TypeOK
  /\ NumbersStay
  /\ OneNative
  /\ PendingNotExposed
  /\ FramesDiffer
  /\ Counted

----------------------------------------------------------------------------
(* The stack.                                                               *)

\* What is left of a sequence without its last element.
LEMMA Front ==
  ASSUME NEW S, NEW s \in Seq(S), Len(s) > 0
  PROVE  LET front == SubSeq(s, 1, Len(s) - 1) IN
         /\ front \in Seq(S) /\ Len(front) = Len(s) - 1
         /\ \A k \in 1..Len(s) - 1 : front[k] = s[k]
<1>1. PICK l \in Int : l = Len(s) - 1
  OBVIOUS
<1>2. l \in Nat /\ \A k \in 1..l : s[k] \in S
  BY <1>1
<1>3. /\ SubSeq(s, 1, l) \in Seq(S)
      /\ Len(SubSeq(s, 1, l)) = IF 1 <= l THEN l - 1 + 1 ELSE 0
      /\ \A k \in 1..l - 1 + 1 : SubSeq(s, 1, l)[k] = s[1 + k - 1]
  BY <1>2, SubSeqProperties
<1>4. Len(SubSeq(s, 1, l)) = l /\ \A k \in 1..l : SubSeq(s, 1, l)[k] = s[k]
  BY <1>2, <1>3
<1> QED
  BY <1>1, <1>3, <1>4

\* Script and host calls on the stack are no registrations.
LEMMA PushOther ==
  ASSUME TypeOK, NEW frame \in Frame, frame.step \notin Registering, stack' = Append(stack, frame)
  PROVE  /\ stack' \in Seq(Frame) /\ Setters' = Setters
         /\ \A k \in Setters : stack'[k] = stack[k]
         /\ Pending' = Pending
<1>1. stack \in Seq(Frame) /\ stack' \in Seq(Frame) /\ Len(stack') = Len(stack) + 1
  BY DEF TypeOK
<1>2. \A k \in 1..Len(stack) : stack'[k] = stack[k]
  BY <1>1
<1>3. stack'[Len(stack) + 1] = frame
  BY <1>1
<1>4. Setters' = Setters
  BY <1>1, <1>2, <1>3 DEF Setters
<1>5. \A k \in Setters : stack'[k] = stack[k]
  BY <1>2 DEF Setters
<1> QED
  BY <1>1, <1>4, <1>5 DEF Pending

\* A registration begins.
LEMMA PushSetter ==
  ASSUME TypeOK, NEW m \in Native, NEW step \in Registering,
         stack' = Append(stack, [step |-> step, native |-> m])
  PROVE  /\ stack' \in Seq(Frame) /\ Setters' = Setters \cup {Len(stack) + 1}
         /\ Len(stack) + 1 \notin Setters
         /\ \A k \in Setters : stack'[k] = stack[k]
         /\ stack'[Len(stack) + 1].native = m
         /\ Pending' = Pending \cup {m}
<1> DEFINE frame == [step |-> step, native |-> m]
<1>1. frame \in Frame
  BY DEF Frame
<1>2. stack \in Seq(Frame) /\ stack' \in Seq(Frame) /\ Len(stack') = Len(stack) + 1 /\ Len(stack) \in Nat
  BY <1>1 DEF TypeOK
<1>3. (\A k \in 1..Len(stack) : stack'[k] = stack[k]) /\ stack'[Len(stack) + 1] = frame
  BY <1>1, <1>2
<1>4. Setters' = Setters \cup {Len(stack) + 1} /\ Len(stack) + 1 \notin Setters
  BY <1>2, <1>3 DEF Setters
<1>5. \A k \in Setters : stack'[k] = stack[k]
  BY <1>3 DEF Setters
<1>6. stack'[Len(stack) + 1].native = m
  BY <1>3
<1>7. Pending' = Pending \cup {m}
  BY <1>4, <1>5, <1>6 DEF Pending
<1> QED
  BY <1>2, <1>4, <1>5, <1>6, <1>7

\* The innermost call or registration ends.
LEMMA PopFrame ==
  ASSUME TypeOK, stack # <<>>, Pop
  PROVE  /\ stack' \in Seq(Frame) /\ Setters' = Setters \ {Len(stack)}
         /\ \A k \in Setters' : stack'[k] = stack[k]
         /\ Len(stack) \in 1..Len(stack) /\ Top \in Frame
<1>1. stack \in Seq(Frame) /\ Len(stack) \in Nat /\ Len(stack) > 0
  BY DEF TypeOK
<1>2. /\ stack' \in Seq(Frame) /\ Len(stack') = Len(stack) - 1
      /\ \A k \in 1..Len(stack) - 1 : stack'[k] = stack[k]
  BY <1>1, Front DEF Pop
<1>3. Setters' = Setters \ {Len(stack)}
  BY <1>1, <1>2 DEF Setters
<1>4. \A k \in Setters' : stack'[k] = stack[k]
  BY <1>2 DEF Setters
<1> QED
  BY <1>1, <1>2, <1>3, <1>4 DEF Top

LEMMA PopOther ==
  ASSUME TypeOK, stack # <<>>, Top.step \notin Registering, Pop
  PROVE  /\ stack' \in Seq(Frame) /\ Setters' = Setters
         /\ \A k \in Setters : stack'[k] = stack[k]
         /\ Pending' = Pending
<1>1. Len(stack) \notin Setters
  BY DEF Setters, Top
<1>2. Setters' = Setters
  BY <1>1, PopFrame
<1> QED
  BY <1>2, PopFrame DEF Pending

LEMMA PopSetter ==
  ASSUME TypeOK, FramesDiffer, stack # <<>>, Top.step \in Registering, Pop
  PROVE  /\ stack' \in Seq(Frame) /\ Setters' = Setters \ {Len(stack)}
         /\ \A k \in Setters' : stack'[k] = stack[k]
         /\ Len(stack) \in Setters /\ Top.native \in Native
         /\ Top.native \in Pending /\ Pending' = Pending \ {Top.native}
<1>2. Len(stack) \in Setters /\ Top.native \in Pending
  BY PopFrame DEF Setters, Pending, Top
<1>3. Top.native \in Native
  BY PopFrame DEF Frame, Registering
<1>4. \A k \in Setters : stack[k].native = Top.native => k = Len(stack)
  BY <1>2 DEF FramesDiffer, Top
<1>5. Pending' = {stack[k].native : k \in Setters \ {Len(stack)}}
  BY PopFrame DEF Pending
<1>6. Pending' = Pending \ {Top.native}
  BY <1>2, <1>4, <1>5 DEF Pending, Top
<1> QED
  BY <1>2, <1>3, <1>6, PopFrame

----------------------------------------------------------------------------
(* The actions.                                                             *)

\* A native function is one, and the list numbers it by its place.
LEMMA NativeForIs ==
  ASSUME TypeOK, NEW f \in Funs, NEW n \in Names
  PROVE  /\ NativeFor(f, n) = [id |-> Len(functions), fun |-> f, name |-> n]
         /\ NativeFor(f, n) \in Native
<1>1. functions \in Seq(Funs) /\ Len(Append(functions, f)) - 1 = Len(functions)
  BY DEF TypeOK
<1> QED
  BY <1>1 DEF NativeFor, Number, Added, Native

\* The numbers of a list that grew at its end are those it had.
LEMMA NumberingGrows ==
  ASSUME TypeOK, NEW f \in Funs, NEW n \in Names, functions' = Added(f),
         NEW m, m = NativeFor(f, n)
  PROVE  /\ functions' \in Seq(Funs) /\ Len(functions') = Len(functions) + 1
         /\ CallsItsOwn(m)'
         /\ \A o \in Native : CallsItsOwn(o) => CallsItsOwn(o)'
<1>1. /\ functions \in Seq(Funs) /\ Len(functions) \in Nat
      /\ functions' = Append(functions, f)
  BY DEF TypeOK, Added
<1>2. /\ functions' \in Seq(Funs) /\ Len(functions') = Len(functions) + 1
      /\ functions'[Len(functions) + 1] = f
      /\ \A k \in 1..Len(functions) : functions'[k] = functions[k]
  BY <1>1
<1>3. m = [id |-> Len(functions), fun |-> f, name |-> n]
  BY NativeForIs
<1>4. CallsItsOwn(m)'
  BY <1>1, <1>2, <1>3 DEF CallsItsOwn, InRange, Dispatch
<1>5. ASSUME NEW o \in Native, CallsItsOwn(o)
      PROVE  CallsItsOwn(o)'
  <2>1. o.id \in Nat /\ o.id + 1 \in 1..Len(functions)
    BY <1>1, <1>5 DEF Native, CallsItsOwn, InRange
  <2> QED
    BY <1>1, <1>2, <1>5, <2>1 DEF CallsItsOwn, InRange, Dispatch
<1> QED
  BY <1>2, <1>4, <1>5

LEMMA KnownAreNatives ==
  ASSUME TypeOK
  PROVE  \A m \in Known : m \in Native
<1>1. ASSUME NEW m \in Pending
      PROVE  m \in Native
  <2>1. PICK k \in 1..Len(stack) : m = stack[k].native /\ stack[k].step \in Registering
    BY DEF Pending, Setters
  <2>2. stack[k] \in Frame
    BY DEF TypeOK
  <2> QED
    BY <2>1, <2>2 DEF Frame, Registering
<1> QED
  BY <1>1 DEF Known, TypeOK

\* The native function of a fresh function is unknown so far.
LEMMA FreshIsUnknown ==
  ASSUME IInv, NEW f \in Funs, Fresh(f)
  PROVE  \A m \in Known : m.fun # f
<1> SUFFICES ASSUME NEW m \in Known, m.fun = f
             PROVE  FALSE
  OBVIOUS
<1>1. m \in Pending /\ CallsItsOwn(m)
  BY DEF Known, Fresh, IInv, NumbersStay
<1>2. m \in Native
  BY KnownAreNatives DEF IInv
<1>3. m.id + 1 \in 1..Len(functions) /\ functions[m.id + 1] = f
  BY <1>1, <1>2 DEF IInv, TypeOK, CallsItsOwn, InRange, Dispatch, Native
<1> QED
  BY <1>3 DEF Fresh

\* Steps that change no registration: script and host calls, scripts that
\* keep or call the function of a registration, a setter that throws.
LEMMA NoRegistration ==
  ASSUME IInv, functions' = functions, exposed' = exposed,
         natives' \subseteq Native, natives' \subseteq Known,
         setters' \subseteq Names, stack' \in Seq(Frame), Setters' = Setters,
         \A k \in Setters : stack'[k].native = stack[k].native, Pending' = Pending
  PROVE  IInv'
<1>1. TypeOK'
  BY DEF IInv, TypeOK
<1>2. Known' \subseteq Known
  BY DEF Known
<1>3. NumbersStay'
  <2>1. \A m : CallsItsOwn(m) => CallsItsOwn(m)'
    BY DEF CallsItsOwn, InRange, Dispatch
  <2> QED
    BY <1>2, <2>1 DEF IInv, NumbersStay, Known
<1>4. OneNative'
  BY <1>2 DEF IInv, OneNative
<1>5. PendingNotExposed' /\ FramesDiffer'
  <2>1. PendingNotExposed'
    BY DEF IInv, PendingNotExposed
  <2>2. FramesDiffer'
    BY DEF IInv, FramesDiffer
  <2> QED
    BY <2>1, <2>2
<1>6. Counted'
  BY DEF IInv, Counted, NoneLeftBehind
<1> QED
  BY <1>1, <1>3, <1>4, <1>5, <1>6 DEF IInv

\* A registration that begins or succeeds adds one native function, of a
\* fresh function: what the lists and sets say of all others stays.
LEMMA OneMore ==
  ASSUME IInv, NEW f \in Funs, NEW n \in Names, Fresh(f),
         functions' = Added(f), NEW m, m = NativeFor(f, n),
         natives' \subseteq natives \cup {m},
         (exposed \cup Pending)' = exposed \cup Pending \cup {m}
  PROVE  /\ m \in Native /\ m \notin Known
         /\ functions' \in Seq(Funs) /\ NumbersStay' /\ OneNative' /\ Counted'
<1>1. m \in Native /\ m.fun = f
  BY NativeForIs DEF IInv
<1>2. \A o \in Known : o.fun # f
  BY FreshIsUnknown
<1>3. m \notin Known
  BY <1>1, <1>2
<1>4. Known' \subseteq Known \cup {m}
  BY DEF Known
<1>5. functions' \in Seq(Funs) /\ Len(functions') = Len(functions) + 1 /\ CallsItsOwn(m)'
  BY NumberingGrows DEF IInv
<1>6. NumbersStay'
  <2>1. \A o \in Known : o \in Native /\ CallsItsOwn(o)
    BY KnownAreNatives DEF IInv, NumbersStay, Known
  <2>2. \A o \in Known : CallsItsOwn(o)'
    BY <2>1, NumberingGrows DEF IInv
  <2> QED
    BY <1>4, <1>5, <2>2 DEF NumbersStay, Known
<1>7. OneNative'
  BY <1>1, <1>2, <1>4 DEF IInv, OneNative
<1>8. Counted'
  <2>1. IsFiniteSet(exposed \cup Pending) /\ m \notin exposed \cup Pending
    BY <1>3 DEF IInv, Counted, Known
  <2>2. /\ IsFiniteSet(exposed \cup Pending \cup {m})
        /\ Cardinality(exposed \cup Pending \cup {m}) = Cardinality(exposed \cup Pending) + 1
    BY <2>1, FS_AddElement
  <2> QED
    BY <1>5, <2>2 DEF IInv, Counted, NoneLeftBehind
<1> QED
  BY <1>1, <1>3, <1>5, <1>6, <1>7, <1>8

LEMMA RegisterKeeps ==
  ASSUME IInv, NEW f \in Funs, NEW n \in Names, Register(f, n)
  PROVE  IInv'
<1>1. PICK m : m = NativeFor(f, n)
  OBVIOUS
<1>2. /\ natives' = natives \cup {m} /\ exposed' = exposed \cup {m}
      /\ functions' = Added(f) /\ Fresh(f) /\ setters' = setters /\ stack' = stack
  BY <1>1 DEF Register
<1>3. Setters' = Setters /\ Pending' = Pending
  BY <1>2 DEF Setters, Pending
<1>4. /\ m \in Native /\ m \notin Known
      /\ functions' \in Seq(Funs) /\ NumbersStay' /\ OneNative' /\ Counted'
  BY <1>1, <1>2, <1>3, OneMore
<1>5. TypeOK'
  BY <1>2, <1>4 DEF IInv, TypeOK
<1>6. PendingNotExposed'
  BY <1>2, <1>3, <1>4 DEF IInv, PendingNotExposed, Pending, Known
<1>7. FramesDiffer'
  BY <1>2, <1>3 DEF IInv, FramesDiffer
<1> QED
  BY <1>4, <1>5, <1>6, <1>7 DEF IInv

LEMMA PendingRegistrationKeeps ==
  ASSUME IInv, NEW f \in Funs, NEW n \in Names,
         RegisterOverSetter(f, n) \/ RegisterFails(f, n)
  PROVE  IInv'
<1>1. PICK m : m = NativeFor(f, n)
  OBVIOUS
<1>2. /\ natives' = natives /\ exposed' = exposed /\ setters' = setters
      /\ functions' = Added(f) /\ Fresh(f)
      /\ \E step \in Registering : stack' = Append(stack, [step |-> step, native |-> m])
  BY <1>1 DEF RegisterOverSetter, RegisterFails, Push, Registering
<1>3. m \in Native
  BY <1>1, NativeForIs DEF IInv
<1>4. /\ stack' \in Seq(Frame) /\ Setters' = Setters \cup {Len(stack) + 1}
      /\ Len(stack) + 1 \notin Setters
      /\ \A k \in Setters : stack'[k] = stack[k]
      /\ stack'[Len(stack) + 1].native = m
      /\ Pending' = Pending \cup {m}
  BY <1>2, <1>3, PushSetter DEF IInv
<1>5. /\ m \notin Known /\ functions' \in Seq(Funs)
      /\ NumbersStay' /\ OneNative' /\ Counted'
  <2>1. (exposed \cup Pending)' = exposed \cup Pending \cup {m}
    BY <1>2, <1>4
  <2> QED
    BY <1>1, <1>2, <2>1, OneMore
<1>6. TypeOK'
  BY <1>2, <1>4, <1>5 DEF IInv, TypeOK
<1>7. PendingNotExposed'
  BY <1>2, <1>4, <1>5 DEF IInv, PendingNotExposed, Known
<1>8. FramesDiffer'
  BY <1>4, <1>5 DEF IInv, FramesDiffer, Known, Pending
<1> QED
  BY <1>5, <1>6, <1>7, <1>8 DEF IInv

LEMMA SetterReturnsKeeps ==
  ASSUME IInv, SetterReturns
  PROVE  IInv'
<1>1. PICK m : m = Top.native
  OBVIOUS
<1>2. /\ At("setter") /\ Pop /\ exposed' = exposed \cup {m}
      /\ functions' = functions /\ natives' = natives /\ setters' = setters
  BY <1>1 DEF SetterReturns
<1> stack # <<>> /\ Top.step \in Registering
  BY <1>2 DEF At, Registering
<1>3. /\ stack' \in Seq(Frame) /\ Setters' = Setters \ {Len(stack)}
      /\ \A k \in Setters' : stack'[k] = stack[k]
      /\ Len(stack) \in Setters /\ m \in Native
      /\ m \in Pending /\ Pending' = Pending \ {m} /\ m = stack[Len(stack)].native
  BY <1>1, <1>2, PopSetter DEF IInv, Top
<1>4. (exposed \cup Pending)' = exposed \cup Pending /\ Known' = Known
  BY <1>2, <1>3 DEF Known
<1>5. TypeOK'
  BY <1>2, <1>3 DEF IInv, TypeOK
<1>6. NumbersStay'
  <2>1. \A o : CallsItsOwn(o) => CallsItsOwn(o)'
    BY <1>2 DEF CallsItsOwn, InRange, Dispatch
  <2> QED
    BY <1>4, <2>1 DEF IInv, NumbersStay, Known
<1>7. OneNative'
  BY <1>4 DEF IInv, OneNative
<1>8. PendingNotExposed' /\ FramesDiffer'
  BY <1>2, <1>3 DEF IInv, PendingNotExposed, FramesDiffer
<1>9. Counted'
  BY <1>2, <1>4 DEF IInv, Counted, NoneLeftBehind
<1> QED
  BY <1>5, <1>6, <1>7, <1>8, <1>9 DEF IInv

\* The rollback of a registration takes away its own function, because no
\* other was added after it, and nobody knows its native function.
LEMMA ReportEndsKeeps ==
  ASSUME IInv, Reckless = FALSE, ReportEnds
  PROVE  IInv'
<1>1. PICK m : m = Top.native
  OBVIOUS
<1>2. /\ stack # <<>> /\ Top.step \in Registering
      /\ Pop /\ m \notin natives /\ Len(functions) - 1 = m.id
      /\ functions' = SubSeq(functions, 1, Len(functions) - 1)
      /\ exposed' = exposed /\ natives' = natives /\ setters' = setters
  BY <1>1 DEF ReportEnds, Harmless, Number, Rollback, At, Registering
<1>3. /\ stack' \in Seq(Frame) /\ Setters' = Setters \ {Len(stack)}
      /\ \A k \in Setters' : stack'[k] = stack[k]
      /\ Len(stack) \in Setters /\ m \in Native
      /\ m \in Pending /\ Pending' = Pending \ {m} /\ m = stack[Len(stack)].native
  BY <1>1, <1>2, PopSetter DEF IInv, Top
<1>4. m \notin exposed /\ Known' = Known \ {m}
  BY <1>2, <1>3 DEF IInv, PendingNotExposed, Known
<1>5. /\ functions \in Seq(Funs) /\ Len(functions) \in Nat /\ Len(functions) > 0
      /\ functions' \in Seq(Funs) /\ Len(functions') = Len(functions) - 1
      /\ \A k \in 1..Len(functions) - 1 : functions'[k] = functions[k]
  <2>1. functions \in Seq(Funs) /\ Len(functions) \in Nat /\ m.id \in Nat
    BY <1>3 DEF IInv, TypeOK, Native
  <2>2. Len(functions) > 0
    BY <1>2, <2>1
  <2> QED
    BY <1>2, <2>1, <2>2, Front
<1>6. TypeOK'
  BY <1>2, <1>3, <1>5 DEF IInv, TypeOK
<1>7. NumbersStay'
  <2> SUFFICES ASSUME NEW o \in Known, o # m
               PROVE  CallsItsOwn(o)'
    BY <1>4 DEF NumbersStay, Known
  <2>1. /\ o.id \in Nat /\ o.id < Len(functions) /\ functions[o.id + 1] = o.fun
        /\ m.id \in Nat /\ functions[m.id + 1] = m.fun
    BY <1>3, KnownAreNatives
    DEF IInv, NumbersStay, Known, CallsItsOwn, InRange, Dispatch, Native
  <2>2. o.fun # m.fun
    BY <1>3 DEF IInv, OneNative, Known
  <2>3. o.id # m.id
    BY <2>1, <2>2
  <2>4. o.id + 1 \in 1..Len(functions) - 1
    BY <1>2, <1>5, <2>1, <2>3
  <2> QED
    BY <1>5, <2>1, <2>4 DEF CallsItsOwn, InRange, Dispatch
<1>8. OneNative'
  BY <1>4 DEF IInv, OneNative
<1>9. PendingNotExposed' /\ FramesDiffer'
  <2>1. PendingNotExposed'
    BY <1>2, <1>3 DEF IInv, PendingNotExposed
  <2>2. FramesDiffer'
    BY <1>3 DEF IInv, FramesDiffer
  <2> QED
    BY <2>1, <2>2
<1>10. Counted'
  <2>1. (exposed \cup Pending)' = (exposed \cup Pending) \ {m} /\ m \in exposed \cup Pending
    BY <1>2, <1>3, <1>4
  <2>2. IsFiniteSet(exposed \cup Pending) /\ Len(functions) = Cardinality(exposed \cup Pending)
    BY DEF IInv, Counted, NoneLeftBehind
  <2>3. /\ IsFiniteSet((exposed \cup Pending) \ {m})
        /\ Cardinality((exposed \cup Pending) \ {m}) = Cardinality(exposed \cup Pending) - 1
    BY <2>1, <2>2, FS_RemoveElement
  <2> QED
    BY <1>5, <2>1, <2>2, <2>3 DEF Counted, NoneLeftBehind
<1> QED
  BY <1>6, <1>7, <1>8, <1>9, <1>10 DEF IInv

\* A setter that throws leaves its registration in progress.
LEMMA SetterThrowsKeeps ==
  ASSUME IInv, SetterThrows
  PROVE  IInv'
<1> DEFINE top == Len(stack)
<1>1. /\ stack # <<>> /\ stack[top].step = "setter"
      /\ stack' = [stack EXCEPT ![top].step = "thrown"]
      /\ functions' = functions /\ natives' = natives
      /\ exposed' = exposed /\ setters' = setters
  BY DEF SetterThrows, At, Top
<1>2. stack \in Seq(Frame) /\ top \in 1..Len(stack) /\ stack[top] \in Frame
  BY <1>1 DEF IInv, TypeOK
<1>3. stack[top] = [step |-> "setter", native |-> stack[top].native] /\ stack[top].native \in Native
  BY <1>1, <1>2 DEF Frame, Registering
<1>4. [stack[top] EXCEPT !.step = "thrown"] = [step |-> "thrown", native |-> stack[top].native]
  BY <1>3
<1>5. [step |-> "thrown", native |-> stack[top].native] \in Frame
  BY <1>3 DEF Frame, Registering
<1>6. stack' \in Seq(Frame) /\ Len(stack') = Len(stack)
  BY <1>1, <1>2, <1>4, <1>5
<1>7. \A k \in 1..Len(stack) :
        /\ k # top => stack'[k] = stack[k]
        /\ k = top => stack'[k] = [step |-> "thrown", native |-> stack[top].native]
  BY <1>1, <1>2, <1>4
<1>8. Setters' = Setters
  BY <1>1, <1>6, <1>7 DEF Setters, Registering
<1>9. \A k \in Setters : stack'[k].native = stack[k].native
  BY <1>7 DEF Setters
<1>10. Pending' = Pending
  BY <1>8, <1>9 DEF Pending
<1>11. natives \subseteq Native /\ natives \subseteq Known /\ setters \subseteq Names
  BY DEF IInv, TypeOK, Known
<1> QED
  BY <1>1, <1>6, <1>8, <1>9, <1>10, <1>11, NoRegistration

LEMMA InitHolds == Init => IInv
<1> SUFFICES ASSUME Init
             PROVE  IInv
  OBVIOUS
<1>1. Setters = {} /\ Pending = {} /\ exposed \cup Pending = {}
  BY DEF Init, Setters, Pending
<1>2. Counted
  BY <1>1, FS_EmptySet DEF Init, Counted, NoneLeftBehind
<1> QED
  BY <1>1, <1>2 DEF Init, IInv, TypeOK, NumbersStay, OneNative, PendingNotExposed, FramesDiffer, Known

LEMMA StepHolds ==
  ASSUME IInv, Reckless = FALSE, [Next]_funVars
  PROVE  IInv'
<1>0. TypeOK /\ natives \subseteq Native /\ natives \subseteq Known /\ setters \subseteq Names
  BY DEF IInv, TypeOK, Known
<1>1. ASSUME stack' = stack, functions' = functions, exposed' = exposed,
             natives' \subseteq Native, natives' \subseteq Known, setters' \subseteq Names
      PROVE  IInv'
  <2>1. Setters' = Setters /\ Pending' = Pending /\ stack' \in Seq(Frame)
    BY <1>0, <1>1 DEF Setters, Pending, TypeOK
  <2> QED
    BY <1>1, <2>1, NoRegistration
<1>2. ASSUME functions' = functions, exposed' = exposed, natives' = natives, setters' = setters,
             \/ \E frame \in Frame : frame.step \notin Registering /\ stack' = Append(stack, frame)
             \/ stack # <<>> /\ Top.step \notin Registering /\ Pop
      PROVE  IInv'
  <2>1. /\ stack' \in Seq(Frame) /\ Setters' = Setters /\ Pending' = Pending
        /\ \A k \in Setters : stack'[k].native = stack[k].native
    BY <1>0, <1>2, PushOther, PopOther
  <2>2. /\ functions' = functions /\ exposed' = exposed /\ setters' \subseteq Names
        /\ natives' \subseteq Native /\ natives' \subseteq Known
    BY <1>0, <1>2
  <2> QED
    BY <2>1, <2>2, NoRegistration
<1>3. CASE ReportEnds
  BY <1>3, ReportEndsKeeps
<1>4. CASE \E f \in Funs, n \in Names : Register(f, n)
  BY <1>4, RegisterKeeps
<1>5. CASE \E f \in Funs, n \in Names : RegisterOverSetter(f, n) \/ RegisterFails(f, n)
  BY <1>5, PendingRegistrationKeeps
<1>6. CASE SetterKeeps
  <2>1. Top.native \in Pending
    BY <1>0, <1>6 DEF SetterKeeps, HasFunction, At, Setters, Registering, Pending, Top, TypeOK
  <2>2. Top.native \in Known /\ Top.native \in Native
    BY <1>0, <2>1, KnownAreNatives DEF Known
  <2> QED
    BY <1>0, <1>1, <1>6, <2>2 DEF SetterKeeps
<1>7. CASE SetterReturns
  BY <1>7, SetterReturnsKeeps
<1>8. CASE SetterThrows
  BY <1>8, SetterThrowsKeeps
<1>9. CASE Evaluate \/ \E m \in Callable : CallHost(m)
  <2>1. [step |-> "script"] \in Frame /\ [step |-> "call"] \in Frame
    BY DEF Frame
  <2> QED
    BY <1>2, <1>9, <2>1 DEF Evaluate, CallHost, Push, Registering
<1>10. CASE ScriptEnds \/ HostReturns
  BY <1>2, <1>10 DEF ScriptEnds, HostReturns, At, Registering
<1>11. CASE \E n \in Names : DefineSetter(n)
  BY <1>0, <1>1, <1>11 DEF DefineSetter
<1>12. CASE UNCHANGED funVars
  BY <1>0, <1>1, <1>12 DEF funVars
<1> QED
  BY <1>3, <1>4, <1>5, <1>6, <1>7, <1>8, <1>9, <1>10, <1>11, <1>12 DEF Next

LEMMA Invariant ==
  ASSUME Reckless = FALSE
  PROVE  Spec => []IInv
BY InitHolds, StepHolds, PTL DEF Spec

----------------------------------------------------------------------------

\* Type correctness.
THEOREM Typing ==
  ASSUME Reckless = FALSE
  PROVE  Spec => []TypeOK
<1>1. IInv => TypeOK
  BY DEF IInv
<1> QED
  BY <1>1, Invariant, PTL

\* Nested and failed registrations never make a native function call
\* anything but the Kotlin function it was made for (registerFunction,
\* onHostCall), as long as no failure is reckless.
THEOREM NumbersNeverChange ==
  ASSUME Reckless = FALSE
  PROVE  Spec => []NumbersStay
<1>1. IInv => NumbersStay
  BY DEF IInv
<1> QED
  BY <1>1, Invariant, PTL

\* The list of functions is exactly as long as there are registrations that
\* succeeded or are in progress.
THEOREM NothingIsLeftBehind ==
  ASSUME Reckless = FALSE
  PROVE  Spec => []NoneLeftBehind
<1>1. IInv => NoneLeftBehind
  BY DEF IInv, Counted
<1> QED
  BY <1>1, Invariant, PTL

=============================================================================
