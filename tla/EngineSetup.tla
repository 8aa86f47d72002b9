----------------------------- MODULE EngineSetup -----------------------------
(***************************************************************************)
(* An engine into which the host loads a program and registers functions,  *)
(* in any order and from within host calls: HostFunctions                  *)
(* and Bytecode side by side. What ties them together is that registering  *)
(* a function and running script make names, that names in RAM forbid      *)
(* loading, and that a program runs as an evaluation does.                 *)
(***************************************************************************)
EXTENDS Integers, Sequences, FiniteSets

CONSTANTS Funs, Names, MaxDepth, Reckless, Text, Stdlib, Block, File

ASSUME SetupConstants ==
  /\ MaxDepth \in Nat /\ Reckless \in BOOLEAN
  /\ Names \subseteq Text /\ Stdlib \subseteq Text
  /\ "rom" \notin Block /\ "ram" \notin Block
  /\ File \subseteq [names : SUBSET Text, own : BOOLEAN]

VARIABLES functions, natives, exposed, setters, stack,
          tables, ram, held, heap, blocks, program

F == INSTANCE HostFunctions
B == INSTANCE Bytecode

funVars == <<functions, natives, exposed, setters, stack>>
bcVars  == <<tables, ram, held, heap, blocks, program>>
vars    == <<funVars, bcVars>>

OnlyFunctions == UNCHANGED bcVars
OnlyBytecode  == UNCHANGED funVars

\* kmpjs_define_function makes the name of the global before anything else
\* can go wrong but the allocation of the function itself.
Registration ==
  \E f \in Funs, n \in Names :
    \/ /\ F!Register(f, n) \/ F!RegisterOverSetter(f, n) \/ F!RegisterFails(f, n)
       /\ B!Intern({n})
    \/ F!RegisterFails(f, n) /\ OnlyFunctions

\* Script makes names as it goes, those of the setters it defines included.
Script ==
  \/ \E n \in Names : F!DefineSetter(n) /\ B!Intern({n})
  \/ F!ScriptRuns /\ OnlyBytecode /\ \E t \in Text : B!Intern({t})
  \/ OnlyFunctions /\ \/ F!SetterKeeps \/ F!SetterReturns \/ F!SetterThrows
                      \/ F!ReportEnds \/ F!ScriptEnds
                      \/ \E m \in F!Callable : F!CallHost(m)

\* The host evaluates or runs a program, and loads and closes programs.
Host ==
  \/ OnlyFunctions /\ (F!Evaluate \/ F!HostReturns)
  \/ \E b \in Block : F!Evaluate /\ B!RunProgram(b)
  \/ /\ F!HostRuns /\ OnlyBytecode
     /\ \/ B!LoadRejected
        \/ \E b \in Block : B!CloseProgram(b) \/ \E f \in File : B!Load(f, b)
  \/ stack = <<>> /\ B!Destroy /\ OnlyBytecode

Init == F!Init /\ B!Init

Next ==
  /\ B!Open
  /\ \/ Registration \/ Script \/ Host
     \/ B!Collect /\ OnlyBytecode

Spec == Init /\ [][Next]_vars

----------------------------------------------------------------------------
(* Properties of the parts.                                                 *)

\* Type invariant.
TypeOK == F!TypeOK /\ B!TypeOK

\* The number of a native function leads to the Kotlin function it was made
\* for, also when it is called by a program loaded earlier or from a setter.
NumbersStay == F!NumbersStay

\* A failed registration leaves nothing behind and takes nothing away.
NoneLeftBehind == F!NoneLeftBehind

\* A name that is held is found again under the same atom, whatever was
\* loaded, registered and evaluated in between (JS_LoadBytecode).
FoundAgain == B!FoundAgain

\* What tables, code and objects point to is allocated, and freed once.
BlocksAreKept == B!BlocksAreKept

=============================================================================
