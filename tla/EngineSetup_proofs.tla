-------------------------- MODULE EngineSetup_proofs --------------------------
(***************************************************************************)
(* What is proved of host functions alone holds of them in an engine into  *)
(* which programs are loaded as well: each step of EngineSetup is a step   *)
(* of HostFunctions or leaves its variables alone. Likewise each is a step *)
(* of Bytecode, for which the second half has an inductive invariant.      *)
(***************************************************************************)
EXTENDS EngineSetup, SequenceTheorems, TLAPS

P == INSTANCE HostFunctions_proofs

\* The operators of HostFunctions under both their names.
LEMMA SameActions ==
  /\ F!Init <=> P!Init
  /\ F!Next <=> P!Next
<1> USE DEF F!Push, P!Push, F!Pop, P!Pop, F!At, P!At, F!Top, P!Top, F!HostRuns, P!HostRuns,
            F!ScriptRuns, P!ScriptRuns, F!HasFunction, P!HasFunction
<1>1. F!Init <=> P!Init
  BY DEF F!Init, P!Init
<1>2. F!ReportEnds <=> P!ReportEnds
  BY DEF F!ReportEnds, P!ReportEnds, F!Harmless, P!Harmless, F!Number, P!Number,
         F!Rollback, P!Rollback
<1>3. \A f \in Funs, n \in Names :
        /\ F!Register(f, n) <=> P!Register(f, n)
        /\ F!RegisterOverSetter(f, n) <=> P!RegisterOverSetter(f, n)
        /\ F!RegisterFails(f, n) <=> P!RegisterFails(f, n)
  BY DEF F!Register, P!Register, F!RegisterOverSetter, P!RegisterOverSetter,
         F!RegisterFails, P!RegisterFails, F!Fresh, P!Fresh, F!Added, P!Added, F!NativeFor, P!NativeFor, F!Number, P!Number
<1>4. F!SetterKeeps <=> P!SetterKeeps
  BY DEF F!SetterKeeps, P!SetterKeeps
<1>5. F!SetterReturns <=> P!SetterReturns
  BY DEF F!SetterReturns, P!SetterReturns
<1>6. F!SetterThrows <=> P!SetterThrows
  BY DEF F!SetterThrows, P!SetterThrows
<1>7. (F!Evaluate <=> P!Evaluate) /\ (F!ScriptEnds <=> P!ScriptEnds)
  BY DEF F!Evaluate, P!Evaluate, F!ScriptEnds, P!ScriptEnds
<1>8. \A n \in Names : F!DefineSetter(n) <=> P!DefineSetter(n)
  BY DEF F!DefineSetter, P!DefineSetter
<1>9. F!Callable = P!Callable
  BY DEF F!Callable, P!Callable
<1>10. \A m : F!CallHost(m) <=> P!CallHost(m)
  BY <1>9 DEF F!CallHost, P!CallHost, F!InRange, P!InRange
<1>11. F!HostReturns <=> P!HostReturns
  BY DEF F!HostReturns, P!HostReturns
<1> QED
  BY <1>1, <1>2, <1>3, <1>4, <1>5, <1>6, <1>7, <1>8, <1>9, <1>10, <1>11 DEF F!Next, P!Next

LEMMA SameProperties ==
  /\ F!NumbersStay <=> P!NumbersStay
  /\ F!NoneLeftBehind <=> P!NoneLeftBehind
<1>1. F!Pending = P!Pending
  BY DEF F!Pending, P!Pending, F!Setters, P!Setters, F!Registering, P!Registering
<1>2. F!NumbersStay <=> P!NumbersStay
  BY <1>1 DEF F!NumbersStay, P!NumbersStay, F!CallsItsOwn, P!CallsItsOwn,
     F!InRange, P!InRange, F!Dispatch, P!Dispatch
<1>3. F!NoneLeftBehind <=> P!NoneLeftBehind
  BY <1>1 DEF F!NoneLeftBehind, P!NoneLeftBehind, F!Cardinality, P!Cardinality
<1> QED
  BY <1>2, <1>3

LEMMA StepsAreSteps ==
  ASSUME [Next]_vars
  PROVE  [F!Next]_funVars
BY DEF Next, vars, Registration, Script, Host, OnlyFunctions, OnlyBytecode, F!Next

LEMMA FunctionsOfAnEngine == Spec => P!Spec
<1>1. Init => P!Init
  BY SameActions DEF Init
<1>2. [Next]_vars => [P!Next]_P!funVars
  BY SameActions, StepsAreSteps DEF funVars, P!funVars
<1> QED
  BY <1>1, <1>2, PTL DEF Spec, P!Spec

----------------------------------------------------------------------------

\* The number of a native function leads to the Kotlin function it was made
\* for (registerFunction, onHostCall), whatever else goes on in the engine, as
\* long as no failure of a registration is reckless.
THEOREM NumbersNeverChange ==
  ASSUME Reckless = FALSE
  PROVE  Spec => []NumbersStay
<1>1. P!Spec => []P!NumbersStay
  BY P!NumbersNeverChange
<1>2. P!NumbersStay => NumbersStay
  BY SameProperties DEF NumbersStay
<1> QED
  BY <1>1, <1>2, FunctionsOfAnEngine, PTL

\* The list of functions is as long as there are registrations that succeeded
\* or are in progress.
THEOREM NothingIsLeftBehind ==
  ASSUME Reckless = FALSE
  PROVE  Spec => []NoneLeftBehind
<1>1. P!Spec => []P!NoneLeftBehind
  BY P!NothingIsLeftBehind
<1>2. P!NoneLeftBehind => NoneLeftBehind
  BY SameProperties DEF NoneLeftBehind
<1> QED
  BY <1>1, <1>2, FunctionsOfAnEngine, PTL

----------------------------------------------------------------------------
(* The inductive invariant of the bytecode half. A name is found again     *)
(* because there are only three kinds of atoms and no two of them have the *)
(* same text: the stdlib's, the program's own, which lie in an allocated   *)
(* block, and those in RAM, whose texts are in no table. Loading would     *)
(* break the last part, were RAM not required to be empty.                 *)

StdlibFirst == tables[1] = {B!RomAtom(t) : t \in Stdlib}

ProgramTable ==
  Len(tables) = 2 =>
    /\ \A a \in tables[2] : IF a.text \in Stdlib THEN a = B!RomAtom(a.text) ELSE a.place \in heap
    /\ \A a, c \in tables[2] : a.text = c.text => a = c

TwoTables ==
  /\ tables \in Seq(SUBSET B!Atoms) /\ Len(tables) \in 1..2
  /\ StdlibFirst /\ ProgramTable

RamOutside == \A t \in ram : ~B!InTables(t)

HeldFound ==
  \A a \in held : B!Unique(a.text) = a /\ (a.text \in ram \/ B!InTables(a.text))

BlocksListed ==
  /\ heap = {blocks[k] : k \in 1..Len(blocks)}
  /\ \A j, k \in 1..Len(blocks) : blocks[j] = blocks[k] => j = k
  /\ program \subseteq heap

BInv ==
  /\ B!TypeOK /\ BlocksListed
  /\ IF tables = <<>> THEN held = {} ELSE TwoTables /\ RamOutside /\ HeldFound

\* What looking a name up in the tables gives.
Dictionary ==
  \A t \in Text :
    /\ t \in Stdlib => B!InTables(t) /\ B!TableAtom(t) = B!RomAtom(t)
    /\ t \notin Stdlib /\ B!InTables(t) => Len(tables) = 2 /\ B!TableAtom(t) \in tables[2]
    /\ B!InTables(t) => B!TableAtom(t).text = t
    /\ Len(tables) = 2 =>
         \A x \in tables[2] : x.text = t => B!InTables(t) /\ B!TableAtom(t) = x

LEMMA LookedUp == TwoTables => Dictionary
<1> SUFFICES ASSUME TwoTables, NEW t \in Text
             PROVE  /\ t \in Stdlib => B!InTables(t) /\ B!TableAtom(t) = B!RomAtom(t)
                    /\ t \notin Stdlib /\ B!InTables(t) =>
                         Len(tables) = 2 /\ B!TableAtom(t) \in tables[2]
                    /\ B!InTables(t) => B!TableAtom(t).text = t
                    /\ Len(tables) = 2 =>
                         \A x \in tables[2] : x.text = t => B!InTables(t) /\ B!TableAtom(t) = x
  BY DEF Dictionary
<1> DEFINE U == UNION {tables[k] : k \in 1..Len(tables)}
           First(a) == /\ a.text = t
                       /\ \E k \in 1..Len(tables) :
                            a \in tables[k] /\ \A j \in 1..k-1 : \A b \in tables[j] : b.text # t
<1>1. ASSUME NEW x \in U, First(x), \A y \in U : First(y) => y = x
      PROVE  B!TableAtom(t) = x
  BY <1>1, Zenon DEF B!TableAtom
<1>2. /\ \A y \in tables[1] : y = B!RomAtom(y.text) /\ y.text \in Stdlib
      /\ \A u \in Stdlib : B!RomAtom(u) \in tables[1] /\ B!RomAtom(u).text = u
      /\ Len(tables) = 1 \/ Len(tables) = 2
  BY DEF TwoTables, StdlibFirst, B!RomAtom, B!Atom
<1>3. ASSUME t \in Stdlib
      PROVE  B!InTables(t) /\ B!TableAtom(t) = B!RomAtom(t)
  <2> DEFINE r == B!RomAtom(t)
  <2>1. r \in tables[1] /\ r.text = t /\ 1 \in 1..Len(tables)
    BY <1>2, <1>3
  <2>2. r \in U /\ First(r) /\ B!InTables(t)
    BY <2>1 DEF B!InTables
  <2>3. ASSUME NEW y \in U, First(y)
        PROVE  y = r
    <3>1. PICK k \in 1..Len(tables) :
            y \in tables[k] /\ \A j \in 1..k-1 : \A b \in tables[j] : b.text # t
      BY <2>3
    <3>2. k = 1
      BY <3>1, <2>1, <1>2
    <3> QED
      BY <3>1, <3>2, <1>2, <2>3
  <2> HIDE DEF U, First
  <2> QED
    BY <1>1, <2>2, <2>3
<1>4. ASSUME t \notin Stdlib, B!InTables(t)
      PROVE  Len(tables) = 2 /\ \E x \in tables[2] : x.text = t
  BY <1>2, <1>4 DEF B!InTables
<1>5. ASSUME t \notin Stdlib, Len(tables) = 2, NEW x \in tables[2], x.text = t
      PROVE  B!InTables(t) /\ B!TableAtom(t) = x
  <2>1. x \in U /\ First(x) /\ B!InTables(t)
    <3>1. \A j \in 1..2-1 : \A b \in tables[j] : b.text # t
      BY <1>2, <1>5
    <3> QED
      BY <3>1, <1>5 DEF B!InTables
  <2>2. ASSUME NEW y \in U, First(y)
        PROVE  y = x
    <3>1. PICK k \in 1..Len(tables) : y \in tables[k]
      OBVIOUS
    <3>2. k = 2 /\ y.text = t
      BY <1>2, <1>5, <2>2, <3>1
    <3> QED
      BY <3>1, <3>2, <1>5 DEF TwoTables, ProgramTable
  <2> HIDE DEF U, First
  <2> QED
    BY <1>1, <2>1, <2>2
<1>6. ASSUME t \in Stdlib, Len(tables) = 2, NEW x \in tables[2], x.text = t
      PROVE  x = B!RomAtom(t)
  BY <1>6 DEF TwoTables, ProgramTable
<1> HIDE DEF U, First
<1> QED
  BY <1>2, <1>3, <1>4, <1>5, <1>6

\* Unless a table is added, names are looked up as before.
LEMMA SameTables ==
  ASSUME tables' = tables
  PROVE  /\ \A t : (B!InTables(t)' <=> B!InTables(t)) /\ (B!TableAtom(t)' = B!TableAtom(t))
         /\ StdlibFirst' = StdlibFirst
BY DEF B!InTables, B!TableAtom, StdlibFirst, B!RomAtom, B!Atom

\* An atom in a table or in use: which it is and where it lies.
LEMMA AtomsFound ==
  ASSUME BInv
  PROVE  /\ B!FoundAgain
         /\ \A a \in held \cup B!ProgramAtoms : a.place \in Block => a.place \in heap
<1>1. CASE tables = <<>>
  <2>1. held = {} /\ B!ProgramAtoms = {}
    BY <1>1 DEF BInv, B!ProgramAtoms
  <2> QED
    BY <2>1 DEF B!FoundAgain
<1>2. CASE tables # <<>>
  <2>1. TwoTables /\ HeldFound /\ Dictionary
    BY <1>2, LookedUp DEF BInv
  <2>2. ASSUME NEW a \in B!ProgramAtoms
        PROVE  /\ Len(tables) = 2 /\ a \in tables[2] /\ a \in B!Atoms
               /\ B!InTables(a.text) /\ B!Unique(a.text) = a
    <3>1. Len(tables) = 2 /\ a \in tables[2] /\ a \in B!Atoms
      BY <2>1 DEF TwoTables, B!ProgramAtoms
    <3>2. a.text \in Text
      BY <3>1 DEF B!Atoms
    <3> QED
      BY <2>1, <3>1, <3>2 DEF Dictionary, B!Unique
  <2>3. ASSUME NEW a \in held
        PROVE  a \in B!Atoms /\ a.text \in Text /\ B!Unique(a.text) = a
    BY <2>1 DEF BInv, B!TypeOK, B!Atoms, HeldFound
  <2>4. ASSUME NEW a \in B!Atoms, B!Unique(a.text) = a, a.place \in Block
        PROVE  a.place \in heap
    <3>1. a.text \in Text /\ a.place # "rom" /\ a.place # "ram"
      BY <2>4, SetupConstants DEF B!Atoms
    <3>2. a # B!RamAtom(a.text) /\ a # B!RomAtom(a.text)
      BY <3>1 DEF B!RamAtom, B!RomAtom, B!Atom
    <3>3. B!InTables(a.text) /\ a.text \notin Stdlib /\ a = B!TableAtom(a.text)
      BY <2>1, <2>4, <3>1, <3>2 DEF B!Unique, Dictionary
    <3>4. Len(tables) = 2 /\ a \in tables[2]
      BY <2>1, <3>1, <3>3 DEF Dictionary
    <3> QED
      BY <2>1, <3>3, <3>4 DEF TwoTables, ProgramTable
  <2> QED
    BY <2>2, <2>3, <2>4 DEF B!FoundAgain
<1> QED
  BY <1>1, <1>2

LEMMA BlocksInOrder == BInv => B!BlocksAreKept
BY AtomsFound DEF BInv, BlocksListed, B!BlocksAreKept

LEMMA AtTheStart == B!Init => BInv
<1> SUFFICES ASSUME B!Init
             PROVE  BInv
  OBVIOUS
<1>1. /\ tables = <<{B!RomAtom(t) : t \in Stdlib}>> /\ blocks = <<>>
      /\ ram = {} /\ held = {} /\ heap = {} /\ program = {}
  BY DEF B!Init
<1>2. {B!RomAtom(t) : t \in Stdlib} \in SUBSET B!Atoms
  BY SetupConstants DEF B!RomAtom, B!Atom, B!Atoms
<1>3. tables \in Seq(SUBSET B!Atoms) /\ Len(tables) = 1 /\ tables # <<>>
  BY <1>1, <1>2
<1>4. B!TypeOK /\ BlocksListed
  BY <1>1, <1>3 DEF B!TypeOK, B!MaxTables, BlocksListed
<1>5. TwoTables /\ RamOutside /\ HeldFound
  BY <1>1, <1>3 DEF TwoTables, StdlibFirst, ProgramTable, RamOutside, HeldFound
<1> QED
  BY <1>3, <1>4, <1>5 DEF BInv

----------------------------------------------------------------------------
(* Each action keeps the invariant.                                         *)

\* Steps that leave tables, blocks and RAM's outside alone.
LEMMA TablesStay ==
  ASSUME BInv, tables # <<>>, tables' = tables, heap' = heap, blocks' = blocks,
         program' \subseteq program, ram' \subseteq Text, held' \subseteq B!Atoms,
         RamOutside', HeldFound'
  PROVE  BInv'
<1>1. /\ B!TypeOK /\ BlocksListed /\ TwoTables
  BY DEF BInv
<1>2. B!TypeOK' /\ BlocksListed'
  BY <1>1 DEF B!TypeOK, BlocksListed
<1>3. TwoTables'
  BY <1>1, SameTables DEF TwoTables, ProgramTable, B!RomAtom, B!Atom, B!Atoms
<1> QED
  BY <1>2, <1>3 DEF BInv

LEMMA InternKeeps ==
  ASSUME BInv, tables # <<>>, NEW n \in Text, B!Intern({n})
  PROVE  BInv'
<1>1. /\ TwoTables /\ RamOutside /\ HeldFound /\ B!TypeOK /\ Dictionary
      /\ tables' = tables
  BY LookedUp DEF BInv, B!Intern
<1>2. /\ held' = held \cup {B!Unique(n)}
      /\ ram' = ram \cup {t \in {n} : ~B!InTables(t)}
  BY DEF B!Intern, B!RamWith
<1>3. B!Unique(n) \in B!Atoms /\ B!Unique(n).text = n
  <2>1. CASE B!InTables(n) /\ n \in Stdlib
    BY <2>1, <1>1, SetupConstants DEF Dictionary, B!Unique, B!Atoms, B!RomAtom, B!Atom
  <2>2. CASE B!InTables(n) /\ n \notin Stdlib
    <3>1. B!Unique(n) \in tables[2] /\ Len(tables) = 2 /\ B!Unique(n).text = n
      BY <2>2, <1>1 DEF Dictionary, B!Unique
    <3> QED
      BY <3>1, <1>1 DEF TwoTables
  <2>3. CASE ~B!InTables(n)
    BY <2>3 DEF B!Unique, B!Atoms, B!RamAtom, B!Atom
  <2> QED
    BY <2>1, <2>2, <2>3
<1>4. ram' \subseteq Text /\ held' \subseteq B!Atoms
  BY <1>1, <1>2, <1>3 DEF B!TypeOK
<1>5. RamOutside'
  BY <1>1, <1>2, SameTables DEF RamOutside
<1>6. HeldFound'
  <2> SUFFICES ASSUME NEW a \in held'
               PROVE  B!Unique(a.text)' = a /\ (a.text \in ram' \/ B!InTables(a.text)')
    BY DEF HeldFound
  <2>1. B!Unique(a.text)' = B!Unique(a.text) /\ (B!InTables(a.text)' <=> B!InTables(a.text))
    BY <1>1, SameTables DEF B!Unique, B!RamAtom, B!Atom
  <2>2. CASE a \in held
    BY <2>1, <2>2, <1>1, <1>2 DEF HeldFound
  <2>3. CASE a = B!Unique(n)
    BY <2>1, <2>3, <1>2, <1>3
  <2> QED
    BY <2>2, <2>3, <1>2
<1> QED
  BY <1>1, <1>4, <1>5, <1>6, TablesStay DEF B!Intern

LEMMA CollectKeeps ==
  ASSUME BInv, tables # <<>>, B!Collect
  PROVE  BInv'
<1>1. /\ TwoTables /\ RamOutside /\ HeldFound /\ B!TypeOK /\ tables' = tables
      /\ held' \subseteq held /\ ram' = {t \in ram : B!RamAtom(t) \in held'}
  BY DEF BInv, B!Collect
<1>2. RamOutside'
  BY <1>1, SameTables DEF RamOutside
<1>3. HeldFound'
  <2> SUFFICES ASSUME NEW a \in held'
               PROVE  B!Unique(a.text)' = a /\ (a.text \in ram' \/ B!InTables(a.text)')
    BY DEF HeldFound
  <2>1. B!Unique(a.text)' = B!Unique(a.text) /\ (B!InTables(a.text)' <=> B!InTables(a.text))
    BY <1>1, SameTables DEF B!Unique, B!RamAtom, B!Atom
  <2>2. B!Unique(a.text) = a /\ (a.text \in ram \/ B!InTables(a.text))
    BY <1>1 DEF HeldFound
  <2>3. CASE ~B!InTables(a.text)
    BY <2>1, <2>2, <2>3, <1>1 DEF B!Unique
  <2> QED
    BY <2>1, <2>2, <2>3
<1>4. ram' \subseteq Text /\ held' \subseteq B!Atoms
  BY <1>1 DEF B!TypeOK
<1> QED
  BY <1>1, <1>2, <1>3, <1>4, TablesStay DEF B!Collect

LEMMA RunProgramKeeps ==
  ASSUME BInv, tables # <<>>, NEW b \in Block, B!RunProgram(b)
  PROVE  BInv'
<1>1. /\ TwoTables /\ RamOutside /\ HeldFound /\ B!TypeOK /\ Dictionary
      /\ tables' = tables /\ ram' = ram /\ held' = held \cup B!ProgramAtoms
  BY LookedUp DEF BInv, B!RunProgram, B!ProgramAtoms
<1>2. \A a \in B!ProgramAtoms : a \in B!Atoms /\ Len(tables) = 2 /\ a \in tables[2]
  BY <1>1 DEF TwoTables, B!ProgramAtoms
<1>3. RamOutside'
  BY <1>1, SameTables DEF RamOutside
<1>4. HeldFound'
  <2> SUFFICES ASSUME NEW a \in held'
               PROVE  B!Unique(a.text)' = a /\ (a.text \in ram' \/ B!InTables(a.text)')
    BY DEF HeldFound
  <2>1. B!Unique(a.text)' = B!Unique(a.text) /\ (B!InTables(a.text)' <=> B!InTables(a.text))
    BY <1>1, SameTables DEF B!Unique, B!RamAtom, B!Atom
  <2>2. CASE a \in held
    BY <2>1, <2>2, <1>1 DEF HeldFound
  <2>3. CASE a \in B!ProgramAtoms
    <3>1. a.text \in Text
      BY <2>3, <1>2 DEF B!Atoms
    <3> QED
      BY <2>1, <2>3, <3>1, <1>1, <1>2 DEF Dictionary, B!Unique
  <2> QED
    BY <2>2, <2>3, <1>1
<1>5. ram' \subseteq Text /\ held' \subseteq B!Atoms
  BY <1>1, <1>2 DEF B!TypeOK
<1> QED
  BY <1>1, <1>3, <1>4, <1>5, TablesStay DEF B!RunProgram

\* Steps that change neither what is held nor how it is found.
LEMMA NothingLookedUp ==
  ASSUME BInv, tables # <<>>, tables' = tables, ram' = ram, held' = held,
         heap' = heap, blocks' = blocks, program' \subseteq program
  PROVE  BInv'
<1>1. RamOutside /\ HeldFound /\ B!TypeOK
  BY DEF BInv
<1>2. RamOutside'
  BY <1>1, SameTables DEF RamOutside
<1>3. \A t : B!Unique(t)' = B!Unique(t)
  BY SameTables DEF B!Unique, B!RamAtom, B!Atom
<1>4. HeldFound'
  BY <1>1, <1>3, SameTables DEF HeldFound
<1> QED
  BY <1>1, <1>2, <1>4, TablesStay DEF B!TypeOK

\* The block that was allocated for a rejected program is the one freed.
LEMMA LoadRejectedKeeps ==
  ASSUME BInv, tables # <<>>, B!LoadRejected
  PROVE  BInv'
<1>1. heap' = heap
  BY DEF B!LoadRejected, B!Free, B!Reclaimed
<1> QED
  BY <1>1, NothingLookedUp DEF B!LoadRejected

LEMMA CloseProgramKeeps ==
  ASSUME BInv, tables # <<>>, NEW b \in Block, B!CloseProgram(b)
  PROVE  BInv'
BY NothingLookedUp DEF B!CloseProgram

LEMMA Appended ==
  ASSUME NEW S, NEW s \in Seq(S), NEW e \in S
  PROVE  /\ Append(s, e) \in Seq(S) /\ Len(Append(s, e)) = Len(s) + 1
         /\ \A k \in 1..Len(s) : Append(s, e)[k] = s[k]
         /\ Append(s, e)[Len(s) + 1] = e
OBVIOUS

\* Only the stdlib's table is there and RAM holds no atom: what is held are
\* the stdlib's, and a second table can be added without hiding any.
LEMMA LoadKeeps ==
  ASSUME BInv, tables # <<>>, NEW f \in File, NEW b \in Block, B!Load(f, b)
  PROVE  BInv'
<1>1. /\ TwoTables /\ HeldFound /\ B!TypeOK /\ BlocksListed /\ Dictionary
      /\ Len(tables) = 1 /\ ram = {}
  BY LookedUp DEF BInv, B!Load, B!MayLoad, B!MaxTables, TwoTables
<1>2. PICK table : table = B!Relocated(f.names, b)
  OBVIOUS
<1>3. /\ tables' = Append(tables, table) /\ held' = held \cup table /\ ram' = {}
      /\ heap' = heap \cup {b} /\ blocks' = <<b>> \o blocks /\ program' = program \cup {b}
      /\ b \notin heap
  BY <1>1, <1>2 DEF B!Load, B!Free
<1>4. \A t \in Text : B!InTables(t) <=> t \in Stdlib
  BY <1>1 DEF Dictionary
<1>5. \A a \in table : /\ a.text \in Text /\ a \in B!Atoms
                       /\ a = IF a.text \in Stdlib THEN B!RomAtom(a.text) ELSE B!Atom(a.text, b)
  <2> SUFFICES ASSUME NEW t \in f.names
               PROVE  LET a == IF B!InTables(t) THEN B!TableAtom(t) ELSE B!Atom(t, b) IN
                      /\ a.text \in Text /\ a \in B!Atoms
                      /\ a = IF a.text \in Stdlib THEN B!RomAtom(a.text) ELSE B!Atom(a.text, b)
    BY <1>2 DEF B!Relocated
  <2>1. t \in Text
    BY SetupConstants
  <2>2. CASE t \in Stdlib
    <3>1. B!InTables(t) /\ B!TableAtom(t) = B!RomAtom(t)
      BY <2>1, <2>2, <1>1 DEF Dictionary
    <3> QED
      BY <2>1, <2>2, <3>1 DEF B!RomAtom, B!Atom, B!Atoms
  <2>3. CASE t \notin Stdlib
    BY <2>1, <2>3, <1>4 DEF B!Atom, B!Atoms
  <2> QED
    BY <2>2, <2>3
<1>6. /\ tables' \in Seq(SUBSET B!Atoms) /\ Len(tables') = 2
      /\ tables'[1] = tables[1] /\ tables'[2] = table
  <2>1. PICK S : S = SUBSET B!Atoms
    OBVIOUS
  <2>2. table \in S /\ tables \in Seq(S)
    BY <2>1, <1>1, <1>5 DEF TwoTables
  <2>3. tables' \in Seq(S) /\ Len(tables') = 2 /\ tables'[1] = tables[1] /\ tables'[2] = table
    <3>1. /\ tables' \in Seq(S) /\ Len(tables') = Len(tables) + 1
          /\ \A k \in 1..Len(tables) : tables'[k] = tables[k]
          /\ tables'[Len(tables) + 1] = table
      BY <2>2, <1>3, Appended
    <3>2. Len(tables) = 1
      BY <1>1
    <3> QED
      BY <3>1, <3>2
  <2> QED
    BY <2>1, <2>3 DEF B!Atoms
<1>7. StdlibFirst'
  BY <1>1, <1>6 DEF TwoTables, StdlibFirst, B!RomAtom, B!Atom
<1>8. ProgramTable'
  <2>1. \A a \in table : IF a.text \in Stdlib THEN a = B!RomAtom(a.text) ELSE a.place \in heap'
    BY <1>3, <1>5 DEF B!Atom
  <2>2. \A a, c \in table : a.text = c.text => a = c
    BY <1>5
  <2> QED
    BY <2>1, <2>2, <1>6 DEF ProgramTable, B!RomAtom, B!Atom
<1>9. TwoTables'
  BY <1>6, <1>7, <1>8 DEF TwoTables, B!Atoms
<1>10. Dictionary'
  BY <1>9, LookedUp, PTL
<1>11. RamOutside'
  BY <1>3 DEF RamOutside
<1>12. HeldFound'
  <2> SUFFICES ASSUME NEW a \in held'
               PROVE  B!InTables(a.text)' /\ B!Unique(a.text)' = a
    BY DEF HeldFound
  <2>1. CASE a \in held
    <3>1. a.text \in Text /\ B!InTables(a.text) /\ B!Unique(a.text) = a
      BY <2>1, <1>1 DEF HeldFound, B!TypeOK, B!Atoms
    <3>2. a.text \in Stdlib /\ a = B!RomAtom(a.text)
      BY <3>1, <1>1, <1>4 DEF B!Unique, Dictionary
    <3>3. B!InTables(a.text)' /\ B!TableAtom(a.text)' = B!RomAtom(a.text)
      BY <3>1, <3>2, <1>10 DEF Dictionary, B!RomAtom, B!Atom
    <3> QED
      BY <3>2, <3>3 DEF B!Unique
  <2>2. CASE a \in table
    <3>1. a.text \in Text
      BY <2>2, <1>5
    <3>2. B!InTables(a.text)' /\ B!TableAtom(a.text)' = a
      BY <2>2, <3>1, <1>6, <1>10 DEF Dictionary
    <3> QED
      BY <3>2 DEF B!Unique
  <2> QED
    BY <2>1, <2>2, <1>3
<1>13. BlocksListed'
  <2>1. blocks \in Seq(Block) /\ heap = {blocks[k] : k \in 1..Len(blocks)}
    BY <1>1 DEF B!TypeOK, BlocksListed
  <2>2. /\ Len(blocks') = Len(blocks) + 1 /\ blocks'[1] = b
        /\ \A k \in 2..Len(blocks) + 1 : blocks'[k] = blocks[k - 1]
    BY <2>1, <1>3
  <2>3. \A k \in 2..Len(blocks) + 1 : blocks'[k] \in heap /\ blocks'[k] # b
    BY <2>1, <2>2, <1>3
  <2>4. heap' = {blocks'[k] : k \in 1..Len(blocks')}
    <3>1. ASSUME NEW h \in heap
          PROVE  \E k \in 1..Len(blocks') : h = blocks'[k]
      <4>1. PICK j \in 1..Len(blocks) : h = blocks[j]
        BY <2>1
      <4>2. j + 1 \in 2..Len(blocks) + 1 /\ blocks'[j + 1] = h
        BY <2>1, <2>2, <4>1
      <4> QED
        BY <2>1, <2>2, <4>2
    <3>2. \E k \in 1..Len(blocks') : b = blocks'[k]
      BY <2>1, <2>2
    <3>3. \A k \in 1..Len(blocks') : blocks'[k] \in heap'
      BY <2>1, <2>2, <2>3, <1>3
    <3> QED
      BY <3>1, <3>2, <3>3, <1>3
  <2>5. ASSUME NEW j \in 1..Len(blocks'), NEW k \in 1..Len(blocks'), blocks'[j] = blocks'[k]
        PROVE  j = k
    <3>1. CASE j = 1 \/ k = 1
      BY <2>1, <2>2, <2>3, <2>5, <3>1
    <3>2. CASE j # 1 /\ k # 1
      <4>1. /\ j - 1 \in 1..Len(blocks) /\ k - 1 \in 1..Len(blocks)
            /\ blocks[j - 1] = blocks[k - 1]
        BY <2>1, <2>2, <2>5, <3>2
      <4> QED
        BY <4>1, <1>1 DEF BlocksListed
    <3> QED
      BY <3>1, <3>2
  <2>6. program' \subseteq heap'
    BY <1>1, <1>3 DEF BlocksListed
  <2> QED
    BY <2>4, <2>5, <2>6 DEF BlocksListed
<1>14. B!TypeOK'
  <2>1. ram' \subseteq Text /\ held' \subseteq B!Atoms
    BY <1>1, <1>3, <1>5 DEF B!TypeOK
  <2>2. heap' \subseteq Block /\ blocks' \in Seq(Block) /\ program' \subseteq Block
    BY <1>1, <1>3 DEF B!TypeOK
  <2> QED
    BY <2>1, <2>2, <1>6 DEF B!TypeOK, B!MaxTables, B!Atoms
<1> QED
  <2>1. tables' # <<>>
    BY <1>6, EmptySeq
  <2> QED
    BY <2>1, <1>9, <1>11, <1>12, <1>13, <1>14 DEF BInv

\* Every block is on the list, so that freeing the list frees them all.
LEMMA DestroyKeeps ==
  ASSUME BInv, B!Destroy
  PROVE  BInv'
<1>1. /\ tables' = <<>> /\ ram' = {} /\ held' = {} /\ program' = {} /\ blocks' = <<>>
      /\ heap' = {}
  BY DEF B!Destroy, BInv, BlocksListed
<1> QED
  BY <1>1 DEF BInv, B!TypeOK, B!MaxTables, BlocksListed

LEMMA StepsOfBytecode ==
  ASSUME [Next]_vars
  PROVE  \/ B!Open /\ \/ \E n \in Text : B!Intern({n})
                      \/ B!Collect \/ B!LoadRejected \/ B!Destroy
                      \/ \E f \in File, b \in Block : B!Load(f, b)
                      \/ \E b \in Block : B!RunProgram(b) \/ B!CloseProgram(b)
         \/ UNCHANGED bcVars
<1>1. \A n \in Names : n \in Text
  BY SetupConstants
<1>2. CASE Registration
  BY <1>1, <1>2 DEF Next, vars, Registration, OnlyFunctions
<1>3. CASE Script
  BY <1>1, <1>3 DEF Next, vars, Script, OnlyFunctions
<1>4. CASE Host
  BY <1>4 DEF Next, vars, Host, OnlyFunctions
<1> QED
  BY <1>2, <1>3, <1>4 DEF Next, vars

LEMMA BytecodeInvariant == Spec => []BInv
<1>1. Init => BInv
  BY AtTheStart DEF Init
<1>2. BInv /\ [Next]_vars => BInv'
  <2> SUFFICES ASSUME BInv, [Next]_vars
               PROVE  BInv'
    OBVIOUS
  <2>1. CASE UNCHANGED bcVars
    <3>1. CASE tables = <<>>
      BY <2>1, <3>1 DEF bcVars, BInv, B!TypeOK, BlocksListed, B!Atoms
    <3>2. CASE tables # <<>>
      BY <2>1, <3>2, NothingLookedUp DEF bcVars
    <3> QED
      BY <3>1, <3>2
  <2>2. CASE ~UNCHANGED bcVars
    BY <2>2, StepsOfBytecode, InternKeeps, CollectKeeps, LoadRejectedKeeps, DestroyKeeps,
       LoadKeeps, RunProgramKeeps, CloseProgramKeeps DEF B!Open
  <2> QED
    BY <2>1, <2>2
<1> QED
  BY <1>1, <1>2, PTL DEF Spec

\* Type correctness: the functions, natives and frames of the host's half,
\* the tables, atoms and blocks of the engine's.
THEOREM Typing ==
  ASSUME Reckless = FALSE
  PROVE  Spec => []TypeOK
<1>1. P!Spec => []P!IInv
  BY P!Invariant
<1>2. P!IInv => F!TypeOK
  BY DEF P!IInv, P!TypeOK, F!TypeOK, P!Native, F!Native, P!Frame, F!Frame,
         P!Registering, F!Registering
<1>3. BInv => B!TypeOK
  BY DEF BInv
<1> QED
  BY <1>1, <1>2, <1>3, FunctionsOfAnEngine, BytecodeInvariant, PTL DEF TypeOK

\* Whatever the host loads (JS_LoadBytecode), registers and evaluates and the
\* collector removes, a name in use is found under the atom it is held by.
THEOREM NamesAreFoundAgain == Spec => []FoundAgain
<1>1. BInv => FoundAgain
  BY AtomsFound DEF FoundAgain
<1> QED
  BY <1>1, BytecodeInvariant, PTL

\* The bytes that tables, code and objects point into are allocated until the
\* engine is destroyed, and destroying it frees each block once
\* (kmpjs_load_bytecode, kmpjs_destroy).
THEOREM BytecodeStays == Spec => []BlocksAreKept
<1>1. BInv => BlocksAreKept
  BY BlocksInOrder DEF BlocksAreKept
<1> QED
  BY <1>1, BytecodeInvariant, PTL

=============================================================================
