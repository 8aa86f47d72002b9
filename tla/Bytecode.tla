------------------------------ MODULE Bytecode ------------------------------
(***************************************************************************)
(* Loading precompiled bytecode into an engine: kmpjs_load_bytecode, the   *)
(* relocation and loading behind it, the blocks the engine keeps the bytes *)
(* in, and the tables of unique strings ("atoms") that make it all work.   *)
(* The VM compares property names by address, so a name must never have    *)
(* two atoms: one in the stdlib or RAM and one in the loaded block.        *)
(***************************************************************************)
EXTENDS Integers, Sequences

CONSTANTS
  Text,        (* contents of names                                        *)
  Stdlib,      (* those with an atom in the stdlib's table                 *)
  Block,       (* addresses malloc may give to the bytes of a program      *)
  File         (* bytecode files: the names used, and whether the header   *)
               (* names this word size and engine commit                   *)

MaxTables == 2

VARIABLES
  tables,      (* rom_atom_tables: the stdlib's, then the program's        *)
  ram,         (* the names with an atom in RAM, unique_strings            *)
  held,        (* the atoms that code and objects of the engine hold       *)
  heap,        (* the blocks that are allocated                            *)
  blocks,      (* the engine's list of blocks, newest first                *)
  program      (* the JsPrograms that are not closed, by block             *)

bcVars == <<tables, ram, held, heap, blocks, program>>

\* An atom is a string object: what it says and where it lies.
Atom(t, place) == [text |-> t, place |-> place]
RomAtom(t) == Atom(t, "rom")
RamAtom(t) == Atom(t, "ram")
Atoms == [text : Text, place : {"rom", "ram"} \cup Block]

----------------------------------------------------------------------------
(* Unique strings                                                           *)

InTables(t) == \E k \in 1..Len(tables) : \E a \in tables[k] : a.text = t

\* The atom of name t in the first table that has one.
TableAtom(t) ==
  CHOOSE a \in UNION {tables[k] : k \in 1..Len(tables)} :
    /\ a.text = t
    /\ \E k \in 1..Len(tables) :
         a \in tables[k] /\ \A j \in 1..k-1 : \A b \in tables[j] : b.text # t

\* JS_MakeUniqueString: the tables first, then RAM, where it is added.
Unique(t) == IF InTables(t) THEN TableAtom(t) ELSE RamAtom(t)

RamWith(ts) == ram \cup {t \in ts : ~InTables(t)}

\* Script or the host makes names, and code or objects hold on to them.
Intern(ts) ==
  /\ ram'  = RamWith(ts)
  /\ held' = held \cup {Unique(t) : t \in ts}
  /\ UNCHANGED <<tables, heap, blocks, program>>

\* The collector: atoms in RAM that nothing holds any more disappear.
Collect ==
  \E kept \in SUBSET held :
    /\ held' = kept
    /\ ram'  = {t \in ram : RamAtom(t) \in kept}
    /\ UNCHANGED <<tables, heap, blocks, program>>

----------------------------------------------------------------------------
(* kmpjs_load_bytecode                                                      *)

\* Mutant: the program keeps its own copies of the stdlib's atoms.
MutRelocated(ts, b) == {Atom(t, b) : t \in ts}

\* JS_RelocateBytecode: references to a name in a table go there, the others
\* to the block.
Relocated(ts, b) == {IF InTables(t) THEN TableAtom(t) ELSE Atom(t, b) : t \in ts}

\* Mutants: atoms in RAM are tolerated; the limit of tables is off by one.
MutIgnoreRam == Len(tables) < MaxTables
MutTablesFull == ram = {} /\ Len(tables) <= MaxTables

\* What JS_LoadBytecode refuses besides a bad header.
MayLoad == ram = {} /\ Len(tables) < MaxTables

Free(b) == b \in Block \ heap

\* Mutant: a rejected program's block stays allocated.
MutReclaimed(b) == heap \cup {b}

\* free(block)
Reclaimed(b) == (heap \cup {b}) \ {b}

\* The header is not this engine's, or a slot or the block cannot be had, or
\* JS_LoadBytecode throws: nothing of the file remains.
LoadRejected ==
  /\ \E b \in Block : Free(b) /\ heap' = Reclaimed(b)
  /\ UNCHANGED <<tables, ram, held, blocks, program>>

Load(f, b) ==
  /\ f.own /\ MayLoad /\ Free(b)
  /\ heap'    = heap \cup {b}
  /\ blocks'  = <<b>> \o blocks
  /\ tables'  = Append(tables, Relocated(f.names, b))
  /\ held'    = held \cup Relocated(f.names, b)
  /\ program' = program \cup {b}
  /\ UNCHANGED ram

\* kmpjs_run_program: the code's names are atoms of the table already; what
\* else it makes is interned as for any script.
RunProgram(b) ==
  /\ b \in program
  /\ held' = held \cup UNION {tables[k] : k \in 2..Len(tables)}
  /\ UNCHANGED <<tables, ram, heap, blocks, program>>

\* JsProgram.close gives back the reference; block and table stay.
CloseProgram(b) ==
  /\ b \in program
  /\ program' = program \ {b}
  /\ UNCHANGED <<tables, ram, held, heap, blocks>>

\* kmpjs_destroy: the context goes, then the blocks one by one.
Destroy ==
  /\ tables' = <<>> /\ ram' = {} /\ held' = {} /\ program' = {}
  /\ heap'   = heap \ {blocks[k] : k \in 1..Len(blocks)}
  /\ blocks' = <<>>

----------------------------------------------------------------------------

Init ==
  /\ tables = <<{RomAtom(t) : t \in Stdlib}>>
  /\ ram = {} /\ held = {}
  /\ heap = {} /\ blocks = <<>>
  /\ program = {}

Open == tables # <<>>

Next ==
  /\ Open
  /\ \/ \E t \in Text : Intern({t})
     \/ Collect
     \/ LoadRejected
     \/ \E f \in File, b \in Block : Load(f, b)
     \/ \E b \in Block : RunProgram(b) \/ CloseProgram(b)
     \/ Destroy

Spec == Init /\ [][Next]_bcVars

----------------------------------------------------------------------------
(* Properties.                                                              *)

\* Type invariant.
TypeOK ==
  /\ tables \in Seq(SUBSET Atoms) /\ Len(tables) <= MaxTables
  /\ ram \subseteq Text /\ held \subseteq Atoms
  /\ heap \subseteq Block /\ blocks \in Seq(Block) /\ program \subseteq Block

ProgramAtoms == UNION {tables[k] : k \in 2..Len(tables)}

\* "The engine requires an empty atom table": whatever was evaluated,
\* registered, collected or loaded, in whatever order, a name that code or
\* an object already holds is found under the very same atom again; else a
\* variable, a property or a registered function would be lost to whoever
\* names it next.
FoundAgain == \A a \in held \cup ProgramAtoms : Unique(a.text) = a

\* "The engine keeps the bytecode itself for its whole lifetime": an atom in
\* a table or in use lies in a block that is allocated, though its program
\* may have been closed; and the allocated blocks are those destroy will
\* free, each listed once, so that none leaks and none is freed twice.
BlocksAreKept ==
  /\ \A a \in held \cup ProgramAtoms : a.place \in Block => a.place \in heap
  /\ program \subseteq heap
  /\ heap = {blocks[k] : k \in 1..Len(blocks)}
  /\ \A j, k \in 1..Len(blocks) : blocks[j] = blocks[k] => j = k

=============================================================================
