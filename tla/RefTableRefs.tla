---------------------------- MODULE RefTableRefs ----------------------------
(***************************************************************************)
(* The slot table implements the store of references as long as no slot's  *)
(* generation has gone round: a handle <<generation, slot>> is live when   *)
(* its slot is in use under its generation, its owners are the slot's      *)
(* reference count. Growing, reserving and failing to allocate change      *)
(* nothing a host can see.                                                 *)
(***************************************************************************)
EXTENDS RefTable

LiveHandles == IF phase = "open" THEN {h \in Handle : Live(h)} ELSE {}

liveRefs == [h \in LiveHandles |-> [object |-> val[h[2]], owners |-> refcount[h[2]]]]

Store == INSTANCE Refs WITH RefId <- Handle, live <- liveRefs, used <- IssuedHandles

\* Steps in which no generation wraps; 2^32 releases of one slot come first.
NextUnwrapped == Next /\ wrapped' = {}

SpecUnwrapped == Init /\ [][NextUnwrapped]_vars

\* "A stale handle whose slot was reused is rejected instead of touching
\* another object", and every other promise of the store.
ImplementsStore == Store!Spec

=============================================================================
