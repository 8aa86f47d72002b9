-------------------------------- MODULE Refs --------------------------------
(***************************************************************************)
(* What the handle table of the shim promises the host: a store of         *)
(* references. Each handle is issued once, names one object for as long as *)
(* it is live, and is live until as many releases as owners have reached   *)
(* it. RefTable implements it (RefTableRefs); JsRefs is built upon it.     *)
(***************************************************************************)
EXTENDS Integers

CONSTANTS
  RefId,      (* handles                                                   *)
  Object      (* JS objects                                                *)

VARIABLES
  live,       (* the live handles, with their object and number of owners  *)
  used        (* the handles issued so far                                 *)

refVars == <<live, used>>

LiveIds == DOMAIN live

\* slot_new: a handle never issued before, with one owner.
New(h, v) ==
  /\ h \notin used
  /\ used' = used \cup {h}
  /\ live' = [g \in LiveIds \cup {h} |->
                IF g = h THEN [object |-> v, owners |-> 1] ELSE live[g]]

\* kmpjs_ref_retain of a live handle.
Retain(h) ==
  /\ h \in LiveIds
  /\ live' = [live EXCEPT ![h].owners = @ + 1]
  /\ UNCHANGED used

\* Mutant: the count is tested before it is lowered.
MutLastOwner(h) == live[h].owners = 0

LastOwner(h) == live[h].owners = 1

\* kmpjs_ref_release of a live handle: the last one ends it.
Release(h) ==
  /\ h \in LiveIds
  /\ live' = IF LastOwner(h)
             THEN [g \in LiveIds \ {h} |-> live[g]]
             ELSE [live EXCEPT ![h].owners = @ - 1]
  /\ UNCHANGED used

\* kmpjs_destroy ends every handle.
Clear ==
  /\ live' = [g \in {} |-> live[g]]
  /\ UNCHANGED used

Init ==
  /\ used = {}
  /\ live = [g \in {} |-> 0]

Next ==
  \/ \E h \in RefId : (\E v \in Object : New(h, v)) \/ Retain(h) \/ Release(h)
  \/ Clear

Spec == Init /\ [][Next]_refVars

=============================================================================
