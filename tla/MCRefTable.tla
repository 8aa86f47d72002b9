----------------------------- MODULE MCRefTable -----------------------------
(* A small slot table for TLC: the array doubles twice, slots are reused and *)
(* their generations go up to the last before they wrap.                     *)
EXTENDS RefTableRefs, TLC

CONSTANTS o1, o2

MCObject  == {o1, o2}
MCSymmetry == Permutations(MCObject)
=============================================================================
