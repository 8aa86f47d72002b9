---------------------------- MODULE MCEngineSetup ----------------------------
(* Values for EngineSetup: two programs, one of which uses a name of the    *)
(* stdlib, and a file of another engine. Functions, blocks are alike.       *)
EXTENDS EngineSetup, TLC

CONSTANTS f1, f2, f3, a, b, s, k1, k2

Files == {[names |-> {a, s}, own |-> TRUE], [names |-> {b}, own |-> TRUE],
          [names |-> {a}, own |-> FALSE]}

Alike == Permutations(Funs) \cup Permutations(Block)
=============================================================================
