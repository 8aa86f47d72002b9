------------------------------ MODULE MCJsRefs ------------------------------
(* Model values for JsRefs; handles are interchangeable.                    *)
EXTENDS JsRefs, TLC

CONSTANTS h1, h2, h3, o1

Handles == Permutations(RefId)
=============================================================================
