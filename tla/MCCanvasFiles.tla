--------------------------- MODULE MCCanvasFiles ----------------------------
(* Small instances of CanvasFiles: sizes that fill a small budget.          *)
EXTENDS CanvasFiles, TLC

CONSTANTS f1, f2, f3, r1, r2, e1, e2

\* Two files of a budget of one, and a third above the per-file ceiling.
UnitSizes == [f \in File |-> 1]
MixedSizes == (f1 :> 1) @@ (f2 :> 2) @@ (f3 :> 3)

\* Requests are interchangeable, and so are the elements.
Swap == Permutations({r1, r2}) \cup Permutations({e1, e2})
=============================================================================
