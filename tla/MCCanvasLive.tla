---------------------------- MODULE MCCanvasLive ----------------------------
(* Small instances of CanvasLive: which user and which canvas each          *)
(* connection is for, and the symmetry that is left.                        *)
EXTENDS CanvasLive, TLC

CONSTANTS c1, c2, r1, r2, e1, e2, cvA, cvB, u1, u2

\* Both sockets on one canvas, or one socket on each of two canvases.
OneCanvas == [c \in {c1, c2} |-> cvA]
TwoCanvases == (c1 :> cvA) @@ (c2 :> cvB)

\* Both browsers are one user's, who may write what either wrote.
OneUser == [c \in {c1, c2} |-> u1]

\* A single socket.
AloneCanvas == (c1 :> cvA)
AloneUser == (c1 :> u1)

\* The two sockets play the same part when they are one user's on one canvas,
\* and so do elements.
Swap == Permutations({c1, c2}) \cup Permutations({e1, e2})
=============================================================================
