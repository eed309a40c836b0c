------------------------------ MODULE MCBrowser ------------------------------
(***************************************************************************)
(* Small instances of what a browser does with elements: when it sends     *)
(* them (BrowserSync) and what becomes of their content (Elements).  The   *)
(* two share no state, so a behaviour here is that of one of them, named   *)
(* by `part` and picked at the start (see MCServices).                     *)
(***************************************************************************)
EXTENDS BrowserSync, Elements, TLC

CONSTANTS e1, e2, f1, f2, v1

VARIABLE part

Init == BrowserInit /\ ElementInit /\ part \in {"sync", "content"}

Next ==
  /\ UNCHANGED part
  /\ \/ part = "sync"    /\ BrowserNext /\ UNCHANGED elementVars
     \/ part = "content" /\ ElementNext /\ UNCHANGED browserVars

Spec == Init /\ [][Next]_<<part, browserVars, elementVars>>

\* An agent may post next to nothing, false values, a field that is stripped and
\* one the server does not know.
FewNeeds == [t \in Type |-> IF t = "shape" THEN {} ELSE {"x"}]
Parcels ==
  { <<>>, [text |-> v1, locked |-> TRUE], [type |-> Empty, points |-> Empty, extra |-> v1],
    [type |-> "linear", points |-> Empty, id |-> v1], [type |-> "text", x |-> v1, customData |-> v1] }
Drawings ==
  { [type |-> "freedraw", id |-> v1, points |-> v1, x |-> v1, extra |-> v1, locked |-> FALSE,
     isDeleted |-> FALSE],
    [type |-> "shape", id |-> v1, extra |-> v1, locked |-> TRUE, isDeleted |-> FALSE] }

\* Elements and flushes are interchangeable, and so are the browsers that share an
\* element, for which an instance takes the values of the flushes.
Swap == Permutations({e1, e2}) \cup Permutations({f1, f2})
=============================================================================
