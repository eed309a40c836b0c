SPECIFICATION Spec
CONSTANTS
  f1 = f1
  f2 = f2
  f3 = f3
  r1 = r1
  r2 = r2
  e1 = e1
  e2 = e2
  None = None
  File = {f1, f2}
  Size <- UnitSizes
  Elem = {e1, e2}
  Req = {r1, r2}
  Viewer = {v1}
  MaxFile = 1
  MaxTotal = 2
  FromBrowser = TRUE
  Collected = FALSE
  EditorFirst = FALSE
  Archivable = TRUE
SYMMETRY Swap
CHECK_DEADLOCK FALSE
INVARIANTS FilesInv NoDangling RendersIfJoinedFirst SnapshotComplete
