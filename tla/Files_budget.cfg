SPECIFICATION Spec
CONSTANTS
  f1 = f1
  f2 = f2
  f3 = f3
  r1 = r1
  r2 = r2
  e1 = e1
  e2 = e2
  None = None
  File = {f1, f2, f3}
  Size <- MixedSizes
  Elem = {e1}
  Req = {r1, r2}
  Viewer = {}
  MaxFile = 2
  MaxTotal = 3
  FromBrowser = FALSE
  Collected = TRUE
  EditorFirst = TRUE
  Archivable = TRUE
CHECK_DEADLOCK FALSE
INVARIANTS TypeOK BudgetOvershoot
