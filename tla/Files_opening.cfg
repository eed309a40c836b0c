SPECIFICATION Spec
CONSTANTS
  f1 = f1
  f2 = f2
  f3 = f3
  r1 = r1
  r2 = r2
  e1 = e1
  e2 = e2
  None = None
  File = {f1}
  Size <- UnitSizes
  Elem = {e1}
  Req = {r1}
  Viewer = {v1}
  MaxFile = 1
  MaxTotal = 2
  FromBrowser = TRUE
  Collected = FALSE
  EditorFirst = TRUE
  Archivable = FALSE
CHECK_DEADLOCK FALSE
INVARIANT EveryOpenBrowserRenders
