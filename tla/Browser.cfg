SPECIFICATION Spec
CONSTANTS
  e1 = e1
  e2 = e2
  f1 = f1
  f2 = f2
  v1 = v1
  Elem = {e1, e2}
  MaxImages = 1
  Flight = {f1, f2}
  MaxEdits = 3
  Backlog = 1
  Style = {"x", "extra"}
  Needs <- FewNeeds
  Value = {v2}
  Empty = Empty
  Preset = Preset
  Partial <- Parcels
  Whole <- Drawings
  Browser = {f1, f2}
SYMMETRY Swap
CHECK_DEADLOCK FALSE
INVARIANTS EchoIsNotAnEdit StoredOnce TagsAreTrue NothingElseIsLost
INVARIANTS Renderable Verbatim
PROPERTY RowsMoveOn
