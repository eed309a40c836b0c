SPECIFICATION Spec
CONSTANTS
  c1 = c1
  c2 = c2
  r1 = r1
  r2 = r2
  e1 = e1
  e2 = e2
  cvA = cvA
  cvB = cvB
  u1 = u1
  u2 = u2
  Canvas = {cvA}
  User = {u1}
  Elem = {e1}
  Conn = {c1}
  Req = {r1, r2}
  ConnCanvas <- AloneCanvas
  ConnUser <- AloneUser
  Archivable = {}
  Readers = {}
  MaxCommits = 3
  ChanCap = 3
  MaxRestarts = 0
INVARIANT Converges
