SPECIFICATION FairSpec
CONSTANTS
  c1 = c1
  c2 = c2
  r1 = r1
  r2 = r2
  e1 = e1
  e2 = e2
  cvA = cvA
  cvB = cvB
  u1 = u1
  u2 = u2
  Canvas = {cvA}
  User = {u1}
  Elem = {e1}
  Conn = {c1, c2}
  Req = {r1}
  ConnCanvas <- OneCanvas
  ConnUser <- OneUser
  Archivable = {cvA}
  Readers = {u1}
  MaxCommits = 1
  ChanCap = 1
  MaxRestarts = 1
INVARIANT RoomSound
PROPERTIES Delivered LiveLeaves ArchiveSettles
