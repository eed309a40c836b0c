SPECIFICATION Spec
CONSTANTS
  d1 = d1
  d2 = d2
  s1 = s1
  s2 = s2
  t1 = t1
  t2 = t2
  r1 = r1
  r2 = r2
  Did = {d1, d2}
  Flow = {s1, s2}
  Token = {t1, t2}
  Req = {r1, r2}
  Pds = Pds
  None = None
  FlowAge = 1
  SessionTtl = 1
  SignInHorizon = 2
  Lookup = {q1, q2}
  CacheTtl = 2
  CacheHorizon = 6
  Identifier = {alice, bob}
  Window = 3
  MaxAttempts = 2
  MaxKeys = 1
  ThrottleHorizon = 6
  Caller = {call1, call2, call3}
  Key = {key1, key2, key3}
  NoKey = NoKey
  Name = {s1, s2}
  Account = {d1, d2}
  Nil = Nil
  MaxMoves = 2
  Text = {s1, s2}
  Spot = {1, 2}
  Agent = {agent}
  Sender = {r1, r2}
  NoTag = NoTag
  NoRow = NoRow
  Person = {d1, d2}
  Board = {canvas1}
  Pass = {t1, t2}
  Blank = Blank
  MaxCalls = 2
SYMMETRY Swap
CHECK_DEADLOCK FALSE
INVARIANTS OneSessionPerFlow SessionsAreVouchedFor YoungFlowsLive SessionsLast
INVARIANTS FlowInv TwoWay CacheInv RevocationTakesHold WindowBound LockedOutOnlyByOwnAttempts KeyInv Agreement
INVARIANTS MentionsFindTheirTag MentionedOnce NoOtherTagIsMissed
INVARIANTS ActsAsShown ListsWhatWasOpened
PROPERTIES RefinesWriteOnce OneRetryIsEnough
