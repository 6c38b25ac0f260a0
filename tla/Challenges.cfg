SPECIFICATION Spec
CONSTANTS
  Threads = {t1, t2}
  Tokens = {x1, x2, x3}
  NoToken = NoToken
  TTL = 2
  MaxClock = 5
SYMMETRY Symmetry
INVARIANTS
  TypeOK
  SingleUse
  LiveChallengeKept
PROPERTIES
  ReturnedInTime
  ImplementsOneTimeTokens
CHECK_DEADLOCK FALSE
