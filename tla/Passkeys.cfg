\* Two request threads and a crash at any moment.
CONSTANTS
  Threads = {t1, t2}
  Creds = {c1, c2, c3}
  NoCred = NoCred
  Tokens = {x1, x2}
  MaxPasskeys = 2
  MaxUses = 2
  MaxCrashes = 2
SPECIFICATION MCSpec
SYMMETRY Symmetry
INVARIANTS QuotaRespected NeverOvercounted DeletedStaysOutAlone
PROPERTIES AloneImplementsPasskeyStore
CHECK_DEADLOCK FALSE
