\* A sign-in saves its copy of the list after a deletion.
CONSTANTS
  Threads = {t1, t2}
  Creds = {c1}
  NoCred = NoCred
  Tokens = {x1, x2}
  MaxPasskeys = 2
  MaxUses = 2
  MaxCrashes = 0
SPECIFICATION Spec
INVARIANTS DeletedStaysOut
CHECK_DEADLOCK FALSE
