\* A thread may enter its critical section a tick after reading the clock.
CONSTANTS
  Keys = {k1, k2}
  NoKey = NoKey
  Threads = {t1, t2}
  Max = 2
  Window = 4
  Second = 2
  GcLimit = 1
  Delay = 1
  MaxClock = 6
SPECIFICATION Spec
SYMMETRY Symmetry
INVARIANTS SlidingWindow LiveAttemptsKept
PROPERTIES BanEndsAsTold ImplementsAttemptWindow
CHECK_DEADLOCK FALSE
