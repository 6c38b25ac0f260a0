\* The sign-in of one browser and the session of another.
SPECIFICATION Spec
CONSTANTS
  Browsers = {b1, b2}
  Requests = {r1, r2}
  Nobody = Nobody
  NoCookie = NoCookie
  TTL = 1
  Remember = 2
  SignIns = {"login", "remember", "passkey"}
  Restarts = FALSE
  MaxClock = 4
SYMMETRY Symmetry
PROPERTIES
  LifetimePerSession
CHECK_DEADLOCK FALSE
