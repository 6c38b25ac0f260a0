\* Requests of a browser overlap; sign-ins change the lifetime; restarts.
SPECIFICATION Spec
CONSTANTS
  Browsers = {b1, b2}
  Requests = {r1, r2}
  Nobody = Nobody
  NoCookie = NoCookie
  TTL = 1
  Remember = 2
  SignIns = {"login", "remember", "passkey"}
  Restarts = TRUE
  MaxClock = 4
SYMMETRY Symmetry
INVARIANTS
  ActiveStaysIn
  SignedOutStaysOut
CHECK_DEADLOCK FALSE
