\* The login card should be silent: initApp resumes on it.
CONSTANTS
  Checks = {c1}
  Polls = {p1}
  Events = {e1}
  Sources = {s1, s2}
  NoSource = NoSource
  MaxStarting = 2
  MaxDue = 2
SPECIFICATION Spec
INVARIANTS NothingPollsOnLogin
