\* Two requests at a time on the processes of one app.
CONSTANTS
  Pids = {p1, p2}
  NoPid = NoPid
  Threads = {t1, t2}
  Ops = {"status", "toggle", "close", "pause", "kill"}
  TTL = 1
  ScanTime = 1
  MaxClock = 4
SPECIFICATION Spec
SYMMETRY Symmetry
VIEW View
INVARIANTS KillIsSeen SettledIsSeen
PROPERTIES ResumeResumesAll
CHECK_DEADLOCK FALSE
