\* Two request threads; the components one at a time.
CONSTANTS
  Threads = {t1, t2}
  Start = 1
  MaxClock = 4
  LockTTL = 1
  CallTime = 2
  MaxOrders = 1
  CodeTTL = 1
  HandlerTime = 1
  MaxFrames = 3
  MaxCodes = 4
  POWER_PROFILES <- MCProfiles
  ThemeFiles <- MCThemeFiles
  Example <- MCExample
  THEMES_LIMIT = 2
  WebApps = {a1}
  WindowTTL = 1
  QueryTime = 2
  MaxPending = 1
SPECIFICATION Spec
SYMMETRY Symmetry
INVARIANTS HostTypeOK LockSettled CodeInTime AsPrinted AnswersTrue ThemesWhole WindowsSettled
CHECK_DEADLOCK FALSE
