\* The listener with a history shorter than what is sent, and the launcher
\* with signals at any moment.
CONSTANTS
  HistoryMax = 2
  Printings <- SomePrintings
  MaxNotifications = 3
  MaxDeaths = 2
  MaxSignals = 2
SPECIFICATION DaemonsSpec
INVARIANTS HistoryTrue
PROPERTIES Heard HoldStops
CHECK_DEADLOCK FALSE
