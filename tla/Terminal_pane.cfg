\* One pane that connects up to twice, one failure.
CONSTANTS
  MaxSessions = 2
  MaxFailures = 1
SPECIFICATION TerminalFairSpec
INVARIANTS
  ShellsAreWatched
PROPERTIES
  SessionsEnd
  EndIsShown
CHECK_DEADLOCK FALSE
