SPECIFICATION SessionsSpec
CONSTANTS
  Scripts <- RacingScripts
  Overlap = TRUE
  MaxConns = 1
  MaxSessionFaults = 0
INVARIANT NotStuckInRunning
CHECK_DEADLOCK FALSE
