\* A risky task that is paused, resumed, approved, unblocked and cancelled by clients that wait; nodes raise.
CONSTANTS
  r1 = r1 r2 = r2 t1 = t1 t2 = t2 h1 = h1 h2 = h2 wd = wd
  Tasks = {t1}
  Risky = {t1}
  Runs = {r1, r2}
  Handlers = {h1, h2}
  Watchdog = wd
  NULL = NULL
  WatchdogStarted = FALSE
  ClientWaits = TRUE
  LateFaults = FALSE
  Restarts = FALSE
  MaxNodes = 3
SPECIFICATION FairSpec
INVARIANTS CancelStops WaitingCanBeDecided
PROPERTIES ImplementsFairLifecycle
CHECK_DEADLOCK FALSE
