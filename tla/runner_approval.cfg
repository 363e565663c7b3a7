\* A risky task whose clients wait for what they started.
CONSTANTS
  r1 = r1 r2 = r2 t1 = t1 t2 = t2 h1 = h1 h2 = h2 wd = wd
  Tasks = {t1}
  Risky = {t1}
  Runs = {r1}
  Handlers = {h1}
  Watchdog = wd
  NULL = NULL
  WatchdogStarted = FALSE
  ClientWaits = TRUE
  LateFaults = FALSE
  Restarts = FALSE
  MaxNodes = 1
SPECIFICATION Spec
INVARIANTS NoUnapprovedWork
CHECK_DEADLOCK FALSE
