\* A task that needs an approval and one that does not, two runs, one request and the watchdog; clients wait; nodes raise, before and after the final row, the process restarts.
CONSTANTS
  r1 = r1 r2 = r2 t1 = t1 t2 = t2 h1 = h1 h2 = h2 wd = wd
  Tasks = {t1, t2}
  Risky = {t1}
  Runs = {r1, r2}
  Handlers = {h1}
  Watchdog = wd
  NULL = NULL
  WatchdogStarted = TRUE
  ClientWaits = TRUE
  LateFaults = TRUE
  Restarts = TRUE
  MaxNodes = 1
SPECIFICATION Spec
SYMMETRY RunSymmetry
INVARIANTS Registered NoUnaskedWork
PROPERTIES CheckpointKept
CHECK_DEADLOCK FALSE
