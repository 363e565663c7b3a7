\* Two runs compete for a pool of one context, a closer that frees what is retained.
CONSTANTS
  Runs = {r1, r2}
  Closers = {w1}
  t2 = t2
  Tasks = {t1, t2}
  Sessions = {}
  Contexts = {c1, c2}
  NULL = NULL
  MaxContexts = 1
  OneRunPerKey = TRUE
  MaxGets = 2
  MaxCancels = 0
  MaxFailures = 0
  MaxCrashes = 0
SPECIFICATION LiveSpec
PROPERTY WaiterIsServed
CHECK_DEADLOCK FALSE
