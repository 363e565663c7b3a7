\* Two runs, a pool of one context, one call that fails while a context is created.
CONSTANTS
  Runs = {r1, r2}
  Closers = {w1}
  Tasks = {t1, t2}
  Sessions = {}
  Contexts = {c1, c2, c3}
  NULL = NULL
  MaxContexts = 1
  OneRunPerKey = TRUE
  MaxGets = 1
  MaxCancels = 0
  MaxFailures = 1
  MaxCrashes = 0
SPECIFICATION FairSpec
PROPERTY FailedCreationRecovers
CHECK_DEADLOCK FALSE
