\* Three runs for two tasks and a session, or two that share a key with a cancellation, a failing call and a death of the browser; one closer, two contexts.
CONSTANTS
  t2 = t2
  Runs = {r1, r2, r3}
  Closers = {w1}
  Tasks = {t1, t2}
  Sessions = {s1}
  Contexts = {c1, c2, c3, c4}
  NULL = NULL
  MaxContexts = 2
  OneRunPerKey = FALSE
  MaxGets = 2
  MaxCancels = 1
  MaxFailures = 1
  MaxCrashes = 1
SPECIFICATION SafetySpec
SYMMETRY RunSymmetry
INVARIANTS OneOwner IsolationApart PlacesAddUp EndedOwnsNothing
PROPERTY ContextsStayUsable
CHECK_DEADLOCK FALSE
