\* Two tasks, with or without a session, and everything users and faults do.
CONSTANTS
  t1 = t1
  t2 = t2
  c1 = c1
  c2 = c2
  s1 = s1
  NULL = NULL
  Tasks = {t1, t2}
  Contexts = {c1, c2}
  Sessions = {s1}
  KeepOpen = TRUE
  Uses = {"approval", "resume", "fallback", "cancel", "error", "close"}
SPECIFICATION Spec
INVARIANTS ContextsApart ResumedFindsItsPage
CHECK_DEADLOCK FALSE
