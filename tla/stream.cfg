\* Small queues, buffers and replays; one loss, one restart of Core, one run that is
\* opened; a WebSocket may be refused, and SSE is used.
CONSTANTS
  d1 = d1
  Dashboards = {d1}
  HistorySize = 2
  ReplaySize = 1
  QueueSize = 2
  WsFails = TRUE
  MaxEvents = 3
  MaxLosses = 1
  MaxRestarts = 1
  MaxSelects = 1
SPECIFICATION FairSpec
INVARIANTS NoGap EachEventOnce
PROPERTIES CatchesUp ImplementsFeed
CHECK_DEADLOCK FALSE
