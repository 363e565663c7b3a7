\* One part at a time: one launcher that is restarted, signalled and loses a service, a pair
\* with one signal each; a task of up to six events whose stream is lost twice.
CONSTANTS
  Provider = "hybrid"
  MaxRetry = 3
  MaxRequests = 2
  Launchers = {"l1", "l2"}
  Single = "l1"
  MaxSignals = 2
  MaxRestarts = 2
  MaxDeaths = 1
  PairSignals = 1
  MaxProgress = 1
  MaxDrops = 2
  MaxSelects = 1
  Parts = {"llm", "retrieve", "menu", "pair", "feed"}
SPECIFICATION ProgressSpec
INVARIANTS PartsTypeOK CallsAreBounded FallbackAsked ShutdownWorks WindowIsTrue
PROPERTIES RefusedKeyIsFinal StaleDiesOut ListedIsShown EverythingEnds
CHECK_DEADLOCK FALSE
