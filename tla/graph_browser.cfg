\* A risky task for a site, three steps, two runs, no limit of LangGraph: the bounds of the nodes alone.
CONSTANTS
  Environment = "browser"
  HasSite = TRUE
  Risky = TRUE
  Steps = 3
  DesktopSteps = {}
  StepEnv <- MCStepEnv
  NavigateFirst = TRUE
  EnableRecovery = TRUE
  VerifyRetries = 3
  RecoveryRetries = 6
  LlmLimit = 15
  RecursionLimit = 0
  LlmCap = 30
  MaxRuns = 2
SPECIFICATION FairSpec
INVARIANTS CompletionVerified NothingUnchecked LlmBudget
PROPERTIES BlockedStays Terminates
CHECK_DEADLOCK FALSE
