\* A desktop task of two steps, two runs, LangGraph's limit of 25 nodes a run.
CONSTANTS
  Environment = "desktop"
  HasSite = FALSE
  Risky = TRUE
  Steps = 2
  DesktopSteps = {1, 2}
  StepEnv <- MCStepEnv
  NavigateFirst = FALSE
  EnableRecovery = TRUE
  VerifyRetries = 3
  RecoveryRetries = 6
  LlmLimit = 15
  RecursionLimit = 25
  LlmCap = 16
  MaxRuns = 2
SPECIFICATION FairSpec
PROPERTY Terminates
CHECK_DEADLOCK FALSE
