\* One part at a time.
CONSTANTS
  Parts = {"action", "routing", "ingest", "prompt", "verdict", "click", "goals"}
  Attempts = 3
  MaxChanges = 2
  Nothing = Nothing
  RoutedTasks = {"t1"}
  RankedNames <- RankedModels
  Caps <- CapsOfModels
  RoleModels <- ModelsOfRoles
  StaticModel <- ModelsOfStatic
  Unregistered = {"llama"}
  FirstPulls <- PullsOfUsers
  Fallback = "qwen15"
  OllamaModel = "qwen15"
  Cooldown = 1
  MaxPulls = 1
  MaxRoutes = 2
  \* two files, one edit, one restart
  Files = {"f1", "f2"}
  Contents = {"c1", "c2"}
  Queries = {"q1", "q2"}
  QueryMatches <- MatchingContents
  Workers = {"w1", "w2"}
  Clients = {"k1"}
  CacheSize = 1
  Ttl = 2
  MaxEdits = 1
  MaxRestarts = 1
  \* lengths small enough that targets, shares and limits are met, exceeded and missed by one
  TargetSize = 4
  Overlap = 1
  Minimum = 2
  Budget = 8
  FormatLimit = 7
  Header = 1
  Frame = 2
  Brief = 1
  Lengths = {1, 2, 3, 5}
  MaxParagraphs = 5
  ItemKeys = {"a", "b"}
  ItemSizes = {1, 2, 4}
  MaxItems = 3
  \* a number of open steps that contains the digit 0
  MaxSteps = 10
  \* a window that shows more controls than are observed
  MaxElements = 2
  MaxRounds = 2
  Editors = {"editor", "saveDialog"}
  EditorLayouts <- LayoutsOfEditors
  EditorTitles <- TitlesOfEditors
  MaxEditorMoves = 1
  Settings = {"settings", "settingsHelp"}
  SettingsLayouts <- LayoutsOfSettings
  SettingsTitles <- TitlesOfSettings
  Processes = {"settings"}
  MaxSettingsMoves = 1
  SettingsGoals <- GoalsOfSettings
SPECIFICATION StepsSpec
INVARIANTS PartsTypeOK ActionIsHonest KnownIsStored PromptIsSound DoneHasEvidence ClicksHitTarget
PROPERTIES KnownModelsServe
CHECK_DEADLOCK FALSE
