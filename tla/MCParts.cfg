CONSTANTS
  TuiSessions = {1, 2, 3}
  Views <- MCViews
  MaxQuery = 2
  MaxKeys = 3
  MaxNews = 2
  MaxCount = 20
  MaxWord = 4
  Dirs = {"a", "b"}
  MaxVersion = 2
  MaxReads = 3
  MaxTurns = 2
  MaxCalls = 2
  MaxSides = 2
  MaxLost = 1
  MaxWire = 1
  MaxRequests = 2
  MaxReports = 3
  MaxRecords = 2
  TailRecords = 2
  NoFigure = NoFigure
  ScanPids = 4
  ScanExits = 1
  SetupRuns = 3
  SetupEdits = 2
  SetupFails = 2
  SkillRuns = 4
  WorkspaceRuns = 2
  WorkspaceUpsets = 3
  SpawnFails = 1
  SpawnGone = 1
  MaxOptions = 3
  SendFails = 2
  SendChanges = 3
SPECIFICATION Spec
INVARIANTS
  WordsMeanWhatTheySay
  ScreenTrue
  StatusTrue
  FiguresTrue
  OneRowPerAgent
  SettingsSound
  TmuxLeftInOrder
PROPERTIES
  FilterKeepsPlace
  RunsLoseNothing
  CommandsKeepWord
CHECK_DEADLOCK FALSE
