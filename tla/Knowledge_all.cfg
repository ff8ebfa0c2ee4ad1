SPECIFICATION KnowledgeSpec
CONSTANTS
  Listed = {"a", "b"}
  NightlyCap = 1
  CliSymbols = {"a"}
  Lists = {{"linkages"}}
  Concurrency = 1
  MaxTurns = 2
  MaxNudges = 1
  MaxSaves = 6
  MaxQuarters = 1
  MaxCliRuns = 1
  MaxDossierFaults = 1
  Magnitudes = {2, 3}
  MinMagnitude = 2
  RefreshTicks = 1
  RetentionTicks = 1
  Lags = {0}
  DigestScopes <- ScopesValue
  MaxReports = 2
  MaxAge = 2
  MaxRebuilds = 1
  MaxMemoryFaults = 1
  Calls = {1}
  Statements <- StatementsValue
  MetricOf <- MetricValue
  UnitOf <- UnitValue
  PeriodOf <- PeriodValue
  Figures <- FiguresValue
  MaxClock = 2
  MaxItems = 2
  MaxGuidanceFaults = 1
  MaxManualRuns = 1
  MaxBackfills = 1
  Chats = {"x", "y"}
  Agents = {"z"}
  ChatReplies <- ChatRepliesValue
  AgentReplies <- AgentRepliesValue
  Mentions <- MentionsValue
  TalkTurns = 3
  ToolAttempts = 2
  Budget = 1
  MaxAsks = 3
  MaxTalkFaults = 1
  NseNames = {"n"}
  BseNames = {"b"}
  Submissions <- SubmissionsValue
  CorpActions <- CorpActionsValue
  ReportQuarters = {1, 2}
  Stakeholders = {"x", "y"}
  ActionKeys = {"bonus"}
  QuartersKept = 2
  BackfillQuarters = 1
  MaxHoldingFaults = 1
INVARIANTS
  HoldingsTraced
  TalkSound
  BudgetOvershot
PROPERTIES
  StaleRefreshed
  RecentIndexed
  LedgerConverges
CHECK_DEADLOCK FALSE
