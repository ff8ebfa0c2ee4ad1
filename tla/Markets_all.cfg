SPECIFICATION MarketsSpec
CONSTANTS
  LotValue = 4
  Band = 1
  GrossCap = 14
  MaxShare = 1
  MaxPead = 9
  MaxBookMoves = 3
  MaxHedgeFaults = 2
  Signals = {1, 2}
  Offsets = {1, 3}
  Never <- NeverValue
  MaxTick = 4
  MaxMarkFaults = 1
  MaxMarkCrashes = 1
  Symbols = {"a", "b", "c", "d"}
  Listed <- ListedValue
  Lookalikes = {"d"}
  Master = {"a", "c"}
  Batches <- BatchesValue
  Callers = {1, 2}
  MaxLookups = 2
  Pieces = 2
  MaxRefreshes = 1
  MaxPriceFaults = 1
  Stocks = {"x", "y"}
  Browsers = {1}
  NoStock = "-"
  MaxSockets = 2
  MaxLogins = 3
  MaxFeedFaults = 1
  LlmCallers = {1, 2}
  RpmLimit = 2
  Minute = 2
  MaxWait = 3
  GarbledTries = 2
  SearchTries = 2
  MaxClock = 4
  MaxRequests = 4
  Window = 2
  Baseline = 2
  MinHistory = 2
  ShockCooldown = 3
  MinSamples = 2
  CommitLag = 1
  MaxStep = 2
  MaxTicks = 6
  MaxDisruptions = 1
  MaxEngineFaults = 1
  Companies = {"b"}
  Beta <- BetaValue
  Confidence <- ConfidenceValue
  BullishOnYes = FALSE
  BaseMagnitude = 3
  NoiseFloor = 3
  MinDelta = 1
  HourTtl = 2
  DayTtl = 2
  DedupTtl = 2
  Probabilities = {50, 51, 53}
  MaxPause = 1
  MaxPolls = 3
  MaxFailures = 1
  MaxStarts = 1
  Holidays = {3}
  Names <- NamesValue
  EnoughRows = 100
  EnoughBse = 200
  DailyDays = 2
  ByHandDays = 2
  DealDays = 3
  CommitEvery = 2
  FirstDay = 4
  LastDay = 7
  MaxByHand = 1
  MaxTableFaults = 1
INVARIANTS
  DaysAccounted
  HedgeAfterCycle
  MarkOnTime
  RatesKept
  SignalEarned
PROPERTIES
  HedgeSettles
  AskersServed
CHECK_DEADLOCK FALSE
