SPECIFICATION ReportsSpec
CONSTANTS
  Filing = TRUE
  Mentioned <- MentionedValue
  Extractions <- ExtractionsValue
  FundSchemes = {"f"}
  ParaA = TRUE
  Answers <- AnswersValue
  Moves <- MovesValue
  Graph <- GraphValue
  MaxCandidates = 3
  MinWeight = 15
  Neighbours <- NeighboursValue
  TopHop1 = 2
  MinMove = 2
  BigMove = 4
  Deliveries = 2
  Signallable <- SignallableValue
  MaxStageFaults = 1
  Enabled = {"headwind_short", "pead_long", "orderwin_long", "tailwind_long"}
  HeadwindMin = 4
  CacheTicks = 1
  CommentaryMode = "shadow"
  Tradable = {"x"}
  Reports <- ReportsValue
  Scores = {1, 2}
  Findings = {{"guidance_reaffirmed"}}
  MaxReportsRead = 2
  MaxRuleTime = 2
  MaxRuleFaults = 1
  Index <- IndexValue
  Buckets <- BucketsValue
  ScanDays = 2
  SweepBack = 3
  SweepDays = {2}
  Attempts = 2
  RecencyDays = 1
  Deciles = {0, 1, 10}
  MaxDay = 4
  MaxResultFaults = 2
  Trades = {"r", "p"}
  Source <- SourceValue
  Born <- BornValue
  Close <- CloseValue
  Long = {"r"}
  Horizons <- HorizonsValue
  IngestDays = 0
  LastDay = 4
  MaxByHand = 1
  MaxOutcomeFaults = 1
  Stocks = {"a"}
  Readings <- ReadingsValue
  Outages <- OutagesValue
  Evidence <- EvidenceValue
  Routers = {"p"}
  AgentsAsking = {"q"}
  ProfileTicks = 2
  DayTicks = 1
  MaxTicks = 2
  MaxWork = 3
  MaxStateFaults = 1
INVARIANTS
  ReportAccountable
  IntentsAccountable
  QuarterSound
  StateTraceable
PROPERTY
  OutcomesSettle
CHECK_DEADLOCK FALSE
