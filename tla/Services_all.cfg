SPECIFICATION ServicesSpec
CONSTANTS
  MaxCalls = 3
  Critical = {"PIPELINE_STALL"}
  HourBudget = 0
  Hour = 1
  BreachWindow = 1
  BreachCount = 2
  Cooldown = 1
  ListCap = 1
  FlushBatch = 2
  MaxTime = 2
  MaxAlerts = 1
  MaxMeterFaults = 2
  MaxStops = 1
  QueueMax = 3
  ActivityBatch = 2
  MaxEvents = 6
  MaxActivityFaults = 1
  Requests = {1, 2}
  Workers = {"w1", "w2"}
  Address <- AddressValue
  Member = {}
  NoRequest = 0
  MaxProvisionFaults = 2
  Users = {"a", "b", "c"}
  Roles = {"admin", "external"}
  FirstAdmins = {"a", "b"}
  Invited = {"c"}
  Sessions = {"s1", "s2"}
  Readers = {"r1"}
  NoOne = "-"
  MaxChanges = 2
  MaxAccountFaults = 1
  Tables <- TablesValue
  Admins = {1, 2}
  MaxRows = 1
  MaxVersions = 2
  MaxResetFaults = 1
  Docs = {1, 2, 3}
  Old = {3}
  Content <- ContentValue
  Links <- LinksValue
  Unstorable = {1}
  Runs = {"retry", "backfill", "restructure", "recover"}
  MaxRuns = 2
  MaxTranscriptFaults = 1
  Companies = {"n", "f"}
  Established = {}
  Failing = {"f"}
  NoCompany = "-"
  RetryDays = 0
  SweepBatch = 2
  MaxManualSyncs = 1
  MaxSyncFaults = 1
INVARIANTS
  RecordsKept
  NobodyForgotten
  StaleExplained
  ArchiveComplete
PROPERTIES
  LastAdminRace
  QueuesServed
CHECK_DEADLOCK FALSE
