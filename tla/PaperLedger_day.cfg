SPECIFICATION FairSpec
CONSTANTS
  Intents <- DayIntents
  Symbols = {"A"}
  Reports <- DayReports
  SueRows = {}
  Users = {}
  Loops = {"consumer", "preopen", "mtm"}
  Notional <- Unit
  GrossCap = 9
  Drift = 0
  PendingMaxAge = 2
  HoldSessions <- Hold
  Holidays = {}
  Gates = {"zero_qty"}
  StartTimes = {10}
  EndTime = 13
  MaxFaults = 0
INVARIANTS
  AuditComplete
PROPERTIES
  CashShortsFlatten
CHECK_DEADLOCK FALSE
