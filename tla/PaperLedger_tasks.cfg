SPECIFICATION Spec
CONSTANTS
  Intents <- SurpriseIntents
  Symbols = {"A", "B"}
  Reports <- NoReports
  SueRows <- SurpriseIntents
  Users = {}
  Loops = {"scan", "mtm"}
  Notional <- Unit
  GrossCap = 2
  Drift = 0
  PendingMaxAge = 8
  HoldSessions <- Hold
  Holidays = {1}
  Gates = {}
  StartTimes = {8}
  EndTime = 11
  MaxFaults = 0
INVARIANTS
  OvershootBounded
  NoPhantomEntry
CHECK_DEADLOCK FALSE
