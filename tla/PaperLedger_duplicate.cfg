SPECIFICATION Spec
CONSTANTS
  Intents <- PeadIntents
  Symbols = {"A", "B"}
  Reports <- PeadReports
  SueRows <- SurpriseIntents
  Users = {}
  Loops = {"consumer", "scan"}
  Notional <- Unit
  GrossCap = 3
  Drift = 0
  PendingMaxAge = 8
  HoldSessions <- Hold
  Holidays = {}
  Gates = {}
  StartTimes = {9}
  EndTime = 11
  MaxFaults = 0
INVARIANT
  OneLivePosition
CHECK_DEADLOCK FALSE
