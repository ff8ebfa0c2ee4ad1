SPECIFICATION Spec
CONSTANTS
  Intents <- ShortIntents
  Symbols = {"A"}
  Reports <- ShortReports
  SueRows = {}
  Users = {u1}
  Loops = {"consumer", "mtm"}
  Notional <- Unit
  GrossCap = 3
  Drift = 0
  PendingMaxAge = 8
  HoldSessions <- Hold
  Holidays = {}
  Gates = {"rule_gated"}
  StartTimes = {9}
  EndTime = 11
  MaxFaults = 1
INVARIANTS
  TypeOK
  ConsumerConcentration
PROPERTY
  ImplementsLifecycle
CHECK_DEADLOCK FALSE
