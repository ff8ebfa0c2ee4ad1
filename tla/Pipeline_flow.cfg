SPECIFICATION FairSpec
CONSTANTS
  f1 = f1
  a1 = a1
  x1 = x1
  News = {f1, a1, x1}
  Filings = {f1}
  Irrelevant = {x1}
  Inboxes <- Orders
  Slots = 1
  BatchMax = 2
  MaxBells = 1
  NoNews = NoNews
  FaultKinds <- AllFaults
  MaxFaults = 1
INVARIANTS
  SlotsConserved
  Accounted
  OneVerdictPerDelivery
  NewestReport
  AuditTrue
PROPERTIES
  EveryItemLeaves
CHECK_DEADLOCK FALSE
