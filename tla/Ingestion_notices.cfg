SPECIFICATION Spec
CONSTANTS
  n1 = n1
  p1 = p1
  p2 = p2
  b1 = b1
  b2 = b2
  u1 = u1
  e1 = e1
  e2 = e2
  Sources <- SourceNames
  Items <- ItemNames
  SourceOf <- Origin
  Articles <- Press
  Attached <- Filed
  CompanyOf <- Company
  TextOf <- Text
  GistOf <- Gist
  NoText = NoText
  MarkFirst = {"ET"}
  Unwanted = {u1}
  PageSize <- Rows
  MaxPages <- Cap
  Workers = {w1}
  QueueSize = 1
  Batches <- OnlyNotices
  FaultKinds = {}
  MaxFaults = 0
INVARIANT
  DistinctFilingsKept
CHECK_DEADLOCK FALSE
