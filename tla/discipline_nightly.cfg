SPECIFICATION FairSpec
CONSTANTS
  Vendor = {v1, v2}
  VType = {t1}
  Order = {o1}
  None = None
  PointValues = {1, 51}
  Workers = {p1}
  Ops <- NightOps
  QuarterLength = 2
  SPDuration = 1
  EndDates = {5}
  MaxTime = 3
  MaxLogs = 2
  MaxRequests = 0
INVARIANTS InactiveHasSP3
PROPERTIES OverdueLetterCloses SP3VendorReturns AutoReactivationIsNatural
