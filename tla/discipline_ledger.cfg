SPECIFICATION Spec
CONSTANTS
  Vendor = {v1}
  VType = {t1}
  Order = {o1}
  None = None
  PointValues = {1, 51}
  Workers = {p1}
  Ops <- LedgerOps
  QuarterLength = 1
  SPDuration = 3
  EndDates = {5}
  MaxTime = 1
  MaxLogs = 2
  MaxRequests = 2
INVARIANTS TypeOK SP3MeansInactive
PROPERTIES ResetStaysInQuarter
CHECK_DEADLOCK FALSE
