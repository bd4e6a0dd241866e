SPECIFICATION Spec
CONSTANTS
  Vendor = {v1, v2}
  VType = {t1}
  Order = {o1}
  None = None
  PointValues = {51}
  Workers = {p1, p2}
  Ops <- ReviewOps
  QuarterLength = 1
  SPDuration = 2
  EndDates = {5}
  MaxTime = 0
  MaxLogs = 2
  MaxRequests = 2
SYMMETRY Symmetric
INVARIANTS CorrectionsReviewed
PROPERTIES ReviewedOnce DetectorLogsOnce
CHECK_DEADLOCK FALSE
