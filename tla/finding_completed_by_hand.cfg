SPECIFICATION Spec
CONSTANTS
  Vendor = {v1}
  VType = {t1}
  Order = {o1}
  None = None
  PointValues = {51}
  Workers = {p1}
  Ops = {"detect", "complete", "nightly"}
  QuarterLength = 2
  SPDuration = 2
  EndDates = {5}
  MaxTime = 1
  MaxLogs = 1
  MaxRequests = 0
PROPERTY AutoReactivationIsNatural
CHECK_DEADLOCK FALSE
