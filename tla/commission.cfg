SPECIFICATION FairSpec
CONSTANTS
  i1 = i1
  i2 = i2
  o1 = o1
  c1 = c1
  c2 = c2
  Incentives = {i1, i2}
  OrderOf <- OneOrder
  Claims = {c1, c2}
  Workers = {1, 2}
  Amounts = {1, 2}
  MaxEvents = 4
INVARIANTS
  TypeOK
  ClaimSums
PROPERTIES
  PaidOnce
  EndedIsPutUp
CHECK_DEADLOCK FALSE
