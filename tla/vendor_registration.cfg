SPECIFICATION FairSpec
CONSTANTS
  p1 = p1
  p2 = p2
  r1 = r1
  r2 = r2
  a1 = a1
  Regs = {r1, r2}
  Applicants = {a1}
  Workers = {p1, p2}
  Via = {"approve"}
  Batch = 1
  MaxRequests = 7
INVARIANTS
  TypeOK
  HistoryEnds
  AccountsApproved
  CredentialsMailed
  NoAnonymousVendor
PROPERTIES
  RejectedRowIsCleared
CHECK_DEADLOCK FALSE
