SPECIFICATION FairSpec
CONSTANTS
  Rows <- OrderAndRefund
  Templates = {1, 2, 3, 4, 5}
  TypeOf <- TypesInOrder
  Seeded = {1, 2, 3, 4}
  Trigger = "due"
  Statuses = {"open", "due"}
  Start <- OrderIsDue
  HasEmail = {1}
  Batch = 1
  Ticks = {1, 2}
  Processors = {1, 2}
  MaxMoves = 1
  MaxExtras = 1
INVARIANTS
  TypeOK
  LoggedWasSent
PROPERTIES
  SentOnce
  DueIsTakenUp
CHECK_DEADLOCK FALSE
