SPECIFICATION FairSpec
CONSTANTS
  q1 = q1
  q2 = q2
  o1 = o1
  Quotes = {q1, q2}
  OrderOf <- OneOrder
  Workers = {1, 2}
  Numbers = {"r1"}
  Asked = {"QUOTEOUT"}
  Updates <- SomeUpdates
  Ops <- SomeOps
  MaxEvents = 4
PROPERTIES
  OverdueCloses
INVARIANTS
  TypeOK
  ToldWhenOut
  OrderFollows
  PaymentEarnsOnce
  ReceiptsDiffer
PROPERTIES
  LastIncentiveStays
CHECK_DEADLOCK FALSE
