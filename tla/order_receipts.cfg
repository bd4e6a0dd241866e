SPECIFICATION FairSpec
CONSTANTS
  Orders = {o1, o2}
  Workers = {p1}
  Receipts = {r1}
  Requested = {"BOOK", "CANCEL"}
  LastCategory = "WORKSTART"
  MaxRequests = 4
  MaxRows = 1
  Ops <- ReceiptOps

INVARIANT SharedReceiptWasCancelled
PROPERTY BookingEnds
