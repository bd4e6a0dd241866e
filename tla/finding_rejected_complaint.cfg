SPECIFICATION Spec
CONSTANTS
  Orders = {o1}
  Workers = {p1}
  Receipts = {}
  Requested = {"BOOK", "COMPLAINTREJECTEDBYHO"}
  LastCategory = "WORKSTART"
  MaxRequests = 3
  MaxRows = 1
  Ops <- ComplaintOps
PROPERTY RejectionRestores
