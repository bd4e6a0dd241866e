SPECIFICATION Spec
CONSTANTS
  Orders = {o1}
  Workers = {p1, p2}
  Receipts = {}
  Requested = {"PICKLIST", "SURVEYREQ", "COMPLAINTAPPROVEDBYHO"}
  LastCategory = "WORKSTART"
  MaxRequests = 4
  MaxRows = 1
  Ops <- FlowOps
SYMMETRY Symmetric
INVARIANT TypeOK
INVARIANT StatusLogged
INVARIANT WorkOrderLogged
