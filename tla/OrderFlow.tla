------------------------------ MODULE OrderFlow ------------------------------
(***************************************************************************)
(* The status of an order and everything that writes it: the order service, *)
(* the work order service, reschedules, refunds, complaints and the two     *)
(* midnight jobs of order.service.ts.  Every service may write any status   *)
(* over any other; the only account of what happened is order_histories.    *)
(*                                                                         *)
(* A worker is one request being handled.  Each of its steps is what the    *)
(* code does between two awaits (one query or one $transaction), so the     *)
(* steps of several workers and of the jobs interleave.  Handlers that are  *)
(* cut short by an error in the middle end where the code throws; a crash   *)
(* of the process and a failing notification are not modelled.             *)
(*                                                                         *)
(* Abstracted: prices, details, files, evidences, tukang, dates and texts;  *)
(* a date matters only as an order being more than three days old.          *)
(***************************************************************************)
EXTENDS Naturals, Sequences, FiniteSets

CONSTANTS Orders,        \* ids the orders table may give out
          Workers,       \* requests handled at the same time
          Receipts,      \* receipt numbers
          Requested,     \* statuses a client may name in a request
          LastCategory,  \* the alphabetically last category of the status table
          MaxRequests,   \* bound: requests started in a behaviour
          MaxRows,       \* bound: reschedules, and complaints
          Ops            \* the operations of this instance

Surveying == {"SURVEYREQ", "SURVEYSTART", "SURVEYEND"}
Working   == {"WORKREQ", "WORKSTART", "WORKEND"}
Canceled  == {"CANCEL", "CANCELREFUND"}
Rescheduling == {"RESCHEDULE", "RESCHEDULEAPPROVEDBYVENDOR",
                 "RESCHEDULEREJECTEDBYVENDOR", "RESCHEDULEAPPROVEDBYHO",
                 "RESCHEDULEBYVENDOR"}
(* The last order status before a reschedule that sends the tukang back.    *)
BeforeWork == {"WORKREQ", "WORKSTART", "TUKANGWORKSTEPONE",
               "TUKANGWORKSTEPTWO", "TUKANGWORKSTEPTHREE"}

Status == Surveying \cup Working \cup Canceled \cup Rescheduling
          \cup BeforeWork
          \cup {"BOOK", "BOOKED", "UNPAID", "PICKLIST", "PAID", "DONE",
                "TUKANGSURVEY", "SURVEYDONE", "TUKANGWORK", "RETUKANGSURVEY",
                "RETUKANGWORK", "REFUND", "COMPLAINT", "COMPLAINTAPPROVEDBYHO",
                "COMPLAINTREJECTEDBYHO", "RESURVEYREQ", "REWORKREQ"}

None == "none"

ASSUME RequestedAssumption == Requested \subseteq Status
ASSUME LastCategoryAssumption == LastCategory \in Status
ASSUME NoneAssumption == None \notin Receipts
ASSUME BoundAssumption == MaxRequests \in Nat /\ MaxRows \in Nat

VARIABLES
  orders,      \* order -> Absent, Deleted, or the row of orders
  history,     \* order -> statuses of its rows of order_histories, oldest first
  work,        \* order -> Absent or its row of work_orders
  reschedules, \* the rows of reschedule, by id
  complaints,  \* the rows of complaints, by id
  refunded,    \* orders some row of refund names
  jobs,        \* midnight job -> ids it has read and not yet written
  w,           \* worker -> the request it handles
  requests,    \* requests started so far
  erased       \* history variable: orders a row of whose history was deleted

vars == <<orders, history, work, reschedules, complaints, refunded, jobs, w,
          requests, erased>>

Absent == [at |-> "absent"]
Deleted == [at |-> "deleted"]

OrderRow == [at : {"row"}, status : Status, receipt : Receipts \cup {None},
             vendor : BOOLEAN, public : BOOLEAN, removed : BOOLEAN,
             old : BOOLEAN]
(* first is the status of the oldest row of work_order_status; brought is a *)
(* history variable: the status was reached under another order.            *)
WorkRow == [at : {"row"}, status : Status, first : Status, brought : BOOLEAN]
LinkRow == [o : Orders, status : Status]

Jobs == {"unpaid", "picklist"}

Steps == {"idle", "order.create", "order.find", "order.update", "status",
          "work.create", "work.set", "work.reread", "work.update",
          "work.retukang",
          "reschedule.create", "reschedule.update", "refund.create",
          "complaint.create", "complaint.update", "complaint.work"}

(* What a request remembers between two awaits: its step and order, the     *)
(* status to set, the status of the row it updates (or None), the id of     *)
(* that row, receipt and vendor of its payload, the order to hand a work    *)
(* order to, how many calls of setStatus have yet to look the order up, to  *)
(* write it and to add a history row, and what follows them.                *)
Request == [at : Steps, o : Orders \cup {None}, s : Status \cup {None},
            row : Status \cup {None}, id : Nat,
            receipt : Receipts \cup {None}, vendor : BOOLEAN,
            to : Orders \cup {None}, finds : 0..2, writes : 0..2, logs : 0..2,
            then : {"idle", "work.create", "work.retukang"}]

Idle == [at |-> "idle", o |-> None, s |-> None, row |-> None, id |-> 0,
         receipt |-> None, vendor |-> FALSE, to |-> None, finds |-> 0,
         writes |-> 0, logs |-> 0, then |-> "idle"]

TypeOK ==
  /\ orders \in [Orders -> OrderRow \cup {Absent, Deleted}]
  /\ history \in [Orders -> Seq(Status)]
  /\ work \in [Orders -> WorkRow \cup {Absent}]
  /\ reschedules \in Seq(LinkRow)
  /\ complaints \in Seq(LinkRow)
  /\ refunded \subseteq Orders
  /\ jobs \in [Jobs -> SUBSET Orders]
  /\ w \in [Workers -> Request]
  /\ requests \in 0..MaxRequests
  /\ erased \subseteq Orders

-----------------------------------------------------------------------------
Exists(o) == orders[o].at = "row"

Logged(o, s) == \E i \in DOMAIN history[o] : history[o][i] = s

(* Mutant: orders the midnight job has given up no longer hold a receipt.   *)
Taken_SkipsUnpaid(r, except) ==
  \E o \in Orders \ except :
    /\ Exists(o)
    /\ orders[o].receipt = r
    /\ orders[o].status \notin Canceled \cup {"UNPAID"}

(* findFirst on receipt_number, except among cancelled orders.              *)
Taken(r, except) ==
  \E o \in Orders \ except : /\ Exists(o)
                             /\ orders[o].receipt = r
                             /\ orders[o].status \notin Canceled

(* The newest row of the order's history with a status of the set, or None. *)
Newest(o, statuses) ==
  LET hits == {i \in DOMAIN history[o] : history[o][i] \in statuses}
      last == {i \in hits : \A j \in hits : j <= i}
  IN  IF last = {} THEN None ELSE history[o][CHOOSE i \in last : TRUE]

(* Rows that keep an order from being deleted by their foreign key.         *)
Linked(o) ==
  \/ work[o] # Absent
  \/ o \in refunded
  \/ \E i \in DOMAIN reschedules : reschedules[i].o = o
  \/ \E i \in DOMAIN complaints : complaints[i].o = o

(* A worker takes a request up; its first step is the first query.          *)
Begin(p, op) ==
  /\ op \in Ops
  /\ w[p].at = "idle"
  /\ requests < MaxRequests
  /\ requests' = requests + 1

Continue(p, r) == w' = [w EXCEPT ![p] = r]
Finish(p) == Continue(p, Idle)

(* Call orderService.setStatus with s n times, then go on.                  *)
Setting(o, s, n, then) ==
  [Idle EXCEPT !.at = "status", !.o = o, !.s = s, !.finds = n, !.then = then]

-----------------------------------------------------------------------------
(* orderService.setStatus: findOne, then the order's status, then the       *)
(* history row.  findOne throws for a removed order; of two calls at once   *)
(* the other still goes on.                                                 *)
FindOrder(p) ==
  /\ w[p].at = "status"
  /\ w[p].finds > 0
  /\ IF Exists(w[p].o) /\ ~orders[w[p].o].removed
     THEN Continue(p, [w[p] EXCEPT !.finds = @ - 1, !.writes = @ + 1])
     ELSE IF w[p].finds + w[p].writes + w[p].logs = 1 THEN Finish(p)
     ELSE Continue(p, [w[p] EXCEPT !.finds = @ - 1])
  /\ UNCHANGED <<orders, history, work, reschedules, complaints, refunded, jobs,
                 requests, erased>>

(* The update goes by id: it no longer looks whether the order is removed.  *)
SetStatus(p) ==
  /\ w[p].at = "status"
  /\ w[p].writes > 0
  /\ LET o == w[p].o IN
     IF Exists(o)
     THEN /\ orders' = [orders EXCEPT ![o].status = w[p].s]
          /\ Continue(p, [w[p] EXCEPT !.writes = @ - 1, !.logs = @ + 1])
     ELSE UNCHANGED orders /\ Finish(p)
  /\ UNCHANGED <<history, work, reschedules, complaints, refunded, jobs,
                 requests, erased>>

AddHistory(p) ==
  /\ w[p].at = "status"
  /\ w[p].logs > 0
  /\ LET o == w[p].o IN
     IF Exists(o)
     THEN /\ history' = [history EXCEPT ![o] = Append(@, w[p].s)]
          /\ Continue(p, IF w[p].finds = 0 /\ w[p].writes = 0 /\ w[p].logs = 1
                         THEN [w[p] EXCEPT !.logs = 0, !.at = w[p].then]
                         ELSE [w[p] EXCEPT !.logs = @ - 1])
     ELSE UNCHANGED history /\ Finish(p)
  /\ UNCHANGED <<orders, work, reschedules, complaints, refunded, jobs,
                 requests, erased>>

(* POST /order/:id/set-status/:status_id: any status over any other.        *)
StatusRequest(p, o, s) ==
  /\ Begin(p, "status")
  /\ orders[o] # Absent
  /\ Continue(p, Setting(o, s, 1, "idle"))
  /\ UNCHANGED <<orders, history, work, reschedules, complaints, refunded,
                 jobs, erased>>

-----------------------------------------------------------------------------
(* Orders *)

NewRow(s, r, vendor, public) ==
  [at |-> "row", status |-> s, receipt |-> r, vendor |-> vendor,
   public |-> public, removed |-> FALSE, old |-> FALSE]

(* Bound: a request creates an order only while ids are left.               *)
Free == {o \in Orders : orders[o] = Absent}
Creating == {p \in Workers : w[p].at = "order.create"}

CreateCheck(p, s, r, vendor) ==
  /\ Begin(p, "create")
  /\ Cardinality(Creating) < Cardinality(Free)
  /\ r = None \/ ~Taken(r, {})
  /\ Continue(p, [Idle EXCEPT !.at = "order.create", !.s = s, !.receipt = r,
                              !.vendor = vendor])
  /\ UNCHANGED <<orders, history, work, reschedules, complaints, refunded,
                 jobs, erased>>

(* The row gets an id nobody had; its history row is a later step.          *)
CreateWrite(p, o) ==
  /\ w[p].at = "order.create"
  /\ o \in Free
  /\ orders' = [orders EXCEPT ![o] = NewRow(w[p].s, w[p].receipt,
                                                w[p].vendor, FALSE)]
  /\ Continue(p, [Setting(o, w[p].s, 0, "idle") EXCEPT !.logs = 1])
  /\ UNCHANGED <<history, work, reschedules, complaints, refunded, jobs,
                 requests, erased>>

(* The public endpoint checks no receipt and adds no history row.           *)
CreatePublic(p, o, r) ==
  /\ Begin(p, "public")
  /\ o \in Free
  /\ Cardinality(Creating) < Cardinality(Free)
  /\ orders' = [orders EXCEPT ![o] = NewRow("BOOKED", r, FALSE, TRUE)]
  /\ UNCHANGED <<history, work, reschedules, complaints, refunded, jobs, w,
                 erased>>

(* POST /order/:id; None in a field leaves it as it is.                    *)
UpdateCheck(p, o, s, r, vendor) ==
  /\ Begin(p, "update")
  /\ r = None \/ ~Taken(r, {o})
  /\ Continue(p, [Idle EXCEPT !.at = "order.find", !.o = o, !.s = s,
                              !.receipt = r, !.vendor = vendor])
  /\ UNCHANGED <<orders, history, work, reschedules, complaints, refunded,
                 jobs, erased>>

UpdateFind(p) ==
  /\ w[p].at = "order.find"
  /\ IF Exists(w[p].o) /\ ~orders[w[p].o].removed
     THEN Continue(p, [w[p] EXCEPT !.at = "order.update"])
     ELSE Finish(p)
  /\ UNCHANGED <<orders, history, work, reschedules, complaints, refunded,
                 jobs, requests, erased>>

(* Mutants: the history row carries the status read before the update; a    *)
(* missing project_status_id is written to the row.                         *)
UpdateWrite_LogsOldStatus(p) ==
  /\ w[p].at = "order.update"
  /\ LET o == w[p].o
         s == IF w[p].s = None THEN orders[o].status ELSE w[p].s
     IN  IF Exists(o)
         THEN /\ orders' = [orders EXCEPT ![o].status = s,
                                          ![o].vendor = @ \/ w[p].vendor]
              /\ Continue(p, [Setting(o, orders[o].status, 0, "idle")
                               EXCEPT !.logs = 1])
         ELSE UNCHANGED orders /\ Finish(p)
  /\ UNCHANGED <<history, work, reschedules, complaints, refunded, jobs,
                 requests, erased>>

UpdateWrite_KeepsNothing(p) ==
  /\ w[p].at = "order.update"
  /\ LET o == w[p].o IN
     IF Exists(o)
     THEN /\ orders' = [orders EXCEPT ![o].status = w[p].s,
                                      ![o].vendor = @ \/ w[p].vendor]
          /\ Continue(p, [Setting(o, w[p].s, 0, "idle") EXCEPT !.logs = 1])
     ELSE UNCHANGED orders /\ Finish(p)
  /\ UNCHANGED <<history, work, reschedules, complaints, refunded, jobs,
                 requests, erased>>

(* The history row carries the status the row has after the update.         *)
UpdateWrite(p) ==
  /\ w[p].at = "order.update"
  /\ LET o == w[p].o
         s == IF w[p].s = None THEN orders[o].status ELSE w[p].s
     IN  IF Exists(o)
         THEN /\ orders' = [orders EXCEPT
                   ![o].status = s,
                   ![o].receipt = IF w[p].receipt = None THEN @
                                  ELSE w[p].receipt,
                   ![o].vendor = @ \/ w[p].vendor]
              /\ Continue(p, [Setting(o, s, 0, "idle") EXCEPT !.logs = 1])
         ELSE UNCHANGED orders /\ Finish(p)
  /\ UNCHANGED <<history, work, reschedules, complaints, refunded, jobs,
                 requests, erased>>

Remove(p, o) ==
  /\ Begin(p, "remove")
  /\ Exists(o)
  /\ orders' = [orders EXCEPT ![o].removed = TRUE]
  /\ UNCHANGED <<history, work, reschedules, complaints, refunded, jobs, w,
                 erased>>

(* POST /order/history/:id: the row is deleted for good.                    *)
DeleteHistory(p, o, i) ==
  /\ Begin(p, "history")
  /\ i \in DOMAIN history[o]
  /\ history' = [history EXCEPT ![o] =
                   SubSeq(@, 1, i - 1) \o SubSeq(@, i + 1, Len(@))]
  /\ erased' = erased \cup {o}
  /\ UNCHANGED <<orders, work, reschedules, complaints, refunded, jobs, w>>

-----------------------------------------------------------------------------
(* Work orders.  Each writes the work order and the order in two            *)
(* transactions, in this order or the other.                                *)

(* Mutant: the work order is created and the order left where it was.       *)
WorkCreate_KeepsOrder(p, o, s) ==
  /\ Begin(p, "work.create")
  /\ Exists(o)
  /\ ~orders[o].removed
  /\ orders[o].vendor
  /\ Continue(p, [Setting(o, s, 0, "idle") EXCEPT !.at = "work.create"])
  /\ UNCHANGED <<orders, history, work, reschedules, complaints, refunded,
                 jobs, erased>>

(* The order gets the status first; the work order is created afterwards    *)
(* and fails when the order has one already (order_id is unique).           *)
WorkCreate(p, o, s) ==
  /\ Begin(p, "work.create")
  /\ Exists(o)
  /\ ~orders[o].removed
  /\ orders[o].vendor
  /\ Continue(p, Setting(o, s, 1, "work.create"))
  /\ UNCHANGED <<orders, history, work, reschedules, complaints, refunded,
                 jobs, erased>>

WorkCreateWrite(p) ==
  /\ w[p].at = "work.create"
  /\ LET o == w[p].o
         s == w[p].s
     IN  work' = IF Exists(o) /\ work[o] = Absent
                 THEN [work EXCEPT ![o] = [at |-> "row", status |-> s,
                                           first |-> s, brought |-> FALSE]]
                 ELSE work
  /\ Finish(p)
  /\ UNCHANGED <<orders, history, reschedules, complaints, refunded, jobs,
                 requests, erased>>

(* A handler that has found the work order of o; to is the order its body   *)
(* names, None when it names none.                                          *)
WorkRead(p, op, step, o, s, row, to) ==
  /\ Begin(p, op)
  /\ work[o] # Absent
  /\ Continue(p, [Idle EXCEPT !.at = step, !.o = o, !.s = s, !.row = row,
                              !.to = to])
  /\ UNCHANGED <<orders, history, work, reschedules, complaints, refunded,
                 jobs, erased>>

(* setStatusWithMaterials *)
WorkSet(p, o, s) == WorkRead(p, "work.set", "work.set", o, s, s, None)

(* update moves the work order only from SURVEYSTART (status 6 of the seed) *)
(* to SURVEYDONE (status 7), and looks for the former in its oldest row.    *)
WorkUpdate(p, o, s, to) ==
  WorkRead(p, "work.update", "work.update", o, s,
           IF s = "SURVEYDONE" /\ work[o] # Absent
              /\ work[o].first = "SURVEYSTART"
           THEN s ELSE None, to)

Moved(row, s) == [row EXCEPT !.status = s, !.brought = FALSE]

(* setStatusWithMaterials writes the work order and then reads it again for *)
(* its order.                                                               *)
WorkWrite(p) ==
  /\ w[p].at = "work.set"
  /\ work' = [work EXCEPT ![w[p].o] = Moved(@, w[p].s)]
  /\ Continue(p, [w[p] EXCEPT !.at = "work.reread"])
  /\ UNCHANGED <<orders, history, reschedules, complaints, refunded, jobs,
                 requests, erased>>

WorkReread(p) ==
  /\ w[p].at = "work.reread"
  /\ Continue(p, Setting(w[p].o, w[p].s, 1, "idle"))
  /\ UNCHANGED <<orders, history, work, reschedules, complaints, refunded,
                 jobs, requests, erased>>

(* update: the work order moves when row names a status; its order follows  *)
(* anyway.                                                                  *)
WorkUpdateWrite(p) ==
  /\ w[p].at = "work.update"
  /\ w[p].to \in {None, w[p].o}
  /\ LET o == w[p].o IN
     /\ work' = IF w[p].row = None THEN work
                ELSE [work EXCEPT ![o] = Moved(@, w[p].row)]
     /\ Continue(p, Setting(o, w[p].s, 1, "idle"))
  /\ UNCHANGED <<orders, history, reschedules, complaints, refunded, jobs,
                 requests, erased>>

(* Handlers that write a work order by its id find it under its new order.  *)
Following(o, to, x) ==
  IF x.at \in {"work.set", "work.reread", "work.update"} /\ x.o = o
  THEN [x EXCEPT !.o = to] ELSE x

(* update with another order_id: the work order goes there, status and all, *)
(* unless that order is gone or has one.                                    *)
WorkHandOver(p) ==
  /\ w[p].at = "work.update"
  /\ w[p].to \notin {None, w[p].o}
  /\ LET o  == w[p].o
         to == w[p].to
         row == IF w[p].row = None THEN [work[o] EXCEPT !.brought = TRUE]
                ELSE Moved(work[o], w[p].row)
     IN  IF Exists(to) /\ work[to] = Absent
         THEN /\ work' = [work EXCEPT ![o] = Absent, ![to] = row]
              /\ w' = [q \in Workers |->
                         IF q = p THEN Setting(to, w[p].s, 1, "idle")
                         ELSE Following(o, to, w[q])]
         ELSE UNCHANGED work /\ Finish(p)
  /\ UNCHANGED <<orders, history, reschedules, complaints, refunded, jobs,
                 requests, erased>>

-----------------------------------------------------------------------------
(* Reschedules *)

(* A handler that has found its order and will add a row that names it.     *)
LinkCheck(p, op, step, o, s) ==
  /\ Begin(p, op)
  /\ Exists(o)
  /\ Continue(p, [Idle EXCEPT !.at = step, !.o = o, !.s = s])
  /\ UNCHANGED <<orders, history, work, reschedules, complaints, refunded,
                 jobs, erased>>

LinkWritten(p, n) ==
  IF Exists(w[p].o) THEN Continue(p, Setting(w[p].o, w[p].s, n, "idle"))
                    ELSE Finish(p)

RescheduleCreate(p, o, s) ==
  /\ Len(reschedules) < MaxRows
  /\ Exists(o) => orders[o].status # "DONE"
  /\ LinkCheck(p, "reschedule", "reschedule.create", o, s)

RescheduleWrite(p) ==
  /\ w[p].at = "reschedule.create"
  /\ reschedules' = IF Exists(w[p].o)
                    THEN Append(reschedules, [o |-> w[p].o, status |-> w[p].s])
                    ELSE reschedules
  /\ LinkWritten(p, 1)
  /\ UNCHANGED <<orders, history, work, complaints, refunded, jobs, requests,
                 erased>>

(* Where the order goes after decision d, given its last status outside the *)
(* reschedule.  && binds tighter than ||: the vendor's approval is asked    *)
(* for in the TUKANG cases only.                                            *)
Retukang(d, last) ==
  LET approved == d = "RESCHEDULEAPPROVEDBYVENDOR" IN
  IF (approved /\ last = "TUKANGSURVEY") \/ last = "SURVEYREQ"
  THEN "RETUKANGSURVEY"
  ELSE IF (approved /\ last = "TUKANGWORK") \/ last \in BeforeWork
  THEN "RETUKANGWORK" ELSE None

(* o is the order the body names, not the one the row names.                *)
RescheduleDecide(p, i, o, s, d) ==
  /\ Begin(p, "reschedule")
  /\ i \in DOMAIN reschedules
  /\ Exists(o)
  /\ orders[o].status # "DONE"
  /\ Continue(p, [Idle EXCEPT
       !.at = "reschedule.update", !.o = o, !.id = i, !.row = s,
       !.s = Retukang(d, Newest(o, Status \ Rescheduling))])
  /\ UNCHANGED <<orders, history, work, reschedules, complaints, refunded,
                 jobs, erased>>

(* An order without other history makes the handler throw after this step.  *)
RescheduleUpdate(p) ==
  /\ w[p].at = "reschedule.update"
  /\ reschedules' = [reschedules EXCEPT ![w[p].id].status = w[p].row]
  /\ IF w[p].s = None THEN Finish(p)
     ELSE Continue(p, Setting(w[p].o, w[p].s, 1, "work.retukang"))
  /\ UNCHANGED <<orders, history, work, complaints, refunded, jobs, requests,
                 erased>>

(* The work order follows the order.                                        *)
WorkRetukang(p) ==
  /\ w[p].at = "work.retukang"
  /\ work' = IF work[w[p].o] = Absent THEN work
             ELSE [work EXCEPT ![w[p].o] = Moved(@, w[p].s)]
  /\ Finish(p)
  /\ UNCHANGED <<orders, history, reschedules, complaints, refunded, jobs,
                 requests, erased>>

-----------------------------------------------------------------------------
(* Refunds and complaints *)

RefundCreate(p, o, s) == LinkCheck(p, "refund", "refund.create", o, s)

RefundWrite(p) ==
  /\ w[p].at = "refund.create"
  /\ refunded' = IF Exists(w[p].o) THEN refunded \cup {w[p].o} ELSE refunded
  /\ LinkWritten(p, 1)
  /\ UNCHANGED <<orders, history, work, reschedules, complaints, jobs,
                 requests, erased>>

ComplaintCreate(p, o, s) ==
  /\ Len(complaints) < MaxRows
  /\ LinkCheck(p, "complaint", "complaint.create", o, s)

(* create calls setStatus twice, both calls running at the same time.       *)
ComplaintWrite(p) ==
  /\ w[p].at = "complaint.create"
  /\ complaints' = IF Exists(w[p].o)
                   THEN Append(complaints, [o |-> w[p].o, status |-> w[p].s])
                   ELSE complaints
  /\ LinkWritten(p, 2)
  /\ UNCHANGED <<orders, history, work, reschedules, refunded, jobs, requests,
                 erased>>

(* The status a decision s on a complaint gives its order; None for no      *)
(* change.  On a rejection of an order that was never surveyed or worked on *)
(* the id is undefined, the status query has no filter, and its first row   *)
(* in descending order is used.                                             *)
AfterComplaint(s, last, redo) ==
  CASE s = "COMPLAINTAPPROVEDBYHO" /\ last \in Surveying -> "RESURVEYREQ"
    [] s = "COMPLAINTAPPROVEDBYHO" /\ last \in Working -> redo
    [] s = "COMPLAINTREJECTEDBYHO" /\ last = None -> LastCategory
    [] s = "COMPLAINTREJECTEDBYHO" /\ last # None -> last
    [] OTHER -> None

(* to is the order the body names, None when it names none.  The work order *)
(* is asked for by that id, so that an approval without it throws.          *)
ComplaintDecide(p, i, to, s, redo) ==
  /\ Begin(p, "complaint")
  /\ i \in DOMAIN complaints
  /\ LET o == IF to = None THEN complaints[i].o ELSE to IN
     Continue(p, [Idle EXCEPT
       !.at = "complaint.update", !.o = o, !.to = to, !.id = i, !.row = s,
       !.s = IF to = None /\ s = "COMPLAINTAPPROVEDBYHO" THEN None
             ELSE AfterComplaint(s, Newest(o, Surveying \cup Working), redo)])
  /\ UNCHANGED <<orders, history, work, reschedules, complaints, refunded,
                 jobs, erased>>

(* The complaint goes to the order the body names.                          *)
ComplaintUpdate(p) ==
  /\ w[p].at = "complaint.update"
  /\ LET o == IF w[p].to = None THEN complaints[w[p].id].o ELSE w[p].o IN
     /\ complaints' = IF Exists(o)
                      THEN [complaints EXCEPT ![w[p].id] =
                              [o |-> o, status |-> w[p].row]]
                      ELSE complaints
     /\ CASE ~Exists(o) \/ w[p].s = None -> Finish(p)
          [] Exists(o) /\ w[p].s # None /\ w[p].row = "COMPLAINTAPPROVEDBYHO" ->
               Continue(p, [w[p] EXCEPT !.at = "complaint.work"])
          [] OTHER -> Continue(p, Setting(o, w[p].s, 1, "idle"))
  /\ UNCHANGED <<orders, history, work, reschedules, refunded, jobs, requests,
                 erased>>

(* Without a work order the handler throws and the order stays as it is.    *)
ComplaintWork(p) ==
  /\ w[p].at = "complaint.work"
  /\ LET o == w[p].o IN
     IF work[o] = Absent THEN UNCHANGED work /\ Finish(p)
     ELSE /\ work' = [work EXCEPT ![o] = Moved(@, w[p].s)]
          /\ Continue(p, Setting(o, w[p].s, 1, "idle"))
  /\ UNCHANGED <<orders, history, reschedules, complaints, refunded, jobs,
                 requests, erased>>

-----------------------------------------------------------------------------
(* The two jobs of midnight, on one instance of the cluster.  Each reads a  *)
(* list of orders and writes it later, whatever happened to them since.     *)

GrowOld(o) ==
  /\ Exists(o)
  /\ ~orders[o].old
  /\ orders' = [orders EXCEPT ![o].old = TRUE]
  /\ UNCHANGED <<history, work, reschedules, complaints, refunded, jobs, w,
                 requests, erased>>

(* Mutant: checkStatus passes over removed orders.                          *)
JobList_NotRemoved(j) ==
  {o \in Orders : /\ Exists(o)
                  /\ IF j = "unpaid"
                     THEN /\ orders[o].status = "BOOK"
                          /\ orders[o].old /\ ~orders[o].removed
                     ELSE orders[o].status = "PICKLIST"}

JobList(j) ==
  {o \in Orders : /\ Exists(o)
                  /\ IF j = "unpaid"
                     THEN orders[o].status = "BOOK" /\ orders[o].old
                     ELSE orders[o].status = "PICKLIST"}

JobRead(j) ==
  /\ jobs[j] = {}
  /\ jobs' = [jobs EXCEPT ![j] = JobList(j)]
  /\ UNCHANGED <<orders, history, work, reschedules, complaints, refunded, w,
                 requests, erased>>

(* checkStatus: no history row tells of the change.                         *)
JobUnpaid ==
  /\ jobs["unpaid"] # {}
  /\ orders' = [o \in Orders |->
                  IF o \in jobs["unpaid"] /\ Exists(o)
                  THEN [orders[o] EXCEPT !.status = "UNPAID"] ELSE orders[o]]
  /\ jobs' = [jobs EXCEPT !["unpaid"] = {}]
  /\ UNCHANGED <<history, work, reschedules, complaints, refunded, w,
                 requests, erased>>

(* deleteOrder: one transaction over the whole list; one order that another *)
(* table names makes it fail for all of them.                               *)
JobDelete ==
  /\ jobs["picklist"] # {}
  /\ LET gone == IF \E o \in jobs["picklist"] : Linked(o) THEN {}
                 ELSE jobs["picklist"]
     IN  /\ orders' = [o \in Orders |-> IF o \in gone THEN Deleted ELSE orders[o]]
         /\ history' = [o \in Orders |-> IF o \in gone THEN <<>> ELSE history[o]]
  /\ jobs' = [jobs EXCEPT !["picklist"] = {}]
  /\ UNCHANGED <<work, reschedules, complaints, refunded, w, requests, erased>>

-----------------------------------------------------------------------------
OrderRequest(p) ==
  \/ \E s \in Requested, r \in Receipts \cup {None}, v \in BOOLEAN :
       CreateCheck(p, s, r, v)
  \/ \E o \in Orders, r \in Receipts \cup {None} : CreatePublic(p, o, r)
  \/ \E o \in Orders, s \in Requested \cup {None},
        r \in Receipts \cup {None}, v \in BOOLEAN : UpdateCheck(p, o, s, r, v)
  \/ \E o \in Orders : Remove(p, o)
  \/ \E o \in Orders, s \in Requested : StatusRequest(p, o, s)
  \/ \E o \in Orders : \E i \in DOMAIN history[o] : DeleteHistory(p, o, i)

WorkRequest(p) ==
  \E o \in Orders, s \in Requested :
    \/ WorkCreate(p, o, s)
    \/ WorkSet(p, o, s)
    \/ \E to \in (Orders \ {o}) \cup {None} : WorkUpdate(p, o, s, to)

LinkRequest(p) ==
  \/ \E o \in Orders, s \in Requested :
       RescheduleCreate(p, o, s) \/ RefundCreate(p, o, s)
         \/ ComplaintCreate(p, o, s)
  \/ \E i \in DOMAIN reschedules, o \in Orders, s \in Requested, d \in Requested :
       RescheduleDecide(p, i, o, s, d)
  \/ \E i \in DOMAIN complaints, to \in Orders \cup {None}, s \in Requested,
        redo \in Requested \cup {None} : ComplaintDecide(p, i, to, s, redo)

Handle(p) ==
  \/ FindOrder(p) \/ SetStatus(p) \/ AddHistory(p)
  \/ \E o \in Orders : CreateWrite(p, o)
  \/ UpdateFind(p) \/ UpdateWrite(p)
  \/ WorkCreateWrite(p) \/ WorkWrite(p) \/ WorkReread(p)
  \/ WorkUpdateWrite(p) \/ WorkHandOver(p) \/ WorkRetukang(p)
  \/ RescheduleWrite(p) \/ RescheduleUpdate(p)
  \/ RefundWrite(p)
  \/ ComplaintWrite(p) \/ ComplaintUpdate(p) \/ ComplaintWork(p)

Init ==
  /\ orders = [o \in Orders |-> Absent]
  /\ history = [o \in Orders |-> <<>>]
  /\ work = [o \in Orders |-> Absent]
  /\ reschedules = <<>>
  /\ complaints = <<>>
  /\ refunded = {}
  /\ jobs = [j \in Jobs |-> {}]
  /\ w = [p \in Workers |-> Idle]
  /\ requests = 0
  /\ erased = {}

Next ==
  \/ \E p \in Workers : \/ OrderRequest(p) \/ WorkRequest(p)
                        \/ LinkRequest(p) \/ Handle(p)
  \/ \E o \in Orders : GrowOld(o)
  \/ \E j \in Jobs : JobRead(j)
  \/ JobUnpaid
  \/ JobDelete

Spec == Init /\ [][Next]_vars

(* A handler that runs goes on, the jobs run every midnight and days pass.  *)
FairSpec ==
  /\ Spec
  /\ \A p \in Workers : WF_vars(Handle(p))
  /\ \A j \in Jobs : WF_vars(JobRead(j))
  /\ WF_vars(JobUnpaid)
  /\ WF_vars(JobDelete)
  /\ \A o \in Orders : WF_vars(GrowOld(o))

-----------------------------------------------------------------------------
(* Properties *)

(* Written to the order by a handler that will add the history row.         *)
Unlogged(o, s) ==
  \E p \in Workers : /\ w[p].at = "status" /\ w[p].logs > 0
                     /\ w[p].o = o /\ w[p].s = s

Known(o, s) == Logged(o, s) \/ Unlogged(o, s)

(* However requests and jobs interleave, the status of an order whose       *)
(* history nobody erased is accounted for: it has a history row, or the     *)
(* handler that wrote it is about to add one, or the midnight job moved a   *)
(* booking to UNPAID, or the order came through the public endpoint and     *)
(* nothing has happened to it since.                                        *)
StatusLogged ==
  \A o \in Orders \ erased : Exists(o) =>
    \/ Known(o, orders[o].status)
    \/ orders[o].status = "UNPAID" /\ Known(o, "BOOK")
    \/ orders[o].public /\ orders[o].status = "BOOKED" /\ history[o] = <<>>

(* The handler that put the work order of o at s is on its way to o.        *)
Coming(o, s) ==
  \E p \in Workers : /\ w[p].at \in {"status", "work.reread"}
                     /\ w[p].o = o /\ w[p].s = s

(* The work order and its order are written in two transactions, in either  *)
(* order and from five services; still a work order never stands at a       *)
(* status its order has not had, except while the handler that put it there *)
(* is on its way to the order.  Two ways out are in the code: setStatus     *)
(* refuses a removed order after the work order was written, and a work     *)
(* order handed to another order brings its status along.                   *)
WorkOrderLogged ==
  \A o \in Orders \ erased : work[o] # Absent =>
    \/ Logged(o, work[o].status)
    \/ Coming(o, work[o].status)
    \/ orders[o].removed
    \/ work[o].brought

(* The receipt check of create and update, one request at a time: two       *)
(* orders of the staff that are both in force carry the same receipt only   *)
(* when one of them was cancelled before, while the other took the number.  *)
(* The job that writes UNPAID over a cancelled booking is one way there.    *)
SharedReceiptWasCancelled ==
  \A a \in Orders \ erased, b \in Orders \ erased :
    /\ a # b /\ Exists(a) /\ Exists(b)
    /\ ~orders[a].public /\ ~orders[b].public
    /\ orders[a].receipt = orders[b].receipt /\ orders[a].receipt # None
    /\ orders[a].status \notin Canceled /\ orders[b].status \notin Canceled
    => \E s \in Canceled : Known(a, s) \/ Known(b, s)

(* checkStatus: no booking stays one for ever; unless something else        *)
(* happens to it first, it becomes UNPAID after three days.                 *)
BookingEnds ==
  \A o \in Orders : (Exists(o) /\ orders[o].status = "BOOK")
                       ~> ~(Exists(o) /\ orders[o].status = "BOOK")

(* What the comment on the rejection of a complaint says: an order without  *)
(* survey or work history is guarded against.  So a rejection should give   *)
(* an order only a status of its own history.                               *)
RejectionRestores ==
  [][\A p \in Workers :
       /\ w[p].at = "complaint.update"
       /\ w[p].row = "COMPLAINTREJECTEDBYHO"
       /\ w'[p].at = "status"
       => Logged(w[p].o, w'[p].s)]_vars

-----------------------------------------------------------------------------
(* The inductive invariant behind StatusLogged and WorkOrderLogged.         *)

Naming == {"order.create", "status", "work.create", "work.retukang",
           "work.set", "work.reread", "work.update", "reschedule.create",
           "refund.create", "complaint.create", "complaint.work"}

(* What a request carries at each of its steps.                             *)
Sound(r) ==
  /\ r.at \notin {"idle", "order.create"} => r.o \in Orders
  /\ r.at \in Naming => r.s \in Status
  /\ r.at \in {"work.set", "work.update"} => r.row \in {None, r.s}
  /\ r.at \in {"reschedule.update", "complaint.update"} => r.row \in Status
  /\ r.finds + r.writes + r.logs <= 2

RequestsSound == \A p \in Workers : Sound(w[p])

(* Work orders keep their order; ids that were never given out have no      *)
(* history.                                                                 *)
RowsKept ==
  \A o \in Orders : /\ work[o] # Absent => Exists(o)
                    /\ orders[o] = Absent => history[o] = <<>>

(* What a request found at an earlier step is still there.                  *)
StillThere(r) ==
  /\ r.at \in {"work.set", "work.reread", "work.update"} => work[r.o] # Absent
  /\ r.at = "reschedule.update" => r.id \in DOMAIN reschedules
  /\ r.at = "complaint.update" => r.id \in DOMAIN complaints
  /\ r.at = "status" /\ r.logs > 0 => orders[r.o] # Absent

(* A handler that goes on after setStatus has its history row.              *)
RowAdded(r) ==
  r.at \in {"work.create", "work.retukang"} =>
    /\ orders[r.o] # Absent
    /\ Exists(r.o) /\ r.o \notin erased => Logged(r.o, r.s)

(* A booking the midnight job is about to overwrite was logged as one.      *)
ListedWasBooked ==
  \A o \in jobs["unpaid"] :
    /\ orders[o] # Absent
    /\ Exists(o) /\ o \notin erased => Known(o, "BOOK")

(* StatusLogged, and nobody is about to log anything for a public order     *)
(* that is still as it came.                                                *)
Accounted(o) ==
  \/ Known(o, orders[o].status)
  \/ orders[o].status = "UNPAID" /\ Known(o, "BOOK")
  \/ /\ orders[o].public /\ orders[o].status = "BOOKED" /\ history[o] = <<>>
     /\ \A p \in Workers : w[p].at = "status" /\ w[p].o = o => w[p].logs = 0

Consistent ==
  /\ RequestsSound
  /\ RowsKept
  /\ \A p \in Workers : StillThere(w[p]) /\ RowAdded(w[p])
  /\ ListedWasBooked
  /\ \A o \in Orders \ erased : Exists(o) => Accounted(o)
  /\ WorkOrderLogged

=============================================================================
