------------------------------ MODULE Quotation ------------------------------
(***************************************************************************)
(* The life of a quotation, quotation.service.ts: it is drawn up, sent out  *)
(* to the customer with a WhatsApp message and a validity of eight days,    *)
(* paid at once or in three steps under receipt numbers, and closed by the  *)
(* midnight job when nobody pays in time.  A payment earns the sales        *)
(* person an incentive, and every change is passed on to the order.         *)
(*                                                                         *)
(* A worker is one request.  Each await of a handler is a step, so what it  *)
(* read may be out of date when it writes.                                  *)
(*                                                                         *)
(* Abstracted: prices and totals (QuotationPricing), details, files,        *)
(* follow-ups, numbers, lateness violations.  A store's brackets are        *)
(* assumed to cover every total, so a payment always earns something.       *)
(***************************************************************************)
EXTENDS Naturals, FiniteSets, FiniteSetsExt

CONSTANTS Quotes,
          OrderOf,     \* quotation -> its order
          Workers,     \* requests handled at the same time
          Numbers,     \* receipt numbers
          Asked,       \* statuses clients give setStatus
          Updates,     \* quotation -> what clients give update
          Ops,         \* quotation -> kinds of requests in this instance
          MaxEvents    \* bound: requests and failures in a behaviour

Paid  == "QUOTATIONPAID"
Steps == {"QUOTATIONPAIDSTEPONE", "QUOTATIONPAIDSTEPTWO", "QUOTATIONPAIDSTEPTHREE"}
Statuses == {"QUOTEIN", "QUOTEOUT", "CLOSED", Paid} \cup Steps
None  == "none"
Orders == {OrderOf[q] : q \in Quotes}

ASSUME OrderOfAssumption == OrderOf \in [Quotes -> Orders]
ASSUME NoneAssumption == None \notin Numbers /\ None \notin Quotes
ASSUME BoundAssumption == MaxEvents \in Nat

VARIABLES
  quote,      \* quotation -> Absent or its row
  order,      \* order -> the status its quotations gave it
  refunded,   \* orders with a refund
  incentives, \* the rows of sales_incentive
  lastId,     \* the last id given to one of them
  w,          \* worker -> the request it handles
  job,        \* where the midnight job is and what it has yet to close
  events,     \* bound: requests and failures so far
  told,       \* history: quotations whose customer was told they are out
  stepped,    \* history: quotations that were paid in steps
  writer,     \* history: quotation -> who last wrote its status
  odd,        \* history: quotations on which requests overlapped or failed
  raced       \* history: a receipt check was out of date when it was used

vars == <<quote, order, refunded, incentives, lastId, w, job, events,
          told, stepped, writer, odd, raced>>
history == <<told, stepped, writer, odd, raced>>
earned == <<incentives, lastId>>

Absent == [at |-> "absent"]
Row == [at : {"row"}, status : Statuses, validity : {None, "running", "over"},
        receipt : Numbers \cup {None}, receipts : SUBSET Numbers,
        special : BOOLEAN, deleted : BOOLEAN]
Incentive == [id : Nat, quote : Quotes, status : {"POTENTIAL", "LOST"}]

(* What an update may ask for; a status or receipt of None is left out.     *)
Payload == [status : Statuses \cup {None}, receipt : Numbers \cup {None},
            receipts : SUBSET Numbers, special : BOOLEAN]
ASSUME AskedAssumption == Asked \subseteq Statuses /\ Updates \in [Quotes -> SUBSET Payload]
NoPayload == [status |-> None, receipt |-> None, receipts |-> {}, special |-> FALSE]
(* seen and special are what the request read, status what it wrote.        *)
Request == [at : {"idle", "update.check", "update.write", "tell", "earn.read",
                  "earn", "order", "set", "dedup"},
            quote : Quotes \cup {None}, asked : Payload, status : Statuses \cup {None},
            seen : Statuses \cup {None}, special : BOOLEAN,
            ids : SUBSET Nat, kind : {None, "create", "update", "set", "dedup"}]
Idle == [at |-> "idle", quote |-> None, asked |-> NoPayload, status |-> None,
         seen |-> None, special |-> FALSE, ids |-> {}, kind |-> None]

Exists(q) == quote[q].at = "row"
EarnedBy(q) == {i \in incentives : i.quote = q}

TypeOK ==
  /\ quote \in [Quotes -> Row \cup {Absent}]
  /\ order \in [Orders -> Statuses \cup {None}]
  /\ refunded \subseteq Orders
  /\ incentives \subseteq Incentive
  /\ lastId \in Nat
  /\ \A i, j \in incentives : i.id = j.id => i = j
  /\ w \in [Workers -> Request]
  /\ job \in [at : {"idle", "close", "stop", "lose"}, left : SUBSET Quotes]
  /\ events \in 0..MaxEvents
  /\ told \subseteq Quotes /\ stepped \subseteq Quotes /\ odd \subseteq Quotes /\ raced \in BOOLEAN
  /\ writer \in [Quotes -> {None, "create", "update", "set", "job"}]
  /\ \A q \in Quotes : ~Exists(q) => EarnedBy(q) = {} /\ q \notin told

Drawn(special) ==
  [at |-> "row", status |-> "QUOTEIN", validity |-> None, receipt |-> None,
   receipts |-> {}, special |-> special, deleted |-> FALSE]

(* Some quotations have been drawn up before.                               *)
Init ==
  /\ quote \in [Quotes -> {Absent, Drawn(FALSE)}]
  /\ order = [o \in Orders |-> IF \E q \in Quotes : Exists(q) /\ OrderOf[q] = o
                               THEN "QUOTEIN" ELSE None]
  /\ refunded = {}
  /\ incentives = {}
  /\ w = [p \in Workers |-> Idle]
  /\ job = [at |-> "idle", left |-> {}]
  /\ events = 0
  /\ lastId = 0 /\ told = {} /\ stepped = {} /\ odd = {} /\ raced = FALSE
  /\ writer = [q \in Quotes |-> IF Exists(q) THEN "create" ELSE None]

-----------------------------------------------------------------------------
InHand(q) == (\E p \in Workers : w[p].quote = q) \/ q \in job.left

Count == events < MaxEvents /\ events' = events + 1

(* The lowest idle worker takes the next request: they are all the same.    *)
Begin(p, op, q) ==
  /\ op \in Ops[q]
  /\ w[p] = Idle /\ \A r \in Workers : w[r] = Idle => p <= r
  /\ Count
  /\ odd' = IF InHand(q) THEN odd \cup {q} ELSE odd

Continue(p, x) == w' = [w EXCEPT ![p] = x]
Goto(p, step) == Continue(p, [w[p] EXCEPT !.at = step])
Finish(p) == Continue(p, Idle)

(* A status write.  Going out afresh is something the customer has to hear. *)
Put(q, row, by) ==
  /\ quote' = [quote EXCEPT ![q] = row]
  /\ told' = IF row.status = "QUOTEOUT" /\ quote[q].status = "QUOTEOUT"
             THEN told ELSE told \ {q}
  /\ stepped' = IF row.status \in Steps THEN stepped \cup {q} ELSE stepped
  /\ writer' = [writer EXCEPT ![q] = by]

(* create: a new quotation is in.  The notifications of create and update   *)
(* change nothing here; that they fail is in Fail.                          *)
Create(p, q, special) ==
  /\ Begin(p, "create", q)
  /\ quote[q] = Absent
  /\ quote' = [quote EXCEPT ![q] = Drawn(special)]
  /\ writer' = [writer EXCEPT ![q] = "create"]
  /\ Continue(p, [Idle EXCEPT !.at = "order", !.quote = q,
                              !.status = "QUOTEIN", !.kind = "create"])
  /\ UNCHANGED <<order, refunded, earned, job, told, stepped, raced>>

(* update: the row as it is now ...                                         *)
UpdateRead(p, q, x) ==
  /\ Begin(p, "update", q)
  /\ Exists(q)
  /\ Continue(p, [Idle EXCEPT !.at = "update.check", !.quote = q, !.asked = x,
                              !.seen = quote[q].status, !.special = quote[q].special,
                              !.kind = "update"])
  /\ UNCHANGED <<quote, order, refunded, earned, job, told, stepped, writer, raced>>

(* ... then whether another quotation, deleted ones included, has one of    *)
(* the receipt numbers; the single number and the steps' numbers are two    *)
(* columns and not compared with each other.                                *)
(* Mutant: deleted quotations are not asked.                                *)
Taken_Live(q, x) ==
  \E r \in Quotes \ {q} :
    /\ Exists(r) /\ ~quote[r].deleted
    /\ \/ x.receipt # None /\ quote[r].receipt = x.receipt
       \/ quote[r].receipts \cap x.receipts # {}

Taken(q, x) ==
  \E r \in Quotes \ {q} :
    /\ Exists(r)
    /\ \/ x.receipt # None /\ quote[r].receipt = x.receipt
       \/ quote[r].receipts \cap x.receipts # {}

UpdateCheck(p) ==
  /\ w[p].at = "update.check"
  /\ IF Taken(w[p].quote, w[p].asked) THEN Finish(p) ELSE Goto(p, "update.write")
  /\ UNCHANGED <<quote, order, refunded, earned, job, events, history>>

(* ... then the write, one transaction.  A quotation that goes out is valid *)
(* for eight days from now, even if it was out already.  Steps' receipts    *)
(* are kept only if the quotation was special when it was read.             *)
(* Mutant: the status is written even when the payload has none.            *)
Written_StatusAlways(p) == [quote[w[p].quote] EXCEPT !.status = w[p].asked.status]

Written(p) ==
  LET row == quote[w[p].quote]
      x == w[p].asked
  IN  [row EXCEPT
         !.status = IF x.status = None THEN @ ELSE x.status,
         !.validity = IF x.status = "QUOTEOUT" THEN "running" ELSE @,
         !.receipt = IF x.receipt = None THEN @ ELSE x.receipt,
         !.receipts = IF w[p].special THEN @ \cup x.receipts ELSE @,
         !.special = x.special]

(* Mutant: only the first time out is told.                                 *)
GoesOut_FirstTime(p, row) == row.status = "QUOTEOUT" /\ quote[w[p].quote].validity = None
GoesOut(p, row) == row.status = "QUOTEOUT" /\ w[p].seen # "QUOTEOUT"

UpdateWrite(p) ==
  /\ w[p].at = "update.write"
  /\ LET q == w[p].quote
         row == Written(p) IN
     /\ Put(q, row, "update")
     /\ Continue(p, [w[p] EXCEPT !.status = row.status, !.asked = NoPayload,
                                 !.special = FALSE, !.at = IF GoesOut(p, row) THEN "tell" ELSE "earn.read"])
     /\ raced' = (raced \/ Taken(q, w[p].asked))
  /\ UNCHANGED <<order, refunded, earned, job, events, odd>>

(* sendQuotationNotification reads the quotation again and says nothing     *)
(* unless it is still out and not deleted.                                  *)
Tell(p) ==
  /\ w[p].at = "tell"
  /\ LET row == quote[w[p].quote] IN
     told' = IF row.status = "QUOTEOUT" /\ ~row.deleted THEN told \cup {w[p].quote} ELSE told
  /\ IF w[p].kind = "update" THEN Goto(p, "earn.read") ELSE Finish(p)
  /\ UNCHANGED <<quote, order, refunded, earned, job, events, stepped, writer, odd, raced>>

(* A notification that fails, or a restart, ends the request where it is:   *)
(* the row is written and what follows from it not done.                    *)
Fail(p) ==
  /\ w[p].at \in {"tell", "earn.read", "earn", "order"}
  /\ Count
  /\ odd' = odd \cup {w[p].quote}
  /\ Finish(p)
  /\ UNCHANGED <<quote, order, refunded, earned, job, told, stepped, writer, raced>>

(* generateSalesIncentive: a full payment earns once, a step every time the *)
(* quotation is written while it stands at that step.                       *)
(* Mutant: the incentive that is there already is not looked for.           *)
EarnRead_Always(p) ==
  /\ w[p].at = "earn.read"
  /\ Goto(p, IF w[p].status \in {Paid} \cup Steps THEN "earn" ELSE "order")
  /\ UNCHANGED <<quote, order, refunded, earned, job, events, history>>

EarnRead(p) ==
  /\ w[p].at = "earn.read"
  /\ LET s == w[p].status
         earns == s \in Steps \/ (s = Paid /\ EarnedBy(w[p].quote) = {}) IN
     Goto(p, IF earns THEN "earn" ELSE "order")
  /\ UNCHANGED <<quote, order, refunded, earned, job, events, history>>

Earn(p) ==
  /\ w[p].at = "earn"
  /\ lastId' = lastId + 1
  /\ incentives' = incentives \cup
       {[id |-> lastId', quote |-> w[p].quote, status |-> "POTENTIAL"]}
  /\ Goto(p, "order")
  /\ UNCHANGED <<quote, order, refunded, job, events, history>>

(* orderService.setStatus, with the status this request wrote.              *)
(* Mutant: only if this request changed the quotation's status.             *)
SyncOrder_OnChange(p) ==
  /\ w[p].at = "order"
  /\ order' = IF w[p].seen = w[p].status THEN order
              ELSE [order EXCEPT ![OrderOf[w[p].quote]] = w[p].status]
  /\ Finish(p)
  /\ UNCHANGED <<quote, refunded, earned, job, events, history>>

SyncOrder(p) ==
  /\ w[p].at = "order"
  /\ order' = [order EXCEPT ![OrderOf[w[p].quote]] = w[p].status]
  /\ Finish(p)
  /\ UNCHANGED <<quote, refunded, earned, job, events, history>>

(* setStatus: the quotation alone, without a validity.                      *)
SetRead(p, q, s) ==
  /\ Begin(p, "set", q)
  /\ Exists(q)
  /\ Continue(p, [Idle EXCEPT !.at = "set", !.quote = q, !.status = s,
                              !.seen = quote[q].status, !.kind = "set"])
  /\ UNCHANGED <<quote, order, refunded, earned, job, told, stepped, writer, raced>>

SetWrite(p) ==
  /\ w[p].at = "set"
  /\ LET q == w[p].quote
         s == w[p].status IN
     /\ Put(q, [quote[q] EXCEPT !.status = s], "set")
     /\ IF GoesOut(p, quote'[q]) THEN Goto(p, "tell") ELSE Finish(p)
  /\ UNCHANGED <<order, refunded, earned, job, events, odd, raced>>

(* remove                                                                   *)
RemoveQuote(p, q) ==
  /\ Begin(p, "remove", q)
  /\ Exists(q)
  /\ quote' = [quote EXCEPT ![q].deleted = TRUE]
  /\ UNCHANGED <<order, refunded, earned, w, job, told, stepped, writer, raced>>

(* incentiveDuplicate: keep the newest, delete the others by id.            *)
DedupRead(p, q) ==
  /\ Begin(p, "dedup", q)
  /\ Cardinality(EarnedBy(q)) > 1
  /\ Continue(p, [Idle EXCEPT !.at = "dedup", !.quote = q, !.kind = "dedup",
                              !.ids = {i.id : i \in EarnedBy(q)}])
  /\ UNCHANGED <<quote, order, refunded, earned, job, told, stepped, writer, raced>>

(* Mutant: any incentive will do as the one kept.                           *)
DedupWrite_AnyKept(p) ==
  /\ w[p].at = "dedup"
  /\ \E keep \in w[p].ids : incentives' = {i \in incentives : i.id \notin w[p].ids \ {keep}}
  /\ Finish(p)
  /\ UNCHANGED <<quote, order, refunded, lastId, job, events, history>>

DedupWrite(p) ==
  /\ w[p].at = "dedup"
  /\ incentives' = {i \in incentives : i.id \notin w[p].ids \ {Max(w[p].ids)}}
  /\ Finish(p)
  /\ UNCHANGED <<quote, order, refunded, lastId, job, events, history>>

-----------------------------------------------------------------------------
(* Eight days go by; a refund is made (refund.service.ts).                  *)
RunOut(q) ==
  /\ Exists(q)
  /\ quote[q].validity = "running"
  /\ quote' = [quote EXCEPT ![q].validity = "over"]
  /\ UNCHANGED <<order, refunded, earned, w, job, events, history>>

Refund(o) ==
  /\ o \notin refunded
  /\ order[o] # None
  /\ Count
  /\ refunded' = refunded \cup {o}
  /\ UNCHANGED <<quote, order, earned, w, job, history>>

(* checkvalidity, every midnight: the quotations that are out, past their   *)
(* validity, and lack either kind of receipt; deleted ones too.             *)
Overdue(q) ==
  /\ Exists(q)
  /\ quote[q].status = "QUOTEOUT"
  /\ quote[q].validity = "over"
  /\ quote[q].receipts = {} \/ quote[q].receipt = None

(* Mutant: a quotation that lost a receipt number stays.                    *)
JobList_Unpaid ==
  /\ job.at = "idle"
  /\ LET due == {q \in Quotes : Overdue(q) /\ quote[q].receipt = None} IN
     /\ due # {}
     /\ job' = [at |-> "close", left |-> due]
     /\ odd' = odd \cup {q \in due : \E p \in Workers : w[p].quote = q}
  /\ UNCHANGED <<quote, order, refunded, earned, w, events, told, stepped, writer, raced>>

JobList ==
  /\ job.at = "idle"
  /\ LET due == {q \in Quotes : Overdue(q)} IN
     /\ due # {}
     /\ job' = [at |-> "close", left |-> due]
     /\ odd' = odd \cup {q \in due : \E p \in Workers : w[p].quote = q}
  /\ UNCHANGED <<quote, order, refunded, earned, w, events, told, stepped, writer, raced>>

(* Each is closed by its id, whatever became of it since; the order is not  *)
(* told.  A night without overdue quotations ends before the incentives.    *)
JobClose(q) ==
  /\ q \in job.left
  /\ Put(q, [quote[q] EXCEPT !.status = "CLOSED"], "job")
  /\ job' = IF job.left # {q} THEN [job EXCEPT !.left = @ \ {q}]
            ELSE [at |-> IF job.at = "close" THEN "lose" ELSE "idle", left |-> {}]
  /\ UNCHANGED <<order, refunded, earned, w, events, odd, raced>>

(* The notification of one of them fails: the others' writes are under way, *)
(* but the job is over.                                                     *)
JobFail ==
  /\ job.at = "close"
  /\ Count
  /\ job' = [job EXCEPT !.at = "stop"]
  /\ UNCHANGED <<quote, order, refunded, earned, w, history>>

JobLose ==
  /\ job.at = "lose"
  /\ incentives' = {IF OrderOf[i.quote] \in refunded THEN [i EXCEPT !.status = "LOST"] ELSE i :
                    i \in incentives}
  /\ job' = [at |-> "idle", left |-> {}]
  /\ UNCHANGED <<quote, order, refunded, lastId, w, events, history>>

-----------------------------------------------------------------------------
Continuing(p) ==
  \/ UpdateCheck(p) \/ UpdateWrite(p) \/ Tell(p)
  \/ EarnRead(p) \/ Earn(p) \/ SyncOrder(p) \/ SetWrite(p) \/ DedupWrite(p)

Job == JobList \/ (\E q \in Quotes : JobClose(q)) \/ JobLose

Next ==
  \/ \E p \in Workers, q \in Quotes :
       \/ \E special \in BOOLEAN : Create(p, q, special)
       \/ \E x \in Updates[q] : UpdateRead(p, q, x)
       \/ \E s \in Asked : SetRead(p, q, s)
       \/ RemoveQuote(p, q)
       \/ DedupRead(p, q)
  \/ \E p \in Workers : Continuing(p) \/ Fail(p)
  \/ \E q \in Quotes : RunOut(q)
  \/ \E o \in Orders : Refund(o)
  \/ Job \/ JobFail

Spec == Init /\ [][Next]_vars

(* The job runs every midnight and goes through its list (instance 0).      *)
Fairness == WF_vars(Job)

FairSpec == Spec /\ Fairness

-----------------------------------------------------------------------------
AtRest(q) == ~InHand(q)
Sound(q) == AtRest(q) /\ Exists(q) /\ q \notin odd

(* The customer of a quotation that is out has been sent the message,       *)
(* whichever of update and setStatus sent it out and however often it went  *)
(* in and out, unless requests on it overlapped or one failed.              *)
ToldWhenOut ==
  \A q \in Quotes :
    Sound(q) /\ ~quote[q].deleted /\ quote[q].status = "QUOTEOUT" => q \in told

(* An order with one quotation stands at the status the quotation was last  *)
(* given by create or update (setStatus and the midnight job tell nobody).  *)
OrderFollows ==
  \A q \in Quotes :
    /\ Sound(q)
    /\ writer[q] \in {"create", "update"}
    /\ \A r \in Quotes \ {q} : OrderOf[r] = OrderOf[q] => ~Exists(r)
    => order[OrderOf[q]] = quote[q].status

(* A full payment earns exactly one incentive, however often the paid       *)
(* quotation is written again (update's look at the existing incentive).    *)
PaymentEarnsOnce ==
  \A q \in Quotes :
    /\ Sound(q) /\ q \notin stepped
    /\ quote[q].status = Paid /\ writer[q] = "update"
    => Cardinality(EarnedBy(q)) = 1

(* Removing duplicate incentives never takes the last one, though it works  *)
(* on a list that may be out of date (incentiveDuplicate).                  *)
LastIncentiveStays ==
  [][\A q \in Quotes : EarnedBy(q) # {} => EarnedBy(q)' # {}]_vars

(* No two quotations share a receipt number unless both requests passed     *)
(* the check before either wrote.                                           *)
ReceiptsDiffer ==
  raced \/ \A q, r \in Quotes :
    q # r /\ Exists(q) /\ Exists(r)
      => /\ quote[q].receipt = quote[r].receipt => quote[q].receipt = None
         /\ quote[q].receipts \cap quote[r].receipts = {}

(* A quotation whose validity is over does not stay out: it is closed or    *)
(* moves on, unless both kinds of receipts were entered.                    *)
OverdueCloses == \A q \in Quotes : Overdue(q) ~> ~Overdue(q)
=============================================================================
