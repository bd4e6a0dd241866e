# The order and vendor back end, specified in TLA+

This directory specifies the core of the NestJS back end in `src/`: vendor
discipline, the life of an order, vendor registration, customer mails,
quotations, sales incentives and the accounts of staff. The specifications are
translated from the service code, model-checked with TLC on small instances and,
where that is possible, proved for every instance with TLAPS.

    tlc -workers 2 -config order_flow.cfg MCOrderFlow     # one run
    tlapm OrderFlowProofs.tla                             # one module's proofs

## 1. The system

The server is NestJS over Prisma and SQL Server. `src/ecosystem.config.js` starts
three clustered Node processes; the cron jobs check `NODE_APP_INSTANCE` and run
on instance 0, requests and queue processors on all three. Every `await` gives
way to other requests of the same process, and the three processes run in
parallel, so what two handlers do interleaves between any two database calls.
The code has no locks and hardly a unique index. A `$transaction` given as a
list of writes is one step. An interactive one reads under READ COMMITTED, so
what it read may be out of date when it writes.

| component | state | operations | talks to |
|---|---|---|---|
| vendor violations, letters (SP) | `vendor_violation_type`, `_log`, `vendor_sp`, `_revision_request`, `vendor.is_active` | detector, manual log, type administration, correction requests and reviews, extend, complete, reactivate | called by work orders, refunds, scheduler; switches vendors off |
| violation scheduler | the list a job has read | nightly SP job, quarterly reset, daily detections | calls the detector, writes letters and vendors |
| orders | `orders`, `order_histories` | create, public create, update, remove, setStatus, addHistory, deleteHistory, two midnight jobs | called by every other order service |
| work orders | `work_orders`, `work_order_status` | create, update, setStatusWithMaterials | sets the order's status, reports violations |
| reschedules, refunds, complaints | their rows | create, update (decision) | set the status of order and work order |
| quotations | `quotation`, `sales_incentive` (as earned) | create, update, setStatus, remove, incentiveDuplicate, the validity job | set the order's status, notify the customer, earn incentives |
| sales incentives, claims | `sales_incentive`, `comission_sales_incentive` | five-minute job, claims, workbook upload, correction, deletion | read orders and refunds |
| customer mails | `email_messages`, `mail_logs`, Bull's queue in Redis | templates, five-second cron job, processors, sending by hand | read the rows of five tables |
| vendor registration | registration, history, token, the vendors and users made from it | register, two approvals, rejection, deletion, token, login, two retention jobs | mail queue, auth |
| staff and login | `sales`, `manager`, `tukang`, `users` | create, update, remove, salesUser, two midnight jobs, login's verdict | incentives name sales staff |
| invoices | `invoices`, `invoice_penalty` | create, update, bulk payment | refunds, work orders |
| reports, exports, lists | none | read | everything |
| master data, items, promotions, stores, members, employees, CRM, WhatsApp, questionnaires, uploads | one row per request, or none | write it | little |

What is hard here is not an algorithm but the order of things: the same status
column is written from five services and two cron jobs; checks (duplicate
violation, receipt number, pending review) are made in one query and relied on
in a later one; a cron job writes by id what it listed earlier; several writes
that belong together are separate and may be cut short; a mail must go out once
although its cron job overlaps with itself, three processes consume the queue
and Bull runs a stalled job again. `PROJECT.json` lists each such place under
`hazards`, at its line, with the properties that are about it.

## 2. Modules

| module | models | extended by |
|---|---|---|
| `VendorDiscipline` | violations, letters, corrections, scheduler jobs | `MCVendorDiscipline`, `VendorDisciplineProofs` |
| `OrderFlow` | orders with work orders, reschedules, refunds and complaints | `MCOrderFlow`, `OrderFlowProofs` |
| `VendorRegistration` | registration of vendors | `MCVendorRegistration`, `VendorRegistrationProofs` |
| `Mails` | templates, cron job, queue, processors, log | `MCMails`, `MailsProofs` |
| `MailOnce` | what the mail system promises; `Mails` refines it | instantiated in `Mails` |
| `Quotation` | quotations, what they tell and earn | `MCQuotation`, `QuotationProofs` |
| `Commission` | incentives from earned to paid out, claims | `MCCommission`, `CommissionProofs` |
| `Staff` | sales, managers, tukang, accounts | `MCStaff`, `StaffProofs` |
| `SumLemmas` | sums over finite sets (`SumFunctionOnSet`) | used by two proof modules |

`map` in `PROJECT.json` gives for each definition the lines it stands for.

**How code becomes actions.** The tables are variables. A *worker* `w[p]` is one
request, or one job, in flight; its field `at` names the database call it makes
next, its other fields are the local variables still needed. Each `Begin` reads
what the handler reads first; each later action is everything between two
awaits: guard, early return or throw, and all its writes. `Finish` is the end of
the handler. Calls that are made without `await`, or in one transaction, are part
of the action that makes them. A job lists ids in one action and writes them in
others, as the loops do. Where a counter would be unbounded a constant named
`Max...` bounds it in a guard; it bounds the inputs, never what a handler does.

*VendorDiscipline.* `DetectCheck ... DetectDeactivate` are `recordViolation`;
`LogCreate`, `LogTotal`, `LogFind`, `Issue*`, `DropSP`, `DropReactivate`,
`Rewrite*` the manual log with its resynchronisation; `Approve*` and `Reject*`
the reviews; `Extend*`, `Complete*`, `Reactivate*` the letter endpoints;
`Nightly*`, `Quarterly*`, `Job*` the scheduler; `Fail(p)` stops a handler at
any step. Not kept: `total_point`, `allocation_reduction` (written with the
level), notes, audit columns, the rows logging a reactivation.
`VENDOR_SP_ENABLED` is taken as true. The calendar ticks only while no handler
runs. Reads see locked rows as committed. `ApproveFind` makes two reads at once.
`Closed` and `Recorded` are what the properties call a request or a violation that is
settled: decided or logged, with no handler left that would still write it.

*OrderFlow.* `FindOrder`, `SetStatus` and `AddHistory` are `OrderService.setStatus` with
its history row and are where the handlers of the other four services end up;
`Setting(o, s, n, then)` starts them. `FindOrder` is its `findOne`: for a removed order
it throws, and the calling handler ends there, with what it has already
committed. `WorkWrite`, `WorkReread` are `setStatusWithMaterials`; `WorkUpdateWrite` is
`update`, and `WorkHandOver` the same with another `order_id` in its body, which takes
the work order to that order (`Following`: handlers that go by the work order's id
find it there). `JobRead`, `JobUnpaid`, `JobDelete` are the two midnight jobs.
Abstracted: totals, prices, details, files, evidences, tukang, dates (an order is
more than three days old or not), the print counter, WhatsApp, reassignment of
vendors, soft deletion of work orders (no handler looks at it). A crash in
mid-handler and a failing notification are not modelled.

*VendorRegistration.* An applicant stands for company name and contact data at
once. `Approve*` has its two stages and the outcomes of the mail queue;
`TokenUse`, `Login*` the credentials; `JobList`, `DeleteDocuments`, `Anonymize` the
retention jobs, which clear the row: first the paths of the documents
(`pathsCleared` is `documents_deleted_at`), then the personal data. The uploaded files
are outside the model, and no job deletes them (see 5). Time passes (`GrowOld`,
`Expire`) only while no request is in flight, since hours lie between the dates it
moves; errors of the database in the jobs are not modelled.

*Mails.* `Scan` and `Enqueue` are a run of `mailTriggerScheduler` (runs overlap);
`Take`, `Read`, `Send`, `Log`, `Finish` a processor; `Stall` is Bull giving a job to
another processor, once; `Die`, `SendFails`, `LogFails`, `EnqueueFails` and
`RedisLoses` are the faults. Payment mails are left out because they are never
queued (they require three logged mails of their own template). Not kept: the type of
a template, which is the constant `TypeOf` although `update` may write `email_type`
(`mails.service.ts:273`), and the check of the CSI processor that its template row has
not been removed since (`mails.processor.ts:828-845`; the mail would be dropped).

*Quotation*, *Commission*, *Staff.* One worker per request; `JobList`/`JobClose`/`JobLose`,
`JobRead`/`JobWrite` and the `JobStep`s of Staff are cron jobs with the list they
work through. What money is involved is abstracted to who earns, is linked or
paid; amounts are kept where totals are computed. In Staff, `Admits` is login's verdict;
its demand for complete bank data and the stores of sales staff are left out.

History variables (`erased`, `brought`, `told`, `stepped`, `writer`, `odd`, `raced`, `clash`,
`revived`, `moved`, `was`, `wanted`, `sent`, `disturbed`) record what happened for
the properties to speak of. No guard reads them.

## 3. Runs

| run | instance | question |
|---|---|---|
| `discipline_ledger` | one vendor, type, order; one handler; two logs, two requests; points 1 and 51 (SP1 and SP3); detector, manual log, types, corrections, completion | ledger of points: resets over a quarter's end; inactive under a running SP3 |
| `discipline_reviews` | two vendors, two concurrent handlers, two logs, two requests; detector, manual log, corrections | only reviewed requests override points; a decision is final once nobody has it in hand; the detector stops repeating itself |
| `discipline_nightly` | two vendors, one handler, three ticks, extension, reactivation, removals, failures | when a vendor is out of action and when it returns; fairness |
| `order_flow` | one order, two concurrent requests, four in all, both jobs, removal included | order, work order and history stay in step |
| `order_receipts` | two orders, one receipt number, one request at a time, work orders handed over | how two orders come to share a number; bookings end |
| `finding_rejected_complaint` | one order, one request at a time | shows the first finding below |
| `finding_completed_by_hand` | one vendor, one handler | shows the second |
| `vendor_registration` | two registrations of one applicant, two requests at a time, seven in all | history, accounts, credentials, rejected rows cleared |
| `mails` | an order and its refund, five templates, two overlapping cron runs, two processors, one move, one fault | refinement of `MailOnce`, truth of the log, nothing due is passed over |
| `quotation` | two quotations of one order, two requests at a time, four events | customers told, order follows, one incentive per payment, receipts, overdue quotations |
| `commission` | two incentives of one order, two claims, two workers, four events | nothing paid twice, claims add up, finished orders are put up |
| `staff` | two sales persons, or two managers and a craftsman, hired before; two workers, two events | removed people stay out, one active manager, idle staff goes off |

Why the bounds suffice: every race in these handlers is between two of them, or
a handler and a job, so two workers show it; a race needs the two steps of one
around the write of the other, which the request bounds allow with room for the
requests that set the scene. Two letters or logs of a vendor are enough for the
lookups that pick one of several; two quarters, one over an SP's term and one
overdue are reached within the clock bounds. `order_flow` asks for three statuses,
chosen because each is read by a different branch; survey progress through
`WorkUpdate` and bookings are left to the proof, which covers every requested
status. In `mails`, `quotation`, `commission` and `staff` workers are numbered and
the lowest idle one acts, which is the symmetry of idle workers by another
name. `discipline_reviews` and `order_flow` use TLC's symmetry (they check no
liveness). Deadlock is checked in the runs where a job can always start
(`discipline_nightly`, `order_flow`, `order_receipts`) and off where the bounded
requests may run out and the system then rests.

**Fairness.** Weak fairness of a handler that has begun: an awaited call settles.
Weak fairness of jobs: cron fires for ever on instance 0, and passing time is
fair where a property waits for a date. Strong fairness only in
`discipline_nightly`, on the writes of the nightly job that `Fail` may interrupt, for
each row of its list (`JobGivesBack`): the job starts again every night and the
database does not fail it at the same write for ever. The job never completes an
EXTENDED letter (see 5), so `SP3VendorReturns` promises a vendor's return only while
its SP3 is not extended. Requests of clients are never fair; nor are faults. In `mails` a job of
the cron and of a processor is fair, and so is Bull's check for expired locks;
`Send` may still fail, which `DueIsTakenUp` counts as taken up.

**Findings.** `RejectionRestores` states what the comment at
`complaints.service.ts:683` says ("guard jika order_history kosong"). The run
shows an order with neither survey nor work in its history: the rejection looks
up the status with an undefined id, Prisma takes that as no condition, and the
order gets the alphabetically last status.

`AutoReactivationIsNatural` states what the comment above
`reactivateExpiredSP3Vendors` says: the job is only for vendors whose SP3 expired
naturally. Completion by hand (`vendor-sp.service.ts:309`) ends a letter at once and
leaves the vendor inactive until it is reactivated by hand, as its comment says.
The nightly job does not tell such a letter from an expired one, and
`finding_completed_by_hand` shows it giving the vendor back the same way.

## 4. Proofs

Every theorem is for all values of the constants under the named assumptions of
the module (which TLC evaluates on the runs). They are listed under `theorems`.

| module | proved of `Spec` | inductive invariant |
|---|---|---|
| `VendorDisciplineProofs` | `TypeOK`, `CorrectionsReviewed`, `ResetStaysInQuarter`, `ReviewedOnce`, `DetectorLogsOnce`; with restricted operations `InactiveHasSP3`, `AutoReactivationIsNatural` | `Consistent`, and one invariant per property |
| `OrderFlowProofs` | `TypeOK`, `StatusLogged`, `WorkOrderLogged`; with one handler `SharedReceiptWasCancelled` | `Consistent`; `Receipted` |
| `VendorRegistrationProofs` | `TypeOK`, `HistoryEnds`, `AccountsApproved`, `CredentialsMailed`, `NoAnonymousVendor` | `Typed`, `Ages`, names and counts |
| `MailsProofs` | `TypeOK`, `SentOnce` (refinement of `MailOnce`), `LoggedWasSent` | `Called`, `Afforded`; `Titled`, `Covered` |
| `QuotationProofs` | `TypeOK`, `ToldWhenOut`, `OrderFollows`, `PaymentEarnsOnce`, `LastIncentiveStays`, `ReceiptsDiffer` | `Typed`, one invariant per untouched quotation |
| `CommissionProofs` | `TypeOK`, `PaidOnce`, `ClaimSums` | `Typed` with `Listed` and `Paying`; the sums |
| `StaffProofs` | `TypeOK`, `RemovedStaysOut`, `OneActiveManager` | distinct places of accounts; who is out; one request per store |

The argument is the same everywhere: `Init => IInv`, `IInv /\ [Next]_vars => IInv'`
with one step per action, `IInv => Inv`, and PTL. TypeOK alone is not inductive,
since a handler writes to the id it read earlier and the row must still be there.
So the first invariant says what each worker has in hand at each step
(`Consistent`, `RequestOK`). On top of it:

* *VendorDiscipline.* `CorrectionsReviewed` needs that a review in progress touches
  only logs its own request may touch, although the request is written before the
  logs. For `ResetStaysInQuarter` (`Current`) the logs under correction belong to
  the quarter the calendar shows. That each request is reviewed once, or each
  violation detected once, is false of the code: check and write are two queries
  without lock or unique index. What holds for any number of overlapping handlers,
  and is proved, is that the overlap is the end of it. `ReviewedOnce`: once a
  request is decided and nobody has it in hand (`Closed`) it stays so, and its
  decision stays. `DetectorLogsOnce`: once a violation is in the log and nobody who
  looked before is still to write (`Recorded`) it stays so, and the detector logs it
  no more in that quarter. Both follow step by step from `Consistent`: whoever
  takes a request up found it pending (`ReviewBegins`), whoever is about to log
  found nothing (`DetectBegins`), and nothing in the log or decided goes away.
  `InactiveHasSP3` is proved where only the detector issues letters
  (`OnlyDetector`): the manual log's `issueSP` deactivates before it writes the
  letter, and a review may lower the letter afterwards. For
  `AutoReactivationIsNatural`, moreover, nobody moves dates by hand (`DatesStand`),
  since extend accepts any end. These are the operations of the run that checks
  them, which besides extends letters, to a later day only; the number of handlers
  and crashes stays arbitrary.
* *OrderFlow.* `StatusLogged` is strengthened to `Accounted` and to what each request
  is yet to log; `ListedWasBooked` covers the midnight job that writes UNPAID over
  whatever happened since it read the list. `WorkOrderLogged` needs `RowAdded`, and
  that a handler which has written the work order is on its way to the order
  (`Coming`); it makes an exception of removed orders, which `FindOrder` refuses, and
  of work orders that were handed over with their status (`brought`).
  `SharedReceiptWasCancelled` carries `OneHandler`: create and update look for the
  receipt number in one query and write it in another, so two requests may both
  pass. `Receipted` says that between the check and the write only excused orders
  (cancelled once, public, or with erased history) have the number, and that a
  cancelled order is known to have been is `Accounted`. The jobs interleave freely.
* *VendorRegistration.* Rows age only when nobody is about to review them, so what
  the retention jobs list cannot be approved any more; accounts and approval rows
  are then counted together: each approval adds one of both in one commit.
* *Mails.* `SentOnce` is a refinement: a step of `Mails` is `Ask`, `Send` or `Disturb` of
  `MailOnce` or stutters. `Afforded` says that everything that could still send a
  mail (queued job, processor before its log row, missing log row) is paid for by
  the one mail allowed or by a disturbance. A first attempt showed that deleting
  a log row disturbs the mails looked up by that row, which for reschedules and
  refunds are not those logged under it; the model was corrected. `LoggedWasSent`
  counts rows written and owed against mails sent.
* *Quotation.* All properties except `LastIncentiveStays` are about quotations on
  which nothing overlapped or failed (`odd`), and the invariant follows the single
  request such a quotation can have in hand. `LastIncentiveStays` needs no such
  exception: of a stale list of duplicates the newest is always left.
* *Commission.* What the job has listed can no longer be paid, since only what was
  put up is. `ClaimSums` needs that the one request about claims knows links and
  sums as they are.
* *Staff.* An account is in one place only, a row or the request that carries it;
  from this it follows that removing one person cannot let in or lock out another.
* *SumLemmas.* The order of summation is that of a CHOOSE, and the library's
  induction theorems over finite sets take an operator as a parameter, which the
  installed provers cannot instantiate. Each fact is proved by taking a smallest
  set that would be an exception, with the well-foundedness of the naturals.

**Only model-checked.** The liveness properties `OverdueLetterCloses`,
`SP3VendorReturns`, `BookingEnds`, `RejectedRowIsCleared`, `DueIsTakenUp`,
`OverdueCloses`, `EndedIsPutUp` and `IdleGoesOff`: fairness and ENABLED are out of
TLAPS's reach. Of the safety properties `SP3MeansInactive` is only model-checked. It
is false of the code as soon as handlers overlap or fail, a letter is extended or
runs out, or a vendor is given back (see 5): the services disagree on which letter
is in force, and a vendor is given back although a second SP3 runs. The run checks
it where none of that happens, over detector, manual log, types, corrections and
completion by hand in any order; a theorem under those hypotheses would say little
more than the run. Every other safety property of a passing run is proved, under
the hypotheses named above. No module has a RECURSIVE operator.

## 5. What the code does that one may not expect

Met while modelling; where a property holds only with an exception, this is why.
Two have a run of their own, as there text in the repository and the code disagree
about something the model follows.

* Complaints: see the first finding. `complaints.remove` always fails on a foreign key.
* Two reviewers may both decide a correction request
  (`vendor-violation-revision.service.ts:127`, `212`); two detectors may log the
  same violation twice (`violation-detector.service.ts:61-82`).
* Letters: see the second finding. Extension and completion write what they
  checked before (`vendor-sp.service.ts:265-274`); the nightly loop overwrites an extension made since it
  listed the letter (`violation-detector.service.ts:536`); the job selects ACTIVE letters
  only (`527`), so an extended SP3 is never completed by it and its vendor stays out of
  action until somebody acts; a vendor is returned although a second SP3 runs
  (`557`), and a removed one is switched on again by the same loop.
* `issueSP` deactivates before it writes the letter (`vendor-violation.service.ts:495`); a
  rewrite may lower a letter (`443`) where the detector never does; changing the
  points of a type resynchronises nothing (`157`).
* The quarterly job logs its reset under a text it never looks for
  (`vendor-violation.scheduler.ts:418`, `440`), so it repeats at every start.
* Orders: receipt numbers are checked and then inserted (`order.service.ts:107`);
  status is written before notification and history (`1706`); a public order
  (BOOKED) never becomes UNPAID; the midnight deletion reads first (`1636`) and one
  linked PICKLIST order blocks all the others; `remove` only marks the row
  (`1505-1515`), and a status write that has looked the order up before still goes
  through (`1694`).
* Work orders: a deleted one blocks the creation of another for its order.
  `setStatus` refuses a removed order (`order.service.ts:1668`, `1006`) only after
  `setStatusWithMaterials` (`work_orders.service.ts:1083`) or an approved complaint
  (`complaints.service.ts:789-800`) has committed the work order, so that a work order
  keeps a status its order never had; the client gets an error. `update` with another
  `order_id` (`work_orders.service.ts:615`) takes the work order there, status and all,
  while the order it leaves keeps the history.
* Quotations: the validity job neither tells the order nor, on nights without an
  overdue quotation, loses the incentives of refunded orders, and it hits paid ones
  too; step incentives are compared by a description that never matches.
* Claims: an empty list means all incentives; an update that only takes some away
  leaves their links.
* Staff: sales without orders are switched off the first midnight after they were
  hired; those off for three months are never removed by the six-month job; an
  update of a removed craftsman without `is_delete` restores him; an update of a
  manager writes back the `is_active` it read.
* Vendor registration: the files of a rejected applicant stay on the disk. The code
  that deletes them is commented out (`vendor-registration.service.ts:99-125`, `935`), the
  row only forgets their paths, and the history row says they were deleted for good
  (`960`, "dihapus permanen"). A rejection that read the row before an approval
  committed overwrites the approval (`849`), and two final approvals make two vendors.
* Accounts: removing a vendor, store or employee leaves an account that can log in.
* Mails: refund and reschedule mails are looked up in the log by their own id but
  logged under the order's; handlers swallow errors, so Bull's `attempts: 3` is
  unused.

## 6. Not modelled, and what is left

Invoices are the next component worth a module (duplicate check before the
insert, number from a count, refunds deducted again on a second approval). After it
the selection of orders by the scheduler's daily checks, evidences and materials of
work orders, and registration and password reset of users. Reports, exports and
lists only read. Members, items, promotions, stores, employees, permissions and
master data are rows written by one statement per request. CRM, WhatsApp, uploads
and PDFs are calls to other systems that keep nothing here. Store commissions repeat
the claims of `Commission` with other amounts. Questionnaires are switched off in
`app.module.ts`. `components` in `PROJECT.json` has each with its reason.
