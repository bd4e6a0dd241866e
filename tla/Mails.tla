-------------------------------- MODULE Mails --------------------------------
(***************************************************************************)
(* The mails customers get: the templates and the cron job that looks for   *)
(* rows in a template's trigger status (mails.service.ts), Bull's queue in  *)
(* Redis, and the processor that sends and logs (mails.processor.ts).       *)
(*                                                                         *)
(* The cron job runs on instance 0 every five seconds whether or not the    *)
(* last run has ended; every instance runs processors.  A processor may die *)
(* or hold up its process for longer than its lock lasts; Bull then gives   *)
(* the job to another one, once.  Redis may lose its jobs.                  *)
(*                                                                         *)
(* Abstracted: contents, copies, images and the rows of terms and           *)
(* information; every order has details; a query of the cron job and the    *)
(* look-ups that follow it are one step; the readiness of a quotation,      *)
(* which only payment mails look at, and these are never queued (they need  *)
(* three logged mails of their own template).                               *)
(***************************************************************************)
EXTENDS Naturals, FiniteSets, FiniteSetsExt, Functions

CONSTANTS Rows,       \* [table, id, order]: what mails are about
          Templates,  \* ids of email_messages
          TypeOf,     \* template -> its email_type
          Seeded,     \* templates there at the start, active
          Trigger,    \* their trigger status
          Statuses, Start, \* statuses of rows; row -> status at the start
          HasEmail,   \* orders whose customer has an address
          Batch,      \* newest rows a trigger considers (100, 50 or 10)
          Ticks,      \* runs of the cron job that may overlap, numbered
          Processors, \* numbered as well; of several idle ones the first acts
          MaxMoves,   \* bound: status writes of the rest of the system
          MaxExtras   \* bound: edits, deletions, mails by hand and faults

Types  == {"ORDER", "CSI", "QUOTATIONS", "COMPLAINT", "RESCHEDULE", "REFUND"}
Tables == {"orders", "quotation", "complaints", "reschedule", "refund"}
TableOf ==
  [type \in Types |->
     CASE type \in {"ORDER", "CSI"} -> "orders"
       [] type = "QUOTATIONS" -> "quotation"
       [] type = "COMPLAINT"  -> "complaints"
       [] type = "RESCHEDULE" -> "reschedule"
       [] type = "REFUND"     -> "refund"]

ASSUME RowsAssumption ==
  /\ Rows \subseteq [table : Tables, id : Nat, order : Nat]
  /\ \A r \in Rows : r.table = "orders" => r.id = r.order
ASSUME TemplatesAssumption ==
  /\ Templates \subseteq Nat \ {0}
  /\ TypeOf \in [Templates -> Types \cup {"OTHER"}]
  /\ Seeded \subseteq Templates
  /\ Trigger \in Statuses /\ Start \in [Rows -> Statuses \cup {"absent"}]
ASSUME StatusesAssumption == {"absent", "deleted"} \cap Statuses = {}
ASSUME WorkersAssumption == Ticks \subseteq Nat /\ Processors \subseteq Nat \ {0}
ASSUME BoundAssumption == {Batch, MaxMoves, MaxExtras} \subseteq Nat

(* A job the cron job asks for is named by its type, row and template; one  *)
(* asked for by hand gets a number.  Template 0 is an undefined template.   *)
Mail == {k \in [row : Rows, template : Templates, byHand : {FALSE}] :
           /\ TypeOf[k.template] \in Types
           /\ TableOf[TypeOf[k.template]] = k.row.table}
HandMail == {k \in [row : Rows, template : Templates \cup {0}, byHand : {TRUE}] :
               \/ k.row.table = "orders" /\ k.template = 0
               \/ k.row.table = "quotation" /\ k.template # 0
                  /\ TypeOf[k.template] = "QUOTATIONS"}
Job == Mail \cup HandMail
Logged == {r.order : r \in Rows} \X Templates

ASSUME FiniteAssumption == IsFiniteSet(Job) /\ IsFiniteSet(Processors)

VARIABLES
  status,    \* row -> its status, "absent" or "deleted"
  template,  \* id -> the row of email_messages
  csi,       \* an active questionnaire exists
  logs,      \* <<module, template>> -> rows of mail_logs with status 1
  queue,     \* job -> where it stands in Bull, and who holds its lock
  stalls,    \* job -> times its lock expired
  tick,      \* cron run -> templates left, and jobs it is about to add
  proc,      \* processor -> the job it works on
  bounds,    \* how much of the two bounds is used up
  was,       \* history: row -> statuses it has had
  wanted,    \* history: template -> trigger statuses it has had
  sent,      \* history: job -> mails sent for it
  disturbed  \* history: mail -> stalls, losses and deleted logs that hit it

vars == <<status, template, csi, logs, queue, stalls, tick, proc, bounds,
          was, wanted, sent, disturbed>>
history == <<was, wanted, sent, disturbed>>

NoTemplate == [made |-> FALSE, active |-> FALSE, deleted |-> FALSE, trigger |-> Trigger]
NoJob  == [at |-> "none", by |-> 0]
Asleep == [at |-> "idle", left |-> {}, found |-> {}]
Free   == [at |-> "idle", job |-> NoJob, as |-> 0]

TypeOK ==
  /\ status \in [Rows -> Statuses \cup {"absent", "deleted"}]
  /\ template \in [Templates -> [made : BOOLEAN, active : BOOLEAN,
                                 deleted : BOOLEAN, trigger : Statuses]]
  /\ csi \in BOOLEAN
  /\ logs \in [Logged -> Nat]
  /\ queue \in [Job -> [at : {"none", "waiting", "active", "done", "failed"},
                        by : Processors \cup {0}]]
  /\ stalls \in [Job -> Nat]
  /\ tick \in [Ticks -> [at : {"idle", "scan", "add"}, found : SUBSET Mail,
                         left : SUBSET [id : Templates, trigger : Statuses]]]
  /\ proc \in [Processors -> [at : {"idle", "read", "send", "log", "finish"},
                              job : Job \cup {NoJob}, as : Templates \cup {0}]]
  /\ bounds \in [moves : 0..MaxMoves, extras : 0..MaxExtras]
  /\ \A k \in Mail : queue[k].at = "active" <=> queue[k].by # 0
  /\ \A p \in Processors : proc[p].at = "idle" <=> proc[p].job = NoJob

Init ==
  /\ status = Start
  /\ template = [t \in Templates |-> IF t \in Seeded
                   THEN [NoTemplate EXCEPT !.made = TRUE, !.active = TRUE]
                   ELSE NoTemplate]
  /\ csi = TRUE
  /\ logs = [l \in Logged |-> 0]
  /\ queue = [k \in Job |-> NoJob]
  /\ stalls = [k \in Job |-> 0]
  /\ tick = [i \in Ticks |-> Asleep]
  /\ proc = [p \in Processors |-> Free]
  /\ bounds = [moves |-> 0, extras |-> 0]
  /\ was = [r \in Rows |-> {Start[r]}]
  /\ wanted = [t \in Templates |-> IF t \in Seeded THEN {Trigger} ELSE {}]
  /\ sent = [k \in Job |-> 0]
  /\ disturbed = [k \in Mail |-> 0]

-----------------------------------------------------------------------------
(* The rest of the system: rows get statuses and are deleted, questionnaires *)
(* come and go.                                                             *)

Count(what, max) ==
  /\ bounds[what] < max
  /\ bounds' = [bounds EXCEPT ![what] = @ + 1]

Move(r, s) ==
  /\ Count("moves", MaxMoves)
  /\ status[r] \notin {s, "deleted"}
  /\ status' = [status EXCEPT ![r] = s]
  /\ was' = [was EXCEPT ![r] = @ \cup {s}]
  /\ UNCHANGED <<template, csi, logs, queue, stalls, tick, proc, wanted, sent, disturbed>>

Delete(r) ==
  /\ Count("extras", MaxExtras)
  /\ status[r] \in Statuses
  /\ status' = [status EXCEPT ![r] = "deleted"]
  /\ UNCHANGED <<template, csi, logs, queue, stalls, tick, proc, history>>

ChangeCsi ==
  /\ Count("extras", MaxExtras)
  /\ csi' = ~csi
  /\ UNCHANGED <<status, template, logs, queue, stalls, tick, proc, history>>

(* mails.service.ts: create, update and remove of a template.  update       *)
(* deactivates when the payload does not say is_active, and looks at        *)
(* deleted templates too.                                                   *)
Save(t, row) ==
  /\ Count("extras", MaxExtras)
  /\ template' = [template EXCEPT ![t] = row]
  /\ wanted' = [wanted EXCEPT ![t] = @ \cup {row.trigger}]
  /\ UNCHANGED <<status, csi, logs, queue, stalls, tick, proc, was, sent, disturbed>>

CreateTemplate(t, s) ==
  /\ t \notin {u \in Templates : template[u].made}
  /\ \A u \in Templates : u < t => template[u].made
  /\ Save(t, [made |-> TRUE, active |-> TRUE, deleted |-> FALSE, trigger |-> s])

UpdateTemplate(t, s, active) ==
  /\ template[t].made
  /\ <<s, active>> # <<template[t].trigger, template[t].active>>
  /\ TypeOf[t] = "OTHER" => s = Trigger
  /\ Save(t, [template[t] EXCEPT !.trigger = s, !.active = active])

RemoveTemplate(t) ==
  /\ template[t].made
  /\ Save(t, [template[t] EXCEPT !.active = FALSE, !.deleted = TRUE])

-----------------------------------------------------------------------------
(* What a trigger looks for in mail_logs before it queues a mail, and what  *)
(* the processor writes there.  Reschedules and refunds are looked up by    *)
(* their own id and logged under their order's.                             *)

LogOf(k) == <<k.row.order, k.template>>
LookedUp(k) ==
  IF TypeOf[k.template] \in {"RESCHEDULE", "REFUND"}
  THEN <<k.row.id, k.template>>
  ELSE LogOf(k)
Remembered(k) == LookedUp(k) \in Logged /\ logs[LookedUp(k)] > 0

(* removeHistory deletes a row of mail_logs.                                *)
RemoveHistory(l) ==
  /\ Count("extras", MaxExtras)
  /\ logs[l] > 0
  /\ logs' = [logs EXCEPT ![l] = @ - 1]
  /\ disturbed' = [k \in Mail |-> disturbed[k] + IF LookedUp(k) = l THEN 1 ELSE 0]
  /\ UNCHANGED <<status, template, csi, queue, stalls, tick, proc, was, wanted, sent>>

(* mailTriggerScheduler: one run of the cron job.  The loop over the active *)
(* templates starts at index 2.                                             *)
InForce(t) == template[t].made /\ template[t].active /\ ~template[t].deleted
Considered ==
  {t \in Templates :
     InForce(t) /\ Cardinality({u \in Templates : InForce(u) /\ u < t}) >= 2}

TickStart(i) ==
  /\ tick[i].at = "idle" /\ \A j \in Ticks : j < i => tick[j].at # "idle"
  /\ Considered # {}
  /\ tick' = [tick EXCEPT ![i] =
       [Asleep EXCEPT !.at = "scan",
                      !.left = {[id |-> t, trigger |-> template[t].trigger] :
                                  t \in Considered}]]
  /\ UNCHANGED <<status, template, csi, logs, queue, stalls, proc, bounds, history>>

(* The newest rows in the status, mailed or not; reschedules without limit. *)
Newest(rows, n) == {r \in rows : Cardinality({q \in rows : q.id > r.id}) < n}
InStatus(t, s) ==
  IF TypeOf[t] \notin Types THEN {}
  ELSE LET rows == {r \in Rows : r.table = TableOf[TypeOf[t]] /\ status[r] = s}
       IN  IF TypeOf[t] = "RESCHEDULE" THEN rows ELSE Newest(rows, Batch)
ToQueue(t, s) ==
  {k \in Mail : /\ k.template = t
                /\ k.row \in InStatus(t, s)
                /\ ~Remembered(k)
                /\ queue[k].at = "none"}

First(e, left) == e \in left /\ \A f \in left : e.id <= f.id
NextTemplate(i, e) ==
  tick' = [tick EXCEPT ![i] = IF tick[i].left = {e} THEN Asleep
                              ELSE [Asleep EXCEPT !.at = "scan", !.left = tick[i].left \ {e}]]
EndTick(i) == tick' = [tick EXCEPT ![i] = Asleep]

(* One handle...Triggers: find what to queue.  Without a questionnaire the  *)
(* CSI handler throws, which ends the run.                                  *)
(* Mutants: rows in any status; the run stops at a template with no work.   *)
Scan_AnyStatus(i, e) ==
  /\ tick[i].at = "scan" /\ First(e, tick[i].left)
  /\ LET found == UNION {ToQueue(e.id, s) : s \in Statuses}
     IN  CASE found = {} -> NextTemplate(i, e)
           [] found # {} /\ TypeOf[e.id] = "CSI" /\ ~csi -> EndTick(i)
           [] OTHER -> tick' = [tick EXCEPT ![i] = [@ EXCEPT !.at = "add", !.found = found]]
  /\ UNCHANGED <<status, template, csi, logs, queue, stalls, proc, bounds, history>>

Scan_StopsWhenEmpty(i, e) ==
  /\ tick[i].at = "scan" /\ First(e, tick[i].left)
  /\ LET found == ToQueue(e.id, e.trigger)
     IN  IF found = {} \/ (TypeOf[e.id] = "CSI" /\ ~csi) THEN EndTick(i)
         ELSE tick' = [tick EXCEPT ![i] = [@ EXCEPT !.at = "add", !.found = found]]
  /\ UNCHANGED <<status, template, csi, logs, queue, stalls, proc, bounds, history>>

Scan(i, e) ==
  /\ tick[i].at = "scan" /\ First(e, tick[i].left)
  /\ LET found == ToQueue(e.id, e.trigger)
     IN  CASE found = {} -> NextTemplate(i, e)
           [] found # {} /\ TypeOf[e.id] = "CSI" /\ ~csi -> EndTick(i)
           [] OTHER -> tick' = [tick EXCEPT ![i] = [@ EXCEPT !.at = "add", !.found = found]]
  /\ UNCHANGED <<status, template, csi, logs, queue, stalls, proc, bounds, history>>

(* addBulk: a job whose id Redis knows is left as it is.                    *)
(* Mutant: the job is added again.                                          *)
Enqueue_NoJobId(i, e) ==
  /\ tick[i].at = "add" /\ First(e, tick[i].left)
  /\ queue' = [k \in Job |-> IF k \in tick[i].found
                             THEN [at |-> "waiting", by |-> 0] ELSE queue[k]]
  /\ NextTemplate(i, e)
  /\ UNCHANGED <<status, template, csi, logs, stalls, proc, bounds, history>>

Enqueue(i, e) ==
  /\ tick[i].at = "add" /\ First(e, tick[i].left)
  /\ queue' = [k \in Job |-> IF k \in tick[i].found /\ queue[k].at = "none"
                             THEN [at |-> "waiting", by |-> 0] ELSE queue[k]]
  /\ NextTemplate(i, e)
  /\ UNCHANGED <<status, template, csi, logs, stalls, proc, bounds, history>>

(* Redis refuses: two handlers catch the error, the others end the run.     *)
EnqueueFails(i, e) ==
  /\ tick[i].at = "add" /\ First(e, tick[i].left)
  /\ Count("extras", MaxExtras)
  /\ IF TypeOf[e.id] \in {"ORDER", "QUOTATIONS"} THEN NextTemplate(i, e) ELSE EndTick(i)
  /\ UNCHANGED <<status, template, csi, logs, queue, stalls, proc, history>>

(* The endpoints that queue a mail at once (order.controller.ts and         *)
(* quotation.controller.ts): no job id; the first QUOTATIONS template,      *)
(* active or not, or an undefined template.                                 *)
SendByHand(k) ==
  /\ Count("extras", MaxExtras)
  /\ status[k.row] \in Statuses
  /\ queue[k].at \in {"none", "done", "failed"}
  /\ k.template # 0 => \A t \in Templates :
       TypeOf[t] = "QUOTATIONS" /\ template[t].made => k.template <= t
  /\ k.template # 0 => template[k.template].made
  /\ queue' = [queue EXCEPT ![k] = [at |-> "waiting", by |-> 0]]
  /\ stalls' = [stalls EXCEPT ![k] = 0]
  /\ UNCHANGED <<status, template, csi, logs, tick, proc, history>>

-----------------------------------------------------------------------------
(* Bull and the processors.                                                 *)

Work(p, x) == proc' = [proc EXCEPT ![p] = x]
Goto(p, step) == Work(p, [proc[p] EXCEPT !.at = step])

Take(p, k) ==
  /\ proc[p] = Free /\ \A q \in Processors : q < p => proc[q] # Free
  /\ queue[k].at = "waiting"
  /\ queue' = [queue EXCEPT ![k] = [at |-> "active", by |-> p]]
  /\ Work(p, [at |-> "read", job |-> k, as |-> k.template])
  /\ UNCHANGED <<status, template, csi, logs, stalls, tick, bounds, history>>

(* The handlers of the processor differ in what they ask of the row when    *)
(* they read it (its status is not looked at again), and in whether they    *)
(* log a mail that the customer's missing address kept from being sent.     *)
OrderThere(r) == \A q \in Rows : q.table = "orders" /\ q.id = r.order => status[q] # "deleted"
RowThere(r) == OrderThere(r) /\ status[r] # "deleted"

OrderMail(k)      == [found |-> RowThere(k.row), logsUnsent |-> TRUE]
QuotationMail(k)  == [found |-> RowThere(k.row), logsUnsent |-> FALSE]
ComplaintMail(k)  == [found |-> RowThere(k.row), logsUnsent |-> TRUE]
RescheduleMail(k) == [found |-> OrderThere(k.row), logsUnsent |-> TRUE]
RefundMail(k)     == [found |-> OrderThere(k.row), logsUnsent |-> TRUE]
CsiMail(k)        == [found |-> TRUE, logsUnsent |-> TRUE]
Handler(k, type) ==
  CASE type = "ORDER" -> OrderMail(k)
    [] type = "QUOTATIONS" -> QuotationMail(k)
    [] type = "COMPLAINT" -> ComplaintMail(k)
    [] type = "RESCHEDULE" -> RescheduleMail(k)
    [] type = "REFUND" -> RefundMail(k)
    [] type = "CSI" -> CsiMail(k)

(* getMessage: an active template; an undefined id is no condition.         *)
Message(k) ==
  {t \in Templates : /\ template[t].made /\ template[t].active
                     /\ IF k.template = 0 THEN TypeOf[t] = "ORDER" ELSE t = k.template}

Read(p) ==
  /\ proc[p].at = "read"
  /\ LET k == proc[p].job
         m == Message(k)
         t == Min(m)
         found == m # {} /\ Handler(k, TypeOf[t]).found
     IN  \/ /\ found /\ k.row.order \in HasEmail
            /\ Work(p, [proc[p] EXCEPT !.at = "send", !.as = t])
         \/ /\ found /\ k.row.order \notin HasEmail /\ Handler(k, TypeOf[t]).logsUnsent
            /\ Work(p, [proc[p] EXCEPT !.at = "log", !.as = t])
         \/ /\ found => k.row.order \notin HasEmail /\ ~Handler(k, TypeOf[t]).logsUnsent
            /\ Goto(p, "finish")
  /\ UNCHANGED <<status, template, csi, logs, queue, stalls, tick, bounds, history>>

(* Mutant: the log row is written before the mail is handed over.           *)
Send_LogsFirst(p) ==
  /\ proc[p].at = "send"
  /\ logs' = [logs EXCEPT ![<<proc[p].job.row.order, proc[p].as>>] = @ + 1]
  /\ \/ sent' = [sent EXCEPT ![proc[p].job] = @ + 1] /\ UNCHANGED bounds
     \/ Count("extras", MaxExtras) /\ UNCHANGED sent
  /\ Goto(p, "finish")
  /\ UNCHANGED <<status, template, csi, queue, stalls, tick, was, wanted, disturbed>>

Send(p) ==
  /\ proc[p].at = "send"
  /\ sent' = [sent EXCEPT ![proc[p].job] = @ + 1]
  /\ Goto(p, "log")
  /\ UNCHANGED <<status, template, csi, logs, queue, stalls, tick, bounds, was,
                 wanted, disturbed>>

(* The mail server refuses; the handler swallows the error and the job      *)
(* counts as done: the three attempts the queue is set to are never used.   *)
SendFails(p) ==
  /\ proc[p].at = "send"
  /\ Count("extras", MaxExtras)
  /\ Goto(p, "finish")
  /\ UNCHANGED <<status, template, csi, logs, queue, stalls, tick, history>>

Log(p) ==
  /\ proc[p].at = "log"
  /\ logs' = [logs EXCEPT ![<<proc[p].job.row.order, proc[p].as>>] = @ + 1]
  /\ Goto(p, "finish")
  /\ UNCHANGED <<status, template, csi, queue, stalls, tick, bounds, history>>

LogFails(p) ==
  /\ proc[p].at = "log"
  /\ Count("extras", MaxExtras)
  /\ Goto(p, "finish")
  /\ UNCHANGED <<status, template, csi, logs, queue, stalls, tick, history>>

(* Without its lock a processor cannot complete the job.                    *)
Finish(p) ==
  /\ proc[p].at = "finish"
  /\ LET k == proc[p].job IN
     queue' = [queue EXCEPT ![k] = IF @.by = p THEN [at |-> "done", by |-> 0] ELSE @]
  /\ Work(p, Free)
  /\ UNCHANGED <<status, template, csi, logs, stalls, tick, bounds, history>>

(* The process dies; its job stays active until the lock expires.           *)
Die(p) ==
  /\ proc[p] # Free
  /\ Count("extras", MaxExtras)
  /\ Work(p, Free)
  /\ UNCHANGED <<status, template, csi, logs, queue, stalls, tick, history>>

Working(k) == \E p \in Processors : queue[k].by = p /\ proc[p].job = k

(* The lock expires: the first time the job is run again, then it fails.    *)
(* Mutant: a failing job keeps its lock.                                    *)
Stall_KeepsLock(k) ==
  /\ queue[k].at = "active"
  /\ IF Working(k) THEN Count("extras", MaxExtras) ELSE UNCHANGED bounds
  /\ stalls' = [stalls EXCEPT ![k] = @ + 1]
  /\ disturbed' = [m \in Mail |-> disturbed[m] + IF m = k THEN 1 ELSE 0]
  /\ queue' = [queue EXCEPT ![k].at = IF stalls[k] = 0 THEN "waiting" ELSE "failed"]
  /\ UNCHANGED <<status, template, csi, logs, tick, proc, was, wanted, sent>>

Stall(k) ==
  /\ queue[k].at = "active"
  /\ IF Working(k) THEN Count("extras", MaxExtras) ELSE UNCHANGED bounds
  /\ stalls' = [stalls EXCEPT ![k] = @ + 1]
  /\ disturbed' = [m \in Mail |-> disturbed[m] + IF m = k THEN 1 ELSE 0]
  /\ queue' = [queue EXCEPT ![k] = [at |-> IF stalls[k] = 0 THEN "waiting" ELSE "failed",
                                    by |-> 0]]
  /\ UNCHANGED <<status, template, csi, logs, tick, proc, was, wanted, sent>>

(* Redis loses what it knew of the jobs.  What the log remembers, and no    *)
(* run of the cron job is about to add, is not at risk.                     *)
Safe(k) == Remembered(k) /\ \A i \in Ticks : k \notin tick[i].found
RedisLoses ==
  /\ Count("extras", MaxExtras)
  /\ queue' = [k \in Job |-> NoJob]
  /\ stalls' = [k \in Job |-> 0]
  /\ disturbed' = [k \in Mail |-> disturbed[k] + IF Safe(k) THEN 0 ELSE 1]
  /\ UNCHANGED <<status, template, csi, logs, tick, proc, was, wanted, sent>>

-----------------------------------------------------------------------------
TickNext(i) ==
  \/ TickStart(i)
  \/ \E e \in tick[i].left : Scan(i, e) \/ Enqueue(i, e) \/ EnqueueFails(i, e)
ProcNext(p) ==
  \/ \E k \in Job : Take(p, k)
  \/ Read(p) \/ Send(p) \/ SendFails(p) \/ Log(p) \/ LogFails(p) \/ Finish(p) \/ Die(p)

Next ==
  \/ \E r \in Rows : Delete(r) \/ \E s \in Statuses : Move(r, s)
  \/ ChangeCsi
  \/ \E t \in Templates : \E s \in Statuses : CreateTemplate(t, s)
  \/ \E t \in Templates : \E s \in Statuses : \E b \in BOOLEAN : UpdateTemplate(t, s, b)
  \/ \E t \in Templates : RemoveTemplate(t)
  \/ \E l \in Logged : RemoveHistory(l)
  \/ \E i \in Ticks : TickNext(i)
  \/ \E k \in HandMail : SendByHand(k)
  \/ \E p \in Processors : ProcNext(p)
  \/ \E k \in Job : Stall(k)
  \/ RedisLoses

Spec == Init /\ [][Next]_vars

(* The cron job fires for ever; a run, and a job somebody took, go on; idle *)
(* processors take jobs; Bull notices that a lock has expired.              *)
TickStep(i) == TickStart(i) \/ \E e \in tick[i].left : Scan(i, e) \/ Enqueue(i, e)
ProcStep(p) == Read(p) \/ Send(p) \/ Log(p) \/ Finish(p)
Fairness ==
  /\ \A i \in Ticks : WF_vars(TickStep(i))
  /\ \A p \in Processors : WF_vars(ProcStep(p)) /\ WF_vars(\E k \in Job : Take(p, k))
  /\ WF_vars(\E k \in Job : ~Working(k) /\ Stall(k))

FairSpec == Spec /\ Fairness

-----------------------------------------------------------------------------
(* The mail system implements MailOnce: a mail asked for by the cron job    *)
(* goes out only for a row that was in a status the template is about, and  *)
(* at most once more than it was disturbed, although the cron job's runs    *)
(* overlap and every process runs processors (the job ids and mail_logs).   *)
Once == INSTANCE MailOnce WITH
  Mails <- Mail,
  asked <- {k \in Mail : was[k.row] \cap wanted[k.template] # {}},
  sent <- [k \in Mail |-> sent[k]],
  disturbed <- disturbed
SentOnce == Once!Spec

(* The jobs whose mails a log row may tell of.                              *)
Answering(l) == {k \in Job : k.row.order = l[1] /\ k.template \in {0, l[2]}}

(* mail_logs never tells of more mails of a template to a customer than     *)
(* were handed to the mail server (processor's order of sendMail and        *)
(* maillogs).                                                               *)
LoggedWasSent ==
  \A l \in Logged : l[1] \in HasEmail => logs[l] <= SumFunctionOnSet(sent, Answering(l))

(* A row that stays in the trigger status of an active template beyond the  *)
(* first two, among the newest the trigger considers, is taken up: its job  *)
(* is run, or the log already counts it as mailed (mailTriggerScheduler     *)
(* goes through all templates every time).                                  *)
Due(k) ==
  /\ k.template \in Considered
  /\ k.row \in InStatus(k.template, template[k.template].trigger)
  /\ csi
TakenUp(k) == queue[k].at \in {"done", "failed"} \/ Remembered(k)
ThirdOnwards == {k \in Mail : Cardinality({t \in Templates : t < k.template}) >= 2}
DueIsTakenUp == \A k \in ThirdOnwards : <>[]Due(k) => <>TakenUp(k)
=============================================================================
