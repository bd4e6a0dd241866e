----------------------------- MODULE MailsProofs -----------------------------
(***************************************************************************)
(* Theorems of Mails for every set of rows, templates, cron runs and        *)
(* processors: every reachable state is well typed, and the queue, the log  *)
(* and the processors together implement MailOnce, so a mail asked for by   *)
(* the cron job goes out at most once more than it was disturbed.           *)
(***************************************************************************)
EXTENDS Mails, SumLemmas

JobRow  == [at : {"none", "waiting", "active", "done", "failed"}, by : Processors \cup {0}]
TickRow == [at : {"idle", "scan", "add"}, found : SUBSET Mail,
            left : SUBSET [id : Templates, trigger : Statuses]]
ProcRow == [at : {"idle", "read", "send", "log", "finish"},
            job : Job \cup {NoJob}, as : Templates \cup {0}]
TemplateRow == [made : BOOLEAN, active : BOOLEAN, deleted : BOOLEAN, trigger : Statuses]

(* The types of the history variables.                                      *)
HistoryOK ==
  /\ was \in [Rows -> SUBSET (Statuses \cup {"absent"})]
  /\ wanted \in [Templates -> SUBSET Statuses]
  /\ sent \in [Job -> Nat]
  /\ disturbed \in [Mail -> Nat]

Typed == TypeOK /\ HistoryOK

-----------------------------------------------------------------------------
(* Shapes.                                                                  *)

LEMMA JobShapes ==
  /\ Mail \subseteq Job /\ HandMail \subseteq Job
  /\ Mail \cap HandMail = {}
  /\ \A k \in Job : /\ k.row \in Rows /\ k.template \in Templates \cup {0}
                    /\ k # NoJob
  /\ \A k \in Mail : k.template \in Templates /\ k.template \in Nat \ {0}
  <1>1. \A k \in Mail : /\ k.row \in Rows /\ k.template \in Templates
                        /\ k.byHand = FALSE /\ DOMAIN k = {"row", "template", "byHand"}
    BY DEF Mail
  <1>2. \A k \in HandMail : /\ k.row \in Rows /\ k.template \in Templates \cup {0}
                            /\ k.byHand = TRUE /\ DOMAIN k = {"row", "template", "byHand"}
    BY DEF HandMail
  <1>3. DOMAIN NoJob = {"at", "by"} /\ {"row", "template", "byHand"} # {"at", "by"}
    BY DEF NoJob
  <1> QED BY <1>1, <1>2, <1>3, TemplatesAssumption DEF Job

LEMMA RecordShapes ==
  /\ NoJob \in JobRow /\ NoJob.at = "none" /\ NoJob.by = 0
  /\ Asleep \in TickRow /\ Asleep.found = {} /\ Asleep.left = {} /\ Asleep.at = "idle"
  /\ Free \in ProcRow /\ Free.at = "idle" /\ Free.job = NoJob
  BY WorkersAssumption DEF NoJob, JobRow, Asleep, TickRow, Free, ProcRow

LEMMA TypeParts ==
  TypeOK <=> /\ status \in [Rows -> Statuses \cup {"absent", "deleted"}]
             /\ template \in [Templates -> TemplateRow]
             /\ csi \in BOOLEAN
             /\ logs \in [Logged -> Nat]
             /\ queue \in [Job -> JobRow]
             /\ stalls \in [Job -> Nat]
             /\ tick \in [Ticks -> TickRow]
             /\ proc \in [Processors -> ProcRow]
             /\ bounds \in [moves : 0..MaxMoves, extras : 0..MaxExtras]
             /\ \A k \in Mail : queue[k].at = "active" <=> queue[k].by # 0
             /\ \A p \in Processors : proc[p].at = "idle" <=> proc[p].job = NoJob
  BY DEF TypeOK, TemplateRow, JobRow, TickRow, ProcRow

LEMMA CountTyped ==
  ASSUME TypeOK,
         \/ Count("moves", MaxMoves)
         \/ Count("extras", MaxExtras)
         \/ bounds' = bounds
  PROVE  bounds' \in [moves : 0..MaxMoves, extras : 0..MaxExtras]
  BY BoundAssumption DEF TypeOK, Count

(* The smallest of some templates is one of them.                           *)
LEMMA MinTyped ==
  ASSUME NEW S \in SUBSET Templates, S # {}
  PROVE  Min(S) \in S
  <1>1. S \subseteq Nat
    BY TemplatesAssumption
  <1>2. PICK t \in S : \A u \in S : ~ (<<u, t>> \in OpToRel(<, Nat))
    BY <1>1, WFMin, NatLessThanWellFounded
  <1>3. ASSUME NEW u \in S PROVE t <= u
    <2>1. u \in Nat /\ t \in Nat
      BY <1>1
    <2> DEFINE pair == <<u, t>>
    <2>2. pair \in Nat \X Nat /\ pair[1] = u /\ pair[2] = t
      BY <2>1
    <2>3. u < t => pair \in OpToRel(<, Nat)
      BY <2>2 DEF OpToRel
    <2>4. ~(u < t)
      BY <1>2, <2>3, Zenon
    <2> QED BY <2>1, <2>4
  <1> QED BY <1>3 DEF Min

LEMMA ProcTyped ==
  ASSUME TypeOK, NEW p \in Processors, proc[p].at # "idle"
  PROVE  /\ proc[p] \in ProcRow /\ proc[p].job \in Job
         /\ proc[p].job.row \in Rows
         /\ proc[p] # Free
  BY TypeParts, RecordShapes, JobShapes DEF ProcRow

-----------------------------------------------------------------------------
(* Types.                                                                   *)

(* What changes in a step that leaves queue and processors alone.           *)
LEMMA QueueKept ==
  ASSUME Typed, UNCHANGED <<queue, stalls, proc>>,
         status' \in [Rows -> Statuses \cup {"absent", "deleted"}],
         template' \in [Templates -> TemplateRow],
         csi' \in BOOLEAN,
         logs' \in [Logged -> Nat],
         tick' \in [Ticks -> TickRow],
         bounds' \in [moves : 0..MaxMoves, extras : 0..MaxExtras]
  PROVE  TypeOK'
  BY DEF Typed, TypeOK, TemplateRow, TickRow

(* What changes in a step of the queue and the processors.                  *)
LEMMA QueueMoves ==
  ASSUME Typed, UNCHANGED <<status, template, csi>>,
         logs' \in [Logged -> Nat],
         queue' \in [Job -> JobRow],
         stalls' \in [Job -> Nat],
         tick' \in [Ticks -> TickRow],
         proc' \in [Processors -> ProcRow],
         bounds' \in [moves : 0..MaxMoves, extras : 0..MaxExtras],
         \A k \in Mail : queue'[k].at = "active" <=> queue'[k].by # 0,
         \A p \in Processors : proc'[p].at = "idle" <=> proc'[p].job = NoJob
  PROVE  TypeOK'
  BY DEF Typed, TypeOK, JobRow, TickRow, ProcRow

LEMMA SaveTyped ==
  ASSUME Typed, NEW t \in Templates, NEW row \in TemplateRow, Save(t, row)
  PROVE  Typed'
  <1>1. template' \in [Templates -> TemplateRow]
    BY TypeParts DEF Typed, Save
  <1>2. bounds' \in [moves : 0..MaxMoves, extras : 0..MaxExtras]
    BY CountTyped DEF Typed, Save
  <1>3. TypeOK'
    BY <1>1, <1>2, TypeParts, QueueKept DEF Typed, Save
  <1>4. row.trigger \in Statuses
    BY DEF TemplateRow
  <1>5. HistoryOK'
    BY <1>4 DEF Typed, Save, HistoryOK
  <1> QED BY <1>3, <1>5 DEF Typed

LEMMA TemplateTyped ==
  ASSUME Typed, NEW t \in Templates, NEW s \in Statuses, NEW b \in BOOLEAN,
         \/ CreateTemplate(t, s) \/ UpdateTemplate(t, s, b) \/ RemoveTemplate(t)
  PROVE  Typed'
  <1>1. /\ [made |-> TRUE, active |-> TRUE, deleted |-> FALSE, trigger |-> s] \in TemplateRow
        /\ template[t] \in TemplateRow
    BY TypeParts DEF Typed, TemplateRow
  <1>2. /\ [template[t] EXCEPT !.trigger = s, !.active = b] \in TemplateRow
        /\ [template[t] EXCEPT !.active = FALSE, !.deleted = TRUE] \in TemplateRow
    BY <1>1 DEF TemplateRow
  <1> QED BY <1>1, <1>2, SaveTyped DEF CreateTemplate, UpdateTemplate, RemoveTemplate

LEMMA RowsTyped ==
  ASSUME Typed,
         \/ \E r \in Rows : Delete(r) \/ \E s \in Statuses : Move(r, s)
         \/ ChangeCsi
  PROVE  Typed'
  <1>1. status' \in [Rows -> Statuses \cup {"absent", "deleted"}] /\ csi' \in BOOLEAN
    BY TypeParts DEF Typed, Move, Delete, ChangeCsi
  <1>2. bounds' \in [moves : 0..MaxMoves, extras : 0..MaxExtras]
    BY CountTyped DEF Typed, Move, Delete, ChangeCsi
  <1>3. TypeOK'
    BY <1>1, <1>2, TypeParts, QueueKept DEF Typed, Move, Delete, ChangeCsi
  <1>4. HistoryOK'
    BY DEF Typed, HistoryOK, Move, Delete, ChangeCsi, history
  <1> QED BY <1>3, <1>4 DEF Typed

LEMMA RemoveHistoryTyped ==
  ASSUME Typed, NEW l \in Logged, RemoveHistory(l)
  PROVE  Typed'
  <1>1. logs' \in [Logged -> Nat]
    BY TypeParts DEF Typed, RemoveHistory
  <1>2. bounds' \in [moves : 0..MaxMoves, extras : 0..MaxExtras]
    BY CountTyped DEF Typed, RemoveHistory
  <1>3. TypeOK'
    BY <1>1, <1>2, TypeParts, QueueKept DEF Typed, RemoveHistory
  <1>4. disturbed' \in [Mail -> Nat]
    BY DEF Typed, HistoryOK, RemoveHistory
  <1>5. HistoryOK'
    BY <1>4 DEF Typed, HistoryOK, RemoveHistory
  <1> QED BY <1>3, <1>5 DEF Typed

(* What a cron run may become.                                              *)
LEMMA TickRows ==
  ASSUME Typed, NEW i \in Ticks
  PROVE  /\ tick[i] \in TickRow
         /\ \A e : [Asleep EXCEPT !.at = "scan", !.left = tick[i].left \ {e}] \in TickRow
         /\ \A found \in SUBSET Mail :
              [tick[i] EXCEPT !.at = "add", !.found = found] \in TickRow
         /\ \A x \in TickRow : [tick EXCEPT ![i] = x] \in [Ticks -> TickRow]
  <1>1. tick \in [Ticks -> TickRow] /\ tick[i] \in TickRow
    BY TypeParts DEF Typed
  <1>2. \A e : [Asleep EXCEPT !.at = "scan", !.left = tick[i].left \ {e}] \in TickRow
    BY <1>1, RecordShapes DEF TickRow
  <1>3. \A found \in SUBSET Mail :
          [tick[i] EXCEPT !.at = "add", !.found = found] \in TickRow
    BY <1>1 DEF TickRow
  <1> QED BY <1>1, <1>2, <1>3

LEMMA TickMoves ==
  ASSUME Typed, NEW i \in Ticks, NEW e,
         NextTemplate(i, e) \/ EndTick(i)
  PROVE  tick' \in [Ticks -> TickRow]
  <1>1. PICK x \in TickRow : tick' = [tick EXCEPT ![i] = x]
    BY TickRows, RecordShapes DEF NextTemplate, EndTick
  <1> QED BY <1>1, TickRows

LEMMA ToQueueTyped ==
  ASSUME NEW t, NEW s
  PROVE  ToQueue(t, s) \in SUBSET Mail
  BY DEF ToQueue

LEMMA TickTyped ==
  ASSUME Typed, NEW i \in Ticks, TickNext(i)
  PROVE  Typed'
  <1> USE DEF Typed
  <1>1. HistoryOK'
    BY DEF HistoryOK, TickNext, TickStart, Scan, Enqueue, EnqueueFails, history
  <1>2. CASE TickStart(i)
    <2> DEFINE left == {[id |-> t, trigger |-> template[t].trigger] : t \in Considered}
    <2>1. left \in SUBSET [id : Templates, trigger : Statuses]
      <3>1. \A t \in Considered : t \in Templates /\ template[t] \in TemplateRow
        BY TypeParts DEF Considered
      <3> QED BY <3>1 DEF TemplateRow
    <2>2. [Asleep EXCEPT !.at = "scan", !.left = left] \in TickRow
      BY <2>1, RecordShapes DEF TickRow
    <2>3. tick' \in [Ticks -> TickRow]
      BY <1>2, <2>2, TickRows DEF TickStart
    <2>4. TypeOK'
      BY <1>2, <2>3, TypeParts, QueueKept DEF TickStart
    <2> QED BY <1>1, <2>4
  <1>3. ASSUME NEW e \in tick[i].left, Scan(i, e) PROVE Typed'
    <2> DEFINE found == ToQueue(e.id, e.trigger)
    <2>1. found \in SUBSET Mail
      BY ToQueueTyped
    <2>2. \/ NextTemplate(i, e) \/ EndTick(i)
          \/ tick' = [tick EXCEPT ![i] = [tick[i] EXCEPT !.at = "add", !.found = found]]
      <3>1. CASE found = {}
        BY <1>3, <3>1 DEF Scan
      <3>2. CASE found # {} /\ TypeOf[e.id] = "CSI" /\ ~csi
        BY <1>3, <3>2 DEF Scan
      <3>3. CASE found # {} /\ ~(TypeOf[e.id] = "CSI" /\ ~csi)
        BY <1>3, <3>3 DEF Scan
      <3> QED BY <3>1, <3>2, <3>3
    <2>3. tick' \in [Ticks -> TickRow]
      <3>1. CASE NextTemplate(i, e) \/ EndTick(i)
        BY <3>1, TickMoves
      <3>2. CASE tick' = [tick EXCEPT ![i] = [tick[i] EXCEPT !.at = "add", !.found = found]]
        <4> DEFINE x == [tick[i] EXCEPT !.at = "add", !.found = found]
        <4>1. x \in TickRow
          BY <2>1, TickRows DEF TickRow
        <4> HIDE DEF x
        <4> QED BY <3>2, <4>1, TickRows DEF x
      <3> QED BY <2>2, <3>1, <3>2
    <2>4. TypeOK'
      BY <1>3, <2>3, TypeParts, QueueKept DEF Scan
    <2> QED BY <1>1, <2>4
  <1>4. ASSUME NEW e \in tick[i].left, Enqueue(i, e) PROVE Typed'
    <2>1. tick' \in [Ticks -> TickRow]
      BY <1>4, TickMoves DEF Enqueue
    <2>2. [at |-> "waiting", by |-> 0] \in JobRow
      BY DEF JobRow
    <2>3. /\ queue' \in [Job -> JobRow]
          /\ \A k \in Mail : queue'[k].at = "active" <=> queue'[k].by # 0
      BY <1>4, <2>2, TypeParts, JobShapes DEF Enqueue
    <2>4. TypeOK'
      BY <1>4, <2>1, <2>3, TypeParts, QueueMoves DEF Enqueue
    <2> QED BY <1>1, <2>4
  <1>5. ASSUME NEW e \in tick[i].left, EnqueueFails(i, e) PROVE Typed'
    <2>1. tick' \in [Ticks -> TickRow]
      BY <1>5, TickMoves DEF EnqueueFails
    <2>2. bounds' \in [moves : 0..MaxMoves, extras : 0..MaxExtras]
      BY <1>5, CountTyped DEF EnqueueFails
    <2>3. TypeOK'
      BY <1>5, <2>1, <2>2, TypeParts, QueueKept DEF EnqueueFails
    <2> QED BY <1>1, <2>3
  <1> QED BY <1>2, <1>3, <1>4, <1>5 DEF TickNext

(* A worker's next record.                                                  *)
LEMMA ProcMoves ==
  ASSUME Typed, NEW p \in Processors, NEW x \in ProcRow,
         x.at = "idle" <=> x.job = NoJob, Work(p, x)
  PROVE  /\ proc' \in [Processors -> ProcRow]
         /\ \A q \in Processors : proc'[q].at = "idle" <=> proc'[q].job = NoJob
  <1>1. proc \in [Processors -> ProcRow] /\ proc' = [proc EXCEPT ![p] = x]
    BY TypeParts DEF Typed, Work
  <1>2. \A q \in Processors : proc'[q] = IF q = p THEN x ELSE proc[q]
    BY <1>1
  <1> QED BY <1>1, <1>2, TypeParts DEF Typed

LEMMA SendByHandTyped ==
  ASSUME Typed, NEW k \in HandMail, SendByHand(k)
  PROVE  Typed'
  <1>1. [at |-> "waiting", by |-> 0] \in JobRow
    BY DEF JobRow
  <1>2. /\ queue' \in [Job -> JobRow] /\ stalls' \in [Job -> Nat]
        /\ \A m \in Mail : queue'[m] = queue[m]
    BY <1>1, TypeParts, JobShapes DEF Typed, SendByHand
  <1>3. bounds' \in [moves : 0..MaxMoves, extras : 0..MaxExtras]
    BY CountTyped DEF Typed, SendByHand
  <1>4. TypeOK'
    BY <1>2, <1>3, TypeParts, QueueMoves DEF Typed, SendByHand
  <1>5. HistoryOK'
    BY DEF Typed, HistoryOK, SendByHand, history
  <1> QED BY <1>4, <1>5 DEF Typed

LEMMA TakeTyped ==
  ASSUME Typed, NEW p \in Processors, NEW k \in Job, Take(p, k)
  PROVE  Typed'
  <1> DEFINE x == [at |-> "read", job |-> k, as |-> k.template]
  <1>1. x \in ProcRow /\ x.at # "idle" /\ x.job # NoJob
    BY JobShapes DEF ProcRow
  <1>2. /\ proc' \in [Processors -> ProcRow]
        /\ \A q \in Processors : proc'[q].at = "idle" <=> proc'[q].job = NoJob
    BY <1>1, ProcMoves DEF Take
  <1>3. p # 0 /\ [at |-> "active", by |-> p] \in JobRow
    BY WorkersAssumption DEF JobRow
  <1>4. /\ queue' \in [Job -> JobRow]
        /\ \A m \in Mail : queue'[m].at = "active" <=> queue'[m].by # 0
    BY <1>3, TypeParts, JobShapes DEF Typed, Take
  <1>5. TypeOK'
    BY <1>2, <1>4, TypeParts, QueueMoves DEF Typed, Take
  <1>6. HistoryOK'
    BY DEF Typed, HistoryOK, Take, history
  <1> QED BY <1>5, <1>6 DEF Typed

(* A processor that works goes on, with the message it has found.           *)
LEMMA GotoMoves ==
  ASSUME Typed, NEW p \in Processors, proc[p].at # "idle",
         NEW s \in {"read", "send", "log", "finish"}, NEW t \in Templates \cup {0},
         Goto(p, s) \/ Work(p, [proc[p] EXCEPT !.at = s, !.as = t])
  PROVE  /\ proc' \in [Processors -> ProcRow]
         /\ \A q \in Processors : proc'[q].at = "idle" <=> proc'[q].job = NoJob
         /\ proc'[p].at = s /\ proc'[p].job = proc[p].job
         /\ \A q \in Processors : q # p => proc'[q] = proc[q]
  <1>0. proc[p] \in ProcRow /\ proc[p].job # NoJob
    BY ProcTyped, JobShapes DEF Typed
  <1>1. CASE Goto(p, s)
    <2> DEFINE x == [proc[p] EXCEPT !.at = s]
    <2>1. x \in ProcRow /\ x.at = s /\ x.job = proc[p].job /\ x.job # NoJob
      BY <1>0 DEF ProcRow
    <2>2. Work(p, x)
      BY <1>1 DEF Goto
    <2>3. proc' = [proc EXCEPT ![p] = x] /\ proc \in [Processors -> ProcRow]
      BY <2>2, TypeParts DEF Work, Typed
    <2> HIDE DEF x
    <2> QED BY <2>1, <2>2, <2>3, ProcMoves
  <1>2. CASE Work(p, [proc[p] EXCEPT !.at = s, !.as = t])
    <2> DEFINE x == [proc[p] EXCEPT !.at = s, !.as = t]
    <2>1. x \in ProcRow /\ x.at = s /\ x.job = proc[p].job /\ x.job # NoJob
      BY <1>0 DEF ProcRow
    <2>2. proc' = [proc EXCEPT ![p] = x] /\ proc \in [Processors -> ProcRow]
      BY <1>2, TypeParts DEF Work, Typed
    <2> HIDE DEF x
    <2> QED BY <1>2, <2>1, <2>2, ProcMoves DEF x
  <1> QED BY <1>1, <1>2

(* A step of a processor that leaves the queue alone.                       *)
LEMMA ProcStepTyped ==
  ASSUME Typed,
         proc' \in [Processors -> ProcRow],
         \A q \in Processors : proc'[q].at = "idle" <=> proc'[q].job = NoJob,
         UNCHANGED <<status, template, csi, queue, stalls, tick>>,
         logs' \in [Logged -> Nat],
         bounds' \in [moves : 0..MaxMoves, extras : 0..MaxExtras]
  PROVE  TypeOK'
  BY TypeParts, QueueMoves DEF Typed

(* Read: nothing more to do, a mail to send, or one to log unsent.          *)
LEMMA ReadGoes ==
  ASSUME Typed, NEW p \in Processors, Read(p)
  PROVE  \E s \in {"send", "log", "finish"}, t \in Templates \cup {0} :
           Goto(p, s) \/ Work(p, [proc[p] EXCEPT !.at = s, !.as = t])
  <1> DEFINE k == proc[p].job
             m == Message(k)
  <1>1. m # {} => Min(m) \in Templates
    BY MinTyped DEF Message
  <1>2. \/ Work(p, [proc[p] EXCEPT !.at = "send", !.as = Min(m)]) /\ m # {}
        \/ Work(p, [proc[p] EXCEPT !.at = "log", !.as = Min(m)]) /\ m # {}
        \/ Goto(p, "finish")
    BY DEF Read
  <1> QED BY <1>1, <1>2

LEMMA ReadTyped ==
  ASSUME Typed, NEW p \in Processors, Read(p)
  PROVE  Typed'
  <1>1. proc[p].at # "idle"
    BY DEF Read
  <1>2. PICK s \in {"send", "log", "finish"}, t \in Templates \cup {0} :
           Goto(p, s) \/ Work(p, [proc[p] EXCEPT !.at = s, !.as = t])
    BY ReadGoes
  <1>3. /\ proc' \in [Processors -> ProcRow]
        /\ \A q \in Processors : proc'[q].at = "idle" <=> proc'[q].job = NoJob
    BY <1>1, <1>2, GotoMoves
  <1>4. UNCHANGED <<status, template, csi, logs, queue, stalls, tick, bounds, history>>
    BY DEF Read
  <1>5. TypeOK'
    BY <1>3, <1>4, ProcStepTyped, TypeParts DEF Typed
  <1> QED BY <1>4, <1>5 DEF Typed, HistoryOK, history

LEMMA SendLogGoes ==
  ASSUME Typed, NEW p \in Processors,
         \/ Send(p) \/ SendFails(p) \/ Log(p) \/ LogFails(p)
  PROVE  /\ proc[p].at # "idle"
         /\ proc' \in [Processors -> ProcRow]
         /\ \A q \in Processors : proc'[q].at = "idle" <=> proc'[q].job = NoJob
         /\ proc'[p].at \in {"log", "finish"} /\ proc'[p].job = proc[p].job
         /\ \A q \in Processors : q # p => proc'[q] = proc[q]
  <1>1. proc[p].at # "idle" /\ \E s \in {"log", "finish"} : Goto(p, s)
    BY DEF Send, SendFails, Log, LogFails
  <1>2. PICK s \in {"log", "finish"} : Goto(p, s)
    BY <1>1
  <1> QED BY <1>1, <1>2, GotoMoves

LEMMA SendLogTyped ==
  ASSUME Typed, NEW p \in Processors,
         \/ Send(p) \/ SendFails(p) \/ Log(p) \/ LogFails(p)
  PROVE  Typed'
  <1>3. logs' \in [Logged -> Nat]
    BY TypeParts DEF Typed, Send, SendFails, Log, LogFails
  <1>4. bounds' \in [moves : 0..MaxMoves, extras : 0..MaxExtras]
    BY CountTyped DEF Typed, Send, SendFails, Log, LogFails
  <1>5. UNCHANGED <<status, template, csi, queue, stalls, tick, was, wanted, disturbed>>
    BY DEF Send, SendFails, Log, LogFails, history
  <1>6. TypeOK'
    BY <1>3, <1>4, <1>5, SendLogGoes, ProcStepTyped
  <1>7. sent' \in [Job -> Nat]
    BY DEF Typed, HistoryOK, Send, SendFails, Log, LogFails, history
  <1> QED BY <1>5, <1>6, <1>7 DEF Typed, HistoryOK

LEMMA FinishTyped ==
  ASSUME Typed, NEW p \in Processors, Finish(p)
  PROVE  Typed'
  <1>1. /\ proc' \in [Processors -> ProcRow]
        /\ \A q \in Processors : proc'[q].at = "idle" <=> proc'[q].job = NoJob
    BY RecordShapes, ProcMoves DEF Finish
  <1>2. [at |-> "done", by |-> 0] \in JobRow
    BY DEF JobRow
  <1>3. /\ queue' \in [Job -> JobRow]
        /\ \A m \in Mail : queue'[m].at = "active" <=> queue'[m].by # 0
    BY <1>2, TypeParts, JobShapes DEF Typed, Finish
  <1>4. TypeOK'
    BY <1>1, <1>3, TypeParts, QueueMoves DEF Typed, Finish
  <1> QED BY <1>4 DEF Typed, HistoryOK, Finish, history

LEMMA DieTyped ==
  ASSUME Typed, NEW p \in Processors, Die(p)
  PROVE  Typed'
  <1>1. bounds' \in [moves : 0..MaxMoves, extras : 0..MaxExtras]
    BY CountTyped DEF Typed, Die
  <1>2. /\ proc' \in [Processors -> ProcRow]
        /\ \A q \in Processors : proc'[q].at = "idle" <=> proc'[q].job = NoJob
    BY RecordShapes, ProcMoves DEF Die
  <1>3. TypeOK'
    BY <1>1, <1>2, TypeParts, ProcStepTyped DEF Typed, Die
  <1> QED BY <1>3 DEF Typed, HistoryOK, Die, history

LEMMA StallTyped ==
  ASSUME Typed, NEW k \in Job, Stall(k)
  PROVE  Typed'
  <1>1. bounds' \in [moves : 0..MaxMoves, extras : 0..MaxExtras]
    BY CountTyped DEF Typed, Stall
  <1>2. /\ [at |-> "waiting", by |-> 0] \in JobRow
        /\ [at |-> "failed", by |-> 0] \in JobRow
    BY DEF JobRow
  <1>3. /\ queue' \in [Job -> JobRow] /\ stalls' \in [Job -> Nat]
        /\ \A m \in Mail : queue'[m].at = "active" <=> queue'[m].by # 0
    BY <1>2, TypeParts, JobShapes DEF Typed, Stall
  <1>4. TypeOK'
    BY <1>1, <1>3, TypeParts, QueueMoves DEF Typed, Stall
  <1> QED BY <1>4 DEF Typed, HistoryOK, Stall

LEMMA RedisTyped ==
  ASSUME Typed, RedisLoses
  PROVE  Typed'
  <1>1. bounds' \in [moves : 0..MaxMoves, extras : 0..MaxExtras]
    BY CountTyped DEF Typed, RedisLoses
  <1>2. /\ queue' \in [Job -> JobRow] /\ stalls' \in [Job -> Nat]
        /\ \A m \in Mail : queue'[m].at = "active" <=> queue'[m].by # 0
    BY RecordShapes, JobShapes DEF RedisLoses
  <1>3. TypeOK'
    BY <1>1, <1>2, TypeParts, QueueMoves DEF Typed, RedisLoses
  <1> QED BY <1>3 DEF Typed, HistoryOK, RedisLoses

LEMMA InitTyped == Init => Typed
  <1> SUFFICES ASSUME Init PROVE Typed
    OBVIOUS
  <1>1. template \in [Templates -> TemplateRow]
    <2>1. /\ NoTemplate \in TemplateRow
          /\ [NoTemplate EXCEPT !.made = TRUE, !.active = TRUE] \in TemplateRow
      BY TemplatesAssumption DEF NoTemplate, TemplateRow
    <2> QED BY <2>1 DEF Init
  <1>3. bounds \in [moves : 0..MaxMoves, extras : 0..MaxExtras]
    BY BoundAssumption DEF Init
  <1>4. /\ status \in [Rows -> Statuses \cup {"absent", "deleted"}]
        /\ csi \in BOOLEAN /\ logs \in [Logged -> Nat] /\ stalls \in [Job -> Nat]
    BY TemplatesAssumption DEF Init
  <1>5. /\ queue \in [Job -> JobRow] /\ tick \in [Ticks -> TickRow]
        /\ proc \in [Processors -> ProcRow]
        /\ \A k \in Mail : queue[k].at = "active" <=> queue[k].by # 0
        /\ \A p \in Processors : proc[p].at = "idle" <=> proc[p].job = NoJob
    BY RecordShapes, JobShapes DEF Init
  <1>6. TypeOK
    BY <1>1, <1>3, <1>4, <1>5, TypeParts
  <1>2. HistoryOK
    BY TemplatesAssumption DEF Init, HistoryOK
  <1> QED BY <1>2, <1>6 DEF Typed

LEMMA NextTyped == Typed /\ [Next]_vars => Typed'
  <1> SUFFICES ASSUME Typed, [Next]_vars PROVE Typed'
    OBVIOUS
  <1>1. CASE UNCHANGED vars
    BY <1>1 DEF Typed, TypeOK, HistoryOK, vars
  <1>2. ASSUME NEW p \in Processors, ProcNext(p) PROVE Typed'
    BY <1>2, TakeTyped, ReadTyped, SendLogTyped, FinishTyped, DieTyped DEF ProcNext
  <1>3. CASE \/ \E r \in Rows : Delete(r) \/ \E s \in Statuses : Move(r, s)
             \/ ChangeCsi
    BY <1>3, RowsTyped
  <1>4. CASE \/ \E t \in Templates : \E s \in Statuses : CreateTemplate(t, s)
             \/ \E t \in Templates : \E s \in Statuses : \E b \in BOOLEAN : UpdateTemplate(t, s, b)
             \/ \E t \in Templates : RemoveTemplate(t)
    BY <1>4, TemplateTyped, TemplatesAssumption
  <1>5. CASE \/ \E l \in Logged : RemoveHistory(l)
             \/ \E i \in Ticks : TickNext(i)
             \/ \E k \in HandMail : SendByHand(k)
             \/ \E k \in Job : Stall(k)
             \/ RedisLoses
    BY <1>5, RemoveHistoryTyped, TickTyped, SendByHandTyped, StallTyped, RedisTyped
  <1> QED BY <1>1, <1>2, <1>3, <1>4, <1>5, Zenon DEF Next

(* Every reachable state of the mail system is well typed: a mail has a      *)
(* lock exactly while a processor may complete it, and a processor without   *)
(* a job is idle, whatever stalls, deaths and losses of Redis come between.  *)
THEOREM SpecTyped == Spec => []Typed
  BY InitTyped, NextTyped, PTL DEF Spec

THEOREM SpecTypeOK == Spec => []TypeOK
  <1>1. Typed => TypeOK
    BY DEF Typed
  <1> QED BY <1>1, SpecTyped, PTL

-----------------------------------------------------------------------------
(* The inductive invariant behind MailOnce.                                 *)

AskedFor == {k \in Mail : was[k.row] \cap wanted[k.template] # {}}

(* Whatever is on its way to the customer has been called for.              *)
Called ==
  /\ \A r \in Rows : status[r] \in was[r] \cup {"deleted"}
  /\ \A t \in Templates : template[t].made => template[t].trigger \in wanted[t]
  /\ \A i \in Ticks : /\ tick[i].found \subseteq AskedFor
                      /\ \A e \in tick[i].left : e.trigger \in wanted[e.id]
  /\ \A k \in Mail : queue[k].at # "none" => k \in AskedFor
  /\ \A p \in Processors : proc[p].job \in Mail => proc[p].job \in AskedFor

(* The processors that may still send k, and what has been and may yet be   *)
(* sent without anybody taking the job anew.                                *)
Running(k) == {p \in Processors : proc[p].job = k /\ proc[p].at \in {"read", "send"}}
Spent(k) == sent[k] + Cardinality(Running(k))

(* Whoever may take a job, now or after the cron job has queued it again,   *)
(* finds that every earlier sending was paid for by a disturbance.          *)
Afforded ==
  \A k \in Mail :
    /\ IsFiniteSet(Running(k))
    /\ Spent(k) <= disturbed[k] + 1
    /\ queue[k].at = "waiting" => Spent(k) <= disturbed[k]
    /\ queue[k].at = "none" /\ ~Safe(k) => Spent(k) <= disturbed[k]

Sound == Typed /\ Called /\ Afforded

LEMMA Counts ==
  ASSUME Sound, NEW k \in Mail
  PROVE  /\ sent[k] \in Nat /\ disturbed[k] \in Nat /\ Spent(k) \in Nat
         /\ Cardinality(Running(k)) \in Nat
         /\ IsFiniteSet(Running(k)) /\ Spent(k) <= disturbed[k] + 1
  BY FS_CardinalityType, JobShapes DEF Sound, Typed, HistoryOK, Afforded, Spent

(* Nobody new may send.                                                     *)
LEMMA AffordedKept ==
  ASSUME Sound, HistoryOK',
         \A k \in Mail :
           /\ Running(k)' \subseteq Running(k)
           /\ sent'[k] = sent[k]
           /\ disturbed'[k] >= disturbed[k]
           /\ queue'[k].at = "waiting" => \/ queue[k].at = "waiting"
                                         \/ Spent(k) <= disturbed'[k]
           /\ queue'[k].at = "none" /\ ~Safe(k)' => Spent(k) <= disturbed'[k]
  PROVE  Afforded'
  <1> SUFFICES ASSUME NEW k \in Mail
               PROVE  /\ IsFiniteSet(Running(k)')
                      /\ Spent(k)' <= disturbed'[k] + 1
                      /\ queue'[k].at = "waiting" => Spent(k)' <= disturbed'[k]
                      /\ queue'[k].at = "none" /\ ~Safe(k)' => Spent(k)' <= disturbed'[k]
    BY DEF Afforded
  <1>1. /\ IsFiniteSet(Running(k)')
        /\ Cardinality(Running(k)') <= Cardinality(Running(k))
        /\ Cardinality(Running(k)') \in Nat
    BY Counts, FS_Subset, FS_CardinalityType
  <1>2. /\ Spent(k)' = sent[k] + Cardinality(Running(k)')
        /\ Spent(k) = sent[k] + Cardinality(Running(k))
    BY DEF Spent
  <1>3. Spent(k)' <= Spent(k) /\ Spent(k)' \in Nat
    BY <1>1, <1>2, Counts
  <1>4. disturbed'[k] \in Nat
    BY DEF HistoryOK
  <1>5. queue[k].at = "waiting" => Spent(k) <= disturbed[k]
    BY DEF Sound, Afforded
  <1> QED BY <1>1, <1>3, <1>4, <1>5, Counts

LEMMA AskedKept ==
  ASSUME UNCHANGED <<was, wanted>>
  PROVE  AskedFor' = AskedFor
  BY DEF AskedFor

-----------------------------------------------------------------------------
(* What each step is for MailOnce.                                          *)

OnceNext == Once!Next \/ UNCHANGED Once!vars

LEMMA IsAsk ==
  ASSUME AskedFor \subseteq AskedFor', UNCHANGED <<sent, disturbed>>
  PROVE  OnceNext
  <1>1. PICK more \in SUBSET Mail : more = AskedFor'
    BY DEF AskedFor
  <1>2. AskedFor' = AskedFor \cup more
    BY <1>1
  <1>3. Once!Ask(more)
    BY <1>2 DEF Once!Ask, AskedFor
  <1>4. Once!Next
    BY <1>3 DEF Once!Next
  <1> QED BY <1>4 DEF OnceNext

LEMMA IsSend ==
  ASSUME Typed, UNCHANGED <<was, wanted, disturbed>>,
         NEW k \in Mail, k \in AskedFor, sent[k] <= disturbed[k],
         sent' = [sent EXCEPT ![k] = @ + 1]
  PROVE  OnceNext
  <1>1. [m \in Mail |-> sent'[m]] = [[m \in Mail |-> sent[m]] EXCEPT ![k] = @ + 1]
    BY JobShapes DEF Typed, HistoryOK
  <1>2. Once!Send(k)
    BY <1>1, AskedKept DEF Once!Send, AskedFor
  <1>3. Once!Next
    BY <1>2 DEF Once!Next
  <1> QED BY <1>3 DEF OnceNext

LEMMA IsHandSend ==
  ASSUME Typed, UNCHANGED <<was, wanted, disturbed>>,
         NEW k \in HandMail, sent' = [sent EXCEPT ![k] = @ + 1]
  PROVE  OnceNext
  <1>1. [m \in Mail |-> sent'[m]] = [m \in Mail |-> sent[m]]
    BY JobShapes DEF Typed, HistoryOK
  <1> QED BY <1>1, AskedKept DEF OnceNext, Once!vars, AskedFor

LEMMA IsDisturb ==
  ASSUME UNCHANGED <<was, wanted, sent>>, NEW some \in SUBSET Mail,
         disturbed' = [m \in Mail |-> disturbed[m] + IF m \in some THEN 1 ELSE 0]
  PROVE  OnceNext
  <1>1. Once!Disturb(some)
    BY AskedKept DEF Once!Disturb, AskedFor
  <1>2. Once!Next
    BY <1>1 DEF Once!Next
  <1> QED BY <1>2 DEF OnceNext

LEMMA IsNothing ==
  ASSUME UNCHANGED history
  PROVE  OnceNext
  BY DEF OnceNext, Once!vars, history, AskedFor

-----------------------------------------------------------------------------
(* Each step keeps the invariant, and is a step of MailOnce or none.        *)

Promised == Called' /\ Afforded' /\ OnceNext

(* No processor takes up a mail it did not have before, and none goes back. *)
NobodyNew ==
  \A p \in Processors :
    \/ proc'[p] = proc[p]
    \/ /\ proc'[p].job = proc[p].job /\ proc[p].at \in {"read", "send"}
    \/ proc'[p].at \notin {"read", "send"} /\ proc'[p].job = proc[p].job
    \/ proc'[p] = Free

LEMMA RunningKept ==
  ASSUME NobodyNew, NEW k \in Mail
  PROVE  Running(k)' \subseteq Running(k)
  <1>1. Free.at \notin {"read", "send"}
    BY RecordShapes
  <1> QED BY <1>1 DEF NobodyNew, Running

LEMMA JobsKept ==
  ASSUME NobodyNew, AskedFor \subseteq AskedFor', Called
  PROVE  \A p \in Processors : proc'[p].job \in Mail => proc'[p].job \in AskedFor'
  <1>1. Free.job \notin Mail
    BY RecordShapes, JobShapes
  <1> QED BY <1>1 DEF NobodyNew, Called

(* What a template or a row called for stays called for.                    *)
LEMMA AskedGrows ==
  ASSUME Typed, \A r \in Rows : was[r] \subseteq was'[r],
         \A t \in Templates : wanted[t] \subseteq wanted'[t]
  PROVE  AskedFor \subseteq AskedFor'
  BY JobShapes DEF AskedFor

LEMMA RowsSound ==
  ASSUME Sound, HistoryOK',
         \/ \E r \in Rows : Delete(r) \/ \E s \in Statuses : Move(r, s)
         \/ ChangeCsi
  PROVE  Promised
  <1>1. UNCHANGED <<template, logs, queue, stalls, tick, proc, wanted, sent, disturbed>>
    BY DEF Move, Delete, ChangeCsi, history
  <1>2. \A r \in Rows : was[r] \subseteq was'[r] /\ status'[r] \in was'[r] \cup {"deleted"}
    <2>1. /\ was \in [Rows -> SUBSET (Statuses \cup {"absent"})]
          /\ status \in [Rows -> Statuses \cup {"absent", "deleted"}]
          /\ \A r \in Rows : status[r] \in was[r] \cup {"deleted"}
      BY TypeParts DEF Sound, Typed, HistoryOK, Called
    <2> QED BY <2>1 DEF Move, Delete, ChangeCsi, history
  <1>3. AskedFor \subseteq AskedFor'
    BY <1>1, <1>2, AskedGrows DEF Sound
  <1>4. NobodyNew
    BY <1>1 DEF NobodyNew
  <1>5. Called'
    BY <1>1, <1>2, <1>3, <1>4, JobsKept DEF Sound, Called
  <1>6. Afforded'
    <2>1. \A k \in Mail : /\ Running(k)' \subseteq Running(k) /\ sent'[k] = sent[k]
                          /\ disturbed'[k] >= disturbed[k] /\ Safe(k)' = Safe(k)
                          /\ queue'[k] = queue[k]
      BY <1>1, <1>4, RunningKept, Counts DEF Safe, Remembered, LookedUp, LogOf
    <2> QED BY <1>1, <2>1, AffordedKept DEF Sound, Afforded
  <1> QED BY <1>1, <1>3, <1>5, <1>6, IsAsk DEF Promised

LEMMA TemplatesSound ==
  ASSUME Sound, HistoryOK',
         \/ \E t \in Templates : \E s \in Statuses : CreateTemplate(t, s)
         \/ \E t \in Templates : \E s \in Statuses : \E b \in BOOLEAN : UpdateTemplate(t, s, b)
         \/ \E t \in Templates : RemoveTemplate(t)
  PROVE  Promised
  <1>1. PICK t \in Templates, row \in TemplateRow : Save(t, row)
    <2>1. \A t \in Templates, s \in Statuses, b \in BOOLEAN :
            /\ [made |-> TRUE, active |-> TRUE, deleted |-> FALSE, trigger |-> s] \in TemplateRow
            /\ [template[t] EXCEPT !.trigger = s, !.active = b] \in TemplateRow
            /\ [template[t] EXCEPT !.active = FALSE, !.deleted = TRUE] \in TemplateRow
      BY TypeParts DEF Sound, Typed, TemplateRow
    <2>2. CASE \E t \in Templates : \E s \in Statuses : CreateTemplate(t, s)
      BY <2>1, <2>2 DEF CreateTemplate
    <2>3. CASE \E t \in Templates : \E s \in Statuses : \E b \in BOOLEAN : UpdateTemplate(t, s, b)
      BY <2>1, <2>3 DEF UpdateTemplate
    <2>4. CASE \E t \in Templates : RemoveTemplate(t)
      <3>1. PICK t \in Templates : RemoveTemplate(t)
        BY <2>4
      <3>2. [template[t] EXCEPT !.active = FALSE, !.deleted = TRUE] \in TemplateRow
        BY TypeParts DEF Sound, Typed, TemplateRow
      <3> QED BY <3>1, <3>2 DEF RemoveTemplate
    <2> QED BY <2>2, <2>3, <2>4
  <1>2. UNCHANGED <<status, csi, logs, queue, stalls, tick, proc, was, sent, disturbed>>
    BY <1>1 DEF Save
  <1>3. /\ template' = [template EXCEPT ![t] = row]
        /\ wanted' = [wanted EXCEPT ![t] = @ \cup {row.trigger}]
    BY <1>1 DEF Save
  <1>4. \A u \in Templates : /\ wanted[u] \subseteq wanted'[u]
                             /\ template'[u].made => template'[u].trigger \in wanted'[u]
    <2>1. template \in [Templates -> TemplateRow] /\ wanted \in [Templates -> SUBSET Statuses]
      BY TypeParts DEF Sound, Typed, HistoryOK
    <2> QED BY <1>3, <2>1 DEF Sound, Called
  <1>5. AskedFor \subseteq AskedFor'
    BY <1>2, <1>4, AskedGrows DEF Sound
  <1>6. NobodyNew
    BY <1>2 DEF NobodyNew
  <1>7. \A i \in Ticks : /\ tick'[i].found \subseteq AskedFor'
                         /\ \A e \in tick'[i].left : e.trigger \in wanted'[e.id]
    <2>1. \A i \in Ticks : \A e \in tick[i].left : e.id \in Templates
      BY TypeParts DEF Sound, Typed, TickRow
    <2> QED BY <1>2, <1>4, <1>5, <2>1 DEF Sound, Called
  <1>8. Called'
    BY <1>2, <1>4, <1>5, <1>6, <1>7, JobsKept DEF Sound, Called
  <1>9. Afforded'
    <2>1. \A k \in Mail : /\ Running(k)' \subseteq Running(k) /\ sent'[k] = sent[k]
                          /\ disturbed'[k] >= disturbed[k] /\ Safe(k)' = Safe(k)
                          /\ queue'[k] = queue[k]
      BY <1>2, <1>6, RunningKept, Counts DEF Safe, Remembered, LookedUp, LogOf
    <2> QED BY <1>2, <2>1, AffordedKept DEF Sound, Afforded
  <1> QED BY <1>2, <1>5, <1>8, <1>9, IsAsk DEF Promised

LEMMA RemoveHistorySound ==
  ASSUME Sound, HistoryOK', NEW l \in Logged, RemoveHistory(l)
  PROVE  Promised
  <1>1. UNCHANGED <<status, template, csi, queue, stalls, tick, proc, was, wanted, sent>>
    BY DEF RemoveHistory
  <1>2. NobodyNew /\ AskedFor' = AskedFor
    BY <1>1, AskedKept DEF NobodyNew
  <1>3. Called'
    BY <1>1, <1>2, JobsKept DEF Sound, Called
  <1>4. Afforded'
    <2> SUFFICES ASSUME NEW k \in Mail
                 PROVE  /\ Running(k)' \subseteq Running(k) /\ sent'[k] = sent[k]
                        /\ disturbed'[k] >= disturbed[k] /\ queue'[k] = queue[k]
                        /\ queue'[k].at = "none" /\ ~Safe(k)' => Spent(k) <= disturbed'[k]
      BY AffordedKept
    <2>1. disturbed'[k] = disturbed[k] + IF LookedUp(k) = l THEN 1 ELSE 0
      BY DEF RemoveHistory
    <2>2. LookedUp(k) # l => Safe(k)' = Safe(k)
      <3>1. logs \in [Logged -> Nat] /\ logs' = [logs EXCEPT ![l] = @ - 1]
        BY TypeParts DEF RemoveHistory, Sound, Typed
      <3>2. LookedUp(k)' = LookedUp(k)
        BY DEF LookedUp, LogOf
      <3>3. LookedUp(k) # l => Remembered(k)' = Remembered(k)
        BY <3>1, <3>2 DEF Remembered
      <3> QED BY <1>1, <3>3 DEF Safe
    <2>3. queue[k].at = "none" /\ ~Safe(k) => Spent(k) <= disturbed[k]
      BY DEF Sound, Afforded
    <2> QED BY <1>1, <1>2, <2>1, <2>2, <2>3, RunningKept, Counts
  <1>5. OnceNext
    <2>1. PICK some \in SUBSET Mail : some = {k \in Mail : LookedUp(k) = l}
      OBVIOUS
    <2>2. disturbed' = [m \in Mail |-> disturbed[m] + IF m \in some THEN 1 ELSE 0]
      BY <2>1 DEF RemoveHistory
    <2> QED BY <1>1, <2>2, IsDisturb
  <1> QED BY <1>3, <1>4, <1>5 DEF Promised

(* The runs of the cron job.                                                *)
LEMMA TickShrinks ==
  ASSUME Typed, NEW i \in Ticks, NEW e, NextTemplate(i, e) \/ EndTick(i)
  PROVE  \A j \in Ticks : /\ tick'[j].found \subseteq tick[j].found
                          /\ tick'[j].left \subseteq tick[j].left
  <1>1. tick \in [Ticks -> TickRow]
    BY TypeParts DEF Typed
  <1>2. /\ [Asleep EXCEPT !.at = "scan", !.left = tick[i].left \ {e}].found = {}
        /\ [Asleep EXCEPT !.at = "scan", !.left = tick[i].left \ {e}].left = tick[i].left \ {e}
        /\ Asleep.found = {} /\ Asleep.left = {}
    BY RecordShapes DEF Asleep
  <1> QED BY <1>1, <1>2 DEF NextTemplate, EndTick

(* A step of a cron run that adds nothing.                                  *)
LEMMA TickSound ==
  ASSUME Sound, HistoryOK',
         UNCHANGED <<status, template, csi, logs, queue, stalls, proc, history>>,
         \A j \in Ticks :
           /\ \A k \in tick'[j].found : /\ k \in AskedFor
                                        /\ k \in tick[j].found \/ ~Remembered(k)
           /\ \A e \in tick'[j].left : e.trigger \in wanted[e.id]
  PROVE  Promised
  <1>1. NobodyNew /\ AskedFor' = AskedFor
    BY AskedKept DEF NobodyNew, history
  <1>2. Called'
    BY <1>1, JobsKept DEF Sound, Called, history
  <1>3. Afforded'
    <2> SUFFICES ASSUME NEW k \in Mail
                 PROVE  /\ Running(k)' \subseteq Running(k) /\ sent'[k] = sent[k]
                        /\ disturbed'[k] >= disturbed[k] /\ queue'[k] = queue[k]
                        /\ ~Safe(k)' => ~Safe(k)
      BY AffordedKept DEF Sound, Afforded, history
    <2>1. LookedUp(k)' = LookedUp(k)
      BY DEF LookedUp, LogOf
    <2>2. Remembered(k)' = Remembered(k)
      BY <2>1 DEF Remembered
    <2>3. Safe(k) => Safe(k)'
      BY <2>2 DEF Safe
    <2> QED BY <1>1, <2>3, RunningKept, Counts DEF history
  <1> QED BY <1>2, <1>3, IsNothing DEF Promised

LEMMA ScanSound ==
  ASSUME Sound, HistoryOK', NEW i \in Ticks, NEW e \in tick[i].left, Scan(i, e)
  PROVE  Promised
  <1> DEFINE found == ToQueue(e.id, e.trigger)
  <1>1. tick \in [Ticks -> TickRow] /\ e \in [id : Templates, trigger : Statuses]
    BY TypeParts DEF Sound, Typed, TickRow
  <1>2. \A k \in found : k \in AskedFor /\ ~Remembered(k)
    <2> SUFFICES ASSUME NEW k \in found PROVE k \in AskedFor /\ ~Remembered(k)
      OBVIOUS
    <2>1. /\ k \in Mail /\ k.template = e.id /\ ~Remembered(k)
          /\ k.row \in Rows /\ status[k.row] = e.trigger
      BY DEF ToQueue, InStatus, Newest
    <2>2. e.trigger \in was[k.row]
      BY <1>1, <2>1, StatusesAssumption DEF Sound, Called
    <2>3. e.trigger \in wanted[k.template]
      BY <2>1 DEF Sound, Called
    <2> QED BY <2>1, <2>2, <2>3 DEF AskedFor
  <1>3. CASE NextTemplate(i, e) \/ EndTick(i)
    <2>1. \A j \in Ticks : /\ tick'[j].found \subseteq tick[j].found
                           /\ tick'[j].left \subseteq tick[j].left
      BY <1>3, TickShrinks DEF Sound
    <2>2. \A j \in Ticks :
           /\ \A k \in tick'[j].found : /\ k \in AskedFor
                                        /\ k \in tick[j].found \/ ~Remembered(k)
           /\ \A f \in tick'[j].left : f.trigger \in wanted[f.id]
      BY <2>1 DEF Sound, Called
    <2> QED BY <2>2, TickSound DEF Scan
  <1>4. CASE tick' = [tick EXCEPT ![i] = [tick[i] EXCEPT !.at = "add", !.found = found]]
    <2>1. \A j \in Ticks : /\ tick'[j].found = IF j = i THEN found ELSE tick[j].found
                           /\ tick'[j].left = tick[j].left
      BY <1>1, <1>4 DEF TickRow
    <2>2. \A j \in Ticks :
           /\ \A k \in tick'[j].found : /\ k \in AskedFor
                                        /\ k \in tick[j].found \/ ~Remembered(k)
           /\ \A f \in tick'[j].left : f.trigger \in wanted[f.id]
      BY <1>2, <2>1 DEF Sound, Called
    <2> QED BY <2>2, TickSound DEF Scan
  <1> QED BY <1>3, <1>4 DEF Scan

LEMMA TickStartSound ==
  ASSUME Sound, HistoryOK', NEW i \in Ticks, TickStart(i)
  PROVE  Promised
  <1> DEFINE left == {[id |-> t, trigger |-> template[t].trigger] : t \in Considered}
  <1>1. \A e \in left : e.trigger \in wanted[e.id]
    <2>1. \A t \in Considered : template[t].trigger \in wanted[t]
      BY DEF Considered, InForce, Sound, Called
    <2> QED BY <2>1
  <1>2. tick \in [Ticks -> TickRow]
    BY TypeParts DEF Sound, Typed
  <1>3. /\ [Asleep EXCEPT !.at = "scan", !.left = left].found = {}
        /\ [Asleep EXCEPT !.at = "scan", !.left = left].left = left
    BY DEF Asleep
  <1>4. \A j \in Ticks : /\ tick'[j].found \subseteq tick[j].found
                         /\ tick'[j].left = tick[j].left \/ tick'[j].left = left
    BY <1>2, <1>3 DEF TickStart
  <1>5. \A j \in Ticks :
           /\ \A k \in tick'[j].found : /\ k \in AskedFor
                                        /\ k \in tick[j].found \/ ~Remembered(k)
           /\ \A f \in tick'[j].left : f.trigger \in wanted[f.id]
    BY <1>1, <1>4 DEF Sound, Called
  <1> QED BY <1>5, TickSound DEF TickStart

LEMMA EnqueueFailsSound ==
  ASSUME Sound, HistoryOK', NEW i \in Ticks, NEW e \in tick[i].left, EnqueueFails(i, e)
  PROVE  Promised
  <1>1. \A j \in Ticks : /\ tick'[j].found \subseteq tick[j].found
                         /\ tick'[j].left \subseteq tick[j].left
    BY TickShrinks DEF EnqueueFails, Sound
  <1>2. \A j \in Ticks :
           /\ \A k \in tick'[j].found : /\ k \in AskedFor
                                        /\ k \in tick[j].found \/ ~Remembered(k)
           /\ \A f \in tick'[j].left : f.trigger \in wanted[f.id]
    BY <1>1 DEF Sound, Called
  <1> QED BY <1>2, TickSound DEF EnqueueFails

(* A job the run found is added when no log row or queue remembered it:      *)
(* what was about to be added was never safe.                               *)
LEMMA EnqueueSound ==
  ASSUME Sound, HistoryOK', NEW i \in Ticks, NEW e \in tick[i].left, Enqueue(i, e)
  PROVE  Promised
  <1>1. UNCHANGED <<status, template, csi, logs, stalls, proc, bounds, history>>
    BY DEF Enqueue
  <1>2. NobodyNew /\ AskedFor' = AskedFor
    BY <1>1, AskedKept DEF NobodyNew, history
  <1>3. \A j \in Ticks : /\ tick'[j].found \subseteq tick[j].found
                         /\ tick'[j].left \subseteq tick[j].left
    BY TickShrinks DEF Enqueue, Sound
  <1>4. \A k \in Mail : \/ queue'[k] = queue[k]
                        \/ /\ queue'[k].at = "waiting" /\ queue[k].at = "none"
                           /\ k \in tick[i].found
    BY JobShapes DEF Enqueue
  <1>5. Called'
    BY <1>1, <1>2, <1>3, <1>4, JobsKept DEF Sound, Called, history
  <1>6. Afforded'
    <2> SUFFICES ASSUME NEW k \in Mail
                 PROVE  /\ Running(k)' \subseteq Running(k) /\ sent'[k] = sent[k]
                        /\ disturbed'[k] >= disturbed[k]
                        /\ queue'[k].at = "waiting" => \/ queue[k].at = "waiting"
                                                       \/ Spent(k) <= disturbed'[k]
                        /\ queue'[k].at = "none" /\ ~Safe(k)' => Spent(k) <= disturbed'[k]
      BY AffordedKept
    <2>1. Remembered(k)' = Remembered(k)
      BY <1>1 DEF Remembered, LookedUp, LogOf
    <2>2. Safe(k) => Safe(k)'
      BY <1>3, <2>1 DEF Safe
    <2>3. k \in tick[i].found => ~Safe(k)
      BY DEF Safe
    <2>4. queue[k].at = "none" /\ ~Safe(k) => Spent(k) <= disturbed[k]
      BY DEF Sound, Afforded
    <2> QED BY <1>1, <1>2, <1>4, <2>2, <2>3, <2>4, RunningKept, Counts DEF history
  <1> QED BY <1>1, <1>5, <1>6, IsNothing DEF Promised

LEMMA TickNextSound ==
  ASSUME Sound, HistoryOK', NEW i \in Ticks, TickNext(i)
  PROVE  Promised
  BY TickStartSound, ScanSound, EnqueueSound, EnqueueFailsSound DEF TickNext

(* Steps that change neither the runs nor what is called for, and put no    *)
(* mail back into the queue that could not be afforded.                     *)
LEMMA QueueSound ==
  ASSUME Sound, HistoryOK', NobodyNew,
         UNCHANGED <<status, template, csi, tick, was, wanted, sent>>,
         logs' \in [Logged -> Nat], \A l \in Logged : logs'[l] >= logs[l],
         \A k \in Mail :
           /\ disturbed'[k] >= disturbed[k]
           /\ \/ queue'[k] = queue[k]
              \/ queue'[k].at = "waiting" /\ Spent(k) <= disturbed'[k] /\ queue[k].at # "none"
              \/ queue'[k].at \in {"done", "failed"} /\ queue[k].at # "none"
              \/ queue'[k].at = "none" /\ (Safe(k)' \/ Spent(k) <= disturbed'[k])
  PROVE  Called' /\ Afforded'
  <1>1. AskedFor' = AskedFor
    BY AskedKept
  <1>2. \A k \in Mail : queue'[k].at # "none" => queue[k].at # "none"
    OBVIOUS
  <1>3. Called'
    BY <1>1, <1>2, JobsKept DEF Sound, Called
  <1>4. Afforded'
    <2> SUFFICES ASSUME NEW k \in Mail
                 PROVE  /\ Running(k)' \subseteq Running(k) /\ sent'[k] = sent[k]
                        /\ disturbed'[k] >= disturbed[k]
                        /\ queue'[k].at = "waiting" => \/ queue[k].at = "waiting"
                                                       \/ Spent(k) <= disturbed'[k]
                        /\ queue'[k].at = "none" /\ ~Safe(k)' => Spent(k) <= disturbed'[k]
      BY AffordedKept
    <2>1. LookedUp(k)' = LookedUp(k)
      BY DEF LookedUp, LogOf
    <2>2. \A l \in Logged : logs[l] \in Nat /\ logs'[l] \in Nat /\ logs'[l] >= logs[l]
      BY TypeParts DEF Sound, Typed
    <2>3. Remembered(k) => Remembered(k)'
      <3>1. SUFFICES ASSUME Remembered(k) PROVE LookedUp(k) \in Logged /\ logs'[LookedUp(k)] > 0
        BY <2>1 DEF Remembered
      <3> QED BY <2>2, <3>1 DEF Remembered
    <2>4. Safe(k) => Safe(k)'
      BY <2>3 DEF Safe
    <2>5. queue[k].at = "none" /\ ~Safe(k) => Spent(k) <= disturbed[k]
      BY DEF Sound, Afforded
    <2>6. queue'[k] = queue[k] /\ queue'[k].at = "none" /\ ~Safe(k)' => Spent(k) <= disturbed'[k]
      <3>1. disturbed'[k] \in Nat /\ disturbed'[k] >= disturbed[k]
        BY DEF HistoryOK
      <3> QED BY <2>4, <2>5, <3>1, Counts
    <2> QED BY <2>6, RunningKept
  <1> QED BY <1>3, <1>4

LEMMA SendByHandSound ==
  ASSUME Sound, HistoryOK', NEW h \in HandMail, SendByHand(h)
  PROVE  Promised
  <1>1. NobodyNew
    BY DEF SendByHand, NobodyNew
  <1>2. \A k \in Mail : queue'[k] = queue[k] /\ disturbed'[k] = disturbed[k]
    BY JobShapes DEF SendByHand, history
  <1>3. logs' \in [Logged -> Nat] /\ \A l \in Logged : logs'[l] >= logs[l]
    BY TypeParts DEF SendByHand, Sound, Typed
  <1>4. Called' /\ Afforded'
    BY <1>1, <1>2, <1>3, QueueSound, Counts DEF SendByHand, history
  <1> QED BY <1>4, IsNothing DEF SendByHand, Promised

(* Whoever takes a waiting mail finds its earlier sendings paid for.        *)
LEMMA TakeSound ==
  ASSUME Sound, HistoryOK', NEW p \in Processors, NEW k \in Job, Take(p, k)
  PROVE  Promised
  <1>1. UNCHANGED <<status, template, csi, logs, stalls, tick, bounds, history>>
    BY DEF Take
  <1>2. AskedFor' = AskedFor
    BY <1>1, AskedKept DEF history
  <1>3. /\ queue \in [Job -> JobRow] /\ proc \in [Processors -> ProcRow]
        /\ queue[k].at = "waiting" /\ queue' = [queue EXCEPT ![k] = [at |-> "active", by |-> p]]
        /\ proc[p] = Free
        /\ proc' = [proc EXCEPT ![p] = [at |-> "read", job |-> k, as |-> k.template]]
    BY TypeParts DEF Take, Work, Sound, Typed
  <1>4. Called'
    <2>1. k \in Mail => k \in AskedFor
      BY <1>3 DEF Sound, Called
    <2>2. \A m \in Mail : queue'[m].at # "none" => m \in AskedFor'
      BY <1>2, <1>3, <2>1, JobShapes DEF Sound, Called
    <2>3. \A q \in Processors : proc'[q].job \in Mail => proc'[q].job \in AskedFor'
      BY <1>2, <1>3, <2>1 DEF Sound, Called
    <2> QED BY <1>1, <1>2, <2>2, <2>3 DEF Sound, Called, history
  <1>5. ASSUME NEW m \in Mail
        PROVE  /\ IsFiniteSet(Running(m)')
               /\ Spent(m)' <= disturbed'[m] + 1
               /\ queue'[m].at = "waiting" => Spent(m)' <= disturbed'[m]
               /\ queue'[m].at = "none" /\ ~Safe(m)' => Spent(m)' <= disturbed'[m]
    <2>1. m \in Job /\ sent'[m] = sent[m] /\ disturbed'[m] = disturbed[m]
      BY <1>1, JobShapes DEF history
    <2>2. Safe(m)' = Safe(m)
      BY <1>1 DEF Safe, Remembered, LookedUp, LogOf
    <2>3. Free.at \notin {"read", "send"}
      BY RecordShapes
    <2>4. \A q \in Processors :
            proc'[q] = IF q = p THEN [at |-> "read", job |-> k, as |-> k.template] ELSE proc[q]
      BY <1>3
    <2>5. CASE m # k
      <3>1. Running(m)' = Running(m)
        BY <1>3, <2>3, <2>4, <2>5 DEF Running
      <3>2. Spent(m)' = Spent(m) /\ queue'[m] = queue[m]
        BY <1>3, <2>1, <2>5, <3>1 DEF Spent
      <3> QED BY <2>1, <2>2, <3>1, <3>2 DEF Sound, Afforded
    <2>6. CASE m = k
      <3>1. Running(m)' = Running(m) \cup {p} /\ p \notin Running(m)
        BY <1>3, <2>3, <2>4, <2>6 DEF Running
      <3>2. /\ IsFiniteSet(Running(m)')
            /\ Cardinality(Running(m)') = Cardinality(Running(m)) + 1
        BY <3>1, Counts, FS_AddElement
      <3>3. Spent(m)' = sent[m] + Cardinality(Running(m)')
        BY <2>1 DEF Spent
      <3>4. Spent(m)' = Spent(m) + 1
        BY <3>2, <3>3, Counts DEF Spent
      <3>5. Spent(m) <= disturbed[m]
        BY <1>3, <2>6 DEF Sound, Afforded
      <3>6. queue'[m].at = "active"
        BY <1>3, <2>6
      <3> QED BY <2>1, <3>2, <3>4, <3>5, <3>6, Counts
    <2> QED BY <2>5, <2>6
  <1>6. Afforded'
    BY <1>5 DEF Afforded
  <1> QED BY <1>1, <1>4, <1>6, IsNothing DEF Promised

LEMMA ReadSound ==
  ASSUME Sound, HistoryOK', NEW p \in Processors, Read(p)
  PROVE  Promised
  <1>1. PICK s \in {"send", "log", "finish"}, t \in Templates \cup {0} :
           Goto(p, s) \/ Work(p, [proc[p] EXCEPT !.at = s, !.as = t])
    BY ReadGoes DEF Sound
  <1>2. proc[p].at = "read"
    BY DEF Read
  <1>3. proc'[p].job = proc[p].job /\ \A q \in Processors : q # p => proc'[q] = proc[q]
    BY <1>1, <1>2, GotoMoves DEF Sound
  <1>4. NobodyNew
    BY <1>2, <1>3 DEF NobodyNew
  <1>5. UNCHANGED <<status, template, csi, logs, queue, stalls, tick, history>>
    BY DEF Read
  <1>6. logs' \in [Logged -> Nat] /\ \A l \in Logged : logs'[l] >= logs[l]
    BY <1>5, TypeParts DEF Sound, Typed
  <1>7. Called' /\ Afforded'
    BY <1>4, <1>5, <1>6, QueueSound, Counts DEF history
  <1> QED BY <1>5, <1>7, IsNothing DEF Promised

LEMMA LogSound ==
  ASSUME Sound, HistoryOK', NEW p \in Processors,
         SendFails(p) \/ Log(p) \/ LogFails(p)
  PROVE  Promised
  <1>1. /\ proc'[p].at = "finish" /\ proc'[p].job = proc[p].job
        /\ \A q \in Processors : q # p => proc'[q] = proc[q]
    BY GotoMoves DEF Sound, SendFails, Log, LogFails
  <1>2. NobodyNew
    BY <1>1 DEF NobodyNew
  <1>3. UNCHANGED <<status, template, csi, queue, stalls, tick, history>>
    BY DEF SendFails, Log, LogFails
  <1>4. logs' \in [Logged -> Nat] /\ \A l \in Logged : logs'[l] >= logs[l]
    BY TypeParts DEF Sound, Typed, SendFails, Log, LogFails
  <1>5. Called' /\ Afforded'
    BY <1>2, <1>3, <1>4, QueueSound, Counts DEF history
  <1> QED BY <1>3, <1>5, IsNothing DEF Promised

(* Only a processor counted among those that still may send sends.          *)
LEMMA SendSound ==
  ASSUME Sound, HistoryOK', NEW p \in Processors, Send(p)
  PROVE  Promised
  <1>1. UNCHANGED <<status, template, csi, logs, queue, stalls, tick, was, wanted, disturbed>>
    BY DEF Send
  <1>2. AskedFor' = AskedFor
    BY <1>1, AskedKept
  <1> DEFINE k == proc[p].job
  <1>3. /\ k \in Job /\ sent' = [sent EXCEPT ![k] = @ + 1] /\ sent \in [Job -> Nat]
        /\ proc[p].at = "send" /\ proc'[p].at = "log" /\ proc'[p].job = k
        /\ \A q \in Processors : q # p => proc'[q] = proc[q]
    BY ProcTyped, GotoMoves DEF Sound, Typed, HistoryOK, Send
  <1>4. NobodyNew
    BY <1>3 DEF NobodyNew
  <1>5. Called'
    BY <1>1, <1>2, <1>4, JobsKept DEF Sound, Called
  <1>6. ASSUME NEW m \in Mail
        PROVE  /\ IsFiniteSet(Running(m)') /\ Spent(m)' = Spent(m)
               /\ m = k => sent[m] <= disturbed[m]
    <2>1. CASE m # k
      <3>1. Running(m)' = Running(m)
        BY <1>3, <2>1 DEF Running
      <3>2. sent'[m] = sent[m]
        BY <1>3, <2>1, JobShapes
      <3> QED BY <2>1, <3>1, <3>2, Counts DEF Spent
    <2>2. CASE m = k
      <3>1. Running(m)' = Running(m) \ {p} /\ p \in Running(m)
        BY <1>3, <2>2 DEF Running
      <3>2. /\ IsFiniteSet(Running(m)')
            /\ Cardinality(Running(m)') = Cardinality(Running(m)) - 1
        BY <3>1, Counts, FS_RemoveElement
      <3>3. sent'[m] = sent[m] + 1
        BY <1>3, <2>2
      <3>4. Spent(m)' = sent'[m] + Cardinality(Running(m)')
        BY DEF Spent
      <3>5. Cardinality(Running(m)') \in Nat
        BY <3>2, FS_CardinalityType
      <3>6. Spent(m) = sent[m] + Cardinality(Running(m))
        BY DEF Spent
      <3> QED BY <3>2, <3>3, <3>4, <3>5, <3>6, Counts
    <2> QED BY <2>1, <2>2
  <1>7. Afforded'
    <2>1. \A m \in Mail : Safe(m)' = Safe(m)
      BY <1>1 DEF Safe, Remembered, LookedUp, LogOf
    <2> QED BY <1>1, <1>6, <2>1 DEF Sound, Afforded
  <1>8. OnceNext
    <2>1. CASE k \in Mail
      <3>1. k \in AskedFor
        BY <2>1 DEF Sound, Called
      <3>2. PICK m \in Mail : m = k
        BY <2>1
      <3> QED BY <1>1, <1>3, <1>6, <3>1, <3>2, IsSend DEF Sound
    <2>2. CASE k \in HandMail
      <3>1. PICK m \in HandMail : m = k
        BY <2>2
      <3> QED BY <1>1, <1>3, <3>1, IsHandSend DEF Sound
    <2> QED BY <1>3, <2>1, <2>2 DEF Job
  <1> QED BY <1>5, <1>7, <1>8 DEF Promised

LEMMA FinishSound ==
  ASSUME Sound, HistoryOK', NEW p \in Processors, Finish(p) \/ Die(p)
  PROVE  Promised
  <1>1. /\ UNCHANGED <<status, template, csi, logs, stalls, tick, history>>
        /\ proc' = [proc EXCEPT ![p] = Free]
    BY DEF Finish, Die, Work
  <1>2. NobodyNew
    BY <1>1, TypeParts DEF NobodyNew, Sound, Typed
  <1>3. logs' \in [Logged -> Nat] /\ \A l \in Logged : logs'[l] >= logs[l]
    BY <1>1, TypeParts DEF Sound, Typed
  <1>4. \A k \in Mail : \/ queue'[k] = queue[k]
                        \/ queue'[k].at = "done" /\ queue[k].at # "none"
    <2>1. \A k \in Mail : queue[k].by = p => queue[k].at # "none"
      BY WorkersAssumption, TypeParts DEF Sound, Typed
    <2> QED BY <2>1, TypeParts, JobShapes DEF Finish, Die, Sound, Typed
  <1>5. Called' /\ Afforded'
    BY <1>1, <1>2, <1>3, <1>4, QueueSound, Counts DEF history
  <1> QED BY <1>1, <1>5, IsNothing DEF Promised

(* A lock that expires puts the mail back, and is a disturbance.            *)
LEMMA StallSound ==
  ASSUME Sound, HistoryOK', NEW k \in Job, Stall(k)
  PROVE  Promised
  <1>1. UNCHANGED <<status, template, csi, logs, tick, proc, was, wanted, sent>>
    BY DEF Stall
  <1>2. NobodyNew /\ logs' \in [Logged -> Nat] /\ \A l \in Logged : logs'[l] >= logs[l]
    BY <1>1, TypeParts DEF NobodyNew, Sound, Typed
  <1>3. \A m \in Mail :
          /\ disturbed'[m] = disturbed[m] + IF m = k THEN 1 ELSE 0
          /\ m # k => queue'[m] = queue[m]
          /\ m = k => queue'[m].at \in {"waiting", "failed"} /\ queue[m].at = "active"
    BY TypeParts, JobShapes DEF Stall, Sound, Typed
  <1>4. Called' /\ Afforded'
    BY <1>1, <1>2, <1>3, QueueSound, Counts
  <1>5. OnceNext
    <2>1. PICK some \in SUBSET Mail : some = {m \in Mail : m = k}
      OBVIOUS
    <2>2. disturbed' = [m \in Mail |-> disturbed[m] + IF m \in some THEN 1 ELSE 0]
      BY <2>1 DEF Stall
    <2> QED BY <1>1, <2>2, IsDisturb
  <1> QED BY <1>4, <1>5 DEF Promised

(* What Redis forgot may be queued again only where the log does not know   *)
(* it, and there the loss is a disturbance.                                 *)
LEMMA RedisSound ==
  ASSUME Sound, HistoryOK', RedisLoses
  PROVE  Promised
  <1>1. UNCHANGED <<status, template, csi, logs, tick, proc, was, wanted, sent>>
    BY DEF RedisLoses
  <1>2. NobodyNew /\ logs' \in [Logged -> Nat] /\ \A l \in Logged : logs'[l] >= logs[l]
    BY <1>1, TypeParts DEF NobodyNew, Sound, Typed
  <1>3. \A m \in Mail :
          /\ disturbed'[m] = disturbed[m] + IF Safe(m) THEN 0 ELSE 1
          /\ queue'[m].at = "none"
          /\ Safe(m)' = Safe(m)
    BY <1>1, JobShapes, RecordShapes DEF RedisLoses, Safe, Remembered, LookedUp, LogOf
  <1>4. \A m \in Mail : disturbed'[m] >= disturbed[m] /\ (Safe(m)' \/ Spent(m) <= disturbed'[m])
    BY <1>3, Counts
  <1>5. Called' /\ Afforded'
    BY <1>1, <1>2, <1>3, <1>4, QueueSound
  <1>6. OnceNext
    <2>1. PICK some \in SUBSET Mail : some = {m \in Mail : ~Safe(m)}
      OBVIOUS
    <2>2. disturbed' = [m \in Mail |-> disturbed[m] + IF m \in some THEN 1 ELSE 0]
      BY <2>1 DEF RedisLoses
    <2> QED BY <1>1, <2>2, IsDisturb
  <1> QED BY <1>5, <1>6 DEF Promised

LEMMA InitSound == Init => Sound /\ Once!Init
  <1> SUFFICES ASSUME Init PROVE Sound /\ Once!Init
    OBVIOUS
  <1>1. Typed
    BY InitTyped
  <1>2. Called
    BY JobShapes, RecordShapes DEF Init, Called, NoTemplate
  <1>3. Afforded
    <2> SUFFICES ASSUME NEW k \in Mail
                 PROVE  IsFiniteSet(Running(k)) /\ Spent(k) = 0 /\ disturbed[k] = 0
      BY DEF Afforded
    <2>1. Running(k) = {}
      BY RecordShapes DEF Init, Running
    <2> QED BY <2>1, FS_EmptySet, JobShapes DEF Init, Spent
  <1>4. Once!Init
    <2>1. [k \in Mail |-> sent[k]] = [k \in Mail |-> 0]
      BY JobShapes DEF Init
    <2> QED BY <2>1 DEF Once!Init, Init
  <1> QED BY <1>1, <1>2, <1>3, <1>4 DEF Sound

LEMMA NextSound == Sound /\ [Next]_vars => Sound' /\ OnceNext
  <1> SUFFICES ASSUME Sound, [Next]_vars PROVE Sound' /\ OnceNext
    OBVIOUS
  <1>1. Typed' /\ HistoryOK'
    BY NextTyped DEF Sound, Typed
  <1>2. Promised
    <2>1. CASE UNCHANGED vars
      <3>1. UNCHANGED <<status, template, csi, logs, queue, stalls, tick, proc, history>>
        BY <2>1 DEF vars, history
      <3>2. NobodyNew /\ logs' \in [Logged -> Nat] /\ \A l \in Logged : logs'[l] >= logs[l]
        BY <3>1, TypeParts DEF NobodyNew, Sound, Typed
      <3>3. Called' /\ Afforded'
        BY <1>1, <3>1, <3>2, QueueSound, Counts DEF history
      <3> QED BY <3>1, <3>3, IsNothing DEF Promised
    <2>2. ASSUME NEW p \in Processors, ProcNext(p) PROVE Promised
      BY <1>1, <2>2, TakeSound, ReadSound, LogSound, SendSound, FinishSound DEF ProcNext
    <2>3. CASE \/ \E r \in Rows : Delete(r) \/ \E s \in Statuses : Move(r, s)
               \/ ChangeCsi
      BY <1>1, <2>3, RowsSound
    <2>4. CASE \/ \E t \in Templates : \E s \in Statuses : CreateTemplate(t, s)
               \/ \E t \in Templates : \E s \in Statuses : \E b \in BOOLEAN : UpdateTemplate(t, s, b)
               \/ \E t \in Templates : RemoveTemplate(t)
      BY <1>1, <2>4, TemplatesSound
    <2>5. CASE \/ \E l \in Logged : RemoveHistory(l)
               \/ \E i \in Ticks : TickNext(i)
               \/ \E k \in HandMail : SendByHand(k)
               \/ \E k \in Job : Stall(k)
               \/ RedisLoses
      BY <1>1, <2>5, RemoveHistorySound, TickNextSound, SendByHandSound, StallSound, RedisSound
    <2> QED BY <2>1, <2>2, <2>3, <2>4, <2>5, Zenon DEF Next
  <1> QED BY <1>1, <1>2 DEF Sound, Promised

(* The mail system implements MailOnce: a mail goes out only for a row that  *)
(* was in a status its template was about, and at most once more than it    *)
(* was disturbed by an expired lock, a loss of Redis or a deleted log row.  *)
THEOREM SpecSentOnce == Spec => SentOnce
  <1>1. Init => Sound /\ Once!Init
    BY InitSound
  <1>2. Sound /\ [Next]_vars => Sound' /\ [Once!Next]_(Once!vars)
    BY NextSound DEF OnceNext
  <1> QED BY <1>1, <1>2, PTL DEF Spec, SentOnce, Once!Spec

-----------------------------------------------------------------------------
(* The log and the mail server: who has sent a mail owes the log a row, and  *)
(* the rows written and owed are never more than the mails sent.            *)
Owed(l) == {p \in Processors : proc[p].at = "log" /\ proc[p].job.row.order = l[1] /\ proc[p].as = l[2]}
Titled ==
  \A p \in Processors : proc[p].at \in {"send", "log"} =>
    /\ proc[p].as \in Templates /\ proc[p].job \in Job
    /\ proc[p].job.template \in {0, proc[p].as}
Balance(l) == logs[l] + Cardinality(Owed(l)) <= SumFunctionOnSet(sent, Answering(l))
Covered == \A l \in Logged : l[1] \in HasEmail => Balance(l)

LEMMA OwedCounts ==
  \A l : IsFiniteSet(Owed(l)) /\ Cardinality(Owed(l)) \in Nat
  BY FiniteAssumption, FS_Subset, FS_CardinalityType DEF Owed

LEMMA SentCounts ==
  ASSUME HistoryOK, NEW l
  PROVE  /\ IsFiniteSet(Answering(l)) /\ \A k \in Answering(l) : sent[k] \in Nat
         /\ SumFunctionOnSet(sent, Answering(l)) \in Nat
  <1>1. IsFiniteSet(Answering(l)) /\ Answering(l) \subseteq Job
    BY FiniteAssumption, FS_Subset DEF Answering
  <1>2. \A k \in Answering(l) : sent[k] \in Nat
    BY <1>1 DEF HistoryOK
  <1> QED BY <1>1, <1>2, SumIsNat

(* Nobody comes to owe a row.                                               *)
LEMMA NobodyOwes ==
  ASSUME Typed, Titled, Covered, sent' = sent, logs' \in [Logged -> Nat],
         \A l \in Logged : logs'[l] <= logs[l],
         \A p \in Processors : proc'[p] = proc[p] \/ proc'[p].at \notin {"send", "log"}
  PROVE  Titled' /\ Covered'
  <1>1. Titled'
    BY DEF Titled
  <1>2. ASSUME NEW l \in Logged, l[1] \in HasEmail
        PROVE  Balance(l)'
    <2>1. Owed(l)' \subseteq Owed(l)
      BY DEF Owed
    <2>2. PICK O : O = Owed(l)'
      OBVIOUS
    <2>3. Cardinality(O) <= Cardinality(Owed(l)) /\ Cardinality(O) \in Nat
      BY <2>1, <2>2, OwedCounts, FS_Subset, FS_CardinalityType
    <2>4. logs[l] \in Nat /\ logs'[l] \in Nat /\ logs'[l] <= logs[l]
      BY TypeParts DEF Typed
    <2>5. Balance(l) /\ SumFunctionOnSet(sent, Answering(l)) \in Nat /\ Cardinality(Owed(l)) \in Nat
      BY <1>2, SentCounts, OwedCounts DEF Covered, Typed
    <2> QED BY <2>2, <2>3, <2>4, <2>5 DEF Balance
  <1> QED BY <1>1, <1>2 DEF Covered

(* What a processor has read decides whom it owes a row.                    *)
LEMMA ReadFinds ==
  ASSUME Typed, NEW p \in Processors, Read(p)
  PROVE  \/ \E t \in Templates : /\ Work(p, [proc[p] EXCEPT !.at = "send", !.as = t])
                                 /\ proc[p].job.template \in {0, t}
         \/ \E t \in Templates : /\ Work(p, [proc[p] EXCEPT !.at = "log", !.as = t])
                                 /\ proc[p].job.template \in {0, t}
                                 /\ proc[p].job.row.order \notin HasEmail
         \/ Goto(p, "finish")
  <1> DEFINE k == proc[p].job
             m == Message(k)
  <1>1. m # {} => Min(m) \in m
    BY MinTyped DEF Message
  <1>2. \A t \in m : t \in Templates /\ k.template \in {0, t}
    BY DEF Message
  <1>3. \/ /\ Work(p, [proc[p] EXCEPT !.at = "send", !.as = Min(m)]) /\ m # {}
        \/ /\ Work(p, [proc[p] EXCEPT !.at = "log", !.as = Min(m)]) /\ m # {}
           /\ k.row.order \notin HasEmail
        \/ Goto(p, "finish")
    BY DEF Read
  <1> QED BY <1>1, <1>2, <1>3

LEMMA WorkMoves ==
  ASSUME Typed, NEW p \in Processors, proc[p].at # "idle",
         NEW s \in {"read", "send", "log", "finish"}, NEW t \in Templates,
         Work(p, [proc[p] EXCEPT !.at = s, !.as = t])
  PROVE  /\ proc'[p].at = s /\ proc'[p].job = proc[p].job /\ proc'[p].as = t
         /\ \A q \in Processors : q # p => proc'[q] = proc[q]
  BY ProcTyped, TypeParts DEF Typed, Work, ProcRow

LEMMA ReadCovers ==
  ASSUME Typed, Titled, Covered, NEW p \in Processors, Read(p)
  PROVE  Titled' /\ Covered'
  <1>r. proc[p].at = "read" /\ sent' = sent /\ logs' = logs
    BY DEF Read, history
  <1>0. /\ proc[p].at = "read" /\ sent' = sent /\ logs' = logs
        /\ proc[p] \in ProcRow /\ proc[p].job # NoJob
    BY <1>r, TypeParts DEF Typed
  <1>j. proc[p].job \in Job
    BY <1>0 DEF ProcRow
  <1>1. CASE Goto(p, "finish")
    <2>1. \A q \in Processors : proc'[q] = proc[q] \/ proc'[q].at \notin {"send", "log"}
      BY <1>0, <1>1, GotoMoves
    <2>2. logs' \in [Logged -> Nat] /\ \A l \in Logged : logs'[l] <= logs[l]
      BY <1>0, TypeParts DEF Typed
    <2> QED BY <1>0, <2>1, <2>2, NobodyOwes
  <1>2. ASSUME NEW t \in Templates, NEW s \in {"send", "log"},
               Work(p, [proc[p] EXCEPT !.at = s, !.as = t]), proc[p].job.template \in {0, t},
               s = "log" => proc[p].job.row.order \notin HasEmail
        PROVE  Titled' /\ Covered'
    <2>1. /\ proc'[p].at = s /\ proc'[p].job = proc[p].job /\ proc'[p].as = t
          /\ \A q \in Processors : q # p => proc'[q] = proc[q]
      BY <1>0, <1>2, WorkMoves
    <2>2. Titled'
      BY <1>2, <1>j, <2>1 DEF Titled
    <2>3. ASSUME NEW l \in Logged, l[1] \in HasEmail
          PROVE  Balance(l)'
      <3>1. Owed(l)' = Owed(l)
        BY <1>0, <1>2, <2>1, <2>3 DEF Owed
      <3> QED BY <1>0, <2>3, <3>1 DEF Covered, Balance
    <2> QED BY <2>2, <2>3 DEF Covered
  <1> QED BY <1>1, <1>2, ReadFinds

(* A mail goes out: one more row is owed, and one more mail answers it.     *)
LEMMA SendCovers ==
  ASSUME Typed, Titled, Covered, NEW p \in Processors, Send(p)
  PROVE  Titled' /\ Covered'
  <1>0. /\ proc[p].at = "send" /\ logs' = logs /\ sent' = [sent EXCEPT ![proc[p].job] = @ + 1]
        /\ sent \in [Job -> Nat] /\ logs \in [Logged -> Nat] /\ Goto(p, "log")
    BY TypeParts DEF Send, Typed, HistoryOK
  <1>1. PICK k \in Job : k = proc[p].job
    BY <1>0 DEF Titled
  <1>2. PICK t \in Templates : t = proc[p].as
    BY <1>0 DEF Titled
  <1>3. /\ proc'[p].at = "log" /\ proc'[p].job = k /\ proc'[p].as = t
        /\ \A q \in Processors : q # p => proc'[q] = proc[q]
    BY <1>0, <1>1, <1>2, ProcTyped, TypeParts DEF Typed, Goto, Work, ProcRow
  <1>4. k.template \in {0, t}
    BY <1>0, <1>1, <1>2 DEF Titled
  <1>5. Titled'
    BY <1>3, <1>4 DEF Titled
  <1>6. ASSUME NEW l \in Logged, l[1] \in HasEmail
        PROVE  Balance(l)'
    <2>1. PICK S : S = SumFunctionOnSet(sent, Answering(l))
      OBVIOUS
    <2>2. S \in Nat /\ IsFiniteSet(Answering(l)) /\ \A x \in Answering(l) : sent[x] \in Nat
      BY <2>1, SentCounts DEF Typed
    <2>3. \A x \in Answering(l) : sent'[x] = IF x = k THEN sent[x] + 1 ELSE sent[x]
      BY <1>0, <1>1 DEF Answering
    <2>4. SumFunctionOnSet(sent', Answering(l)) = IF k \in Answering(l) THEN S + 1 ELSE S
      BY <2>1, <2>2, <2>3, SumMoves
    <2>5. logs[l] + Cardinality(Owed(l)) <= S /\ logs[l] \in Nat /\ Cardinality(Owed(l)) \in Nat
      BY <1>0, <1>6, <2>1, OwedCounts DEF Covered, Balance
    <2>6. PICK O : O = Owed(l)'
      OBVIOUS
    <2>7. CASE k.row.order = l[1] /\ t = l[2]
      <3>1. k \in Answering(l)
        BY <1>4, <2>7 DEF Answering
      <3>2. O = Owed(l) \cup {p} /\ p \notin Owed(l)
        BY <1>0, <1>3, <2>6, <2>7 DEF Owed
      <3>3. Cardinality(O) = Cardinality(Owed(l)) + 1
        BY <3>2, OwedCounts, FS_AddElement
      <3> QED BY <1>0, <2>2, <2>4, <2>5, <2>6, <3>1, <3>3 DEF Balance
    <2>8. CASE ~(k.row.order = l[1] /\ t = l[2])
      <3>1. O = Owed(l)
        BY <1>0, <1>3, <2>6, <2>8 DEF Owed
      <3> QED BY <1>0, <2>2, <2>4, <2>5, <2>6, <3>1 DEF Balance
    <2> QED BY <2>7, <2>8
  <1> QED BY <1>5, <1>6 DEF Covered

(* The row owed is written.                                                 *)
LEMMA LogCovers ==
  ASSUME Typed, Titled, Covered, NEW p \in Processors, Log(p)
  PROVE  Titled' /\ Covered'
  <1>0. /\ proc[p].at = "log" /\ sent' = sent /\ logs \in [Logged -> Nat] /\ Goto(p, "finish")
        /\ logs' = [logs EXCEPT ![<<proc[p].job.row.order, proc[p].as>>] = @ + 1]
    BY TypeParts DEF Log, history, Typed
  <1>1. PICK k \in Job : k = proc[p].job
    BY <1>0 DEF Titled
  <1>2. PICK t \in Templates : t = proc[p].as
    BY <1>0 DEF Titled
  <1>3. proc'[p].at = "finish" /\ \A q \in Processors : q # p => proc'[q] = proc[q]
    BY <1>0, GotoMoves
  <1>4. Titled'
    BY <1>3 DEF Titled
  <1>5. ASSUME NEW l \in Logged, l[1] \in HasEmail
        PROVE  Balance(l)'
    <2>1. l = <<l[1], l[2]>>
      BY DEF Logged
    <2>2. Balance(l) /\ SumFunctionOnSet(sent, Answering(l)) \in Nat
          /\ logs[l] \in Nat /\ Cardinality(Owed(l)) \in Nat
      BY <1>0, <1>5, SentCounts, OwedCounts DEF Covered, Typed
    <2>3. PICK O : O = Owed(l)'
      OBVIOUS
    <2>4. CASE k.row.order = l[1] /\ t = l[2]
      <3>1. logs'[l] = logs[l] + 1
        BY <1>0, <1>1, <1>2, <2>1, <2>4
      <3>2. O = Owed(l) \ {p} /\ p \in Owed(l)
        BY <1>0, <1>1, <1>2, <1>3, <2>3, <2>4 DEF Owed
      <3>3. Cardinality(O) = Cardinality(Owed(l)) - 1
        BY <3>2, OwedCounts, FS_RemoveElement
      <3> QED BY <1>0, <2>2, <2>3, <3>1, <3>3 DEF Balance
    <2>5. CASE ~(k.row.order = l[1] /\ t = l[2])
      <3>1. logs'[l] = logs[l]
        BY <1>0, <1>1, <1>2, <2>1, <2>5
      <3>2. O = Owed(l)
        BY <1>0, <1>1, <1>2, <1>3, <2>3, <2>5 DEF Owed
      <3> QED BY <1>0, <2>2, <2>3, <3>1, <3>2 DEF Balance
    <2> QED BY <2>4, <2>5
  <1> QED BY <1>4, <1>5 DEF Covered

LEMMA NextCovers ==
  ASSUME Typed, Titled, Covered, [Next]_vars
  PROVE  Titled' /\ Covered'
  <1>0. logs \in [Logged -> Nat]
    BY TypeParts DEF Typed
  <1>1. ASSUME UNCHANGED <<proc, logs, sent>>
        PROVE  Titled' /\ Covered'
    <2>1. logs' \in [Logged -> Nat] /\ \A l \in Logged : logs'[l] <= logs[l]
      BY <1>0, <1>1
    <2> QED BY <1>1, <2>1, NobodyOwes
  <1>2. ASSUME NEW p \in Processors, ProcNext(p)
        PROVE  Titled' /\ Covered'
    <2>1. ASSUME proc'[p].at \notin {"send", "log"}, UNCHANGED <<logs, sent>>,
                 \A q \in Processors : q # p => proc'[q] = proc[q]
          PROVE  Titled' /\ Covered'
      <3>1. logs' \in [Logged -> Nat] /\ \A l \in Logged : logs'[l] <= logs[l]
        BY <1>0, <2>1
      <3> QED BY <2>1, <3>1, NobodyOwes
    <2>2. ASSUME NEW k \in Job, Take(p, k)
          PROVE  Titled' /\ Covered'
      BY <2>1, <2>2, TypeParts DEF Take, Work, history, Typed
    <2>3. CASE SendFails(p) \/ LogFails(p)
      BY <2>1, <2>3, GotoMoves DEF SendFails, LogFails, history
    <2>4. CASE Finish(p) \/ Die(p)
      <3>1. proc' = [proc EXCEPT ![p] = Free] /\ UNCHANGED <<logs, sent>>
        BY <2>4 DEF Finish, Die, Work, history
      <3> QED BY <2>1, <3>1, RecordShapes, TypeParts DEF Typed
    <2> QED BY <1>2, <2>2, <2>3, <2>4, ReadCovers, SendCovers, LogCovers DEF ProcNext
  <1>3. ASSUME NEW l \in Logged, RemoveHistory(l)
        PROVE  Titled' /\ Covered'
    <2>1. logs' \in [Logged -> Nat] /\ \A m \in Logged : logs'[m] <= logs[m]
      BY <1>0, <1>3 DEF RemoveHistory
    <2> QED BY <1>3, <2>1, NobodyOwes DEF RemoveHistory
  <1>4. ASSUME \/ \E r \in Rows : Delete(r) \/ \E s \in Statuses : Move(r, s)
               \/ ChangeCsi
               \/ \E t \in Templates : \E s \in Statuses : CreateTemplate(t, s)
               \/ \E t \in Templates : \E s \in Statuses : \E b \in BOOLEAN : UpdateTemplate(t, s, b)
               \/ \E t \in Templates : RemoveTemplate(t)
        PROVE  UNCHANGED <<proc, logs, sent>>
    BY <1>4 DEF Delete, Move, ChangeCsi, CreateTemplate, UpdateTemplate, RemoveTemplate, Save, history
  <1>5. ASSUME \/ \E i \in Ticks : TickNext(i)
               \/ \E k \in HandMail : SendByHand(k)
               \/ \E k \in Job : Stall(k)
               \/ RedisLoses
               \/ UNCHANGED vars
        PROVE  UNCHANGED <<proc, logs, sent>>
    BY <1>5 DEF TickNext, TickStart, Scan, Enqueue, EnqueueFails, SendByHand, Stall, RedisLoses,
                history, vars
  <1> QED BY <1>1, <1>2, <1>3, <1>4, <1>5, Zenon DEF Next

(* mail_logs never tells a customer with an address of more mails of a      *)
(* template than were handed to the mail server, whatever dies, stalls or   *)
(* is deleted on the way (sendMail before maillogs).                        *)
THEOREM SpecLoggedWasSent == Spec => []LoggedWasSent
  <1>1. Init => Titled /\ Covered
    <2> SUFFICES ASSUME Init PROVE Titled /\ Covered
      OBVIOUS
    <2>1. \A p \in Processors : proc[p].at = "idle"
      BY RecordShapes DEF Init
    <2>2. Titled
      BY <2>1 DEF Titled
    <2>3. ASSUME NEW l \in Logged
          PROVE  Balance(l)
      <3>1. Owed(l) = {}
        BY <2>1 DEF Owed
      <3>2. Cardinality(Owed(l)) = 0 /\ logs[l] = 0
        BY <3>1, FS_EmptySet DEF Init
      <3>3. SumFunctionOnSet(sent, Answering(l)) \in Nat
        BY InitTyped, SentCounts DEF Typed
      <3> QED BY <3>2, <3>3 DEF Balance
    <2> QED BY <2>2, <2>3 DEF Covered
  <1>2. Typed /\ Titled /\ Covered /\ [Next]_vars => Titled' /\ Covered'
    BY NextCovers
  <1>3. Typed /\ Covered => LoggedWasSent
    <2> SUFFICES ASSUME Typed, Covered, NEW l \in Logged, l[1] \in HasEmail
                 PROVE  logs[l] <= SumFunctionOnSet(sent, Answering(l))
      BY DEF LoggedWasSent
    <2>1. Balance(l) /\ logs[l] \in Nat /\ Cardinality(Owed(l)) \in Nat
          /\ SumFunctionOnSet(sent, Answering(l)) \in Nat
      BY SentCounts, OwedCounts, TypeParts DEF Covered, Typed
    <2> QED BY <2>1 DEF Balance
  <1> QED BY <1>1, <1>2, <1>3, SpecTyped, PTL DEF Spec
=============================================================================
