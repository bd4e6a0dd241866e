--------------------------- MODULE OrderFlowProofs ---------------------------
(***************************************************************************)
(* Theorems of OrderFlow for every set of orders, workers, receipts and     *)
(* requested statuses: every reachable state is well typed, the status of   *)
(* an order is accounted for by its history, and a work order stands at a   *)
(* status its order has had.                                                *)
(***************************************************************************)
EXTENDS OrderFlow, TLAPS, SequenceTheorems

(* The first half of Consistent: types and what a request refers to.        *)
Base ==
  /\ TypeOK
  /\ RequestsSound
  /\ RowsKept
  /\ \A p \in Workers : StillThere(w[p])

Tables ==
  /\ orders \in [Orders -> OrderRow \cup {Absent, Deleted}]
  /\ history \in [Orders -> Seq(Status)]
  /\ work \in [Orders -> WorkRow \cup {Absent}]
  /\ reschedules \in Seq(LinkRow)
  /\ complaints \in Seq(LinkRow)
  /\ refunded \subseteq Orders
  /\ jobs \in [Jobs -> SUBSET Orders]
  /\ requests \in 0..MaxRequests
  /\ erased \subseteq Orders

(* No step takes back an id, a work order, a reschedule or a complaint.     *)
Grows ==
  /\ \A o \in Orders : orders[o] # Absent => orders'[o] # Absent
  /\ \A o \in Orders : work[o] # Absent => work'[o] # Absent
  /\ DOMAIN reschedules \subseteq DOMAIN reschedules'
  /\ DOMAIN complaints \subseteq DOMAIN complaints'

-----------------------------------------------------------------------------
(* Rows and requests.                                                       *)

(* None is not a status; the three shapes of an orders entry differ.        *)
LEMMA Shapes ==
  /\ None \notin Status
  /\ Absent # Deleted
  /\ \A r \in OrderRow : r # Absent /\ r # Deleted /\ r.at = "row"
  /\ \A r \in WorkRow : r # Absent
  /\ Absent.at = "absent" /\ Deleted.at = "deleted"
  BY DEF None, Status, Surveying, Working, Canceled, Rescheduling, BeforeWork,
     Absent, Deleted, OrderRow, WorkRow

(* An order that exists has a row of the right shape.                       *)
LEMMA RowTyped ==
  ASSUME TypeOK, NEW o \in Orders
  PROVE  /\ Exists(o) => orders[o] \in OrderRow
         /\ Exists(o) => orders[o] # Absent /\ orders[o] # Deleted
         /\ ~Exists(o) => orders[o] \in {Absent, Deleted}
  BY Shapes DEF TypeOK, Exists

LEMMA OrderUpdates ==
  ASSUME NEW r \in OrderRow
  PROVE  /\ \A s \in Status : [r EXCEPT !.status = s] \in OrderRow
         /\ [r EXCEPT !.removed = TRUE] \in OrderRow
         /\ [r EXCEPT !.old = TRUE] \in OrderRow
         /\ \A s \in Status, c \in Receipts \cup {None}, v \in BOOLEAN :
              [r EXCEPT !.status = s, !.receipt = c, !.vendor = v] \in OrderRow
  BY DEF OrderRow

LEMMA NewRowTyped ==
  ASSUME NEW s \in Status, NEW r \in Receipts \cup {None}, NEW v \in BOOLEAN,
         NEW b \in BOOLEAN
  PROVE  NewRow(s, r, v, b) \in OrderRow
  BY DEF NewRow, OrderRow

(* A handler that has finished carries nothing.                             *)
LEMMA IdleTyped ==
  /\ Idle \in Request
  /\ Sound(Idle)
  /\ Idle.at = "idle"
  BY DEF Idle, Request, Steps, Sound, Naming

(* A handler that enters setStatus carries the order and the status.        *)
LEMMA SettingTyped ==
  ASSUME NEW o \in Orders, NEW s \in Status, NEW n \in 0..2,
         NEW t \in {"idle", "work.create", "work.retukang"}
  PROVE  /\ Setting(o, s, n, t) \in Request
         /\ Sound(Setting(o, s, n, t))
         /\ Setting(o, s, n, t).at = "status"
         /\ Setting(o, s, n, t).o = o
         /\ Setting(o, s, n, t).s = s
         /\ Setting(o, s, n, t).writes = 0
         /\ Setting(o, s, n, t).logs = 0
  <1>1. Setting(o, s, n, t) \in Request
    BY IdleTyped DEF Setting, Request, Steps
  <1>2. /\ Setting(o, s, n, t).at = "status"
        /\ Setting(o, s, n, t).o = o
        /\ Setting(o, s, n, t).s = s
        /\ Setting(o, s, n, t).finds = n
        /\ Setting(o, s, n, t).writes = 0
        /\ Setting(o, s, n, t).logs = 0
    BY DEF Setting, Idle
  <1>3. Sound(Setting(o, s, n, t))
    BY <1>2 DEF Sound, Naming
  <1> QED BY <1>1, <1>2, <1>3

(* The same after a write that left only the history row to add.            *)
LEMMA LoggingTyped ==
  ASSUME NEW o \in Orders, NEW s \in Status
  PROVE  LET x == [Setting(o, s, 0, "idle") EXCEPT !.logs = 1]
         IN  /\ x \in Request /\ Sound(x)
             /\ x.at = "status" /\ x.o = o /\ x.s = s /\ x.logs = 1
  <1> DEFINE x == [Setting(o, s, 0, "idle") EXCEPT !.logs = 1]
  <1>1. Setting(o, s, 0, "idle") \in Request
    BY SettingTyped
  <1>2. x \in Request
    BY <1>1 DEF Request
  <1>3. /\ x.at = "status" /\ x.o = o /\ x.s = s
        /\ x.finds = 0 /\ x.writes = 0 /\ x.logs = 1
    BY DEF Setting, Idle
  <1>4. Sound(x)
    BY <1>3 DEF Sound, Naming
  <1> QED BY <1>2, <1>3, <1>4

(* What a worker holds is a request that fits its step.                     *)
LEMMA WorkerTyped ==
  ASSUME Base, NEW p \in Workers
  PROVE  w[p] \in Request /\ Sound(w[p]) /\ StillThere(w[p])
  BY DEF Base, TypeOK, RequestsSound

-----------------------------------------------------------------------------
(* The shape of a step: tables stay typed and grow, one worker moves.       *)

LEMMA TypeSplit == TypeOK <=> Tables /\ w \in [Workers -> Request]
  BY DEF TypeOK, Tables

LEMMA WorkerMoves ==
  ASSUME Base, Grows, Tables', RowsKept', NEW p \in Workers,
         NEW x \in Request, Sound(x), StillThere(x)',
         w' = [w EXCEPT ![p] = x]
  PROVE  Base'
  <1>1. /\ w' \in [Workers -> Request] /\ w'[p] = x
        /\ \A q \in Workers \ {p} : w'[q] = w[q]
    BY DEF Base, TypeOK
  <1>2. TypeOK'
    BY <1>1 DEF TypeOK, Tables
  <1>3. RequestsSound'
    BY <1>1 DEF Base, RequestsSound
  <1>4. ASSUME NEW q \in Workers PROVE StillThere(w[q])'
    <2>1. CASE q = p
      BY <1>1, <2>1 DEF StillThere
    <2>2. CASE q # p
      <3>1. /\ w[q] \in Request /\ Sound(w[q]) /\ StillThere(w[q])
            /\ w'[q] = w[q]
        BY <1>1, <2>2, WorkerTyped
      <3> QED
        BY <3>1 DEF Grows, Sound, StillThere, Naming
    <2> QED BY <2>1, <2>2
  <1> QED BY <1>2, <1>3, <1>4 DEF Base

(* A step of the jobs, of time or of a request answered at once.            *)
LEMMA TablesMove ==
  ASSUME Base, Grows, Tables', RowsKept', w' = w
  PROVE  Base'
  <1>1. ASSUME NEW q \in Workers PROVE StillThere(w[q])'
    BY WorkerTyped DEF Grows, Sound, StillThere, Naming
  <1> QED
    BY <1>1 DEF Base, RequestsSound, TypeOK, Tables

(* A request is taken up, or moves on without writing a table.              *)
LEMMA ReadStep ==
  ASSUME Base, NEW p \in Workers, NEW x \in Request, Sound(x), StillThere(x),
         w' = [w EXCEPT ![p] = x], requests' \in 0..MaxRequests,
         UNCHANGED <<orders, history, work, reschedules, complaints, refunded,
                     jobs, erased>>
  PROVE  Base'
  <1>1. Grows /\ StillThere(x)'
    BY DEF Grows, StillThere
  <1>2. Tables' /\ RowsKept'
    BY DEF Base, TypeOK, Tables, RowsKept, Exists
  <1> QED BY <1>1, <1>2, WorkerMoves

-----------------------------------------------------------------------------
(* Requests that are taken up or move on without writing a table.           *)

LEMMA BeginTyped ==
  ASSUME Base, NEW p \in Workers, NEW op, Begin(p, op)
  PROVE  requests' \in 0..MaxRequests /\ w[p].at = "idle"
  BY BoundAssumption DEF Base, TypeOK, Begin

LEMMA NewestTyped ==
  ASSUME TypeOK, NEW o \in Orders, NEW S
  PROVE  Newest(o, S) \in Status \cup {None}
  <1> DEFINE hits == {i \in DOMAIN history[o] : history[o][i] \in S}
             last == {i \in hits : \A j \in hits : j <= i}
  <1>1. history[o] \in Seq(Status)
    BY DEF TypeOK
  <1>2. CASE last = {}
    BY <1>2 DEF Newest
  <1>3. CASE last # {}
    <2>1. (CHOOSE i \in last : TRUE) \in DOMAIN history[o]
      BY <1>3
    <2> QED BY <1>1, <1>3, <2>1 DEF Newest
  <1> QED BY <1>2, <1>3

LEMMA RetukangTyped == \A d, s : Retukang(d, s) \in Status \cup {None}
  BY DEF Retukang, Status

LEMMA AfterComplaintTyped ==
  ASSUME NEW s, NEW last \in Status \cup {None},
         NEW redo \in Requested \cup {None}
  PROVE  AfterComplaint(s, last, redo) \in Status \cup {None}
  <1>1. "RESURVEYREQ" \in Status
    BY DEF Status
  <1> QED
    BY <1>1, RequestedAssumption, LastCategoryAssumption DEF AfterComplaint

LEMMA OrderReads ==
  ASSUME Base, NEW p \in Workers,
         \/ \E s \in Requested, r \in Receipts \cup {None}, v \in BOOLEAN :
              CreateCheck(p, s, r, v)
         \/ \E o \in Orders, s \in Requested \cup {None},
               r \in Receipts \cup {None}, v \in BOOLEAN : UpdateCheck(p, o, s, r, v)
         \/ \E o \in Orders, s \in Requested : StatusRequest(p, o, s)
         \/ UpdateFind(p)
  PROVE  Base'
  <1>1. ASSUME NEW s \in Requested, NEW r \in Receipts \cup {None},
               NEW v \in BOOLEAN, CreateCheck(p, s, r, v)
        PROVE  Base'
    <2> DEFINE x == [Idle EXCEPT !.at = "order.create", !.s = s, !.receipt = r,
                                 !.vendor = v]
    <2>1. x \in Request
      BY IdleTyped, RequestedAssumption DEF Request, Steps
    <2>2. Sound(x) /\ StillThere(x)
      BY RequestedAssumption DEF Idle, Sound, StillThere, Naming
    <2> QED BY <1>1, <2>1, <2>2, BeginTyped, ReadStep DEF CreateCheck, Continue
  <1>2. ASSUME NEW o \in Orders, NEW s \in Requested \cup {None},
               NEW r \in Receipts \cup {None}, NEW v \in BOOLEAN,
               UpdateCheck(p, o, s, r, v)
        PROVE  Base'
    <2> DEFINE x == [Idle EXCEPT !.at = "order.find", !.o = o, !.s = s,
                                 !.receipt = r, !.vendor = v]
    <2>1. x \in Request
      BY IdleTyped, RequestedAssumption DEF Request, Steps
    <2>2. Sound(x) /\ StillThere(x)
      BY DEF Idle, Sound, StillThere, Naming
    <2> QED BY <1>2, <2>1, <2>2, BeginTyped, ReadStep DEF UpdateCheck, Continue
  <1>3. ASSUME NEW o \in Orders, NEW s \in Requested, StatusRequest(p, o, s)
        PROVE  Base'
    <2> DEFINE x == Setting(o, s, 1, "idle")
    <2>1. /\ x \in Request /\ Sound(x)
          /\ x.at = "status" /\ x.logs = 0
      BY SettingTyped, RequestedAssumption
    <2>2. StillThere(x)
      BY <2>1 DEF StillThere
    <2> HIDE DEF x
    <2> QED BY <1>3, <2>1, <2>2, BeginTyped, ReadStep
            DEF StatusRequest, Continue, x
  <1>4. CASE UpdateFind(p)
    <2> DEFINE x == [w[p] EXCEPT !.at = "order.update"]
    <2>1. /\ w[p] \in Request /\ Sound(w[p]) /\ w[p].at = "order.find"
      BY <1>4, WorkerTyped DEF UpdateFind
    <2>2. x \in Request /\ Sound(x) /\ StillThere(x)
      BY <2>1 DEF Request, Steps, Sound, StillThere, Naming
    <2>3. StillThere(Idle)
      BY DEF StillThere, Idle
    <2>4. requests' \in 0..MaxRequests
      BY <1>4 DEF UpdateFind, Base, TypeOK
    <2>5. w' = [w EXCEPT ![p] = x] \/ w' = [w EXCEPT ![p] = Idle]
      BY <1>4 DEF UpdateFind, Continue, Finish
    <2> QED
      BY <1>4, <2>2, <2>3, <2>4, <2>5, IdleTyped, ReadStep DEF UpdateFind
  <1> QED BY <1>1, <1>2, <1>3, <1>4

LEMMA WorkReadBase ==
  ASSUME Base, NEW p \in Workers, NEW op, NEW o \in Orders, NEW s \in Requested,
         NEW step \in {"work.set", "work.update"}, NEW row \in {None, s},
         NEW to \in Orders \cup {None}, WorkRead(p, op, step, o, s, row, to)
  PROVE  Base'
  <1> DEFINE x == [Idle EXCEPT !.at = step, !.o = o, !.s = s, !.row = row,
                               !.to = to]
  <1>1. x \in Request
    BY IdleTyped, RequestedAssumption DEF Request, Steps
  <1>2. /\ x.at = step /\ x.o = o /\ x.s = s /\ x.row = row
        /\ x.finds = 0 /\ x.writes = 0 /\ x.logs = 0
    BY DEF Idle
  <1>3. work[o] # Absent
    BY DEF WorkRead
  <1>4. Sound(x)
    BY <1>2, RequestedAssumption DEF Sound, Naming
  <1>5. StillThere(x)
    BY <1>2, <1>3 DEF StillThere
  <1> HIDE DEF x
  <1> QED BY <1>1, <1>4, <1>5, BeginTyped, ReadStep DEF WorkRead, Continue, x

LEMMA WorkReads ==
  ASSUME Base, NEW p \in Workers, WorkRequest(p)
  PROVE  Base'
  <1>1. PICK o \in Orders, s \in Requested :
          \/ WorkCreate(p, o, s) \/ WorkSet(p, o, s)
          \/ \E to \in Orders \cup {None} : WorkUpdate(p, o, s, to)
    BY DEF WorkRequest
  <1>2. CASE WorkCreate(p, o, s)
    <2> DEFINE x == Setting(o, s, 1, "work.create")
    <2>1. /\ x \in Request /\ Sound(x)
          /\ x.at = "status" /\ x.logs = 0
      BY SettingTyped, RequestedAssumption
    <2>2. StillThere(x)
      BY <2>1 DEF StillThere
    <2> HIDE DEF x
    <2> QED BY <1>2, <2>1, <2>2, BeginTyped, ReadStep
            DEF WorkCreate, Continue, x
  <1>3. CASE WorkSet(p, o, s)
    BY <1>3, WorkReadBase DEF WorkSet
  <1>4. ASSUME NEW to \in Orders \cup {None}, WorkUpdate(p, o, s, to)
        PROVE  Base'
    BY <1>4, WorkReadBase DEF WorkUpdate
  <1> QED BY <1>1, <1>2, <1>3, <1>4

(* A request that found its order and will add a row that names it.         *)
LEMMA LinkCheckBase ==
  ASSUME Base, NEW p \in Workers, NEW op, NEW o \in Orders, NEW s \in Requested,
         NEW step \in {"reschedule.create", "refund.create", "complaint.create"},
         LinkCheck(p, op, step, o, s)
  PROVE  Base'
  <1> DEFINE x == [Idle EXCEPT !.at = step, !.o = o, !.s = s]
  <1>1. x \in Request
    BY IdleTyped, RequestedAssumption DEF Request, Steps
  <1>2. /\ x.at = step /\ x.o = o /\ x.s = s
        /\ x.finds = 0 /\ x.writes = 0 /\ x.logs = 0
    BY DEF Idle
  <1>3. Sound(x)
    BY <1>2, RequestedAssumption DEF Sound, Naming
  <1>4. StillThere(x)
    BY <1>2 DEF StillThere
  <1> HIDE DEF x
  <1> QED BY <1>1, <1>3, <1>4, BeginTyped, ReadStep DEF LinkCheck, Continue, x

(* A request about to decide on a reschedule or a complaint.                *)
Decision(x) ==
  /\ x \in Request
  /\ x.at \in {"reschedule.update", "complaint.update"}
  /\ x.o \in Orders /\ x.row \in Status
  /\ x.finds = 0 /\ x.writes = 0 /\ x.logs = 0

(* What a decision on a row that exists leaves for the next step.           *)
LEMMA DecisionTyped ==
  ASSUME NEW o \in Orders, NEW i \in Nat, NEW row \in Status,
         NEW s \in Status \cup {None}, NEW to \in Orders \cup {None}
  PROVE  /\ Decision([Idle EXCEPT !.at = "reschedule.update", !.o = o,
                                  !.id = i, !.row = row, !.s = s])
         /\ Decision([Idle EXCEPT !.at = "complaint.update", !.o = o, !.to = to,
                                  !.id = i, !.row = row, !.s = s])
  BY IdleTyped DEF Idle, Decision, Request, Steps

LEMMA DecideBase ==
  ASSUME Base, NEW p \in Workers, NEW x, Decision(x),
         x.at = "reschedule.update" => x.id \in DOMAIN reschedules,
         x.at = "complaint.update" => x.id \in DOMAIN complaints,
         w' = [w EXCEPT ![p] = x],
         requests' \in 0..MaxRequests,
         UNCHANGED <<orders, history, work, reschedules, complaints, refunded,
                     jobs, erased>>
  PROVE  Base'
  <1>1. Sound(x)
    BY DEF Decision, Sound, Naming
  <1>2. StillThere(x)
    BY DEF Decision, StillThere
  <1> QED BY <1>1, <1>2, ReadStep DEF Decision

LEMMA LinkTyped ==
  ASSUME TypeOK
  PROVE  /\ \A i \in DOMAIN reschedules : i \in Nat /\ reschedules[i] \in LinkRow
         /\ \A i \in DOMAIN complaints : i \in Nat /\ complaints[i] \in LinkRow
  BY DEF TypeOK

LEMMA LinkReads ==
  ASSUME Base, NEW p \in Workers, LinkRequest(p)
  PROVE  Base'
  <1>1. ASSUME NEW o \in Orders, NEW s \in Requested,
               RescheduleCreate(p, o, s) \/ RefundCreate(p, o, s)
                 \/ ComplaintCreate(p, o, s)
        PROVE  Base'
    BY <1>1, LinkCheckBase DEF RescheduleCreate, RefundCreate, ComplaintCreate
  <1>2. ASSUME NEW i \in DOMAIN reschedules, NEW s \in Requested,
               NEW o \in Orders, NEW d \in Requested,
               RescheduleDecide(p, i, o, s, d)
        PROVE  Base'
    <2> DEFINE t == Retukang(d, Newest(o, Status \ Rescheduling))
    <2>1. i \in Nat
      BY LinkTyped DEF Base
    <2>2. t \in Status \cup {None} /\ s \in Status
      BY RetukangTyped, RequestedAssumption
    <2>3. requests' \in 0..MaxRequests
      BY <1>2, BeginTyped DEF RescheduleDecide
    <2>4. /\ w' = [w EXCEPT ![p] = [Idle EXCEPT
                     !.at = "reschedule.update", !.o = o, !.id = i, !.row = s,
                     !.s = t]]
          /\ UNCHANGED <<orders, history, work, reschedules, complaints,
                         refunded, jobs, erased>>
      BY <1>2 DEF RescheduleDecide, Continue
    <2> HIDE DEF t
    <2> DEFINE x == [Idle EXCEPT !.at = "reschedule.update", !.o = o, !.id = i,
                                 !.row = s, !.s = t]
    <2>5. Decision(x) /\ x.at = "reschedule.update" /\ x.id = i
      BY <2>1, <2>2, DecisionTyped DEF Idle
    <2>6. w' = [w EXCEPT ![p] = x]
      BY <2>4
    <2> HIDE DEF x
    <2> QED BY <2>3, <2>4, <2>5, <2>6, DecideBase
  <1>3. ASSUME NEW i \in DOMAIN complaints, NEW s \in Requested,
               NEW to \in Orders \cup {None}, NEW redo \in Requested \cup {None},
               ComplaintDecide(p, i, to, s, redo)
        PROVE  Base'
    <2> DEFINE o == IF to = None THEN complaints[i].o ELSE to
               t == IF to = None /\ s = "COMPLAINTAPPROVEDBYHO" THEN None
                    ELSE AfterComplaint(s, Newest(o, Surveying \cup Working),
                                        redo)
    <2>1. o \in Orders /\ i \in Nat
      BY LinkTyped DEF Base, LinkRow
    <2>2. Newest(o, Surveying \cup Working) \in Status \cup {None}
      BY <2>1, NewestTyped DEF Base
    <2>3. t \in Status \cup {None} /\ s \in Status
      BY <2>2, AfterComplaintTyped, RequestedAssumption
    <2>4. requests' \in 0..MaxRequests
      BY <1>3, BeginTyped DEF ComplaintDecide
    <2>5. /\ w' = [w EXCEPT ![p] = [Idle EXCEPT
                     !.at = "complaint.update", !.o = o, !.to = to, !.id = i,
                     !.row = s, !.s = t]]
          /\ UNCHANGED <<orders, history, work, reschedules, complaints,
                         refunded, jobs, erased>>
      BY <1>3 DEF ComplaintDecide, Continue
    <2> HIDE DEF o, t
    <2> DEFINE x == [Idle EXCEPT !.at = "complaint.update", !.o = o, !.to = to,
                                 !.id = i, !.row = s, !.s = t]
    <2>6. Decision(x) /\ x.at = "complaint.update" /\ x.id = i
      BY <2>1, <2>3, DecisionTyped DEF Idle
    <2>7. w' = [w EXCEPT ![p] = x]
      BY <2>5
    <2> HIDE DEF x
    <2> QED BY <2>4, <2>5, <2>6, <2>7, DecideBase
  <1> QED BY <1>1, <1>2, <1>3 DEF LinkRequest

-----------------------------------------------------------------------------
(* Steps that write the orders and their history.                           *)

LEMMA RequestUpdates ==
  ASSUME NEW r \in Request
  PROVE  /\ \A n \in 0..2, l \in 0..2 :
              [r EXCEPT !.writes = n, !.logs = l] \in Request
         /\ \A l \in 0..2 : [r EXCEPT !.logs = l] \in Request
         /\ [r EXCEPT !.logs = 0, !.at = r.then] \in Request
         /\ [r EXCEPT !.at = "complaint.work"] \in Request
         /\ [r EXCEPT !.at = "work.reread"] \in Request
         /\ \A f \in 0..2, n \in 0..2 :
              [r EXCEPT !.finds = f, !.writes = n] \in Request
         /\ \A f \in 0..2 : [r EXCEPT !.finds = f] \in Request
         /\ \A o \in Orders : [r EXCEPT !.o = o] \in Request
         /\ r.finds \in 0..2 /\ r.writes \in 0..2 /\ r.logs \in 0..2
         /\ r.then \in {"idle", "work.create", "work.retukang"}
  <1>1. \A n \in 0..2, l \in 0..2 :
          [r EXCEPT !.writes = n, !.logs = l] \in Request
    BY DEF Request
  <1>2. \A l \in 0..2 : [r EXCEPT !.logs = l] \in Request
    BY DEF Request
  <1>3. /\ r.finds \in 0..2 /\ r.writes \in 0..2 /\ r.logs \in 0..2
        /\ r.then \in {"idle", "work.create", "work.retukang"}
    BY DEF Request
  <1>4. \A q \in Request : \A t \in Steps : [q EXCEPT !.at = t] \in Request
    BY DEF Request
  <1>5. ASSUME NEW t \in Steps
        PROVE  [r EXCEPT !.logs = 0, !.at = t] \in Request
    <2>1. [r EXCEPT !.logs = 0, !.at = t] = [[r EXCEPT !.logs = 0] EXCEPT !.at = t]
      BY DEF Request
    <2>2. [r EXCEPT !.logs = 0] \in Request
      BY DEF Request
    <2> QED BY <1>4, <2>1, <2>2
  <1>6. r.then \in Steps /\ {"complaint.work", "work.reread"} \subseteq Steps
    BY <1>3 DEF Steps
  <1>7. /\ \A f \in 0..2, n \in 0..2 :
             [r EXCEPT !.finds = f, !.writes = n] \in Request
        /\ \A f \in 0..2 : [r EXCEPT !.finds = f] \in Request
    BY DEF Request
  <1>8. \A o \in Orders : [r EXCEPT !.o = o] \in Request
    BY DEF Request
  <1> QED BY <1>1, <1>2, <1>3, <1>4, <1>5, <1>6, <1>7, <1>8

(* One order gets a row; nothing else changes.                              *)
LEMMA RowWritten ==
  ASSUME Base, NEW o \in Orders, NEW r \in OrderRow,
         orders' = [orders EXCEPT ![o] = r], requests' \in 0..MaxRequests,
         UNCHANGED <<history, work, reschedules, complaints, refunded, jobs,
                     erased>>
  PROVE  Tables' /\ Grows /\ RowsKept'
         /\ \A q \in Orders : orders[q] # Absent => orders'[q] # Absent
  <1>1. r # Absent /\ r.at = "row"
    BY Shapes
  <1>2. /\ orders'[o] = r
        /\ \A q \in Orders \ {o} : orders'[q] = orders[q]
    BY DEF Base, TypeOK
  <1>3. Tables'
    BY DEF Base, TypeOK, Tables
  <1>4. Grows
    BY <1>1, <1>2 DEF Grows
  <1>5. RowsKept'
    BY <1>1, <1>2 DEF Base, RowsKept, Exists
  <1> QED BY <1>3, <1>4, <1>5 DEF Grows

LEMMA FindOrderBase ==
  ASSUME Base, NEW p \in Workers, FindOrder(p)
  PROVE  Base'
  <1>1. /\ w[p] \in Request /\ Sound(w[p]) /\ StillThere(w[p])
        /\ w[p].at = "status" /\ w[p].finds > 0
    BY WorkerTyped DEF FindOrder
  <1>2. w[p].o \in Orders /\ w[p].s \in Status
    BY <1>1 DEF Sound, Naming
  <1>3. /\ w[p].finds \in 0..2 /\ w[p].writes \in 0..2 /\ w[p].logs \in 0..2
        /\ w[p].finds + w[p].writes + w[p].logs <= 2
    BY <1>1, RequestUpdates DEF Sound
  <1>4. requests' \in 0..MaxRequests
    BY DEF FindOrder, Base, TypeOK
  <1>5. w[p].finds - 1 \in 0..2 /\ w[p].writes + 1 \in 0..2
    BY <1>1, <1>3
  <1>6. CASE w' = [w EXCEPT ![p] = Idle]
    BY <1>4, <1>6, IdleTyped, ReadStep DEF FindOrder, StillThere
  <1>7. CASE w' = [w EXCEPT ![p] = [w[p] EXCEPT !.finds = @ - 1,
                                               !.writes = @ + 1]]
    <2>1. PICK x \in Request :
            x = [w[p] EXCEPT !.finds = w[p].finds - 1,
                             !.writes = w[p].writes + 1]
      BY <1>1, <1>5, RequestUpdates
    <2>2. /\ x.at = "status" /\ x.o = w[p].o /\ x.s = w[p].s
          /\ x.finds = w[p].finds - 1 /\ x.writes = w[p].writes + 1
          /\ x.logs = w[p].logs
      BY <1>1, <2>1 DEF Request
    <2>3. x.finds + x.writes + x.logs <= 2
      BY <1>3, <2>2
    <2>4. Sound(x) /\ StillThere(x)
      BY <1>1, <1>2, <2>2, <2>3 DEF Sound, StillThere, Naming
    <2>5. w' = [w EXCEPT ![p] = x]
      BY <1>7, <2>1
    <2> QED BY <1>4, <2>4, <2>5, ReadStep DEF FindOrder
  <1>8. CASE w' = [w EXCEPT ![p] = [w[p] EXCEPT !.finds = @ - 1]]
    <2>1. PICK x \in Request : x = [w[p] EXCEPT !.finds = w[p].finds - 1]
      BY <1>1, <1>5, RequestUpdates
    <2>2. /\ x.at = "status" /\ x.o = w[p].o /\ x.s = w[p].s
          /\ x.finds = w[p].finds - 1 /\ x.writes = w[p].writes
          /\ x.logs = w[p].logs
      BY <1>1, <2>1 DEF Request
    <2>3. x.finds + x.writes + x.logs <= 2
      BY <1>3, <2>2
    <2>4. Sound(x) /\ StillThere(x)
      BY <1>1, <1>2, <2>2, <2>3 DEF Sound, StillThere, Naming
    <2>5. w' = [w EXCEPT ![p] = x]
      BY <1>8, <2>1
    <2> QED BY <1>4, <2>4, <2>5, ReadStep DEF FindOrder
  <1> QED BY <1>6, <1>7, <1>8 DEF FindOrder, Continue, Finish

LEMMA SetStatusBase ==
  ASSUME Base, NEW p \in Workers, SetStatus(p)
  PROVE  Base'
  <1> DEFINE o == w[p].o
             r == [orders[o] EXCEPT !.status = w[p].s]
  <1>1. /\ w[p] \in Request /\ Sound(w[p]) /\ StillThere(w[p])
        /\ w[p].at = "status" /\ w[p].writes > 0
      BY WorkerTyped DEF SetStatus
  <1>2. o \in Orders /\ w[p].s \in Status
    BY <1>1 DEF Sound, Naming
  <1>w. /\ w[p].finds \in 0..2 /\ w[p].writes \in 0..2 /\ w[p].logs \in 0..2
        /\ w[p].finds + w[p].writes + w[p].logs <= 2
    BY <1>1, RequestUpdates DEF Sound
  <1>3. requests' \in 0..MaxRequests
    BY DEF SetStatus, Base, TypeOK
  <1>4. CASE Exists(o)
    <2>1. r \in OrderRow
      BY <1>2, <1>4, RowTyped, OrderUpdates DEF Base
    <2>2. w[p].writes - 1 \in 0..2 /\ w[p].logs + 1 \in 0..2
      BY <1>1, <1>w
    <2>3. PICK x \in Request :
            x = [w[p] EXCEPT !.writes = w[p].writes - 1,
                             !.logs = w[p].logs + 1]
      BY <1>1, <2>2, RequestUpdates
    <2>4. /\ x.at = "status" /\ x.o = o /\ x.s = w[p].s
          /\ x.finds = w[p].finds
          /\ x.writes = w[p].writes - 1 /\ x.logs = w[p].logs + 1
      BY <1>1, <2>3 DEF Request
    <2>5. orders' = [orders EXCEPT ![o] = r] /\ w' = [w EXCEPT ![p] = x]
      BY <1>4, <2>3 DEF SetStatus, Continue
    <2>6. Tables' /\ Grows /\ RowsKept'
      BY <1>2, <1>3, <1>4, <2>1, <2>5, RowWritten DEF SetStatus
    <2>7. x.finds + x.writes + x.logs <= 2
      BY <1>w, <2>4
    <2>8. Sound(x)
      BY <1>2, <2>4, <2>7 DEF Sound, Naming
    <2>9. orders'[x.o] # Absent
      BY <1>2, <2>1, <2>4, <2>5, Shapes DEF Base, TypeOK
    <2>10. StillThere(x)'
      BY <2>4, <2>9 DEF StillThere
    <2> QED BY <2>5, <2>6, <2>8, <2>10, WorkerMoves
  <1>5. CASE ~Exists(o)
    <2>1. /\ w' = [w EXCEPT ![p] = Idle]
          /\ UNCHANGED <<orders, history, work, reschedules, complaints,
                         refunded, jobs, erased>>
      BY <1>5 DEF SetStatus, Finish, Continue
    <2> QED BY <1>3, <2>1, IdleTyped, ReadStep DEF StillThere
  <1> QED BY <1>4, <1>5

LEMMA AddHistoryBase ==
  ASSUME Base, NEW p \in Workers, AddHistory(p)
  PROVE  Base'
  <1> DEFINE o == w[p].o
  <1>1. /\ w[p] \in Request /\ Sound(w[p]) /\ StillThere(w[p])
        /\ w[p].at = "status" /\ w[p].logs > 0
      BY WorkerTyped DEF AddHistory
  <1>2. o \in Orders /\ w[p].s \in Status
    BY <1>1 DEF Sound, Naming
  <1>w. /\ w[p].finds \in 0..2 /\ w[p].writes \in 0..2 /\ w[p].logs \in 0..2
        /\ w[p].finds + w[p].writes + w[p].logs <= 2
    BY <1>1, RequestUpdates DEF Sound
  <1>3. requests' \in 0..MaxRequests
    BY DEF AddHistory, Base, TypeOK
  <1>4. CASE Exists(o)
    <2> DEFINE Last == w[p].finds = 0 /\ w[p].writes = 0 /\ w[p].logs = 1
               y == IF Last THEN [w[p] EXCEPT !.logs = 0, !.at = w[p].then]
                    ELSE [w[p] EXCEPT !.logs = @ - 1]
    <2>1. /\ history' = [history EXCEPT ![o] = Append(@, w[p].s)]
          /\ w' = [w EXCEPT ![p] = y]
          /\ UNCHANGED <<orders, work, reschedules, complaints, refunded, jobs,
                         erased>>
      BY <1>4 DEF AddHistory, Continue
    <2>2. history' \in [Orders -> Seq(Status)]
          /\ \A q \in Orders \ {o} : history'[q] = history[q]
      BY <1>2, <2>1 DEF Base, TypeOK
    <2>3. Tables'
      BY <1>3, <2>1, <2>2 DEF Base, TypeOK, Tables
    <2>4. Grows
      BY <2>1 DEF Grows
    <2>5. orders[o] # Absent
      BY <1>2, <1>4, RowTyped DEF Base
    <2>6. RowsKept'
      BY <2>1, <2>2, <2>5 DEF Base, RowsKept, Exists
    <2>7. CASE Last
      <3>1. PICK x \in Request : x = [w[p] EXCEPT !.logs = 0, !.at = w[p].then]
        BY <1>1, RequestUpdates
      <3>a. /\ x.at = w[p].then /\ x.o = w[p].o /\ x.s = w[p].s
            /\ x.finds = w[p].finds /\ x.writes = w[p].writes /\ x.logs = 0
        BY <1>1, <3>1 DEF Request
      <3>2. /\ x.at \in {"idle", "work.create", "work.retukang"}
            /\ x.o = o /\ x.s = w[p].s
            /\ x.finds = 0 /\ x.writes = 0 /\ x.logs = 0
        BY <1>1, <2>7, <3>a, RequestUpdates
      <3>3. Sound(x)
        BY <1>2, <3>2 DEF Sound, Naming
      <3>4. StillThere(x)'
        BY <3>2 DEF StillThere
      <3>5. w' = [w EXCEPT ![p] = x]
        BY <2>1, <2>7, <3>1
      <3> QED BY <2>3, <2>4, <2>6, <3>3, <3>4, <3>5, WorkerMoves
    <2>8. CASE ~Last
      <3>1. w[p].logs - 1 \in 0..2
        BY <1>1, <1>w
      <3>2. PICK x \in Request : x = [w[p] EXCEPT !.logs = w[p].logs - 1]
        BY <1>1, <3>1, RequestUpdates
      <3>3. /\ x.at = "status" /\ x.o = o /\ x.s = w[p].s
            /\ x.finds = w[p].finds /\ x.writes = w[p].writes
            /\ x.logs = w[p].logs - 1
        BY <1>1, <3>2 DEF Request
      <3>4. x.finds + x.writes + x.logs <= 2
        BY <1>w, <3>3
      <3>5. Sound(x)
        BY <1>2, <3>3, <3>4 DEF Sound, Naming
      <3>6. StillThere(x)'
        BY <2>1, <2>5, <3>3 DEF StillThere
      <3>7. w' = [w EXCEPT ![p] = x]
        BY <2>1, <2>8, <3>2
      <3> QED BY <2>3, <2>4, <2>6, <3>5, <3>6, <3>7, WorkerMoves
    <2> QED BY <2>7, <2>8
  <1>5. CASE ~Exists(o)
    <2>1. /\ w' = [w EXCEPT ![p] = Idle]
          /\ UNCHANGED <<orders, history, work, reschedules, complaints,
                         refunded, jobs, erased>>
      BY <1>5 DEF AddHistory, Finish, Continue
    <2> QED BY <1>3, <2>1, IdleTyped, ReadStep DEF StillThere
  <1> QED BY <1>4, <1>5

(* The worker has finished, or has entered setStatus.                       *)
LEMMA FinishMoves ==
  ASSUME Base, Grows, Tables', RowsKept', NEW p \in Workers,
         w' = [w EXCEPT ![p] = Idle]
  PROVE  Base'
  <1>1. StillThere(Idle)'
    BY IdleTyped DEF StillThere
  <1> QED BY <1>1, IdleTyped, WorkerMoves

LEMMA SettingMoves ==
  ASSUME Base, Grows, Tables', RowsKept', NEW p \in Workers,
         NEW o \in Orders, NEW s \in Status, NEW n \in 0..2,
         NEW t \in {"idle", "work.create", "work.retukang"},
         w' = [w EXCEPT ![p] = Setting(o, s, n, t)]
  PROVE  Base'
  <1>1. PICK x \in Request : x = Setting(o, s, n, t)
    BY SettingTyped
  <1>2. Sound(x) /\ x.at = "status" /\ x.logs = 0
    BY <1>1, SettingTyped
  <1>3. StillThere(x)'
    BY <1>2 DEF StillThere
  <1>4. w' = [w EXCEPT ![p] = x]
    BY <1>1
  <1> QED BY <1>2, <1>3, <1>4, WorkerMoves

LEMMA LoggingMoves ==
  ASSUME Base, Grows, Tables', RowsKept', NEW p \in Workers,
         NEW o \in Orders, NEW s \in Status, orders'[o] # Absent,
         w' = [w EXCEPT ![p] = [Setting(o, s, 0, "idle") EXCEPT !.logs = 1]]
  PROVE  Base'
  <1>1. PICK x \in Request : x = [Setting(o, s, 0, "idle") EXCEPT !.logs = 1]
    BY LoggingTyped
  <1>2. Sound(x) /\ x.at = "status" /\ x.o = o
    BY <1>1, LoggingTyped
  <1>3. StillThere(x)'
    BY <1>2 DEF StillThere
  <1>4. w' = [w EXCEPT ![p] = x]
    BY <1>1
  <1> QED BY <1>2, <1>3, <1>4, WorkerMoves

LEMMA CreateWriteBase ==
  ASSUME Base, NEW p \in Workers, NEW o \in Orders, CreateWrite(p, o)
  PROVE  Base'
  <1>1. w[p] \in Request /\ Sound(w[p]) /\ w[p].at = "order.create"
    BY WorkerTyped DEF CreateWrite
  <1>2. /\ w[p].s \in Status /\ w[p].receipt \in Receipts \cup {None}
        /\ w[p].vendor \in BOOLEAN
    BY <1>1 DEF Sound, Naming, Request
  <1>3. NewRow(w[p].s, w[p].receipt, w[p].vendor, FALSE) \in OrderRow
    BY <1>2, NewRowTyped
  <1>4. requests' \in 0..MaxRequests
    BY DEF CreateWrite, Base, TypeOK
  <1>5. Tables' /\ Grows /\ RowsKept'
    BY <1>3, <1>4, RowWritten DEF CreateWrite
  <1>6. orders'[o] # Absent
    BY <1>3, Shapes DEF CreateWrite, Base, TypeOK
  <1> QED BY <1>2, <1>5, <1>6, LoggingMoves DEF CreateWrite, Continue

(* Requests answered at once, and the passing of time.                      *)
LEMMA RowsBase ==
  ASSUME Base,
         \/ \E p \in Workers, o \in Orders, r \in Receipts \cup {None} :
              CreatePublic(p, o, r)
         \/ \E p \in Workers, o \in Orders : Remove(p, o)
         \/ \E o \in Orders : GrowOld(o)
  PROVE  Base'
  <1>1. ASSUME NEW p \in Workers, NEW o \in Orders,
               NEW r \in Receipts \cup {None}, CreatePublic(p, o, r)
        PROVE  Base'
    <2>1. NewRow("BOOKED", r, FALSE, TRUE) \in OrderRow
      BY NewRowTyped DEF Status
    <2> QED BY <1>1, <2>1, BeginTyped, RowWritten, TablesMove DEF CreatePublic
  <1>2. ASSUME NEW p \in Workers, NEW o \in Orders, Remove(p, o)
        PROVE  Base'
    <2> DEFINE r == [orders[o] EXCEPT !.removed = TRUE]
    <2>1. r \in OrderRow
      BY <1>2, RowTyped, OrderUpdates DEF Base, Remove
    <2>2. orders' = [orders EXCEPT ![o] = r]
      BY <1>2 DEF Remove
    <2> HIDE DEF r
    <2> QED BY <1>2, <2>1, <2>2, BeginTyped, RowWritten, TablesMove DEF Remove
  <1>3. ASSUME NEW o \in Orders, GrowOld(o)
        PROVE  Base'
    <2> DEFINE r == [orders[o] EXCEPT !.old = TRUE]
    <2>1. r \in OrderRow
      BY <1>3, RowTyped, OrderUpdates DEF Base, GrowOld
    <2>2. orders' = [orders EXCEPT ![o] = r]
      BY <1>3 DEF GrowOld
    <2>3. requests' \in 0..MaxRequests
      BY <1>3 DEF GrowOld, Base, TypeOK
    <2> HIDE DEF r
    <2> QED BY <1>3, <2>1, <2>2, <2>3, RowWritten, TablesMove DEF GrowOld
  <1> QED BY <1>1, <1>2, <1>3

LEMMA UpdateWriteBase ==
  ASSUME Base, NEW p \in Workers, UpdateWrite(p)
  PROVE  Base'
  <1> DEFINE o == w[p].o
             s == IF w[p].s = None THEN orders[o].status ELSE w[p].s
             c == IF w[p].receipt = None THEN orders[o].receipt
                  ELSE w[p].receipt
             r == [orders[o] EXCEPT !.status = s, !.receipt = c,
                                    !.vendor = orders[o].vendor \/ w[p].vendor]
  <1>1. w[p] \in Request /\ Sound(w[p]) /\ w[p].at = "order.update"
    BY WorkerTyped DEF UpdateWrite
  <1>2. o \in Orders
    BY <1>1 DEF Sound
  <1>3. requests' \in 0..MaxRequests
    BY DEF UpdateWrite, Base, TypeOK
  <1>4. CASE Exists(o)
    <2>1. orders[o] \in OrderRow /\ orders[o] # Absent
      BY <1>2, <1>4, RowTyped DEF Base
    <2>2. /\ s \in Status /\ c \in Receipts \cup {None}
          /\ (orders[o].vendor \/ w[p].vendor) \in BOOLEAN
      BY <1>1, <2>1 DEF OrderRow, Request
    <2>3. r \in OrderRow
      BY <2>1, <2>2, OrderUpdates
    <2>4. /\ orders' = [orders EXCEPT ![o] = r]
          /\ w' = [w EXCEPT ![p] = [Setting(o, s, 0, "idle") EXCEPT !.logs = 1]]
      BY <1>4 DEF UpdateWrite, Continue
    <2>5. orders'[o] # Absent
      BY <1>2, <2>3, <2>4, Shapes DEF Base, TypeOK
    <2> HIDE DEF r, s, c
    <2>6. Tables' /\ Grows /\ RowsKept'
      BY <1>2, <1>3, <2>3, <2>4, RowWritten DEF UpdateWrite
    <2> QED BY <1>2, <2>2, <2>4, <2>5, <2>6, LoggingMoves
  <1>5. CASE ~Exists(o)
    <2>1. /\ w' = [w EXCEPT ![p] = Idle]
          /\ UNCHANGED <<orders, history, work, reschedules, complaints,
                         refunded, jobs, erased>>
      BY <1>5 DEF UpdateWrite, Finish, Continue
    <2> QED BY <1>3, <2>1, IdleTyped, ReadStep DEF StillThere
  <1> QED BY <1>4, <1>5

(* A step that leaves orders and their ids alone.                           *)
LEMMA TablesWritten ==
  ASSUME Base, orders' = orders,
         history' \in [Orders -> Seq(Status)],
         \A q \in Orders : orders[q] = Absent => history'[q] = history[q],
         work' \in [Orders -> WorkRow \cup {Absent}],
         \A q \in Orders : work[q] # Absent => work'[q] # Absent,
         \A q \in Orders : work'[q] # Absent => Exists(q),
         reschedules' \in Seq(LinkRow), complaints' \in Seq(LinkRow),
         DOMAIN reschedules \subseteq DOMAIN reschedules',
         DOMAIN complaints \subseteq DOMAIN complaints',
         refunded' \subseteq Orders, jobs' \in [Jobs -> SUBSET Orders],
         requests' \in 0..MaxRequests, erased' \subseteq Orders
  PROVE  Tables' /\ Grows /\ RowsKept'
  <1>1. Tables'
    BY DEF Base, TypeOK, Tables
  <1>2. Grows
    BY DEF Grows
  <1>3. RowsKept'
    BY DEF Base, RowsKept, Exists
  <1> QED BY <1>1, <1>2, <1>3

(* What each table holds, for the steps that leave it alone.                *)
LEMMA TablesHold ==
  ASSUME Base
  PROVE  /\ history \in [Orders -> Seq(Status)]
         /\ work \in [Orders -> WorkRow \cup {Absent}]
         /\ \A q \in Orders : work[q] # Absent => Exists(q)
         /\ \A q \in Orders : orders[q] = Absent => history[q] = <<>>
         /\ reschedules \in Seq(LinkRow) /\ complaints \in Seq(LinkRow)
         /\ refunded \subseteq Orders /\ jobs \in [Jobs -> SUBSET Orders]
         /\ requests \in 0..MaxRequests /\ erased \subseteq Orders
  BY DEF Base, TypeOK, RowsKept

LEMMA DeleteHistoryBase ==
  ASSUME Base, NEW p \in Workers, NEW o \in Orders,
         NEW i \in DOMAIN history[o], DeleteHistory(p, o, i)
  PROVE  Base'
  <1> DEFINE h == history[o]
             rest == SubSeq(h, 1, i - 1) \o SubSeq(h, i + 1, Len(h))
  <1>1. h \in Seq(Status) /\ i \in 1..Len(h) /\ Len(h) \in Nat
    BY TablesHold
  <1>2. SubSeq(h, 1, i - 1) \in Seq(Status)
    BY <1>1
  <1>3. SubSeq(h, i + 1, Len(h)) \in Seq(Status)
    BY <1>1
  <1>4. rest \in Seq(Status)
    BY <1>2, <1>3
  <1>5. history' = [history EXCEPT ![o] = rest]
    BY DEF DeleteHistory
  <1>6. history[o] # <<>>
    BY <1>1
  <1>7. requests' \in 0..MaxRequests
    BY BeginTyped DEF DeleteHistory
  <1> HIDE DEF rest, h
  <1>8. /\ history' \in [Orders -> Seq(Status)]
        /\ \A q \in Orders : orders[q] = Absent => history'[q] = history[q]
    BY <1>4, <1>5, <1>6, TablesHold
  <1>9. Tables' /\ Grows /\ RowsKept'
    BY <1>7, <1>8, TablesHold, TablesWritten DEF DeleteHistory, Exists
  <1> QED BY <1>9, TablesMove DEF DeleteHistory

-----------------------------------------------------------------------------
(* Steps that write a work order.                                           *)

LEMMA WorkUpdates ==
  ASSUME NEW r \in WorkRow, NEW s \in Status
  PROVE  /\ Moved(r, s) \in WorkRow
         /\ Moved(r, s).status = s /\ ~Moved(r, s).brought
         /\ [r EXCEPT !.brought = TRUE] \in WorkRow
         /\ [at |-> "row", status |-> s, first |-> s, brought |-> FALSE]
              \in WorkRow
  BY DEF Moved, WorkRow

(* An order that exists gets a work order, or its work order is written.    *)
LEMMA WorkWritten ==
  ASSUME Base, NEW o \in Orders, Exists(o), NEW r \in WorkRow,
         work' = [work EXCEPT ![o] = r],
         UNCHANGED <<orders, history, reschedules, complaints, refunded, jobs,
                     requests, erased>>
  PROVE  Tables' /\ Grows /\ RowsKept'
  <1>1. /\ work' \in [Orders -> WorkRow \cup {Absent}]
        /\ \A q \in Orders : work[q] # Absent => work'[q] # Absent
        /\ \A q \in Orders : work'[q] # Absent => Exists(q)
    BY TablesHold, Shapes
  <1> QED BY <1>1, TablesHold, TablesWritten

(* No table changes.                                                        *)
LEMMA TablesStay ==
  ASSUME Base,
         UNCHANGED <<orders, history, work, reschedules, complaints, refunded,
                     jobs, requests, erased>>
  PROVE  Tables' /\ Grows /\ RowsKept'
  BY TablesHold, TablesWritten

LEMMA WorkCreateWriteBase ==
  ASSUME Base, NEW p \in Workers, WorkCreateWrite(p)
  PROVE  Base'
  <1> DEFINE o == w[p].o
             r == [at |-> "row", status |-> w[p].s, first |-> w[p].s,
                   brought |-> FALSE]
  <1>1. Sound(w[p]) /\ w[p].at = "work.create"
    BY WorkerTyped DEF WorkCreateWrite
  <1>2. o \in Orders /\ w[p].s \in Status
    BY <1>1 DEF Sound, Naming
  <1>3. r \in WorkRow
    BY <1>2, WorkUpdates DEF WorkRow
  <1>4. (work' = [work EXCEPT ![o] = r] /\ Exists(o)) \/ work' = work
    BY DEF WorkCreateWrite
  <1> HIDE DEF r
  <1>5. Tables' /\ Grows /\ RowsKept'
    BY <1>2, <1>3, <1>4, WorkWritten, TablesStay DEF WorkCreateWrite
  <1> QED BY <1>5, FinishMoves DEF WorkCreateWrite, Finish, Continue

LEMMA WorkWriteBase ==
  ASSUME Base, NEW p \in Workers, WorkWrite(p)
  PROVE  Base'
  <1> DEFINE o == w[p].o
             r == Moved(work[o], w[p].s)
  <1>1. /\ w[p] \in Request /\ Sound(w[p]) /\ StillThere(w[p])
        /\ w[p].at = "work.set"
    BY WorkerTyped DEF WorkWrite
  <1>2. o \in Orders /\ w[p].s \in Status
    BY <1>1 DEF Sound, Naming
  <1>3. work[o] \in WorkRow /\ Exists(o)
    BY <1>1, <1>2, TablesHold DEF StillThere
  <1>4. r \in WorkRow
    BY <1>2, <1>3, WorkUpdates
  <1>5. work' = [work EXCEPT ![o] = r]
    BY DEF WorkWrite
  <1> HIDE DEF r
  <1>6. Tables' /\ Grows /\ RowsKept'
    BY <1>2, <1>3, <1>4, <1>5, WorkWritten DEF WorkWrite
  <1>7. PICK x \in Request : x = [w[p] EXCEPT !.at = "work.reread"]
    BY <1>1, RequestUpdates
  <1>8. /\ x.at = "work.reread" /\ x.o = o /\ x.s = w[p].s
        /\ x.finds = w[p].finds /\ x.writes = w[p].writes /\ x.logs = w[p].logs
    BY <1>1, <1>7 DEF Request
  <1>9. Sound(x)
    BY <1>1, <1>2, <1>8 DEF Sound, Naming
  <1>10. work'[o] # Absent
    BY <1>2, <1>4, <1>5, TablesHold, Shapes
  <1>11. StillThere(x)'
    BY <1>8, <1>10 DEF StillThere
  <1>12. w' = [w EXCEPT ![p] = x]
    BY <1>7 DEF WorkWrite, Continue
  <1> QED BY <1>6, <1>9, <1>11, <1>12, WorkerMoves

LEMMA WorkRereadBase ==
  ASSUME Base, NEW p \in Workers, WorkReread(p)
  PROVE  Base'
  <1>1. Sound(w[p]) /\ w[p].at = "work.reread"
    BY WorkerTyped DEF WorkReread
  <1>2. w[p].o \in Orders /\ w[p].s \in Status
    BY <1>1 DEF Sound, Naming
  <1>3. Tables' /\ Grows /\ RowsKept'
    BY TablesStay DEF WorkReread
  <1>4. 1 \in 0..2 /\ "idle" \in {"idle", "work.create", "work.retukang"}
    OBVIOUS
  <1> QED BY <1>2, <1>3, <1>4, SettingMoves DEF WorkReread, Continue

LEMMA WorkUpdateWriteBase ==
  ASSUME Base, NEW p \in Workers, WorkUpdateWrite(p)
  PROVE  Base'
  <1> DEFINE o == w[p].o
             r == Moved(work[o], w[p].row)
  <1>1. Sound(w[p]) /\ StillThere(w[p]) /\ w[p].at = "work.update"
    BY WorkerTyped DEF WorkUpdateWrite
  <1>2. o \in Orders /\ w[p].s \in Status /\ w[p].row \in {None, w[p].s}
    BY <1>1 DEF Sound, Naming
  <1>3. work[o] \in WorkRow /\ Exists(o)
    BY <1>1, <1>2, TablesHold DEF StillThere
  <1>4. w[p].row # None => r \in WorkRow
    BY <1>2, <1>3, WorkUpdates
  <1>5. work' = work \/ (w[p].row # None /\ work' = [work EXCEPT ![o] = r])
    BY DEF WorkUpdateWrite
  <1>6. w' = [w EXCEPT ![p] = Setting(o, w[p].s, 1, "idle")]
    BY DEF WorkUpdateWrite, Continue
  <1> HIDE DEF r
  <1>7. Tables' /\ Grows /\ RowsKept'
    BY <1>2, <1>3, <1>4, <1>5, WorkWritten, TablesStay DEF WorkUpdateWrite
  <1>8. 1 \in 0..2 /\ "idle" \in {"idle", "work.create", "work.retukang"}
    OBVIOUS
  <1> QED BY <1>2, <1>6, <1>7, <1>8, SettingMoves

(* A handler that writes work orders by id finds it under its new order.    *)
LEMMA FollowingTyped ==
  ASSUME NEW x \in Request, Sound(x), NEW o \in Orders, NEW to \in Orders
  PROVE  LET y == Following(o, to, x)
         IN  /\ y \in Request /\ Sound(y)
             /\ y.at = x.at /\ y.s = x.s /\ y.row = x.row /\ y.id = x.id
             /\ y.finds = x.finds /\ y.writes = x.writes /\ y.logs = x.logs
             /\ x.at \in {"work.set", "work.reread", "work.update"} =>
                  y.o = IF x.o = o THEN to ELSE x.o
             /\ x.at \notin {"work.set", "work.reread", "work.update"} => y = x
  <1>1. CASE /\ x.at \in {"work.set", "work.reread", "work.update"}
             /\ x.o = o
    <2>1. PICK y \in Request : y = [x EXCEPT !.o = to]
      BY RequestUpdates
    <2>2. /\ y.at = x.at /\ y.s = x.s /\ y.row = x.row /\ y.id = x.id
          /\ y.finds = x.finds /\ y.writes = x.writes /\ y.logs = x.logs
          /\ y.o = to
      BY <2>1 DEF Request
    <2>3. Sound(y)
      BY <1>1, <2>2 DEF Sound, Naming
    <2>4. Following(o, to, x) = y
      BY <1>1, <2>1 DEF Following
    <2> QED BY <1>1, <2>2, <2>3, <2>4
  <1>2. CASE ~(/\ x.at \in {"work.set", "work.reread", "work.update"}
               /\ x.o = o)
    BY <1>2 DEF Following
  <1> QED BY <1>1, <1>2

(* What a work order handed to another order leaves behind.                 *)
LEMMA HandedOver ==
  ASSUME Base, NEW p \in Workers, WorkHandOver(p),
         Exists(w[p].to), work[w[p].to] = Absent
  PROVE  \E r \in WorkRow :
           /\ work' = [work EXCEPT ![w[p].o] = Absent, ![w[p].to] = r]
           /\ r.brought \/ r.status = w[p].s
           /\ w[p].o \in Orders /\ w[p].to \in Orders /\ w[p].o # w[p].to
           /\ w[p].s \in Status /\ w[p].at = "work.update"
           /\ w' = [q \in Workers |->
                      IF q = p THEN Setting(w[p].to, w[p].s, 1, "idle")
                      ELSE Following(w[p].o, w[p].to, w[q])]
  <1> DEFINE o == w[p].o
             to == w[p].to
             r == IF w[p].row = None THEN [work[o] EXCEPT !.brought = TRUE]
                  ELSE Moved(work[o], w[p].row)
  <1>1. /\ w[p] \in Request /\ Sound(w[p]) /\ StillThere(w[p])
        /\ w[p].at = "work.update"
    BY WorkerTyped DEF WorkHandOver
  <1>2. /\ o \in Orders /\ w[p].s \in Status /\ w[p].row \in {None, w[p].s}
        /\ to \in Orders /\ o # to
    BY <1>1 DEF Sound, Naming, WorkHandOver, Request
  <1>3. work[o] \in WorkRow
    BY <1>1, <1>2, TablesHold DEF StillThere
  <1>4. [work[o] EXCEPT !.brought = TRUE].brought
    BY <1>3 DEF WorkRow
  <1>5. r \in WorkRow /\ (r.brought \/ r.status = w[p].s)
    BY <1>2, <1>3, <1>4, WorkUpdates
  <1>6. /\ work' = [work EXCEPT ![o] = Absent, ![to] = r]
        /\ w' = [q \in Workers |->
                   IF q = p THEN Setting(to, w[p].s, 1, "idle")
                   ELSE Following(o, to, w[q])]
    BY DEF WorkHandOver
  <1> HIDE DEF r
  <1> QED BY <1>1, <1>2, <1>5, <1>6

LEMMA WorkHandOverBase ==
  ASSUME Base, NEW p \in Workers, WorkHandOver(p)
  PROVE  Base'
  <1>1. CASE ~(Exists(w[p].to) /\ work[w[p].to] = Absent)
    <2>1. /\ w' = [w EXCEPT ![p] = Idle]
          /\ UNCHANGED <<orders, history, work, reschedules, complaints,
                         refunded, jobs, requests, erased>>
      BY <1>1 DEF WorkHandOver, Finish, Continue
    <2> QED BY <2>1, TablesStay, FinishMoves
  <1>2. CASE Exists(w[p].to) /\ work[w[p].to] = Absent
    <2> DEFINE o == w[p].o
               to == w[p].to
    <2>1. PICK r \in WorkRow :
            /\ work' = [work EXCEPT ![o] = Absent, ![to] = r]
            /\ o \in Orders /\ to \in Orders /\ o # to
            /\ w[p].s \in Status /\ w[p].at = "work.update"
            /\ w' = [q \in Workers |->
                       IF q = p THEN Setting(to, w[p].s, 1, "idle")
                       ELSE Following(o, to, w[q])]
      BY <1>2, HandedOver
    <2>2. /\ work' \in [Orders -> WorkRow \cup {Absent}]
          /\ work'[to] = r /\ work'[o] = Absent
          /\ \A q \in Orders \ {o, to} : work'[q] = work[q]
      BY <2>1, TablesHold
    <2>3. UNCHANGED <<orders, history, reschedules, complaints, refunded, jobs,
                      requests, erased>>
      BY DEF WorkHandOver
    <2>4. Tables' /\ RowsKept'
      <3>1. Tables'
        BY <2>2, <2>3 DEF Base, TypeOK, Tables
      <3>2. \A q \in Orders : work'[q] # Absent => Exists(q)
        BY <1>2, <2>2, TablesHold
      <3> QED BY <2>3, <3>1, <3>2, TablesHold DEF RowsKept, Exists
    <2>5. ASSUME NEW q \in Workers
          PROVE  w'[q] \in Request /\ Sound(w'[q]) /\ StillThere(w[q])'
      <3>1. CASE q = p
        <4>1. w'[q] = Setting(to, w[p].s, 1, "idle")
          BY <2>1, <3>1
        <4>2. PICK x \in Request : x = Setting(to, w[p].s, 1, "idle")
          BY <2>1, SettingTyped
        <4>3. Sound(x) /\ x.at = "status" /\ x.logs = 0
          BY <2>1, <4>2, SettingTyped
        <4> QED BY <4>1, <4>2, <4>3 DEF StillThere
      <3>2. CASE q # p
        <4>1. w[q] \in Request /\ Sound(w[q]) /\ StillThere(w[q])
          BY WorkerTyped
        <4>2. w'[q] = Following(o, to, w[q])
          BY <2>1, <3>2
        <4>3. PICK y : y = Following(o, to, w[q])
          OBVIOUS
        <4>4. /\ y \in Request /\ Sound(y)
              /\ y.at = w[q].at /\ y.id = w[q].id /\ y.logs = w[q].logs
              /\ w[q].at \in {"work.set", "work.reread", "work.update"} =>
                   y.o = IF w[q].o = o THEN to ELSE w[q].o
              /\ w[q].at \notin {"work.set", "work.reread", "work.update"}
                   => y = w[q]
          BY <2>1, <4>1, <4>3, FollowingTyped
        <4>5. w[q].at \in {"work.set", "work.reread", "work.update"}
                => w[q].o \in Orders /\ work[w[q].o] # Absent
          BY <4>1 DEF Sound, StillThere
        <4>6. r # Absent
          BY Shapes
        <4>7. y.at \in {"work.set", "work.reread", "work.update"}
                => work'[y.o] # Absent
          BY <2>1, <2>2, <4>4, <4>5, <4>6, <1>2
        <4>8. StillThere(w[q])'
          BY <2>3, <4>1, <4>2, <4>3, <4>4, <4>7 DEF StillThere
        <4> QED BY <4>2, <4>3, <4>4, <4>8
      <3> QED BY <3>1, <3>2
    <2>6. w' \in [Workers -> Request]
      BY <2>1, <2>5
    <2> QED BY <2>4, <2>5, <2>6 DEF Base, RequestsSound, TypeOK, Tables
  <1> QED BY <1>1, <1>2

LEMMA WorkRetukangBase ==
  ASSUME Base, NEW p \in Workers, WorkRetukang(p)
  PROVE  Base'
  <1> DEFINE o == w[p].o
             r == Moved(work[o], w[p].s)
  <1>1. Sound(w[p]) /\ w[p].at = "work.retukang"
    BY WorkerTyped DEF WorkRetukang
  <1>2. o \in Orders /\ w[p].s \in Status
    BY <1>1 DEF Sound, Naming
  <1>3. work[o] # Absent => r \in WorkRow /\ Exists(o)
    BY <1>2, TablesHold, WorkUpdates
  <1>4. work' = work \/ (work[o] # Absent /\ work' = [work EXCEPT ![o] = r])
    BY DEF WorkRetukang
  <1> HIDE DEF r
  <1>5. Tables' /\ Grows /\ RowsKept'
    BY <1>2, <1>3, <1>4, WorkWritten, TablesStay DEF WorkRetukang
  <1> QED BY <1>5, FinishMoves DEF WorkRetukang, Finish, Continue

LEMMA ComplaintWorkBase ==
  ASSUME Base, NEW p \in Workers, ComplaintWork(p)
  PROVE  Base'
  <1> DEFINE o == w[p].o
             r == Moved(work[o], w[p].s)
  <1>1. Sound(w[p]) /\ w[p].at = "complaint.work"
    BY WorkerTyped DEF ComplaintWork
  <1>2. o \in Orders /\ w[p].s \in Status
    BY <1>1 DEF Sound, Naming
  <1>3. CASE work[o] = Absent
    <2>1. Tables' /\ Grows /\ RowsKept'
      BY <1>3, TablesStay DEF ComplaintWork
    <2> QED BY <1>3, <2>1, FinishMoves DEF ComplaintWork, Finish, Continue
  <1>4. CASE work[o] # Absent
    <2>1. r \in WorkRow /\ Exists(o)
      BY <1>2, <1>4, TablesHold, WorkUpdates
    <2>2. /\ work' = [work EXCEPT ![o] = r]
          /\ w' = [w EXCEPT ![p] = Setting(o, w[p].s, 1, "idle")]
      BY <1>4 DEF ComplaintWork, Continue
    <2> HIDE DEF r
    <2>3. Tables' /\ Grows /\ RowsKept'
      BY <1>2, <2>1, <2>2, WorkWritten DEF ComplaintWork
    <2>4. 1 \in 0..2 /\ "idle" \in {"idle", "work.create", "work.retukang"}
      OBVIOUS
    <2> QED BY <1>2, <2>2, <2>3, <2>4, SettingMoves
  <1> QED BY <1>3, <1>4

-----------------------------------------------------------------------------
(* Steps that write reschedules, refunds and complaints.                    *)

LEMMA LinkAdded ==
  ASSUME Base, NEW o \in Orders, NEW s \in Status
  PROVE  LET r == [o |-> o, status |-> s]
         IN  /\ Append(reschedules, r) \in Seq(LinkRow)
             /\ DOMAIN reschedules \subseteq DOMAIN Append(reschedules, r)
             /\ Append(complaints, r) \in Seq(LinkRow)
             /\ DOMAIN complaints \subseteq DOMAIN Append(complaints, r)
  <1> DEFINE r == [o |-> o, status |-> s]
  <1>1. r \in LinkRow
    BY DEF LinkRow
  <1> HIDE DEF r
  <1>2. reschedules \in Seq(LinkRow) /\ complaints \in Seq(LinkRow)
    BY TablesHold
  <1>3. /\ Append(reschedules, r) \in Seq(LinkRow)
        /\ DOMAIN reschedules \subseteq DOMAIN Append(reschedules, r)
    BY <1>1, <1>2
  <1>4. /\ Append(complaints, r) \in Seq(LinkRow)
        /\ DOMAIN complaints \subseteq DOMAIN Append(complaints, r)
    BY <1>1, <1>2
  <1> QED BY <1>3, <1>4 DEF r

LEMMA LinkUpdated ==
  ASSUME NEW q \in Seq(LinkRow), NEW i \in DOMAIN q, NEW o \in Orders,
         NEW s \in Status
  PROVE  /\ [q EXCEPT ![i].status = s] \in Seq(LinkRow)
         /\ DOMAIN [q EXCEPT ![i].status = s] = DOMAIN q
         /\ [q EXCEPT ![i] = [o |-> o, status |-> s]] \in Seq(LinkRow)
         /\ DOMAIN [q EXCEPT ![i] = [o |-> o, status |-> s]] = DOMAIN q
  <1> DEFINE r == [q[i] EXCEPT !.status = s]
  <1>1. q[i] \in LinkRow
    OBVIOUS
  <1>2. r \in LinkRow
    BY <1>1 DEF LinkRow
  <1> HIDE DEF r
  <1>3. /\ [q EXCEPT ![i] = r] \in Seq(LinkRow)
        /\ DOMAIN [q EXCEPT ![i] = r] = DOMAIN q
    BY <1>2, ExceptSeq
  <1>4. [o |-> o, status |-> s] \in LinkRow
    BY DEF LinkRow
  <1>5. /\ [q EXCEPT ![i] = [o |-> o, status |-> s]] \in Seq(LinkRow)
        /\ DOMAIN [q EXCEPT ![i] = [o |-> o, status |-> s]] = DOMAIN q
    BY <1>4, ExceptSeq
  <1> QED BY <1>3, <1>5 DEF r

(* The row that names the order is added; the order's status follows.       *)
LEMMA LinkMoves ==
  ASSUME Base, Grows, Tables', RowsKept', NEW p \in Workers, NEW n \in 0..2,
         w[p].o \in Orders, w[p].s \in Status, LinkWritten(p, n)
  PROVE  Base'
  <1>1. "idle" \in {"idle", "work.create", "work.retukang"}
    OBVIOUS
  <1>2. CASE Exists(w[p].o)
    <2>1. w' = [w EXCEPT ![p] = Setting(w[p].o, w[p].s, n, "idle")]
      BY <1>2 DEF LinkWritten, Continue
    <2> QED BY <1>1, <2>1, SettingMoves
  <1>3. CASE ~Exists(w[p].o)
    BY <1>3, FinishMoves DEF LinkWritten, Finish, Continue
  <1> QED BY <1>2, <1>3

LEMMA LinkWrites ==
  ASSUME Base, NEW p \in Workers,
         RescheduleWrite(p) \/ RefundWrite(p) \/ ComplaintWrite(p)
  PROVE  Base'
  <1>1. /\ Sound(w[p])
        /\ w[p].at \in {"reschedule.create", "refund.create", "complaint.create"}
    BY WorkerTyped DEF RescheduleWrite, RefundWrite, ComplaintWrite
  <1>2. w[p].o \in Orders /\ w[p].s \in Status
    BY <1>1 DEF Sound, Naming
  <1>3. 1 \in 0..2 /\ 2 \in 0..2
    OBVIOUS
  <1>4. CASE RescheduleWrite(p)
    <2>1. /\ reschedules' \in Seq(LinkRow)
          /\ DOMAIN reschedules \subseteq DOMAIN reschedules'
      BY <1>2, <1>4, LinkAdded, TablesHold DEF RescheduleWrite
    <2>2. Tables' /\ Grows /\ RowsKept'
      BY <1>4, <2>1, TablesHold, TablesWritten DEF RescheduleWrite
    <2> QED BY <1>2, <1>3, <1>4, <2>2, LinkMoves DEF RescheduleWrite
  <1>5. CASE RefundWrite(p)
    <2>1. refunded' \subseteq Orders
      BY <1>2, <1>5, TablesHold DEF RefundWrite
    <2>2. Tables' /\ Grows /\ RowsKept'
      BY <1>5, <2>1, TablesHold, TablesWritten DEF RefundWrite
    <2> QED BY <1>2, <1>3, <1>5, <2>2, LinkMoves DEF RefundWrite
  <1>6. CASE ComplaintWrite(p)
    <2>1. /\ complaints' \in Seq(LinkRow)
          /\ DOMAIN complaints \subseteq DOMAIN complaints'
      BY <1>2, <1>6, LinkAdded, TablesHold DEF ComplaintWrite
    <2>2. Tables' /\ Grows /\ RowsKept'
      BY <1>6, <2>1, TablesHold, TablesWritten DEF ComplaintWrite
    <2> QED BY <1>2, <1>3, <1>6, <2>2, LinkMoves DEF ComplaintWrite
  <1> QED BY <1>4, <1>5, <1>6

LEMMA RescheduleUpdateBase ==
  ASSUME Base, NEW p \in Workers, RescheduleUpdate(p)
  PROVE  Base'
  <1>1. /\ w[p] \in Request /\ Sound(w[p]) /\ StillThere(w[p])
        /\ w[p].at = "reschedule.update"
    BY WorkerTyped DEF RescheduleUpdate
  <1>2. /\ w[p].o \in Orders /\ w[p].row \in Status
        /\ w[p].s \in Status \cup {None}
        /\ w[p].id \in DOMAIN reschedules
    BY <1>1 DEF Sound, StillThere, Request
  <1>3. /\ reschedules' \in Seq(LinkRow)
        /\ DOMAIN reschedules \subseteq DOMAIN reschedules'
    BY <1>2, LinkUpdated, TablesHold DEF RescheduleUpdate
  <1>4. Tables' /\ Grows /\ RowsKept'
    BY <1>3, TablesHold, TablesWritten DEF RescheduleUpdate
  <1>5. /\ 1 \in 0..2
        /\ "work.retukang" \in {"idle", "work.create", "work.retukang"}
    OBVIOUS
  <1>6. CASE w[p].s = None
    BY <1>4, <1>6, FinishMoves DEF RescheduleUpdate, Finish, Continue
  <1>7. CASE w[p].s # None
    <2>1. w' = [w EXCEPT ![p] = Setting(w[p].o, w[p].s, 1, "work.retukang")]
      BY <1>7 DEF RescheduleUpdate, Continue
    <2> QED BY <1>2, <1>4, <1>5, <1>7, <2>1, SettingMoves
  <1> QED BY <1>6, <1>7

LEMMA ComplaintUpdateBase ==
  ASSUME Base, NEW p \in Workers, ComplaintUpdate(p)
  PROVE  Base'
  <1>1. /\ w[p] \in Request /\ Sound(w[p]) /\ StillThere(w[p])
        /\ w[p].at = "complaint.update"
    BY WorkerTyped DEF ComplaintUpdate
  <1> DEFINE o == IF w[p].to = None THEN complaints[w[p].id].o ELSE w[p].o
  <1>2. /\ w[p].o \in Orders /\ w[p].row \in Status
        /\ w[p].s \in Status \cup {None}
        /\ w[p].id \in DOMAIN complaints
    BY <1>1 DEF Sound, StillThere, Request
  <1>a. o \in Orders
    BY <1>2, LinkTyped DEF Base, LinkRow
  <1>3. /\ complaints' \in Seq(LinkRow)
        /\ DOMAIN complaints \subseteq DOMAIN complaints'
    <2>1. CASE Exists(o)
      <3>1. complaints' = [complaints EXCEPT ![w[p].id] =
                             [o |-> o, status |-> w[p].row]]
        BY <2>1 DEF ComplaintUpdate
      <3> HIDE DEF o
      <3> QED BY <1>2, <1>a, <3>1, LinkUpdated, TablesHold
    <2>2. CASE ~Exists(o)
      BY <2>2, TablesHold DEF ComplaintUpdate
    <2> QED BY <2>1, <2>2
  <1>4. Tables' /\ Grows /\ RowsKept'
    BY <1>3, TablesHold, TablesWritten DEF ComplaintUpdate
  <1>5. 1 \in 0..2 /\ "idle" \in {"idle", "work.create", "work.retukang"}
    OBVIOUS
  <1>6. CASE ~Exists(o) \/ w[p].s = None
    <2>1. w' = [w EXCEPT ![p] = Idle]
      BY <1>6 DEF ComplaintUpdate, Finish, Continue
    <2> QED BY <1>4, <2>1, FinishMoves
  <1>7. CASE Exists(o) /\ w[p].s # None /\ w[p].row = "COMPLAINTAPPROVEDBYHO"
    <2>1. PICK x \in Request : x = [w[p] EXCEPT !.at = "complaint.work"]
      BY <1>1, RequestUpdates
    <2>2. /\ x.at = "complaint.work" /\ x.o = w[p].o /\ x.s = w[p].s
          /\ x.finds = w[p].finds /\ x.writes = w[p].writes
          /\ x.logs = w[p].logs
      BY <1>1, <2>1 DEF Request
    <2>3. x.finds + x.writes + x.logs <= 2
      BY <1>1, <2>2 DEF Sound
    <2>4. Sound(x)
      BY <1>2, <1>7, <2>2, <2>3 DEF Sound, Naming
    <2>5. StillThere(x)'
      BY <2>2 DEF StillThere
    <2>6. w' = [w EXCEPT ![p] = x]
      BY <1>7, <2>1 DEF ComplaintUpdate, Continue
    <2> QED BY <1>4, <2>4, <2>5, <2>6, WorkerMoves
  <1>8. CASE Exists(o) /\ w[p].s # None /\ w[p].row # "COMPLAINTAPPROVEDBYHO"
    <2>1. w' = [w EXCEPT ![p] = Setting(o, w[p].s, 1, "idle")]
      BY <1>8 DEF ComplaintUpdate, Continue
    <2> HIDE DEF o
    <2> QED BY <1>2, <1>a, <1>4, <1>5, <1>8, <2>1, SettingMoves
  <1> QED BY <1>6, <1>7, <1>8

-----------------------------------------------------------------------------
(* The midnight jobs.                                                       *)

LEMMA JobListed == \A j : JobList(j) \subseteq Orders
  BY DEF JobList

LEMMA JobReadBase ==
  ASSUME Base, NEW j \in Jobs, JobRead(j)
  PROVE  Base'
  <1>1. jobs' \in [Jobs -> SUBSET Orders]
    BY JobListed, TablesHold DEF JobRead
  <1>2. Tables' /\ Grows /\ RowsKept'
    BY <1>1, TablesHold, TablesWritten DEF JobRead
  <1> QED BY <1>2, TablesMove DEF JobRead

LEMMA JobUnpaidBase ==
  ASSUME Base, JobUnpaid
  PROVE  Base'
  <1>1. ASSUME NEW o \in Orders
        PROVE  /\ orders'[o] \in OrderRow \cup {Absent, Deleted}
               /\ Exists(o) <=> orders'[o].at = "row"
               /\ orders'[o] = Absent <=> orders[o] = Absent
    <2>1. CASE o \in jobs["unpaid"] /\ Exists(o)
      <3>1. orders[o] \in OrderRow /\ orders[o] # Absent
        BY <2>1, RowTyped DEF Base
      <3>2. "UNPAID" \in Status
        BY DEF Status
      <3>3. orders'[o] \in OrderRow
        BY <2>1, <3>1, <3>2, OrderUpdates DEF JobUnpaid
      <3> QED BY <2>1, <3>1, <3>3, Shapes
    <2>2. CASE ~(o \in jobs["unpaid"] /\ Exists(o))
      <3>1. orders'[o] = orders[o]
        BY <2>2 DEF JobUnpaid
      <3> QED BY <3>1 DEF Base, TypeOK, Exists
    <2> QED BY <2>1, <2>2
  <1>2. jobs' \in [Jobs -> SUBSET Orders]
    BY TablesHold DEF JobUnpaid
  <1>3. orders' \in [Orders -> OrderRow \cup {Absent, Deleted}]
    BY <1>1 DEF JobUnpaid
  <1>4. Tables'
    BY <1>2, <1>3, TablesHold DEF JobUnpaid, Tables
  <1>5. Grows
    BY <1>1 DEF JobUnpaid, Grows
  <1>6. RowsKept'
    BY <1>1 DEF JobUnpaid, Base, RowsKept, Exists
  <1> QED BY <1>4, <1>5, <1>6, TablesMove DEF JobUnpaid

LEMMA JobDeleteBase ==
  ASSUME Base, JobDelete
  PROVE  Base'
  <1> DEFINE gone == IF \E o \in jobs["picklist"] : Linked(o) THEN {}
                     ELSE jobs["picklist"]
  <1>1. /\ orders' = [o \in Orders |-> IF o \in gone THEN Deleted ELSE orders[o]]
        /\ history' = [o \in Orders |-> IF o \in gone THEN <<>> ELSE history[o]]
    BY DEF JobDelete
  <1>2. \A o \in gone : ~Linked(o)
    OBVIOUS
  <1>3. \A o \in gone : work[o] = Absent
    BY <1>2 DEF Linked
  <1> HIDE DEF gone
  <1>4. jobs' \in [Jobs -> SUBSET Orders]
    BY TablesHold DEF JobDelete
  <1>5. <<>> \in Seq(Status)
    OBVIOUS
  <1>6. /\ orders' \in [Orders -> OrderRow \cup {Absent, Deleted}]
        /\ history' \in [Orders -> Seq(Status)]
    BY <1>1, <1>5 DEF Base, TypeOK
  <1>7. Tables'
    BY <1>4, <1>6, TablesHold DEF JobDelete, Tables
  <1>8. Grows
    BY <1>1, Shapes DEF JobDelete, Grows
  <1>9. RowsKept'
    BY <1>1, <1>3, Shapes DEF JobDelete, Base, RowsKept, Exists
  <1> QED BY <1>7, <1>8, <1>9, TablesMove DEF JobDelete

-----------------------------------------------------------------------------
(* Types and references, for every step.                                    *)

LEMMA InitBase ==
  ASSUME Init
  PROVE  Base
  <1>1. TypeOK
    BY IdleTyped, BoundAssumption DEF Init, TypeOK
  <1>2. RequestsSound /\ \A p \in Workers : StillThere(w[p])
    BY IdleTyped DEF Init, RequestsSound, StillThere
  <1>3. RowsKept
    BY DEF Init, RowsKept
  <1> QED BY <1>1, <1>2, <1>3 DEF Base

LEMMA NextBase ==
  ASSUME Base, [Next]_vars
  PROVE  Base'
  <1>1. ASSUME NEW p \in Workers, OrderRequest(p)
        PROVE  Base'
    BY <1>1, OrderReads, RowsBase, DeleteHistoryBase DEF OrderRequest
  <1>2. ASSUME NEW p \in Workers, Handle(p)
        PROVE  Base'
    <2>1. CASE \/ FindOrder(p) \/ SetStatus(p) \/ AddHistory(p)
               \/ \E o \in Orders : CreateWrite(p, o)
      BY <2>1, FindOrderBase, SetStatusBase, AddHistoryBase, CreateWriteBase
    <2>2. CASE UpdateFind(p) \/ UpdateWrite(p)
      BY <2>2, OrderReads, UpdateWriteBase
    <2>3. CASE WorkCreateWrite(p) \/ WorkRetukang(p) \/ ComplaintWork(p)
      BY <2>3, WorkCreateWriteBase, WorkRetukangBase, ComplaintWorkBase
    <2>a. CASE WorkWrite(p) \/ WorkReread(p) \/ WorkUpdateWrite(p)
               \/ WorkHandOver(p)
      BY <2>a, WorkWriteBase, WorkRereadBase, WorkUpdateWriteBase,
         WorkHandOverBase
    <2>4. CASE RescheduleWrite(p) \/ RefundWrite(p) \/ ComplaintWrite(p)
               \/ RescheduleUpdate(p) \/ ComplaintUpdate(p)
      BY <2>4, LinkWrites, RescheduleUpdateBase, ComplaintUpdateBase
    <2> QED BY <1>2, <2>1, <2>2, <2>3, <2>a, <2>4 DEF Handle
  <1>3. CASE UNCHANGED vars
    <2>1. w' = w
      BY <1>3 DEF vars
    <2>2. Tables' /\ Grows /\ RowsKept'
      BY <1>3, TablesStay DEF vars
    <2> QED BY <2>1, <2>2, TablesMove
  <1> QED BY <1>1, <1>2, <1>3, WorkReads, LinkReads, RowsBase, JobReadBase,
             JobUnpaidBase, JobDeleteBase DEF Next

(* TypeOK of every reachable state, whatever the ids, receipts, workers and *)
(* requested statuses: no handler of the order service, the work orders,    *)
(* reschedules, refunds and complaints, and no midnight job, leaves a table *)
(* or a pending request with a value the next step cannot handle.           *)
THEOREM SpecTypeOK == Spec => []TypeOK
  <1>1. Init => Base
    BY InitBase
  <1>2. Base /\ [Next]_vars => Base'
    BY NextBase
  <1>3. Base => TypeOK
    BY DEF Base
  <1> QED BY <1>1, <1>2, <1>3, PTL DEF Spec

-----------------------------------------------------------------------------
(* Status and history, given types and references.                          *)

(* The second half of Consistent: what the history tells.                   *)
Told ==
  /\ \A p \in Workers : RowAdded(w[p])
  /\ ListedWasBooked
  /\ \A o \in Orders \ erased : Exists(o) => Accounted(o)
  /\ WorkOrderLogged

(* A worker that was not writing the order's status moves on, and no history *)
(* or order changes; a work order may, to a status that is backed.          *)
LEMMA QuietMove ==
  ASSUME Base, Told, NEW p \in Workers, NEW x \in Request,
         w' = [w EXCEPT ![p] = x],
         w[p].at # "status",
         w[p].at = "work.reread" => x.at = "status" /\ x.o = w[p].o /\ x.s = w[p].s,
         x.at \notin {"work.create", "work.retukang"},
         x.at = "status" => x.logs = 0,
         UNCHANGED <<orders, history, jobs, erased>>,
         \A o \in Orders : work'[o] # Absent =>
           \/ work'[o] = work[o]
           \/ o \notin erased => Logged(o, work'[o].status)
           \/ /\ x.at \in {"status", "work.reread"}
              /\ x.o = o /\ x.s = work'[o].status
  PROVE  Told'
  <1>1. /\ w'[p] = x
        /\ \A q \in Workers \ {p} : w'[q] = w[q]
    BY DEF Base, TypeOK
  <1>2. ASSUME NEW o, NEW s, Known(o, s)
        PROVE  Known(o, s)'
    BY <1>1, <1>2 DEF Known, Logged, Unlogged
  <1>3. ASSUME NEW q \in Workers
        PROVE  RowAdded(w[q])'
    <2>1. CASE q = p
      BY <1>1, <2>1 DEF RowAdded
    <2>2. CASE q # p
      <3>1. RowAdded(w[q]) /\ w'[q] = w[q]
        BY <1>1, <2>2 DEF Told
      <3> QED BY <3>1 DEF RowAdded, Exists, Logged
    <2> QED BY <2>1, <2>2
  <1>4. ListedWasBooked'
    BY <1>2 DEF Told, ListedWasBooked, Exists
  <1>5. ASSUME NEW o \in Orders, o \notin erased, Exists(o)
        PROVE  Accounted(o)'
    <2>1. CASE Known(o, orders[o].status)
      <3>1. PICK s : s = orders[o].status
        OBVIOUS
      <3>2. Known(o, s)'
        BY <1>2, <2>1, <3>1
      <3> QED BY <3>1, <3>2 DEF Accounted, Known, Logged, Unlogged
    <2>2. CASE orders[o].status = "UNPAID" /\ Known(o, "BOOK")
      BY <1>2, <2>2 DEF Accounted
    <2>3. CASE /\ orders[o].public /\ orders[o].status = "BOOKED"
               /\ history[o] = <<>>
               /\ \A q \in Workers : w[q].at = "status" /\ w[q].o = o
                                       => w[q].logs = 0
      BY <1>1, <2>3 DEF Accounted
    <2> QED BY <1>5, <2>1, <2>2, <2>3 DEF Told, Accounted
  <1>6. ASSUME NEW o \in Orders, o \notin erased, work'[o] # Absent
        PROVE  \/ Logged(o, work[o].status)' \/ Coming(o, work[o].status)'
               \/ orders'[o].removed \/ work'[o].brought
    <2>1. CASE work'[o] = work[o]
      <3>1. PICK s : s = work[o].status
        OBVIOUS
      <3>2. \/ Logged(o, s) \/ Coming(o, s)
            \/ orders[o].removed \/ work[o].brought
        BY <1>6, <2>1, <3>1 DEF Told, WorkOrderLogged
      <3>3. Logged(o, s) => Logged(o, work[o].status)'
        BY <2>1, <3>1 DEF Logged
      <3>4. Coming(o, s) => Coming(o, work[o].status)'
        <4>1. SUFFICES ASSUME NEW q \in Workers,
                              w[q].at \in {"status", "work.reread"},
                              w[q].o = o, w[q].s = s
                       PROVE  \E r \in Workers :
                                /\ w'[r].at \in {"status", "work.reread"}
                                /\ w'[r].o = o /\ w'[r].s = work'[o].status
          BY DEF Coming
        <4>2. /\ w'[q].at \in {"status", "work.reread"}
              /\ w'[q].o = o /\ w'[q].s = s
          BY <1>1, <4>1
        <4> QED BY <2>1, <3>1, <4>2
      <3> QED BY <2>1, <3>2, <3>3, <3>4
    <2>2. CASE Logged(o, work'[o].status)
      BY <2>2 DEF Logged
    <2>3. CASE /\ x.at \in {"status", "work.reread"}
               /\ x.o = o /\ x.s = work'[o].status
      BY <1>1, <2>3 DEF Coming
    <2> QED BY <1>6, <2>1, <2>2, <2>3
  <1>7. WorkOrderLogged'
    BY <1>6 DEF WorkOrderLogged
  <1> QED BY <1>3, <1>4, <1>5, <1>7 DEF Told, Exists

(* A handler writes the status of an order, or adds the order, and is about *)
(* to add the history row.                                                  *)
LEMMA RowLogged ==
  ASSUME Base, Told, NEW p \in Workers, NEW x \in Request, NEW o \in Orders,
         NEW r \in OrderRow, orders[o] # Deleted,
         orders' = [orders EXCEPT ![o] = r],
         Exists(o) => r.removed = orders[o].removed,
         w' = [w EXCEPT ![p] = x], w[p].at # "work.reread",
         w[p].at = "status" => w[p].o = o /\ w[p].s = r.status,
         x.at = "status", x.o = o, x.s = r.status, x.logs > 0,
         UNCHANGED <<history, work, jobs, erased>>
  PROVE  Told'
  <1>1. /\ w'[p] = x
        /\ \A q \in Workers \ {p} : w'[q] = w[q]
    BY DEF Base, TypeOK
  <1>2. /\ orders'[o] = r /\ r.at = "row"
        /\ \A a \in Orders \ {o} : orders'[a] = orders[a]
    BY Shapes DEF Base, TypeOK
  <1>3. orders[o] # Absent => Exists(o)
    BY RowTyped DEF Base
  <1>4. \A a \in Orders : orders[a] # Absent =>
          orders'[a] # Absent /\ (Exists(a)' => Exists(a))
    BY <1>2, <1>3, Shapes DEF Exists
  <1>5. ASSUME NEW a, NEW s, Known(a, s)
        PROVE  Known(a, s)'
    BY <1>1, <1>5 DEF Known, Logged, Unlogged
  <1>6. ASSUME NEW q \in Workers
        PROVE  RowAdded(w[q])'
    <2>1. CASE q = p
      BY <1>1, <2>1 DEF RowAdded
    <2>2. CASE q # p
      <3>1. /\ RowAdded(w[q]) /\ w'[q] = w[q]
            /\ w[q].at \in {"work.create", "work.retukang"} => w[q].o \in Orders
        BY <1>1, <2>2, WorkerTyped DEF Told, Sound
      <3> QED BY <1>4, <3>1 DEF RowAdded, Exists, Logged
    <2> QED BY <2>1, <2>2
  <1>7. ListedWasBooked'
    <2>1. jobs["unpaid"] \subseteq Orders
      BY TablesHold DEF Jobs
    <2> QED BY <1>4, <1>5, <2>1 DEF Told, ListedWasBooked, Exists
  <1>8. ASSUME NEW a \in Orders, a \notin erased, Exists(a)'
        PROVE  Accounted(a)'
    <2>1. CASE a = o
      BY <1>1, <1>2, <2>1 DEF Accounted, Known, Unlogged
    <2>2. CASE a # o
      <3>1. orders'[a] = orders[a] /\ Accounted(a)
        BY <1>2, <1>8, <2>2 DEF Told, Exists
      <3>2. CASE Known(a, orders[a].status)
        <4>1. PICK s : s = orders[a].status
          OBVIOUS
        <4>2. Known(a, s)'
          BY <1>5, <3>2, <4>1
        <4> QED BY <3>1, <4>1, <4>2 DEF Accounted, Known, Logged, Unlogged
      <3>3. CASE orders[a].status = "UNPAID" /\ Known(a, "BOOK")
        BY <1>5, <3>1, <3>3 DEF Accounted
      <3>4. CASE /\ orders[a].public /\ orders[a].status = "BOOKED"
                 /\ history[a] = <<>>
                 /\ \A q \in Workers : w[q].at = "status" /\ w[q].o = a
                                         => w[q].logs = 0
        BY <1>1, <2>2, <3>1, <3>4 DEF Accounted
      <3> QED BY <3>1, <3>2, <3>3, <3>4 DEF Accounted
    <2> QED BY <2>1, <2>2
  <1>9. WorkOrderLogged'
    <2>1. SUFFICES ASSUME NEW a \in Orders, a \notin erased, work[a] # Absent
                   PROVE  \/ Logged(a, work[a].status)
                          \/ Coming(a, work[a].status)'
                          \/ orders'[a].removed \/ work[a].brought
      BY DEF WorkOrderLogged, Logged
    <2>2. \/ Logged(a, work[a].status) \/ Coming(a, work[a].status)
          \/ orders[a].removed \/ work[a].brought
      BY <2>1 DEF Told, WorkOrderLogged
    <2>3. Coming(a, work[a].status) => Coming(a, work[a].status)'
      BY <1>1 DEF Coming
    <2>4. orders'[a].removed = orders[a].removed
      BY <1>2, <2>1, TablesHold
    <2> QED BY <2>2, <2>3, <2>4
  <1> QED BY <1>6, <1>7, <1>8, <1>9 DEF Told

(* findOne finds the order: nothing anybody knows of the order changes.     *)
LEMMA FindOrderTold ==
  ASSUME Base, Told, NEW p \in Workers, NEW x \in Request,
         w' = [w EXCEPT ![p] = x], w[p].at = "status", x.at = "status",
         x.o = w[p].o, x.s = w[p].s, x.logs = w[p].logs,
         UNCHANGED <<orders, history, work, jobs, erased>>
  PROVE  Told'
  <1>1. /\ w'[p] = x
        /\ \A q \in Workers \ {p} : w'[q] = w[q]
    BY DEF Base, TypeOK
  <1>2. \A o, s : Known(o, s) <=> Known(o, s)'
    BY <1>1 DEF Known, Logged, Unlogged
  <1>3. \A o, s : Coming(o, s) => Coming(o, s)'
    BY <1>1 DEF Coming
  <1>4. ASSUME NEW q \in Workers PROVE RowAdded(w[q])'
    BY <1>1 DEF Told, RowAdded, Exists, Logged
  <1>5. ListedWasBooked'
    BY <1>2 DEF Told, ListedWasBooked, Exists
  <1>6. ASSUME NEW o \in Orders, o \notin erased, Exists(o)
        PROVE  Accounted(o)'
    <2>1. Accounted(o)
      BY <1>6 DEF Told
    <2>2. PICK s : s = orders[o].status
      OBVIOUS
    <2>3. Known(o, s) => Accounted(o)'
      BY <1>2, <2>2 DEF Accounted, Known, Logged, Unlogged
    <2>4. orders[o].status = "UNPAID" /\ Known(o, "BOOK") => Accounted(o)'
      BY <1>2 DEF Accounted
    <2>5. /\ orders[o].public /\ orders[o].status = "BOOKED"
          /\ history[o] = <<>>
          /\ \A q \in Workers : w[q].at = "status" /\ w[q].o = o
                                  => w[q].logs = 0
          => Accounted(o)'
      BY <1>1 DEF Accounted
    <2> QED BY <2>1, <2>2, <2>3, <2>4, <2>5 DEF Accounted
  <1>7. WorkOrderLogged'
    <2>1. SUFFICES ASSUME NEW o \in Orders, o \notin erased, work[o] # Absent
                   PROVE  \/ Logged(o, work[o].status)
                          \/ Coming(o, work[o].status)'
                          \/ orders[o].removed \/ work[o].brought
      BY DEF WorkOrderLogged, Logged
    <2>2. PICK s : s = work[o].status
      OBVIOUS
    <2>3. Coming(o, s)' => Coming(o, work[o].status)'
      BY <2>2 DEF Coming
    <2> QED BY <1>3, <2>1, <2>2, <2>3 DEF Told, WorkOrderLogged
  <1> QED BY <1>4, <1>5, <1>6, <1>7 DEF Told, Exists

LEMMA SetStatusTold ==
  ASSUME Base, Told, NEW p \in Workers, SetStatus(p), Exists(w[p].o)
  PROVE  Told'
  <1> DEFINE o == w[p].o
             r == [orders[o] EXCEPT !.status = w[p].s]
  <1>1. /\ w[p] \in Request /\ Sound(w[p]) /\ w[p].at = "status"
        /\ w[p].writes > 0
    BY WorkerTyped DEF SetStatus
  <1>2. o \in Orders /\ w[p].s \in Status
    BY <1>1 DEF Sound, Naming
  <1>3. /\ w[p].finds \in 0..2 /\ w[p].writes \in 0..2 /\ w[p].logs \in 0..2
        /\ w[p].finds + w[p].writes + w[p].logs <= 2
    BY <1>1, RequestUpdates DEF Sound
  <1>4. w[p].writes - 1 \in 0..2 /\ w[p].logs + 1 \in 0..2
    BY <1>1, <1>3
  <1>5. PICK x \in Request :
          x = [w[p] EXCEPT !.writes = w[p].writes - 1,
                           !.logs = w[p].logs + 1]
    BY <1>1, <1>4, RequestUpdates
  <1>6. /\ x.at = "status" /\ x.o = o /\ x.s = w[p].s
        /\ x.logs = w[p].logs + 1
    BY <1>1, <1>5 DEF Request
  <1>7. x.logs > 0
    BY <1>3, <1>6
  <1>8. orders[o] \in OrderRow /\ orders[o] # Deleted
    BY <1>2, RowTyped DEF Base
  <1>9. /\ r \in OrderRow /\ r.status = w[p].s
        /\ r.removed = orders[o].removed
    BY <1>2, <1>8, OrderUpdates DEF OrderRow
  <1>10. orders' = [orders EXCEPT ![o] = r] /\ w' = [w EXCEPT ![p] = x]
    BY <1>5 DEF SetStatus, Continue
  <1>11. UNCHANGED <<history, work, jobs, erased>>
    BY DEF SetStatus
  <1> HIDE DEF r
  <1> QED BY <1>1, <1>2, <1>6, <1>7, <1>8, <1>9, <1>10, <1>11, RowLogged

LEMMA CreateWriteTold ==
  ASSUME Base, Told, NEW p \in Workers, NEW o \in Orders, CreateWrite(p, o)
  PROVE  Told'
  <1> DEFINE x == [Setting(o, w[p].s, 0, "idle") EXCEPT !.logs = 1]
             r == NewRow(w[p].s, w[p].receipt, w[p].vendor, FALSE)
  <1>1. w[p] \in Request /\ Sound(w[p]) /\ w[p].at = "order.create"
    BY WorkerTyped DEF CreateWrite
  <1>2. /\ w[p].s \in Status /\ w[p].receipt \in Receipts \cup {None}
        /\ w[p].vendor \in BOOLEAN
    BY <1>1 DEF Sound, Naming, Request
  <1>3. r \in OrderRow /\ r.status = w[p].s
    BY <1>2, NewRowTyped DEF NewRow
  <1>4. /\ x \in Request
        /\ x.at = "status" /\ x.o = o /\ x.s = w[p].s /\ x.logs = 1
    BY <1>2, LoggingTyped
  <1>5. orders[o] # Deleted /\ ~Exists(o)
    BY Shapes DEF CreateWrite, Free, Exists
  <1>6. /\ orders' = [orders EXCEPT ![o] = r] /\ w' = [w EXCEPT ![p] = x]
        /\ UNCHANGED <<history, work, jobs, erased>>
    BY DEF CreateWrite, Continue
  <1>7. x.logs > 0
    BY <1>4
  <1> HIDE DEF x, r
  <1> QED BY <1>1, <1>3, <1>4, <1>5, <1>6, <1>7, RowLogged

LEMMA UpdateWriteTold ==
  ASSUME Base, Told, NEW p \in Workers, UpdateWrite(p), Exists(w[p].o)
  PROVE  Told'
  <1> DEFINE o == w[p].o
             s == IF w[p].s = None THEN orders[o].status ELSE w[p].s
             c == IF w[p].receipt = None THEN orders[o].receipt
                  ELSE w[p].receipt
             r == [orders[o] EXCEPT !.status = s, !.receipt = c,
                                    !.vendor = orders[o].vendor \/ w[p].vendor]
             x == [Setting(o, s, 0, "idle") EXCEPT !.logs = 1]
  <1>1. w[p] \in Request /\ Sound(w[p]) /\ w[p].at = "order.update"
    BY WorkerTyped DEF UpdateWrite
  <1>2. o \in Orders
    BY <1>1 DEF Sound
  <1>3. orders[o] \in OrderRow /\ orders[o] # Deleted
    BY <1>2, RowTyped DEF Base
  <1>4. /\ s \in Status /\ c \in Receipts \cup {None}
        /\ (orders[o].vendor \/ w[p].vendor) \in BOOLEAN
    BY <1>1, <1>3 DEF OrderRow, Request
  <1>5. r \in OrderRow
    BY <1>3, <1>4, OrderUpdates
  <1>6. r.status = s /\ r.removed = orders[o].removed
    BY <1>3 DEF OrderRow
  <1>7. /\ orders' = [orders EXCEPT ![o] = r] /\ w' = [w EXCEPT ![p] = x]
        /\ UNCHANGED <<history, work, jobs, erased>>
    BY DEF UpdateWrite, Continue
  <1> HIDE DEF s, c, r
  <1>8. /\ x \in Request
        /\ x.at = "status" /\ x.o = o /\ x.s = s /\ x.logs = 1
    BY <1>2, <1>4, LoggingTyped
  <1>9. x.logs > 0
    BY <1>8
  <1> HIDE DEF x
  <1> QED BY <1>1, <1>2, <1>3, <1>5, <1>6, <1>7, <1>8, <1>9, RowLogged

(* setStatus finds its order gone, or removed with no history row to come.  *)
LEMMA LostTold ==
  ASSUME Base, Told, NEW p \in Workers, w[p].at = "status",
         ~Exists(w[p].o) \/ (orders[w[p].o].removed /\ w[p].logs = 0),
         w' = [w EXCEPT ![p] = Idle],
         UNCHANGED <<orders, history, work, jobs, erased>>
  PROVE  Told'
  <1>1. /\ w'[p] = Idle
        /\ \A q \in Workers \ {p} : w'[q] = w[q]
    BY DEF Base, TypeOK
  <1>2. ASSUME NEW o \in Orders, Exists(o), NEW s, Known(o, s)
        PROVE  Known(o, s)'
    BY <1>1, <1>2 DEF Known, Logged, Unlogged
  <1>3. ASSUME NEW q \in Workers
        PROVE  RowAdded(w[q])'
    <2>1. CASE q = p
      BY <1>1, <2>1, IdleTyped DEF RowAdded
    <2>2. CASE q # p
      <3>1. RowAdded(w[q]) /\ w'[q] = w[q]
        BY <1>1, <2>2 DEF Told
      <3> QED BY <3>1 DEF RowAdded, Exists, Logged
    <2> QED BY <2>1, <2>2
  <1>4. ListedWasBooked'
    <2>1. jobs["unpaid"] \subseteq Orders
      BY TablesHold DEF Jobs
    <2> QED BY <1>2, <2>1 DEF Told, ListedWasBooked, Exists
  <1>5. ASSUME NEW o \in Orders, o \notin erased, Exists(o)
        PROVE  Accounted(o)'
    <2>1. CASE Known(o, orders[o].status)
      <3>1. PICK s : s = orders[o].status
        OBVIOUS
      <3>2. Known(o, s)'
        BY <1>2, <1>5, <2>1, <3>1
      <3> QED BY <3>1, <3>2 DEF Accounted, Known, Logged, Unlogged
    <2>2. CASE orders[o].status = "UNPAID" /\ Known(o, "BOOK")
      BY <1>2, <1>5, <2>2 DEF Accounted
    <2>3. CASE /\ orders[o].public /\ orders[o].status = "BOOKED"
               /\ history[o] = <<>>
               /\ \A q \in Workers : w[q].at = "status" /\ w[q].o = o
                                       => w[q].logs = 0
      BY <1>1, <2>3, IdleTyped DEF Accounted
    <2> QED BY <1>5, <2>1, <2>2, <2>3 DEF Told, Accounted
  <1>6. WorkOrderLogged'
    <2>1. SUFFICES ASSUME NEW o \in Orders, o \notin erased, work[o] # Absent
                   PROVE  \/ Logged(o, work[o].status)
                          \/ Coming(o, work[o].status)'
                          \/ orders[o].removed \/ work[o].brought
      BY DEF WorkOrderLogged, Logged
    <2>2. Exists(o)
      BY <2>1, TablesHold
    <2>3. \/ Logged(o, work[o].status) \/ Coming(o, work[o].status)
          \/ orders[o].removed \/ work[o].brought
      BY <2>1 DEF Told, WorkOrderLogged
    <2>4. Coming(o, work[o].status) /\ ~orders[o].removed
            => Coming(o, work[o].status)'
      BY <1>1, <2>2 DEF Coming
    <2> QED BY <2>3, <2>4
  <1> QED BY <1>3, <1>4, <1>5, <1>6 DEF Told, Exists

(* The history row of a status is added.                                    *)
LEMMA AddHistoryTold ==
  ASSUME Base, Told, NEW p \in Workers, AddHistory(p), Exists(w[p].o)
  PROVE  Told'
  <1> DEFINE y == IF w[p].finds = 0 /\ w[p].writes = 0 /\ w[p].logs = 1
                  THEN [w[p] EXCEPT !.logs = 0, !.at = w[p].then]
                  ELSE [w[p] EXCEPT !.logs = w[p].logs - 1]
  <1>1. /\ w[p] \in Request /\ Sound(w[p]) /\ w[p].at = "status"
        /\ w[p].logs > 0
    BY WorkerTyped DEF AddHistory
  <1>2. PICK o \in Orders, s \in Status : o = w[p].o /\ s = w[p].s
    BY <1>1 DEF Sound, Naming
  <1>3. y.o = o /\ y.s = s
    BY <1>1, <1>2 DEF Request
  <1>4. /\ w'[p] = y
        /\ \A q \in Workers \ {p} : w'[q] = w[q]
    BY DEF AddHistory, Continue, Base, TypeOK
  <1>5. /\ history'[o] = Append(history[o], s)
        /\ \A a \in Orders \ {o} : history'[a] = history[a]
        /\ history[o] \in Seq(Status)
    BY <1>2 DEF AddHistory, Base, TypeOK
  <1>6. UNCHANGED <<orders, work, jobs, erased>>
    BY DEF AddHistory
  <1> HIDE DEF y
  <1>7. ASSUME NEW a \in Orders, NEW t, Logged(a, t)
        PROVE  Logged(a, t)'
    BY <1>5, <1>7 DEF Logged
  <1>8. ASSUME NEW t, t = s
        PROVE  Logged(o, t)'
    <2>1. PICK n \in Nat : n = Len(history[o])
      BY <1>5
    <2>2. n + 1 \in DOMAIN history'[o] /\ history'[o][n + 1] = t
      BY <1>2, <1>5, <1>8, <2>1
    <2> QED BY <2>2 DEF Logged
  <1>9. ASSUME NEW a \in Orders, NEW t, Known(a, t)
        PROVE  Known(a, t)'
    <2>1. CASE Logged(a, t)
      BY <1>7, <2>1 DEF Known
    <2>2. CASE Unlogged(a, t)
      <3>1. PICK q \in Workers : /\ w[q].at = "status" /\ w[q].logs > 0
                                 /\ w[q].o = a /\ w[q].s = t
        BY <2>2 DEF Unlogged
      <3>2. CASE q = p
        BY <1>2, <1>8, <3>1, <3>2 DEF Known, Logged
      <3>3. CASE q # p
        BY <1>4, <3>1, <3>3 DEF Known, Unlogged
      <3> QED BY <3>2, <3>3
    <2> QED BY <1>9, <2>1, <2>2 DEF Known
  <1>10. ASSUME NEW q \in Workers
         PROVE  RowAdded(w[q])'
    <2>1. CASE q = p
      <3>1. w'[q].o = o /\ w'[q].s = s /\ w'[q] = y
        BY <1>3, <1>4, <2>1
      <3>2. Exists(o) /\ orders'[o] # Absent
        BY <1>2, <1>6, RowTyped DEF Base
      <3>3. Logged(o, s)'
        BY <1>8
      <3> QED BY <3>1, <3>2, <3>3 DEF RowAdded, Exists, Logged
    <2>2. CASE q # p
      <3>1. /\ RowAdded(w[q]) /\ w'[q] = w[q]
            /\ w[q].at \in {"work.create", "work.retukang"} => w[q].o \in Orders
        BY <1>4, <2>2, WorkerTyped DEF Told, Sound
      <3> QED BY <1>6, <1>7, <3>1 DEF RowAdded, Exists, Logged
    <2> QED BY <2>1, <2>2
  <1>11. ListedWasBooked'
    <2>1. jobs["unpaid"] \subseteq Orders
      BY TablesHold DEF Jobs
    <2> QED BY <1>6, <1>9, <2>1 DEF Told, ListedWasBooked, Exists
  <1>12. ASSUME NEW a \in Orders, a \notin erased, Exists(a)
         PROVE  Accounted(a)'
    <2>1. CASE Known(a, orders[a].status)
      <3>1. PICK t : t = orders[a].status
        OBVIOUS
      <3>2. Known(a, t)'
        BY <1>9, <2>1, <3>1
      <3> QED BY <1>6, <3>1, <3>2 DEF Accounted, Known, Logged, Unlogged
    <2>2. CASE orders[a].status = "UNPAID" /\ Known(a, "BOOK")
      BY <1>6, <1>9, <2>2 DEF Accounted
    <2>3. CASE /\ orders[a].public /\ orders[a].status = "BOOKED"
               /\ history[a] = <<>>
               /\ \A q \in Workers : w[q].at = "status" /\ w[q].o = a
                                       => w[q].logs = 0
      <3>1. a # o
        BY <1>1, <1>2, <2>3
      <3> QED BY <1>3, <1>4, <1>5, <1>6, <2>3, <3>1 DEF Accounted
    <2> QED BY <1>12, <2>1, <2>2, <2>3 DEF Told, Accounted
  <1>13. WorkOrderLogged'
    <2>1. ASSUME NEW a \in Orders, a \notin erased, work[a] # Absent
          PROVE  \/ Logged(a, work[a].status)' \/ Coming(a, work[a].status)'
                 \/ orders[a].removed \/ work[a].brought
      <3>1. PICK t : t = work[a].status
        OBVIOUS
      <3>2. CASE Logged(a, t)
        BY <1>6, <1>7, <3>1, <3>2 DEF Logged
      <3>3. CASE Coming(a, t)
        <4>1. PICK q \in Workers : /\ w[q].at \in {"status", "work.reread"}
                                   /\ w[q].o = a /\ w[q].s = t
          BY <3>3 DEF Coming
        <4>2. CASE q = p
          BY <1>2, <1>6, <1>8, <3>1, <4>1, <4>2 DEF Logged
        <4>3. CASE q # p
          BY <1>4, <1>6, <3>1, <4>1, <4>3 DEF Coming
        <4> QED BY <4>2, <4>3
      <3> QED BY <2>1, <3>1, <3>2, <3>3 DEF Told, WorkOrderLogged
    <2> QED BY <1>6, <2>1 DEF WorkOrderLogged
  <1> QED BY <1>6, <1>10, <1>11, <1>12, <1>13 DEF Told, Exists

(* A new order of the public endpoint: nobody has its id.                   *)
LEMMA CreatePublicTold ==
  ASSUME Base, Told, NEW p \in Workers, NEW o \in Orders,
         NEW r \in Receipts \cup {None}, CreatePublic(p, o, r)
  PROVE  Told'
  <1> DEFINE n == NewRow("BOOKED", r, FALSE, TRUE)
  <1>1. n \in OrderRow /\ n.status = "BOOKED" /\ n.public
    BY NewRowTyped DEF NewRow, Status
  <1>2. orders[o] = Absent /\ history[o] = <<>>
    BY TablesHold DEF CreatePublic, Free
  <1>3. /\ orders'[o] = n /\ orders'[o] # Absent
        /\ \A a \in Orders \ {o} : orders'[a] = orders[a]
    BY <1>1, Shapes DEF CreatePublic, Base, TypeOK
  <1>4. UNCHANGED <<history, work, jobs, w, erased>>
    BY DEF CreatePublic
  <1>5. ASSUME NEW q \in Workers, w[q].at = "status", w[q].o = o
        PROVE  w[q].logs = 0
    <2>1. w[q] \in Request /\ StillThere(w[q])
      BY WorkerTyped
    <2>2. ~(w[q].logs > 0)
      BY <1>2, <1>5, <2>1 DEF StillThere
    <2> QED BY <2>1, <2>2 DEF Request
  <1> HIDE DEF n
  <1>6. ASSUME NEW a \in Orders, a \notin erased, Exists(a)'
        PROVE  Accounted(a)'
    <2>1. CASE a = o
      BY <1>1, <1>2, <1>3, <1>4, <1>5, <2>1 DEF Accounted
    <2>2. CASE a # o
      <3>1. orders'[a] = orders[a] /\ Accounted(a)
        BY <1>3, <1>6, <2>2 DEF Told, Exists
      <3> QED BY <1>4, <3>1 DEF Accounted, Known, Logged, Unlogged
    <2> QED BY <2>1, <2>2
  <1>7. ASSUME NEW q \in Workers PROVE RowAdded(w[q])'
    <2>1. /\ RowAdded(w[q]) /\ w'[q] = w[q]
          /\ w[q].at \in {"work.create", "work.retukang"} => w[q].o \in Orders
      BY <1>4, WorkerTyped DEF Told, Sound
    <2> QED BY <1>2, <1>3, <1>4, <2>1 DEF RowAdded, Exists, Logged
  <1>8. ListedWasBooked'
    <2>1. jobs["unpaid"] \subseteq Orders
      BY TablesHold DEF Jobs
    <2> QED BY <1>2, <1>3, <1>4, <2>1
            DEF Told, ListedWasBooked, Exists, Known, Logged, Unlogged
  <1>9. WorkOrderLogged'
    <2>1. \A a \in Orders : work[a] # Absent => orders'[a] = orders[a]
      BY <1>2, <1>3, TablesHold, Shapes DEF Exists
    <2> QED BY <1>4, <2>1 DEF Told, WorkOrderLogged, Logged, Coming
  <1> QED BY <1>4, <1>6, <1>7, <1>8, <1>9 DEF Told

(* A row changes elsewhere than in its status.                              *)
LEMMA FlagsTold ==
  ASSUME Base, Told, NEW o \in Orders, NEW r \in OrderRow,
         orders' = [orders EXCEPT ![o] = r], Exists(o),
         r.status = orders[o].status, r.public = orders[o].public,
         orders[o].removed => r.removed,
         UNCHANGED <<history, work, jobs, w, erased>>
  PROVE  Told'
  <1>1. /\ orders'[o] = r /\ r.at = "row" /\ r # Absent
        /\ orders[o] # Absent
        /\ \A a \in Orders \ {o} : orders'[a] = orders[a]
    BY RowTyped, Shapes DEF Base, TypeOK
  <1>2. \A a \in Orders :
          /\ Exists(a)' <=> Exists(a)
          /\ orders[a] # Absent => orders'[a] # Absent
          /\ Exists(a) => /\ orders'[a].status = orders[a].status
                          /\ orders'[a].public = orders[a].public
    BY <1>1 DEF Exists
  <1>3. ASSUME NEW a \in Orders, a \notin erased, Exists(a)'
        PROVE  Accounted(a)'
    <2>1. Accounted(a) /\ Exists(a)
      BY <1>2, <1>3 DEF Told
    <2> QED BY <1>2, <2>1 DEF Accounted, Known, Logged, Unlogged
  <1>4. ASSUME NEW q \in Workers PROVE RowAdded(w[q])'
    <2>1. /\ RowAdded(w[q]) /\ w'[q] = w[q]
          /\ w[q].at \in {"work.create", "work.retukang"} => w[q].o \in Orders
      BY WorkerTyped DEF Told, Sound
    <2> QED BY <1>2, <2>1 DEF RowAdded, Exists, Logged
  <1>5. ListedWasBooked'
    <2>1. jobs["unpaid"] \subseteq Orders
      BY TablesHold DEF Jobs
    <2> QED BY <1>2, <2>1
            DEF Told, ListedWasBooked, Exists, Known, Logged, Unlogged
  <1>6. WorkOrderLogged'
    BY <1>1 DEF Told, WorkOrderLogged, Logged, Coming
  <1> QED BY <1>3, <1>4, <1>5, <1>6 DEF Told

LEMMA MarkTold ==
  ASSUME Base, Told,
         \/ \E p \in Workers, o \in Orders : Remove(p, o)
         \/ \E o \in Orders : GrowOld(o)
  PROVE  Told'
  <1>1. ASSUME NEW p \in Workers, NEW o \in Orders, Remove(p, o)
        PROVE  Told'
    <2> DEFINE r == [orders[o] EXCEPT !.removed = TRUE]
    <2>1. Exists(o) /\ orders[o] \in OrderRow
      BY <1>1, RowTyped DEF Remove, Base
    <2>2. /\ r \in OrderRow
          /\ r.status = orders[o].status /\ r.public = orders[o].public
          /\ orders[o].removed => r.removed
      BY <2>1, OrderUpdates DEF OrderRow
    <2>3. /\ orders' = [orders EXCEPT ![o] = r]
          /\ UNCHANGED <<history, work, jobs, w, erased>>
      BY <1>1 DEF Remove
    <2> HIDE DEF r
    <2> QED BY <2>1, <2>2, <2>3, FlagsTold
  <1>2. ASSUME NEW o \in Orders, GrowOld(o)
        PROVE  Told'
    <2> DEFINE r == [orders[o] EXCEPT !.old = TRUE]
    <2>1. Exists(o) /\ orders[o] \in OrderRow
      BY <1>2, RowTyped DEF GrowOld, Base
    <2>2. /\ r \in OrderRow
          /\ r.status = orders[o].status /\ r.public = orders[o].public
          /\ orders[o].removed => r.removed
      BY <2>1, OrderUpdates DEF OrderRow
    <2>3. /\ orders' = [orders EXCEPT ![o] = r]
          /\ UNCHANGED <<history, work, jobs, w, erased>>
      BY <1>2 DEF GrowOld
    <2> HIDE DEF r
    <2> QED BY <2>1, <2>2, <2>3, FlagsTold
  <1> QED BY <1>1, <1>2

(* What is erased is no longer claimed.                                     *)
LEMMA DeleteHistoryTold ==
  ASSUME Base, Told, NEW p \in Workers, NEW o \in Orders,
         NEW i \in DOMAIN history[o], DeleteHistory(p, o, i)
  PROVE  Told'
  <1>1. /\ \A a \in Orders \ {o} : history'[a] = history[a]
        /\ erased' = erased \cup {o}
        /\ UNCHANGED <<orders, work, jobs, w>>
    BY DEF DeleteHistory, Base, TypeOK
  <1>2. \A a \in Orders : a \notin erased' => a \notin erased /\ a # o
    BY <1>1
  <1>3. ASSUME NEW a \in Orders, a \notin erased', Exists(a)
        PROVE  Accounted(a)'
    <2>1. Accounted(a) /\ history'[a] = history[a]
      BY <1>1, <1>2, <1>3 DEF Told
    <2> QED BY <1>1, <2>1 DEF Accounted, Known, Logged, Unlogged
  <1>4. ASSUME NEW q \in Workers PROVE RowAdded(w[q])'
    <2>1. /\ RowAdded(w[q]) /\ w'[q] = w[q]
          /\ w[q].at \in {"work.create", "work.retukang"} => w[q].o \in Orders
      BY <1>1, WorkerTyped DEF Told, Sound
    <2> QED BY <1>1, <1>2, <2>1 DEF RowAdded, Exists, Logged
  <1>5. ListedWasBooked'
    <2>1. jobs["unpaid"] \subseteq Orders
      BY TablesHold DEF Jobs
    <2> QED BY <1>1, <1>2, <2>1
            DEF Told, ListedWasBooked, Exists, Known, Logged, Unlogged
  <1>6. WorkOrderLogged'
    BY <1>1, <1>2 DEF Told, WorkOrderLogged, Logged, Coming
  <1> QED BY <1>1, <1>3, <1>4, <1>5, <1>6 DEF Told, Exists

LEMMA JobReadTold ==
  ASSUME Base, Told, NEW j \in Jobs, JobRead(j)
  PROVE  Told'
  <1>1. UNCHANGED <<orders, history, work, w, erased>>
    BY DEF JobRead
  <1>2. ASSUME NEW o \in jobs'["unpaid"]
        PROVE  /\ orders[o] # Absent
               /\ Exists(o) /\ o \notin erased => Known(o, "BOOK")
    <2>1. CASE o \in jobs["unpaid"]
      BY <2>1 DEF Told, ListedWasBooked
    <2>2. CASE o \notin jobs["unpaid"]
      <3>1. j = "unpaid" /\ o \in JobList(j)
        BY <1>2, <2>2 DEF JobRead, Base, TypeOK, Jobs
      <3>2. o \in Orders /\ Exists(o) /\ orders[o].status = "BOOK"
        BY <3>1 DEF JobList
      <3>3. orders[o] # Absent
        BY <3>2, RowTyped DEF Base
      <3>4. o \notin erased => Known(o, "BOOK")
        BY <3>2 DEF Told, Accounted
      <3> QED BY <3>3, <3>4
    <2> QED BY <2>1, <2>2
  <1>3. ListedWasBooked'
    BY <1>1, <1>2 DEF ListedWasBooked, Exists, Known, Logged, Unlogged
  <1>4. \A q \in Workers : RowAdded(w[q])'
    BY <1>1 DEF Told, RowAdded, Exists, Logged
  <1>5. WorkOrderLogged'
    BY <1>1 DEF Told, WorkOrderLogged, Logged, Coming
  <1>6. \A o \in Orders \ erased : Exists(o) => Accounted(o)'
    BY <1>1 DEF Told, Accounted, Known, Logged, Unlogged
  <1> QED BY <1>1, <1>3, <1>4, <1>5, <1>6 DEF Told, Exists

LEMMA JobUnpaidTold ==
  ASSUME Base, Told, JobUnpaid
  PROVE  Told'
  <1>1. jobs["unpaid"] \subseteq Orders /\ jobs'["unpaid"] = {}
    BY TablesHold DEF Jobs, JobUnpaid
  <1>2. UNCHANGED <<history, work, w, erased>>
    BY DEF JobUnpaid
  <1>3. ASSUME NEW o \in Orders
        PROVE  /\ Exists(o)' <=> Exists(o)
               /\ orders[o] # Absent => orders'[o] # Absent
               /\ Exists(o) => orders'[o].removed = orders[o].removed
               /\ Exists(o) => \/ orders'[o] = orders[o]
                               \/ /\ o \in jobs["unpaid"]
                                  /\ orders'[o].status = "UNPAID"
    <2>1. CASE o \in jobs["unpaid"] /\ Exists(o)
      <3>1. orders[o] \in OrderRow /\ orders[o] # Absent
        BY <2>1, RowTyped DEF Base
      <3>2. "UNPAID" \in Status
        BY DEF Status
      <3>3. /\ orders'[o] = [orders[o] EXCEPT !.status = "UNPAID"]
            /\ orders'[o] \in OrderRow
        BY <2>1, <3>1, <3>2, OrderUpdates DEF JobUnpaid
      <3>4. /\ orders'[o].status = "UNPAID"
            /\ orders'[o].removed = orders[o].removed
        BY <3>1, <3>3 DEF OrderRow
      <3>5. orders'[o].at = "row" /\ orders'[o] # Absent
        BY <3>3, Shapes
      <3> QED BY <2>1, <3>1, <3>4, <3>5 DEF Exists
    <2>2. CASE ~(o \in jobs["unpaid"] /\ Exists(o))
      <3>1. orders'[o] = orders[o]
        BY <2>2 DEF JobUnpaid
      <3> QED BY <3>1 DEF Exists
    <2> QED BY <2>1, <2>2
  <1>4. ASSUME NEW o \in Orders, o \notin erased, Exists(o)
        PROVE  Accounted(o)'
    <2>1. CASE orders'[o] = orders[o]
      BY <1>2, <1>4, <2>1 DEF Told, Accounted, Known, Logged, Unlogged
    <2>2. CASE o \in jobs["unpaid"] /\ orders'[o].status = "UNPAID"
      <3>1. Known(o, "BOOK")
        BY <1>4, <2>2 DEF Told, ListedWasBooked
      <3> QED BY <1>2, <2>2, <3>1 DEF Accounted, Known, Logged, Unlogged
    <2> QED BY <1>3, <1>4, <2>1, <2>2
  <1>5. ASSUME NEW q \in Workers PROVE RowAdded(w[q])'
    <2>1. /\ RowAdded(w[q]) /\ w'[q] = w[q]
          /\ w[q].at \in {"work.create", "work.retukang"} => w[q].o \in Orders
      BY <1>2, WorkerTyped DEF Told, Sound
    <2> QED BY <1>2, <1>3, <2>1 DEF RowAdded, Exists, Logged
  <1>6. ListedWasBooked'
    BY <1>1 DEF ListedWasBooked
  <1>7. WorkOrderLogged'
    BY <1>2, <1>3, TablesHold DEF Told, WorkOrderLogged, Logged, Coming
  <1> QED BY <1>2, <1>3, <1>4, <1>5, <1>6, <1>7 DEF Told

LEMMA JobDeleteTold ==
  ASSUME Base, Told, JobDelete
  PROVE  Told'
  <1> DEFINE gone == IF \E o \in jobs["picklist"] : Linked(o) THEN {}
                     ELSE jobs["picklist"]
  <1>1. /\ orders' = [o \in Orders |-> IF o \in gone THEN Deleted ELSE orders[o]]
        /\ history' = [o \in Orders |-> IF o \in gone THEN <<>> ELSE history[o]]
        /\ UNCHANGED <<work, w, erased>>
        /\ jobs'["unpaid"] = jobs["unpaid"]
    BY DEF JobDelete, Base, TypeOK, Jobs
  <1>2. \A o \in gone : work[o] = Absent
    BY DEF Linked
  <1>3. jobs["unpaid"] \subseteq Orders
    BY TablesHold DEF Jobs
  <1> HIDE DEF gone
  <1>4. ASSUME NEW o \in Orders
        PROVE  /\ orders[o] # Absent => orders'[o] # Absent
               /\ Exists(o)' => /\ Exists(o) /\ orders'[o] = orders[o]
                                /\ history'[o] = history[o]
    BY <1>1, Shapes DEF Exists
  <1>5. ASSUME NEW o \in Orders, o \notin erased, Exists(o)'
        PROVE  Accounted(o)'
    <2>1. Accounted(o) /\ orders'[o] = orders[o] /\ history'[o] = history[o]
      BY <1>4, <1>5 DEF Told
    <2> QED BY <1>1, <2>1 DEF Accounted, Known, Logged, Unlogged
  <1>6. ASSUME NEW q \in Workers PROVE RowAdded(w[q])'
    <2>1. /\ RowAdded(w[q]) /\ w'[q] = w[q]
          /\ w[q].at \in {"work.create", "work.retukang"} => w[q].o \in Orders
      BY <1>1, WorkerTyped DEF Told, Sound
    <2> QED BY <1>1, <1>4, <2>1 DEF RowAdded, Exists, Logged
  <1>7. ListedWasBooked'
    BY <1>1, <1>3, <1>4
       DEF Told, ListedWasBooked, Exists, Known, Logged, Unlogged
  <1>8. WorkOrderLogged'
    <2>1. \A o \in Orders : work[o] # Absent =>
            history'[o] = history[o] /\ orders'[o] = orders[o]
      BY <1>1, <1>2
    <2> QED BY <1>1, <2>1 DEF Told, WorkOrderLogged, Logged, Coming
  <1> QED BY <1>1, <1>5, <1>6, <1>7, <1>8 DEF Told

(* A request taken up, or moved on, with no table that Told speaks of.      *)
LEMMA QuietStep ==
  ASSUME Base, Told, NEW p \in Workers, NEW x \in Request,
         w' = [w EXCEPT ![p] = x],
         w[p].at \notin {"status", "work.reread"},
         x.at \notin {"work.create", "work.retukang"},
         x.at = "status" => x.logs = 0,
         UNCHANGED <<orders, history, work, jobs, erased>>
  PROVE  Told'
  BY QuietMove

LEMMA QuietFinish ==
  ASSUME Base, Told, NEW p \in Workers, w' = [w EXCEPT ![p] = Idle],
         w[p].at \notin {"status", "work.reread"},
         UNCHANGED <<orders, history, work, jobs, erased>>
  PROVE  Told'
  BY QuietStep, IdleTyped

LEMMA QuietSetting ==
  ASSUME Base, Told, NEW p \in Workers, NEW o \in Orders, NEW s \in Status,
         NEW n \in 0..2, NEW t \in {"idle", "work.create", "work.retukang"},
         w' = [w EXCEPT ![p] = Setting(o, s, n, t)],
         w[p].at \notin {"status", "work.reread"},
         UNCHANGED <<orders, history, work, jobs, erased>>
  PROVE  Told'
  <1> DEFINE x == Setting(o, s, n, t)
  <1>1. x \in Request /\ x.at = "status" /\ x.logs = 0
    BY SettingTyped
  <1>2. w' = [w EXCEPT ![p] = x]
    OBVIOUS
  <1> HIDE DEF x
  <1> QED BY <1>1, <1>2, QuietStep

(* A request that enters at a step of its own.                              *)
LEMMA QuietBegin ==
  ASSUME Base, Told, NEW p \in Workers, NEW r \in Request, w[p].at = "idle",
         w' = [w EXCEPT ![p] = r],
         r.at \notin {"status", "work.create", "work.retukang"},
         UNCHANGED <<orders, history, work, jobs, erased>>
  PROVE  Told'
  BY QuietStep

LEMMA OrderReadsTold ==
  ASSUME Base, Told, NEW p \in Workers,
         \/ \E s \in Requested, r \in Receipts \cup {None}, v \in BOOLEAN :
              CreateCheck(p, s, r, v)
         \/ \E o \in Orders, s \in Requested \cup {None},
               r \in Receipts \cup {None}, v \in BOOLEAN : UpdateCheck(p, o, s, r, v)
         \/ \E o \in Orders, s \in Requested : StatusRequest(p, o, s)
         \/ UpdateFind(p)
  PROVE  Told'
  <1>1. ASSUME NEW s \in Requested, NEW r \in Receipts \cup {None},
               NEW v \in BOOLEAN, CreateCheck(p, s, r, v)
        PROVE  Told'
    <2> DEFINE x == [Idle EXCEPT !.at = "order.create", !.s = s, !.receipt = r,
                                 !.vendor = v]
    <2>0. x \in Request
      BY IdleTyped, RequestedAssumption DEF Request, Steps
    <2>1. x.at = "order.create"
      BY DEF Idle
    <2>2. /\ w' = [w EXCEPT ![p] = x] /\ w[p].at = "idle"
          /\ UNCHANGED <<orders, history, work, jobs, erased>>
      BY <1>1 DEF CreateCheck, Continue, Begin
    <2> HIDE DEF x
    <2> QED BY <2>0, <2>1, <2>2, QuietBegin
  <1>2. ASSUME NEW o \in Orders, NEW s \in Requested \cup {None},
               NEW r \in Receipts \cup {None}, NEW v \in BOOLEAN,
               UpdateCheck(p, o, s, r, v)
        PROVE  Told'
    <2> DEFINE x == [Idle EXCEPT !.at = "order.find", !.o = o, !.s = s,
                                 !.receipt = r, !.vendor = v]
    <2>0. x \in Request
      BY IdleTyped, RequestedAssumption DEF Request, Steps
    <2>1. x.at = "order.find"
      BY DEF Idle
    <2>2. /\ w' = [w EXCEPT ![p] = x] /\ w[p].at = "idle"
          /\ UNCHANGED <<orders, history, work, jobs, erased>>
      BY <1>2 DEF UpdateCheck, Continue, Begin
    <2> HIDE DEF x
    <2> QED BY <2>0, <2>1, <2>2, QuietBegin
  <1>3. ASSUME NEW o \in Orders, NEW s \in Requested, StatusRequest(p, o, s)
        PROVE  Told'
    <2>1. s \in Status /\ 1 \in 0..2
          /\ "idle" \in {"idle", "work.create", "work.retukang"}
      BY RequestedAssumption
    <2>2. /\ w' = [w EXCEPT ![p] = Setting(o, s, 1, "idle")]
          /\ w[p].at = "idle"
          /\ UNCHANGED <<orders, history, work, jobs, erased>>
      BY <1>3 DEF StatusRequest, Continue, Begin
    <2> QED BY <2>1, <2>2, QuietSetting
  <1>4. CASE UpdateFind(p)
    <2> DEFINE x == [w[p] EXCEPT !.at = "order.update"]
    <2>1. w[p] \in Request /\ w[p].at = "order.find"
      BY <1>4, WorkerTyped DEF UpdateFind
    <2>2. x \in Request /\ x.at = "order.update"
      BY <2>1 DEF Request, Steps
    <2>3. /\ w' = [w EXCEPT ![p] = x] \/ w' = [w EXCEPT ![p] = Idle]
          /\ UNCHANGED <<orders, history, work, jobs, erased>>
      BY <1>4 DEF UpdateFind, Continue, Finish
    <2> HIDE DEF x
    <2> QED BY <2>1, <2>2, <2>3, QuietStep, QuietFinish
  <1> QED BY <1>1, <1>2, <1>3, <1>4

LEMMA WorkReadTold ==
  ASSUME Base, Told, NEW p \in Workers, NEW op, NEW o \in Orders,
         NEW s \in Requested, NEW step \in {"work.set", "work.update"},
         NEW row \in {None, s}, NEW to \in Orders \cup {None},
         WorkRead(p, op, step, o, s, row, to)
  PROVE  Told'
  <1> DEFINE x == [Idle EXCEPT !.at = step, !.o = o, !.s = s, !.row = row,
                               !.to = to]
  <1>0. x \in Request
    BY IdleTyped, RequestedAssumption DEF Request, Steps
  <1>1. x.at = step
    BY DEF Idle
  <1>2. /\ w' = [w EXCEPT ![p] = x] /\ w[p].at = "idle"
        /\ UNCHANGED <<orders, history, work, jobs, erased>>
    BY DEF WorkRead, Continue, Begin
  <1> HIDE DEF x
  <1> QED BY <1>0, <1>1, <1>2, QuietBegin

LEMMA WorkReadsTold ==
  ASSUME Base, Told, NEW p \in Workers, WorkRequest(p)
  PROVE  Told'
  <1>1. PICK o \in Orders, s \in Requested :
          \/ WorkCreate(p, o, s) \/ WorkSet(p, o, s)
          \/ \E to \in Orders \cup {None} : WorkUpdate(p, o, s, to)
    BY DEF WorkRequest
  <1>2. CASE WorkCreate(p, o, s)
    <2>1. s \in Status /\ 1 \in 0..2
          /\ "work.create" \in {"idle", "work.create", "work.retukang"}
      BY RequestedAssumption
    <2>2. /\ w' = [w EXCEPT ![p] = Setting(o, s, 1, "work.create")]
          /\ w[p].at = "idle"
          /\ UNCHANGED <<orders, history, work, jobs, erased>>
      BY <1>2 DEF WorkCreate, Continue, Begin
    <2> QED BY <2>1, <2>2, QuietSetting
  <1>3. CASE WorkSet(p, o, s)
    BY <1>3, WorkReadTold DEF WorkSet
  <1>4. ASSUME NEW to \in Orders \cup {None}, WorkUpdate(p, o, s, to)
        PROVE  Told'
    BY <1>4, WorkReadTold DEF WorkUpdate
  <1> QED BY <1>1, <1>2, <1>3, <1>4

LEMMA LinkCheckTold ==
  ASSUME Base, Told, NEW p \in Workers, NEW op, NEW o \in Orders,
         NEW s \in Requested,
         NEW step \in {"reschedule.create", "refund.create", "complaint.create"},
         LinkCheck(p, op, step, o, s)
  PROVE  Told'
  <1> DEFINE x == [Idle EXCEPT !.at = step, !.o = o, !.s = s]
  <1>1. x \in Request
    BY IdleTyped, RequestedAssumption DEF Request, Steps
  <1>2. x.at = step
    BY DEF Idle
  <1>3. /\ w' = [w EXCEPT ![p] = x] /\ w[p].at = "idle"
        /\ UNCHANGED <<orders, history, work, jobs, erased>>
    BY DEF LinkCheck, Continue, Begin
  <1> HIDE DEF x
  <1> QED BY <1>1, <1>2, <1>3, QuietBegin

LEMMA DecideTold ==
  ASSUME Base, Told, NEW p \in Workers, NEW x, Decision(x),
         w[p].at = "idle", w' = [w EXCEPT ![p] = x],
         UNCHANGED <<orders, history, work, jobs, erased>>
  PROVE  Told'
  BY QuietBegin DEF Decision

LEMMA LinkReadsTold ==
  ASSUME Base, Told, NEW p \in Workers, LinkRequest(p)
  PROVE  Told'
  <1>1. ASSUME NEW o \in Orders, NEW s \in Requested,
               RescheduleCreate(p, o, s) \/ RefundCreate(p, o, s)
                 \/ ComplaintCreate(p, o, s)
        PROVE  Told'
    BY <1>1, LinkCheckTold DEF RescheduleCreate, RefundCreate, ComplaintCreate
  <1>2. ASSUME NEW i \in DOMAIN reschedules, NEW s \in Requested,
               NEW o \in Orders, NEW d \in Requested,
               RescheduleDecide(p, i, o, s, d)
        PROVE  Told'
    <2> DEFINE t == Retukang(d, Newest(o, Status \ Rescheduling))
    <2>1. i \in Nat
      BY LinkTyped DEF Base
    <2>2. t \in Status \cup {None} /\ s \in Status
      BY RetukangTyped, RequestedAssumption
    <2>3. /\ w' = [w EXCEPT ![p] = [Idle EXCEPT
                     !.at = "reschedule.update", !.o = o, !.id = i, !.row = s,
                     !.s = t]]
          /\ w[p].at = "idle"
          /\ UNCHANGED <<orders, history, work, jobs, erased>>
      BY <1>2 DEF RescheduleDecide, Continue, Begin
    <2> HIDE DEF t
    <2> DEFINE x == [Idle EXCEPT !.at = "reschedule.update", !.o = o, !.id = i,
                                 !.row = s, !.s = t]
    <2>4. Decision(x)
      BY <2>1, <2>2, DecisionTyped
    <2>5. w' = [w EXCEPT ![p] = x]
      BY <2>3
    <2> HIDE DEF x
    <2> QED BY <2>3, <2>4, <2>5, DecideTold
  <1>3. ASSUME NEW i \in DOMAIN complaints, NEW s \in Requested,
               NEW to \in Orders \cup {None}, NEW redo \in Requested \cup {None},
               ComplaintDecide(p, i, to, s, redo)
        PROVE  Told'
    <2> DEFINE o == IF to = None THEN complaints[i].o ELSE to
               t == IF to = None /\ s = "COMPLAINTAPPROVEDBYHO" THEN None
                    ELSE AfterComplaint(s, Newest(o, Surveying \cup Working),
                                        redo)
    <2>1. o \in Orders /\ i \in Nat
      BY LinkTyped DEF Base, LinkRow
    <2>2. Newest(o, Surveying \cup Working) \in Status \cup {None}
      BY <2>1, NewestTyped DEF Base
    <2>3. t \in Status \cup {None} /\ s \in Status
      BY <2>2, AfterComplaintTyped, RequestedAssumption
    <2>4. /\ w' = [w EXCEPT ![p] = [Idle EXCEPT
                     !.at = "complaint.update", !.o = o, !.to = to, !.id = i,
                     !.row = s, !.s = t]]
          /\ w[p].at = "idle"
          /\ UNCHANGED <<orders, history, work, jobs, erased>>
      BY <1>3 DEF ComplaintDecide, Continue, Begin
    <2> HIDE DEF o, t
    <2> DEFINE x == [Idle EXCEPT !.at = "complaint.update", !.o = o, !.to = to,
                                 !.id = i, !.row = s, !.s = t]
    <2>5. Decision(x)
      BY <2>1, <2>3, DecisionTyped
    <2>6. w' = [w EXCEPT ![p] = x]
      BY <2>4
    <2> HIDE DEF x
    <2> QED BY <2>4, <2>5, <2>6, DecideTold
  <1> QED BY <1>1, <1>2, <1>3 DEF LinkRequest

LEMMA LinkWritesTold ==
  ASSUME Base, Told, NEW p \in Workers,
         RescheduleWrite(p) \/ RefundWrite(p) \/ ComplaintWrite(p)
  PROVE  Told'
  <1>1. /\ Sound(w[p])
        /\ w[p].at \in {"reschedule.create", "refund.create", "complaint.create"}
    BY WorkerTyped DEF RescheduleWrite, RefundWrite, ComplaintWrite
  <1>2. w[p].o \in Orders /\ w[p].s \in Status
    BY <1>1 DEF Sound, Naming
  <1>3. /\ 1 \in 0..2 /\ 2 \in 0..2
        /\ "idle" \in {"idle", "work.create", "work.retukang"}
    OBVIOUS
  <1>4. /\ LinkWritten(p, 1) \/ LinkWritten(p, 2)
        /\ UNCHANGED <<orders, history, work, jobs, erased>>
    BY DEF RescheduleWrite, RefundWrite, ComplaintWrite
  <1>5. CASE Exists(w[p].o)
    <2>1. \/ w' = [w EXCEPT ![p] = Setting(w[p].o, w[p].s, 1, "idle")]
          \/ w' = [w EXCEPT ![p] = Setting(w[p].o, w[p].s, 2, "idle")]
      BY <1>4, <1>5 DEF LinkWritten, Continue
    <2> QED BY <1>1, <1>2, <1>3, <1>4, <2>1, QuietSetting
  <1>6. CASE ~Exists(w[p].o)
    BY <1>1, <1>4, <1>6, QuietFinish DEF LinkWritten, Finish, Continue
  <1> QED BY <1>5, <1>6

LEMMA RescheduleUpdateTold ==
  ASSUME Base, Told, NEW p \in Workers, RescheduleUpdate(p)
  PROVE  Told'
  <1>1. /\ w[p] \in Request /\ Sound(w[p]) /\ w[p].at = "reschedule.update"
    BY WorkerTyped DEF RescheduleUpdate
  <1>2. w[p].o \in Orders /\ w[p].s \in Status \cup {None}
    BY <1>1 DEF Sound, Request
  <1>3. /\ 1 \in 0..2
        /\ "work.retukang" \in {"idle", "work.create", "work.retukang"}
    OBVIOUS
  <1>4. UNCHANGED <<orders, history, work, jobs, erased>>
    BY DEF RescheduleUpdate
  <1>5. CASE w[p].s = None
    BY <1>1, <1>4, <1>5, QuietFinish DEF RescheduleUpdate, Finish, Continue
  <1>6. CASE w[p].s # None
    <2>1. w' = [w EXCEPT ![p] = Setting(w[p].o, w[p].s, 1, "work.retukang")]
      BY <1>6 DEF RescheduleUpdate, Continue
    <2> QED BY <1>1, <1>2, <1>3, <1>4, <1>6, <2>1, QuietSetting
  <1> QED BY <1>5, <1>6

LEMMA ComplaintUpdateTold ==
  ASSUME Base, Told, NEW p \in Workers, ComplaintUpdate(p)
  PROVE  Told'
  <1> DEFINE o == IF w[p].to = None THEN complaints[w[p].id].o ELSE w[p].o
  <1>1. /\ w[p] \in Request /\ Sound(w[p]) /\ StillThere(w[p])
        /\ w[p].at = "complaint.update"
    BY WorkerTyped DEF ComplaintUpdate
  <1>2. /\ w[p].o \in Orders /\ w[p].s \in Status \cup {None}
        /\ w[p].id \in DOMAIN complaints
    BY <1>1 DEF Sound, StillThere, Request
  <1>a. o \in Orders
    BY <1>2, LinkTyped DEF Base, LinkRow
  <1>3. 1 \in 0..2 /\ "idle" \in {"idle", "work.create", "work.retukang"}
    OBVIOUS
  <1>4. UNCHANGED <<orders, history, work, jobs, erased>>
    BY DEF ComplaintUpdate
  <1>5. CASE ~Exists(o) \/ w[p].s = None
    <2>1. w' = [w EXCEPT ![p] = Idle]
      BY <1>5 DEF ComplaintUpdate, Finish, Continue
    <2> QED BY <1>1, <1>4, <2>1, QuietFinish
  <1>6. CASE Exists(o) /\ w[p].s # None /\ w[p].row = "COMPLAINTAPPROVEDBYHO"
    <2> DEFINE x == [w[p] EXCEPT !.at = "complaint.work"]
    <2>1. x \in Request /\ x.at = "complaint.work"
      BY <1>1, RequestUpdates DEF Request
    <2>2. w' = [w EXCEPT ![p] = x]
      BY <1>6 DEF ComplaintUpdate, Continue
    <2> HIDE DEF x
    <2> QED BY <1>1, <1>4, <2>1, <2>2, QuietStep
  <1>7. CASE Exists(o) /\ w[p].s # None /\ w[p].row # "COMPLAINTAPPROVEDBYHO"
    <2>1. w' = [w EXCEPT ![p] = Setting(o, w[p].s, 1, "idle")]
      BY <1>7 DEF ComplaintUpdate, Continue
    <2> HIDE DEF o
    <2> QED BY <1>1, <1>2, <1>a, <1>3, <1>4, <1>7, <2>1, QuietSetting
  <1> QED BY <1>5, <1>6, <1>7

(* Steps that write a work order: to a status its order has had, or to the  *)
(* one the handler is about to give the order.                              *)
LEMMA WorkUpdatedTold ==
  ASSUME Base, Told, NEW p \in Workers, NEW x \in Request, NEW o \in Orders,
         NEW r \in WorkRow, work' = [work EXCEPT ![o] = r],
         w' = [w EXCEPT ![p] = x], w[p].at \notin {"status", "work.reread"},
         x.at \notin {"work.create", "work.retukang"},
         x.at = "status" => x.logs = 0,
         \/ o \notin erased => Logged(o, r.status)
         \/ x.at \in {"status", "work.reread"} /\ x.o = o /\ x.s = r.status,
         UNCHANGED <<orders, history, jobs, erased>>
  PROVE  Told'
  <1>1. /\ work'[o] = r
        /\ \A a \in Orders \ {o} : work'[a] = work[a]
    BY TablesHold
  <1>2. ASSUME NEW a \in Orders
        PROVE  \/ work'[a] = work[a]
               \/ a \notin erased => Logged(a, work'[a].status)
               \/ /\ x.at \in {"status", "work.reread"}
                  /\ x.o = a /\ x.s = work'[a].status
    BY <1>1
  <1> QED BY <1>2, QuietMove

LEMMA WorkCreateWriteTold ==
  ASSUME Base, Told, NEW p \in Workers, WorkCreateWrite(p)
  PROVE  Told'
  <1> DEFINE o == w[p].o
             r == [at |-> "row", status |-> w[p].s, first |-> w[p].s,
                   brought |-> FALSE]
  <1>1. Sound(w[p]) /\ w[p].at = "work.create" /\ RowAdded(w[p])
    BY WorkerTyped DEF WorkCreateWrite, Told
  <1>2. o \in Orders /\ w[p].s \in Status
    BY <1>1 DEF Sound, Naming
  <1>3. r \in WorkRow /\ r.status = w[p].s
    BY <1>2, WorkUpdates DEF WorkRow
  <1>4. (work' = [work EXCEPT ![o] = r] /\ Exists(o)) \/ work' = work
    BY DEF WorkCreateWrite
  <1>5. /\ w' = [w EXCEPT ![p] = Idle]
        /\ UNCHANGED <<orders, history, jobs, erased>>
    BY DEF WorkCreateWrite, Finish, Continue
  <1> HIDE DEF r
  <1>6. Exists(o) => (o \notin erased => Logged(o, r.status))
    BY <1>1, <1>3 DEF RowAdded
  <1>7. /\ Idle.at \notin {"work.create", "work.retukang"}
        /\ Idle.at # "status"
    BY IdleTyped
  <1>8. CASE work' = work
    BY <1>1, <1>5, <1>8, QuietFinish
  <1>9. CASE work' = [work EXCEPT ![o] = r] /\ Exists(o)
    BY <1>1, <1>2, <1>3, <1>5, <1>6, <1>7, <1>9, IdleTyped, WorkUpdatedTold
  <1> QED BY <1>4, <1>8, <1>9

LEMMA WorkRetukangTold ==
  ASSUME Base, Told, NEW p \in Workers, WorkRetukang(p)
  PROVE  Told'
  <1> DEFINE o == w[p].o
             r == Moved(work[o], w[p].s)
  <1>1. Sound(w[p]) /\ w[p].at = "work.retukang" /\ RowAdded(w[p])
    BY WorkerTyped DEF WorkRetukang, Told
  <1>2. o \in Orders /\ w[p].s \in Status
    BY <1>1 DEF Sound, Naming
  <1>3. work' = work \/ (work[o] # Absent /\ work' = [work EXCEPT ![o] = r])
    BY DEF WorkRetukang
  <1>4. /\ w' = [w EXCEPT ![p] = Idle]
        /\ UNCHANGED <<orders, history, jobs, erased>>
    BY DEF WorkRetukang, Finish, Continue
  <1>5. /\ Idle.at \notin {"work.create", "work.retukang"}
        /\ Idle.at # "status"
    BY IdleTyped
  <1>6. CASE work' = work
    BY <1>1, <1>4, <1>6, QuietFinish
  <1>7. CASE work[o] # Absent /\ work' = [work EXCEPT ![o] = r]
    <2>1. work[o] \in WorkRow /\ Exists(o)
      BY <1>2, <1>7, TablesHold
    <2>2. r \in WorkRow /\ r.status = w[p].s
      BY <1>2, <2>1, WorkUpdates
    <2> HIDE DEF r
    <2>3. o \notin erased => Logged(o, r.status)
      BY <1>1, <2>1, <2>2 DEF RowAdded
    <2> QED BY <1>1, <1>2, <1>4, <1>5, <1>7, <2>2, <2>3, IdleTyped,
               WorkUpdatedTold
  <1> QED BY <1>3, <1>6, <1>7

(* The work order moves before its order does.                              *)
LEMMA WorkWriteTold ==
  ASSUME Base, Told, NEW p \in Workers, WorkWrite(p)
  PROVE  Told'
  <1> DEFINE o == w[p].o
             r == Moved(work[o], w[p].s)
  <1>1. /\ w[p] \in Request /\ Sound(w[p]) /\ StillThere(w[p])
        /\ w[p].at = "work.set"
    BY WorkerTyped DEF WorkWrite
  <1>2. o \in Orders /\ w[p].s \in Status /\ work[o] # Absent
    BY <1>1 DEF Sound, StillThere, Naming
  <1>3. r \in WorkRow /\ r.status = w[p].s
    BY <1>2, TablesHold, WorkUpdates
  <1>4. /\ work' = [work EXCEPT ![o] = r]
        /\ UNCHANGED <<orders, history, jobs, erased>>
    BY DEF WorkWrite
  <1>5. PICK x \in Request : x = [w[p] EXCEPT !.at = "work.reread"]
    BY <1>1, RequestUpdates
  <1>6. x.at = "work.reread" /\ x.o = o /\ x.s = w[p].s
    BY <1>1, <1>5 DEF Request
  <1>7. w' = [w EXCEPT ![p] = x]
    BY <1>5 DEF WorkWrite, Continue
  <1> HIDE DEF r
  <1> QED BY <1>1, <1>2, <1>3, <1>4, <1>6, <1>7, WorkUpdatedTold

LEMMA WorkRereadTold ==
  ASSUME Base, Told, NEW p \in Workers, WorkReread(p)
  PROVE  Told'
  <1> DEFINE x == Setting(w[p].o, w[p].s, 1, "idle")
  <1>1. Sound(w[p]) /\ w[p].at = "work.reread"
    BY WorkerTyped DEF WorkReread
  <1>2. w[p].o \in Orders /\ w[p].s \in Status
    BY <1>1 DEF Sound, Naming
  <1>3. 1 \in 0..2 /\ "idle" \in {"idle", "work.create", "work.retukang"}
    OBVIOUS
  <1>4. /\ x \in Request /\ x.at = "status" /\ x.logs = 0
        /\ x.o = w[p].o /\ x.s = w[p].s
    BY <1>2, <1>3, SettingTyped
  <1>5. /\ w' = [w EXCEPT ![p] = x]
        /\ UNCHANGED <<orders, history, work, jobs, erased>>
    BY DEF WorkReread, Continue
  <1> HIDE DEF x
  <1> QED BY <1>1, <1>4, <1>5, QuietMove

(* update and an approved complaint move the work order and go on to its    *)
(* order at once.                                                           *)
LEMMA WorkFirstTold ==
  ASSUME Base, Told, NEW p \in Workers, WorkUpdateWrite(p) \/ ComplaintWork(p)
  PROVE  Told'
  <1> DEFINE o == w[p].o
             r == Moved(work[o], w[p].s)
             x == Setting(o, w[p].s, 1, "idle")
  <1>1. /\ Sound(w[p]) /\ StillThere(w[p])
        /\ w[p].at \in {"work.update", "complaint.work"}
    BY WorkerTyped DEF WorkUpdateWrite, ComplaintWork
  <1>2. o \in Orders /\ w[p].s \in Status
    BY <1>1 DEF Sound, Naming
  <1>3. \/ w' = [w EXCEPT ![p] = Idle] /\ work' = work
        \/ w' = [w EXCEPT ![p] = x] /\ work' = work
        \/ /\ w' = [w EXCEPT ![p] = x]
           /\ work' = [work EXCEPT ![o] = r] /\ work[o] # Absent
    <2>1. CASE WorkUpdateWrite(p)
      <3>1. w[p].row \in {None, w[p].s} /\ work[o] # Absent
        BY <1>1, <2>1 DEF WorkUpdateWrite, Sound, StillThere
      <3> QED BY <2>1, <3>1 DEF WorkUpdateWrite, Continue
    <2>2. CASE ComplaintWork(p)
      BY <2>2 DEF ComplaintWork, Continue, Finish
    <2> QED BY <2>1, <2>2
  <1>4. UNCHANGED <<orders, history, jobs, erased>>
    BY DEF WorkUpdateWrite, ComplaintWork
  <1>5. /\ 1 \in 0..2
        /\ "idle" \in {"idle", "work.create", "work.retukang"}
    OBVIOUS
  <1>6. /\ x \in Request /\ x.at = "status" /\ x.logs = 0
        /\ x.o = o /\ x.s = w[p].s
    BY <1>2, <1>5, SettingTyped
  <1>7. CASE work[o] # Absent
    <2>1. r \in WorkRow /\ r.status = w[p].s
      BY <1>2, <1>7, TablesHold, WorkUpdates
    <2> HIDE DEF r, x
    <2> QED BY <1>1, <1>2, <1>3, <1>4, <1>6, <2>1, WorkUpdatedTold,
               QuietStep, QuietFinish
  <1>8. CASE work[o] = Absent
    <2> HIDE DEF r, x
    <2> QED BY <1>1, <1>3, <1>4, <1>6, <1>8, QuietStep, QuietFinish
  <1> QED BY <1>7, <1>8

(* A work order handed to another order: it moves to the status the order   *)
(* will get, or is marked as brought there.                                 *)
LEMMA WorkHandOverTold ==
  ASSUME Base, Told, NEW p \in Workers, WorkHandOver(p)
  PROVE  Told'
  <1>1. CASE ~(Exists(w[p].to) /\ work[w[p].to] = Absent)
    <2>1. /\ w' = [w EXCEPT ![p] = Idle] /\ w[p].at = "work.update"
          /\ UNCHANGED <<orders, history, work, jobs, erased>>
      BY <1>1 DEF WorkHandOver, Finish, Continue
    <2> QED BY <2>1, QuietFinish
  <1>2. CASE Exists(w[p].to) /\ work[w[p].to] = Absent
    <2> DEFINE o == w[p].o
               to == w[p].to
               x == Setting(to, w[p].s, 1, "idle")
    <2>1. PICK r \in WorkRow :
            /\ work' = [work EXCEPT ![o] = Absent, ![to] = r]
            /\ r.brought \/ r.status = w[p].s
            /\ o \in Orders /\ to \in Orders /\ o # to
            /\ w[p].s \in Status /\ w[p].at = "work.update"
            /\ w' = [q \in Workers |-> IF q = p THEN x
                                       ELSE Following(o, to, w[q])]
      BY <1>2, HandedOver
    <2>2. UNCHANGED <<orders, history, jobs, erased>>
      BY DEF WorkHandOver
    <2>3. 1 \in 0..2 /\ "idle" \in {"idle", "work.create", "work.retukang"}
      OBVIOUS
    <2>4. w'[p].at = "status" /\ w'[p].o = to /\ w'[p].s = w[p].s /\ w'[p].logs = 0
      BY <2>1, <2>3, SettingTyped
    <2>5. ASSUME NEW q \in Workers, q # p
          PROVE  /\ w'[q].at = w[q].at /\ w'[q].s = w[q].s
                 /\ w[q].at \notin {"work.set", "work.reread", "work.update"}
                      \/ w[q].o # o => w'[q] = w[q]
      <3>1. w[q] \in Request /\ Sound(w[q])
        BY WorkerTyped
      <3>2. w'[q] = Following(o, to, w[q])
        BY <2>1, <2>5
      <3>3. Following(o, to, w[q]).at = w[q].at
            /\ Following(o, to, w[q]).s = w[q].s
        BY <2>1, <3>1, FollowingTyped
      <3> QED BY <3>2, <3>3 DEF Following
    <2> HIDE DEF x
    <2>6. \A a, s : Known(a, s) => Known(a, s)'
      <3> SUFFICES ASSUME NEW a, NEW s, Known(a, s)
                   PROVE  Known(a, s)'
        OBVIOUS
      <3>1. CASE Logged(a, s)
        BY <2>2, <3>1 DEF Known, Logged
      <3>2. CASE Unlogged(a, s)
        <4>1. PICK q \in Workers : /\ w[q].at = "status" /\ w[q].logs > 0
                                   /\ w[q].o = a /\ w[q].s = s
          BY <3>2 DEF Unlogged
        <4>2. w'[q] = w[q]
          BY <2>1, <2>5, <4>1
        <4> QED BY <4>1, <4>2 DEF Known, Unlogged
      <3> QED BY <3>1, <3>2 DEF Known
    <2>7. ASSUME NEW q \in Workers PROVE RowAdded(w[q])'
      <3>1. CASE q = p
        BY <2>4, <3>1 DEF RowAdded
      <3>2. CASE q # p
        <4>1. RowAdded(w[q])
          BY DEF Told
        <4> QED BY <2>2, <2>5, <3>2, <4>1 DEF RowAdded, Exists, Logged
      <3> QED BY <3>1, <3>2
    <2>8. ListedWasBooked'
      <3>1. \A a : Known(a, "BOOK") => Known(a, "BOOK")'
        BY <2>6
      <3> QED BY <2>2, <3>1 DEF Told, ListedWasBooked, Exists
    <2>9. ASSUME NEW a \in Orders, a \notin erased, Exists(a)
          PROVE  Accounted(a)'
      <3>1. Accounted(a)
        BY <2>9 DEF Told
      <3>2. PICK s : s = orders[a].status
        OBVIOUS
      <3>3. ASSUME Known(a, s) PROVE Accounted(a)'
        <4>1. orders'[a].status = s
          BY <2>2, <3>2
        <4>2. Known(a, s)'
          BY <2>6, <3>3
        <4> QED BY <4>1, <4>2 DEF Accounted, Known, Logged, Unlogged
      <3>4. orders[a].status = "UNPAID" /\ Known(a, "BOOK") => Accounted(a)'
        BY <2>2, <2>6 DEF Accounted
      <3>5. ASSUME orders[a].public, orders[a].status = "BOOKED",
                   history[a] = <<>>,
                   \A q \in Workers : w[q].at = "status" /\ w[q].o = a
                                        => w[q].logs = 0
            PROVE  Accounted(a)'
        <4>1. ASSUME NEW q \in Workers, w'[q].at = "status", w'[q].o = a
              PROVE  w'[q].logs = 0
          <5>1. CASE q = p
            BY <2>4, <5>1
          <5>2. CASE q # p
            <6>1. w'[q] = w[q]
              BY <2>5, <4>1, <5>2
            <6> QED BY <3>5, <4>1, <6>1
          <5> QED BY <5>1, <5>2
        <4> QED BY <2>2, <3>5, <4>1 DEF Accounted
      <3> QED BY <3>1, <3>2, <3>3, <3>4, <3>5 DEF Accounted
    <2>10. WorkOrderLogged'
      <3>1. SUFFICES ASSUME NEW a \in Orders, a \notin erased, work'[a] # Absent
                     PROVE  \/ Logged(a, work'[a].status)
                            \/ Coming(a, work[a].status)'
                            \/ orders[a].removed \/ work'[a].brought
        BY <2>2 DEF WorkOrderLogged, Logged
      <3>2. a # o
        BY <2>1, <3>1, TablesHold
      <3>3. CASE a = to
        <4>1. work'[a] = r
          BY <2>1, <3>3, TablesHold
        <4> QED BY <2>1, <2>4, <3>3, <4>1 DEF Coming
      <3>4. CASE a # to
        <4>1. work'[a] = work[a]
          BY <2>1, <3>2, <3>4, TablesHold
        <4>2. \/ Logged(a, work[a].status) \/ Coming(a, work[a].status)
              \/ orders[a].removed \/ work[a].brought
          BY <3>1, <4>1 DEF Told, WorkOrderLogged
        <4>3. ASSUME NEW q \in Workers, w[q].at \in {"status", "work.reread"},
                     w[q].o = a
              PROVE  w'[q] = w[q]
          BY <2>1, <2>5, <3>2, <4>3
        <4>4. Coming(a, work[a].status) => Coming(a, work[a].status)'
          BY <4>1, <4>3 DEF Coming
        <4> QED BY <4>1, <4>2, <4>4
      <3> QED BY <3>3, <3>4
    <2> QED BY <2>2, <2>7, <2>8, <2>9, <2>10 DEF Told, Exists
  <1> QED BY <1>1, <1>2

-----------------------------------------------------------------------------
(* The inductive invariant, and what it is for.                             *)

LEMMA InitTold ==
  ASSUME Init
  PROVE  Told
  <1>1. \A o \in Orders : ~Exists(o)
    BY Shapes DEF Init, Exists
  <1>2. ListedWasBooked
    BY DEF Init, ListedWasBooked, Jobs
  <1>3. \A p \in Workers : RowAdded(w[p])
    BY IdleTyped DEF Init, RowAdded
  <1>4. WorkOrderLogged
    BY DEF Init, WorkOrderLogged
  <1> QED BY <1>1, <1>2, <1>3, <1>4 DEF Told

LEMMA NextTold ==
  ASSUME Base, Told, [Next]_vars
  PROVE  Told'
  <1>1. ASSUME NEW p \in Workers, OrderRequest(p)
        PROVE  Told'
    BY <1>1, OrderReadsTold, CreatePublicTold, MarkTold, DeleteHistoryTold
       DEF OrderRequest
  <1>2. ASSUME NEW p \in Workers, Handle(p)
        PROVE  Told'
    <2>1. CASE SetStatus(p)
      <3>1. w[p].at = "status" /\ UNCHANGED <<history, work, jobs, erased>>
        BY <2>1 DEF SetStatus
      <3>2. ~Exists(w[p].o) => orders' = orders /\ w' = [w EXCEPT ![p] = Idle]
        BY <2>1 DEF SetStatus, Finish, Continue
      <3> QED BY <2>1, <3>1, <3>2, SetStatusTold, LostTold
    <2>2. CASE AddHistory(p)
      <3>1. w[p].at = "status" /\ UNCHANGED <<orders, work, jobs, erased>>
        BY <2>2 DEF AddHistory
      <3>2. ~Exists(w[p].o) => history' = history /\ w' = [w EXCEPT ![p] = Idle]
        BY <2>2 DEF AddHistory, Finish, Continue
      <3> QED BY <2>2, <3>1, <3>2, AddHistoryTold, LostTold
    <2>3. CASE UpdateWrite(p)
      <3>1. /\ w[p].at = "order.update"
            /\ UNCHANGED <<history, work, jobs, erased>>
        BY <2>3 DEF UpdateWrite
      <3>2. ~Exists(w[p].o) => orders' = orders /\ w' = [w EXCEPT ![p] = Idle]
        BY <2>3 DEF UpdateWrite, Finish, Continue
      <3> QED BY <2>3, <3>1, <3>2, UpdateWriteTold, QuietFinish
    <2>4. CASE UpdateFind(p) \/ \E o \in Orders : CreateWrite(p, o)
      BY <2>4, OrderReadsTold, CreateWriteTold
    <2>a. CASE FindOrder(p)
      <3>1. /\ w[p] \in Request /\ w[p].at = "status" /\ w[p].finds > 0
            /\ UNCHANGED <<orders, history, work, jobs, erased>>
        BY <2>a, WorkerTyped DEF FindOrder
      <3>2. /\ w[p].finds \in 0..2 /\ w[p].writes \in 0..2
            /\ w[p].logs \in 0..2
            /\ w[p].finds + w[p].writes + w[p].logs <= 2
        BY <3>1, WorkerTyped, RequestUpdates DEF Sound
      <3>3. CASE Exists(w[p].o) /\ ~orders[w[p].o].removed
        <4>1. w[p].finds - 1 \in 0..2 /\ w[p].writes + 1 \in 0..2
          BY <3>1, <3>2
        <4>2. PICK x \in Request : x = [w[p] EXCEPT !.finds = w[p].finds - 1,
                                                    !.writes = w[p].writes + 1]
          BY <3>1, <4>1, RequestUpdates
        <4>3. /\ x.at = "status" /\ x.o = w[p].o /\ x.s = w[p].s
              /\ x.logs = w[p].logs
          BY <3>1, <4>2 DEF Request
        <4>4. w' = [w EXCEPT ![p] = x]
          BY <2>a, <3>3, <4>2 DEF FindOrder, Continue
        <4> QED BY <3>1, <4>3, <4>4, FindOrderTold
      <3>4. CASE /\ ~(Exists(w[p].o) /\ ~orders[w[p].o].removed)
                 /\ w[p].finds + w[p].writes + w[p].logs = 1
        <4>1. w[p].logs = 0
          BY <3>1, <3>2, <3>4
        <4>2. w' = [w EXCEPT ![p] = Idle]
          BY <2>a, <3>4 DEF FindOrder, Finish, Continue
        <4>3. ~Exists(w[p].o) \/ orders[w[p].o].removed
          BY <3>4
        <4> QED BY <3>1, <4>1, <4>2, <4>3, LostTold
      <3>5. CASE /\ ~(Exists(w[p].o) /\ ~orders[w[p].o].removed)
                 /\ w[p].finds + w[p].writes + w[p].logs # 1
        <4>1. w[p].finds - 1 \in 0..2
          BY <3>1, <3>2
        <4>2. PICK x \in Request : x = [w[p] EXCEPT !.finds = w[p].finds - 1]
          BY <3>1, <4>1, RequestUpdates
        <4>3. /\ x.at = "status" /\ x.o = w[p].o /\ x.s = w[p].s
              /\ x.logs = w[p].logs
          BY <3>1, <4>2 DEF Request
        <4>4. w' = [w EXCEPT ![p] = x]
          BY <2>a, <3>5, <4>2 DEF FindOrder, Continue
        <4> QED BY <3>1, <4>3, <4>4, FindOrderTold
      <3> QED BY <3>3, <3>4, <3>5
    <2>5. CASE WorkCreateWrite(p) \/ WorkRetukang(p) \/ ComplaintWork(p)
      BY <2>5, WorkCreateWriteTold, WorkFirstTold, WorkRetukangTold
    <2>b. CASE WorkWrite(p) \/ WorkReread(p) \/ WorkUpdateWrite(p)
               \/ WorkHandOver(p)
      BY <2>b, WorkWriteTold, WorkRereadTold, WorkFirstTold, WorkHandOverTold
    <2>6. CASE RescheduleWrite(p) \/ RefundWrite(p) \/ ComplaintWrite(p)
               \/ RescheduleUpdate(p) \/ ComplaintUpdate(p)
      BY <2>6, LinkWritesTold, RescheduleUpdateTold, ComplaintUpdateTold
    <2> QED BY <1>2, <2>1, <2>2, <2>3, <2>4, <2>a, <2>5, <2>b, <2>6 DEF Handle
  <1>3. CASE UNCHANGED vars
    <2>1. UNCHANGED <<orders, history, work, jobs, w, erased>>
      BY <1>3 DEF vars
    <2>2. \A q \in Workers : RowAdded(w[q])'
      BY <2>1 DEF Told, RowAdded, Exists, Logged
    <2>3. ListedWasBooked' /\ WorkOrderLogged'
      BY <2>1 DEF Told, ListedWasBooked, WorkOrderLogged, Coming, Exists,
                  Known, Logged, Unlogged
    <2>4. \A o \in Orders \ erased : Exists(o) => Accounted(o)'
      BY <2>1 DEF Told, Accounted, Known, Logged, Unlogged
    <2> QED BY <2>1, <2>2, <2>3, <2>4 DEF Told, Exists
  <1> QED BY <1>1, <1>2, <1>3, WorkReadsTold, LinkReadsTold, MarkTold,
             JobReadTold, JobUnpaidTold, JobDeleteTold DEF Next

(* Consistent, types included, holds in every reachable state.              *)
THEOREM SpecConsistent == Spec => [](TypeOK /\ Consistent)
  <1>1. Init => Base /\ Told
    BY InitBase, InitTold
  <1>2. (Base /\ Told) /\ [Next]_vars => (Base /\ Told)'
    BY NextBase, NextTold
  <1>3. Base /\ Told => TypeOK /\ Consistent
    BY DEF Base, Told, Consistent
  <1> QED BY <1>1, <1>2, <1>3, PTL DEF Spec

(* However many requests and jobs interleave, on however many orders, the   *)
(* status setStatus, create, update and checkStatus of the order service    *)
(* leave on an order is accounted for by order_histories.                   *)
THEOREM SpecStatusLogged == Spec => []StatusLogged
  <1>1. Consistent => StatusLogged
    BY DEF Consistent, Accounted, StatusLogged
  <1> QED BY <1>1, SpecConsistent, PTL

(* However work orders, reschedules and complaints interleave, a work order *)
(* stands at a status its order has had or is about to be given, unless its *)
(* order was removed (setStatus then refuses it) or another order handed    *)
(* the work order over.                                                     *)
THEOREM SpecWorkOrderLogged == Spec => []WorkOrderLogged
  <1>1. Consistent => WorkOrderLogged
    BY DEF Consistent
  <1> QED BY <1>1, SpecConsistent, PTL

-----------------------------------------------------------------------------
(* Receipt numbers, one request at a time: with several, two requests may   *)
(* both pass the check before either writes.                                *)

OneHandler == \A p, q \in Workers : p = q

(* An order that may share its receipt number: its history is not complete, *)
(* nobody checked its number, or it was cancelled once.                     *)
Excused(o) ==
  o \in erased \/ orders[o].public \/ \E s \in Canceled : Known(o, s)

(* Between the check and the write only such orders have the number.        *)
Checking == {"order.create", "order.find", "order.update"}
Checked(p) ==
  w[p].at \in Checking /\ w[p].receipt # None =>
    \A o \in Orders :
      /\ Exists(o) /\ orders[o].receipt = w[p].receipt
      /\ w[p].at # "order.create" => o # w[p].o
      => Excused(o)

Settled ==
  \A a, b \in Orders :
    /\ a # b /\ Exists(a) /\ Exists(b)
    /\ orders[a].receipt = orders[b].receipt /\ orders[a].receipt # None
    => Excused(a) \/ Excused(b)

Receipted == Settled /\ \A p \in Workers : Checked(p)

(* A step leaves the number of an order alone, and what excuses it.         *)
Kept(o) ==
  Exists(o)' =>
    \/ orders'[o].public
    \/ /\ Exists(o) /\ orders'[o].receipt = orders[o].receipt
       /\ Excused(o) => Excused(o)'

LEMMA AllKept ==
  ASSUME Receipted, \A o \in Orders : Kept(o),
         \A q \in Workers : w'[q] = w[q] \/ w'[q].at \notin Checking \/ Checked(q)'
  PROVE  Receipted'
  <1>1. ASSUME NEW a \in Orders, NEW b \in Orders, a # b, Exists(a)', Exists(b)',
               orders'[a].receipt = orders'[b].receipt, orders'[a].receipt # None
        PROVE  Excused(a)' \/ Excused(b)'
    <2>1. CASE orders'[a].public \/ orders'[b].public
      BY <2>1 DEF Excused
    <2>2. CASE ~orders'[a].public /\ ~orders'[b].public
      <3>1. /\ Exists(a) /\ Exists(b)
            /\ orders'[a].receipt = orders[a].receipt
            /\ orders'[b].receipt = orders[b].receipt
            /\ Excused(a) => Excused(a)'
            /\ Excused(b) => Excused(b)'
        BY <1>1, <2>2 DEF Kept
      <3>2. Excused(a) \/ Excused(b)
        BY <1>1, <3>1 DEF Receipted, Settled
      <3> QED BY <3>1, <3>2
    <2> QED BY <2>1, <2>2
  <1>2. Settled'
    BY <1>1 DEF Settled
  <1>3. ASSUME NEW q \in Workers, w'[q] = w[q]
        PROVE  Checked(q)'
    <2> SUFFICES ASSUME w[q].at \in Checking, w[q].receipt # None,
                        NEW o \in Orders, Exists(o)', orders'[o].receipt = w[q].receipt,
                        w[q].at # "order.create" => o # w[q].o
                 PROVE  Excused(o)'
      BY <1>3 DEF Checked
    <2>1. CASE orders'[o].public
      BY <2>1 DEF Excused
    <2>2. CASE ~orders'[o].public
      <3>1. /\ Exists(o) /\ orders[o].receipt = w[q].receipt
            /\ Excused(o) => Excused(o)'
        BY <2>2 DEF Kept
      <3>2. Checked(q)
        BY DEF Receipted
      <3> QED BY <3>1, <3>2 DEF Checked
    <2> QED BY <2>1, <2>2
  <1>4. \A q \in Workers : Checked(q)'
    BY <1>3 DEF Checked
  <1> QED BY <1>2, <1>4 DEF Receipted

(* Enough for an order: nothing it is known by is forgotten.                *)
LEMMA KnownKept ==
  ASSUME NEW o \in Orders,
         Exists(o)' => /\ Exists(o)
                       /\ orders'[o].receipt = orders[o].receipt
                       /\ orders'[o].public = orders[o].public,
         erased \subseteq erased',
         Exists(o)' /\ o \notin erased' =>
           \A s \in Canceled : Known(o, s) => Known(o, s)'
  PROVE  Kept(o)
  BY DEF Kept, Excused

(* A worker that was not writing a status moves on.                         *)
LEMMA QuietKept ==
  ASSUME Base, NEW p \in Workers, NEW x, w' = [w EXCEPT ![p] = x],
         w[p].at # "status", UNCHANGED <<orders, history, erased>>
  PROVE  /\ \A o \in Orders : Kept(o)
         /\ w'[p] = x /\ \A q \in Workers \ {p} : w'[q] = w[q]
  <1>1. /\ w'[p] = x
        /\ \A q \in Workers \ {p} : w'[q] = w[q]
    BY DEF Base, TypeOK
  <1>2. ASSUME NEW o \in Orders, NEW s, Known(o, s)
        PROVE  Known(o, s)'
    BY <1>1, <1>2 DEF Known, Logged, Unlogged
  <1>3. ASSUME NEW o \in Orders
        PROVE  Kept(o)
    BY <1>2, KnownKept DEF Exists
  <1> QED BY <1>1, <1>3

LEMMA QuietReceipted ==
  ASSUME Base, Receipted, NEW p \in Workers, NEW x, w' = [w EXCEPT ![p] = x],
         w[p].at # "status", x.at \notin Checking,
         UNCHANGED <<orders, history, erased>>
  PROVE  Receipted'
  <1>1. /\ \A o \in Orders : Kept(o)
        /\ w'[p] = x /\ \A q \in Workers \ {p} : w'[q] = w[q]
    BY QuietKept
  <1>2. \A q \in Workers : w'[q] = w[q] \/ w'[q].at \notin Checking
    BY <1>1
  <1> QED BY <1>1, <1>2, AllKept

LEMMA IdleUnchecked ==
  ASSUME NEW o, NEW s, NEW n, NEW then
  PROVE  Idle.at \notin Checking /\ Setting(o, s, n, then).at \notin Checking
  BY DEF Idle, Setting, Checking

LEMMA WorkersStay ==
  ASSUME Receipted, w' = w, \A o \in Orders : Kept(o)
  PROVE  Receipted'
  BY AllKept

(* A cancelled order is known to have been: this is StatusLogged at work.   *)
LEMMA CanceledExcused ==
  ASSUME Told, NEW o \in Orders, Exists(o), orders[o].status \in Canceled
  PROVE  Excused(o)
  <1>1. orders[o].status # "UNPAID" /\ orders[o].status # "BOOKED"
    BY DEF Canceled
  <1>2. o \in erased \/ Accounted(o)
    BY DEF Told
  <1> QED BY <1>1, <1>2 DEF Accounted, Excused

LEMMA CreateCheckReceipted ==
  ASSUME Base, Told, Receipted, NEW p \in Workers, NEW s, NEW c,
         NEW v, CreateCheck(p, s, c, v)
  PROVE  Receipted'
  <1> DEFINE x == [Idle EXCEPT !.at = "order.create", !.s = s, !.receipt = c,
                               !.vendor = v]
  <1>1. /\ w' = [w EXCEPT ![p] = x] /\ w[p].at = "idle"
        /\ UNCHANGED <<orders, history, erased>>
    BY DEF CreateCheck, Begin, Continue
  <1>2. x.receipt = c /\ x.at = "order.create"
    BY DEF Idle
  <1> HIDE DEF x
  <1>3. /\ \A o \in Orders : Kept(o)
        /\ w'[p] = x /\ \A q \in Workers \ {p} : w'[q] = w[q]
    BY <1>1, QuietKept
  <1>4. c = None \/ ~Taken(c, {})
    BY DEF CreateCheck
  <1>5. ASSUME c # None, NEW o \in Orders, Exists(o)', orders'[o].receipt = c
        PROVE  Excused(o)'
    <2>1. Exists(o) /\ orders[o].receipt = c
      BY <1>1, <1>5 DEF Exists
    <2>2. orders[o].status \in Canceled
      BY <1>4, <1>5, <2>1 DEF Taken
    <2>3. Excused(o)
      BY <2>1, <2>2, CanceledExcused
    <2>4. CASE orders'[o].public
      BY <2>4 DEF Excused
    <2>5. CASE ~orders'[o].public
      BY <1>3, <1>5, <2>3, <2>5 DEF Kept
    <2> QED BY <2>4, <2>5
  <1>6. Checked(p)'
    BY <1>2, <1>3, <1>5 DEF Checked
  <1> QED BY <1>3, <1>6, AllKept

LEMMA UpdateCheckReceipted ==
  ASSUME Base, Told, Receipted, NEW p \in Workers, NEW a, NEW s, NEW c, NEW v,
         UpdateCheck(p, a, s, c, v)
  PROVE  Receipted'
  <1> DEFINE x == [Idle EXCEPT !.at = "order.find", !.o = a, !.s = s,
                               !.receipt = c, !.vendor = v]
  <1>1. /\ w' = [w EXCEPT ![p] = x] /\ w[p].at = "idle"
        /\ UNCHANGED <<orders, history, erased>>
    BY DEF UpdateCheck, Begin, Continue
  <1>2. x.receipt = c /\ x.at = "order.find" /\ x.o = a
    BY DEF Idle
  <1> HIDE DEF x
  <1>3. /\ \A o \in Orders : Kept(o)
        /\ w'[p] = x /\ \A q \in Workers \ {p} : w'[q] = w[q]
    BY <1>1, QuietKept
  <1>4. c = None \/ ~Taken(c, {a})
    BY DEF UpdateCheck
  <1>5. ASSUME c # None, NEW o \in Orders, o # a, Exists(o)', orders'[o].receipt = c
        PROVE  Excused(o)'
    <2>1. Exists(o) /\ orders[o].receipt = c
      BY <1>1, <1>5 DEF Exists
    <2>2. orders[o].status \in Canceled
      BY <1>4, <1>5, <2>1 DEF Taken
    <2>3. Excused(o)
      BY <2>1, <2>2, CanceledExcused
    <2>4. CASE orders'[o].public
      BY <2>4 DEF Excused
    <2>5. CASE ~orders'[o].public
      BY <1>3, <1>5, <2>3, <2>5 DEF Kept
    <2> QED BY <2>4, <2>5
  <1>6. Checked(p)'
    BY <1>2, <1>3, <1>5 DEF Checked
  <1> QED BY <1>3, <1>6, AllKept

LEMMA UpdateFindReceipted ==
  ASSUME Base, Receipted, NEW p \in Workers, UpdateFind(p)
  PROVE  Receipted'
  <1>1. w[p] \in Request /\ w[p].at = "order.find"
    BY WorkerTyped DEF UpdateFind
  <1>2. PICK x : /\ w' = [w EXCEPT ![p] = x]
                 /\ x = Idle \/ x = [w[p] EXCEPT !.at = "order.update"]
    BY DEF UpdateFind, Continue, Finish
  <1>3. \/ x.at = "idle"
        \/ x.at = "order.update" /\ x.o = w[p].o /\ x.receipt = w[p].receipt
    BY <1>1, <1>2, IdleTyped DEF Request
  <1>4. UNCHANGED <<orders, history, erased>>
    BY DEF UpdateFind
  <1>5. /\ \A o \in Orders : Kept(o)
        /\ w'[p] = x /\ \A q \in Workers \ {p} : w'[q] = w[q]
    BY <1>1, <1>2, <1>4, QuietKept
  <1>6. CASE x.at = "idle"
    BY <1>5, <1>6, AllKept DEF Checking
  <1>7. CASE x.at = "order.update" /\ x.o = w[p].o /\ x.receipt = w[p].receipt
    <2>1. ASSUME x.receipt # None, NEW o \in Orders, o # x.o, Exists(o)',
                 orders'[o].receipt = x.receipt
          PROVE  Excused(o)'
      <3>1. Exists(o) /\ orders[o].receipt = w[p].receipt /\ o # w[p].o
        BY <1>4, <1>7, <2>1 DEF Exists
      <3>2. Checked(p)
        BY DEF Receipted
      <3>3. Excused(o)
        BY <1>1, <1>7, <2>1, <3>1, <3>2 DEF Checked, Checking
      <3>4. CASE orders'[o].public
        BY <3>4 DEF Excused
      <3>5. CASE ~orders'[o].public
        BY <1>5, <2>1, <3>3, <3>5 DEF Kept
      <3> QED BY <3>4, <3>5
    <2>2. Checked(p)'
      BY <1>5, <1>7, <2>1 DEF Checked
    <2> QED BY <1>5, <2>2, AllKept
  <1> QED BY <1>3, <1>6, <1>7

(* The number is written: those who have it are excused.                    *)
LEMMA NumberWritten ==
  ASSUME Base, Receipted, OneHandler, NEW p \in Workers, NEW x, NEW o \in Orders,
         NEW r \in OrderRow,
         w' = [w EXCEPT ![p] = x], w[p].at # "status", x.at = "status",
         orders' = [orders EXCEPT ![o] = r], UNCHANGED <<history, erased>>,
         Exists(o) => r.public = orders[o].public,
         \/ Exists(o) /\ r.receipt = orders[o].receipt
         \/ \A b \in Orders \ {o} :
              /\ Exists(b) /\ orders[b].receipt = r.receipt /\ r.receipt # None
              => Excused(b)
  PROVE  Receipted'
  <1>1. /\ w'[p] = x
        /\ \A q \in Workers \ {p} : w'[q] = w[q]
    BY DEF Base, TypeOK
  <1>2. /\ orders'[o] = r
        /\ \A a \in Orders \ {o} : orders'[a] = orders[a]
    BY DEF Base, TypeOK
  <1>3. ASSUME NEW a, NEW s, Known(a, s)
        PROVE  Known(a, s)'
    BY <1>1, <1>3 DEF Known, Logged, Unlogged
  <1>4. ASSUME NEW a \in Orders \ {o}
        PROVE  Kept(a)
    BY <1>2, <1>3, KnownKept DEF Exists
  <1>5. \A q \in Workers : w'[q].at = "status"
    BY <1>1 DEF OneHandler
  <1>6. CASE Exists(o) /\ r.receipt = orders[o].receipt
    <2>1. Kept(o)
      BY <1>2, <1>3, <1>6, KnownKept
    <2> QED BY <1>4, <1>5, <2>1, AllKept DEF Checking
  <1>7. CASE \A b \in Orders \ {o} :
               /\ Exists(b) /\ orders[b].receipt = r.receipt /\ r.receipt # None
               => Excused(b)
    <2>1. ASSUME NEW b \in Orders \ {o}, Exists(b)', orders'[b].receipt = r.receipt,
                 r.receipt # None
          PROVE  Excused(b)'
      <3>1. Exists(b) /\ orders[b].receipt = r.receipt
        BY <1>2, <2>1 DEF Exists
      <3>2. Excused(b)
        BY <1>7, <2>1, <3>1
      <3>3. CASE orders'[b].public
        BY <3>3 DEF Excused
      <3>4. CASE ~orders'[b].public
        BY <1>4, <2>1, <3>2, <3>4 DEF Kept
      <3> QED BY <3>3, <3>4
    <2>2. ASSUME NEW a \in Orders \ {o}, NEW b \in Orders \ {o}, a # b,
                 Exists(a)', Exists(b)',
                 orders'[a].receipt = orders'[b].receipt, orders'[a].receipt # None
          PROVE  Excused(a)' \/ Excused(b)'
      <3>1. CASE orders'[a].public \/ orders'[b].public
        BY <3>1 DEF Excused
      <3>2. CASE ~orders'[a].public /\ ~orders'[b].public
        <4>1. /\ Exists(a) /\ Exists(b)
              /\ orders'[a].receipt = orders[a].receipt
              /\ orders'[b].receipt = orders[b].receipt
              /\ Excused(a) => Excused(a)'
              /\ Excused(b) => Excused(b)'
          BY <1>4, <2>2, <3>2 DEF Kept
        <4>2. Excused(a) \/ Excused(b)
          BY <2>2, <4>1 DEF Receipted, Settled
        <4> QED BY <4>1, <4>2
      <3> QED BY <3>1, <3>2
    <2>3. Settled'
      <3> SUFFICES ASSUME NEW a \in Orders, NEW b \in Orders, a # b,
                          Exists(a)', Exists(b)',
                          orders'[a].receipt = orders'[b].receipt,
                          orders'[a].receipt # None
                   PROVE  Excused(a)' \/ Excused(b)'
        BY DEF Settled
      <3>1. CASE a = o
        BY <1>2, <2>1, <3>1
      <3>2. CASE b = o
        BY <1>2, <2>1, <3>2
      <3> QED BY <2>2, <3>1, <3>2
    <2>4. \A q \in Workers : Checked(q)'
      BY <1>5 DEF Checked, Checking
    <2> QED BY <2>3, <2>4 DEF Receipted
  <1> QED BY <1>6, <1>7

LEMMA CreateWriteReceipted ==
  ASSUME Base, Receipted, OneHandler, NEW p \in Workers, NEW o \in Orders,
         CreateWrite(p, o)
  PROVE  Receipted'
  <1> DEFINE x == [Setting(o, w[p].s, 0, "idle") EXCEPT !.logs = 1]
             r == NewRow(w[p].s, w[p].receipt, w[p].vendor, FALSE)
  <1>1. w[p] \in Request /\ Sound(w[p]) /\ w[p].at = "order.create"
    BY WorkerTyped DEF CreateWrite
  <1>2. /\ w[p].s \in Status /\ w[p].receipt \in Receipts \cup {None}
        /\ w[p].vendor \in BOOLEAN
    BY <1>1 DEF Sound, Naming, Request
  <1>3. r \in OrderRow /\ r.receipt = w[p].receipt
    BY <1>2, NewRowTyped DEF NewRow
  <1>4. x.at = "status"
    BY <1>2, LoggingTyped
  <1>5. ~Exists(o)
    BY Shapes DEF CreateWrite, Free, Exists
  <1>6. /\ orders' = [orders EXCEPT ![o] = r] /\ w' = [w EXCEPT ![p] = x]
        /\ UNCHANGED <<history, erased>>
    BY DEF CreateWrite, Continue
  <1> HIDE DEF x, r
  <1>7. \A b \in Orders \ {o} :
          /\ Exists(b) /\ orders[b].receipt = r.receipt /\ r.receipt # None
          => Excused(b)
    BY <1>1, <1>3 DEF Receipted, Checked, Checking
  <1> QED BY <1>1, <1>3, <1>4, <1>5, <1>6, <1>7, NumberWritten

LEMMA UpdateWriteReceipted ==
  ASSUME Base, Receipted, OneHandler, NEW p \in Workers, UpdateWrite(p),
         Exists(w[p].o)
  PROVE  Receipted'
  <1> DEFINE o == w[p].o
             s == IF w[p].s = None THEN orders[o].status ELSE w[p].s
             c == IF w[p].receipt = None THEN orders[o].receipt
                  ELSE w[p].receipt
             r == [orders[o] EXCEPT !.status = s, !.receipt = c,
                                    !.vendor = orders[o].vendor \/ w[p].vendor]
             x == [Setting(o, s, 0, "idle") EXCEPT !.logs = 1]
  <1>1. w[p] \in Request /\ Sound(w[p]) /\ w[p].at = "order.update"
    BY WorkerTyped DEF UpdateWrite
  <1>2. o \in Orders
    BY <1>1 DEF Sound
  <1>3. orders[o] \in OrderRow
    BY <1>2, RowTyped DEF Base
  <1>4. /\ s \in Status /\ c \in Receipts \cup {None}
        /\ (orders[o].vendor \/ w[p].vendor) \in BOOLEAN
    BY <1>1, <1>3 DEF OrderRow, Request
  <1>5. r \in OrderRow
    BY <1>3, <1>4, OrderUpdates
  <1>6. r.receipt = c /\ r.public = orders[o].public
    BY <1>3 DEF OrderRow
  <1>7. /\ orders' = [orders EXCEPT ![o] = r] /\ w' = [w EXCEPT ![p] = x]
        /\ UNCHANGED <<history, erased>>
    BY DEF UpdateWrite, Continue
  <1>8. c = orders[o].receipt \/ c = w[p].receipt
    OBVIOUS
  <1> HIDE DEF s, c, r
  <1>9. x.at = "status"
    BY <1>2, <1>4, LoggingTyped
  <1>10. c = w[p].receipt =>
           \A b \in Orders \ {o} :
             /\ Exists(b) /\ orders[b].receipt = r.receipt /\ r.receipt # None
             => Excused(b)
    BY <1>1, <1>6 DEF Receipted, Checked, Checking
  <1> HIDE DEF x
  <1> QED BY <1>1, <1>2, <1>5, <1>6, <1>7, <1>8, <1>9, <1>10, NumberWritten

(* setStatus finds its order, or not; a history row still due is added.     *)
LEMMA FindOrderReceipted ==
  ASSUME Base, Receipted, NEW p \in Workers, FindOrder(p)
  PROVE  Receipted'
  <1>1. /\ w[p] \in Request /\ Sound(w[p]) /\ w[p].at = "status"
        /\ w[p].finds > 0
        /\ UNCHANGED <<orders, history, erased>>
    BY WorkerTyped DEF FindOrder
  <1>2. PICK x : /\ w' = [w EXCEPT ![p] = x]
                 /\ \/ x = [w[p] EXCEPT !.finds = @ - 1, !.writes = @ + 1]
                    \/ x = [w[p] EXCEPT !.finds = @ - 1]
                    \/ x = Idle /\ w[p].finds + w[p].writes + w[p].logs = 1
    BY DEF FindOrder, Continue, Finish
  <1>3. /\ w'[p] = x
        /\ \A q \in Workers \ {p} : w'[q] = w[q]
    BY <1>2 DEF Base, TypeOK
  <1>4. /\ x.at \notin Checking
        /\ w[p].logs > 0 => /\ x.at = w[p].at /\ x.o = w[p].o /\ x.s = w[p].s
                           /\ x.logs = w[p].logs
    <2>1. CASE \/ x = [w[p] EXCEPT !.finds = @ - 1, !.writes = @ + 1]
               \/ x = [w[p] EXCEPT !.finds = @ - 1]
      BY <1>1, <2>1 DEF Request, Checking
    <2>2. CASE x = Idle /\ w[p].finds + w[p].writes + w[p].logs = 1
      BY <1>1, <2>2, IdleUnchecked DEF Request
    <2> QED BY <1>2, <2>1, <2>2
  <1>5. ASSUME NEW a, NEW t, Known(a, t)
        PROVE  Known(a, t)'
    BY <1>1, <1>3, <1>4, <1>5 DEF Known, Logged, Unlogged
  <1>6. ASSUME NEW a \in Orders
        PROVE  Kept(a)
    BY <1>1, <1>5, KnownKept DEF Exists
  <1>7. \A q \in Workers : w'[q] = w[q] \/ w'[q].at \notin Checking
    BY <1>3, <1>4
  <1> QED BY <1>6, <1>7, AllKept

(* setStatus writes or finds its order gone; the history row is added.      *)
LEMMA StatusReceipted ==
  ASSUME Base, Receipted, NEW p \in Workers, SetStatus(p) \/ AddHistory(p)
  PROVE  Receipted'
  <1>1. w[p] \in Request /\ Sound(w[p]) /\ w[p].at = "status"
    BY WorkerTyped DEF SetStatus, AddHistory
  <1>2. PICK o \in Orders, s \in Status : o = w[p].o /\ s = w[p].s
    BY <1>1 DEF Sound, Naming
  <1>3. PICK x : w' = [w EXCEPT ![p] = x]
    BY DEF SetStatus, AddHistory, Continue, Finish
  <1>4. /\ w'[p] = x
        /\ \A q \in Workers \ {p} : w'[q] = w[q]
    BY <1>3 DEF Base, TypeOK
  <1>5. w[p].then \notin Checking /\ "status" \notin Checking /\ Idle.at \notin Checking
    BY <1>1, IdleTyped DEF Request, Checking
  <1>6. x.at \notin Checking
    <2>1. CASE SetStatus(p)
      <3>1. \/ x = Idle
            \/ x = [w[p] EXCEPT !.writes = w[p].writes - 1, !.logs = w[p].logs + 1]
        BY <1>4, <2>1 DEF SetStatus, Continue, Finish, Base, TypeOK
      <3> QED BY <1>1, <1>5, <3>1 DEF Request
    <2>2. CASE AddHistory(p)
      <3>1. \/ x = Idle
            \/ x = [w[p] EXCEPT !.logs = 0, !.at = w[p].then]
            \/ x = [w[p] EXCEPT !.logs = w[p].logs - 1]
        BY <1>4, <2>2 DEF AddHistory, Continue, Finish, Base, TypeOK
      <3> QED BY <1>1, <1>5, <3>1 DEF Request
    <2> QED BY <2>1, <2>2
  <1>7. /\ UNCHANGED erased
        /\ \A a \in Orders \ {o} : orders'[a] = orders[a] /\ history'[a] = history[a]
    BY <1>2 DEF SetStatus, AddHistory, Base, TypeOK
  <1>8. Exists(o)' => /\ Exists(o) /\ orders'[o].receipt = orders[o].receipt
                      /\ orders'[o].public = orders[o].public
    <2>1. Exists(o) => orders[o] \in OrderRow
      BY RowTyped DEF Base
    <2> QED BY <1>2, <2>1 DEF SetStatus, AddHistory, Base, TypeOK, OrderRow, Exists
  <1>9. ASSUME NEW a \in Orders \ {o}
        PROVE  Kept(a)
    <2>1. ASSUME NEW t, Known(a, t)
          PROVE  Known(a, t)'
      BY <1>2, <1>4, <1>7, <2>1 DEF Known, Logged, Unlogged
    <2> QED BY <1>7, <2>1, KnownKept DEF Exists
  <1>10. ASSUME Exists(o), NEW t, Known(o, t)
         PROVE  Known(o, t)'
    <2>1. CASE SetStatus(p)
      <3>1. /\ x = [w[p] EXCEPT !.writes = w[p].writes - 1, !.logs = w[p].logs + 1]
            /\ history' = history
        BY <1>2, <1>4, <1>10, <2>1 DEF SetStatus, Continue, Base, TypeOK
      <3>2. w[p].logs \in 0..2
        BY <1>1, RequestUpdates DEF Sound
      <3>3. x.at = "status" /\ x.logs > 0 /\ x.o = o /\ x.s = s
        BY <1>1, <1>2, <3>1, <3>2 DEF Request
      <3> QED BY <1>2, <1>4, <1>10, <3>1, <3>3 DEF Known, Logged, Unlogged
    <2>2. CASE AddHistory(p)
      <3>1. history[o] \in Seq(Status) /\ history'[o] = Append(history[o], s)
        BY <1>2, <1>10, <2>2 DEF AddHistory, Base, TypeOK
      <3>2. Logged(o, t) => Logged(o, t)'
        BY <3>1 DEF Logged
      <3>3. t = s => Logged(o, t)'
        <4>1. PICK n \in Nat : n = Len(history[o])
          BY <3>1
        <4>2. n + 1 \in DOMAIN history'[o] /\ history'[o][n + 1] = s
          BY <1>2, <3>1, <4>1
        <4> QED BY <4>2 DEF Logged
      <3>4. Unlogged(o, t) => t = s \/ Unlogged(o, t)'
        BY <1>2, <1>4 DEF Unlogged
      <3> QED BY <1>10, <3>2, <3>3, <3>4 DEF Known
    <2> QED BY <2>1, <2>2
  <1>11. Kept(o)
    BY <1>7, <1>8, <1>10, KnownKept
  <1> QED BY <1>4, <1>6, <1>9, <1>11, AllKept

LEMMA DeleteHistoryReceipted ==
  ASSUME Base, Receipted, NEW p \in Workers, NEW o \in Orders, NEW i,
         DeleteHistory(p, o, i)
  PROVE  Receipted'
  <1>1. /\ w' = w /\ orders' = orders /\ erased' = erased \cup {o}
        /\ \A a \in Orders \ {o} : history'[a] = history[a]
    BY DEF DeleteHistory, Base, TypeOK
  <1>2. ASSUME NEW a \in Orders \ {o}, NEW t, Known(a, t)
        PROVE  Known(a, t)'
    BY <1>1, <1>2 DEF Known, Logged, Unlogged
  <1>3. ASSUME NEW a \in Orders
        PROVE  Kept(a)
    BY <1>1, <1>2, KnownKept DEF Exists
  <1> QED BY <1>1, <1>3, WorkersStay

LEMMA CreatePublicReceipted ==
  ASSUME Base, Receipted, NEW p \in Workers, NEW o \in Orders, NEW c,
         CreatePublic(p, o, c)
  PROVE  Receipted'
  <1>1. /\ UNCHANGED <<w, history, erased>>
        /\ orders'[o].public
        /\ \A a \in Orders \ {o} : orders'[a] = orders[a]
    BY DEF CreatePublic, NewRow, Base, TypeOK
  <1>2. ASSUME NEW a, NEW t, Known(a, t)
        PROVE  Known(a, t)'
    BY <1>1, <1>2 DEF Known, Logged, Unlogged
  <1>3. ASSUME NEW a \in Orders
        PROVE  Kept(a)
    <2>1. CASE a = o
      BY <1>1, <2>1 DEF Kept
    <2>2. CASE a # o
      BY <1>1, <1>2, <2>2, KnownKept DEF Exists
    <2> QED BY <2>1, <2>2
  <1> QED BY <1>1, <1>3, WorkersStay

(* The mark of a removed order, days that pass and the two jobs.            *)
LEMMA MarkReceipted ==
  ASSUME Base, Receipted, NEW o \in Orders, GrowOld(o) \/ \E p \in Workers : Remove(p, o)
  PROVE  Receipted'
  <1>1. /\ UNCHANGED <<w, history, erased>>
        /\ \A a \in Orders \ {o} : orders'[a] = orders[a]
    BY DEF GrowOld, Remove, Base, TypeOK
  <1>2. Exists(o) /\ orders[o] \in OrderRow
    BY RowTyped DEF GrowOld, Remove, Base
  <1>3. orders'[o].receipt = orders[o].receipt /\ orders'[o].public = orders[o].public
    BY <1>2 DEF GrowOld, Remove, Base, TypeOK, OrderRow
  <1>4. ASSUME NEW a, NEW t, Known(a, t)
        PROVE  Known(a, t)'
    BY <1>1, <1>4 DEF Known, Logged, Unlogged
  <1>5. ASSUME NEW a \in Orders
        PROVE  Kept(a)
    <2>1. CASE a = o
      BY <1>1, <1>2, <1>3, <1>4, <2>1, KnownKept
    <2>2. CASE a # o
      BY <1>1, <1>4, <2>2, KnownKept DEF Exists
    <2> QED BY <2>1, <2>2
  <1> QED BY <1>1, <1>5, WorkersStay

LEMMA JobReceipted ==
  ASSUME Base, Receipted, JobUnpaid \/ JobDelete \/ \E j \in Jobs : JobRead(j)
  PROVE  Receipted'
  <1>1. UNCHANGED <<w, erased>>
    BY DEF JobUnpaid, JobDelete, JobRead
  <1>2. ASSUME NEW a \in Orders, Exists(a)'
        PROVE  /\ Exists(a) /\ history'[a] = history[a]
               /\ orders'[a].receipt = orders[a].receipt
               /\ orders'[a].public = orders[a].public
    <2>1. CASE JobUnpaid
      <3>1. /\ history' = history
            /\ orders'[a] = IF a \in jobs["unpaid"] /\ Exists(a)
                            THEN [orders[a] EXCEPT !.status = "UNPAID"] ELSE orders[a]
        BY <2>1 DEF JobUnpaid
      <3>2. Exists(a)
        BY <1>2, <3>1 DEF Exists
      <3>3. orders[a] \in OrderRow
        BY <3>2, RowTyped DEF Base
      <3> QED BY <3>1, <3>2, <3>3 DEF OrderRow
    <2>2. CASE JobDelete
      <3>1. PICK gone : \A b \in Orders :
              /\ orders'[b] = IF b \in gone THEN Deleted ELSE orders[b]
              /\ history'[b] = IF b \in gone THEN <<>> ELSE history[b]
        BY <2>2 DEF JobDelete
      <3>2. a \notin gone
        BY <1>2, <3>1, Shapes DEF Exists
      <3> QED BY <1>2, <3>1, <3>2 DEF Exists
    <2>3. CASE \E j \in Jobs : JobRead(j)
      BY <1>2, <2>3 DEF JobRead, Exists
    <2> QED BY <2>1, <2>2, <2>3
  <1>3. ASSUME NEW a \in Orders, Exists(a)', NEW t, Known(a, t)
        PROVE  Known(a, t)'
    BY <1>1, <1>2, <1>3 DEF Known, Logged, Unlogged
  <1>4. ASSUME NEW a \in Orders
        PROVE  Kept(a)
    BY <1>1, <1>2, <1>3, KnownKept
  <1> QED BY <1>1, <1>4, WorkersStay

(* The first step of a request that neither creates nor updates an order.   *)
LEMMA ReadsReceipted ==
  ASSUME Base, Receipted, NEW p \in Workers, NEW o, NEW s,
         \/ StatusRequest(p, o, s) \/ WorkCreate(p, o, s)
         \/ RescheduleCreate(p, o, s) \/ RefundCreate(p, o, s)
         \/ ComplaintCreate(p, o, s)
  PROVE  Receipted'
  <1>1. w[p].at # "status" /\ UNCHANGED <<orders, history, erased>>
    BY DEF StatusRequest, WorkCreate, RescheduleCreate, RefundCreate,
           ComplaintCreate, LinkCheck, Begin
  <1>2. CASE StatusRequest(p, o, s) \/ WorkCreate(p, o, s)
    <2>1. PICK then : w' = [w EXCEPT ![p] = Setting(o, s, 1, then)]
      BY <1>2 DEF StatusRequest, WorkCreate, Continue
    <2> QED BY <1>1, <2>1, IdleUnchecked, QuietReceipted
  <1>3. CASE RescheduleCreate(p, o, s) \/ RefundCreate(p, o, s)
             \/ ComplaintCreate(p, o, s)
    <2>1. PICK step \in {"reschedule.create", "refund.create", "complaint.create"} :
            w' = [w EXCEPT ![p] = [Idle EXCEPT !.at = step, !.o = o, !.s = s]]
      BY <1>3 DEF RescheduleCreate, RefundCreate, ComplaintCreate, LinkCheck,
                  Continue
    <2> DEFINE x == [Idle EXCEPT !.at = step, !.o = o, !.s = s]
    <2>2. x.at \notin Checking
      BY <2>1 DEF Idle, Checking
    <2>3. w' = [w EXCEPT ![p] = x]
      BY <2>1
    <2> HIDE DEF x
    <2> QED BY <1>1, <2>2, <2>3, QuietReceipted
  <1> QED BY <1>2, <1>3

LEMMA WorkReadReceipted ==
  ASSUME Base, Receipted, NEW p \in Workers, NEW op, NEW o, NEW s, NEW row,
         NEW to, NEW step \in {"work.set", "work.update"},
         WorkRead(p, op, step, o, s, row, to)
  PROVE  Receipted'
  <1> DEFINE x == [Idle EXCEPT !.at = step, !.o = o, !.s = s, !.row = row,
                               !.to = to]
  <1>1. x.at \notin Checking
    BY DEF Idle, Checking
  <1>2. /\ w' = [w EXCEPT ![p] = x] /\ w[p].at # "status"
        /\ UNCHANGED <<orders, history, erased>>
    BY DEF WorkRead, Continue, Begin
  <1> HIDE DEF x
  <1> QED BY <1>1, <1>2, QuietReceipted

LEMMA DecideReceipted ==
  ASSUME Base, Receipted, NEW p \in Workers, NEW i, NEW s,
         \/ \E o, d : RescheduleDecide(p, i, o, s, d)
         \/ \E to, d : ComplaintDecide(p, i, to, s, d)
  PROVE  Receipted'
  <1>1. w[p].at # "status" /\ UNCHANGED <<orders, history, erased>>
    BY DEF RescheduleDecide, ComplaintDecide, Begin
  <1>2. ASSUME NEW o, NEW d, RescheduleDecide(p, i, o, s, d)
        PROVE  Receipted'
    <2> DEFINE t == Retukang(d, Newest(o, Status \ Rescheduling))
               x == [Idle EXCEPT !.at = "reschedule.update", !.o = o, !.id = i,
                                 !.row = s, !.s = t]
    <2>1. w' = [w EXCEPT ![p] = x]
      BY <1>2 DEF RescheduleDecide, Continue
    <2> HIDE DEF t
    <2>2. x.at \notin Checking
      BY DEF Idle, Checking
    <2> HIDE DEF x
    <2> QED BY <1>1, <2>1, <2>2, QuietReceipted
  <1>3. ASSUME NEW to, NEW d, ComplaintDecide(p, i, to, s, d)
        PROVE  Receipted'
    <2> DEFINE o == IF to = None THEN complaints[i].o ELSE to
               t == IF to = None /\ s = "COMPLAINTAPPROVEDBYHO" THEN None
                    ELSE AfterComplaint(s, Newest(o, Surveying \cup Working), d)
               x == [Idle EXCEPT !.at = "complaint.update", !.o = o, !.to = to,
                                 !.id = i, !.row = s, !.s = t]
    <2>1. w' = [w EXCEPT ![p] = x]
      BY <1>3 DEF ComplaintDecide, Continue
    <2> HIDE DEF o, t
    <2>2. x.at \notin Checking
      BY DEF Idle, Checking
    <2> HIDE DEF x
    <2> QED BY <1>1, <2>1, <2>2, QuietReceipted
  <1> QED BY <1>2, <1>3

(* The writes to the other tables, and what they hand to setStatus.         *)
LEMMA WritesReceipted ==
  ASSUME Base, Receipted, NEW p \in Workers,
         \/ WorkCreateWrite(p) \/ WorkWrite(p) \/ WorkReread(p)
         \/ WorkUpdateWrite(p) \/ WorkRetukang(p)
         \/ RescheduleWrite(p) \/ RescheduleUpdate(p) \/ RefundWrite(p)
         \/ ComplaintWrite(p) \/ ComplaintUpdate(p) \/ ComplaintWork(p)
         \/ UpdateWrite(p) /\ ~Exists(w[p].o)
  PROVE  Receipted'
  <1>1. w[p].at # "status" /\ UNCHANGED <<orders, history, erased>>
    BY DEF WorkCreateWrite, WorkWrite, WorkReread, WorkUpdateWrite,
           WorkRetukang, RescheduleWrite, RescheduleUpdate, RefundWrite,
           ComplaintWrite, ComplaintUpdate, ComplaintWork, UpdateWrite
  <1>2. \/ w' = [w EXCEPT ![p] = Idle]
        \/ \E o, s, n, then : w' = [w EXCEPT ![p] = Setting(o, s, n, then)]
        \/ \E step \in {"complaint.work", "work.reread"} :
             w' = [w EXCEPT ![p] = [w[p] EXCEPT !.at = step]]
    BY DEF WorkCreateWrite, WorkWrite, WorkReread, WorkUpdateWrite,
           WorkRetukang, RescheduleWrite, RescheduleUpdate, RefundWrite,
           ComplaintWrite, ComplaintUpdate, ComplaintWork, UpdateWrite,
           LinkWritten, Continue, Finish
  <1>3. CASE w' = [w EXCEPT ![p] = Idle]
    BY <1>1, <1>3, IdleUnchecked, QuietReceipted
  <1>4. CASE \E o, s, n, then : w' = [w EXCEPT ![p] = Setting(o, s, n, then)]
    BY <1>1, <1>4, IdleUnchecked, QuietReceipted
  <1>5. ASSUME NEW step \in {"complaint.work", "work.reread"},
               w' = [w EXCEPT ![p] = [w[p] EXCEPT !.at = step]]
        PROVE  Receipted'
    <2> DEFINE x == [w[p] EXCEPT !.at = step]
    <2>1. w[p] \in Request
      BY WorkerTyped
    <2>2. x.at \notin Checking
      BY <2>1 DEF Request, Checking
    <2>3. w' = [w EXCEPT ![p] = x]
      BY <1>5
    <2> HIDE DEF x
    <2> QED BY <1>1, <2>2, <2>3, QuietReceipted
  <1> QED BY <1>2, <1>3, <1>4, <1>5

(* Nobody who follows a work order is writing a status or a number.         *)
LEMMA HandOverReceipted ==
  ASSUME Base, Receipted, NEW p \in Workers, WorkHandOver(p)
  PROVE  Receipted'
  <1>1. w[p].at # "status" /\ UNCHANGED <<orders, history, erased>>
    BY DEF WorkHandOver
  <1>2. CASE ~(Exists(w[p].to) /\ work[w[p].to] = Absent)
    <2>1. w' = [w EXCEPT ![p] = Idle]
      BY <1>2 DEF WorkHandOver, Finish, Continue
    <2> QED BY <1>1, <2>1, IdleUnchecked, QuietReceipted
  <1>3. CASE Exists(w[p].to) /\ work[w[p].to] = Absent
    <2>1. /\ w[p].o \in Orders /\ w[p].to \in Orders
          /\ \A q \in Workers :
               w'[q] = IF q = p THEN Setting(w[p].to, w[p].s, 1, "idle")
                       ELSE Following(w[p].o, w[p].to, w[q])
      BY <1>3, HandedOver
    <2>2. ASSUME NEW q \in Workers
          PROVE  w'[q] = w[q] \/ (w'[q].at \notin Checking /\ w[q].at # "status")
      <3>1. CASE q = p
        BY <1>1, <2>1, <3>1, IdleUnchecked
      <3>2. CASE q # p
        <4>1. w[q] \in Request /\ Sound(w[q])
          BY WorkerTyped
        <4>2. CASE w[q].at \in {"work.set", "work.reread", "work.update"}
          BY <2>1, <3>2, <4>1, <4>2, FollowingTyped DEF Checking
        <4>3. CASE w[q].at \notin {"work.set", "work.reread", "work.update"}
          BY <2>1, <3>2, <4>1, <4>3, FollowingTyped
        <4> QED BY <4>2, <4>3
      <3> QED BY <3>1, <3>2
    <2>3. ASSUME NEW a, NEW t, Known(a, t)
          PROVE  Known(a, t)'
      BY <1>1, <2>2, <2>3 DEF Known, Logged, Unlogged
    <2>4. ASSUME NEW a \in Orders
          PROVE  Kept(a)
      BY <1>1, <2>3, KnownKept DEF Exists
    <2> QED BY <2>2, <2>4, AllKept
  <1> QED BY <1>2, <1>3

LEMMA InitReceipted ==
  ASSUME Init
  PROVE  Receipted
  <1>1. \A o \in Orders : ~Exists(o)
    BY Shapes DEF Init, Exists
  <1>2. \A p \in Workers : w[p].at \notin Checking
    BY IdleUnchecked DEF Init
  <1> QED BY <1>1, <1>2 DEF Receipted, Settled, Checked

LEMMA NextReceipted ==
  ASSUME Base, Told, Receipted, OneHandler, [Next]_vars
  PROVE  Receipted'
  <1>1. ASSUME NEW p \in Workers, OrderRequest(p)
        PROVE  Receipted'
    BY <1>1, CreateCheckReceipted, CreatePublicReceipted, UpdateCheckReceipted,
       MarkReceipted, ReadsReceipted, DeleteHistoryReceipted DEF OrderRequest
  <1>2. ASSUME NEW p \in Workers, WorkRequest(p)
        PROVE  Receipted'
    BY <1>2, ReadsReceipted, WorkReadReceipted DEF WorkRequest, WorkSet, WorkUpdate
  <1>3. ASSUME NEW p \in Workers, LinkRequest(p)
        PROVE  Receipted'
    BY <1>3, ReadsReceipted, DecideReceipted DEF LinkRequest
  <1>4. ASSUME NEW p \in Workers, Handle(p)
        PROVE  Receipted'
    BY <1>4, FindOrderReceipted, StatusReceipted, CreateWriteReceipted,
       UpdateFindReceipted, UpdateWriteReceipted, WritesReceipted,
       HandOverReceipted DEF Handle
  <1>5. CASE UNCHANGED vars
    <2>1. UNCHANGED <<orders, history, w, erased>>
      BY <1>5 DEF vars
    <2>2. \A o \in Orders : Kept(o)
      BY <2>1 DEF Kept, Exists, Excused, Known, Logged, Unlogged
    <2> QED BY <2>1, <2>2, WorkersStay
  <1> QED BY <1>1, <1>2, <1>3, <1>4, <1>5, MarkReceipted, JobReceipted DEF Next

(* When requests do not overlap, the check of create and update keeps the   *)
(* receipt numbers of the staff's orders apart, save for an order that was  *)
(* cancelled while the other took its number.  The jobs and the days        *)
(* interleave as they please.                                               *)
THEOREM SpecSharedReceipt == OneHandler => (Spec => []SharedReceiptWasCancelled)
  <1> SUFFICES ASSUME OneHandler PROVE Spec => []SharedReceiptWasCancelled
    OBVIOUS
  <1>1. Init => Base /\ Told /\ Receipted
    BY InitBase, InitTold, InitReceipted
  <1>2. (Base /\ Told /\ Receipted) /\ [Next]_vars => (Base /\ Told /\ Receipted)'
    BY NextBase, NextTold, NextReceipted
  <1>3. Receipted => SharedReceiptWasCancelled
    BY DEF Receipted, Settled, Excused, SharedReceiptWasCancelled
  <1> QED BY <1>1, <1>2, <1>3, PTL DEF Spec
=============================================================================
