-------------------------- MODULE VendorDiscipline --------------------------
(***************************************************************************)
(* Vendor violations, warning letters (SP, "Surat Peringatan") and the     *)
(* activation flag of a vendor:                                            *)
(*   common/services/violation-detector.service.ts   (detector, cron work) *)
(*   vendor-violation/vendor-violation.service.ts    (types, manual log)   *)
(*   vendor-violation/vendor-violation-revision.service.ts  (corrections)  *)
(*   vendor-sp/vendor-sp.service.ts                  (extend, complete...) *)
(*   scheduler/vendor-violation.scheduler.ts         (nightly, quarterly)  *)
(*                                                                         *)
(* The tables are sequences of rows whose index is the row id.  A request  *)
(* handler or cron job occupies a worker; every awaited database call is a *)
(* step of its own, so the calls of two workers interleave as they do in   *)
(* the clustered Node processes (ecosystem.config.js runs three).          *)
(*                                                                         *)
(* Time is counted in ticks of the calendar: QuarterLength ticks make a    *)
(* quarter, an SP lasts SPDuration ticks (90 days).  The calendar advances *)
(* only between handlers.  Quarter and year are one running number.        *)
(***************************************************************************)
EXTENDS Naturals, Sequences, FiniteSetsExt

CONSTANTS
  Vendor, VType, Order,  \* ids of vendors, violation types and orders
  None,                  \* a database NULL
  PointValues,           \* the points a violation type may carry
  Workers,               \* handlers and jobs that can be in flight at once
  Ops,                   \* the operations that occur in this instance
  QuarterLength, SPDuration,
  EndDates,              \* the dates a client may move the end of an SP to
  MaxTime, MaxLogs, MaxRequests   \* bounds: calendar, log rows, request rows

AllOps == {"detect", "log", "type", "extend", "complete", "reactivate",
           "request", "review", "nightly", "quarterly", "remove", "fail"}

ASSUME NullAssumption == None \notin Vendor \cup VType \cup Order \cup Nat
ASSUME PointAssumption == PointValues \subseteq Nat
ASSUME OpsAssumption == Ops \subseteq AllOps
ASSUME ClockAssumption == /\ QuarterLength \in Nat \ {0}
                          /\ SPDuration \in Nat \ {0}
                          /\ MaxTime \in Nat
                          /\ EndDates \subseteq Nat
ASSUME BoundAssumption == MaxLogs \in Nat /\ MaxRequests \in Nat

VARIABLES
  now,       \* the calendar
  vendor,    \* vendor rows: is_active and the soft-delete mark
  types,     \* vendor_violation_type
  logs,      \* vendor_violation_log
  sp,        \* vendor_sp
  requests,  \* vendor_violation_revision_request
  resets,    \* quarters for which a QUARTERLY_RESET row was logged
  w          \* the handler or job each worker is in

vars == <<now, vendor, types, logs, sp, requests, resets, w>>

Quarter(t) == t \div QuarterLength

-----------------------------------------------------------------------------
(* Rows.  total_point, notes and the audit columns of an SP are not kept,  *)
(* and allocation_reduction is always written together with the level.     *)

ACTIVE == 1
COMPLETED == 2
EXTENDED == 3

Level == 1..3
VendorRow == [active : BOOLEAN, deleted : BOOLEAN]
TypeRow == [point : PointValues, status : {"absent", "on", "off", "deleted"}]
LogRow == [v : Vendor, t : VType, o : Order \cup {None}, q : Nat,
           adj : {None, 0, 1}, by : {"detector", "manual"}]
SPRow == [v : Vendor, level : Level, start : Nat, end : Nat, status : 1..3]
RequestRow == [v : Vendor, target : Nat, point : {0, 1},
               status : {"PENDING", "APPROVED", "REJECTED"}]

(* A RESET request carries no target log.                                   *)
IsReset(r) == r.target = 0

Steps == {"idle",
          "detect.create", "detect.total", "detect.find", "detect.write",
          "detect.deactivate",
          "log.total", "log.find", "issue.find", "issue.deactivate",
          "issue.create", "drop", "drop.reactivate", "rewrite",
          "rewrite.deactivate",
          "extend.write", "complete.write", "reactivate.commit",
          "request.create", "approve.correct", "approve.find", "approve.commit",
          "reject.commit",
          "job.complete", "job.reactivate"}

(* What a worker remembers between two awaits: the vendor, type and order  *)
(* it works on, a row id (0 when findFirst found none), a level (0 for     *)
(* null), a number and the rows a job still has to visit.                  *)
Work == [at : Steps, v : Vendor \cup {None}, t : VType \cup {None},
         o : Order \cup {None}, id : Nat, lvl : 0..3, n : Nat,
         todo : SUBSET Nat, quarterly : BOOLEAN]

NoWork == [at |-> "idle", v |-> None, t |-> None, o |-> None, id |-> 0,
           lvl |-> 0, n |-> 0, todo |-> {}, quarterly |-> FALSE]

TypeOK ==
  /\ now \in Nat
  /\ vendor \in [Vendor -> VendorRow]
  /\ types \in [VType -> TypeRow]
  /\ logs \in Seq(LogRow)
  /\ sp \in Seq(SPRow)
  /\ requests \in Seq(RequestRow)
  /\ resets \subseteq Nat
  /\ w \in [Workers -> Work]

-----------------------------------------------------------------------------
(* Helpers the services share.                                             *)

(* SPThreshold: 1, 26 and 51 points.                                       *)
SPLevel(points) == IF points >= 51 THEN 3
                   ELSE IF points >= 26 THEN 2
                   ELSE IF points >= 1 THEN 1 ELSE 0

EffectivePoint(l) == IF l.adj = None THEN types[l.t].point ELSE l.adj

LogsOf(v, q) == {i \in DOMAIN logs : logs[i].v = v /\ logs[i].q = q}

PointsOf(ids) == MapThenSumSet(LAMBDA i : EffectivePoint(logs[i]), ids)

TotalPoints(v) == PointsOf(LogsOf(v, Quarter(now)))

(* The rows findFirst({orderBy: {sp_level: 'desc'}}) may return, 0 if none. *)
Highest(ids) ==
  IF ids = {} THEN {0}
  ELSE {i \in ids : \A j \in ids : sp[j].level <= sp[i].level}

SPsOf(v, statuses) == {i \in DOMAIN sp : sp[i].v = v /\ sp[i].status \in statuses}
RunningSPs(v) == {i \in SPsOf(v, {ACTIVE}) : sp[i].end >= now}

NewSP(v, level) == [v |-> v, level |-> level, start |-> now,
                    end |-> now + SPDuration, status |-> ACTIVE]

SetActive(v, b) == vendor' = [vendor EXCEPT ![v].active = b]

Begin(p, work) == w[p] = NoWork /\ w' = [w EXCEPT ![p] = work]
Goto(p, step) == w' = [w EXCEPT ![p].at = step]
Done(p) == w' = [w EXCEPT ![p] = NoWork]

-----------------------------------------------------------------------------
(* ViolationDetectorService.recordViolation                                *)

(* Mutant: a log a reviewer has corrected no longer counts as one.         *)
IsDuplicate_Uncorrected(v, t, o) ==
  \E i \in LogsOf(v, Quarter(now)) :
    logs[i].t = t /\ logs[i].o = o /\ logs[i].adj = None

IsDuplicate(v, t, o) ==
  \E i \in LogsOf(v, Quarter(now)) : logs[i].t = t /\ logs[i].o = o

InFlightLogs == {p \in Workers : w[p].at = "detect.create"}
RoomForLog == Len(logs) + Cardinality(InFlightLogs) < MaxLogs

(* The type must be on and the (vendor, type, order, quarter) not logged.  *)
DetectCheck(p, v, t, o) ==
  /\ "detect" \in Ops /\ RoomForLog
  /\ types[t].status = "on"
  /\ ~IsDuplicate(v, t, o)
  /\ Begin(p, [NoWork EXCEPT !.at = "detect.create", !.v = v, !.t = t, !.o = o])
  /\ UNCHANGED <<now, vendor, types, logs, sp, requests, resets>>

DetectCreate(p) ==
  /\ w[p].at = "detect.create"
  /\ logs' = Append(logs, [v |-> w[p].v, t |-> w[p].t, o |-> w[p].o,
                           q |-> Quarter(now), adj |-> None, by |-> "detector"])
  /\ Goto(p, "detect.total")
  /\ UNCHANGED <<now, vendor, types, sp, requests, resets>>

(* calculateTotalPoints, then the level it reaches; none, and it is done.  *)
DetectTotal(p) ==
  /\ w[p].at = "detect.total"
  /\ LET lvl == SPLevel(TotalPoints(w[p].v)) IN
       IF lvl = 0 THEN Done(p)
       ELSE w' = [w EXCEPT ![p].at = "detect.find", ![p].lvl = lvl]
  /\ UNCHANGED <<now, vendor, types, logs, sp, requests, resets>>

(* An ACTIVE letter of this level or a higher one only gets its total_point *)
(* refreshed, expired or not.                                              *)
DetectFind(p) ==
  /\ w[p].at = "detect.find"
  /\ IF \E i \in SPsOf(w[p].v, {ACTIVE}) : sp[i].level >= w[p].lvl
     THEN Done(p)
     ELSE Goto(p, "detect.write")
  /\ UNCHANGED <<now, vendor, types, logs, sp, requests, resets>>

(* Mutant: the vendor is deactivated whatever the level.                   *)
DetectWrite_AnyLevel(p) ==
  /\ w[p].at = "detect.write"
  /\ sp' = Append(sp, NewSP(w[p].v, w[p].lvl))
  /\ Goto(p, "detect.deactivate")
  /\ UNCHANGED <<now, vendor, types, logs, requests, resets>>

DetectWrite(p) ==
  /\ w[p].at = "detect.write"
  /\ sp' = Append(sp, NewSP(w[p].v, w[p].lvl))
  /\ IF w[p].lvl = 3 THEN Goto(p, "detect.deactivate") ELSE Done(p)
  /\ UNCHANGED <<now, vendor, types, logs, requests, resets>>

DetectDeactivate(p) ==
  /\ w[p].at = "detect.deactivate"
  /\ SetActive(w[p].v, FALSE)
  /\ Done(p)
  /\ UNCHANGED <<now, types, logs, sp, requests, resets>>

Detect(p) ==
  \/ \E v \in Vendor, t \in VType, o \in Order : DetectCheck(p, v, t, o)
  \/ DetectCreate(p)
  \/ DetectTotal(p)
  \/ DetectFind(p)
  \/ DetectWrite(p)
  \/ DetectDeactivate(p)

-----------------------------------------------------------------------------
(* VendorViolationService.createViolationLog and checkAndUpdateVendorSP.   *)

(* The manual endpoint has no duplicate check.                             *)
LogCreate(p, v, t, o) ==
  /\ "log" \in Ops /\ RoomForLog
  /\ ~vendor[v].deleted
  /\ types[t].status = "on"
  /\ logs' = Append(logs, [v |-> v, t |-> t, o |-> o, q |-> Quarter(now),
                           adj |-> None, by |-> "manual"])
  /\ Begin(p, [NoWork EXCEPT !.at = "log.total", !.v = v])
  /\ UNCHANGED <<now, vendor, types, sp, requests, resets>>

LogTotal(p) ==
  /\ w[p].at = "log.total"
  /\ w' = [w EXCEPT ![p].at = "log.find", ![p].lvl = SPLevel(TotalPoints(w[p].v))]
  /\ UNCHANGED <<now, vendor, types, logs, sp, requests, resets>>

(* active_sp is the highest ACTIVE letter that has not run out.            *)
LogFind(p) ==
  /\ w[p].at = "log.find"
  /\ \E i \in Highest(RunningSPs(w[p].v)) :
       CASE i = 0 /\ w[p].lvl = 0 -> Done(p)
         [] i = 0 /\ w[p].lvl # 0 -> Goto(p, "issue.find")
         [] i # 0 /\ w[p].lvl = 0 ->
              w' = [w EXCEPT ![p].at = "drop", ![p].id = i, ![p].lvl = sp[i].level]
         [] OTHER -> w' = [w EXCEPT ![p].at = "rewrite", ![p].id = i]
  /\ UNCHANGED <<now, vendor, types, logs, sp, requests, resets>>

(* issueSP: an ACTIVE letter of this very level only gets its total_point. *)
IssueFind(p) ==
  /\ w[p].at = "issue.find"
  /\ IF \E i \in SPsOf(w[p].v, {ACTIVE}) : sp[i].level = w[p].lvl
     THEN Done(p)
     ELSE Goto(p, IF w[p].lvl = 3 THEN "issue.deactivate" ELSE "issue.create")
  /\ UNCHANGED <<now, vendor, types, logs, sp, requests, resets>>

IssueDeactivate(p) ==
  /\ w[p].at = "issue.deactivate"
  /\ SetActive(w[p].v, FALSE)
  /\ Goto(p, "issue.create")
  /\ UNCHANGED <<now, types, logs, sp, requests, resets>>

IssueCreate(p) ==
  /\ w[p].at = "issue.create"
  /\ sp' = Append(sp, NewSP(w[p].v, w[p].lvl))
  /\ Done(p)
  /\ UNCHANGED <<now, vendor, types, logs, requests, resets>>

(* No points left: the letter ends, an SP3 also gives the vendor back.     *)
DropSP(p) ==
  /\ w[p].at = "drop"
  /\ sp' = [sp EXCEPT ![w[p].id].status = COMPLETED]
  /\ IF w[p].lvl = 3 THEN Goto(p, "drop.reactivate") ELSE Done(p)
  /\ UNCHANGED <<now, vendor, types, logs, requests, resets>>

DropReactivate(p) ==
  /\ w[p].at = "drop.reactivate"
  /\ SetActive(w[p].v, TRUE)
  /\ Done(p)
  /\ UNCHANGED <<now, types, logs, sp, requests, resets>>

(* Mutant: raising a letter to SP3 forgets the vendor.                     *)
RewriteSP_KeepsVendor(p) ==
  /\ w[p].at = "rewrite"
  /\ sp' = [sp EXCEPT ![w[p].id].level = w[p].lvl]
  /\ Done(p)
  /\ UNCHANGED <<now, vendor, types, logs, requests, resets>>

(* The letter found takes the level of the current total, up or down.      *)
RewriteSP(p) ==
  /\ w[p].at = "rewrite"
  /\ sp' = [sp EXCEPT ![w[p].id].level = w[p].lvl]
  /\ IF w[p].lvl = 3 THEN Goto(p, "rewrite.deactivate") ELSE Done(p)
  /\ UNCHANGED <<now, vendor, types, logs, requests, resets>>

RewriteDeactivate(p) ==
  /\ w[p].at = "rewrite.deactivate"
  /\ SetActive(w[p].v, FALSE)
  /\ Done(p)
  /\ UNCHANGED <<now, types, logs, sp, requests, resets>>

ManualLog(p) ==
  \/ \E v \in Vendor, t \in VType, o \in Order \cup {None} : LogCreate(p, v, t, o)
  \/ LogTotal(p)
  \/ LogFind(p)
  \/ IssueFind(p)
  \/ IssueDeactivate(p)
  \/ IssueCreate(p)
  \/ DropSP(p)
  \/ DropReactivate(p)
  \/ RewriteSP(p)
  \/ RewriteDeactivate(p)

-----------------------------------------------------------------------------
(* Violation types: create, update and (soft) delete.                      *)

CreateType(t, pt, status) ==
  /\ types[t].status = "absent"
  /\ types' = [types EXCEPT ![t] = [point |-> pt, status |-> status]]

UpdateType(t, pt, status) ==
  /\ types[t].status \in {"on", "off"}
  /\ types' = [types EXCEPT ![t] = [point |-> pt, status |-> status]]

DeleteType(t) ==
  /\ types[t].status \in {"on", "off"}
  /\ types' = [types EXCEPT ![t].status = "deleted"]

TypeAdmin ==
  /\ "type" \in Ops
  /\ \/ \E t \in VType, pt \in PointValues, status \in {"on", "off"} :
          CreateType(t, pt, status) \/ UpdateType(t, pt, status)
     \/ \E t \in VType : DeleteType(t)
  /\ UNCHANGED <<now, vendor, logs, sp, requests, resets, w>>

-----------------------------------------------------------------------------
(* VendorSpService: extend, complete, reactivate; VendorService.remove.    *)

(* end_date comes from the client and is not validated.                    *)
ExtendRead(p, i, end) ==
  /\ "extend" \in Ops
  /\ sp[i].status = ACTIVE
  /\ Begin(p, [NoWork EXCEPT !.at = "extend.write", !.id = i, !.n = end])
  /\ UNCHANGED <<now, vendor, types, logs, sp, requests, resets>>

ExtendWrite(p) ==
  /\ w[p].at = "extend.write"
  /\ sp' = [sp EXCEPT ![w[p].id].end = w[p].n, ![w[p].id].status = EXTENDED]
  /\ Done(p)
  /\ UNCHANGED <<now, vendor, types, logs, requests, resets>>

CompleteRead(p, i) ==
  /\ "complete" \in Ops
  /\ sp[i].status \in {ACTIVE, EXTENDED}
  /\ Begin(p, [NoWork EXCEPT !.at = "complete.write", !.id = i])
  /\ UNCHANGED <<now, vendor, types, logs, sp, requests, resets>>

CompleteWrite(p) ==
  /\ w[p].at = "complete.write"
  /\ sp' = [sp EXCEPT ![w[p].id].end = now, ![w[p].id].status = COMPLETED]
  /\ Done(p)
  /\ UNCHANGED <<now, vendor, types, logs, requests, resets>>

(* One interactive transaction: its read takes no lock.                    *)
ReactivateRead(p, v) ==
  /\ "reactivate" \in Ops
  /\ ~vendor[v].deleted /\ ~vendor[v].active
  /\ Begin(p, [NoWork EXCEPT !.at = "reactivate.commit", !.v = v])
  /\ UNCHANGED <<now, vendor, types, logs, sp, requests, resets>>

ReactivateCommit(p) ==
  /\ w[p].at = "reactivate.commit"
  /\ SetActive(w[p].v, TRUE)
  /\ Done(p)
  /\ UNCHANGED <<now, types, logs, sp, requests, resets>>

RemoveVendor(v) ==
  /\ "remove" \in Ops
  /\ vendor' = [vendor EXCEPT ![v] = [active |-> FALSE, deleted |-> TRUE]]
  /\ UNCHANGED <<now, types, logs, sp, requests, resets, w>>

SPAdmin(p) ==
  \/ \E i \in DOMAIN sp, end \in EndDates : ExtendRead(p, i, end)
  \/ ExtendWrite(p)
  \/ \E i \in DOMAIN sp : CompleteRead(p, i)
  \/ CompleteWrite(p)
  \/ \E v \in Vendor : ReactivateRead(p, v)
  \/ ReactivateCommit(p)

-----------------------------------------------------------------------------
(* VendorViolationRevisionService                                          *)

InFlightRequests == {p \in Workers : w[p].at = "request.create"}
RoomForRequest == Len(requests) + Cardinality(InFlightRequests) < MaxRequests

(* target = 0 is a RESET; a REVISE names one of the vendor's own logs.     *)
RequestCheck(p, v, target, pt) ==
  /\ "request" \in Ops /\ RoomForRequest
  /\ ~vendor[v].deleted
  /\ target # 0 => logs[target].v = v
  /\ ~\E r \in DOMAIN requests : /\ requests[r].v = v
                                 /\ requests[r].target = target
                                 /\ requests[r].status = "PENDING"
  /\ Begin(p, [NoWork EXCEPT !.at = "request.create", !.v = v, !.id = target,
                             !.n = IF target = 0 THEN 0 ELSE pt])
  /\ UNCHANGED <<now, vendor, types, logs, sp, requests, resets>>

RequestCreate(p) ==
  /\ w[p].at = "request.create"
  /\ requests' = Append(requests, [v |-> w[p].v, target |-> w[p].id,
                                   point |-> w[p].n, status |-> "PENDING"])
  /\ Done(p)
  /\ UNCHANGED <<now, vendor, types, logs, sp, resets>>

(* approve is one transaction at SQL Server's READ COMMITTED: a query of it *)
(* sees what others have committed and its own writes, and keeps no lock;  *)
(* the rows it writes stay locked to the end.  ApproveRead checks the       *)
(* request, ApproveCorrect writes the logs (todo holds the locked rows),    *)
(* ApproveFind adds up and looks for the letter, ApproveCommit makes it all *)
(* visible.                                                                *)

(* Mutant: a request that was already reviewed can be approved.            *)
ApproveRead_AnyStatus(p, r) ==
  /\ "review" \in Ops
  /\ Begin(p, [NoWork EXCEPT !.at = "approve.correct", !.v = requests[r].v, !.n = r])
  /\ UNCHANGED <<now, vendor, types, logs, sp, requests, resets>>

ApproveRead(p, r) ==
  /\ "review" \in Ops
  /\ requests[r].status = "PENDING"
  /\ Begin(p, [NoWork EXCEPT !.at = "approve.correct", !.v = requests[r].v, !.n = r])
  /\ UNCHANGED <<now, vendor, types, logs, sp, requests, resets>>

(* Mutants: a RESET forgets the quarter; a REVISE forgets its target.      *)
Corrected_AnyQuarter(r) ==
  IF IsReset(r) THEN {i \in DOMAIN logs : logs[i].v = r.v} ELSE {r.target}
Corrected_AnyLog(r) == LogsOf(r.v, Quarter(now))

(* The logs a request corrects when it is applied.                         *)
Corrected(r) == IF IsReset(r) THEN LogsOf(r.v, Quarter(now)) ELSE {r.target}

ApproveCorrect(p) ==
  /\ w[p].at = "approve.correct"
  /\ w' = [w EXCEPT ![p].at = "approve.find", ![p].todo = Corrected(requests[w[p].n])]
  /\ UNCHANGED <<now, vendor, types, logs, sp, requests, resets>>

(* The level of the quarter's points once the rows ids carry pt.           *)
LevelWith(ids, pt, v) ==
  LET all == LogsOf(v, Quarter(now))
  IN SPLevel(PointsOf(all \ ids) + pt * Cardinality(all \cap ids))

ApproveFind(p) ==
  /\ w[p].at = "approve.find"
  /\ \E i \in Highest(SPsOf(w[p].v, {ACTIVE, EXTENDED})) :
       w' = [w EXCEPT ![p].at = "approve.commit", ![p].id = i,
               ![p].lvl = LevelWith(w[p].todo, requests[w[p].n].point, w[p].v)]
  /\ UNCHANGED <<now, vendor, types, logs, sp, requests, resets>>

(* Mutant: a letter is issued even when no level is reached.               *)
SyncSP_AlwaysIssues(v, i, lvl) ==
  /\ sp' = IF i = 0 THEN Append(sp, NewSP(v, lvl))
           ELSE IF lvl = 0 THEN [sp EXCEPT ![i].status = COMPLETED]
                ELSE [sp EXCEPT ![i].level = lvl]
  /\ SetActive(v, lvl # 3)

(* syncVendorSpAfterPointChange                                            *)
SyncSP(v, i, lvl) ==
  /\ sp' = IF i = 0
           THEN IF lvl = 0 THEN sp ELSE Append(sp, NewSP(v, lvl))
           ELSE IF lvl = 0 THEN [sp EXCEPT ![i].status = COMPLETED]
                ELSE [sp EXCEPT ![i].level = lvl]
  /\ SetActive(v, lvl # 3)

ApproveCommit(p) ==
  /\ w[p].at = "approve.commit"
  /\ logs' = [i \in DOMAIN logs |->
                IF i \in w[p].todo
                THEN [logs[i] EXCEPT !.adj = requests[w[p].n].point]
                ELSE logs[i]]
  /\ requests' = [requests EXCEPT ![w[p].n].status = "APPROVED"]
  /\ SyncSP(w[p].v, w[p].id, w[p].lvl)
  /\ Done(p)
  /\ UNCHANGED <<now, types, resets>>

RejectRead(p, r) ==
  /\ "review" \in Ops
  /\ requests[r].status = "PENDING"
  /\ Begin(p, [NoWork EXCEPT !.at = "reject.commit", !.n = r])
  /\ UNCHANGED <<now, vendor, types, logs, sp, requests, resets>>

RejectCommit(p) ==
  /\ w[p].at = "reject.commit"
  /\ requests' = [requests EXCEPT ![w[p].n].status = "REJECTED"]
  /\ Done(p)
  /\ UNCHANGED <<now, vendor, types, logs, sp, resets>>

Revision(p) ==
  \/ \E v \in Vendor, target \in {0} \cup DOMAIN logs, pt \in {0, 1} :
       RequestCheck(p, v, target, pt)
  \/ RequestCreate(p)
  \/ \E r \in DOMAIN requests : ApproveRead(p, r) \/ RejectRead(p, r)
  \/ ApproveCorrect(p)
  \/ ApproveFind(p)
  \/ ApproveCommit(p)
  \/ RejectCommit(p)

-----------------------------------------------------------------------------
(* VendorViolationScheduler: completeExpiredSPs, reactivateExpiredSP3Vendors *)

(* Mutant: only expired SP3 letters are completed.                         *)
StartJob_OnlySP3(p, quarterly) ==
  /\ Begin(p, [NoWork EXCEPT
                 !.at = "job.complete", !.quarterly = quarterly,
                 !.todo = {i \in DOMAIN sp : /\ sp[i].status = ACTIVE
                                             /\ sp[i].level = 3
                                             /\ sp[i].end < now}])
  /\ UNCHANGED <<now, vendor, types, logs, sp, requests, resets>>

StartJob(p, quarterly) ==
  /\ Begin(p, [NoWork EXCEPT
                 !.at = "job.complete", !.quarterly = quarterly,
                 !.todo = {i \in DOMAIN sp : sp[i].status = ACTIVE /\ sp[i].end < now}])
  /\ UNCHANGED <<now, vendor, types, logs, sp, requests, resets>>

NightlyStart(p) == "nightly" \in Ops /\ StartJob(p, FALSE)

QuarterlyCron(p) ==
  /\ "quarterly" \in Ops
  /\ now % QuarterLength = 0
  /\ StartJob(p, TRUE)

(* logQuarterlyReset stores {"quarter":1,...}; checkQuarterlyReset looks   *)
(* for the text Q1, which that JSON does not contain.                      *)
LoggedText(q) == <<"quarter:", q>>
SoughtText(q) == <<"Q", q>>
ResetFound == \E q \in resets : LoggedText(q) = SoughtText(Quarter(now))

QuarterlyAtStartup(p) ==
  /\ "quarterly" \in Ops
  /\ ~ResetFound
  /\ StartJob(p, TRUE)

(* The loop writes every row of the list it read, whatever became of it.   *)
JobComplete(p) ==
  /\ w[p].at = "job.complete"
  /\ \E i \in w[p].todo :
       /\ sp' = [sp EXCEPT ![i].status = COMPLETED]
       /\ w' = [w EXCEPT ![p].todo = @ \ {i}]
  /\ UNCHANGED <<now, vendor, types, logs, requests, resets>>

(* Mutants: the list is not limited to letters that are over; it asks for  *)
(* letters still in force.                                                 *)
JobListSP3_AnySP3(p) ==
  /\ w[p].at = "job.complete" /\ w[p].todo = {}
  /\ w' = [w EXCEPT
             ![p].at = "job.reactivate",
             ![p].todo = {i \in DOMAIN sp : /\ sp[i].level = 3
                                            /\ ~vendor[sp[i].v].active}]
  /\ UNCHANGED <<now, vendor, types, logs, sp, requests, resets>>

JobListSP3_InForce(p) ==
  /\ w[p].at = "job.complete" /\ w[p].todo = {}
  /\ w' = [w EXCEPT
             ![p].at = "job.reactivate",
             ![p].todo = {i \in DOMAIN sp : /\ sp[i].level = 3
                                            /\ sp[i].status = ACTIVE
                                            /\ sp[i].end < now
                                            /\ ~vendor[sp[i].v].active}]
  /\ UNCHANGED <<now, vendor, types, logs, sp, requests, resets>>

(* The query includes the vendor: its is_active is as old as the list.     *)
JobListSP3(p) ==
  /\ w[p].at = "job.complete" /\ w[p].todo = {}
  /\ w' = [w EXCEPT
             ![p].at = "job.reactivate",
             ![p].todo = {i \in DOMAIN sp : /\ sp[i].level = 3
                                            /\ sp[i].status = COMPLETED
                                            /\ sp[i].end < now
                                            /\ ~vendor[sp[i].v].active}]
  /\ UNCHANGED <<now, vendor, types, logs, sp, requests, resets>>

JobReactivate(p) ==
  /\ w[p].at = "job.reactivate"
  /\ \E i \in w[p].todo :
       /\ SetActive(sp[i].v, TRUE)
       /\ w' = [w EXCEPT ![p].todo = @ \ {i}]
  /\ UNCHANGED <<now, types, logs, sp, requests, resets>>

JobEnd(p) ==
  /\ w[p].at = "job.reactivate" /\ w[p].todo = {}
  /\ resets' = IF w[p].quarterly THEN resets \cup {Quarter(now)} ELSE resets
  /\ Done(p)
  /\ UNCHANGED <<now, vendor, types, logs, sp, requests>>

Job(p) ==
  \/ NightlyStart(p)
  \/ QuarterlyCron(p)
  \/ QuarterlyAtStartup(p)
  \/ JobComplete(p)
  \/ JobListSP3(p)
  \/ JobReactivate(p)
  \/ JobEnd(p)

-----------------------------------------------------------------------------
(* A database error or a crashed process ends a handler where it stands.   *)
Fail(p) ==
  /\ "fail" \in Ops
  /\ w[p] # NoWork
  /\ Done(p)
  /\ UNCHANGED <<now, vendor, types, logs, sp, requests, resets>>

Tick ==
  /\ now < MaxTime
  /\ \A p \in Workers : w[p] = NoWork
  /\ now' = now + 1
  /\ UNCHANGED <<vendor, types, logs, sp, requests, resets, w>>

Init ==
  /\ now = 0
  /\ vendor = [v \in Vendor |-> [active |-> TRUE, deleted |-> FALSE]]
  /\ types \in [VType -> [point : PointValues, status : {"absent", "on"}]]
  /\ logs = <<>>
  /\ sp = <<>>
  /\ requests = <<>>
  /\ resets = {}
  /\ w = [p \in Workers |-> NoWork]

Next ==
  \/ \E p \in Workers :
       Detect(p) \/ ManualLog(p) \/ SPAdmin(p) \/ Revision(p) \/ Job(p) \/ Fail(p)
  \/ TypeAdmin
  \/ \E v \in Vendor : RemoveVendor(v)
  \/ Tick

Spec == Init /\ [][Next]_vars

(* A handler that has begun takes its next step: an awaited database call  *)
(* settles.                                                                *)
Proceed(p) ==
  /\ w[p] # NoWork
  /\ Detect(p) \/ ManualLog(p) \/ SPAdmin(p) \/ Revision(p) \/ Job(p)

(* The job gives back the vendor of the letter i of its list.              *)
JobGivesBack(p, i) == JobReactivate(p) /\ i \in w[p].todo \ w'[p].todo

(* The nightly cron keeps firing, and a database error does not strike the *)
(* same write of the job forever.                                          *)
JobFairness ==
  \A p \in Workers : /\ WF_vars(Proceed(p))
                     /\ SF_vars(NightlyStart(p))
                     /\ SF_vars(JobComplete(p))
                     /\ SF_vars(JobListSP3(p))
                     /\ \A i \in 1..(MaxLogs + MaxRequests) :
                          SF_vars(JobGivesBack(p, i))
                     /\ SF_vars(JobEnd(p))

FairSpec == Spec /\ JobFairness

-----------------------------------------------------------------------------
(* What the handlers rely on between two awaits.  Together with TypeOK it  *)
(* is inductive; VendorDisciplineProofs builds on it.                      *)

VendorSteps == {"detect.create", "detect.total", "detect.find", "detect.write",
                "detect.deactivate", "log.total", "log.find", "issue.find",
                "issue.deactivate", "issue.create", "drop.reactivate", "drop",
                "rewrite", "rewrite.deactivate", "reactivate.commit",
                "request.create", "approve.correct", "approve.find",
                "approve.commit"}
LevelSteps == {"detect.find", "detect.write", "issue.find", "issue.deactivate",
               "issue.create", "rewrite"}
LetterSteps == {"drop", "rewrite", "extend.write", "complete.write"}
JobSteps == {"job.complete", "job.reactivate"}
CorrectSteps == {"approve.find", "approve.commit"}
ReviewSteps == {"approve.correct", "reject.commit"} \cup CorrectSteps

(* A target is one of the vendor's own logs, and a RESET asks for 0.        *)
OwnTarget(v, target, point) ==
  IF target = 0 THEN point = 0
  ELSE target \in DOMAIN logs /\ logs[target].v = v

(* The logs a request may touch at all.                                    *)
Touchable(r) ==
  {i \in DOMAIN logs : logs[i].v = r.v /\ (IsReset(r) \/ i = r.target)}

Sound(x) ==
  /\ x.at \in VendorSteps => x.v \in Vendor
  /\ x.at \in LevelSteps => x.lvl \in Level
  /\ x.at \in LetterSteps => x.id \in DOMAIN sp
  /\ x.at \in JobSteps => x.todo \subseteq DOMAIN sp
  /\ x.at \in ReviewSteps => x.n \in DOMAIN requests
  /\ x.at \in CorrectSteps => x.todo \subseteq Touchable(requests[x.n])
  /\ x.at = "detect.create" => x.t \in VType /\ x.o \in Order
  /\ x.at = "request.create" => x.n \in {0, 1} /\ OwnTarget(x.v, x.id, x.n)
  /\ x.at = "approve.commit" => x.id \in {0} \cup DOMAIN sp

WorkSound == \A p \in Workers : Sound(w[p])

RequestsSound ==
  \A r \in DOMAIN requests :
    OwnTarget(requests[r].v, requests[r].target, requests[r].point)

Consistent == TypeOK /\ WorkSound /\ RequestsSound

-----------------------------------------------------------------------------
(* Properties                                                              *)

Quiet == \A p \in Workers : w[p] = NoWork

AboutToLog(v, t, o) ==
  \E p \in Workers : /\ w[p].at = "detect.create"
                     /\ w[p].v = v /\ w[p].t = t /\ w[p].o = o

(* The violation is in the log of quarter q, by whatever path, and no       *)
(* detection that looked for it before is still to write its own.           *)
Recorded(v, t, o, q) ==
  /\ \E i \in LogsOf(v, q) : logs[i].t = t /\ logs[i].o = o
  /\ q = Quarter(now) => ~AboutToLog(v, t, o)

Detections(v, t, o, q) ==
  {i \in LogsOf(v, q) : /\ logs[i].t = t /\ logs[i].o = o
                        /\ logs[i].by = "detector"}

(* recordViolation checks and then creates, with no lock and no unique      *)
(* index: detections that overlap may each log the violation.  But once it  *)
(* is recorded and the last of them is through, by whatever path it got     *)
(* there, the detector never logs it again in that quarter.                 *)
DetectorLogsOnce ==
  [][\A v \in Vendor, t \in VType, o \in Order, q \in 0..Quarter(now) :
       Recorded(v, t, o, q) =>
         /\ Recorded(v, t, o, q)'
         /\ Detections(v, t, o, q)' = Detections(v, t, o, q)]_vars

(* Request r accounts for the correction log i carries.                    *)
Justifies(r, i) ==
  /\ r.v = logs[i].v
  /\ r.status # "PENDING"
  /\ IF IsReset(r) THEN logs[i].adj = 0
     ELSE r.target = i /\ r.point = logs[i].adj

(* A log's points are overridden only by a reviewed request of the same    *)
(* vendor, a REVISE of that log or a RESET, and to the value it asks for.  *)
CorrectionsReviewed ==
  \A i \in DOMAIN logs :
    logs[i].adj # None => \E r \in DOMAIN requests : Justifies(requests[r], i)

(* A RESET leaves the logs of earlier quarters alone: only a REVISE that   *)
(* names such a log changes it.                                            *)
ResetStaysInQuarter ==
  [][\A i \in DOMAIN logs :
       logs'[i].adj # logs[i].adj /\ logs[i].q # Quarter(now) =>
         \E r \in DOMAIN requests : requests[r].target = i]_vars

(* The request is decided and nobody has it in hand any more.              *)
Closed(r) ==
  /\ requests[r].status # "PENDING"
  /\ ~\E p \in Workers : w[p].at \in ReviewSteps /\ w[p].n = r

(* approve and reject read the request without a lock, so reviews that      *)
(* overlap may overwrite each other's decision.  But the decision that      *)
(* stands when the last of them is through is final: nobody takes the       *)
(* request up again, and its status stays.                                  *)
ReviewedOnce ==
  [][\A r \in DOMAIN requests :
       Closed(r) => Closed(r)' /\ requests'[r].status = requests[r].status]_vars

(* A vendor is out of action only if an SP3 was written for it, wherever   *)
(* the handlers stopped.                                                   *)
InactiveHasSP3 ==
  \A v \in Vendor :
    ~vendor[v].active /\ ~vendor[v].deleted =>
      \E i \in DOMAIN sp : sp[i].v = v /\ sp[i].level = 3

(* Between handlers, a vendor under a running SP3 is inactive.             *)
SP3MeansInactive ==
  Quiet => \A v \in Vendor :
             (\E i \in RunningSPs(v) : sp[i].level = 3) => ~vendor[v].active

ReturnedByJob(v) ==
  /\ ~vendor[v].active /\ vendor'[v].active
  /\ \E p \in Workers : w[p].at = "job.reactivate" /\ w'[p] # w[p]

(* The cron job gives back only vendors whose SP3 ran its full time.       *)
AutoReactivationIsNatural ==
  [][\A v \in Vendor : ReturnedByJob(v) =>
       \E i \in DOMAIN sp : /\ sp[i].v = v /\ sp[i].level = 3
                            /\ sp[i].end >= sp[i].start + SPDuration
                            /\ sp[i].end < now]_vars

LetterOverdue(i) == i \in DOMAIN sp /\ sp[i].status = ACTIVE /\ sp[i].end < now

(* A letter in force past its end is eventually taken out of force.        *)
OverdueLetterCloses ==
  \A i \in 1..(MaxLogs + MaxRequests) : LetterOverdue(i) ~> ~LetterOverdue(i)

SP3Over(v) ==
  /\ ~vendor[v].active
  /\ \E i \in DOMAIN sp : sp[i].v = v /\ sp[i].level = 3 /\ sp[i].end < now

(* The nightly job looks at ACTIVE letters only: an extended SP3 keeps its   *)
(* vendor out until somebody completes it.                                  *)
SP3Extended(v) == \E i \in SPsOf(v, {EXTENDED}) : sp[i].level = 3

(* A vendor whose SP3 has run out eventually works again, unless it is      *)
(* removed or the letter is extended after all.                             *)
SP3VendorReturns ==
  \A v \in Vendor :
    SP3Over(v) ~> vendor[v].active \/ vendor[v].deleted \/ SP3Extended(v)

=============================================================================
