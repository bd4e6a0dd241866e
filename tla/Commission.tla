----------------------------- MODULE Commission -----------------------------
(***************************************************************************)
(* How a sales person's incentive becomes money.  A paid quotation earns it *)
(* (POTENTIAL); a job, every five minutes, puts up for payment those whose  *)
(* order is finished (PENGAJUAN); the office collects incentives in claims  *)
(* (comission_sales_incentive) with a total, and uploads a workbook whose   *)
(* rows mark them paid (DIBAYARKAN).  Refunds lose them, a rejected claim   *)
(* rejects them.                                                            *)
(*                                                                         *)
(* A worker is one request, or one row of an uploaded workbook: the rows    *)
(* are processed at the same time (Promise.all).                            *)
(*                                                                         *)
(* Abstracted: who earned what under which setting (a row of the workbook   *)
(* may mean any incentive that is put up), evidences, notes, notifications, *)
(* dates, the claim's other statuses, which nothing looks at.               *)
(***************************************************************************)
EXTENDS Naturals, FiniteSets, Functions

CONSTANTS Incentives, \* ids of rows of sales_incentive
          OrderOf,    \* incentive -> order of its quotation
          Claims,     \* ids of rows of comission_sales_incentive
          Workers,    \* requests and workbook rows handled at the same time
          Amounts,    \* what an incentive may be worth
          MaxEvents   \* bound: requests, night jobs and changes of orders

Orders == {OrderOf[i] : i \in Incentives}
None == "none"

ASSUME OrderOfAssumption == OrderOf \in [Incentives -> Orders]
ASSUME AmountAssumption == Amounts \subseteq Nat /\ MaxEvents \in Nat
ASSUME FiniteAssumption == IsFiniteSet(Incentives)
ASSUME NoneAssumption == None \notin Claims /\ None \notin Incentives

VARIABLES
  inc,    \* incentive -> Absent, Gone or its row
  claim,  \* claim -> Absent or its row
  ended,  \* orders that stand at WORKEND
  w,      \* worker -> its request
  job,    \* what the five-minute job has listed
  events, \* bound: events so far
  odd,    \* history: claims one of whose incentives changed under them
  clash   \* history: requests about claims overlapped with others

vars == <<inc, claim, ended, w, job, events, odd, clash>>

Absent == [status |-> "absent"]
Gone == [status |-> "gone"]
Row == [status : {"POTENTIAL", "PENGAJUAN", "DIBAYARKAN", "DITOLAK", "LOST"},
        claim : Claims \cup {None}, nominal : Amounts]
Claim == [status : {"open", "rejected"}, total : Nat]
Request == [at : {"idle", "create.claim", "create.link", "update.sum", "update.write",
                  "pay", "redate"},
            list : SUBSET Incentives, old : SUBSET Incentives, total : Nat,
            claim : Claims \cup {None}, status : {"open", "rejected"},
            id : Incentives \cup {None}]
Idle == [at |-> "idle", list |-> {}, old |-> {}, total |-> 0, claim |-> None,
         status |-> "open", id |-> None]

There(i) == inc[i].status \notin {"absent", "gone"}
Existing == {i \in Incentives : There(i)}
In(status) == {i \in Existing : inc[i].status = status}
Linked(c) == {i \in Existing : inc[i].claim = c}
Sum(S) == SumFunction([i \in S \cap Existing |-> inc[i].nominal])

TypeOK ==
  /\ inc \in [Incentives -> Row \cup {Absent, Gone}]
  /\ claim \in [Claims -> Claim \cup {Absent}]
  /\ ended \subseteq Orders
  /\ w \in [Workers -> Request]
  /\ job \in [at : {"idle", "write"}, list : SUBSET Incentives]
  /\ events \in 0..MaxEvents
  /\ odd \subseteq Claims /\ clash \in BOOLEAN
  /\ \A c \in Claims : claim[c] = Absent => Linked(c) = {}

Earned(n) == [status |-> "POTENTIAL", claim |-> None, nominal |-> n]

(* Some incentives have been earned before.                                 *)
Init ==
  /\ inc \in [Incentives -> {Absent} \cup {Earned(n) : n \in Amounts}]
  /\ claim = [c \in Claims |-> Absent]
  /\ ended = {}
  /\ w = [p \in Workers |-> Idle]
  /\ job = [at |-> "idle", list |-> {}]
  /\ events = 0
  /\ odd = {} /\ clash = FALSE

-----------------------------------------------------------------------------
Count == events < MaxEvents /\ events' = events + 1

AboutClaims == {"create.claim", "create.link", "update.sum", "update.write", "redate"}
Busy == \E p \in Workers : w[p].at \in AboutClaims

(* The lowest idle worker takes the next request: they are all the same.    *)
Begin(p, request) ==
  /\ Count
  /\ w[p] = Idle /\ \A r \in Workers : w[r] = Idle => p <= r
  /\ w' = [w EXCEPT ![p] = request]
  /\ clash' = (clash \/ (Busy /\ request.at \in AboutClaims))

Continue(p, x) == w' = [w EXCEPT ![p] = x] /\ UNCHANGED <<events, clash>>
Finish(p) == Continue(p, Idle)

(* What becomes of the claims of incentives that others take or change.     *)
Disturb(S, c) == odd' = odd \cup ({inc[i].claim : i \in S \cap Existing} \ {None, c})

(* generateSalesIncentive                                                   *)
Earn(i, n) ==
  /\ Count
  /\ inc[i] = Absent
  /\ inc' = [inc EXCEPT ![i] = Earned(n)]
  /\ clash' = (clash \/ Busy)
  /\ UNCHANGED <<claim, ended, w, job, odd>>

(* The order reaches WORKEND, or is moved away from it.                     *)
MoveOrder(o) ==
  /\ Count
  /\ ended' = IF o \in ended THEN ended \ {o} ELSE ended \cup {o}
  /\ UNCHANGED <<inc, claim, w, job, odd, clash>>

(* The night after a refund (checkvalidity): the order's incentives are     *)
(* lost, whatever has become of them.                                       *)
Lose(o) ==
  /\ Count
  /\ inc' = [i \in Incentives |-> IF There(i) /\ OrderOf[i] = o
                                  THEN [inc[i] EXCEPT !.status = "LOST"] ELSE inc[i]]
  /\ UNCHANGED <<claim, ended, w, job, odd, clash>>

-----------------------------------------------------------------------------
(* deleteOrder of the sales service: the five-minute job.                   *)
(* Mutant: those a claim has taken up already are left out.                 *)
Due_Unclaimed == {i \in In("POTENTIAL") : OrderOf[i] \in ended /\ inc[i].claim = None}

Due == {i \in In("POTENTIAL") : OrderOf[i] \in ended}

JobList ==
  /\ job.at = "idle"
  /\ Due # {}
  /\ job' = [at |-> "write", list |-> Due]
  /\ UNCHANGED <<inc, claim, ended, w, events, odd, clash>>

JobWrite ==
  /\ job.at = "write"
  /\ inc' = [i \in Incentives |-> IF There(i) /\ i \in job.list
                                  THEN [inc[i] EXCEPT !.status = "PENGAJUAN"] ELSE inc[i]]
  /\ job' = [at |-> "idle", list |-> {}]
  /\ UNCHANGED <<claim, ended, w, events, odd, clash>>

-----------------------------------------------------------------------------
(* create: the total is read first, the claim written next and the          *)
(* incentives linked last.  An empty list is no condition at all: every     *)
(* incentive goes into the claim.                                           *)
CreateRead(p, S) ==
  /\ S \subseteq Existing
  /\ Begin(p, [Idle EXCEPT !.at = "create.claim", !.list = S,
                           !.total = IF S = {} THEN Sum(Existing) ELSE Sum(S)])
  /\ UNCHANGED <<inc, claim, ended, job, odd>>

CreateClaim(p, c) ==
  /\ w[p].at = "create.claim"
  /\ claim[c] = Absent
  /\ claim' = [claim EXCEPT ![c] = [status |-> "open", total |-> w[p].total]]
  /\ Continue(p, [w[p] EXCEPT !.at = "create.link", !.claim = c])
  /\ UNCHANGED <<inc, ended, job, odd>>

CreateLink(p) ==
  /\ w[p].at = "create.link"
  /\ LET chosen == IF w[p].list = {} THEN Existing ELSE w[p].list \cap Existing IN
     /\ inc' = [i \in Incentives |-> IF i \in chosen
                                     THEN [inc[i] EXCEPT !.claim = w[p].claim] ELSE inc[i]]
     /\ Disturb(chosen, w[p].claim)
  /\ Finish(p)
  /\ UNCHANGED <<claim, ended, job>>

(* update: what is linked now, then the total of the new list, or of the    *)
(* old one if there is none ...                                             *)
UpdateRead(p, c, S, status) ==
  /\ claim[c] # Absent
  /\ S \subseteq Existing
  /\ Begin(p, [Idle EXCEPT !.at = "update.sum", !.claim = c, !.list = S,
                           !.old = Linked(c), !.status = status])
  /\ UNCHANGED <<inc, claim, ended, job, odd>>

UpdateSum(p) ==
  /\ w[p].at = "update.sum"
  /\ LET r == w[p] IN
     Continue(p, [r EXCEPT !.at = "update.write",
                           !.total = Sum(IF r.list = {} THEN r.old ELSE r.list)])
  /\ UNCHANGED <<inc, claim, ended, job, odd>>

(* ... then one transaction: a rejection marks the incentives linked before *)
(* the links change, and the links change only if there is one to add.      *)
Relinked(r, i) ==
  LET added == r.list \ r.old
      marked == IF r.status = "rejected" /\ inc[i].claim = r.claim
                THEN [inc[i] EXCEPT !.status = "DITOLAK"] ELSE inc[i]
  IN  IF added = {} THEN marked
      ELSE IF i \in added THEN [marked EXCEPT !.claim = r.claim]
      ELSE IF i \in r.old \ r.list THEN [marked EXCEPT !.claim = None]
      ELSE marked

(* Mutant: the incentives left out of the new list stay linked.             *)
UpdateWrite_OnlyAdds(p) ==
  /\ w[p].at = "update.write"
  /\ LET r == w[p] IN
     /\ claim' = [claim EXCEPT ![r.claim] = [status |-> r.status, total |-> r.total]]
     /\ inc' = [i \in Incentives |->
                  IF There(i) /\ i \in r.list \ r.old THEN [inc[i] EXCEPT !.claim = r.claim]
                  ELSE inc[i]]
     /\ Disturb(r.list \ r.old, r.claim)
  /\ Finish(p)
  /\ UNCHANGED <<ended, job>>

UpdateWrite(p) ==
  /\ w[p].at = "update.write"
  /\ LET r == w[p]
         added == r.list \ r.old
         onlyShrinks == added = {} /\ r.list # {} /\ r.list # r.old IN
     /\ claim' = [claim EXCEPT ![r.claim] = [status |-> r.status, total |-> r.total]]
     /\ inc' = [i \in Incentives |-> IF There(i) THEN Relinked(r, i) ELSE inc[i]]
     /\ odd' = odd \cup ({inc[i].claim : i \in added \cap Existing} \ {None, r.claim})
                   \cup (IF onlyShrinks THEN {r.claim} ELSE {})
  /\ Finish(p)
  /\ UNCHANGED <<ended, job>>

-----------------------------------------------------------------------------
(* syncSalesCommission: a row of the workbook takes the first incentive put *)
(* up of its sales person and setting, and marks it paid by id; two rows    *)
(* may have taken the same.                                                 *)
PayRead(p, i) ==
  /\ i \in In("PENGAJUAN")
  /\ Begin(p, [Idle EXCEPT !.at = "pay", !.id = i])
  /\ UNCHANGED <<inc, claim, ended, job, odd>>

PayWrite(p) ==
  /\ w[p].at = "pay"
  /\ inc' = IF There(w[p].id)
            THEN [inc EXCEPT ![w[p].id] = [@ EXCEPT !.status = "DIBAYARKAN"]] ELSE inc
  /\ Finish(p)
  /\ UNCHANGED <<claim, ended, job, odd>>

(* updateDateSalesIncentive: the amount is worked out anew for one put up.  *)
RedateRead(p, i) ==
  /\ i \in In("PENGAJUAN")
  /\ Begin(p, [Idle EXCEPT !.at = "redate", !.id = i])
  /\ UNCHANGED <<inc, claim, ended, job, odd>>

(* Mutant: the row is written back as it was read.                          *)
RedateWrite_WholeRow(p, n) ==
  /\ w[p].at = "redate"
  /\ inc' = IF There(w[p].id)
            THEN [inc EXCEPT ![w[p].id] = [@ EXCEPT !.nominal = n, !.status = "PENGAJUAN"]]
            ELSE inc
  /\ Disturb({w[p].id}, None)
  /\ Finish(p)
  /\ UNCHANGED <<claim, ended, job>>

RedateWrite(p, n) ==
  /\ w[p].at = "redate"
  /\ inc' = IF There(w[p].id)
            THEN [inc EXCEPT ![w[p].id] = [@ EXCEPT !.nominal = n]] ELSE inc
  /\ Disturb({w[p].id}, None)
  /\ Finish(p)
  /\ UNCHANGED <<claim, ended, job>>

(* deleteSalesIncentive: the row is gone for good.                          *)
(* Mutant: its claim is deleted with it.                                    *)
Delete_WithClaim(i) ==
  /\ Count
  /\ There(i)
  /\ inc' = [inc EXCEPT ![i] = Gone]
  /\ claim' = IF inc[i].claim = None THEN claim ELSE [claim EXCEPT ![inc[i].claim] = Absent]
  /\ Disturb({i}, None)
  /\ clash' = (clash \/ Busy)
  /\ UNCHANGED <<ended, w, job>>

Delete(i) ==
  /\ Count
  /\ There(i)
  /\ inc' = [inc EXCEPT ![i] = Gone]
  /\ Disturb({i}, None)
  /\ clash' = (clash \/ Busy)
  /\ UNCHANGED <<claim, ended, w, job>>

-----------------------------------------------------------------------------
Job == JobList \/ JobWrite

Next ==
  \/ \E i \in Incentives : Delete(i) \/ \E n \in Amounts : Earn(i, n)
  \/ \E o \in Orders : MoveOrder(o) \/ Lose(o)
  \/ \E p \in Workers :
       \/ \E S \in SUBSET Incentives :
            \/ CreateRead(p, S)
            \/ \E c \in Claims, status \in {"open", "rejected"} : UpdateRead(p, c, S, status)
       \/ \E c \in Claims : CreateClaim(p, c)
       \/ CreateLink(p) \/ UpdateSum(p) \/ UpdateWrite(p) \/ PayWrite(p)
       \/ \E i \in Incentives : PayRead(p, i) \/ RedateRead(p, i)
       \/ \E n \in Amounts : RedateWrite(p, n)
  \/ Job

Spec == Init /\ [][Next]_vars

(* The job runs every five minutes in instance 0.                           *)
FairSpec == Spec /\ WF_vars(Job)

-----------------------------------------------------------------------------
(* What was paid is never put up again, although the job and the office     *)
(* write by id what they read before (deleteOrder, updateDateSalesIncentive,*)
(* syncSalesCommission); it can only be lost or rejected.                   *)
PaidOnce ==
  [][\A i \in Incentives :
       inc[i].status = "DIBAYARKAN" => inc'[i].status \notin {"POTENTIAL", "PENGAJUAN"}]_vars

(* A claim's total is the sum of the incentives linked to it, over any      *)
(* sequence of creations and updates that add, replace or keep (create and  *)
(* update work out total and links separately), unless requests overlapped, *)
(* another claim or a correction took or changed one of its incentives, or  *)
(* an update only took some away, which leaves the links (line 399).        *)
ClaimSums ==
  ~clash /\ ~Busy =>
    \A c \in Claims : claim[c] # Absent /\ c \notin odd => claim[c].total = Sum(Linked(c))

(* An incentive whose order is finished and stays finished does not stay    *)
(* potential: the job puts it up, a claim or not.                           *)
Finished(i) == i \in In("POTENTIAL") /\ OrderOf[i] \in ended
EndedIsPutUp == \A i \in Incentives : Finished(i) ~> ~Finished(i)
=============================================================================
