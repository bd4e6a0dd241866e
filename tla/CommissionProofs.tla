-------------------------- MODULE CommissionProofs --------------------------
(***************************************************************************)
(* Theorems of Commission for every set of incentives, claims, requests and *)
(* amounts: what was paid is not put up again, and a claim's total is the   *)
(* sum of its incentives, with the exceptions the properties name.          *)
(***************************************************************************)
EXTENDS Commission, SumLemmas

(* What a request has in hand is there.                                     *)
RequestOK(p) ==
  /\ w[p].at \in {"create.link", "update.sum", "update.write"} =>
       w[p].claim \in Claims /\ claim[w[p].claim] # Absent
  /\ w[p].at \in {"pay", "redate"} => w[p].id \in Incentives

(* What the job has listed is still potential, or can never be paid; what a  *)
(* row of the workbook is about to pay was put up once.                     *)
NotPutUp == {"POTENTIAL", "LOST", "DITOLAK", "gone"}
Listed ==
  \A i \in job.list :
    /\ inc[i].status \in NotPutUp
    /\ \A p \in Workers : w[p].at = "pay" => w[p].id # i
Paying(p) == w[p].at = "pay" => inc[w[p].id].status \notin {"POTENTIAL", "absent"}

Typed ==
  /\ TypeOK
  /\ \A p \in Workers : RequestOK(p) /\ Paying(p)
  /\ Listed

(* As long as no requests about claims overlapped: there is one at most, it  *)
(* knows the links and sums as they are, and every claim it is not about to *)
(* link has the total of its incentives.                                    *)
Alone ==
  \A p, r \in Workers : w[p].at \in AboutClaims /\ w[r].at \in AboutClaims => p = r
Knows(p) ==
  /\ \A S \in SUBSET Incentives :
       /\ /\ w[p].at \in {"create.claim", "create.link"}
          /\ S = IF w[p].list = {} THEN Existing ELSE w[p].list
          => w[p].total = Sum(S)
       /\ /\ w[p].at = "update.write"
          /\ S = IF w[p].list = {} THEN w[p].old ELSE w[p].list
          => w[p].total = Sum(S)
  /\ \A c \in Claims : w[p].claim = c =>
       /\ w[p].at = "create.link" => Linked(c) = {} /\ claim[c].total = w[p].total
       /\ w[p].at \in {"update.sum", "update.write"} => w[p].old = Linked(c)
  /\ w[p].at \in {"update.sum", "update.write"} => w[p].list \subseteq Existing
Linking(c) == \E p \in Workers : w[p].at = "create.link" /\ w[p].claim = c
Billed(c) ==
  claim[c] # Absent /\ c \notin odd =>
    Linking(c) \/ \A S \in SUBSET Incentives : S = Linked(c) => claim[c].total = Sum(S)

Billing ==
  ~clash => Alone /\ (\A p \in Workers : Knows(p)) /\ (\A c \in Claims : Billed(c))

-----------------------------------------------------------------------------
(* Shapes.                                                                  *)
Statuses == {"POTENTIAL", "PENGAJUAN", "DIBAYARKAN", "DITOLAK", "LOST"}

LEMMA Shapes ==
  /\ \A x \in Row : /\ x.status \in Statuses /\ x.claim \in Claims \cup {None}
                    /\ x.nominal \in Amounts /\ x.nominal \in Nat
  /\ Absent.status = "absent" /\ Gone.status = "gone" /\ Absent \notin Claim
  /\ \A n \in Amounts : /\ Earned(n) \in Row /\ Earned(n).status = "POTENTIAL"
                        /\ Earned(n).claim = None /\ Earned(n).nominal = n
  /\ Idle \in Request /\ Idle.at = "idle"
  BY AmountAssumption DEF Row, Statuses, Absent, Gone, Claim, Earned, Idle, Request

LEMMA RowEdits ==
  ASSUME NEW x \in Row
  PROVE  /\ \A s \in Statuses :
              /\ [x EXCEPT !.status = s] \in Row /\ [x EXCEPT !.status = s].status = s
              /\ [x EXCEPT !.status = s].claim = x.claim
              /\ [x EXCEPT !.status = s].nominal = x.nominal
         /\ \A c \in Claims \cup {None} :
              /\ [x EXCEPT !.claim = c] \in Row /\ [x EXCEPT !.claim = c].status = x.status
              /\ [x EXCEPT !.claim = c].claim = c
              /\ [x EXCEPT !.claim = c].nominal = x.nominal
         /\ \A n \in Amounts :
              /\ [x EXCEPT !.nominal = n] \in Row /\ [x EXCEPT !.nominal = n].status = x.status
              /\ [x EXCEPT !.nominal = n].claim = x.claim
              /\ [x EXCEPT !.nominal = n].nominal = n
  BY DEF Row, Statuses

Rows == [Incentives -> Row \cup {Absent, Gone}]

LEMMA RowThere ==
  ASSUME inc \in Rows, NEW i \in Incentives
  PROVE  There(i) <=> inc[i] \in Row
  BY Shapes DEF Rows, There, Statuses

LEMMA RowThereNext ==
  ASSUME inc' \in Rows, NEW i \in Incentives
  PROVE  There(i)' <=> inc'[i] \in Row
  BY Shapes DEF Rows, There, Statuses

LEMMA SumIsNumber ==
  ASSUME inc \in Rows, NEW S
  PROVE  Sum(S) \in Nat
  <1>1. PICK D : D = S \cap Existing
    OBVIOUS
  <1>2. IsFiniteSet(D)
    <2>1. D \subseteq Incentives
      BY <1>1 DEF Existing
    <2> QED BY <2>1, FiniteAssumption, FS_Subset
  <1>3. PICK f : f = [i \in D |-> inc[i].nominal]
    OBVIOUS
  <1>4. \A i \in D : f[i] \in Nat
    BY <1>1, <1>3, RowThere, Shapes DEF Existing
  <1>5. Sum(S) = SumFunctionOnSet(f, D)
    BY <1>1, <1>3 DEF Sum, SumFunction
  <1> QED BY <1>2, <1>4, <1>5, SumIsNat

(* What sums and links are made of stays as it is.                          *)
SameMoney ==
  /\ \A i \in Incentives : There(i)' <=> There(i)
  /\ \A i \in Existing : inc'[i].nominal = inc[i].nominal /\ inc'[i].claim = inc[i].claim

LEMMA SameSums ==
  ASSUME SameMoney
  PROVE  /\ Existing' = Existing
         /\ \A c : Linked(c)' = Linked(c)
         /\ \A S : Sum(S)' = Sum(S)
  <1>1. Existing' = Existing
    BY DEF Existing, SameMoney
  <1>2. ASSUME NEW S
        PROVE  Sum(S)' = Sum(S)
    <2>1. [i \in S \cap Existing |-> inc[i].nominal] = [i \in S \cap Existing' |-> inc'[i].nominal]
      BY <1>1 DEF SameMoney
    <2> QED BY <2>1 DEF Sum
  <1>3. \A c : Linked(c)' = Linked(c)
    BY <1>1 DEF Linked, SameMoney
  <1> QED BY <1>1, <1>2, <1>3

(* Some rows get another status and nothing else.                           *)
LEMMA Restatus ==
  ASSUME inc \in Rows, NEW S, S \subseteq Existing, NEW s \in Statuses,
         inc' = [i \in Incentives |-> IF i \in S THEN [inc[i] EXCEPT !.status = s] ELSE inc[i]]
  PROVE  /\ inc' \in Rows /\ SameMoney
         /\ \A i \in S : inc'[i].status = s
         /\ \A i \in Incentives : i \notin S => inc'[i] = inc[i]
  <1>1. \A i \in S : i \in Incentives /\ inc[i] \in Row
    BY RowThere DEF Existing
  <1>2. \A i \in S : /\ inc'[i] \in Row /\ inc'[i].status = s
                     /\ inc'[i].nominal = inc[i].nominal /\ inc'[i].claim = inc[i].claim
    BY <1>1, RowEdits
  <1>3. inc' \in Rows
    BY <1>1, <1>2 DEF Rows
  <1>4. \A i \in Incentives : i \notin S => inc'[i] = inc[i]
    OBVIOUS
  <1>5. \A i \in Incentives : There(i)' <=> There(i)
    BY <1>1, <1>2, <1>3, <1>4, RowThere, RowThereNext
  <1>6. SameMoney
    BY <1>2, <1>4, <1>5 DEF SameMoney, Existing
  <1> QED BY <1>2, <1>3, <1>4, <1>6

LEMMA SameMoneyKept ==
  ASSUME inc' = inc
  PROVE  SameMoney
  BY DEF SameMoney, There, Existing

-----------------------------------------------------------------------------
(* Types.                                                                   *)
LEMMA Rest ==
  ASSUME Typed
  PROVE  /\ inc \in Rows /\ claim \in [Claims -> Claim \cup {Absent}]
         /\ ended \subseteq Orders /\ w \in [Workers -> Request]
         /\ job \in [at : {"idle", "write"}, list : SUBSET Incentives]
         /\ job.list \subseteq Incentives
         /\ events \in 0..MaxEvents /\ odd \subseteq Claims /\ clash \in BOOLEAN
         /\ \A c \in Claims : claim[c] = Absent => Linked(c) = {}
  BY DEF Typed, TypeOK, Rows

LEMMA TypedFrom ==
  ASSUME Typed, inc' \in Rows, claim' \in [Claims -> Claim \cup {Absent}],
         \A c \in Claims : claim[c] # Absent => claim'[c] # Absent,
         \A c \in Claims : claim'[c] = Absent => Linked(c)' = {},
         ended' \subseteq Orders, w' \in [Workers -> Request],
         \A r \in Workers : w'[r] = w[r] \/ RequestOK(r)',
         job' \in [at : {"idle", "write"}, list : SUBSET Incentives],
         events' \in 0..MaxEvents, odd' \subseteq Claims, clash' \in BOOLEAN,
         \A r \in Workers : Paying(r)', Listed'
  PROVE  Typed'
  <1>1. \A r \in Workers : RequestOK(r)'
    BY DEF Typed, RequestOK
  <1>2. TypeOK'
    BY DEF TypeOK, Rows
  <1> QED BY <1>1, <1>2 DEF Typed

(* Steps that neither put anything up nor pay anything.                     *)
Calm ==
  /\ \A i \in Incentives :
       /\ inc[i].status \notin {"POTENTIAL", "absent"} => inc'[i].status \notin {"POTENTIAL", "absent"}
       /\ inc[i].status \in NotPutUp => inc'[i].status \in NotPutUp
  /\ \A r \in Workers : w'[r].at = "pay" => w'[r] = w[r]
  /\ job' = job

LEMMA CalmPays ==
  ASSUME Typed, Calm
  PROVE  Listed' /\ \A r \in Workers : Paying(r)'
  <1>1. \A r \in Workers : Paying(r)'
    BY DEF Calm, Typed, Paying, RequestOK
  <1>2. Listed'
    BY Rest DEF Calm, Typed, Listed
  <1> QED BY <1>1, <1>2

LEMMA WorkersShape ==
  ASSUME Typed, NEW p \in Workers, NEW x \in Request, w' = [w EXCEPT ![p] = x]
  PROVE  w' \in [Workers -> Request] /\ \A r \in Workers : w'[r] = IF r = p THEN x ELSE w[r]
  BY Rest

LEMMA CountEvents ==
  ASSUME Typed, Count
  PROVE  events' \in 0..MaxEvents
  BY Rest, AmountAssumption DEF Count

LEMMA BeginGives ==
  ASSUME Typed, NEW p \in Workers, NEW x \in Request, Begin(p, x)
  PROVE  /\ w[p] = Idle /\ w' \in [Workers -> Request]
         /\ \A r \in Workers : w'[r] = IF r = p THEN x ELSE w[r]
         /\ events' \in 0..MaxEvents /\ clash' \in BOOLEAN
         /\ ~clash' => ~clash /\ (x.at \in AboutClaims => ~Busy)
  BY Rest, WorkersShape, CountEvents DEF Begin

LEMMA ContinueGives ==
  ASSUME Typed, NEW p \in Workers, NEW x \in Request, Continue(p, x)
  PROVE  /\ w' \in [Workers -> Request]
         /\ \A r \in Workers : w'[r] = IF r = p THEN x ELSE w[r]
         /\ events' \in 0..MaxEvents /\ clash' = clash /\ clash' \in BOOLEAN
  BY Rest, WorkersShape DEF Continue

-----------------------------------------------------------------------------
(* What the steps of requests do.                                           *)
LEMMA CreateReadGives ==
  ASSUME Typed, NEW p \in Workers, NEW S \in SUBSET Incentives, CreateRead(p, S)
  PROVE  \E x \in Request : /\ Begin(p, x) /\ x.at = "create.claim" /\ x.list = S
                            /\ x.total = Sum(IF S = {} THEN Existing ELSE S)
  <1>1. PICK n \in Nat : n = IF S = {} THEN Sum(Existing) ELSE Sum(S)
    BY Rest, SumIsNumber
  <1>2. PICK x : x = [Idle EXCEPT !.at = "create.claim", !.list = S, !.total = n]
    OBVIOUS
  <1>3. x \in Request /\ x.at = "create.claim" /\ x.list = S /\ x.total = n
    BY <1>2 DEF Idle, Request
  <1>4. Begin(p, x)
    BY <1>1, <1>2 DEF CreateRead
  <1>5. n = Sum(IF S = {} THEN Existing ELSE S)
    BY <1>1
  <1> QED BY <1>3, <1>4, <1>5

LEMMA UpdateReadGives ==
  ASSUME Typed, NEW p \in Workers, NEW c \in Claims, NEW S \in SUBSET Incentives,
         NEW s \in {"open", "rejected"}, UpdateRead(p, c, S, s)
  PROVE  \E x \in Request : /\ Begin(p, x) /\ x.at = "update.sum" /\ x.claim = c /\ x.list = S
                            /\ x.old = Linked(c)
  <1>1. PICK O \in SUBSET Incentives : O = Linked(c)
    BY DEF Linked, Existing
  <1>2. PICK x : x = [Idle EXCEPT !.at = "update.sum", !.claim = c, !.list = S,
                                  !.old = O, !.status = s]
    OBVIOUS
  <1>3. x \in Request /\ x.at = "update.sum" /\ x.claim = c /\ x.list = S /\ x.old = O
    BY <1>2 DEF Idle, Request
  <1>4. Begin(p, x)
    BY <1>1, <1>2 DEF UpdateRead
  <1> QED BY <1>1, <1>3, <1>4

LEMMA RowReadGives ==
  ASSUME NEW p \in Workers, NEW i \in Incentives, PayRead(p, i) \/ RedateRead(p, i)
  PROVE  /\ \E x \in Request : /\ Begin(p, x) /\ x.id = i
                               /\ x.at = IF PayRead(p, i) THEN "pay" ELSE "redate"
         /\ inc[i].status = "PENGAJUAN"
  <1>1. inc[i].status = "PENGAJUAN"
    BY DEF PayRead, RedateRead, In
  <1>2. CASE PayRead(p, i)
    <2>1. PICK x : x = [Idle EXCEPT !.at = "pay", !.id = i]
      OBVIOUS
    <2>2. x \in Request /\ x.at = "pay" /\ x.id = i
      BY <2>1 DEF Idle, Request
    <2>3. Begin(p, x)
      BY <1>2, <2>1 DEF PayRead
    <2> QED BY <1>1, <1>2, <2>2, <2>3
  <1>3. CASE ~PayRead(p, i)
    <2>1. PICK x : x = [Idle EXCEPT !.at = "redate", !.id = i]
      OBVIOUS
    <2>2. x \in Request /\ x.at = "redate" /\ x.id = i
      BY <2>1 DEF Idle, Request
    <2>3. Begin(p, x)
      BY <1>3, <2>1 DEF RedateRead
    <2> QED BY <1>1, <1>3, <2>2, <2>3
  <1> QED BY <1>2, <1>3

LEMMA CreateClaimGives ==
  ASSUME Typed, NEW p \in Workers, NEW c \in Claims, CreateClaim(p, c)
  PROVE  /\ w[p].at = "create.claim" /\ claim[c] = Absent
         /\ \E x \in Request : /\ Continue(p, x) /\ x.at = "create.link" /\ x.claim = c
                               /\ x.list = w[p].list /\ x.total = w[p].total
         /\ claim' \in [Claims -> Claim \cup {Absent}] /\ claim'[c] # Absent
         /\ claim'[c].total = w[p].total
         /\ \A d \in Claims : d # c => claim'[d] = claim[d]
  <1>1. PICK y \in Request : y = w[p]
    BY Rest
  <1>2. PICK x : x = [y EXCEPT !.at = "create.link", !.claim = c]
    OBVIOUS
  <1>3. x \in Request /\ x.at = "create.link" /\ x.claim = c /\ x.list = y.list
        /\ x.total = y.total
    BY <1>2 DEF Request
  <1>4. Continue(p, x)
    BY <1>1, <1>2 DEF CreateClaim
  <1>5. PICK z : z = [status |-> "open", total |-> y.total]
    OBVIOUS
  <1>6. z \in Claim /\ z.total = y.total
    BY <1>5 DEF Claim, Request
  <1>7. claim' = [claim EXCEPT ![c] = z]
    BY <1>1, <1>5 DEF CreateClaim
  <1>8. claim' \in [Claims -> Claim \cup {Absent}] /\ claim'[c] # Absent /\ claim'[c] = z
        /\ \A d \in Claims : d # c => claim'[d] = claim[d]
    BY <1>6, <1>7, Rest, Shapes
  <1> QED BY <1>1, <1>3, <1>4, <1>6, <1>8 DEF CreateClaim

LEMMA UpdateSumGives ==
  ASSUME Typed, NEW p \in Workers, UpdateSum(p)
  PROVE  /\ w[p].at = "update.sum"
         /\ \E x \in Request : /\ Continue(p, x) /\ x.at = "update.write" /\ x.claim = w[p].claim
                               /\ x.list = w[p].list /\ x.old = w[p].old
                               /\ x.total = Sum(IF x.list = {} THEN x.old ELSE x.list)
  <1>1. PICK y \in Request : y = w[p]
    BY Rest
  <1>2. PICK n \in Nat : n = Sum(IF y.list = {} THEN y.old ELSE y.list)
    BY Rest, SumIsNumber
  <1>3. PICK x : x = [y EXCEPT !.at = "update.write", !.total = n]
    OBVIOUS
  <1>4. x \in Request /\ x.at = "update.write" /\ x.claim = y.claim /\ x.list = y.list
        /\ x.old = y.old /\ x.total = n
    BY <1>3 DEF Request
  <1>5. Continue(p, x)
    BY <1>1, <1>2, <1>3 DEF UpdateSum
  <1> QED BY <1>1, <1>2, <1>4, <1>5 DEF UpdateSum

(* The links of a new claim.                                                *)
LEMMA CreateLinkGives ==
  ASSUME Typed, NEW p \in Workers, CreateLink(p)
  PROVE  \E c \in Claims, T \in SUBSET Existing :
           /\ c = w[p].claim /\ claim[c] # Absent
           /\ T = (IF w[p].list = {} THEN Existing ELSE w[p].list) \cap Existing
           /\ inc' \in Rows
           /\ \A i \in T : /\ inc'[i] \in Row /\ inc'[i].claim = c /\ inc'[i].status = inc[i].status
                           /\ inc'[i].nominal = inc[i].nominal
           /\ \A i \in Incentives : i \notin T => inc'[i] = inc[i]
           /\ odd' = odd \cup ({inc[i].claim : i \in T} \ {None, c})
  <1>1. PICK c \in Claims : c = w[p].claim /\ claim[c] # Absent
    BY DEF Typed, RequestOK, CreateLink
  <1>2. PICK T : T = IF w[p].list = {} THEN Existing ELSE w[p].list \cap Existing
    OBVIOUS
  <1>3. T \subseteq Existing /\ \A i \in T : i \in Incentives /\ inc[i] \in Row
    BY <1>2, Rest, RowThere DEF Existing
  <1>4. /\ inc' = [i \in Incentives |-> IF i \in T THEN [inc[i] EXCEPT !.claim = c] ELSE inc[i]]
        /\ odd' = odd \cup ({inc[i].claim : i \in T \cap Existing} \ {None, c})
    BY <1>1, <1>2 DEF CreateLink, Disturb
  <1>5. \A i \in T : /\ inc'[i] \in Row /\ inc'[i].claim = c /\ inc'[i].status = inc[i].status
                     /\ inc'[i].nominal = inc[i].nominal
    BY <1>3, <1>4, RowEdits
  <1>6. inc' \in Rows
    BY <1>3, <1>4, <1>5, Rest DEF Rows
  <1>7. T \cap Existing = T
    BY <1>3
  <1> QED BY <1>1, <1>2, <1>3, <1>4, <1>5, <1>6, <1>7

(* What the transaction of an update does to the rows, by whether it adds.  *)
ClaimRewritten(p, c) ==
  /\ c = w[p].claim /\ claim[c] # Absent
  /\ claim' \in [Claims -> Claim \cup {Absent}] /\ claim'[c] # Absent
  /\ claim'[c].total = w[p].total
  /\ \A d \in Claims : d # c => claim'[d] = claim[d]
RowsRewritten(c, L, O) ==
  /\ inc' \in Rows
  /\ \A i \in Incentives : ~There(i) => inc'[i] = inc[i]
  /\ \A i \in Existing :
       /\ inc'[i] \in Row /\ inc'[i].nominal = inc[i].nominal
       /\ inc'[i].status \in {inc[i].status, "DITOLAK"}
       /\ inc'[i].claim = IF L \subseteq O THEN inc[i].claim
                         ELSE IF i \in L \ O THEN c
                         ELSE IF i \in O \ L THEN None ELSE inc[i].claim
Rewritten(p, c, L, O) ==
  /\ w[p].at = "update.write" /\ L = w[p].list /\ O = w[p].old
  /\ ClaimRewritten(p, c)
  /\ RowsRewritten(c, L, O)
  /\ odd' = odd \cup ({inc[i].claim : i \in (L \ O) \cap Existing} \ {None, c})
                \cup (IF L \subseteq O /\ L # {} /\ L # O THEN {c} ELSE {})

LEMMA UpdateWriteGives ==
  ASSUME Typed, NEW p \in Workers, UpdateWrite(p)
  PROVE  \E c \in Claims, L \in SUBSET Incentives, O \in SUBSET Incentives : Rewritten(p, c, L, O)
  <1>1. PICK c \in Claims : c = w[p].claim /\ claim[c] # Absent
    BY DEF Typed, RequestOK, UpdateWrite
  <1>2. PICK r \in Request : r = w[p]
    BY Rest
  <1>3. PICK L \in SUBSET Incentives, O \in SUBSET Incentives : L = r.list /\ O = r.old
    BY DEF Request
  <1>4. r.status \in {"open", "rejected"} /\ r.total \in Nat /\ r.claim = c
    BY <1>1, <1>2 DEF Request
  <1>5. PICK z : z = [status |-> r.status, total |-> r.total]
    OBVIOUS
  <1>6. z \in Claim /\ z.total = r.total
    BY <1>4, <1>5 DEF Claim
  <1>7. claim' = [claim EXCEPT ![c] = z]
    BY <1>2, <1>4, <1>5 DEF UpdateWrite
  <1>8. claim' \in [Claims -> Claim \cup {Absent}] /\ claim'[c] # Absent /\ claim'[c] = z
        /\ \A d \in Claims : d # c => claim'[d] = claim[d]
    BY <1>6, <1>7, Rest, Shapes
  <1>9. inc' = [i \in Incentives |-> IF There(i) THEN Relinked(r, i) ELSE inc[i]]
    BY <1>2 DEF UpdateWrite
  <1>10. L \ O = {} <=> L \subseteq O
    OBVIOUS
  <1>11. odd' = odd \cup ({inc[i].claim : i \in (L \ O) \cap Existing} \ {None, c})
                    \cup (IF L \subseteq O /\ L # {} /\ L # O THEN {c} ELSE {})
    BY <1>2, <1>3, <1>4, <1>10 DEF UpdateWrite
  <1>12. ASSUME NEW i \in Existing
         PROVE  /\ inc'[i] \in Row /\ inc'[i].nominal = inc[i].nominal
                /\ inc'[i].status \in {inc[i].status, "DITOLAK"}
                /\ inc'[i].claim = IF L \subseteq O THEN inc[i].claim
                                   ELSE IF i \in L \ O THEN c
                                   ELSE IF i \in O \ L THEN None ELSE inc[i].claim
    <2>1. i \in Incentives /\ There(i) /\ inc[i] \in Row
      BY Rest, RowThere DEF Existing
    <2>2. PICK m : m = IF r.status = "rejected" /\ inc[i].claim = r.claim
                       THEN [inc[i] EXCEPT !.status = "DITOLAK"] ELSE inc[i]
      OBVIOUS
    <2>3. m \in Row /\ m.nominal = inc[i].nominal /\ m.claim = inc[i].claim
          /\ m.status \in {inc[i].status, "DITOLAK"}
      BY <2>1, <2>2, RowEdits, Shapes DEF Statuses
    <2>4. Relinked(r, i) = IF L \ O = {} THEN m
                           ELSE IF i \in L \ O THEN [m EXCEPT !.claim = c]
                           ELSE IF i \in O \ L THEN [m EXCEPT !.claim = None] ELSE m
      BY <1>3, <1>4, <2>2 DEF Relinked
    <2>5. inc'[i] = Relinked(r, i)
      BY <1>9, <2>1
    <2>6. \A d \in Claims \cup {None} :
            /\ [m EXCEPT !.claim = d] \in Row /\ [m EXCEPT !.claim = d].status = m.status
            /\ [m EXCEPT !.claim = d].claim = d
            /\ [m EXCEPT !.claim = d].nominal = m.nominal
      BY <2>3, RowEdits
    <2> QED BY <1>10, <2>3, <2>4, <2>5, <2>6
  <1>13. \A i \in Incentives : ~There(i) => inc'[i] = inc[i]
    BY <1>9
  <1>14. inc' \in Rows
    <2>1. \A i \in Incentives : inc'[i] \in Row \cup {Absent, Gone}
      BY <1>12, <1>13, Rest DEF Rows, Existing
    <2> QED BY <2>1, <1>9 DEF Rows
  <1>15. w[p].at = "update.write"
    BY DEF UpdateWrite
  <1>16. ClaimRewritten(p, c)
    BY <1>1, <1>2, <1>6, <1>8 DEF ClaimRewritten
  <1>17. RowsRewritten(c, L, O)
    BY <1>12, <1>13, <1>14 DEF RowsRewritten
  <1>18. Rewritten(p, c, L, O)
    BY <1>2, <1>3, <1>11, <1>15, <1>16, <1>17 DEF Rewritten
  <1> QED BY <1>1, <1>3, <1>18

(* What a row of the workbook, a correction and a deletion do.              *)
LEMMA PayWriteGives ==
  ASSUME Typed, NEW p \in Workers, PayWrite(p)
  PROVE  \E S \in SUBSET Existing :
           /\ w[p].at = "pay"
           /\ S = {w[p].id} \cap Existing
           /\ inc' = [i \in Incentives |->
                        IF i \in S THEN [inc[i] EXCEPT !.status = "DIBAYARKAN"] ELSE inc[i]]
  <1>1. PICK j \in Incentives : j = w[p].id
    BY DEF Typed, RequestOK, PayWrite
  <1>2. PICK S : S = {j} \cap Existing
    OBVIOUS
  <1>3. j \in Existing <=> There(j)
    BY DEF Existing
  <1>4. inc' = [i \in Incentives |->
                  IF i \in S THEN [inc[i] EXCEPT !.status = "DIBAYARKAN"] ELSE inc[i]]
    <2>1. inc' = IF There(j) THEN [inc EXCEPT ![j] = [@ EXCEPT !.status = "DIBAYARKAN"]] ELSE inc
      BY <1>1 DEF PayWrite
    <2>2. inc \in [Incentives -> Row \cup {Absent, Gone}]
      BY Rest DEF Rows
    <2> QED BY <1>2, <1>3, <2>1, <2>2
  <1> QED BY <1>1, <1>2, <1>4 DEF PayWrite

LEMMA RedateWriteGives ==
  ASSUME Typed, NEW p \in Workers, NEW n \in Amounts, RedateWrite(p, n)
  PROVE  \E j \in Incentives :
           /\ w[p].at = "redate" /\ j = w[p].id
           /\ inc' \in Rows
           /\ \A i \in Incentives :
                /\ i # j => inc'[i] = inc[i]
                /\ inc'[i].status = inc[i].status
                /\ There(i)' <=> There(i)
           /\ \A i \in Existing : inc'[i].claim = inc[i].claim
           /\ odd' = odd \cup ({inc[i].claim : i \in {j} \cap Existing} \ {None})
  <1>1. PICK j \in Incentives : j = w[p].id
    BY DEF Typed, RequestOK, RedateWrite
  <1>2. inc \in [Incentives -> Row \cup {Absent, Gone}]
    BY Rest DEF Rows
  <1>3. inc' = IF There(j) THEN [inc EXCEPT ![j] = [@ EXCEPT !.nominal = n]] ELSE inc
    BY <1>1 DEF RedateWrite
  <1>4. odd' = odd \cup ({inc[i].claim : i \in {j} \cap Existing} \ {None})
    BY <1>1 DEF RedateWrite, Disturb
  <1>5. CASE There(j)
    <2>1. inc[j] \in Row
      BY <1>5, Rest, RowThere
    <2>2. PICK x \in Row : x = [inc[j] EXCEPT !.nominal = n]
      BY <2>1, RowEdits
    <2>3. x.status = inc[j].status /\ x.claim = inc[j].claim
      BY <2>1, <2>2, RowEdits
    <2>4. inc' = [inc EXCEPT ![j] = x]
      BY <1>3, <1>5, <2>2
    <2>5. inc' \in Rows /\ \A i \in Incentives : i # j => inc'[i] = inc[i]
      BY <1>2, <2>4 DEF Rows
    <2>6. inc'[j] = x
      BY <1>2, <2>4
    <2>7. \A i \in Incentives : inc'[i].status = inc[i].status
      BY <2>3, <2>5, <2>6
    <2>8. \A i \in Incentives : There(i)' <=> There(i)
      BY <2>7 DEF There
    <2>9. \A i \in Existing : inc'[i].claim = inc[i].claim
      BY <2>3, <2>5, <2>6 DEF Existing
    <2> QED BY <1>1, <1>4, <2>5, <2>7, <2>8, <2>9 DEF RedateWrite
  <1>6. CASE ~There(j)
    <2>1. inc' = inc
      BY <1>3, <1>6
    <2>2. inc' \in Rows
      BY <1>2, <2>1 DEF Rows
    <2>3. \A i \in Incentives : There(i)' <=> There(i)
      BY <2>1 DEF There
    <2> QED BY <1>1, <1>4, <2>1, <2>2, <2>3 DEF RedateWrite
  <1> QED BY <1>5, <1>6

LEMMA DeleteGives ==
  ASSUME Typed, NEW j \in Incentives, Delete(j)
  PROVE  /\ j \in Existing
         /\ inc' \in Rows /\ inc'[j] = Gone /\ ~There(j)'
         /\ \A i \in Incentives : i # j => inc'[i] = inc[i] /\ (There(i)' <=> There(i))
         /\ odd' = odd \cup ({inc[i].claim : i \in {j}} \ {None})
  <1>1. inc \in [Incentives -> Row \cup {Absent, Gone}]
    BY Rest DEF Rows
  <1>2. j \in Existing
    BY DEF Delete, Existing
  <1>3. {j} \cap Existing = {j}
    BY <1>2
  <1>4. inc' \in Rows /\ inc'[j] = Gone /\ \A i \in Incentives : i # j => inc'[i] = inc[i]
    BY <1>1 DEF Delete, Rows
  <1>5. ~There(j)' /\ \A i \in Incentives : i # j => (There(i)' <=> There(i))
    BY <1>4, Shapes DEF There
  <1> QED BY <1>2, <1>3, <1>4, <1>5 DEF Delete, Disturb

LEMMA EarnGives ==
  ASSUME Typed, NEW j \in Incentives, NEW n \in Amounts, Earn(j, n)
  PROVE  /\ j \notin Existing /\ inc[j].status = "absent"
         /\ inc' \in Rows /\ inc'[j].status = "POTENTIAL" /\ inc'[j].claim = None
         /\ \A i \in Incentives : i # j => inc'[i] = inc[i] /\ (There(i)' <=> There(i))
  <1>1. inc \in [Incentives -> Row \cup {Absent, Gone}]
    BY Rest DEF Rows
  <1>2. j \notin Existing /\ inc[j].status = "absent"
    BY Shapes DEF Earn, Existing, There
  <1>3. PICK x \in Row : x = Earned(n) /\ x.status = "POTENTIAL" /\ x.claim = None
    BY Shapes
  <1>4. inc' = [inc EXCEPT ![j] = x]
    BY <1>3 DEF Earn
  <1>5. inc' \in Rows /\ inc'[j] = x /\ \A i \in Incentives : i # j => inc'[i] = inc[i]
    BY <1>1, <1>4 DEF Rows
  <1>6. \A i \in Incentives : i # j => (There(i)' <=> There(i))
    BY <1>5 DEF There
  <1> QED BY <1>2, <1>3, <1>5, <1>6

-----------------------------------------------------------------------------
(* Types are kept.                                                          *)
StatusCalm ==
  \A i \in Incentives : \/ inc'[i].status \in {inc[i].status, "LOST", "DITOLAK", "gone"}
                        \/ inc[i].status = "absent"
LinksKnown ==
  \A i \in Existing' : \/ i \in Existing /\ inc'[i].claim = inc[i].claim
                       \/ inc'[i].claim = None
                       \/ inc'[i].claim \in Claims /\ claim[inc'[i].claim] # Absent
ClaimsStay == \A c \in Claims : claim[c] # Absent => claim'[c] # Absent

LEMMA Unlinked ==
  ASSUME Typed, ClaimsStay, LinksKnown
  PROVE  \A c \in Claims : claim'[c] = Absent => Linked(c)' = {}
  <1> SUFFICES ASSUME NEW c \in Claims, claim'[c] = Absent, NEW i \in Linked(c)' PROVE FALSE
    OBVIOUS
  <1>1. claim[c] = Absent /\ Linked(c) = {}
    BY Rest DEF ClaimsStay
  <1>2. i \in Existing' /\ inc'[i].claim = c
    BY DEF Linked
  <1>3. i \in Existing /\ inc[i].claim = c
    BY <1>1, <1>2, NoneAssumption DEF LinksKnown
  <1> QED BY <1>1, <1>3 DEF Linked

LEMMA SameMoneyKnown ==
  ASSUME SameMoney
  PROVE  LinksKnown
  BY SameSums DEF SameMoney, LinksKnown

LEMMA StepTyped ==
  ASSUME Typed, NEW p \in Workers, NEW x \in Request,
         \A r \in Workers : w'[r] = IF r = p THEN x ELSE w[r],
         w' \in [Workers -> Request], x.at # "pay",
         x.at \in {"create.link", "update.sum", "update.write"} =>
           x.claim \in Claims /\ claim'[x.claim] # Absent,
         x.at = "redate" => x.id \in Incentives,
         inc' \in Rows, StatusCalm, LinksKnown, ClaimsStay,
         claim' \in [Claims -> Claim \cup {Absent}], ended' = ended, job' = job,
         events' \in 0..MaxEvents, odd' \subseteq Claims, clash' \in BOOLEAN
  PROVE  Typed'
  <1>1. \A r \in Workers : w'[r] = w[r] \/ RequestOK(r)'
    <2>1. RequestOK(p)'
      BY DEF RequestOK
    <2> QED BY <2>1
  <1>2. Calm
    <2>1. \A r \in Workers : w'[r].at = "pay" => w'[r] = w[r]
      OBVIOUS
    <2>2. \A i \in Incentives :
            /\ inc[i].status \notin {"POTENTIAL", "absent"} => inc'[i].status \notin {"POTENTIAL", "absent"}
            /\ inc[i].status \in NotPutUp => inc'[i].status \in NotPutUp
      BY DEF StatusCalm, NotPutUp
    <2> QED BY <2>1, <2>2 DEF Calm
  <1> QED BY <1>1, <1>2, CalmPays, Unlinked, Rest, TypedFrom DEF ClaimsStay

LEMMA IdleTyped ==
  ASSUME Typed, w' = w, inc' \in Rows, StatusCalm, LinksKnown, claim' = claim,
         ended' \subseteq Orders, job' = job,
         events' \in 0..MaxEvents, odd' \subseteq Claims, clash' \in BOOLEAN
  PROVE  Typed'
  <1>1. Calm
    <2>1. \A i \in Incentives :
            /\ inc[i].status \notin {"POTENTIAL", "absent"} => inc'[i].status \notin {"POTENTIAL", "absent"}
            /\ inc[i].status \in NotPutUp => inc'[i].status \in NotPutUp
      BY DEF StatusCalm, NotPutUp
    <2> QED BY <2>1 DEF Calm
  <1>2. ClaimsStay
    BY DEF ClaimsStay
  <1>3. w' \in [Workers -> Request] /\ claim' \in [Claims -> Claim \cup {Absent}]
        /\ job' \in [at : {"idle", "write"}, list : SUBSET Incentives]
    BY Rest
  <1> QED BY <1>1, <1>2, <1>3, CalmPays, Unlinked, TypedFrom DEF ClaimsStay

LEMMA SameRows ==
  ASSUME Typed, inc' = inc
  PROVE  inc' \in Rows /\ StatusCalm /\ LinksKnown /\ SameMoney
  <1>1. inc' \in Rows
    BY Rest DEF Rows
  <1> QED BY <1>1, SameMoneyKept, SameMoneyKnown DEF StatusCalm

LEMMA CreateReadTyped ==
  ASSUME Typed, NEW p \in Workers, NEW S \in SUBSET Incentives, CreateRead(p, S)
  PROVE  Typed'
  <1>1. PICK x \in Request : Begin(p, x) /\ x.at = "create.claim"
    BY CreateReadGives
  <1>2. inc' = inc /\ claim' = claim /\ ended' = ended /\ job' = job /\ odd' = odd
    BY DEF CreateRead
  <1>3. ClaimsStay /\ claim' \in [Claims -> Claim \cup {Absent}] /\ odd' \subseteq Claims
    BY <1>2, Rest DEF ClaimsStay
  <1> QED BY <1>1, <1>2, <1>3, BeginGives, SameRows, StepTyped

LEMMA UpdateReadTyped ==
  ASSUME Typed, NEW p \in Workers, NEW c \in Claims, NEW S \in SUBSET Incentives,
         NEW s \in {"open", "rejected"}, UpdateRead(p, c, S, s)
  PROVE  Typed'
  <1>1. PICK x \in Request : Begin(p, x) /\ x.at = "update.sum" /\ x.claim = c
    BY UpdateReadGives
  <1>2. inc' = inc /\ claim' = claim /\ ended' = ended /\ job' = job /\ odd' = odd
        /\ claim[c] # Absent
    BY DEF UpdateRead
  <1>3. ClaimsStay /\ claim' \in [Claims -> Claim \cup {Absent}] /\ odd' \subseteq Claims
        /\ x.claim \in Claims /\ claim'[x.claim] # Absent
    BY <1>1, <1>2, Rest DEF ClaimsStay
  <1> QED BY <1>1, <1>2, <1>3, BeginGives, SameRows, StepTyped

LEMMA CreateClaimTyped ==
  ASSUME Typed, NEW p \in Workers, NEW c \in Claims, CreateClaim(p, c)
  PROVE  Typed'
  <1>1. PICK x \in Request : Continue(p, x) /\ x.at = "create.link" /\ x.claim = c
    BY CreateClaimGives
  <1>2. inc' = inc /\ ended' = ended /\ job' = job /\ odd' = odd
    BY DEF CreateClaim
  <1>3. ClaimsStay /\ claim' \in [Claims -> Claim \cup {Absent}] /\ odd' \subseteq Claims
        /\ x.claim \in Claims /\ claim'[x.claim] # Absent
    BY <1>1, <1>2, CreateClaimGives, Rest DEF ClaimsStay
  <1> QED BY <1>1, <1>2, <1>3, ContinueGives, SameRows, StepTyped

LEMMA UpdateSumTyped ==
  ASSUME Typed, NEW p \in Workers, UpdateSum(p)
  PROVE  Typed'
  <1>1. PICK x \in Request : Continue(p, x) /\ x.at = "update.write" /\ x.claim = w[p].claim
    BY UpdateSumGives
  <1>2. inc' = inc /\ claim' = claim /\ ended' = ended /\ job' = job /\ odd' = odd
    BY DEF UpdateSum
  <1>3. w[p].claim \in Claims /\ claim[w[p].claim] # Absent
    BY UpdateSumGives DEF Typed, RequestOK
  <1>4. ClaimsStay /\ claim' \in [Claims -> Claim \cup {Absent}] /\ odd' \subseteq Claims
        /\ x.claim \in Claims /\ claim'[x.claim] # Absent
    BY <1>1, <1>2, <1>3, Rest DEF ClaimsStay
  <1> QED BY <1>1, <1>2, <1>4, ContinueGives, SameRows, StepTyped

LEMMA FinishGives ==
  ASSUME Typed, NEW p \in Workers, Finish(p)
  PROVE  /\ w' \in [Workers -> Request]
         /\ \A r \in Workers : w'[r] = IF r = p THEN Idle ELSE w[r]
         /\ events' \in 0..MaxEvents /\ clash' = clash /\ clash' \in BOOLEAN
  BY Shapes, ContinueGives DEF Finish

LEMMA ClaimOfRow ==
  ASSUME Typed, NEW i \in Existing
  PROVE  inc[i].claim \in Claims \cup {None}
  BY Rest, RowThere, Shapes DEF Existing

LEMMA CreateLinkTyped ==
  ASSUME Typed, NEW p \in Workers, CreateLink(p)
  PROVE  Typed'
  <1>1. PICK c \in Claims, T \in SUBSET Existing :
           /\ claim[c] # Absent
           /\ inc' \in Rows
           /\ \A i \in T : inc'[i].claim = c /\ inc'[i].status = inc[i].status
           /\ \A i \in Incentives : i \notin T => inc'[i] = inc[i]
           /\ odd' = odd \cup ({inc[i].claim : i \in T} \ {None, c})
    BY CreateLinkGives, Zenon
  <1>2. StatusCalm
    BY <1>1 DEF StatusCalm
  <1>3. LinksKnown
    BY <1>1 DEF LinksKnown, Existing, There
  <1>4. odd' \subseteq Claims
    BY <1>1, ClaimOfRow, Rest
  <1>5. Finish(p) /\ claim' = claim /\ ended' = ended /\ job' = job
    BY DEF CreateLink
  <1>6. ClaimsStay /\ claim' \in [Claims -> Claim \cup {Absent}]
    BY <1>5, Rest DEF ClaimsStay
  <1> QED BY <1>1, <1>2, <1>3, <1>4, <1>5, <1>6, FinishGives, Shapes, StepTyped

LEMMA UpdateWriteTyped ==
  ASSUME Typed, NEW p \in Workers, UpdateWrite(p)
  PROVE  Typed'
  <1>1. PICK c \in Claims, L \in SUBSET Incentives, O \in SUBSET Incentives : Rewritten(p, c, L, O)
    BY UpdateWriteGives
  <1>2. ClaimRewritten(p, c) /\ RowsRewritten(c, L, O)
    BY <1>1 DEF Rewritten
  <1>3. /\ inc' \in Rows
        /\ \A i \in Incentives : ~There(i) => inc'[i] = inc[i]
        /\ \A i \in Existing : /\ inc'[i].status \in {inc[i].status, "DITOLAK"}
                               /\ inc'[i].claim \in {inc[i].claim, None, c}
    BY <1>2 DEF RowsRewritten
  <1>4. StatusCalm
    BY <1>3 DEF StatusCalm, Existing
  <1>5. LinksKnown
    BY <1>2, <1>3 DEF LinksKnown, Existing, There, ClaimRewritten
  <1>6. odd' \subseteq Claims
    BY <1>1, ClaimOfRow, Rest DEF Rewritten
  <1>7. Finish(p) /\ ended' = ended /\ job' = job
    BY DEF UpdateWrite
  <1>8. ClaimsStay /\ claim' \in [Claims -> Claim \cup {Absent}]
    BY <1>2 DEF ClaimsStay, ClaimRewritten
  <1> QED BY <1>3, <1>4, <1>5, <1>6, <1>7, <1>8, FinishGives, Shapes, StepTyped

LEMMA RedateReadTyped ==
  ASSUME Typed, NEW p \in Workers, NEW i \in Incentives, RedateRead(p, i), ~PayRead(p, i)
  PROVE  Typed'
  <1>1. PICK x \in Request : Begin(p, x) /\ x.id = i /\ x.at = "redate"
    BY RowReadGives
  <1>2. inc' = inc /\ claim' = claim /\ ended' = ended /\ job' = job /\ odd' = odd
    BY DEF RedateRead
  <1>3. ClaimsStay /\ claim' \in [Claims -> Claim \cup {Absent}] /\ odd' \subseteq Claims
    BY <1>2, Rest DEF ClaimsStay
  <1> QED BY <1>1, <1>2, <1>3, BeginGives, SameRows, StepTyped

LEMMA RedateWriteTyped ==
  ASSUME Typed, NEW p \in Workers, NEW n \in Amounts, RedateWrite(p, n)
  PROVE  Typed'
  <1>1. PICK j \in Incentives :
           /\ inc' \in Rows
           /\ \A i \in Incentives : inc'[i].status = inc[i].status /\ (There(i)' <=> There(i))
           /\ \A i \in Existing : inc'[i].claim = inc[i].claim
           /\ odd' = odd \cup ({inc[i].claim : i \in {j} \cap Existing} \ {None})
    BY RedateWriteGives, Zenon
  <1>2. StatusCalm
    BY <1>1 DEF StatusCalm
  <1>3. LinksKnown
    BY <1>1 DEF LinksKnown, Existing
  <1>4. odd' \subseteq Claims
    BY <1>1, ClaimOfRow, Rest
  <1>5. Finish(p) /\ claim' = claim /\ ended' = ended /\ job' = job
    BY DEF RedateWrite
  <1>6. ClaimsStay /\ claim' \in [Claims -> Claim \cup {Absent}]
    BY <1>5, Rest DEF ClaimsStay
  <1> QED BY <1>1, <1>2, <1>3, <1>4, <1>5, <1>6, FinishGives, Shapes, StepTyped

LEMMA DeleteTyped ==
  ASSUME Typed, NEW j \in Incentives, Delete(j)
  PROVE  Typed'
  <1>1. StatusCalm
    BY DeleteGives, Shapes DEF StatusCalm
  <1>2. LinksKnown
    BY DeleteGives DEF LinksKnown, Existing
  <1>3. odd' \subseteq Claims
    BY DeleteGives, ClaimOfRow, Rest
  <1>4. Count /\ clash' = (clash \/ Busy) /\ UNCHANGED <<claim, ended, w, job>>
    BY DEF Delete
  <1>5. events' \in 0..MaxEvents /\ clash' \in BOOLEAN /\ ended' \subseteq Orders
    BY <1>4, CountEvents, Rest
  <1> QED BY <1>1, <1>2, <1>3, <1>4, <1>5, DeleteGives, IdleTyped

LEMMA EarnTyped ==
  ASSUME Typed, NEW j \in Incentives, NEW n \in Amounts, Earn(j, n)
  PROVE  Typed'
  <1>1. StatusCalm
    BY EarnGives DEF StatusCalm
  <1>2. LinksKnown
    BY EarnGives DEF LinksKnown, Existing
  <1>4. Count /\ clash' = (clash \/ Busy) /\ UNCHANGED <<claim, ended, w, job, odd>>
    BY DEF Earn
  <1>5. events' \in 0..MaxEvents /\ clash' \in BOOLEAN /\ ended' \subseteq Orders
        /\ odd' \subseteq Claims
    BY <1>4, CountEvents, Rest
  <1> QED BY <1>1, <1>2, <1>4, <1>5, EarnGives, IdleTyped

(* What is paid was put up, and the job has listed nothing that is.         *)
LEMMA PayReadTyped ==
  ASSUME Typed, NEW p \in Workers, NEW i \in Incentives, PayRead(p, i)
  PROVE  Typed'
  <1>1. PICK x \in Request : Begin(p, x) /\ x.id = i /\ x.at = "pay"
    BY RowReadGives
  <1>2. inc[i].status = "PENGAJUAN"
    BY RowReadGives
  <1>3. inc' = inc /\ claim' = claim /\ ended' = ended /\ job' = job /\ odd' = odd
    BY DEF PayRead
  <1>4. \A r \in Workers : w'[r] = IF r = p THEN x ELSE w[r]
    BY <1>1, BeginGives
  <1>5. i \notin job.list
    BY <1>2 DEF Typed, Listed, NotPutUp
  <1>6. Listed'
    BY <1>1, <1>3, <1>4, <1>5 DEF Typed, Listed
  <1>7. \A r \in Workers : Paying(r)'
    BY <1>1, <1>2, <1>3, <1>4 DEF Typed, Paying
  <1>8. \A r \in Workers : w'[r] = w[r] \/ RequestOK(r)'
    BY <1>1, <1>4 DEF RequestOK
  <1>9. ClaimsStay
    BY <1>3 DEF ClaimsStay
  <1>10. claim' \in [Claims -> Claim \cup {Absent}] /\ odd' \subseteq Claims /\ ended' \subseteq Orders
         /\ job' \in [at : {"idle", "write"}, list : SUBSET Incentives]
    BY <1>3, Rest
  <1> QED BY <1>1, <1>3, <1>6, <1>7, <1>8, <1>9, <1>10, BeginGives, SameRows, Unlinked,
             TypedFrom DEF ClaimsStay

LEMMA PayWriteTyped ==
  ASSUME Typed, NEW p \in Workers, PayWrite(p)
  PROVE  Typed'
  <1>1. PICK S \in SUBSET Existing :
           /\ w[p].at = "pay" /\ S = {w[p].id} \cap Existing
           /\ inc' = [i \in Incentives |->
                        IF i \in S THEN [inc[i] EXCEPT !.status = "DIBAYARKAN"] ELSE inc[i]]
    BY PayWriteGives
  <1>2. /\ inc' \in Rows /\ SameMoney
        /\ \A i \in S : inc'[i].status = "DIBAYARKAN"
        /\ \A i \in Incentives : i \notin S => inc'[i] = inc[i]
    <2>1. inc \in Rows /\ "DIBAYARKAN" \in Statuses /\ S \subseteq Existing
      BY Rest DEF Statuses
    <2>2. inc' = [i \in Incentives |->
                    IF i \in S THEN [inc[i] EXCEPT !.status = "DIBAYARKAN"] ELSE inc[i]]
      BY <1>1
    <2> QED BY <2>1, <2>2, Restatus
  <1>3. Finish(p) /\ claim' = claim /\ ended' = ended /\ job' = job /\ odd' = odd
    BY DEF PayWrite
  <1>4. \A r \in Workers : w'[r] = IF r = p THEN Idle ELSE w[r]
    BY <1>3, FinishGives
  <1>5. Listed'
    <2> SUFFICES ASSUME NEW i \in job.list
                 PROVE  /\ inc'[i].status \in NotPutUp
                        /\ \A r \in Workers : w'[r].at = "pay" => w'[r].id # i
      BY <1>3 DEF Listed
    <2>1. i \in Incentives /\ w[p].id # i
      BY <1>1, Rest DEF Typed, Listed
    <2>2. inc'[i] = inc[i]
      BY <1>1, <1>2, <2>1
    <2> QED BY <1>4, <2>2, Shapes DEF Typed, Listed
  <1>6. \A r \in Workers : Paying(r)'
    <2> SUFFICES ASSUME NEW r \in Workers, w'[r].at = "pay"
                 PROVE  inc'[w'[r].id].status \notin {"POTENTIAL", "absent"}
      BY DEF Paying
    <2>1. w'[r] = w[r] /\ w[r].id \in Incentives /\ inc[w[r].id].status \notin {"POTENTIAL", "absent"}
      BY <1>4, Shapes DEF Typed, Paying, RequestOK
    <2> QED BY <1>2, <2>1
  <1>7. \A r \in Workers : w'[r] = w[r] \/ RequestOK(r)'
    BY <1>4, Shapes DEF RequestOK
  <1>8. ClaimsStay /\ LinksKnown
    BY <1>2, <1>3, SameMoneyKnown DEF ClaimsStay
  <1>9. claim' \in [Claims -> Claim \cup {Absent}] /\ odd' \subseteq Claims /\ ended' \subseteq Orders
         /\ job' \in [at : {"idle", "write"}, list : SUBSET Incentives]
    BY <1>3, Rest
  <1> QED BY <1>2, <1>3, <1>5, <1>6, <1>7, <1>8, <1>9, FinishGives, Unlinked, TypedFrom
          DEF ClaimsStay

LEMMA LoseTyped ==
  ASSUME Typed, NEW o \in Orders, Lose(o)
  PROVE  Typed' /\ SameMoney
  <1>1. PICK S \in SUBSET Existing : S = {i \in Existing : OrderOf[i] = o}
    OBVIOUS
  <1>2. inc' = [i \in Incentives |-> IF i \in S THEN [inc[i] EXCEPT !.status = "LOST"] ELSE inc[i]]
    BY <1>1 DEF Lose, Existing
  <1>3. /\ inc' \in Rows /\ SameMoney
        /\ \A i \in S : inc'[i].status = "LOST"
        /\ \A i \in Incentives : i \notin S => inc'[i] = inc[i]
    BY <1>2, Rest, Restatus DEF Statuses
  <1>4. StatusCalm
    BY <1>3 DEF StatusCalm
  <1>5. Count /\ UNCHANGED <<claim, ended, w, job, odd, clash>>
    BY DEF Lose
  <1>6. events' \in 0..MaxEvents /\ clash' \in BOOLEAN /\ ended' \subseteq Orders
        /\ odd' \subseteq Claims
    BY <1>5, CountEvents, Rest
  <1> QED BY <1>3, <1>4, <1>5, <1>6, SameMoneyKnown, IdleTyped

LEMMA MoveOrderTyped ==
  ASSUME Typed, NEW o \in Orders, MoveOrder(o)
  PROVE  Typed'
  <1>1. Count /\ UNCHANGED <<inc, claim, w, job, odd, clash>>
    BY DEF MoveOrder
  <1>2. events' \in 0..MaxEvents /\ clash' \in BOOLEAN /\ ended' \subseteq Orders
        /\ odd' \subseteq Claims
    BY <1>1, CountEvents, Rest DEF MoveOrder
  <1> QED BY <1>1, <1>2, SameRows, IdleTyped

LEMMA JobListTyped ==
  ASSUME Typed, JobList
  PROVE  Typed'
  <1>1. PICK D \in SUBSET Incentives : D = Due
    BY DEF Due, In, Existing
  <1>2. \A i \in D : i \in Incentives /\ inc[i].status = "POTENTIAL"
    BY <1>1 DEF Due, In, Existing
  <1>3. job' = [at |-> "write", list |-> D]
    BY <1>1 DEF JobList
  <1>4. UNCHANGED <<inc, claim, ended, w, events, odd, clash>>
    BY DEF JobList
  <1>5. Listed'
    <2>1. \A i \in D, r \in Workers : w[r].at = "pay" => w[r].id # i
      BY <1>2 DEF Typed, Paying
    <2> QED BY <1>2, <1>3, <1>4, <2>1 DEF Listed, NotPutUp
  <1>6. \A r \in Workers : Paying(r)'
    BY <1>4 DEF Typed, Paying
  <1>7. ClaimsStay
    BY <1>4 DEF ClaimsStay
  <1>8. claim' \in [Claims -> Claim \cup {Absent}] /\ odd' \subseteq Claims /\ ended' \subseteq Orders
        /\ job' \in [at : {"idle", "write"}, list : SUBSET Incentives]
        /\ w' \in [Workers -> Request] /\ events' \in 0..MaxEvents /\ clash' \in BOOLEAN
    BY <1>3, <1>4, Rest
  <1> QED BY <1>4, <1>5, <1>6, <1>7, <1>8, SameRows, Unlinked, TypedFrom DEF ClaimsStay

LEMMA JobWriteTyped ==
  ASSUME Typed, JobWrite
  PROVE  Typed' /\ SameMoney
  <1>1. PICK S \in SUBSET Existing : S = job.list \cap Existing
    OBVIOUS
  <1>2. inc' = [i \in Incentives |-> IF i \in S THEN [inc[i] EXCEPT !.status = "PENGAJUAN"] ELSE inc[i]]
    BY <1>1 DEF JobWrite, Existing
  <1>3. /\ inc' \in Rows /\ SameMoney
        /\ \A i \in S : inc'[i].status = "PENGAJUAN"
        /\ \A i \in Incentives : i \notin S => inc'[i] = inc[i]
    BY <1>2, Rest, Restatus DEF Statuses
  <1>4. job' = [at |-> "idle", list |-> {}] /\ UNCHANGED <<claim, ended, w, events, odd, clash>>
    BY DEF JobWrite
  <1>5. Listed'
    BY <1>4 DEF Listed
  <1>6. \A r \in Workers : Paying(r)'
    BY <1>3, <1>4 DEF Typed, Paying, RequestOK
  <1>7. ClaimsStay
    BY <1>4 DEF ClaimsStay
  <1>8. claim' \in [Claims -> Claim \cup {Absent}] /\ odd' \subseteq Claims /\ ended' \subseteq Orders
        /\ job' \in [at : {"idle", "write"}, list : SUBSET Incentives]
        /\ w' \in [Workers -> Request] /\ events' \in 0..MaxEvents /\ clash' \in BOOLEAN
    BY <1>4, Rest
  <1> QED BY <1>3, <1>4, <1>5, <1>6, <1>7, <1>8, SameMoneyKnown, Unlinked, TypedFrom DEF ClaimsStay

LEMMA TypedNext ==
  ASSUME Typed, [Next]_vars
  PROVE  Typed'
  <1>1. CASE UNCHANGED vars
    BY <1>1 DEF vars, Typed, TypeOK, RequestOK, Paying, Listed, Linked, Existing, There
  <1>2. ASSUME NEW i \in Incentives, Delete(i)
        PROVE  Typed'
    BY <1>2, DeleteTyped
  <1>3. ASSUME NEW i \in Incentives, NEW n \in Amounts, Earn(i, n)
        PROVE  Typed'
    BY <1>3, EarnTyped
  <1>4. ASSUME NEW o \in Orders, MoveOrder(o) \/ Lose(o)
        PROVE  Typed'
    BY <1>4, MoveOrderTyped, LoseTyped
  <1>5. ASSUME NEW p \in Workers, NEW S \in SUBSET Incentives, CreateRead(p, S)
        PROVE  Typed'
    BY <1>5, CreateReadTyped
  <1>6. ASSUME NEW p \in Workers, NEW S \in SUBSET Incentives, NEW c \in Claims,
               NEW status \in {"open", "rejected"}, UpdateRead(p, c, S, status)
        PROVE  Typed'
    BY <1>6, UpdateReadTyped
  <1>7. ASSUME NEW p \in Workers, NEW c \in Claims, CreateClaim(p, c)
        PROVE  Typed'
    BY <1>7, CreateClaimTyped
  <1>8. ASSUME NEW p \in Workers, CreateLink(p) \/ UpdateSum(p) \/ UpdateWrite(p) \/ PayWrite(p)
        PROVE  Typed'
    BY <1>8, CreateLinkTyped, UpdateSumTyped, UpdateWriteTyped, PayWriteTyped
  <1>9. ASSUME NEW p \in Workers, NEW i \in Incentives, PayRead(p, i) \/ RedateRead(p, i)
        PROVE  Typed'
    BY <1>9, PayReadTyped, RedateReadTyped
  <1>10. ASSUME NEW p \in Workers, NEW n \in Amounts, RedateWrite(p, n)
         PROVE  Typed'
    BY <1>10, RedateWriteTyped
  <1>11. CASE Job
    BY <1>11, JobListTyped, JobWriteTyped DEF Job
  <1>12. [Next]_vars <=> Next \/ UNCHANGED vars
    OBVIOUS
  <1> QED BY <1>1, <1>2, <1>3, <1>4, <1>5, <1>6, <1>7, <1>8, <1>9, <1>10, <1>11, <1>12 DEF Next

-----------------------------------------------------------------------------
(* Sums.                                                                    *)
LEMMA SumOn ==
  ASSUME NEW T, \A i \in T : i \in Existing' <=> i \in Existing,
         \A i \in T \cap Existing : inc'[i].nominal = inc[i].nominal
  PROVE  Sum(T)' = Sum(T)
  <1>1. T \cap Existing' = T \cap Existing
    OBVIOUS
  <1>2. [i \in T \cap Existing |-> inc[i].nominal] = [i \in T \cap Existing' |-> inc'[i].nominal]
    BY <1>1
  <1> QED BY <1>2 DEF Sum

LEMMA SumThere ==
  ASSUME NEW S
  PROVE  Sum(S \cap Existing) = Sum(S)
  <1>1. (S \cap Existing) \cap Existing = S \cap Existing
    OBVIOUS
  <1> QED BY <1>1 DEF Sum

(* A claim whose incentives and their amounts a step leaves alone.          *)
LEMMA Settled ==
  ASSUME NEW d \in Claims, Billed(d), ~Linking(d), claim'[d] = claim[d], odd \subseteq odd',
         d \notin odd' => /\ Linked(d)' = Linked(d)
                          /\ \A i \in Linked(d) : inc'[i].nominal = inc[i].nominal
  PROVE  Billed(d)'
  <1> SUFFICES ASSUME claim[d] # Absent, d \notin odd', NEW S \in SUBSET Incentives, S = Linked(d)'
               PROVE  claim[d].total = Sum(S)'
    BY Zenon DEF Billed
  <1>1. S = Linked(d) /\ \A i \in S : inc'[i].nominal = inc[i].nominal
    OBVIOUS
  <1>2. claim[d].total = Sum(S)
    BY <1>1 DEF Billed
  <1>3. \A i \in S : i \in Existing /\ i \in Existing'
    BY <1>1 DEF Linked
  <1>4. Sum(S)' = Sum(S)
    BY <1>1, <1>3, SumOn
  <1> QED BY <1>2, <1>4

-----------------------------------------------------------------------------
(* Billing is kept: steps that touch neither claims nor money.              *)
LEMMA NotAbout ==
  ASSUME NEW p \in Workers, w[p].at \notin AboutClaims
  PROVE  Knows(p) /\ \A c : ~(w[p].at = "create.link" /\ w[p].claim = c)
  <1>1. w[p].at \notin {"create.claim", "create.link", "update.sum", "update.write"}
    BY DEF AboutClaims
  <1> QED BY <1>1 DEF Knows

LEMMA NotAboutNext ==
  ASSUME NEW p \in Workers, w'[p].at \notin AboutClaims
  PROVE  Knows(p)' /\ \A c : ~(w'[p].at = "create.link" /\ w'[p].claim = c)
  <1>1. w'[p].at \notin {"create.claim", "create.link", "update.sum", "update.write"}
    BY DEF AboutClaims
  <1> QED BY <1>1 DEF Knows

LEMMA KnowsStill ==
  ASSUME NEW p \in Workers, Knows(p), w'[p] = w[p], SameMoney, claim' = claim
  PROVE  Knows(p)'
  <1>1. Existing' = Existing /\ (\A c : Linked(c)' = Linked(c)) /\ (\A S : Sum(S)' = Sum(S))
    BY SameSums
  <1>2. PICK y : y = w[p]
    OBVIOUS
  <1>3. w'[p] = y
    BY <1>2
  <1>4. ASSUME NEW S \in SUBSET Incentives
        PROVE  /\ /\ y.at \in {"create.claim", "create.link"}
                  /\ S = IF y.list = {} THEN Existing ELSE y.list
                  => y.total = Sum(S)
               /\ /\ y.at = "update.write"
                  /\ S = IF y.list = {} THEN y.old ELSE y.list
                  => y.total = Sum(S)
    BY <1>2 DEF Knows
  <1>5. ASSUME NEW c \in Claims, y.claim = c
        PROVE  /\ y.at = "create.link" => Linked(c) = {} /\ claim[c].total = y.total
               /\ y.at \in {"update.sum", "update.write"} => y.old = Linked(c)
    BY <1>2, <1>5 DEF Knows
  <1>6. y.at \in {"update.sum", "update.write"} => y.list \subseteq Existing
    BY <1>2 DEF Knows
  <1>7. ASSUME NEW S \in SUBSET Incentives
        PROVE  /\ /\ y.at \in {"create.claim", "create.link"}
                  /\ S = IF y.list = {} THEN Existing' ELSE y.list
                  => y.total = Sum(S)'
               /\ /\ y.at = "update.write"
                  /\ S = IF y.list = {} THEN y.old ELSE y.list
                  => y.total = Sum(S)'
    BY <1>1, <1>4
  <1>8. ASSUME NEW c \in Claims, y.claim = c
        PROVE  /\ y.at = "create.link" => Linked(c)' = {} /\ claim'[c].total = y.total
               /\ y.at \in {"update.sum", "update.write"} => y.old = Linked(c)'
    BY <1>1, <1>5, <1>8
  <1>9. y.at \in {"update.sum", "update.write"} => y.list \subseteq Existing'
    BY <1>1, <1>6
  <1> QED BY <1>3, <1>7, <1>8, <1>9, Zenon DEF Knows

LEMMA Quiet ==
  ASSUME Billing, SameMoney, claim' = claim, odd' = odd, ~clash' => ~clash,
         \A r \in Workers : w'[r] = w[r] \/ (w[r].at \notin AboutClaims /\ w'[r].at \notin AboutClaims)
  PROVE  Billing'
  <1> SUFFICES ASSUME ~clash
               PROVE  Alone' /\ (\A r \in Workers : Knows(r)') /\ (\A c \in Claims : Billed(c)')
    BY DEF Billing
  <1>0. Alone /\ (\A r \in Workers : Knows(r)) /\ (\A c \in Claims : Billed(c))
    BY DEF Billing
  <1>1. Alone'
    BY <1>0 DEF Alone
  <1>2. \A r \in Workers : Knows(r)'
    BY <1>0, KnowsStill, NotAboutNext
  <1>3. \A c : Linking(c)' <=> Linking(c)
    BY NotAbout, NotAboutNext DEF Linking
  <1>4. ASSUME NEW c \in Claims
        PROVE  Billed(c)'
    <2>1. CASE Linking(c)
      BY <1>3, <2>1 DEF Billed
    <2>2. CASE ~Linking(c)
      <3>1. Linked(c)' = Linked(c)
        BY SameSums
      <3>2. \A i \in Linked(c) : inc'[i].nominal = inc[i].nominal
        BY DEF SameMoney, Linked
      <3> QED BY <1>0, <2>2, <3>1, <3>2, Settled
    <2> QED BY <2>1, <2>2
  <1> QED BY <1>1, <1>2, <1>4

(* A request about claims begins: there was none, or they overlap.          *)
LEMMA BeginBilling ==
  ASSUME Billing, NEW p \in Workers, NEW x,
         \A r \in Workers : w'[r] = IF r = p THEN x ELSE w[r],
         inc' = inc, claim' = claim, odd' = odd, ~clash' => ~clash /\ ~Busy,
         ~clash' => Knows(p)', x.at # "create.link"
  PROVE  Billing'
  <1> SUFFICES ASSUME ~clash, ~Busy, Knows(p)'
               PROVE  Alone' /\ (\A r \in Workers : Knows(r)') /\ (\A c \in Claims : Billed(c)')
    BY DEF Billing
  <1>0. \A c \in Claims : Billed(c)
    BY DEF Billing
  <1>1. \A r \in Workers : w[r].at \notin AboutClaims
    BY DEF Busy
  <1>2. Alone'
    BY <1>1 DEF Alone
  <1>3. \A r \in Workers : Knows(r)'
    BY <1>1, NotAboutNext
  <1>4. SameMoney
    BY SameMoneyKept
  <1>5. ASSUME NEW c \in Claims
        PROVE  Billed(c)'
    <2>1. ~Linking(c)
      BY <1>1, NotAbout DEF Linking
    <2>2. Linked(c)' = Linked(c)
      BY <1>4, SameSums
    <2> QED BY <1>0, <2>1, <2>2, Settled
  <1> QED BY <1>2, <1>3, <1>5

(* The only request about claims goes on.                                   *)
LEMMA OnlyOne ==
  ASSUME Billing, ~clash, NEW p \in Workers, w[p].at \in AboutClaims, NEW x,
         \A r \in Workers : w'[r] = IF r = p THEN x ELSE w[r]
  PROVE  /\ \A r \in Workers : r # p => w[r].at \notin AboutClaims /\ Knows(r)'
         /\ Alone'
         /\ \A c : Linking(c) <=> w[p].at = "create.link" /\ w[p].claim = c
         /\ \A c : Linking(c)' <=> x.at = "create.link" /\ x.claim = c
  <1>1. \A r \in Workers : r # p => w[r].at \notin AboutClaims
    BY DEF Billing, Alone
  <1>2. \A r \in Workers : r # p => Knows(r)'
    BY <1>1, NotAboutNext
  <1>3. Alone'
    BY <1>1 DEF Alone
  <1>4. \A c : Linking(c) <=> w[p].at = "create.link" /\ w[p].claim = c
    BY <1>1, NotAbout DEF Linking
  <1>5. \A c : Linking(c)' <=> x.at = "create.link" /\ x.claim = c
    BY <1>1, NotAbout DEF Linking
  <1> QED BY <1>1, <1>2, <1>3, <1>4, <1>5

(* ... and ends.                                                            *)
LEMMA DoneBilling ==
  ASSUME Billing, NEW p \in Workers, w[p].at \in AboutClaims,
         \A r \in Workers : w'[r] = IF r = p THEN Idle ELSE w[r], clash' = clash,
         ~clash => \A d \in Claims : Billed(d)'
  PROVE  Billing'
  <1> SUFFICES ASSUME ~clash
               PROVE  Alone' /\ (\A r \in Workers : Knows(r)') /\ (\A c \in Claims : Billed(c)')
    BY DEF Billing
  <1>1. Alone' /\ \A r \in Workers : r # p => Knows(r)'
    BY OnlyOne
  <1>2. Knows(p)'
    BY Shapes, NotAboutNext DEF AboutClaims
  <1> QED BY <1>1, <1>2

-----------------------------------------------------------------------------
(* Billing is kept, action by action.                                       *)
LEMMA CreateReadBilling ==
  ASSUME Typed, Billing, NEW p \in Workers, NEW S \in SUBSET Incentives, CreateRead(p, S)
  PROVE  Billing'
  <1>1. PICK x \in Request : /\ Begin(p, x) /\ x.at = "create.claim" /\ x.list = S
                             /\ x.total = Sum(IF S = {} THEN Existing ELSE S)
    BY CreateReadGives
  <1>2. UNCHANGED <<inc, claim, odd>>
    BY DEF CreateRead
  <1>3. \A r \in Workers : w'[r] = IF r = p THEN x ELSE w[r]
    BY <1>1, BeginGives
  <1>4. ~clash' => ~clash /\ ~Busy
    BY <1>1, BeginGives DEF AboutClaims
  <1>5. Existing' = Existing /\ (\A R : Sum(R)' = Sum(R))
    BY <1>2, SameMoneyKept, SameSums
  <1>6. Knows(p)'
    <2>1. w'[p] = x
      BY <1>3
    <2>2. ASSUME NEW R \in SUBSET Incentives, R = IF x.list = {} THEN Existing' ELSE x.list
          PROVE  x.total = Sum(R)'
      BY <1>1, <1>5, <2>2
    <2> QED BY <1>1, <2>1, <2>2 DEF Knows
  <1> QED BY <1>1, <1>2, <1>3, <1>4, <1>6, BeginBilling

LEMMA UpdateReadBilling ==
  ASSUME Typed, Billing, NEW p \in Workers, NEW c \in Claims, NEW S \in SUBSET Incentives,
         NEW s \in {"open", "rejected"}, UpdateRead(p, c, S, s)
  PROVE  Billing'
  <1>1. PICK x \in Request : /\ Begin(p, x) /\ x.at = "update.sum" /\ x.claim = c /\ x.list = S
                             /\ x.old = Linked(c)
    BY UpdateReadGives
  <1>2. UNCHANGED <<inc, claim, odd>> /\ S \subseteq Existing
    BY DEF UpdateRead
  <1>3. \A r \in Workers : w'[r] = IF r = p THEN x ELSE w[r]
    BY <1>1, BeginGives
  <1>4. ~clash' => ~clash /\ ~Busy
    BY <1>1, BeginGives DEF AboutClaims
  <1>5. Existing' = Existing /\ Linked(c)' = Linked(c)
    BY <1>2, SameMoneyKept, SameSums
  <1>6. Knows(p)'
    BY <1>1, <1>2, <1>3, <1>5 DEF Knows
  <1> QED BY <1>1, <1>2, <1>3, <1>4, <1>6, BeginBilling

LEMMA RowReadBilling ==
  ASSUME Typed, Billing, NEW p \in Workers, NEW i \in Incentives, PayRead(p, i) \/ RedateRead(p, i)
  PROVE  Billing'
  <1>1. PICK x \in Request : Begin(p, x) /\ x.at \in {"pay", "redate"}
    BY RowReadGives
  <1>2. UNCHANGED <<inc, claim, odd>>
    BY DEF PayRead, RedateRead
  <1>3. \A r \in Workers : w'[r] = IF r = p THEN x ELSE w[r]
    BY <1>1, BeginGives
  <1>4. ~clash' => ~clash /\ (x.at \in AboutClaims => ~Busy)
    BY <1>1, BeginGives
  <1>5. CASE x.at = "pay"
    <2>1. \A r \in Workers :
            w'[r] = w[r] \/ (w[r].at \notin AboutClaims /\ w'[r].at \notin AboutClaims)
      BY <1>1, <1>3, <1>5, BeginGives, Shapes DEF AboutClaims
    <2> QED BY <1>2, <1>4, <2>1, SameMoneyKept, Quiet
  <1>6. CASE x.at = "redate"
    <2>1. Knows(p)'
      BY <1>3, <1>6 DEF Knows
    <2>2. ~clash' => ~clash /\ ~Busy
      BY <1>4, <1>6 DEF AboutClaims
    <2> QED BY <1>2, <1>3, <1>6, <2>1, <2>2, BeginBilling
  <1> QED BY <1>1, <1>5, <1>6

LEMMA CreateClaimBilling ==
  ASSUME Typed, Billing, NEW p \in Workers, NEW c \in Claims, CreateClaim(p, c)
  PROVE  Billing'
  <1>1. PICK x \in Request : /\ Continue(p, x) /\ x.at = "create.link" /\ x.claim = c
                             /\ x.list = w[p].list /\ x.total = w[p].total
    BY CreateClaimGives
  <1>2. /\ w[p].at = "create.claim" /\ claim[c] = Absent /\ claim'[c].total = w[p].total
        /\ \A d \in Claims : d # c => claim'[d] = claim[d]
    BY CreateClaimGives
  <1>3. inc' = inc /\ odd' = odd
    BY DEF CreateClaim
  <1>4. /\ \A r \in Workers : w'[r] = IF r = p THEN x ELSE w[r]
        /\ clash' = clash
    BY <1>1, ContinueGives
  <1> SUFFICES ASSUME ~clash
               PROVE  Alone' /\ (\A r \in Workers : Knows(r)') /\ (\A d \in Claims : Billed(d)')
    BY <1>4 DEF Billing
  <1>5. w[p].at \in AboutClaims
    BY <1>2 DEF AboutClaims
  <1>6. Existing' = Existing /\ (\A d : Linked(d)' = Linked(d)) /\ (\A R : Sum(R)' = Sum(R))
    BY <1>3, SameMoneyKept, SameSums
  <1>7. Knows(p)'
    <2>1. w'[p] = x
      BY <1>4
    <2>2. Linked(c)' = {} /\ claim'[c].total = x.total
      BY <1>1, <1>2, <1>6, Rest
    <2>3. \A R \in SUBSET Incentives :
            R = (IF w[p].list = {} THEN Existing ELSE w[p].list) => w[p].total = Sum(R)
      BY <1>2 DEF Billing, Knows
    <2>4. \A R \in SUBSET Incentives :
            R = (IF x.list = {} THEN Existing' ELSE x.list) => x.total = Sum(R)'
      BY <1>1, <1>6, <2>3
    <2> QED BY <1>1, <2>1, <2>2, <2>4 DEF Knows
  <1>8. ASSUME NEW d \in Claims
        PROVE  Billed(d)'
    <2>1. CASE d = c
      <3>1. Linking(c)'
        BY <1>1, <1>4, <1>5, OnlyOne
      <3> QED BY <2>1, <3>1 DEF Billed
    <2>2. CASE d # c
      <3>1. ~Linking(d)
        BY <1>2, <1>4, <1>5, OnlyOne
      <3>2. Billed(d)
        BY DEF Billing
      <3>3. claim'[d] = claim[d] /\ Linked(d)' = Linked(d)
        BY <1>2, <1>6, <2>2
      <3> QED BY <1>3, <3>1, <3>2, <3>3, Settled
    <2> QED BY <2>1, <2>2
  <1> QED BY <1>4, <1>5, <1>7, <1>8, OnlyOne

LEMMA UpdateSumBilling ==
  ASSUME Typed, Billing, NEW p \in Workers, UpdateSum(p)
  PROVE  Billing'
  <1>1. PICK x \in Request :
          /\ Continue(p, x) /\ x.at = "update.write" /\ x.claim = w[p].claim
          /\ x.list = w[p].list /\ x.old = w[p].old
          /\ x.total = Sum(IF x.list = {} THEN x.old ELSE x.list)
    BY UpdateSumGives
  <1>2. w[p].at = "update.sum" /\ w[p].claim \in Claims
    BY UpdateSumGives DEF Typed, RequestOK
  <1>3. inc' = inc /\ odd' = odd /\ claim' = claim
    BY DEF UpdateSum
  <1>4. /\ \A r \in Workers : w'[r] = IF r = p THEN x ELSE w[r]
        /\ clash' = clash
    BY <1>1, ContinueGives
  <1> SUFFICES ASSUME ~clash
               PROVE  Alone' /\ (\A r \in Workers : Knows(r)') /\ (\A d \in Claims : Billed(d)')
    BY <1>4 DEF Billing
  <1>5. w[p].at \in AboutClaims
    BY <1>2 DEF AboutClaims
  <1>6. Existing' = Existing /\ (\A d : Linked(d)' = Linked(d)) /\ (\A R : Sum(R)' = Sum(R))
    BY <1>3, SameMoneyKept, SameSums
  <1>7. Knows(p)'
    <2>1. w'[p] = x
      BY <1>4
    <2>2. Knows(p)
      BY DEF Billing
    <2>3. \A d \in Claims : w[p].claim = d => w[p].old = Linked(d)
      BY <1>2, <2>2 DEF Knows
    <2>4. w[p].list \subseteq Existing
      BY <1>2, <2>2 DEF Knows
    <2>5. \A d \in Claims : x.claim = d => x.old = Linked(d)'
      BY <1>1, <1>6, <2>3
    <2>6. \A R \in SUBSET Incentives :
            R = (IF x.list = {} THEN x.old ELSE x.list) => x.total = Sum(R)'
      BY <1>1, <1>6
    <2>7. x.list \subseteq Existing'
      BY <1>1, <1>6, <2>4
    <2> QED BY <1>1, <2>1, <2>5, <2>6, <2>7 DEF Knows
  <1>8. ASSUME NEW d \in Claims
        PROVE  Billed(d)'
    <2>1. ~Linking(d)
      BY <1>2, <1>4, <1>5, OnlyOne
    <2>2. Billed(d)
      BY DEF Billing
    <2> QED BY <1>3, <1>6, <2>1, <2>2, Settled
  <1> QED BY <1>4, <1>5, <1>7, <1>8, OnlyOne

LEMMA CreateLinkBilling ==
  ASSUME Typed, Billing, NEW p \in Workers, CreateLink(p)
  PROVE  Billing'
  <1>1. PICK c \in Claims, T \in SUBSET Existing :
           /\ c = w[p].claim /\ claim[c] # Absent
           /\ T = (IF w[p].list = {} THEN Existing ELSE w[p].list) \cap Existing
           /\ inc' \in Rows
           /\ \A i \in T : /\ inc'[i] \in Row /\ inc'[i].claim = c /\ inc'[i].status = inc[i].status
                           /\ inc'[i].nominal = inc[i].nominal
           /\ \A i \in Incentives : i \notin T => inc'[i] = inc[i]
           /\ odd' = odd \cup ({inc[i].claim : i \in T} \ {None, c})
    BY CreateLinkGives, Zenon
  <1>2. Finish(p) /\ claim' = claim /\ w[p].at = "create.link"
    BY DEF CreateLink
  <1>3. (\A r \in Workers : w'[r] = IF r = p THEN Idle ELSE w[r]) /\ clash' = clash
    BY <1>2, FinishGives
  <1>4. w[p].at \in AboutClaims
    BY <1>2 DEF AboutClaims
  <1>5. \A i \in Incentives : There(i)' <=> There(i)
    BY <1>1 DEF There
  <1>6. Existing' = Existing /\ Existing \subseteq Incentives
    BY <1>5 DEF Existing
  <1>7. \A i \in Existing : inc'[i].nominal = inc[i].nominal
    BY <1>1, <1>6
  <1>8. \A R : Sum(R)' = Sum(R)
    BY <1>6, <1>7, SumOn
  <1>9. ASSUME ~clash, NEW d \in Claims
        PROVE  Billed(d)'
    <2>1. CASE d = c
      <3>1. PICK R \in SUBSET Incentives : R = IF w[p].list = {} THEN Existing ELSE w[p].list
        BY <1>6, Rest DEF Request
      <3>2. Knows(p)
        BY <1>9 DEF Billing
      <3>3. w[p].total = Sum(R)
        BY <1>2, <3>1, <3>2 DEF Knows
      <3>4. Linked(c) = {} /\ claim[c].total = w[p].total
        BY <1>1, <1>2, <3>2 DEF Knows
      <3>5. T = R \cap Existing
        BY <1>1, <3>1
      <3>6. claim'[c].total = Sum(T)'
        BY <1>2, <1>8, <3>3, <3>4, <3>5, SumThere
      <3>7. Linked(c)' = T
        <4>1. \A i \in Existing : inc'[i].claim = c <=> i \in T
          BY <1>1, <1>6, <3>4 DEF Linked
        <4> QED BY <1>6, <4>1 DEF Linked
      <3> QED BY <2>1, <3>6, <3>7 DEF Billed
    <2>2. CASE d # c
      <3>1. ~Linking(d)
        BY <1>1, <1>3, <1>4, <1>9, <2>2, OnlyOne
      <3>2. Billed(d)
        BY <1>9 DEF Billing
      <3>3. ASSUME d \notin odd'
            PROVE  Linked(d)' = Linked(d)
        <4>1. \A i \in T : inc[i].claim # d /\ inc'[i].claim # d
          BY <1>1, <2>2, <3>3, NoneAssumption
        <4>2. \A i \in Existing : inc'[i].claim = d <=> inc[i].claim = d
          BY <1>1, <1>6, <4>1
        <4> QED BY <1>6, <4>2 DEF Linked
      <3>4. \A i \in Linked(d) : inc'[i].nominal = inc[i].nominal
        BY <1>7 DEF Linked
      <3>5. odd \subseteq odd'
        BY <1>1
      <3> QED BY <1>2, <3>1, <3>2, <3>3, <3>4, <3>5, Settled
    <2> QED BY <2>1, <2>2
  <1> QED BY <1>3, <1>4, <1>9, DoneBilling

LEMMA UpdateWriteBilling ==
  ASSUME Typed, Billing, NEW p \in Workers, UpdateWrite(p)
  PROVE  Billing'
  <1>1. PICK c \in Claims, L \in SUBSET Incentives, O \in SUBSET Incentives : Rewritten(p, c, L, O)
    BY UpdateWriteGives
  <1>2. ClaimRewritten(p, c) /\ RowsRewritten(c, L, O)
    BY <1>1 DEF Rewritten
  <1>3. w[p].at = "update.write" /\ L = w[p].list /\ O = w[p].old
    BY <1>1 DEF Rewritten
  <1>4. odd' = odd \cup ({inc[i].claim : i \in (L \ O) \cap Existing} \ {None, c})
                   \cup (IF L \subseteq O /\ L # {} /\ L # O THEN {c} ELSE {})
    BY <1>1 DEF Rewritten
  <1>5. /\ c = w[p].claim /\ claim'[c].total = w[p].total
        /\ \A d \in Claims : d # c => claim'[d] = claim[d]
    BY <1>2 DEF ClaimRewritten
  <1>6. Finish(p) /\ w[p].at \in AboutClaims
    BY <1>3 DEF UpdateWrite, AboutClaims
  <1>7. (\A r \in Workers : w'[r] = IF r = p THEN Idle ELSE w[r]) /\ clash' = clash
    BY <1>6, FinishGives
  <1>8. Existing' = Existing /\ Existing \subseteq Incentives
    <2>1. \A i \in Incentives : ~There(i) => ~There(i)'
      BY <1>2 DEF RowsRewritten, There
    <2>2. \A i \in Existing : There(i)'
      BY <1>2, RowThereNext DEF RowsRewritten, Existing
    <2> QED BY <2>1, <2>2 DEF Existing
  <1>9. \A i \in Existing :
          /\ inc'[i].nominal = inc[i].nominal
          /\ inc'[i].claim = IF L \subseteq O THEN inc[i].claim
                             ELSE IF i \in L \ O THEN c
                             ELSE IF i \in O \ L THEN None ELSE inc[i].claim
    BY <1>2 DEF RowsRewritten
  <1>10. \A R : Sum(R)' = Sum(R)
    BY <1>8, <1>9, SumOn
  <1>11. ASSUME ~clash, NEW d \in Claims
         PROVE  Billed(d)'
    <2>1. Knows(p)
      BY <1>11 DEF Billing
    <2>2. O = Linked(c) /\ L \subseteq Existing
      BY <1>3, <1>5, <2>1 DEF Knows
    <2>3. \A i \in Existing : i \in O <=> inc[i].claim = c
      BY <2>2 DEF Linked
    <2>4. CASE d = c
      <3>1. CASE c \in odd'
        BY <2>4, <3>1 DEF Billed
      <3>2. CASE c \notin odd'
        <4>1. PICK R \in SUBSET Incentives : R = IF L = {} THEN O ELSE L
          OBVIOUS
        <4>2. w[p].total = Sum(R)
          BY <1>3, <2>1, <4>1 DEF Knows
        <4>3. Linked(c)' = R
          <5>1. CASE L \subseteq O
            <6>1. R = O
              BY <1>4, <3>2, <4>1, <5>1
            <6>2. \A i \in Existing : inc'[i].claim = c <=> i \in O
              BY <1>9, <2>3, <5>1
            <6> QED BY <1>8, <2>2, <6>1, <6>2 DEF Linked
          <5>2. CASE ~(L \subseteq O)
            <6>1. R = L
              BY <4>1, <5>2
            <6>2. \A i \in Existing : inc'[i].claim = c <=> i \in L
              BY <1>9, <2>3, <5>2, NoneAssumption
            <6> QED BY <1>8, <2>2, <6>1, <6>2 DEF Linked
          <5> QED BY <5>1, <5>2
        <4>4. claim'[c].total = Sum(R)'
          BY <1>5, <1>10, <4>2
        <4> QED BY <2>4, <4>3, <4>4 DEF Billed
      <3> QED BY <3>1, <3>2
    <2>5. CASE d # c
      <3>1. ~Linking(d)
        BY <1>3, <1>6, <1>7, <1>11, OnlyOne
      <3>2. Billed(d)
        BY <1>11 DEF Billing
      <3>3. ASSUME d \notin odd'
            PROVE  Linked(d)' = Linked(d)
        <4>1. \A i \in (L \ O) \cap Existing : inc[i].claim # d
          BY <1>4, <2>5, <3>3, NoneAssumption
        <4>2. \A i \in Existing : inc'[i].claim = d <=> inc[i].claim = d
          BY <1>9, <2>3, <2>5, <4>1, NoneAssumption
        <4> QED BY <1>8, <4>2 DEF Linked
      <3>4. \A i \in Linked(d) : inc'[i].nominal = inc[i].nominal
        BY <1>9 DEF Linked
      <3>5. odd \subseteq odd'
        BY <1>4
      <3> QED BY <1>5, <2>5, <3>1, <3>2, <3>3, <3>4, <3>5, Settled
    <2> QED BY <2>4, <2>5
  <1> QED BY <1>6, <1>7, <1>11, DoneBilling

LEMMA RedateWriteBilling ==
  ASSUME Typed, Billing, NEW p \in Workers, NEW n \in Amounts, RedateWrite(p, n)
  PROVE  Billing'
  <1>1. PICK j \in Incentives :
          /\ w[p].at = "redate"
          /\ \A i \in Incentives : (i # j => inc'[i] = inc[i]) /\ (There(i)' <=> There(i))
          /\ \A i \in Existing : inc'[i].claim = inc[i].claim
          /\ odd' = odd \cup ({inc[i].claim : i \in {j} \cap Existing} \ {None})
    BY RedateWriteGives, Zenon
  <1>2. Finish(p) /\ claim' = claim
    BY DEF RedateWrite
  <1>3. (\A r \in Workers : w'[r] = IF r = p THEN Idle ELSE w[r]) /\ clash' = clash
    BY <1>2, FinishGives
  <1>4. w[p].at \in AboutClaims
    BY <1>1 DEF AboutClaims
  <1>5. Existing' = Existing
    BY <1>1 DEF Existing
  <1>6. ASSUME ~clash, NEW d \in Claims
        PROVE  Billed(d)'
    <2>1. ~Linking(d)
      BY <1>1, <1>3, <1>4, <1>6, OnlyOne
    <2>2. Billed(d)
      BY <1>6 DEF Billing
    <2>3. Linked(d)' = Linked(d)
      BY <1>1, <1>5 DEF Linked
    <2>4. ASSUME d \notin odd', NEW i \in Linked(d)
          PROVE  inc'[i].nominal = inc[i].nominal
      <3>1. i # j /\ i \in Incentives
        BY <1>1, <2>4, NoneAssumption DEF Linked, Existing
      <3> QED BY <1>1, <3>1
    <2>5. odd \subseteq odd'
      BY <1>1
    <2> QED BY <1>2, <2>1, <2>2, <2>3, <2>4, <2>5, Settled
  <1> QED BY <1>3, <1>4, <1>6, DoneBilling

(* A deletion, and a payment that earns an incentive, find no request about *)
(* claims under way, or overlap with it.                                    *)
LEMMA ApartBilling ==
  ASSUME Billing, w' = w, claim' = claim, odd \subseteq odd', clash' = (clash \/ Busy),
         \A d \in Claims : d \notin odd' =>
           /\ Linked(d)' = Linked(d)
           /\ \A i \in Linked(d) : inc'[i].nominal = inc[i].nominal
  PROVE  Billing'
  <1> SUFFICES ASSUME ~clash, ~Busy
               PROVE  Alone' /\ (\A r \in Workers : Knows(r)') /\ (\A d \in Claims : Billed(d)')
    BY DEF Billing
  <1>1. \A r \in Workers : w[r].at \notin AboutClaims
    BY DEF Busy
  <1>2. Alone' /\ \A r \in Workers : Knows(r)'
    BY <1>1, NotAboutNext DEF Alone
  <1>3. \A d : ~Linking(d)
    BY <1>1, NotAbout DEF Linking
  <1>4. \A d \in Claims : Billed(d)'
    BY <1>3, Settled DEF Billing
  <1> QED BY <1>2, <1>4

LEMMA DeleteBilling ==
  ASSUME Typed, Billing, NEW j \in Incentives, Delete(j)
  PROVE  Billing'
  <1>1. UNCHANGED <<claim, w>> /\ clash' = (clash \/ Busy)
    BY DEF Delete
  <1>2. ASSUME NEW d \in Claims, d \notin odd'
        PROVE  /\ Linked(d)' = Linked(d)
               /\ \A i \in Linked(d) : inc'[i].nominal = inc[i].nominal
    <2>1. inc[j].claim # d
      BY <1>2, DeleteGives, NoneAssumption
    <2>2. j \notin Linked(d) /\ j \notin Linked(d)'
      BY <2>1, DeleteGives DEF Linked, Existing
    <2>3. \A i \in Incentives : i # j => (i \in Linked(d)' <=> i \in Linked(d))
      BY DeleteGives DEF Linked, Existing
    <2>4. Linked(d) \subseteq Incentives /\ Linked(d)' \subseteq Incentives
      BY DEF Linked, Existing
    <2> QED BY <2>2, <2>3, <2>4, DeleteGives
  <1>3. odd \subseteq odd'
    BY DeleteGives
  <1> QED BY <1>1, <1>2, <1>3, ApartBilling

LEMMA EarnBilling ==
  ASSUME Typed, Billing, NEW j \in Incentives, NEW n \in Amounts, Earn(j, n)
  PROVE  Billing'
  <1>1. UNCHANGED <<claim, w, odd>> /\ clash' = (clash \/ Busy)
    BY DEF Earn
  <1>2. ASSUME NEW d \in Claims
        PROVE  /\ Linked(d)' = Linked(d)
               /\ \A i \in Linked(d) : inc'[i].nominal = inc[i].nominal
    <2>1. j \notin Linked(d) /\ j \notin Linked(d)'
      BY EarnGives, NoneAssumption DEF Linked, Existing
    <2>2. \A i \in Incentives : i # j => (i \in Linked(d)' <=> i \in Linked(d))
      BY EarnGives DEF Linked, Existing
    <2>3. Linked(d) \subseteq Incentives /\ Linked(d)' \subseteq Incentives
      BY DEF Linked, Existing
    <2> QED BY <2>1, <2>2, <2>3, EarnGives
  <1> QED BY <1>1, <1>2, ApartBilling

LEMMA QuietBilling ==
  ASSUME Typed, Billing,
         \/ \E o \in Orders : MoveOrder(o) \/ Lose(o)
         \/ \E p \in Workers : PayWrite(p)
         \/ Job
  PROVE  Billing'
  <1>1. ASSUME NEW o \in Orders, MoveOrder(o)
        PROVE  Billing'
    <2>1. UNCHANGED <<inc, claim, w, odd, clash>>
      BY <1>1 DEF MoveOrder
    <2> QED BY <2>1, SameMoneyKept, Quiet
  <1>2. ASSUME NEW o \in Orders, Lose(o)
        PROVE  Billing'
    <2>1. UNCHANGED <<claim, w, odd, clash>>
      BY <1>2 DEF Lose
    <2> QED BY <1>2, <2>1, LoseTyped, Quiet
  <1>3. CASE JobList
    <2>1. UNCHANGED <<inc, claim, w, odd, clash>>
      BY <1>3 DEF JobList
    <2> QED BY <2>1, SameMoneyKept, Quiet
  <1>4. CASE JobWrite
    <2>1. UNCHANGED <<claim, w, odd, clash>>
      BY <1>4 DEF JobWrite
    <2> QED BY <1>4, <2>1, JobWriteTyped, Quiet
  <1>5. ASSUME NEW p \in Workers, PayWrite(p)
        PROVE  Billing'
    <2>1. Finish(p) /\ w[p].at = "pay" /\ UNCHANGED <<claim, odd>>
      BY <1>5 DEF PayWrite
    <2>2. SameMoney
      <3>1. PICK S \in SUBSET Existing :
              inc' = [i \in Incentives |->
                        IF i \in S THEN [inc[i] EXCEPT !.status = "DIBAYARKAN"] ELSE inc[i]]
        BY <1>5, PayWriteGives
      <3>2. inc \in Rows /\ "DIBAYARKAN" \in Statuses /\ S \subseteq Existing
        BY Rest DEF Statuses
      <3> QED BY <3>1, <3>2, Restatus
    <2>3. (\A r \in Workers : w'[r] = IF r = p THEN Idle ELSE w[r]) /\ clash' = clash
      BY <2>1, FinishGives
    <2>4. \A r \in Workers :
            w'[r] = w[r] \/ (w[r].at \notin AboutClaims /\ w'[r].at \notin AboutClaims)
      BY <2>1, <2>3, Shapes DEF AboutClaims
    <2> QED BY <2>1, <2>2, <2>3, <2>4, Quiet
  <1> QED BY <1>1, <1>2, <1>3, <1>4, <1>5 DEF Job

LEMMA BillingNext ==
  ASSUME Typed, Billing, [Next]_vars
  PROVE  Billing'
  <1>1. CASE UNCHANGED vars
    BY <1>1, SameMoneyKept, Quiet DEF vars
  <1>2. ASSUME NEW i \in Incentives, Delete(i)
        PROVE  Billing'
    BY <1>2, DeleteBilling
  <1>3. ASSUME NEW i \in Incentives, NEW n \in Amounts, Earn(i, n)
        PROVE  Billing'
    BY <1>3, EarnBilling
  <1>4. ASSUME NEW o \in Orders, MoveOrder(o) \/ Lose(o)
        PROVE  Billing'
    BY <1>4, QuietBilling
  <1>5. ASSUME NEW p \in Workers, NEW S \in SUBSET Incentives, CreateRead(p, S)
        PROVE  Billing'
    BY <1>5, CreateReadBilling
  <1>6. ASSUME NEW p \in Workers, NEW S \in SUBSET Incentives, NEW c \in Claims,
               NEW status \in {"open", "rejected"}, UpdateRead(p, c, S, status)
        PROVE  Billing'
    BY <1>6, UpdateReadBilling
  <1>7. ASSUME NEW p \in Workers, NEW c \in Claims, CreateClaim(p, c)
        PROVE  Billing'
    BY <1>7, CreateClaimBilling
  <1>8. ASSUME NEW p \in Workers, CreateLink(p) \/ UpdateSum(p) \/ UpdateWrite(p) \/ PayWrite(p)
        PROVE  Billing'
    BY <1>8, CreateLinkBilling, UpdateSumBilling, UpdateWriteBilling, QuietBilling
  <1>9. ASSUME NEW p \in Workers, NEW i \in Incentives, PayRead(p, i) \/ RedateRead(p, i)
        PROVE  Billing'
    BY <1>9, RowReadBilling
  <1>10. ASSUME NEW p \in Workers, NEW n \in Amounts, RedateWrite(p, n)
         PROVE  Billing'
    BY <1>10, RedateWriteBilling
  <1>11. CASE Job
    BY <1>11, QuietBilling
  <1>12. [Next]_vars <=> Next \/ UNCHANGED vars
    OBVIOUS
  <1> QED BY <1>1, <1>2, <1>3, <1>4, <1>5, <1>6, <1>7, <1>8, <1>9, <1>10, <1>11, <1>12 DEF Next

-----------------------------------------------------------------------------
(* Theorems.                                                                *)
LEMMA InitTyped ==
  ASSUME Init
  PROVE  Typed /\ Billing
  <1>1. inc \in Rows /\ \A i \in Existing : inc[i].claim = None
    BY Shapes DEF Init, Rows, Existing, There
  <1>2. \A c \in Claims : Linked(c) = {}
    BY <1>1, NoneAssumption DEF Linked
  <1>3. (\A p \in Workers : w[p] = Idle) /\ w \in [Workers -> Request]
    BY Shapes DEF Init
  <1>4. \A p \in Workers : w[p].at \notin AboutClaims /\ w[p].at # "pay"
    BY <1>3, Shapes DEF AboutClaims
  <1>5. TypeOK
    <2>1. job \in [at : {"idle", "write"}, list : SUBSET Incentives]
      BY DEF Init
    <2>2. events \in 0..MaxEvents
      BY AmountAssumption DEF Init
    <2>3. claim \in [Claims -> Claim \cup {Absent}]
      BY DEF Init
    <2> QED BY <1>1, <1>2, <1>3, <2>1, <2>2, <2>3 DEF Init, TypeOK, Rows
  <1>6. \A p \in Workers : RequestOK(p) /\ Paying(p)
    BY <1>3, Shapes DEF RequestOK, Paying
  <1>7. Listed
    BY DEF Init, Listed
  <1>8. Alone /\ \A p \in Workers : Knows(p)
    BY <1>4, NotAbout DEF Alone
  <1>9. \A c \in Claims : Billed(c)
    BY DEF Init, Billed
  <1> QED BY <1>5, <1>6, <1>7, <1>8, <1>9 DEF Typed, Billing

LEMMA SpecTypedBilling == Spec => [](Typed /\ Billing)
  <1>1. Init => Typed /\ Billing
    BY InitTyped
  <1>2. Typed /\ Billing /\ [Next]_vars => (Typed /\ Billing)'
    BY TypedNext, BillingNext
  <1> QED BY <1>1, <1>2, PTL DEF Spec

(* Every value has its type at all times, and nothing is linked to a claim  *)
(* that does not exist.                                                     *)
THEOREM SpecTypeOK == Spec => []TypeOK
  <1>1. Typed /\ Billing => TypeOK
    BY DEF Typed
  <1> QED BY <1>1, SpecTypedBilling, PTL

(* A claim's total is the sum of the incentives linked to it, with the      *)
(* exceptions ClaimSums names, for any number of incentives and claims.     *)
THEOREM SpecClaimSums == Spec => []ClaimSums
  <1>1. ASSUME Typed, Billing PROVE ClaimSums
    <2> SUFFICES ASSUME ~clash, ~Busy, NEW c \in Claims, claim[c] # Absent, c \notin odd
                 PROVE  claim[c].total = Sum(Linked(c))
      BY DEF ClaimSums
    <2>1. PICK S \in SUBSET Incentives : S = Linked(c)
      BY DEF Linked, Existing
    <2>2. ~Linking(c)
      BY NotAbout DEF Linking, Busy
    <2>3. Billed(c)
      BY <1>1 DEF Billing
    <2> QED BY <2>1, <2>2, <2>3 DEF Billed
  <1> QED BY <1>1, SpecTypedBilling, PTL

(* Only the job puts anything up, and what it has listed is not paid.       *)
LEMMA NotPutUpAgain ==
  ASSUME Typed, [Next]_vars, NEW j \in Incentives, inc[j].status = "DIBAYARKAN"
  PROVE  inc'[j].status \notin {"POTENTIAL", "PENGAJUAN"}
  <1>1. CASE inc' = inc
    BY <1>1
  <1>2. ASSUME NEW i \in Incentives, Delete(i)
        PROVE  inc'[j].status \notin {"POTENTIAL", "PENGAJUAN"}
    BY <1>2, DeleteGives, Shapes
  <1>3. ASSUME NEW i \in Incentives, NEW n \in Amounts, Earn(i, n)
        PROVE  inc'[j].status \notin {"POTENTIAL", "PENGAJUAN"}
    BY <1>3, EarnGives
  <1>4. ASSUME NEW o \in Orders, Lose(o)
        PROVE  inc'[j].status \notin {"POTENTIAL", "PENGAJUAN"}
    <2>1. inc'[j] = inc[j] \/ (There(j) /\ inc'[j] = [inc[j] EXCEPT !.status = "LOST"])
      BY <1>4 DEF Lose
    <2>2. There(j) => inc[j] \in Row
      BY Rest, RowThere
    <2> QED BY <2>1, <2>2, RowEdits DEF Statuses
  <1>5. ASSUME NEW p \in Workers, CreateLink(p)
        PROVE  inc'[j].status \notin {"POTENTIAL", "PENGAJUAN"}
    BY <1>5, CreateLinkGives
  <1>6. ASSUME NEW p \in Workers, UpdateWrite(p)
        PROVE  inc'[j].status \notin {"POTENTIAL", "PENGAJUAN"}
    BY <1>6, UpdateWriteGives DEF Rewritten, RowsRewritten, Existing
  <1>7. ASSUME NEW p \in Workers, PayWrite(p)
        PROVE  inc'[j].status \notin {"POTENTIAL", "PENGAJUAN"}
    <2>1. PICK S \in SUBSET Existing :
            inc' = [i \in Incentives |->
                      IF i \in S THEN [inc[i] EXCEPT !.status = "DIBAYARKAN"] ELSE inc[i]]
      BY <1>7, PayWriteGives
    <2>2. inc \in Rows /\ "DIBAYARKAN" \in Statuses /\ S \subseteq Existing
      BY Rest DEF Statuses
    <2>3. j \in S => inc'[j].status = "DIBAYARKAN"
      BY <2>1, <2>2, Restatus
    <2>4. j \notin S => inc'[j] = inc[j]
      BY <2>1
    <2> QED BY <2>3, <2>4
  <1>8. ASSUME NEW p \in Workers, NEW n \in Amounts, RedateWrite(p, n)
        PROVE  inc'[j].status \notin {"POTENTIAL", "PENGAJUAN"}
    BY <1>8, RedateWriteGives
  <1>9. CASE JobWrite
    <2>1. j \notin job.list
      BY DEF Typed, Listed, NotPutUp
    <2>2. inc'[j] = inc[j]
      BY <1>9, <2>1 DEF JobWrite
    <2> QED BY <2>2
  <1>10. ASSUME \/ UNCHANGED vars \/ JobList
                \/ \E o \in Orders : MoveOrder(o)
                \/ \E p \in Workers :
                     \/ UpdateSum(p)
                     \/ \E S \in SUBSET Incentives :
                          \/ CreateRead(p, S)
                          \/ \E c \in Claims, s \in {"open", "rejected"} : UpdateRead(p, c, S, s)
                     \/ \E c \in Claims : CreateClaim(p, c)
                     \/ \E i \in Incentives : PayRead(p, i) \/ RedateRead(p, i)
         PROVE  inc' = inc
    BY <1>10 DEF vars, JobList, MoveOrder, UpdateSum, CreateRead, UpdateRead, CreateClaim,
                 PayRead, RedateRead
  <1> QED BY <1>1, <1>2, <1>3, <1>4, <1>5, <1>6, <1>7, <1>8, <1>9, <1>10 DEF Next, Job

(* What was paid is never put up again (syncSalesCommission, deleteOrder).  *)
THEOREM SpecPaidOnce == Spec => PaidOnce
  <1>1. Typed /\ [Next]_vars =>
          [\A i \in Incentives :
             inc[i].status = "DIBAYARKAN" => inc'[i].status \notin {"POTENTIAL", "PENGAJUAN"}]_vars
    BY NotPutUpAgain
  <1>2. Typed /\ Billing => Typed
    OBVIOUS
  <1> QED BY <1>1, <1>2, SpecTypedBilling, PTL DEF Spec, PaidOnce
=============================================================================
