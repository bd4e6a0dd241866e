--------------------------- MODULE QuotationProofs ---------------------------
(***************************************************************************)
(* Theorems of Quotation for every set of quotations, orders, requests and  *)
(* payloads: the customer is told of a quotation that is out, the order     *)
(* follows, a payment earns once, the last incentive stays and receipt      *)
(* numbers differ, with the exceptions the properties name.                 *)
(***************************************************************************)
EXTENDS Quotation, TLAPS, FiniteSetTheorems, WellFoundedInduction

(* A request is about a quotation that is there, and knows what its kind of  *)
(* request has read or written by then.                                     *)
Writing == {"update.check", "update.write", "set"}
Passing == {"earn.read", "earn", "order"}
RequestOK(p) ==
  /\ w[p].at = "idle" => w[p].quote = None
  /\ w[p].at # "idle" => w[p].quote \in Quotes /\ Exists(w[p].quote)
  /\ w[p].at \in {"update.check", "update.write"} => w[p].kind = "update"
  /\ w[p].at = "set" => w[p].kind = "set"
  /\ w[p].at = "tell" => w[p].kind \in {"update", "set"}
  /\ w[p].at \in Passing \cup {"set", "tell"} => w[p].status \in Statuses

(* The duplicates a request has listed: that quotation's, and it still has   *)
(* an incentive at least as new as any of them.                             *)
Duplicates(p) ==
  w[p].at = "dedup" =>
    /\ w[p].ids # {}
    /\ \A n \in w[p].ids : /\ n \in 1..lastId
                           /\ \E j \in EarnedBy(w[p].quote) : j.id >= n
    /\ \A i \in incentives : i.id \in w[p].ids => i.quote = w[p].quote

Typed ==
  /\ TypeOK
  /\ \A p \in Workers : RequestOK(p)
  /\ \A q \in job.left : Exists(q)
  /\ \A i \in incentives : i.id \in 1..lastId /\ Exists(i.quote)

(* A quotation on which nothing overlapped has one request in hand at most,  *)
(* or the job, and a request knows its status.                              *)
Alone(q) ==
  /\ \A p, r \in Workers : w[p].quote = q /\ w[r].quote = q => p = r
  /\ q \in job.left => \A p \in Workers : w[p].quote # q
Current(q) ==
  \A p \in Workers : w[p].quote = q =>
    /\ w[p].at \in Writing => w[p].seen = quote[q].status
    /\ w[p].at \in Passing \cup {"tell"} => w[p].status = quote[q].status
ToldOrTelling(q) ==
  Exists(q) /\ ~quote[q].deleted /\ quote[q].status = "QUOTEOUT"
    => q \in told \/ \E p \in Workers : w[p].quote = q /\ w[p].at = "tell"
(* A request that is about to pass its status on to the order.              *)
Passes(p) == w[p].at \in Passing \/ (w[p].at = "tell" /\ w[p].kind = "update")
OnlyQuote(q) == \A r \in Quotes \ {q} : OrderOf[r] = OrderOf[q] => ~Exists(r)
FollowedOrPassing(q) ==
  Exists(q) /\ writer[q] \in {"create", "update"} /\ OnlyQuote(q)
    => \/ order[OrderOf[q]] = quote[q].status
       \/ \E p \in Workers : w[p].quote = q /\ Passes(p)
AtMostOne(S) == S = {} \/ \E i \in S : S = {i}
EarnedOrEarning(q) ==
  q \notin stepped =>
    /\ AtMostOne(EarnedBy(q))
    /\ Exists(q) /\ quote[q].status = Paid /\ writer[q] = "update"
         => \/ EarnedBy(q) # {}
            \/ \E p \in Workers : w[p].quote = q /\ w[p].at \in {"earn.read", "earn"}
    /\ \A p \in Workers : w[p].quote = q =>
         /\ w[p].at = "earn" => EarnedBy(q) = {}
         /\ w[p].at # "dedup"
SteppedKept(q) == Exists(q) /\ quote[q].status \in Steps => q \in stepped

Good(q) == q \notin odd => /\ Alone(q) /\ Current(q) /\ ToldOrTelling(q)
                           /\ FollowedOrPassing(q) /\ EarnedOrEarning(q)

-----------------------------------------------------------------------------
(* Shapes.                                                                  *)

LEMMA RecordShapes ==
  /\ \A x \in Row : x.at = "row" /\ x.status \in Statuses /\ x.deleted \in BOOLEAN
                    /\ x.receipt \in Numbers \cup {None} /\ x.receipts \subseteq Numbers
  /\ Absent.at = "absent" /\ Absent \notin Row
  /\ Idle \in Request /\ Idle.at = "idle" /\ Idle.quote = None
  /\ \A i \in Incentive : i.id \in Nat /\ i.quote \in Quotes
  /\ "QUOTEOUT" \in Statuses /\ "CLOSED" \in Statuses /\ "QUOTEIN" \in Statuses
  /\ "QUOTEOUT" # Paid /\ "CLOSED" # Paid /\ "CLOSED" # "QUOTEOUT" /\ "QUOTEIN" # "QUOTEOUT"
  /\ Paid \notin Steps /\ "QUOTEOUT" \notin Steps /\ "CLOSED" \notin Steps /\ "QUOTEIN" \notin Steps
  /\ "QUOTEIN" # Paid
  BY DEF Row, Absent, Idle, Request, Incentive, Statuses, Steps, Paid, NoPayload, Payload

LEMMA RowThere ==
  ASSUME TypeOK, NEW q \in Quotes
  PROVE  Exists(q) <=> quote[q] \in Row
  BY RecordShapes DEF TypeOK, Exists

LEMMA DrawnRow ==
  ASSUME NEW s \in BOOLEAN
  PROVE  /\ Drawn(s) \in Row /\ Drawn(s).status = "QUOTEIN" /\ Drawn(s).receipt = None
         /\ Drawn(s).receipts = {} /\ Drawn(s).deleted = FALSE
  BY DEF Drawn, Row, Statuses

LEMMA RowEdits ==
  ASSUME NEW x \in Row
  PROVE  /\ \A s \in Statuses : /\ [x EXCEPT !.status = s] \in Row
                                /\ [x EXCEPT !.status = s].status = s
                                /\ [x EXCEPT !.status = s].deleted = x.deleted
                                /\ [x EXCEPT !.status = s].receipt = x.receipt
                                /\ [x EXCEPT !.status = s].receipts = x.receipts
         /\ /\ [x EXCEPT !.deleted = TRUE] \in Row
            /\ [x EXCEPT !.deleted = TRUE].status = x.status
            /\ [x EXCEPT !.deleted = TRUE].deleted = TRUE
            /\ [x EXCEPT !.deleted = TRUE].receipt = x.receipt
            /\ [x EXCEPT !.deleted = TRUE].receipts = x.receipts
         /\ /\ [x EXCEPT !.validity = "over"] \in Row
            /\ [x EXCEPT !.validity = "over"].status = x.status
            /\ [x EXCEPT !.validity = "over"].deleted = x.deleted
            /\ [x EXCEPT !.validity = "over"].receipt = x.receipt
            /\ [x EXCEPT !.validity = "over"].receipts = x.receipts
  BY DEF Row

LEMMA RequestFields ==
  ASSUME NEW x \in Request
  PROVE  /\ x.quote \in Quotes \cup {None} /\ x.status \in Statuses \cup {None}
         /\ x.seen \in Statuses \cup {None} /\ x.special \in BOOLEAN /\ x.ids \subseteq Nat
         /\ x.asked.status \in Statuses \cup {None} /\ x.asked.receipt \in Numbers \cup {None}
         /\ x.asked.receipts \subseteq Numbers /\ x.asked.special \in BOOLEAN
         /\ x.asked \in Payload
  BY DEF Request, Payload

(* A request goes on with the same things in hand.                          *)
LEMMA GoesOn ==
  ASSUME NEW x \in Request, NEW s \in {"update.write", "tell", "earn.read", "earn", "order"}
  PROVE  /\ [x EXCEPT !.at = s] \in Request /\ [x EXCEPT !.at = s].at = s
         /\ [x EXCEPT !.at = s].quote = x.quote /\ [x EXCEPT !.at = s].status = x.status
         /\ [x EXCEPT !.at = s].seen = x.seen /\ [x EXCEPT !.at = s].kind = x.kind
  BY DEF Request

LEMMA WorkersShape ==
  ASSUME TypeOK, NEW p \in Workers, NEW x \in Request, Continue(p, x)
  PROVE  w' \in [Workers -> Request] /\ w'[p] = x
         /\ \A r \in Workers : w'[r] = IF r = p THEN x ELSE w[r]
  BY DEF TypeOK, Continue

LEMMA WrittenRow ==
  ASSUME TypeOK, NEW p \in Workers, NEW q \in Quotes, w[p].quote = q, Exists(q)
  PROVE  /\ Written(p) \in Row
         /\ Written(p).deleted = quote[q].deleted
         /\ Written(p).receipt = IF w[p].asked.receipt = None THEN quote[q].receipt
                                                              ELSE w[p].asked.receipt
         /\ Written(p).receipts \in {quote[q].receipts, quote[q].receipts \cup w[p].asked.receipts}
  <1>1. PICK y \in Row : y = quote[q]
    BY RowThere
  <1>2. PICK x \in Request : x = w[p]
    BY DEF TypeOK
  <1>3. PICK a \in Payload : a = x.asked
    BY RequestFields
  <1>4. a.status \in Statuses \cup {None} /\ a.receipt \in Numbers \cup {None}
        /\ a.receipts \subseteq Numbers /\ a.special \in BOOLEAN
    BY DEF Payload
  <1>5. PICK st \in Statuses : st = IF a.status = None THEN y.status ELSE a.status
    BY <1>4, RecordShapes
  <1>6. PICK v \in {None, "running", "over"} : v = IF a.status = "QUOTEOUT" THEN "running" ELSE y.validity
    BY DEF Row
  <1>7. PICK rc \in Numbers \cup {None} : rc = IF a.receipt = None THEN y.receipt ELSE a.receipt
    BY <1>4, RecordShapes
  <1>8. PICK rs \in SUBSET Numbers : rs = IF x.special THEN y.receipts \cup a.receipts ELSE y.receipts
    BY <1>4, RecordShapes
  <1>9. Written(p) = [y EXCEPT !.status = st, !.validity = v, !.receipt = rc, !.receipts = rs,
                               !.special = a.special]
    BY <1>1, <1>2, <1>3, <1>5, <1>6, <1>7, <1>8 DEF Written
  <1>10. PICK z : z = [y EXCEPT !.status = st, !.validity = v, !.receipt = rc, !.receipts = rs,
                                !.special = a.special]
    OBVIOUS
  <1>11. z \in Row
    BY <1>4, <1>10 DEF Row
  <1>12. z.deleted = y.deleted /\ z.receipt = rc /\ z.receipts = rs
    BY <1>10 DEF Row
  <1> QED BY <1>1, <1>2, <1>3, <1>7, <1>8, <1>9, <1>10, <1>11, <1>12

(* The largest of some numbers below a bound is one of them.                *)
LEMMA Smallest ==
  ASSUME NEW T, T \subseteq Nat, T # {}
  PROVE  \E x \in T : \A y \in T : x <= y
  <1>1. PICK R : R = {ss \in Nat \X Nat : ss[1] < ss[2]}
    OBVIOUS
  <1>2. IsWellFoundedOn(R, Nat)
    BY <1>1, NatLessThanWellFounded DEF OpToRel
  <1>3. PICK x \in T : \A y \in T : ~(<<y, x>> \in R)
    BY <1>2, WFMin
  <1>4. \A y \in T : ~(y < x)
    BY <1>1, <1>3
  <1> QED BY <1>4

LEMMA MaxIsOne ==
  ASSUME NEW b \in Nat, NEW S, S \subseteq 1..b, S # {}
  PROVE  Max(S) \in S /\ \A x \in S : Max(S) >= x
  <1> DEFINE T == {n \in Nat : \A x \in S : x <= n}
  <1>1. b \in T /\ T \subseteq Nat
    OBVIOUS
  <1>2. PICK m \in T : \A y \in T : m <= y
    BY <1>1, Smallest
  <1>3. m \in Nat /\ \A x \in S : x <= m
    OBVIOUS
  <1>4. m \in S
    <2> SUFFICES ASSUME m \notin S PROVE FALSE
      OBVIOUS
    <2>1. PICK x \in S : x \in 1..b
      OBVIOUS
    <2>2. m - 1 \in Nat
      BY <1>3, <2>1
    <2>3. \A y \in S : y <= m - 1
      BY <1>3
    <2>4. m - 1 \in T
      BY <2>2, <2>3
    <2> QED BY <1>2, <1>3, <2>4
  <1>5. \E y \in S : \A x \in S : y >= x
    BY <1>3, <1>4
  <1> HIDE DEF T
  <1> QED BY <1>5 DEF Max

-----------------------------------------------------------------------------
(* Incentives.                                                              *)

LEMMA EarnedGives ==
  ASSUME TypeOK
  PROVE  \A q \in Quotes : \A i \in EarnedBy(q) : i \in incentives /\ i.quote = q /\ i \in Incentive
  BY DEF TypeOK, EarnedBy

(* An incentive more, with a new id.                                        *)
LEMMA EarnGives ==
  ASSUME Typed, NEW p \in Workers, NEW q \in Quotes, q = w[p].quote, Earn(p)
  PROVE  \E i \in Incentive :
           /\ i.id = lastId + 1 /\ i.quote = q /\ i \notin incentives
           /\ incentives' = incentives \cup {i}
           /\ EarnedBy(q)' = EarnedBy(q) \cup {i}
           /\ \A r \in Quotes : r # q => EarnedBy(r)' = EarnedBy(r)
  <1>1. lastId \in Nat /\ lastId' = lastId + 1
    BY DEF Earn, Typed, TypeOK
  <1> [id |-> lastId + 1, quote |-> q, status |-> "POTENTIAL"] \in Incentive
    BY <1>1 DEF Incentive
  <1>2. PICK i \in Incentive : i = [id |-> lastId + 1, quote |-> q, status |-> "POTENTIAL"]
    OBVIOUS
  <1>3. i.id = lastId + 1 /\ i.quote = q
    BY <1>2
  <1>4. incentives' = incentives \cup {i}
    BY <1>1, <1>2 DEF Earn
  <1>5. i \notin incentives
    BY <1>1, <1>3 DEF Typed
  <1> QED BY <1>3, <1>4, <1>5 DEF EarnedBy

(* The job marks incentives, it neither makes nor removes any.              *)
Marked(i) == IF OrderOf[i.quote] \in refunded THEN [i EXCEPT !.status = "LOST"] ELSE i

LEMMA MarkedGives ==
  ASSUME NEW i \in Incentive
  PROVE  Marked(i) \in Incentive /\ Marked(i).id = i.id /\ Marked(i).quote = i.quote
  BY DEF Marked, Incentive

LEMMA LoseGives ==
  ASSUME Typed, JobLose
  PROVE  /\ incentives' \subseteq Incentive
         /\ \A i \in incentives : Marked(i) \in incentives'
         /\ \A j \in incentives' : \E i \in incentives : j = Marked(i)
         /\ \A q \in Quotes : \A i \in EarnedBy(q) : Marked(i) \in EarnedBy(q)'
         /\ \A q \in Quotes : \A j \in EarnedBy(q)' : \E i \in EarnedBy(q) : j = Marked(i)
  <1>1. incentives \subseteq Incentive
    BY DEF Typed, TypeOK
  <1>2. incentives' = {Marked(i) : i \in incentives}
    BY DEF JobLose, Marked
  <1> QED BY <1>1, <1>2, MarkedGives DEF EarnedBy

LEMMA LoseDistinct ==
  ASSUME Typed, JobLose
  PROVE  /\ \A i, j \in incentives' : i.id = j.id => i = j
         /\ \A q \in Quotes : AtMostOne(EarnedBy(q)) => AtMostOne(EarnedBy(q)')
         /\ \A q \in Quotes : EarnedBy(q) = {} <=> EarnedBy(q)' = {}
  <1>1. incentives \subseteq Incentive /\ \A i, j \in incentives : i.id = j.id => i = j
    BY DEF Typed, TypeOK
  <1>2. \A i, j \in incentives' : i.id = j.id => i = j
    BY <1>1, LoseGives, MarkedGives
  <1>3. \A q \in Quotes : EarnedBy(q) = {} <=> EarnedBy(q)' = {}
    BY LoseGives
  <1>4. ASSUME NEW q \in Quotes, NEW i \in EarnedBy(q), EarnedBy(q) = {i}
        PROVE  EarnedBy(q)' = {Marked(i)}
    BY <1>4, LoseGives
  <1> QED BY <1>2, <1>3, <1>4 DEF AtMostOne

(* What the removal of duplicates leaves.                                   *)
LEMMA DedupGives ==
  ASSUME Typed, \A r \in Workers : Duplicates(r), NEW p \in Workers, NEW q \in Quotes,
         q = w[p].quote, DedupWrite(p)
  PROVE  /\ incentives' \subseteq incentives
         /\ \A r \in Quotes : r # q => EarnedBy(r)' = EarnedBy(r)
         /\ EarnedBy(q)' \subseteq EarnedBy(q)
         /\ \A i \in EarnedBy(q) : \E j \in EarnedBy(q)' : j.id >= i.id
         /\ EarnedBy(q)' # {}
  <1> DEFINE ids == w[p].ids
             m == Max(ids)
  <1>1. w[p].at = "dedup" /\ incentives' = {i \in incentives : i.id \notin ids \ {m}}
    BY DEF DedupWrite
  <1>2. lastId \in Nat /\ incentives \subseteq Incentive
    BY DEF Typed, TypeOK
  <1>3. /\ ids # {} /\ ids \subseteq 1..lastId
        /\ \A n \in ids : \E j \in EarnedBy(q) : j.id >= n
        /\ \A i \in incentives : i.id \in ids => i.quote = q
    BY <1>1 DEF Duplicates
  <1>4. m \in ids /\ \A n \in ids : m >= n
    BY <1>2, <1>3, MaxIsOne
  <1> HIDE DEF ids, m
  <1>5. PICK j \in EarnedBy(q) : j.id >= m
    BY <1>3, <1>4
  <1>6. j \in incentives /\ j.id \in Nat /\ m \in Nat
    BY <1>2, <1>3, <1>4, <1>5, RecordShapes DEF EarnedBy
  <1>7. j.id \notin ids \ {m}
    BY <1>2, <1>3, <1>4, <1>5, <1>6
  <1>8. j \in EarnedBy(q)'
    BY <1>1, <1>6, <1>7 DEF EarnedBy
  <1>9. ASSUME NEW i \in EarnedBy(q)
        PROVE  \E k \in EarnedBy(q)' : k.id >= i.id
    <2>1. i \in incentives /\ i.id \in Nat /\ i.quote = q
      BY <1>2, RecordShapes DEF EarnedBy
    <2>2. CASE i.id \in ids
      <3>1. m >= i.id
        BY <1>4, <2>2
      <3> QED BY <1>5, <1>6, <1>8, <2>1, <3>1
    <2>3. CASE i.id \notin ids
      BY <1>1, <2>1, <2>3 DEF EarnedBy
    <2> QED BY <2>2, <2>3
  <1>10. \A r \in Quotes : r # q => EarnedBy(r)' = EarnedBy(r)
    BY <1>1, <1>3 DEF EarnedBy
  <1>11. incentives' \subseteq incentives /\ EarnedBy(q)' \subseteq EarnedBy(q)
    BY <1>1 DEF EarnedBy
  <1> QED BY <1>8, <1>9, <1>10, <1>11

-----------------------------------------------------------------------------
(* Types.                                                                   *)

Ledger ==
  /\ incentives \subseteq Incentive /\ lastId \in Nat
  /\ \A i, j \in incentives : i.id = j.id => i = j
  /\ \A i \in incentives : i.id \in 1..lastId /\ Exists(i.quote)

(* Rows are never removed.                                                  *)
RowsStay == \A q \in Quotes : Exists(q) => Exists(q)'

LEMMA LedgerKept ==
  ASSUME Typed, RowsStay, UNCHANGED earned
  PROVE  Ledger'
  BY RecordShapes DEF Typed, TypeOK, Ledger, RowsStay, earned

LEMMA TypedFrom ==
  ASSUME Typed, RowsStay, Ledger',
         quote' \in [Quotes -> Row \cup {Absent}],
         order' \in [Orders -> Statuses \cup {None}], refunded' \subseteq Orders,
         w' \in [Workers -> Request], \A r \in Workers : w'[r] = w[r] \/ RequestOK(r)',
         job' \in [at : {"idle", "close", "stop", "lose"}, left : SUBSET Quotes],
         \A q \in job'.left : Exists(q)',
         events' \in 0..MaxEvents, told' \subseteq Quotes, \A q \in told' : Exists(q)',
         stepped' \subseteq Quotes, odd' \subseteq Quotes, raced' \in BOOLEAN,
         writer' \in [Quotes -> {None, "create", "update", "set", "job"}]
  PROVE  Typed'
  <1>1. \A p \in Workers : RequestOK(p)'
    BY DEF Typed, RequestOK, RowsStay
  <1>2. \A q \in Quotes : ~Exists(q)' => EarnedBy(q)' = {} /\ q \notin told'
    BY DEF Ledger, EarnedBy
  <1>3. TypeOK'
    BY <1>2 DEF TypeOK, Ledger
  <1>4. \A i \in incentives' : i.id \in 1..lastId' /\ Exists(i.quote)'
    BY DEF Ledger
  <1> QED BY <1>1, <1>3, <1>4 DEF Typed

(* Every action leaves the types of what it does not touch.                 *)
LEMMA Rest ==
  ASSUME Typed
  PROVE  /\ quote \in [Quotes -> Row \cup {Absent}]
         /\ order \in [Orders -> Statuses \cup {None}] /\ refunded \subseteq Orders
         /\ w \in [Workers -> Request]
         /\ job \in [at : {"idle", "close", "stop", "lose"}, left : SUBSET Quotes]
         /\ \A q \in job.left : Exists(q)
         /\ events \in 0..MaxEvents /\ told \subseteq Quotes /\ \A q \in told : Exists(q)
         /\ stepped \subseteq Quotes /\ odd \subseteq Quotes /\ raced \in BOOLEAN
         /\ writer \in [Quotes -> {None, "create", "update", "set", "job"}]
  BY DEF Typed, TypeOK

LEMMA RowWritten ==
  ASSUME Typed, NEW q \in Quotes, NEW x \in Row, quote' = [quote EXCEPT ![q] = x]
  PROVE  /\ quote' \in [Quotes -> Row \cup {Absent}] /\ RowsStay /\ Exists(q)'
         /\ \A r \in Quotes : quote'[r] = IF r = q THEN x ELSE quote[r]
         /\ \A r \in Quotes : r # q => (Exists(r)' <=> Exists(r))
  BY RecordShapes DEF Typed, TypeOK, RowsStay, Exists

LEMMA PutGives ==
  ASSUME Typed, NEW q \in Quotes, NEW x \in Row, NEW by \in {"update", "set", "job"},
         Put(q, x, by)
  PROVE  /\ told' \subseteq told /\ stepped' \subseteq Quotes /\ stepped \subseteq stepped'
         /\ \A r \in Quotes : r # q => /\ r \in told' <=> r \in told
                                       /\ r \in stepped' <=> r \in stepped
                                       /\ writer'[r] = writer[r]
         /\ x.status \in Steps => q \in stepped'
         /\ x.status = "QUOTEOUT" /\ quote[q].status = "QUOTEOUT" => told' = told
         /\ writer'[q] = by
         /\ writer' \in [Quotes -> {None, "create", "update", "set", "job"}]
  BY Rest DEF Put

LEMMA CountEvents ==
  ASSUME Typed, Count
  PROVE  events' \in 0..MaxEvents
  BY Rest, BoundAssumption DEF Count

(* A step of one worker that writes no row and no incentive.                *)
LEMMA AsideTyped ==
  ASSUME Typed, NEW p \in Workers, NEW x \in Request, Continue(p, x), RequestOK(p)',
         UNCHANGED <<quote, refunded, earned, job, stepped, writer>>,
         order' \in [Orders -> Statuses \cup {None}],
         events' \in 0..MaxEvents, told' \subseteq Quotes, \A q \in told' : Exists(q),
         odd' \subseteq Quotes, raced' \in BOOLEAN
  PROVE  Typed'
  <1>1. w' \in [Workers -> Request] /\ \A r \in Workers : w'[r] = w[r] \/ RequestOK(r)'
    BY WorkersShape DEF Typed
  <1>2. RowsStay /\ Ledger'
    BY LedgerKept DEF RowsStay, Exists
  <1> QED BY <1>1, <1>2, Rest, TypedFrom DEF Exists

LEMMA IdleOK ==
  ASSUME TypeOK, NEW p \in Workers, Finish(p)
  PROVE  RequestOK(p)' /\ Continue(p, Idle) /\ Idle \in Request
  <1>1. Idle \in Request /\ Continue(p, Idle)
    BY RecordShapes DEF Finish
  <1>2. w'[p] = Idle
    BY <1>1, WorkersShape
  <1> QED BY <1>1, <1>2, RecordShapes DEF RequestOK, Passing

LEMMA GotoOK ==
  ASSUME Typed, NEW p \in Workers, NEW s \in {"update.write", "earn.read", "earn", "order"},
         Goto(p, s), RowsStay,
         w[p].at # "idle", s = "update.write" => w[p].kind = "update",
         s # "update.write" => w[p].status \in Statuses
  PROVE  RequestOK(p)' /\ \E x \in Request : /\ Continue(p, x) /\ x.at = s /\ x.quote = w[p].quote
                                             /\ x.status = w[p].status /\ x.seen = w[p].seen
                                             /\ x.kind = w[p].kind
  <1>1. PICK y \in Request : y = w[p]
    BY Rest
  <1>2. PICK x : x = [y EXCEPT !.at = s]
    OBVIOUS
  <1>3. x \in Request /\ x.at = s /\ x.quote = y.quote /\ x.status = y.status /\ x.seen = y.seen
        /\ x.kind = y.kind
    <2>1. s \in {"update.write", "tell", "earn.read", "earn", "order"}
      OBVIOUS
    <2> QED BY <1>2, <2>1, GoesOn
  <1>4. Continue(p, x)
    BY <1>1, <1>2 DEF Goto
  <1>5. w'[p] = x
    BY <1>3, <1>4, WorkersShape DEF Typed
  <1>6. PICK q \in Quotes : q = w[p].quote /\ Exists(q)'
    BY DEF Typed, RequestOK, RowsStay
  <1>7. RequestOK(p)'
    BY <1>1, <1>3, <1>5, <1>6 DEF RequestOK, Passing
  <1> QED BY <1>1, <1>3, <1>4, <1>7

(* The requests that begin.                                                 *)
LEMMA OddGrows ==
  ASSUME Typed, NEW p \in Workers, NEW op, NEW q \in Quotes, Begin(p, op, q)
  PROVE  /\ odd' \subseteq Quotes /\ odd \subseteq odd' /\ odd' \subseteq odd \cup {q}
         /\ q \notin odd' => ~InHand(q)
         /\ events' \in 0..MaxEvents /\ w[p] = Idle
  BY Rest, CountEvents DEF Begin

LEMMA CreateStep ==
  ASSUME Typed, NEW p \in Workers, NEW q \in Quotes, NEW s \in BOOLEAN, Create(p, q, s)
  PROVE  \E x \in Request : /\ Continue(p, x) /\ x.at = "order" /\ x.quote = q
                            /\ x.status = "QUOTEIN" /\ x.kind = "create"
  <1>1. PICK x : x = [Idle EXCEPT !.at = "order", !.quote = q, !.status = "QUOTEIN",
                                  !.kind = "create"]
    OBVIOUS
  <1>2. x \in Request
    BY <1>1, RecordShapes DEF Idle, Request
  <1>3. x.at = "order" /\ x.quote = q /\ x.status = "QUOTEIN" /\ x.kind = "create"
    BY <1>1 DEF Idle
  <1> QED BY <1>1, <1>2, <1>3 DEF Create

LEMMA UpdateReadStep ==
  ASSUME Typed, NEW p \in Workers, NEW q \in Quotes, NEW a \in Payload, UpdateRead(p, q, a)
  PROVE  \E x \in Request : /\ Continue(p, x) /\ x.at = "update.check" /\ x.quote = q
                            /\ x.seen = quote[q].status /\ x.kind = "update"
  <1>1. PICK st \in Statuses : st = quote[q].status
    BY RowThere, RecordShapes DEF UpdateRead, Typed
  <1>2. PICK sp \in BOOLEAN : sp = quote[q].special
    BY RowThere DEF UpdateRead, Typed, Row
  <1>3. PICK x : x = [Idle EXCEPT !.at = "update.check", !.quote = q, !.asked = a, !.seen = st,
                                  !.special = sp, !.kind = "update"]
    OBVIOUS
  <1>4. x \in Request
    BY <1>3, RecordShapes DEF Idle, Request
  <1>5. x.at = "update.check" /\ x.quote = q /\ x.seen = st /\ x.kind = "update"
    BY <1>3 DEF Idle
  <1>6. Continue(p, x)
    BY <1>1, <1>2, <1>3 DEF UpdateRead
  <1> QED BY <1>1, <1>4, <1>5, <1>6

LEMMA SetReadStep ==
  ASSUME Typed, NEW p \in Workers, NEW q \in Quotes, NEW s \in Statuses, SetRead(p, q, s)
  PROVE  \E x \in Request : /\ Continue(p, x) /\ x.at = "set" /\ x.quote = q /\ x.status = s
                            /\ x.seen = quote[q].status /\ x.kind = "set"
  <1>1. PICK st \in Statuses : st = quote[q].status
    BY RowThere, RecordShapes DEF SetRead, Typed
  <1>3. PICK x : x = [Idle EXCEPT !.at = "set", !.quote = q, !.status = s, !.seen = st,
                                  !.kind = "set"]
    OBVIOUS
  <1>4. x \in Request
    BY <1>3, RecordShapes DEF Idle, Request
  <1>5. x.at = "set" /\ x.quote = q /\ x.seen = st /\ x.kind = "set" /\ x.status = s
    BY <1>3 DEF Idle
  <1>6. Continue(p, x)
    BY <1>1, <1>3 DEF SetRead
  <1> QED BY <1>1, <1>4, <1>5, <1>6

LEMMA DedupReadStep ==
  ASSUME Typed, NEW p \in Workers, NEW q \in Quotes, DedupRead(p, q)
  PROVE  \E x \in Request : /\ Continue(p, x) /\ x.at = "dedup" /\ x.quote = q
                            /\ x.ids = {i.id : i \in EarnedBy(q)}
  <1> {i.id : i \in EarnedBy(q)} \in SUBSET Nat
    BY EarnedGives, RecordShapes DEF Typed
  <1>1. PICK n \in SUBSET Nat : n = {i.id : i \in EarnedBy(q)}
    OBVIOUS
  <1>3. PICK x : x = [Idle EXCEPT !.at = "dedup", !.quote = q, !.kind = "dedup", !.ids = n]
    OBVIOUS
  <1>4. x \in Request
    BY <1>3, RecordShapes DEF Idle, Request
  <1>5. x.at = "dedup" /\ x.quote = q /\ x.ids = n
    BY <1>3 DEF Idle
  <1>6. Continue(p, x)
    BY <1>1, <1>3 DEF DedupRead
  <1> QED BY <1>1, <1>4, <1>5, <1>6

LEMMA DedupHasSome ==
  ASSUME Typed, NEW p \in Workers, NEW q \in Quotes, DedupRead(p, q)
  PROVE  Exists(q) /\ EarnedBy(q) # {} /\ ~AtMostOne(EarnedBy(q))
  <1>1. Cardinality(EarnedBy(q)) > 1
    BY DEF DedupRead
  <1>2. EarnedBy(q) # {}
    BY <1>1, FS_EmptySet
  <1>3. \A i : EarnedBy(q) # {i}
    BY <1>1, FS_Singleton
  <1> QED BY <1>2, <1>3 DEF AtMostOne, Typed, TypeOK

LEMMA RemoveGives ==
  ASSUME Typed, NEW p \in Workers, NEW q \in Quotes, RemoveQuote(p, q)
  PROVE  /\ Exists(q)
         /\ \E row \in Row :
              /\ quote' = [quote EXCEPT ![q] = row] /\ row.status = quote[q].status
              /\ row.deleted = TRUE
              /\ row.receipt = quote[q].receipt /\ row.receipts = quote[q].receipts
  <1>1. Exists(q)
    BY DEF RemoveQuote
  <1>2. PICK z \in Row : z = quote[q]
    BY <1>1, RowThere DEF Typed
  <1>3. PICK row \in Row : /\ row = [z EXCEPT !.deleted = TRUE] /\ row.status = z.status
                           /\ row.deleted = TRUE
                           /\ row.receipt = z.receipt /\ row.receipts = z.receipts
    BY RowEdits
  <1>4. quote' = [quote EXCEPT ![q] = row]
    BY <1>2, <1>3 DEF RemoveQuote
  <1> QED BY <1>1, <1>2, <1>3, <1>4

LEMMA BeginsTyped ==
  ASSUME Typed, NEW p \in Workers, NEW q \in Quotes,
         \/ \E s \in BOOLEAN : Create(p, q, s)
         \/ \E a \in Updates[q] : UpdateRead(p, q, a)
         \/ \E s \in Asked : SetRead(p, q, s)
         \/ RemoveQuote(p, q) \/ DedupRead(p, q)
  PROVE  Typed'
  <1>0. TypeOK
    BY DEF Typed
  <1>1. CASE \E s \in BOOLEAN : Create(p, q, s)
    <2>1. PICK s \in BOOLEAN : Create(p, q, s)
      BY <1>1
    <2>2. PICK x \in Request : /\ Continue(p, x) /\ x.at = "order" /\ x.quote = q
                               /\ x.status = "QUOTEIN" /\ x.kind = "create"
      BY <2>1, CreateStep
    <2>3. /\ quote' \in [Quotes -> Row \cup {Absent}] /\ RowsStay /\ Exists(q)'
          /\ \A r \in Quotes : r # q => (Exists(r)' <=> Exists(r))
      BY <2>1, DrawnRow, RowWritten DEF Create
    <2>4. w' \in [Workers -> Request] /\ \A r \in Workers : w'[r] = IF r = p THEN x ELSE w[r]
      BY <1>0, <2>2, WorkersShape
    <2>5. RequestOK(p)'
      BY <2>2, <2>3, <2>4, RecordShapes DEF RequestOK, Passing
    <2>6. UNCHANGED <<order, refunded, earned, job, told, stepped, raced>>
          /\ writer' = [writer EXCEPT ![q] = "create"] /\ Begin(p, "create", q)
      BY <2>1 DEF Create
    <2>7. Ledger' /\ writer' \in [Quotes -> {None, "create", "update", "set", "job"}]
      BY <2>3, <2>6, LedgerKept, Rest
    <2>8. \A r \in told' \cup job'.left : Exists(r)'
      BY <2>3, <2>6, Rest DEF RowsStay
    <2> QED BY <2>3, <2>4, <2>5, <2>6, <2>7, <2>8, Rest, OddGrows, TypedFrom
  <1>2. ASSUME NEW x \in Request, Continue(p, x), x.quote = q, \E op : Begin(p, op, q), Exists(q),
               \/ x.at = "update.check" /\ x.kind = "update"
               \/ x.at = "set" /\ x.kind = "set" /\ x.status \in Statuses
               \/ x.at = "dedup",
               UNCHANGED <<quote, order, refunded, earned, job, told, stepped, writer, raced>>
        PROVE  Typed'
    <2>1. w'[p] = x
      BY <1>0, <1>2, WorkersShape
    <2>2. RequestOK(p)'
      BY <1>2, <2>1 DEF RequestOK, Passing, Exists
    <2> QED BY <1>2, <2>2, Rest, OddGrows, AsideTyped
  <1>3. CASE \E a \in Updates[q] : UpdateRead(p, q, a)
    <2>1. PICK a \in Payload : UpdateRead(p, q, a)
      BY <1>3, AskedAssumption
    <2> QED BY <1>2, <2>1, UpdateReadStep DEF UpdateRead
  <1>4. CASE \E s \in Asked : SetRead(p, q, s)
    <2>1. PICK s \in Statuses : SetRead(p, q, s)
      BY <1>4, AskedAssumption
    <2>2. PICK x \in Request : /\ Continue(p, x) /\ x.at = "set" /\ x.quote = q /\ x.status = s
                               /\ x.kind = "set"
      BY <2>1, SetReadStep
    <2> QED BY <1>2, <2>1, <2>2 DEF SetRead
  <1>5. CASE DedupRead(p, q)
    <2>1. PICK x \in Request : Continue(p, x) /\ x.at = "dedup" /\ x.quote = q
      BY <1>5, DedupReadStep
    <2>2. Exists(q)
      BY <1>5, DedupHasSome
    <2> QED BY <1>2, <1>5, <2>1, <2>2 DEF DedupRead
  <1>6. CASE RemoveQuote(p, q)
    <2>3. PICK x \in Row : quote' = [quote EXCEPT ![q] = x]
      BY <1>6, RemoveGives
    <2>4. quote' \in [Quotes -> Row \cup {Absent}] /\ RowsStay
      BY <2>3, RowWritten
    <2>5. UNCHANGED <<order, refunded, earned, w, job, told, stepped, writer, raced>>
          /\ Begin(p, "remove", q)
      BY <1>6 DEF RemoveQuote
    <2>6. Ledger' /\ \A r \in told' \cup job'.left : Exists(r)'
      BY <2>4, <2>5, LedgerKept, Rest DEF RowsStay
    <2> QED BY <2>4, <2>5, <2>6, Rest, OddGrows, TypedFrom
  <1> QED BY <1>1, <1>3, <1>4, <1>5, <1>6

(* The requests that go on.                                                 *)

(* What worker p of quotation q does that writes a row.                     *)
LEMMA UpdateWriteGives ==
  ASSUME Typed, NEW p \in Workers, NEW q \in Quotes, q = w[p].quote, UpdateWrite(p)
  PROVE  /\ Exists(q) /\ w[p].at = "update.write"
         /\ \E row \in Row, x \in Request :
              /\ Put(q, row, "update") /\ row = Written(p) /\ quote' = [quote EXCEPT ![q] = row]
              /\ row.deleted = quote[q].deleted
              /\ Continue(p, x) /\ x.quote = q /\ x.status = row.status /\ x.kind = "update"
              /\ IF row.status = "QUOTEOUT" /\ w[p].seen # "QUOTEOUT" THEN x.at = "tell"
                                                                     ELSE x.at = "earn.read"
         /\ UNCHANGED <<order, refunded, earned, job, events, odd>>
  <1>1. Exists(q) /\ w[p].at = "update.write" /\ w[p].kind = "update"
    BY DEF UpdateWrite, Typed, RequestOK
  <1>2. PICK row \in Row : row = Written(p) /\ row.deleted = quote[q].deleted
    BY <1>1, WrittenRow DEF Typed
  <1>3. Put(q, row, "update")
    BY <1>2 DEF UpdateWrite
  <1>4. PICK y \in Request : y = w[p]
    BY Rest
  <1>5. PICK s \in {"tell", "earn.read"} : s = IF GoesOut(p, row) THEN "tell" ELSE "earn.read"
    OBVIOUS
  <1>6. row.status \in Statuses
    BY RecordShapes
  <1>7. PICK x : x = [y EXCEPT !.status = row.status, !.asked = NoPayload, !.special = FALSE,
                               !.at = s]
    OBVIOUS
  <1>8. NoPayload \in Payload
    BY DEF NoPayload, Payload
  <1>9. x \in Request /\ x.quote = y.quote /\ x.status = row.status /\ x.kind = y.kind /\ x.at = s
    BY <1>6, <1>7, <1>8 DEF Request
  <1>10. Continue(p, x)
    BY <1>2, <1>4, <1>5, <1>7 DEF UpdateWrite
  <1>11. quote' = [quote EXCEPT ![q] = row]
    BY <1>3 DEF Put
  <1>12. UNCHANGED <<order, refunded, earned, job, events, odd>>
    BY DEF UpdateWrite
  <1>13. IF row.status = "QUOTEOUT" /\ w[p].seen # "QUOTEOUT" THEN x.at = "tell"
                                                              ELSE x.at = "earn.read"
    BY <1>5, <1>9 DEF GoesOut
  <1> QED BY <1>1, <1>2, <1>3, <1>4, <1>9, <1>10, <1>11, <1>12, <1>13

LEMMA SetWriteGives ==
  ASSUME Typed, NEW p \in Workers, NEW q \in Quotes, q = w[p].quote, SetWrite(p)
  PROVE  /\ Exists(q) /\ w[p].at = "set"
         /\ \E row \in Row, x \in Request :
              /\ Put(q, row, "set") /\ quote' = [quote EXCEPT ![q] = row]
              /\ row.deleted = quote[q].deleted /\ row.receipt = quote[q].receipt
              /\ row.receipts = quote[q].receipts
              /\ Continue(p, x)
              /\ IF row.status = "QUOTEOUT" /\ w[p].seen # "QUOTEOUT"
                 THEN x.at = "tell" /\ x.quote = q /\ x.status = row.status /\ x.kind = "set"
                 ELSE x = Idle
         /\ UNCHANGED <<order, refunded, earned, job, events, odd, raced>>
  <1>1. Exists(q) /\ w[p].at = "set" /\ w[p].kind = "set" /\ w[p].status \in Statuses
    BY DEF SetWrite, Typed, RequestOK
  <1>2. PICK z \in Row : z = quote[q]
    BY <1>1, RowThere DEF Typed
  <1>3. PICK st \in Statuses : st = w[p].status
    BY <1>1
  <1>4. PICK row \in Row : /\ row = [z EXCEPT !.status = st] /\ row.status = st
                           /\ row.deleted = z.deleted
                           /\ row.receipt = z.receipt /\ row.receipts = z.receipts
    BY RowEdits
  <1>5. Put(q, row, "set")
    BY <1>2, <1>3, <1>4 DEF SetWrite
  <1>6. quote' = [quote EXCEPT ![q] = row]
    BY <1>5 DEF Put
  <1>7. quote'[q] = row
    BY <1>6, RowWritten
  <1>8. IF row.status = "QUOTEOUT" /\ w[p].seen # "QUOTEOUT" THEN Goto(p, "tell") ELSE Finish(p)
    BY <1>7 DEF SetWrite, GoesOut
  <1>9. PICK y \in Request : y = w[p]
    BY Rest
  <1>10. PICK t : t = [y EXCEPT !.at = "tell"]
    OBVIOUS
  <1>11. t \in Request /\ t.at = "tell" /\ t.quote = y.quote /\ t.status = y.status
         /\ t.kind = y.kind
    BY <1>10 DEF Request
  <1>12. \E x \in Request :
           /\ Continue(p, x)
           /\ IF row.status = "QUOTEOUT" /\ w[p].seen # "QUOTEOUT"
              THEN x.at = "tell" /\ x.quote = q /\ x.status = row.status /\ x.kind = "set"
              ELSE x = Idle
    <2>1. CASE row.status = "QUOTEOUT" /\ w[p].seen # "QUOTEOUT"
      <3>1. Continue(p, t)
        BY <1>8, <1>9, <1>10, <2>1 DEF Goto
      <3> QED BY <1>1, <1>3, <1>4, <1>9, <1>11, <2>1, <3>1
    <2>2. CASE ~(row.status = "QUOTEOUT" /\ w[p].seen # "QUOTEOUT")
      BY <1>8, <2>2, RecordShapes DEF Finish
    <2> QED BY <2>1, <2>2
  <1>13. UNCHANGED <<order, refunded, earned, job, events, odd, raced>>
    BY DEF SetWrite
  <1> QED BY <1>1, <1>2, <1>4, <1>5, <1>6, <1>12, <1>13

LEMMA WriteTyped ==
  ASSUME Typed, NEW p \in Workers, UpdateWrite(p) \/ SetWrite(p)
  PROVE  Typed'
  <1>1. PICK q \in Quotes : q = w[p].quote
    BY DEF Typed, RequestOK, UpdateWrite, SetWrite
  <1>2. PICK row \in Row, x \in Request, by \in {"update", "set"} :
          /\ Put(q, row, by) /\ quote' = [quote EXCEPT ![q] = row]
          /\ Continue(p, x)
          /\ \/ x = Idle
             \/ /\ x.quote = q /\ x.status = row.status /\ x.kind \in {"update", "set"}
                /\ x.at = "tell" \/ (x.at = "earn.read" /\ x.kind = "update")
    <2>1. CASE UpdateWrite(p)
      BY <1>1, <2>1, UpdateWriteGives
    <2>2. CASE SetWrite(p)
      BY <1>1, <2>2, SetWriteGives
    <2> QED BY <2>1, <2>2
  <1>3. /\ quote' \in [Quotes -> Row \cup {Absent}] /\ RowsStay /\ Exists(q)'
    BY <1>2, RowWritten
  <1>4. /\ told' \subseteq told /\ stepped' \subseteq Quotes
        /\ writer' \in [Quotes -> {None, "create", "update", "set", "job"}]
    BY <1>2, PutGives
  <1>5. UNCHANGED <<order, refunded, earned, job, events, odd>> /\ raced' \in BOOLEAN
    BY Rest DEF UpdateWrite, SetWrite
  <1>6. w' \in [Workers -> Request] /\ \A r \in Workers : w'[r] = IF r = p THEN x ELSE w[r]
    BY <1>2, WorkersShape DEF Typed
  <1>7. RequestOK(p)'
    <2>1. row.status \in Statuses
      BY RecordShapes
    <2> QED BY <1>2, <1>3, <1>6, <2>1, RecordShapes DEF RequestOK, Passing
  <1>8. Ledger' /\ \A r \in told' \cup job'.left : Exists(r)'
    BY <1>3, <1>4, <1>5, LedgerKept, Rest DEF RowsStay
  <1> QED BY <1>3, <1>4, <1>5, <1>6, <1>7, <1>8, Rest, TypedFrom

LEMMA UpdateCheckStep ==
  ASSUME Typed, NEW p \in Workers, UpdateCheck(p)
  PROVE  \E x \in Request : /\ Continue(p, x) /\ RequestOK(p)'
                            /\ \/ x = Idle
                               \/ /\ x.at = "update.write" /\ x.quote = w[p].quote
                                  /\ x.seen = w[p].seen /\ w[p].at = "update.check"
  <1>1. RowsStay /\ TypeOK
    BY DEF UpdateCheck, RowsStay, Exists, Typed
  <1>2. CASE Finish(p)
    BY <1>1, <1>2, IdleOK
  <1>3. CASE Goto(p, "update.write")
    <2>1. w[p].at = "update.check" /\ w[p].kind = "update"
      BY DEF UpdateCheck, Typed, RequestOK
    <2> QED BY <1>1, <1>3, <2>1, GotoOK
  <1> QED BY <1>2, <1>3 DEF UpdateCheck

LEMMA TellStep ==
  ASSUME Typed, NEW p \in Workers, Tell(p)
  PROVE  /\ w[p].at = "tell"
         /\ \E x \in Request : /\ Continue(p, x) /\ RequestOK(p)'
                               /\ \/ x = Idle /\ w[p].kind = "set"
                                  \/ /\ x.at = "earn.read" /\ x.quote = w[p].quote
                                     /\ x.status = w[p].status /\ w[p].kind = "update"
  <1>1. RowsStay /\ TypeOK /\ w[p].at = "tell"
    BY DEF Tell, RowsStay, Exists, Typed
  <1>2. w[p].kind \in {"update", "set"} /\ w[p].status \in Statuses
    BY <1>1 DEF Typed, RequestOK
  <1>3. CASE w[p].kind = "set"
    <2>1. Finish(p)
      BY <1>3 DEF Tell
    <2> QED BY <1>1, <1>3, <2>1, IdleOK
  <1>4. CASE w[p].kind = "update"
    <2>1. Goto(p, "earn.read")
      BY <1>4 DEF Tell
    <2> QED BY <1>1, <1>2, <1>4, <2>1, GotoOK
  <1> QED BY <1>2, <1>3, <1>4

LEMMA EarnReadStep ==
  ASSUME Typed, NEW p \in Workers, EarnRead(p)
  PROVE  /\ w[p].at = "earn.read"
         /\ \E x \in Request : /\ Continue(p, x) /\ RequestOK(p)' /\ x.quote = w[p].quote
                               /\ x.status = w[p].status
                               /\ \/ /\ x.at = "earn"
                                     /\ \/ w[p].status \in Steps
                                        \/ w[p].status = Paid /\ EarnedBy(w[p].quote) = {}
                                  \/ /\ x.at = "order"
                                     /\ ~(w[p].status = Paid /\ EarnedBy(w[p].quote) = {})
  <1>1. RowsStay /\ TypeOK /\ w[p].at = "earn.read"
    BY DEF EarnRead, RowsStay, Exists, Typed
  <1>2. w[p].status \in Statuses
    BY <1>1 DEF Typed, RequestOK, Passing
  <1>3. PICK s \in {"earn", "order"} :
          /\ s = "earn" => \/ w[p].status \in Steps
                           \/ w[p].status = Paid /\ EarnedBy(w[p].quote) = {}
          /\ s = "order" => ~(w[p].status = Paid /\ EarnedBy(w[p].quote) = {})
          /\ Goto(p, s)
    BY DEF EarnRead
  <1> QED BY <1>1, <1>2, <1>3, GotoOK

LEMMA EarnStep ==
  ASSUME Typed, NEW p \in Workers, Earn(p)
  PROVE  /\ w[p].at = "earn"
         /\ \E x \in Request : /\ Continue(p, x) /\ RequestOK(p)' /\ x.quote = w[p].quote
                               /\ x.status = w[p].status /\ x.at = "order"
  <1>1. RowsStay /\ w[p].at = "earn" /\ Goto(p, "order")
    BY DEF Earn, RowsStay, Exists
  <1>2. w[p].status \in Statuses
    BY <1>1 DEF Typed, RequestOK, Passing
  <1> QED BY <1>1, <1>2, GotoOK

LEMMA ContinuingTyped ==
  ASSUME Typed, NEW p \in Workers, Continuing(p) \/ Fail(p)
  PROVE  Typed'
  <1>0. TypeOK
    BY DEF Typed
  <1>1. CASE UpdateWrite(p) \/ SetWrite(p)
    BY <1>1, WriteTyped
  <1>2. CASE UpdateCheck(p)
    BY <1>2, UpdateCheckStep, Rest, AsideTyped DEF UpdateCheck, history
  <1>3. CASE Tell(p)
    <2>1. \A q \in told' : q \in Quotes /\ Exists(q)
      BY <1>3, Rest DEF Tell, Typed, RequestOK
    <2> QED BY <1>3, <2>1, TellStep, Rest, AsideTyped DEF Tell
  <1>4. CASE EarnRead(p)
    BY <1>4, EarnReadStep, Rest, AsideTyped DEF EarnRead, history
  <1>5. CASE Earn(p)
    <2>1. PICK q \in Quotes : q = w[p].quote /\ Exists(q)
      BY <1>5 DEF Earn, Typed, RequestOK
    <2>2. PICK i \in Incentive : i.id = lastId + 1 /\ i.quote = q /\ incentives' = incentives \cup {i}
      BY <1>5, <2>1, EarnGives
    <2>3. lastId' = lastId + 1 /\ UNCHANGED <<quote, order, refunded, job, events, history>>
      BY <1>5 DEF Earn
    <2>4. lastId \in Nat /\ incentives \subseteq Incentive
          /\ (\A j \in incentives : j.id \in 1..lastId /\ Exists(j.quote))
          /\ (\A k, m \in incentives : k.id = m.id => k = m)
      BY DEF Typed, TypeOK
    <2>5. Ledger'
      BY <2>1, <2>2, <2>3, <2>4 DEF Ledger, Exists
    <2>6. PICK x \in Request : Continue(p, x) /\ RequestOK(p)'
      BY <1>5, EarnStep
    <2>7. w' \in [Workers -> Request] /\ \A r \in Workers : w'[r] = w[r] \/ RequestOK(r)'
      BY <1>0, <2>6, WorkersShape
    <2>8. RowsStay /\ \A r \in told' \cup job'.left : Exists(r)'
      BY <2>3, Rest DEF RowsStay, Exists, history
    <2> QED BY <2>3, <2>5, <2>7, <2>8, Rest, TypedFrom DEF history
  <1>6. CASE SyncOrder(p)
    <2>1. PICK q \in Quotes : q = w[p].quote
      BY <1>6 DEF SyncOrder, Typed, RequestOK
    <2>2. w[p].status \in Statuses
      BY <1>6 DEF SyncOrder, Typed, RequestOK, Passing
    <2>3. order' \in [Orders -> Statuses \cup {None}]
      BY <1>6, <2>1, <2>2, Rest DEF SyncOrder
    <2> QED BY <1>0, <1>6, <2>3, IdleOK, Rest, AsideTyped DEF SyncOrder, history
  <1>7. CASE DedupWrite(p)
    <2>1. incentives' \subseteq incentives
          /\ UNCHANGED <<quote, order, refunded, lastId, job, events, history>> /\ Finish(p)
      BY <1>7 DEF DedupWrite
    <2>2. Ledger'
      BY <2>1 DEF Typed, TypeOK, Ledger, Exists
    <2>3. w' \in [Workers -> Request] /\ \A r \in Workers : w'[r] = w[r] \/ RequestOK(r)'
      BY <1>0, <2>1, IdleOK, WorkersShape
    <2>4. RowsStay /\ \A r \in told' \cup job'.left : Exists(r)'
      BY <2>1, Rest DEF RowsStay, Exists, history
    <2> QED BY <2>1, <2>2, <2>3, <2>4, Rest, TypedFrom DEF history
  <1>8. CASE Fail(p)
    <2>1. w[p].quote \in Quotes
      BY <1>8 DEF Fail, Typed, RequestOK
    <2>2. events' \in 0..MaxEvents /\ odd' \subseteq Quotes
      BY <1>8, <2>1, CountEvents, Rest DEF Fail
    <2> QED BY <1>0, <1>8, <2>2, IdleOK, Rest, AsideTyped DEF Fail
  <1> QED BY <1>1, <1>2, <1>3, <1>4, <1>5, <1>6, <1>7, <1>8 DEF Continuing

(* Time, refunds and the job.                                               *)
LEMMA JobListGives ==
  ASSUME JobList
  PROVE  /\ job'.at = "close" /\ job'.left = {q \in Quotes : Overdue(q)}
         /\ job' = [at |-> "close", left |-> {q \in Quotes : Overdue(q)}]
         /\ \A q \in job'.left : Exists(q)
         /\ odd \subseteq odd' /\ odd' \subseteq odd \cup Quotes
         /\ \A q \in job'.left : q \notin odd' => \A p \in Workers : w[p].quote # q
         /\ UNCHANGED <<quote, order, refunded, earned, w, events, told, stepped, writer, raced>>
  BY DEF JobList, Overdue

LEMMA JobCloseGives ==
  ASSUME Typed, NEW q \in Quotes, JobClose(q)
  PROVE  /\ q \in job.left /\ Exists(q)
         /\ \E row \in Row :
              /\ Put(q, row, "job") /\ quote' = [quote EXCEPT ![q] = row] /\ row.status = "CLOSED"
              /\ row.receipt = quote[q].receipt /\ row.receipts = quote[q].receipts
         /\ job' \in [at : {"idle", "close", "stop", "lose"}, left : SUBSET Quotes]
         /\ job'.left \subseteq job.left
         /\ UNCHANGED <<order, refunded, earned, w, events, odd, raced>>
  <1>1. q \in job.left /\ Exists(q)
    BY Rest DEF JobClose
  <1>2. PICK z \in Row : z = quote[q]
    BY <1>1, RowThere DEF Typed
  <1> "CLOSED" \in Statuses
    BY RecordShapes
  <1> PICK st \in Statuses : st = "CLOSED"
    OBVIOUS
  <1>3. PICK row \in Row : /\ row = [z EXCEPT !.status = st] /\ row.status = st
                           /\ row.receipt = z.receipt /\ row.receipts = z.receipts
    BY RowEdits
  <1>4. Put(q, row, "job")
    BY <1>2, <1>3 DEF JobClose
  <1>5. quote' = [quote EXCEPT ![q] = row]
    BY <1>4 DEF Put
  <1>6. PICK j \in [at : {"idle", "close", "stop", "lose"}, left : SUBSET Quotes] : j = job
    BY Rest
  <1>7. /\ job' \in [at : {"idle", "close", "stop", "lose"}, left : SUBSET Quotes]
        /\ job'.left \subseteq job.left
    BY <1>6 DEF JobClose
  <1> QED BY <1>1, <1>2, <1>3, <1>4, <1>5, <1>7 DEF JobClose

LEMMA RunOutGives ==
  ASSUME Typed, NEW q \in Quotes, RunOut(q)
  PROVE  /\ Exists(q)
         /\ \E row \in Row :
              /\ quote' = [quote EXCEPT ![q] = row] /\ row.status = quote[q].status
              /\ row.deleted = quote[q].deleted
              /\ row.receipt = quote[q].receipt /\ row.receipts = quote[q].receipts
  <1>1. Exists(q)
    BY DEF RunOut
  <1>2. PICK z \in Row : z = quote[q]
    BY <1>1, RowThere DEF Typed
  <1>3. PICK row \in Row : /\ row = [z EXCEPT !.validity = "over"] /\ row.status = z.status
                           /\ row.deleted = z.deleted
                           /\ row.receipt = z.receipt /\ row.receipts = z.receipts
    BY RowEdits
  <1>4. quote' = [quote EXCEPT ![q] = row]
    BY <1>2, <1>3 DEF RunOut
  <1> QED BY <1>1, <1>2, <1>3, <1>4

LEMMA JobTyped ==
  ASSUME Typed, \/ \E q \in Quotes : RunOut(q) \/ JobClose(q)
                \/ \E o \in Orders : Refund(o)
                \/ JobList \/ JobLose \/ JobFail
  PROVE  Typed'
  <1>1. ASSUME NEW q \in Quotes, RunOut(q)
        PROVE  Typed'
    <2>1. PICK row \in Row : quote' = [quote EXCEPT ![q] = row]
      BY <1>1, RunOutGives
    <2>2. quote' \in [Quotes -> Row \cup {Absent}] /\ RowsStay
      BY <2>1, RowWritten
    <2>3. UNCHANGED <<order, refunded, earned, w, job, events, history>>
      BY <1>1 DEF RunOut
    <2>4. Ledger' /\ \A r \in told' \cup job'.left : Exists(r)'
      BY <2>2, <2>3, LedgerKept, Rest DEF RowsStay, history
    <2> QED BY <2>2, <2>3, <2>4, Rest, TypedFrom DEF history
  <1>2. ASSUME NEW q \in Quotes, JobClose(q)
        PROVE  Typed'
    <2>1. PICK row \in Row : Put(q, row, "job") /\ quote' = [quote EXCEPT ![q] = row]
      BY <1>2, JobCloseGives
    <2>2. quote' \in [Quotes -> Row \cup {Absent}] /\ RowsStay
      BY <2>1, RowWritten
    <2>3. /\ told' \subseteq told /\ stepped' \subseteq Quotes
          /\ writer' \in [Quotes -> {None, "create", "update", "set", "job"}]
      BY <2>1, PutGives
    <2>4. /\ job' \in [at : {"idle", "close", "stop", "lose"}, left : SUBSET Quotes]
          /\ job'.left \subseteq job.left
          /\ UNCHANGED <<order, refunded, earned, w, events, odd, raced>>
      BY <1>2, JobCloseGives
    <2>5. Ledger' /\ \A r \in told' \cup job'.left : Exists(r)'
      BY <2>2, <2>3, <2>4, LedgerKept, Rest DEF RowsStay
    <2> QED BY <2>2, <2>3, <2>4, <2>5, Rest, TypedFrom
  <1>3. CASE \E o \in Orders : Refund(o)
    <2>1. UNCHANGED <<quote, order, earned, w, job, history>> /\ refunded' \subseteq Orders
          /\ events' \in 0..MaxEvents
      BY <1>3, CountEvents, Rest DEF Refund
    <2>2. RowsStay /\ \A r \in told' \cup job'.left : Exists(r)'
      BY <2>1, Rest DEF RowsStay, Exists, history
    <2> QED BY <2>1, <2>2, LedgerKept, Rest, TypedFrom DEF history
  <1>4. CASE JobList
    <2>1. UNCHANGED <<quote, order, refunded, earned, w, events, told, stepped, writer, raced>>
          /\ odd' \subseteq Quotes
          /\ job' \in [at : {"idle", "close", "stop", "lose"}, left : SUBSET Quotes]
      BY <1>4, JobListGives, Rest
    <2>2. RowsStay /\ \A r \in told' \cup job'.left : Exists(r)'
      BY <1>4, <2>1, JobListGives, Rest DEF RowsStay, Exists
    <2> QED BY <2>1, <2>2, LedgerKept, Rest, TypedFrom
  <1>5. CASE JobLose
    <2>1. UNCHANGED <<quote, order, refunded, lastId, w, events, history>>
          /\ job' = [at |-> "idle", left |-> {}]
      BY <1>5 DEF JobLose
    <2>2. job' \in [at : {"idle", "close", "stop", "lose"}, left : SUBSET Quotes] /\ job'.left = {}
      BY <2>1
    <2>3. Ledger'
      <3>1. incentives' \subseteq Incentive /\ \A i, j \in incentives' : i.id = j.id => i = j
        BY <1>5, LoseGives, LoseDistinct
      <3>2. \A i \in incentives' : i.id \in 1..lastId /\ Exists(i.quote)
        BY <1>5, LoseGives, MarkedGives DEF Typed, TypeOK
      <3>3. lastId \in Nat
        BY DEF Typed, TypeOK
      <3> QED BY <2>1, <3>1, <3>2, <3>3 DEF Ledger, Exists
    <2>4. RowsStay /\ \A r \in told' \cup job'.left : Exists(r)'
      BY <2>1, <2>2, Rest DEF RowsStay, Exists, history
    <2> QED BY <2>1, <2>2, <2>3, <2>4, Rest, TypedFrom DEF history
  <1>6. CASE JobFail
    <2>1. PICK j \in [at : {"idle", "close", "stop", "lose"}, left : SUBSET Quotes] : j = job
      BY Rest
    <2>2. job' \in [at : {"idle", "close", "stop", "lose"}, left : SUBSET Quotes]
          /\ job'.left = job.left
      BY <1>6, <2>1 DEF JobFail
    <2>3. UNCHANGED <<quote, order, refunded, earned, w, history>> /\ events' \in 0..MaxEvents
      BY <1>6, CountEvents DEF JobFail
    <2>4. RowsStay /\ \A r \in told' \cup job'.left : Exists(r)'
      BY <2>2, <2>3, Rest DEF RowsStay, Exists, history
    <2> QED BY <2>2, <2>3, <2>4, LedgerKept, Rest, TypedFrom DEF history
  <1> QED BY <1>1, <1>2, <1>3, <1>4, <1>5, <1>6

LEMMA NextTyped == Typed /\ Next => Typed'
  BY BeginsTyped, ContinuingTyped, JobTyped DEF Next, Job

LEMMA InitTyped == Init => Typed
  <1> SUFFICES ASSUME Init PROVE Typed
    OBVIOUS
  <1>1. Drawn(FALSE) \in Row
    BY DrawnRow
  <1>2. order \in [Orders -> Statuses \cup {None}]
    BY RecordShapes DEF Init
  <1>3. \A q \in Quotes : EarnedBy(q) = {}
    BY DEF Init, EarnedBy
  <1>4. TypeOK
    <2>1. quote \in [Quotes -> Row \cup {Absent}]
          /\ writer \in [Quotes -> {None, "create", "update", "set", "job"}]
      BY <1>1 DEF Init
    <2>2. w \in [Workers -> Request] /\ events \in 0..MaxEvents
      BY RecordShapes, BoundAssumption DEF Init
    <2>3. job \in [at : {"idle", "close", "stop", "lose"}, left : SUBSET Quotes]
      BY DEF Init
    <2>4. /\ incentives = {} /\ lastId \in Nat /\ refunded \subseteq Orders
          /\ told = {} /\ stepped = {} /\ odd = {} /\ raced \in BOOLEAN
      BY DEF Init
    <2> QED BY <1>2, <1>3, <2>1, <2>2, <2>3, <2>4 DEF TypeOK
  <1>5. \A p \in Workers : RequestOK(p)
    BY RecordShapes DEF Init, RequestOK, Passing
  <1> QED BY <1>4, <1>5 DEF Init, Typed

LEMMA StutterTyped == Typed /\ UNCHANGED vars => Typed'
  BY DEF Typed, TypeOK, RequestOK, Exists, EarnedBy, vars

-----------------------------------------------------------------------------
(* The ledger of incentives goes onward: whatever a quotation earned leaves  *)
(* something as new in its place, and ids given before keep their quotation. *)
Onward ==
  /\ lastId' \in Nat /\ lastId <= lastId'
  /\ \A q \in Quotes : \A i \in EarnedBy(q) : \E j \in EarnedBy(q)' : j.id >= i.id
  /\ \A i \in incentives' : i.id <= lastId =>
       \E k \in incentives : k.id = i.id /\ k.quote = i.quote

LEMMA EarnedStays ==
  ASSUME Typed, UNCHANGED earned
  PROVE  Onward
  <1>1. /\ lastId' = lastId /\ incentives' = incentives /\ lastId \in Nat
        /\ \A i \in incentives : i.id \in Nat
    BY RecordShapes DEF earned, Typed, TypeOK
  <1>2. \A q \in Quotes : EarnedBy(q)' = EarnedBy(q)
    BY <1>1 DEF EarnedBy
  <1>3. \A q \in Quotes : \A i \in EarnedBy(q) : i.id \in Nat
    BY <1>1 DEF EarnedBy
  <1> QED BY <1>1, <1>2, <1>3 DEF Onward

LEMMA EarnOnward ==
  ASSUME Typed, NEW p \in Workers, Earn(p)
  PROVE  Onward
  <1>1. PICK q \in Quotes : q = w[p].quote
    BY DEF Earn, Typed, RequestOK
  <1>2. PICK i \in Incentive :
          /\ i.id = lastId + 1 /\ incentives' = incentives \cup {i}
          /\ EarnedBy(q)' = EarnedBy(q) \cup {i}
          /\ \A r \in Quotes : r # q => EarnedBy(r)' = EarnedBy(r)
    BY <1>1, EarnGives
  <1>3. lastId' = lastId + 1 /\ lastId \in Nat
    BY DEF Earn, Typed, TypeOK
  <1>4. \A r \in Quotes : EarnedBy(r) \subseteq EarnedBy(r)'
    BY <1>2
  <1>5. \A r \in Quotes : \A k \in EarnedBy(r) : k.id \in Nat
    BY RecordShapes, EarnedGives DEF Typed
  <1>6. \A r \in Quotes : \A k \in EarnedBy(r) : \E j \in EarnedBy(r)' : j.id >= k.id
    BY <1>4, <1>5
  <1>7. \A k \in incentives' : k.id <= lastId =>
          \E m \in incentives : m.id = k.id /\ m.quote = k.quote
    BY <1>2, <1>3
  <1> QED BY <1>3, <1>6, <1>7 DEF Onward

LEMMA DedupOnward ==
  ASSUME Typed, \A r \in Workers : Duplicates(r), NEW p \in Workers, DedupWrite(p)
  PROVE  Onward
  <1>1. PICK q \in Quotes : q = w[p].quote
    BY DEF DedupWrite, Typed, RequestOK
  <1>2. /\ incentives' \subseteq incentives
        /\ \A r \in Quotes : r # q => EarnedBy(r)' = EarnedBy(r)
        /\ \A i \in EarnedBy(q) : \E j \in EarnedBy(q)' : j.id >= i.id
    BY <1>1, DedupGives
  <1>3. lastId' = lastId /\ lastId \in Nat
    BY DEF DedupWrite, Typed, TypeOK
  <1>4. \A r \in Quotes : \A k \in EarnedBy(r) : k.id \in Nat
    BY RecordShapes, EarnedGives DEF Typed
  <1>5. \A r \in Quotes : \A k \in EarnedBy(r) : \E j \in EarnedBy(r)' : j.id >= k.id
    BY <1>2, <1>4
  <1>6. \A k \in incentives' : k.id <= lastId =>
          \E m \in incentives : m.id = k.id /\ m.quote = k.quote
    BY <1>2
  <1> QED BY <1>3, <1>5, <1>6 DEF Onward

LEMMA LoseOnward ==
  ASSUME Typed, JobLose
  PROVE  Onward
  <1>1. lastId' = lastId /\ lastId \in Nat /\ incentives \subseteq Incentive
    BY DEF JobLose, Typed, TypeOK
  <1>2. \A q \in Quotes : \A i \in EarnedBy(q) :
          Marked(i) \in EarnedBy(q)' /\ Marked(i).id = i.id /\ i.id \in Nat
    BY LoseGives, MarkedGives, RecordShapes, EarnedGives DEF Typed
  <1>3. \A q \in Quotes : \A i \in EarnedBy(q) : \E j \in EarnedBy(q)' : j.id >= i.id
    BY <1>2
  <1>4. \A j \in incentives' : \E i \in incentives : i.id = j.id /\ i.quote = j.quote
    BY <1>1, LoseGives, MarkedGives
  <1> QED BY <1>1, <1>3, <1>4 DEF Onward

LEMMA NextOnward ==
  ASSUME Typed, \A r \in Workers : Duplicates(r), [Next]_vars
  PROVE  Onward
  <1>1. CASE UNCHANGED earned
    BY <1>1, EarnedStays
  <1>2. CASE \E p \in Workers : Earn(p)
    BY <1>2, EarnOnward
  <1>3. CASE \E p \in Workers : DedupWrite(p)
    BY <1>3, DedupOnward
  <1>4. CASE JobLose
    BY <1>4, LoseOnward
  <1>5. CASE UNCHANGED vars
    BY <1>5, EarnedStays DEF vars, earned
  <1>6. ASSUME NEW p \in Workers, NEW q \in Quotes,
               \/ \E s \in BOOLEAN : Create(p, q, s)
               \/ \E a \in Updates[q] : UpdateRead(p, q, a)
               \/ \E s \in Asked : SetRead(p, q, s)
               \/ RemoveQuote(p, q) \/ DedupRead(p, q)
        PROVE  UNCHANGED earned
    BY <1>6 DEF Create, UpdateRead, SetRead, RemoveQuote, DedupRead
  <1>7. ASSUME NEW p \in Workers,
               \/ UpdateCheck(p) \/ UpdateWrite(p) \/ Tell(p) \/ EarnRead(p) \/ SyncOrder(p)
               \/ SetWrite(p) \/ Fail(p)
        PROVE  UNCHANGED earned
    BY <1>7 DEF UpdateCheck, UpdateWrite, Tell, EarnRead, SyncOrder, SetWrite, Fail
  <1>8. ASSUME \/ \E q \in Quotes : RunOut(q) \/ JobClose(q)
               \/ \E o \in Orders : Refund(o)
               \/ JobList \/ JobFail
        PROVE  UNCHANGED earned
    BY <1>8 DEF RunOut, JobClose, Refund, JobList, JobFail
  <1> QED BY <1>1, <1>2, <1>3, <1>4, <1>5, <1>6, <1>7, <1>8 DEF Next, Continuing, Job

(* Only the look for duplicates has a request list some.                    *)
LEMMA ListedBy ==
  ASSUME Typed, [Next]_vars, NEW r \in Workers, w'[r].at = "dedup"
  PROVE  w'[r] = w[r] \/ \E q \in Quotes : DedupRead(r, q)
  <1>0. TypeOK
    BY DEF Typed
  <1>1. ASSUME NEW p \in Workers, NEW x \in Request, Continue(p, x), x.at # "dedup"
        PROVE  w'[r] = w[r]
    BY <1>0, <1>1, WorkersShape
  <1>2. CASE w' = w
    BY <1>2
  <1>3. ASSUME NEW p \in Workers, NEW q \in Quotes, DedupRead(p, q)
        PROVE  w'[r] = w[r] \/ p = r
    BY <1>0, <1>3, DedupReadStep, WorkersShape
  <1>4. ASSUME NEW p \in Workers, NEW q \in Quotes, NEW s \in BOOLEAN, Create(p, q, s)
        PROVE  w'[r] = w[r]
    BY <1>1, <1>4, CreateStep
  <1>5. ASSUME NEW p \in Workers, NEW q \in Quotes, NEW a \in Payload, UpdateRead(p, q, a)
        PROVE  w'[r] = w[r]
    BY <1>1, <1>5, UpdateReadStep
  <1>6. ASSUME NEW p \in Workers, NEW q \in Quotes, NEW s \in Statuses, SetRead(p, q, s)
        PROVE  w'[r] = w[r]
    BY <1>1, <1>6, SetReadStep
  <1>7. ASSUME NEW p \in Workers, UpdateWrite(p) \/ SetWrite(p)
        PROVE  w'[r] = w[r]
    <2>1. PICK q \in Quotes : q = w[p].quote
      BY <1>7 DEF Typed, RequestOK, UpdateWrite, SetWrite
    <2> QED BY <1>1, <1>7, <2>1, UpdateWriteGives, SetWriteGives, RecordShapes
  <1>8. ASSUME NEW p \in Workers, UpdateCheck(p) \/ Tell(p) \/ EarnRead(p) \/ Earn(p)
        PROVE  w'[r] = w[r]
    BY <1>1, <1>8, UpdateCheckStep, TellStep, EarnReadStep, EarnStep, RecordShapes
  <1>9. ASSUME NEW p \in Workers, SyncOrder(p) \/ DedupWrite(p) \/ Fail(p)
        PROVE  w'[r] = w[r]
    BY <1>0, <1>1, <1>9, RecordShapes, IdleOK DEF SyncOrder, DedupWrite, Fail
  <1>10. ASSUME NEW p \in Workers, NEW q \in Quotes, RemoveQuote(p, q)
         PROVE  w' = w
    BY <1>10 DEF RemoveQuote
  <1>11. ASSUME \/ \E q \in Quotes : RunOut(q) \/ JobClose(q)
                \/ \E o \in Orders : Refund(o)
                \/ JobList \/ JobFail \/ JobLose \/ UNCHANGED vars
         PROVE  w' = w
    BY <1>11 DEF RunOut, JobClose, Refund, JobList, JobFail, JobLose, vars
  <1> QED BY <1>2, <1>3, <1>4, <1>5, <1>6, <1>7, <1>8, <1>9, <1>10, <1>11, AskedAssumption
          DEF Next, Continuing, Job

LEMMA DuplicatesStay ==
  ASSUME Typed, \A r \in Workers : Duplicates(r), [Next]_vars
  PROVE  \A r \in Workers : Duplicates(r)'
  <1> SUFFICES ASSUME NEW r \in Workers, w'[r].at = "dedup"
               PROVE  Duplicates(r)'
    BY DEF Duplicates
  <1>1. lastId \in Nat /\ Onward
    BY NextOnward DEF Typed, TypeOK
  <1>2. CASE w'[r] = w[r]
    <2>1. PICK q \in Quotes : q = w[r].quote
      BY <1>2 DEF Typed, RequestOK
    <2>2. PICK S \in SUBSET Nat : S = w[r].ids
      BY Rest, RequestFields
    <2>3. /\ S # {} /\ S \subseteq 1..lastId
          /\ \A n \in S : \E j \in EarnedBy(q) : j.id >= n
          /\ \A i \in incentives : i.id \in S => i.quote = q
      BY <1>2, <2>1, <2>2 DEF Duplicates
    <2>4. Typed'
      BY NextTyped, StutterTyped
    <2>5. \A j \in EarnedBy(q) \cup EarnedBy(q)' : j.id \in Nat
      BY <2>4, RecordShapes DEF Typed, TypeOK, EarnedBy
    <2>9. /\ lastId' \in Nat /\ lastId <= lastId'
          /\ \A i \in EarnedBy(q) : \E j \in EarnedBy(q)' : j.id >= i.id
          /\ \A i \in incentives' : i.id <= lastId =>
               \E k \in incentives : k.id = i.id /\ k.quote = i.quote
      BY <1>1 DEF Onward
    <2>6. ASSUME NEW n \in S
          PROVE  n \in 1..lastId' /\ \E j \in EarnedBy(q)' : j.id >= n
      <3>1. n \in 1..lastId /\ n \in Nat
        BY <2>3
      <3>2. PICK i \in EarnedBy(q) : i.id >= n
        BY <2>3
      <3>3. PICK j \in EarnedBy(q)' : j.id >= i.id
        BY <2>9
      <3>4. i.id \in Nat /\ j.id \in Nat
        BY <2>5
      <3>5. j.id >= n
        BY <3>1, <3>2, <3>3, <3>4
      <3>6. n \in 1..lastId'
        BY <1>1, <2>9, <3>1
      <3> QED BY <3>5, <3>6
    <2>7. ASSUME NEW i \in incentives', i.id \in S
          PROVE  i.quote = q
      <3>0. i.id \in 1..lastId
        BY <2>3, <2>7
      <3>1. i.id <= lastId
        <4>1. lastId \in Nat
          BY <1>1
        <4> QED BY <3>0, <4>1
      <3>2. PICK k \in incentives : k.id = i.id /\ k.quote = i.quote
        BY <2>9, <3>1
      <3> QED BY <2>3, <2>7, <3>2
    <2> QED BY <1>2, <2>1, <2>2, <2>3, <2>6, <2>7 DEF Duplicates
  <1>3. ASSUME NEW q \in Quotes, DedupRead(r, q)
        PROVE  Duplicates(r)'
    <2>1. PICK x \in Request : /\ Continue(r, x) /\ x.at = "dedup" /\ x.quote = q
                               /\ x.ids = {i.id : i \in EarnedBy(q)}
      BY <1>3, DedupReadStep
    <2>2. w'[r] = x
      BY <2>1, WorkersShape DEF Typed
    <2>3. incentives' = incentives /\ lastId' = lastId /\ EarnedBy(q)' = EarnedBy(q)
      BY <1>3 DEF DedupRead, earned, EarnedBy
    <2>4. EarnedBy(q) # {}
      BY <1>3, DedupHasSome
    <2>5. /\ \A i \in EarnedBy(q) : i \in incentives /\ i.quote = q /\ i.id \in 1..lastId
          /\ \A i, k \in incentives : i.id = k.id => i = k
      BY DEF Typed, TypeOK, EarnedBy
    <2>6. \A n \in x.ids : n \in 1..lastId /\ \E j \in EarnedBy(q) : j.id >= n
      BY <1>1, <2>1, <2>5
    <2>7. \A i \in incentives : i.id \in x.ids => i.quote = q
      BY <2>1, <2>5
    <2>8. x.ids # {}
      BY <2>1, <2>4
    <2> QED BY <2>1, <2>2, <2>3, <2>6, <2>7, <2>8 DEF Duplicates
  <1> QED BY <1>2, <1>3, ListedBy

-----------------------------------------------------------------------------
(* A quotation that stands at a step was paid in steps.                     *)
LEMMA SteppedStays ==
  ASSUME Typed, \A q \in Quotes : SteppedKept(q), [Next]_vars
  PROVE  \A q \in Quotes : SteppedKept(q)'
  <1>1. CASE UNCHANGED <<quote, stepped>>
    BY <1>1 DEF SteppedKept, Exists
  <1>2. ASSUME NEW m \in Quotes, NEW row \in Row, NEW by \in {"update", "set", "job"},
               Put(m, row, by), quote' = [quote EXCEPT ![m] = row]
        PROVE  \A q \in Quotes : SteppedKept(q)'
    <2>1. /\ \A r \in Quotes : quote'[r] = IF r = m THEN row ELSE quote[r]
          /\ \A r \in Quotes : r # m => (Exists(r)' <=> Exists(r))
      BY <1>2, RowWritten
    <2>2. /\ \A r \in Quotes : r # m => (r \in stepped' <=> r \in stepped)
          /\ row.status \in Steps => m \in stepped'
      BY <1>2, PutGives
    <2> QED BY <2>1, <2>2 DEF SteppedKept
  <1>3. ASSUME NEW m \in Quotes, NEW row \in Row, quote' = [quote EXCEPT ![m] = row],
               row.status \in Steps => Exists(m) /\ row.status = quote[m].status,
               stepped' = stepped
        PROVE  \A q \in Quotes : SteppedKept(q)'
    BY <1>3, RowWritten DEF SteppedKept
  <1>4. ASSUME NEW p \in Workers, NEW q \in Quotes, NEW s \in BOOLEAN, Create(p, q, s)
        PROVE  \A r \in Quotes : SteppedKept(r)'
    <2>1. Drawn(s) \in Row /\ Drawn(s).status \notin Steps
      BY DrawnRow, RecordShapes
    <2>2. quote' = [quote EXCEPT ![q] = Drawn(s)] /\ stepped' = stepped
      BY <1>4 DEF Create
    <2> QED BY <1>3, <2>1, <2>2
  <1>5. ASSUME NEW p \in Workers, NEW q \in Quotes, RemoveQuote(p, q)
        PROVE  \A r \in Quotes : SteppedKept(r)'
    <2>1. PICK row \in Row : /\ quote' = [quote EXCEPT ![q] = row] /\ row.status = quote[q].status
                             /\ Exists(q)
      BY <1>5, RemoveGives
    <2>2. stepped' = stepped
      BY <1>5 DEF RemoveQuote
    <2> QED BY <1>3, <2>1, <2>2
  <1>6. ASSUME NEW q \in Quotes, RunOut(q)
        PROVE  \A r \in Quotes : SteppedKept(r)'
    <2>1. PICK row \in Row : /\ quote' = [quote EXCEPT ![q] = row] /\ row.status = quote[q].status
                             /\ Exists(q)
      BY <1>6, RunOutGives
    <2>2. stepped' = stepped
      BY <1>6 DEF RunOut, history
    <2> QED BY <1>3, <2>1, <2>2
  <1>7. ASSUME NEW p \in Workers, UpdateWrite(p) \/ SetWrite(p)
        PROVE  \A r \in Quotes : SteppedKept(r)'
    <2>1. PICK q \in Quotes : q = w[p].quote
      BY <1>7 DEF Typed, RequestOK, UpdateWrite, SetWrite
    <2> QED BY <1>2, <1>7, <2>1, UpdateWriteGives, SetWriteGives
  <1>8. ASSUME NEW q \in Quotes, JobClose(q)
        PROVE  \A r \in Quotes : SteppedKept(r)'
    BY <1>2, <1>8, JobCloseGives
  <1>9. ASSUME NEW p \in Workers, NEW q \in Quotes,
               \/ \E a \in Updates[q] : UpdateRead(p, q, a)
               \/ \E s \in Asked : SetRead(p, q, s)
               \/ DedupRead(p, q)
        PROVE  UNCHANGED <<quote, stepped>>
    BY <1>9 DEF UpdateRead, SetRead, DedupRead
  <1>10. ASSUME NEW p \in Workers,
                \/ UpdateCheck(p) \/ Tell(p) \/ EarnRead(p) \/ Earn(p) \/ SyncOrder(p)
                \/ DedupWrite(p) \/ Fail(p)
         PROVE  UNCHANGED <<quote, stepped>>
    BY <1>10 DEF UpdateCheck, Tell, EarnRead, Earn, SyncOrder, DedupWrite, Fail, history
  <1>11. ASSUME \/ \E o \in Orders : Refund(o)
                \/ JobList \/ JobFail \/ JobLose \/ UNCHANGED vars
         PROVE  UNCHANGED <<quote, stepped>>
    BY <1>11 DEF Refund, JobList, JobFail, JobLose, vars, history
  <1> QED BY <1>1, <1>4, <1>5, <1>6, <1>7, <1>8, <1>9, <1>10, <1>11 DEF Next, Continuing, Job

-----------------------------------------------------------------------------
(* A step that leaves alone all that Good says of a quotation.              *)
Same(q) ==
  /\ Exists(q)' <=> Exists(q)
  /\ quote'[q].status = quote[q].status
  /\ quote[q].deleted => quote'[q].deleted
  /\ q \in told => q \in told'
  /\ q \in stepped => q \in stepped'
  /\ q \in odd => q \in odd'
  /\ writer'[q] = writer[q]
  /\ EarnedBy(q)' = {} <=> EarnedBy(q) = {}
  /\ AtMostOne(EarnedBy(q)) => AtMostOne(EarnedBy(q)')
  /\ OnlyQuote(q)' => OnlyQuote(q) /\ order'[OrderOf[q]] = order[OrderOf[q]]
  /\ \A r \in Workers : w[r].quote = q \/ w'[r].quote = q => w'[r] = w[r]
  /\ q \in job'.left => q \in job.left \/ \A r \in Workers : w[r].quote # q

LEMMA SameGood ==
  ASSUME NEW q \in Quotes, Good(q), Same(q)
  PROVE  Good(q)'
  <1> SUFFICES ASSUME q \notin odd'
               PROVE  /\ Alone(q)' /\ Current(q)' /\ ToldOrTelling(q)'
                      /\ FollowedOrPassing(q)' /\ EarnedOrEarning(q)'
    BY DEF Good
  <1>1. /\ Alone(q) /\ Current(q) /\ ToldOrTelling(q)
        /\ FollowedOrPassing(q) /\ EarnedOrEarning(q)
    BY DEF Good, Same
  <1>2. \A r \in Workers : /\ w'[r].quote = q => w'[r] = w[r] /\ w[r].quote = q
                           /\ w[r].quote = q => w'[r] = w[r] /\ w'[r].quote = q
    BY DEF Same
  <1>3. Alone(q)'
    BY <1>1, <1>2 DEF Alone, Same
  <1>4. Current(q)'
    BY <1>1, <1>2 DEF Current, Same
  <1>5. ToldOrTelling(q)'
    BY <1>1, <1>2 DEF ToldOrTelling, Same
  <1>6. FollowedOrPassing(q)'
    BY <1>1, <1>2 DEF FollowedOrPassing, Same, Passes
  <1>7. EarnedOrEarning(q)'
    BY <1>1, <1>2 DEF EarnedOrEarning, Same
  <1> QED BY <1>3, <1>4, <1>5, <1>6, <1>7

(* What Good says of a quotation when one request is all that is about it.   *)
Mine(p, q) ==
  /\ \A r \in Workers : r # p => w[r].quote # q
  /\ q \notin job.left
  /\ w[p].quote = q =>
       /\ w[p].at \in Writing => w[p].seen = quote[q].status
       /\ w[p].at \in Passing \cup {"tell"} => w[p].status = quote[q].status
  /\ Exists(q) /\ ~quote[q].deleted /\ quote[q].status = "QUOTEOUT"
       => q \in told \/ (w[p].quote = q /\ w[p].at = "tell")
  /\ Exists(q) /\ writer[q] \in {"create", "update"} /\ OnlyQuote(q)
       => order[OrderOf[q]] = quote[q].status \/ (w[p].quote = q /\ Passes(p))
  /\ q \notin stepped =>
       /\ AtMostOne(EarnedBy(q))
       /\ Exists(q) /\ quote[q].status = Paid /\ writer[q] = "update"
            => EarnedBy(q) # {} \/ (w[p].quote = q /\ w[p].at \in {"earn.read", "earn"})
       /\ w[p].quote = q => /\ w[p].at = "earn" => EarnedBy(q) = {}
                            /\ w[p].at # "dedup"

LEMMA MineGood ==
  ASSUME NEW p \in Workers, NEW q \in Quotes, Mine(p, q)'
  PROVE  Good(q)'
  <1>1. Alone(q)'
    BY DEF Mine, Alone
  <1>2. Current(q)'
    BY DEF Mine, Current
  <1>3. ToldOrTelling(q)'
    BY DEF Mine, ToldOrTelling
  <1>4. FollowedOrPassing(q)'
    BY DEF Mine, FollowedOrPassing
  <1>5. EarnedOrEarning(q)'
    BY DEF Mine, EarnedOrEarning
  <1> QED BY <1>1, <1>2, <1>3, <1>4, <1>5 DEF Good

LEMMA GoodMine ==
  ASSUME NEW p \in Workers, NEW q \in Quotes, Good(q), q \notin odd,
         w[p].quote = q \/ ~InHand(q)
  PROVE  Mine(p, q)
  <1>1. /\ Alone(q) /\ Current(q) /\ ToldOrTelling(q)
        /\ FollowedOrPassing(q) /\ EarnedOrEarning(q)
    BY DEF Good
  <1>2. /\ \A r \in Workers : r # p => w[r].quote # q
        /\ q \notin job.left
    BY <1>1 DEF Alone, InHand
  <1>3. w[p].quote = q =>
          /\ w[p].at \in Writing => w[p].seen = quote[q].status
          /\ w[p].at \in Passing \cup {"tell"} => w[p].status = quote[q].status
    BY <1>1 DEF Current
  <1>4. Exists(q) /\ ~quote[q].deleted /\ quote[q].status = "QUOTEOUT"
          => q \in told \/ (w[p].quote = q /\ w[p].at = "tell")
    BY <1>1, <1>2 DEF ToldOrTelling
  <1>5. Exists(q) /\ writer[q] \in {"create", "update"} /\ OnlyQuote(q)
          => order[OrderOf[q]] = quote[q].status \/ (w[p].quote = q /\ Passes(p))
    BY <1>1, <1>2 DEF FollowedOrPassing
  <1>6. q \notin stepped =>
          /\ AtMostOne(EarnedBy(q))
          /\ Exists(q) /\ quote[q].status = Paid /\ writer[q] = "update"
               => EarnedBy(q) # {} \/ (w[p].quote = q /\ w[p].at \in {"earn.read", "earn"})
          /\ w[p].quote = q => /\ w[p].at = "earn" => EarnedBy(q) = {}
                               /\ w[p].at # "dedup"
    BY <1>1, <1>2 DEF EarnedOrEarning
  <1> QED BY <1>2, <1>3, <1>4, <1>5, <1>6 DEF Mine

LEMMA OnlyStays ==
  ASSUME NEW q \in Quotes, RowsStay, OnlyQuote(q)'
  PROVE  OnlyQuote(q)
  BY DEF OnlyQuote, RowsStay

(* A request about another quotation.                                       *)
LEMMA AwaySame ==
  ASSUME Typed, NEW q \in Quotes, NEW m \in Quotes, q # m,
         NEW p \in Workers, NEW x \in Request, Continue(p, x),
         x.quote \in {m, None}, w[p].quote \in {m, None}, RowsStay, Exists(q)' <=> Exists(q),
         quote'[q] = quote[q], q \in told => q \in told', q \in stepped => q \in stepped',
         odd \subseteq odd', writer'[q] = writer[q], EarnedBy(q)' = EarnedBy(q),
         OnlyQuote(q) => order'[OrderOf[q]] = order[OrderOf[q]], job' = job
  PROVE  Same(q)
  <1>1. \A r \in Workers : w'[r] = IF r = p THEN x ELSE w[r]
    BY WorkersShape DEF Typed
  <1>2. q # None
    BY NoneAssumption
  <1>3. \A r \in Workers : w[r].quote = q \/ w'[r].quote = q => w'[r] = w[r]
    BY <1>1, <1>2
  <1>4. OnlyQuote(q)' => OnlyQuote(q) /\ order'[OrderOf[q]] = order[OrderOf[q]]
    BY OnlyStays
  <1> QED BY <1>3, <1>4 DEF Same

(* Only the quotation a request is about need be looked at.                 *)
LEMMA OthersGood ==
  ASSUME Typed, \A q \in Quotes : Good(q), NEW m \in Quotes, Good(m)',
         \A q \in Quotes : q # m => Same(q)
  PROVE  \A q \in Quotes : Good(q)'
  BY SameGood

LEMMA CreateGood ==
  ASSUME Typed, \A r \in Quotes : Good(r), NEW p \in Workers, NEW q \in Quotes,
         NEW s \in BOOLEAN, Create(p, q, s)
  PROVE  \A r \in Quotes : Good(r)'
  <1>1. PICK x \in Request : /\ Continue(p, x) /\ x.at = "order" /\ x.quote = q
                             /\ x.status = "QUOTEIN" /\ x.kind = "create"
    BY CreateStep
  <1>2. \A r \in Workers : w'[r] = IF r = p THEN x ELSE w[r]
    BY <1>1, WorkersShape DEF Typed
  <1>3. /\ RowsStay /\ Exists(q)' /\ quote'[q].status = "QUOTEIN"
        /\ \A r \in Quotes : r # q => quote'[r] = quote[r] /\ (Exists(r)' <=> Exists(r))
    BY DrawnRow, RowWritten DEF Create
  <1>4. /\ UNCHANGED <<order, refunded, incentives, job, told, stepped>>
        /\ writer' = [writer EXCEPT ![q] = "create"] /\ Begin(p, "create", q)
        /\ ~Exists(q)
    BY RecordShapes DEF Create, earned, Exists
  <1>5. \A r \in Quotes : EarnedBy(r)' = EarnedBy(r)
    BY <1>4 DEF EarnedBy
  <1>6. w[p] = Idle /\ odd \subseteq odd' /\ (q \notin odd' => ~InHand(q))
    BY <1>4, OddGrows
  <1>7. \A r \in Quotes : r # q => Same(r)
    <2>1. \A r \in Quotes : r # q => writer'[r] = writer[r]
      BY <1>4
    <2>2. x.quote \in {q, None} /\ w[p].quote \in {q, None}
      BY <1>1, <1>6, RecordShapes
    <2> QED BY <1>1, <1>3, <1>4, <1>5, <1>6, <2>1, <2>2, AwaySame
  <1>8. CASE q \notin odd'
    <2>1. Mine(p, q)
      BY <1>6, <1>8, GoodMine
    <2>2. EarnedBy(q) = {}
      BY <1>4 DEF Typed, TypeOK
    <2>3. Mine(p, q)'
      BY <1>1, <1>2, <1>3, <1>4, <1>5, <2>1, <2>2, RecordShapes
         DEF Mine, Writing, Passing, Passes, AtMostOne
    <2> QED BY <1>7, <2>3, MineGood, OthersGood
  <1>9. CASE q \in odd'
    <2>1. Good(q)'
      BY <1>9 DEF Good
    <2> QED BY <1>7, <2>1, OthersGood
  <1> QED BY <1>8, <1>9

(* The other requests that begin read what they need.                       *)
LEMMA ReadGood ==
  ASSUME Typed, \A r \in Quotes : Good(r), NEW p \in Workers, NEW q \in Quotes,
         \E op : Begin(p, op, q), NEW x \in Request, Continue(p, x), x.quote = q,
         \/ x.at = "update.check" /\ x.seen = quote[q].status
         \/ x.at = "set" /\ x.seen = quote[q].status
         \/ x.at = "dedup" /\ ~AtMostOne(EarnedBy(q)),
         UNCHANGED <<quote, order, earned, job, told, stepped, writer>>
  PROVE  \A r \in Quotes : Good(r)'
  <1>1. \A r \in Workers : w'[r] = IF r = p THEN x ELSE w[r]
    BY WorkersShape DEF Typed
  <1>2. w[p] = Idle /\ odd \subseteq odd' /\ (q \notin odd' => ~InHand(q))
    BY OddGrows
  <1>3. \A r \in Quotes : EarnedBy(r)' = EarnedBy(r) /\ (Exists(r)' <=> Exists(r))
    BY DEF EarnedBy, earned, Exists
  <1>4. \A r \in Quotes : r # q => Same(r)
    <2>1. x.quote \in {q, None} /\ w[p].quote \in {q, None}
      BY <1>2, RecordShapes
    <2> QED BY <1>2, <1>3, <2>1, AwaySame DEF RowsStay
  <1>5. CASE q \notin odd'
    <2>1. Mine(p, q)
      BY <1>2, <1>5, GoodMine
    <2>2. w[p].quote # q
      BY <1>2, RecordShapes, NoneAssumption
    <2>3. OnlyQuote(q)' <=> OnlyQuote(q)
      BY <1>3 DEF OnlyQuote
    <2>4. Mine(p, q)'
      BY <1>1, <1>3, <2>1, <2>2, <2>3 DEF Mine, Writing, Passing, Passes
    <2> QED BY <1>4, <2>4, MineGood, OthersGood
  <1>6. CASE q \in odd'
    <2>1. Good(q)'
      BY <1>6 DEF Good
    <2> QED BY <1>4, <2>1, OthersGood
  <1> QED BY <1>5, <1>6

(* A row of which only what Good does not look at changes.                  *)
LEMMA EditGood ==
  ASSUME Typed, \A r \in Quotes : Good(r), NEW q \in Quotes, NEW row \in Row, Exists(q),
         quote' = [quote EXCEPT ![q] = row], row.status = quote[q].status,
         quote[q].deleted => row.deleted, odd \subseteq odd',
         UNCHANGED <<order, earned, w, job, told, stepped, writer>>
  PROVE  \A r \in Quotes : Good(r)'
  <1>1. /\ RowsStay
        /\ \A r \in Quotes : quote'[r] = IF r = q THEN row ELSE quote[r]
        /\ \A r \in Quotes : Exists(r)' <=> Exists(r)
    BY RowWritten
  <1>2. \A r \in Quotes : EarnedBy(r)' = EarnedBy(r)
    BY DEF EarnedBy, earned
  <1>3. \A r \in Quotes : OnlyQuote(r)' => OnlyQuote(r)
    BY <1>1, OnlyStays
  <1>4. \A r \in Quotes : Same(r)
    BY <1>1, <1>2, <1>3 DEF Same
  <1> QED BY <1>4, SameGood

LEMMA BeginsGood ==
  ASSUME Typed, \A r \in Quotes : Good(r), NEW p \in Workers, NEW q \in Quotes,
         \/ \E s \in BOOLEAN : Create(p, q, s)
         \/ \E a \in Updates[q] : UpdateRead(p, q, a)
         \/ \E s \in Asked : SetRead(p, q, s)
         \/ RemoveQuote(p, q) \/ DedupRead(p, q)
  PROVE  \A r \in Quotes : Good(r)'
  <1>1. CASE \E s \in BOOLEAN : Create(p, q, s)
    BY <1>1, CreateGood
  <1>2. CASE \E a \in Updates[q] : UpdateRead(p, q, a)
    <2>1. PICK a \in Payload : UpdateRead(p, q, a)
      BY <1>2, AskedAssumption
    <2>2. PICK x \in Request : /\ Continue(p, x) /\ x.at = "update.check" /\ x.quote = q
                               /\ x.seen = quote[q].status
      BY <2>1, UpdateReadStep
    <2> QED BY <2>1, <2>2, ReadGood DEF UpdateRead
  <1>3. CASE \E s \in Asked : SetRead(p, q, s)
    <2>1. PICK s \in Statuses : SetRead(p, q, s)
      BY <1>3, AskedAssumption
    <2>2. PICK x \in Request : /\ Continue(p, x) /\ x.at = "set" /\ x.quote = q
                               /\ x.seen = quote[q].status
      BY <2>1, SetReadStep
    <2> QED BY <2>1, <2>2, ReadGood DEF SetRead
  <1>4. CASE DedupRead(p, q)
    <2>1. PICK x \in Request : Continue(p, x) /\ x.at = "dedup" /\ x.quote = q
      BY <1>4, DedupReadStep
    <2>2. ~AtMostOne(EarnedBy(q))
      BY <1>4, DedupHasSome
    <2> QED BY <1>4, <2>1, <2>2, ReadGood DEF DedupRead
  <1>5. CASE RemoveQuote(p, q)
    <2>1. PICK row \in Row : /\ quote' = [quote EXCEPT ![q] = row]
                             /\ row.status = quote[q].status /\ row.deleted = TRUE /\ Exists(q)
      BY <1>5, RemoveGives
    <2>2. UNCHANGED <<order, earned, w, job, told, stepped, writer>> /\ odd \subseteq odd'
      BY <1>5, OddGrows DEF RemoveQuote
    <2> QED BY <2>1, <2>2, EditGood
  <1> QED BY <1>1, <1>2, <1>3, <1>4, <1>5

(* The request of worker p goes on, about quotation m.                      *)
LEMMA WriteGood ==
  ASSUME Typed, \A r \in Quotes : Good(r), NEW p \in Workers, NEW q \in Quotes,
         q = w[p].quote, UpdateWrite(p) \/ SetWrite(p)
  PROVE  \A r \in Quotes : Good(r)'
  <1>1. PICK row \in Row, x \in Request, by \in {"update", "set"} :
          /\ Put(q, row, by) /\ quote' = [quote EXCEPT ![q] = row] /\ Continue(p, x)
          /\ row.deleted = quote[q].deleted
          /\ IF row.status = "QUOTEOUT" /\ w[p].seen # "QUOTEOUT"
             THEN x.at = "tell" /\ x.quote = q /\ x.status = row.status /\ x.kind = by
             ELSE \/ x = Idle /\ by = "set"
                  \/ /\ by = "update" /\ x.at = "earn.read" /\ x.quote = q
                     /\ x.status = row.status
    <2>1. CASE UpdateWrite(p)
      BY <2>1, UpdateWriteGives
    <2>2. CASE SetWrite(p)
      BY <2>2, SetWriteGives
    <2> QED BY <2>1, <2>2
  <1>2. \A r \in Workers : w'[r] = IF r = p THEN x ELSE w[r]
    BY <1>1, WorkersShape DEF Typed
  <1>3. /\ RowsStay /\ Exists(q)' /\ quote'[q] = row
        /\ \A r \in Quotes : r # q => quote'[r] = quote[r] /\ (Exists(r)' <=> Exists(r))
    BY <1>1, RowWritten
  <1>4. /\ \A r \in Quotes : r # q => /\ r \in told' <=> r \in told
                                      /\ r \in stepped' <=> r \in stepped
                                      /\ writer'[r] = writer[r]
        /\ row.status = "QUOTEOUT" /\ quote[q].status = "QUOTEOUT" => told' = told
        /\ writer'[q] = by /\ stepped \subseteq stepped'
        /\ row.status \in Steps => q \in stepped'
    BY <1>1, PutGives
  <1>5. UNCHANGED <<order, incentives, job, odd>> /\ Exists(q) /\ w[p].at \in Writing
    BY UpdateWriteGives, SetWriteGives DEF earned, Writing
  <1>6. \A r \in Quotes : EarnedBy(r)' = EarnedBy(r)
    BY <1>5 DEF EarnedBy
  <1>7. \A r \in Quotes : r # q => Same(r)
    <2>1. x.quote \in {q, None}
      BY <1>1, RecordShapes
    <2> QED BY <1>1, <1>3, <1>4, <1>5, <1>6, <2>1, AwaySame
  <1>8. CASE q \notin odd
    <2>1. Mine(p, q)
      BY <1>8, GoodMine
    <2>2. /\ \A r \in Workers : r # p => w'[r].quote # q
          /\ q \notin job'.left
      BY <1>2, <1>5, <2>1 DEF Mine
    <2>3. w'[p].quote = q =>
            /\ w'[p].at \in Writing => w'[p].seen = quote'[q].status
            /\ w'[p].at \in Passing \cup {"tell"} => w'[p].status = quote'[q].status
      BY <1>1, <1>2, <1>3, RecordShapes, NoneAssumption DEF Writing
    <2>4. Exists(q)' /\ ~quote'[q].deleted /\ quote'[q].status = "QUOTEOUT"
            => q \in told' \/ (w'[p].quote = q /\ w'[p].at = "tell")
      <3>1. w[p].seen = quote[q].status /\ w[p].at # "tell"
        BY <1>5, <2>1 DEF Mine, Writing
      <3> QED BY <1>1, <1>2, <1>3, <1>4, <1>5, <2>1, <3>1 DEF Mine
    <2>5. Exists(q)' /\ writer'[q] \in {"create", "update"} /\ OnlyQuote(q)'
            => order'[OrderOf[q]] = quote'[q].status \/ (w'[p].quote = q /\ Passes(p)')
      BY <1>1, <1>2, <1>4 DEF Passes, Passing
    <2>6. q \notin stepped' =>
            /\ AtMostOne(EarnedBy(q)')
            /\ Exists(q)' /\ quote'[q].status = Paid /\ writer'[q] = "update"
                 => EarnedBy(q)' # {} \/ (w'[p].quote = q /\ w'[p].at \in {"earn.read", "earn"})
            /\ w'[p].quote = q => /\ w'[p].at = "earn" => EarnedBy(q)' = {}
                                  /\ w'[p].at # "dedup"
      <3>1. q \notin stepped' => AtMostOne(EarnedBy(q)')
        BY <1>4, <1>6, <2>1 DEF Mine
      <3>2. w'[p].at # "earn" /\ w'[p].at # "dedup"
        BY <1>1, <1>2, RecordShapes
      <3>3. quote'[q].status = Paid /\ writer'[q] = "update"
              => w'[p].quote = q /\ w'[p].at = "earn.read"
        BY <1>1, <1>2, <1>3, <1>4, RecordShapes
      <3> QED BY <3>1, <3>2, <3>3
    <2>7. Mine(p, q)'
      BY <2>2, <2>3, <2>4, <2>5, <2>6 DEF Mine
    <2> QED BY <1>7, <2>7, MineGood, OthersGood
  <1>9. CASE q \in odd
    <2>1. Good(q)'
      BY <1>5, <1>9 DEF Good
    <2> QED BY <1>7, <2>1, OthersGood
  <1> QED BY <1>8, <1>9

(* A step that writes neither rows nor incentives.                          *)
LEMMA PassGood ==
  ASSUME Typed, \A r \in Quotes : Good(r), NEW p \in Workers, NEW q \in Quotes,
         q = w[p].quote, NEW x \in Request, Continue(p, x), x.quote \in {q, None},
         UNCHANGED <<quote, incentives, job, stepped, writer>>, odd \subseteq odd',
         \A r \in Quotes : r # q => (r \in told => r \in told'),
         \A r \in Quotes : r # q /\ OnlyQuote(r) => order'[OrderOf[r]] = order[OrderOf[r]],
         q \notin odd' /\ Mine(p, q) =>
           /\ x.quote = q =>
                /\ x.at \in Writing => x.seen = quote[q].status
                /\ x.at \in Passing \cup {"tell"} => x.status = quote[q].status
           /\ Exists(q) /\ ~quote[q].deleted /\ quote[q].status = "QUOTEOUT" => q \in told'
           /\ Exists(q) /\ writer[q] \in {"create", "update"} /\ OnlyQuote(q)
                => \/ order'[OrderOf[q]] = quote[q].status
                   \/ x.quote = q /\ x.at \in Passing
           /\ q \notin stepped =>
                /\ Exists(q) /\ quote[q].status = Paid /\ writer[q] = "update"
                     => EarnedBy(q) # {} \/ (x.quote = q /\ x.at \in {"earn.read", "earn"})
                /\ x.quote = q => /\ x.at = "earn" => EarnedBy(q) = {}
                                  /\ x.at # "dedup"
  PROVE  \A r \in Quotes : Good(r)'
  <1>1. \A r \in Workers : w'[r] = IF r = p THEN x ELSE w[r]
    BY WorkersShape DEF Typed
  <1>2. \A r \in Quotes : /\ EarnedBy(r)' = EarnedBy(r) /\ (Exists(r)' <=> Exists(r))
                          /\ OnlyQuote(r)' <=> OnlyQuote(r)
    BY DEF EarnedBy, Exists, OnlyQuote
  <1>3. \A r \in Quotes : r # q => Same(r)
    <2>1. RowsStay
      BY <1>2 DEF RowsStay
    <2> QED BY <1>2, <2>1, AwaySame
  <1>4. CASE q \notin odd'
    <2>1. Mine(p, q)
      BY <1>4, GoodMine
    <2>2. Mine(p, q)'
      BY <1>1, <1>2, <1>4, <2>1 DEF Mine, Passes
    <2> QED BY <1>3, <2>2, MineGood, OthersGood
  <1>5. CASE q \in odd'
    <2>1. Good(q)'
      BY <1>5 DEF Good
    <2> QED BY <1>3, <2>1, OthersGood
  <1> QED BY <1>4, <1>5

LEMMA CheckGood ==
  ASSUME Typed, \A r \in Quotes : Good(r), NEW p \in Workers, NEW q \in Quotes,
         q = w[p].quote, UpdateCheck(p)
  PROVE  \A r \in Quotes : Good(r)'
  <1>1. PICK x \in Request :
          /\ Continue(p, x)
          /\ x = Idle \/ (x.at = "update.write" /\ x.quote = w[p].quote /\ x.seen = w[p].seen)
    BY UpdateCheckStep
  <1>2. UNCHANGED <<quote, order, incentives, job, told, stepped, writer, odd>>
        /\ w[p].at = "update.check"
    BY DEF UpdateCheck, earned, history
  <1>3. x.quote \in {q, None} /\ x.at \notin Passing \cup {"tell", "dedup"}
    BY <1>1, RecordShapes DEF Passing
  <1>4. Mine(p, q) =>
          /\ x.quote = q => (x.at \in Writing => x.seen = quote[q].status)
          /\ Exists(q) /\ ~quote[q].deleted /\ quote[q].status = "QUOTEOUT" => q \in told
          /\ Exists(q) /\ writer[q] \in {"create", "update"} /\ OnlyQuote(q)
               => order[OrderOf[q]] = quote[q].status
          /\ q \notin stepped =>
               (Exists(q) /\ quote[q].status = Paid /\ writer[q] = "update" => EarnedBy(q) # {})
    BY <1>1, <1>2, RecordShapes, NoneAssumption DEF Mine, Writing, Passes, Passing
  <1>5. x.at # "earn"
    BY <1>3 DEF Passing
  <1> QED BY <1>1, <1>2, <1>3, <1>4, <1>5, PassGood

LEMMA TellGood ==
  ASSUME Typed, \A r \in Quotes : Good(r), NEW p \in Workers, NEW q \in Quotes,
         q = w[p].quote, Tell(p)
  PROVE  \A r \in Quotes : Good(r)'
  <1>1. PICK x \in Request :
          /\ Continue(p, x)
          /\ \/ x = Idle /\ w[p].kind = "set"
             \/ /\ x.at = "earn.read" /\ x.quote = w[p].quote
                /\ x.status = w[p].status /\ w[p].kind = "update"
    BY TellStep
  <1>2. UNCHANGED <<quote, order, incentives, job, stepped, writer, odd>> /\ w[p].at = "tell"
        /\ told \subseteq told'
        /\ (quote[q].status = "QUOTEOUT" /\ ~quote[q].deleted => q \in told')
    BY DEF Tell, earned
  <1>3. x.quote \in {q, None} /\ x.at \notin Writing /\ x.at # "earn" /\ x.at # "dedup"
    BY <1>1, RecordShapes DEF Writing
  <1>4. Mine(p, q) =>
          /\ x.quote = q => x.status = quote[q].status
          /\ Exists(q) /\ writer[q] \in {"create", "update"} /\ OnlyQuote(q)
               => order[OrderOf[q]] = quote[q].status \/ (x.quote = q /\ x.at \in Passing)
          /\ q \notin stepped =>
               (Exists(q) /\ quote[q].status = Paid /\ writer[q] = "update" => EarnedBy(q) # {})
    BY <1>1, <1>2, RecordShapes, NoneAssumption DEF Mine, Passes, Passing
  <1> QED BY <1>1, <1>2, <1>3, <1>4, PassGood

LEMMA EarnReadGood ==
  ASSUME Typed, \A r \in Quotes : SteppedKept(r), \A r \in Quotes : Good(r),
         NEW p \in Workers, NEW q \in Quotes, q = w[p].quote, EarnRead(p)
  PROVE  \A r \in Quotes : Good(r)'
  <1>1. /\ w[p].at = "earn.read"
        /\ \E x \in Request :
             /\ Continue(p, x) /\ x.quote = q /\ x.status = w[p].status
             /\ \/ /\ x.at = "earn"
                   /\ \/ w[p].status \in Steps
                      \/ w[p].status = Paid /\ EarnedBy(q) = {}
                \/ /\ x.at = "order"
                   /\ ~(w[p].status = Paid /\ EarnedBy(q) = {})
    BY EarnReadStep
  <1>2. PICK x \in Request :
             /\ Continue(p, x) /\ x.quote = q /\ x.status = w[p].status
             /\ \/ /\ x.at = "earn"
                   /\ \/ w[p].status \in Steps
                      \/ w[p].status = Paid /\ EarnedBy(q) = {}
                \/ /\ x.at = "order"
                   /\ ~(w[p].status = Paid /\ EarnedBy(q) = {})
    BY <1>1
  <1>3. UNCHANGED <<quote, order, incentives, job, told, stepped, writer, odd>>
    BY DEF EarnRead, earned, history
  <1>4. Exists(q) /\ SteppedKept(q)
    BY <1>1 DEF Typed, RequestOK
  <1>5. x.at \in Passing /\ x.at \notin Writing /\ x.at # "dedup" /\ w[p].at \in Passing
    BY <1>1, <1>2 DEF Passing, Writing
  <1>6. Mine(p, q) => /\ x.status = quote[q].status
                      /\ Exists(q) /\ ~quote[q].deleted /\ quote[q].status = "QUOTEOUT" => q \in told
    BY <1>1, <1>2, <1>5 DEF Mine
  <1>7. Mine(p, q) /\ q \notin stepped =>
          /\ quote[q].status = Paid => EarnedBy(q) # {} \/ x.at = "earn"
          /\ x.at = "earn" => EarnedBy(q) = {}
    BY <1>2, <1>4, <1>6 DEF SteppedKept
  <1> QED BY <1>2, <1>3, <1>5, <1>6, <1>7, PassGood

LEMMA SyncGood ==
  ASSUME Typed, \A r \in Quotes : Good(r), NEW p \in Workers, NEW q \in Quotes,
         q = w[p].quote, SyncOrder(p)
  PROVE  \A r \in Quotes : Good(r)'
  <1>1. UNCHANGED <<quote, incentives, job, told, stepped, writer, odd>>
        /\ w[p].at = "order" /\ Finish(p)
        /\ order' = [order EXCEPT ![OrderOf[q]] = w[p].status]
    BY DEF SyncOrder, earned, history
  <1>2. Continue(p, Idle) /\ Idle \in Request /\ Idle.quote = None /\ Idle.at = "idle"
    BY <1>1, IdleOK, RecordShapes DEF Typed
  <1>3. OrderOf[q] \in Orders /\ order \in [Orders -> Statuses \cup {None}]
    BY Rest DEF Orders
  <1>4. \A r \in Quotes : r # q /\ OnlyQuote(r) => order'[OrderOf[r]] = order[OrderOf[r]]
    <2>1. Exists(q)
      BY <1>1 DEF Typed, RequestOK
    <2>2. \A r \in Quotes : r # q /\ OnlyQuote(r) => OrderOf[r] # OrderOf[q]
      BY <2>1 DEF OnlyQuote
    <2>3. \A r \in Quotes : OrderOf[r] \in Orders
      BY DEF Orders
    <2> QED BY <1>1, <1>3, <2>2, <2>3
  <1>5. Mine(p, q) =>
          /\ Exists(q) /\ ~quote[q].deleted /\ quote[q].status = "QUOTEOUT" => q \in told
          /\ order'[OrderOf[q]] = quote[q].status
          /\ q \notin stepped =>
               (Exists(q) /\ quote[q].status = Paid /\ writer[q] = "update" => EarnedBy(q) # {})
    BY <1>1, <1>3 DEF Mine, Passing
  <1>6. Idle.quote # q
    BY <1>2, NoneAssumption
  <1> QED BY <1>1, <1>2, <1>4, <1>5, <1>6, PassGood

LEMMA FailGood ==
  ASSUME Typed, \A r \in Quotes : Good(r), NEW p \in Workers, NEW q \in Quotes,
         q = w[p].quote, Fail(p)
  PROVE  \A r \in Quotes : Good(r)'
  <1>1. UNCHANGED <<quote, order, incentives, job, told, stepped, writer>> /\ Finish(p)
        /\ odd' = odd \cup {q}
    BY DEF Fail, earned
  <1>2. Continue(p, Idle) /\ Idle \in Request /\ Idle.quote = None
    BY <1>1, IdleOK, RecordShapes DEF Typed
  <1> QED BY <1>1, <1>2, PassGood

(* The incentive a request adds or those it removes.                        *)
LEMMA EarnGood ==
  ASSUME Typed, \A r \in Quotes : Good(r), NEW p \in Workers, NEW q \in Quotes,
         q = w[p].quote, Earn(p)
  PROVE  \A r \in Quotes : Good(r)'
  <1>1. w[p].at = "earn"
        /\ \E x \in Request : Continue(p, x) /\ x.quote = q /\ x.status = w[p].status /\ x.at = "order"
    BY EarnStep
  <1>2. PICK x \in Request :
          Continue(p, x) /\ x.quote = q /\ x.status = w[p].status /\ x.at = "order"
    BY <1>1
  <1>3. PICK i \in Incentive : /\ EarnedBy(q)' = EarnedBy(q) \cup {i}
                               /\ \A r \in Quotes : r # q => EarnedBy(r)' = EarnedBy(r)
    BY EarnGives
  <1>4. UNCHANGED <<quote, order, job, told, stepped, writer, odd>>
    BY DEF Earn, history
  <1>5. \A r \in Workers : w'[r] = IF r = p THEN x ELSE w[r]
    BY <1>2, WorkersShape DEF Typed
  <1>6. RowsStay /\ \A r \in Quotes : /\ Exists(r)' <=> Exists(r)
                                      /\ OnlyQuote(r)' <=> OnlyQuote(r)
    BY <1>4 DEF RowsStay, Exists, OnlyQuote
  <1>7. \A r \in Quotes : r # q => Same(r)
    BY <1>2, <1>3, <1>4, <1>6, AwaySame
  <1>8. CASE q \notin odd
    <2>1. Mine(p, q)
      BY <1>8, GoodMine
    <2>2. q \notin stepped => EarnedBy(q)' = {i}
      BY <1>1, <1>3, <2>1 DEF Mine
    <2>3. q \notin stepped => AtMostOne(EarnedBy(q)') /\ EarnedBy(q)' # {}
      BY <2>2 DEF AtMostOne
    <2>4. Mine(p, q)'
      BY <1>1, <1>2, <1>4, <1>5, <1>6, <2>1, <2>3 DEF Mine, Passing, Writing, Passes
    <2> QED BY <1>7, <2>4, MineGood, OthersGood
  <1>9. CASE q \in odd
    <2>1. Good(q)'
      BY <1>4, <1>9 DEF Good
    <2> QED BY <1>7, <2>1, OthersGood
  <1> QED BY <1>8, <1>9

LEMMA DedupGood ==
  ASSUME Typed, \A r \in Workers : Duplicates(r), \A r \in Quotes : Good(r),
         NEW p \in Workers, NEW q \in Quotes, q = w[p].quote, DedupWrite(p)
  PROVE  \A r \in Quotes : Good(r)'
  <1>1. w[p].at = "dedup" /\ Finish(p)
        /\ UNCHANGED <<quote, order, job, told, stepped, writer, odd>>
    BY DEF DedupWrite, history
  <1>2. Continue(p, Idle) /\ Idle \in Request /\ Idle.quote = None
    BY <1>1, IdleOK, RecordShapes DEF Typed
  <1>3. \A r \in Quotes : r # q => EarnedBy(r)' = EarnedBy(r)
    BY DedupGives
  <1>5. \A r \in Workers : w'[r] = IF r = p THEN Idle ELSE w[r]
    BY <1>2, WorkersShape DEF Typed
  <1>6. RowsStay /\ \A r \in Quotes : /\ Exists(r)' <=> Exists(r)
                                      /\ OnlyQuote(r)' <=> OnlyQuote(r)
    BY <1>1 DEF RowsStay, Exists, OnlyQuote
  <1>7. \A r \in Quotes : r # q => Same(r)
    BY <1>1, <1>2, <1>3, <1>6, AwaySame
  <1>8. CASE q \notin odd
    <2>1. Mine(p, q)
      BY <1>8, GoodMine
    <2>2. q \in stepped
      BY <1>1, <2>1 DEF Mine
    <2>3. Idle.quote # q
      BY <1>2, NoneAssumption
    <2>4. Mine(p, q)'
      BY <1>1, <1>5, <1>6, <2>1, <2>2, <2>3 DEF Mine, Passing, Writing, Passes
    <2> QED BY <1>7, <2>4, MineGood, OthersGood
  <1>9. CASE q \in odd
    <2>1. Good(q)'
      BY <1>1, <1>9 DEF Good
    <2> QED BY <1>7, <2>1, OthersGood
  <1> QED BY <1>8, <1>9

LEMMA ContinuingGood ==
  ASSUME Typed, \A r \in Workers : Duplicates(r), \A r \in Quotes : SteppedKept(r),
         \A r \in Quotes : Good(r), NEW p \in Workers, Continuing(p) \/ Fail(p)
  PROVE  \A r \in Quotes : Good(r)'
  <1>1. w[p].at # "idle"
    BY DEF Continuing, Fail, UpdateCheck, UpdateWrite, Tell, EarnRead, Earn, SyncOrder, SetWrite,
           DedupWrite
  <1>2. PICK q \in Quotes : q = w[p].quote
    BY <1>1 DEF Typed, RequestOK
  <1> QED BY <1>2, WriteGood, CheckGood, TellGood, EarnReadGood, EarnGood, SyncGood, DedupGood,
             FailGood DEF Continuing

(* The midnight job touches nothing a request has in hand, unless they       *)
(* overlap.                                                                 *)
LEMMA JobListGood ==
  ASSUME Typed, \A r \in Quotes : Good(r), JobList
  PROVE  \A r \in Quotes : Good(r)'
  <1>1. /\ UNCHANGED <<quote, order, refunded, earned, w, events, told, stepped, writer, raced>>
        /\ odd \subseteq odd'
        /\ \A q \in job'.left : q \notin odd' => \A p \in Workers : w[p].quote # q
    BY JobListGives
  <1>2. \A r \in Quotes : /\ Exists(r)' <=> Exists(r)
                          /\ OnlyQuote(r)' <=> OnlyQuote(r)
                          /\ EarnedBy(r)' = EarnedBy(r)
    BY <1>1 DEF Exists, OnlyQuote, EarnedBy, earned
  <1>3. \A r \in Quotes : r \notin odd' => Same(r)
    BY <1>1, <1>2 DEF Same
  <1>4. \A r \in Quotes : r \in odd' => Good(r)'
    BY DEF Good
  <1> QED BY <1>3, <1>4, SameGood

LEMMA JobCloseGood ==
  ASSUME Typed, \A r \in Quotes : Good(r), NEW q \in Quotes, JobClose(q)
  PROVE  \A r \in Quotes : Good(r)'
  <1>1. PICK row \in Row : /\ Put(q, row, "job") /\ quote' = [quote EXCEPT ![q] = row]
                           /\ row.status = "CLOSED"
    BY JobCloseGives
  <1>2. /\ UNCHANGED <<order, incentives, w, odd>>
        /\ q \in job.left /\ job'.left \subseteq job.left /\ Exists(q)
    BY JobCloseGives DEF earned
  <1>3. /\ RowsStay /\ Exists(q)' /\ quote'[q] = row
        /\ \A r \in Quotes : r # q => quote'[r] = quote[r]
        /\ \A r \in Quotes : Exists(r)' <=> Exists(r)
    BY <1>1, <1>2, RowWritten
  <1>4. /\ \A r \in Quotes : r # q => /\ r \in told' <=> r \in told
                                      /\ r \in stepped' <=> r \in stepped
                                      /\ writer'[r] = writer[r]
        /\ writer'[q] = "job" /\ stepped \subseteq stepped'
    BY <1>1, PutGives
  <1>5. \A r \in Quotes : /\ EarnedBy(r)' = EarnedBy(r)
                          /\ OnlyQuote(r)' <=> OnlyQuote(r)
    BY <1>2, <1>3 DEF EarnedBy, OnlyQuote
  <1>6. \A r \in Quotes : r # q => Same(r)
    BY <1>2, <1>3, <1>4, <1>5 DEF Same
  <1>7. Good(q)'
    <2> SUFFICES ASSUME q \notin odd'
                 PROVE  /\ Alone(q)' /\ Current(q)' /\ ToldOrTelling(q)'
                        /\ FollowedOrPassing(q)' /\ EarnedOrEarning(q)'
      BY DEF Good
    <2>1. Alone(q) /\ EarnedOrEarning(q)
      BY <1>2 DEF Good
    <2>2. \A p \in Workers : w'[p].quote # q
      BY <1>2, <2>1 DEF Alone
    <2>3. Alone(q)' /\ Current(q)'
      BY <2>2 DEF Alone, Current
    <2>4. ToldOrTelling(q)' /\ FollowedOrPassing(q)'
      BY <1>1, <1>3, <1>4 DEF ToldOrTelling, FollowedOrPassing
    <2>5. EarnedOrEarning(q)'
      BY <1>4, <1>5, <2>1, <2>2 DEF EarnedOrEarning
    <2> QED BY <2>3, <2>4, <2>5
  <1> QED BY <1>6, <1>7, OthersGood

LEMMA JobGood ==
  ASSUME Typed, \A r \in Quotes : Good(r),
         \/ \E q \in Quotes : RunOut(q) \/ JobClose(q)
         \/ \E o \in Orders : Refund(o)
         \/ JobList \/ JobLose \/ JobFail \/ UNCHANGED vars
  PROVE  \A r \in Quotes : Good(r)'
  <1>1. ASSUME NEW q \in Quotes, RunOut(q)
        PROVE  \A r \in Quotes : Good(r)'
    <2>1. PICK row \in Row : /\ quote' = [quote EXCEPT ![q] = row] /\ row.status = quote[q].status
                             /\ row.deleted = quote[q].deleted /\ Exists(q)
      BY <1>1, RunOutGives
    <2>2. UNCHANGED <<order, earned, w, job, told, stepped, writer, odd>>
      BY <1>1 DEF RunOut, history
    <2> QED BY <2>1, <2>2, EditGood
  <1>2. ASSUME UNCHANGED <<quote, order, w, told, stepped, writer, odd>>, job'.left \subseteq job.left,
               \A r \in Quotes : /\ EarnedBy(r)' = {} <=> EarnedBy(r) = {}
                                 /\ AtMostOne(EarnedBy(r)) => AtMostOne(EarnedBy(r)')
        PROVE  \A r \in Quotes : Good(r)'
    <2>1. \A r \in Quotes : (Exists(r)' <=> Exists(r)) /\ (OnlyQuote(r)' <=> OnlyQuote(r))
      BY <1>2 DEF Exists, OnlyQuote
    <2>2. \A r \in Quotes : Same(r)
      BY <1>2, <2>1 DEF Same
    <2> QED BY <2>2, SameGood
  <1>3. ASSUME UNCHANGED <<quote, order, incentives, w, told, stepped, writer, odd>>,
               job'.left \subseteq job.left
        PROVE  \A r \in Quotes : Good(r)'
    <2>1. \A r \in Quotes : EarnedBy(r)' = EarnedBy(r)
      BY <1>3 DEF EarnedBy
    <2> QED BY <1>2, <1>3, <2>1
  <1>4. CASE \E o \in Orders : Refund(o)
    BY <1>3, <1>4 DEF Refund, earned, history
  <1>5. CASE JobLose
    BY <1>2, <1>5, LoseDistinct DEF JobLose, history
  <1>6. CASE JobFail
    <2>1. PICK j \in [at : {"idle", "close", "stop", "lose"}, left : SUBSET Quotes] : j = job
      BY Rest
    <2>2. job'.left = job.left
      BY <1>6, <2>1 DEF JobFail
    <2> QED BY <1>3, <1>6, <2>2 DEF JobFail, earned, history
  <1>7. CASE UNCHANGED vars
    BY <1>3, <1>7 DEF vars
  <1> QED BY <1>1, <1>4, <1>5, <1>6, <1>7, JobListGood, JobCloseGood

LEMMA NextGood ==
  ASSUME Typed, \A r \in Workers : Duplicates(r), \A r \in Quotes : SteppedKept(r),
         \A r \in Quotes : Good(r), [Next]_vars
  PROVE  \A r \in Quotes : Good(r)'
  BY BeginsGood, ContinuingGood, JobGood DEF Next, Job

LEMMA InitGood ==
  ASSUME Init
  PROVE  /\ \A r \in Workers : Duplicates(r)
         /\ \A q \in Quotes : SteppedKept(q) /\ Good(q)
  <1>1. /\ \A p \in Workers : w[p] = Idle
        /\ incentives = {} /\ job.left = {} /\ told = {} /\ order \in [Orders -> {"QUOTEIN", None}]
        /\ \A q \in Quotes : quote[q] \in {Absent, Drawn(FALSE)}
    BY DEF Init
  <1>2. \A q \in Quotes : Exists(q) => quote[q].status = "QUOTEIN"
    BY <1>1, RecordShapes, DrawnRow DEF Exists
  <1>3. \A q \in Quotes : /\ EarnedBy(q) = {}
                          /\ Exists(q) => order[OrderOf[q]] = "QUOTEIN"
    BY <1>1 DEF EarnedBy, Init, Orders
  <1>4. \A p \in Workers : w[p].at = "idle" /\ \A q \in Quotes : w[p].quote # q
    BY <1>1, RecordShapes, NoneAssumption
  <1>5. \A p \in Workers : Duplicates(p)
    BY <1>4 DEF Duplicates
  <1>6. ASSUME NEW q \in Quotes
        PROVE  SteppedKept(q) /\ Good(q)
    <2>1. SteppedKept(q)
      BY <1>2, RecordShapes DEF SteppedKept
    <2>2. Alone(q) /\ Current(q)
      BY <1>1, <1>4 DEF Alone, Current
    <2>3. ToldOrTelling(q) /\ FollowedOrPassing(q)
      BY <1>2, <1>3, RecordShapes DEF ToldOrTelling, FollowedOrPassing
    <2>4. EarnedOrEarning(q)
      BY <1>2, <1>3, <1>4, RecordShapes DEF EarnedOrEarning, AtMostOne
    <2> QED BY <2>1, <2>2, <2>3, <2>4 DEF Good
  <1> QED BY <1>5, <1>6

-----------------------------------------------------------------------------
(* Receipt numbers.                                                         *)

(* A quotation's receipt numbers are none or those it had.                  *)
LEMMA ReceiptsKept ==
  ASSUME ReceiptsDiffer, raced' = raced,
         \A q \in Quotes :
           Exists(q)' => \/ /\ Exists(q) /\ quote'[q].receipt = quote[q].receipt
                            /\ quote'[q].receipts = quote[q].receipts
                         \/ quote'[q].receipt = None /\ quote'[q].receipts = {}
  PROVE  ReceiptsDiffer'
  <1> SUFFICES ASSUME ~raced', NEW q \in Quotes, NEW r \in Quotes, q # r, Exists(q)', Exists(r)'
               PROVE  /\ quote'[q].receipt = quote'[r].receipt => quote'[q].receipt = None
                      /\ quote'[q].receipts \cap quote'[r].receipts = {}
    BY DEF ReceiptsDiffer
  <1>1. Exists(q) /\ Exists(r) => /\ quote[q].receipt = quote[r].receipt => quote[q].receipt = None
                                  /\ quote[q].receipts \cap quote[r].receipts = {}
    BY DEF ReceiptsDiffer
  <1> QED BY <1>1

LEMMA RowReceiptsKept ==
  ASSUME Typed, ReceiptsDiffer, raced' = raced, NEW q \in Quotes, NEW row \in Row,
         quote' = [quote EXCEPT ![q] = row],
         \/ Exists(q) /\ row.receipt = quote[q].receipt /\ row.receipts = quote[q].receipts
         \/ row.receipt = None /\ row.receipts = {}
  PROVE  ReceiptsDiffer'
  BY RowWritten, ReceiptsKept

LEMMA WriteReceipts ==
  ASSUME Typed, ReceiptsDiffer, NEW p \in Workers, UpdateWrite(p)
  PROVE  ReceiptsDiffer'
  <1>1. PICK q \in Quotes : q = w[p].quote
    BY DEF Typed, RequestOK, UpdateWrite
  <1>2. PICK row \in Row : row = Written(p) /\ quote' = [quote EXCEPT ![q] = row] /\ Exists(q)
    BY <1>1, UpdateWriteGives
  <1>3. raced' = (raced \/ Taken(q, w[p].asked))
    BY <1>1 DEF UpdateWrite
  <1>4. PICK a \in Payload : a = w[p].asked
    BY Rest, RequestFields
  <1>5. /\ row.receipt = IF a.receipt = None THEN quote[q].receipt ELSE a.receipt
        /\ row.receipts \in {quote[q].receipts, quote[q].receipts \cup a.receipts}
    BY <1>1, <1>2, <1>4, WrittenRow DEF Typed
  <1>6. /\ Exists(q)' /\ quote'[q] = row
        /\ \A r \in Quotes : r # q => quote'[r] = quote[r] /\ (Exists(r)' <=> Exists(r))
    BY <1>2, RowWritten
  <1>7. CASE ~raced'
    <2>1. ~raced /\ ~Taken(q, a)
      BY <1>3, <1>4, <1>7
    <2>2. ASSUME NEW r \in Quotes, r # q, Exists(r)
          PROVE  /\ row.receipt = quote[r].receipt => row.receipt = None
                 /\ row.receipts \cap quote[r].receipts = {}
      <3>1. /\ quote[q].receipt = quote[r].receipt => quote[q].receipt = None
            /\ quote[q].receipts \cap quote[r].receipts = {}
        BY <1>2, <2>1, <2>2 DEF ReceiptsDiffer
      <3>2. /\ a.receipt # None => quote[r].receipt # a.receipt
            /\ quote[r].receipts \cap a.receipts = {}
        BY <2>1, <2>2 DEF Taken
      <3> QED BY <1>5, <3>1, <3>2
    <2>3. ASSUME NEW r \in Quotes, NEW s \in Quotes, r # s, Exists(r)', Exists(s)'
          PROVE  /\ quote'[r].receipt = quote'[s].receipt => quote'[r].receipt = None
                 /\ quote'[r].receipts \cap quote'[s].receipts = {}
      <3>1. CASE r = q
        BY <1>6, <2>2, <2>3, <3>1
      <3>2. CASE s = q
        BY <1>6, <2>2, <2>3, <3>2
      <3>3. CASE r # q /\ s # q
        BY <1>6, <2>1, <2>3, <3>3 DEF ReceiptsDiffer
      <3> QED BY <3>1, <3>2, <3>3
    <2> QED BY <2>3 DEF ReceiptsDiffer
  <1>8. CASE raced'
    BY <1>8 DEF ReceiptsDiffer
  <1> QED BY <1>7, <1>8

LEMMA NextReceipts ==
  ASSUME Typed, ReceiptsDiffer, [Next]_vars
  PROVE  ReceiptsDiffer'
  <1>1. CASE UNCHANGED <<quote, raced>>
    BY <1>1 DEF ReceiptsDiffer, Exists
  <1>2. ASSUME NEW p \in Workers, NEW q \in Quotes, NEW s \in BOOLEAN, Create(p, q, s)
        PROVE  ReceiptsDiffer'
    BY <1>2, DrawnRow, RowReceiptsKept DEF Create
  <1>3. ASSUME NEW p \in Workers, NEW q \in Quotes, RemoveQuote(p, q)
        PROVE  ReceiptsDiffer'
    <2>1. raced' = raced
      BY <1>3 DEF RemoveQuote
    <2> QED BY <1>3, <2>1, RemoveGives, RowReceiptsKept
  <1>4. ASSUME NEW q \in Quotes, RunOut(q)
        PROVE  ReceiptsDiffer'
    <2>1. raced' = raced
      BY <1>4 DEF RunOut, history
    <2> QED BY <1>4, <2>1, RunOutGives, RowReceiptsKept
  <1>5. ASSUME NEW q \in Quotes, JobClose(q)
        PROVE  ReceiptsDiffer'
    BY <1>5, JobCloseGives, RowReceiptsKept
  <1>6. ASSUME NEW p \in Workers, SetWrite(p)
        PROVE  ReceiptsDiffer'
    <2>1. PICK q \in Quotes : q = w[p].quote
      BY <1>6 DEF Typed, RequestOK, SetWrite
    <2> QED BY <1>6, <2>1, SetWriteGives, RowReceiptsKept
  <1>9. ASSUME NEW p \in Workers, NEW q \in Quotes,
               \/ \E a \in Updates[q] : UpdateRead(p, q, a)
               \/ \E s \in Asked : SetRead(p, q, s)
               \/ DedupRead(p, q)
        PROVE  UNCHANGED <<quote, raced>>
    BY <1>9 DEF UpdateRead, SetRead, DedupRead
  <1>10. ASSUME NEW p \in Workers,
                \/ UpdateCheck(p) \/ Tell(p) \/ EarnRead(p) \/ Earn(p) \/ SyncOrder(p)
                \/ DedupWrite(p) \/ Fail(p)
         PROVE  UNCHANGED <<quote, raced>>
    BY <1>10 DEF UpdateCheck, Tell, EarnRead, Earn, SyncOrder, DedupWrite, Fail, history
  <1>11. ASSUME \/ \E o \in Orders : Refund(o)
                \/ JobList \/ JobFail \/ JobLose \/ UNCHANGED vars
         PROVE  UNCHANGED <<quote, raced>>
    BY <1>11 DEF Refund, JobList, JobFail, JobLose, vars, history
  <1> QED BY <1>1, <1>2, <1>3, <1>4, <1>5, <1>6, <1>9, <1>10, <1>11, WriteReceipts
          DEF Next, Continuing, Job

LEMMA InitReceipts == Init => ReceiptsDiffer
  <1> SUFFICES ASSUME Init PROVE ReceiptsDiffer
    OBVIOUS
  <1>1. \A q \in Quotes : quote[q] \in {Absent, Drawn(FALSE)}
    BY DEF Init
  <1>2. \A q \in Quotes : Exists(q) => quote[q].receipt = None /\ quote[q].receipts = {}
    BY <1>1, RecordShapes, DrawnRow DEF Exists
  <1> QED BY <1>2 DEF ReceiptsDiffer

-----------------------------------------------------------------------------
Consistent ==
  /\ Typed
  /\ \A p \in Workers : Duplicates(p)
  /\ \A q \in Quotes : SteppedKept(q)
  /\ \A q \in Quotes : Good(q)
  /\ ReceiptsDiffer

LEMMA SpecConsistent == Spec => []Consistent
  <1>1. Init => Consistent
    BY InitTyped, InitGood, InitReceipts DEF Consistent
  <1>2. Consistent /\ [Next]_vars => Consistent'
    <2> SUFFICES ASSUME Consistent, [Next]_vars PROVE Consistent'
      OBVIOUS
    <2>1. /\ Typed /\ ReceiptsDiffer /\ \A p \in Workers : Duplicates(p)
          /\ \A q \in Quotes : SteppedKept(q) /\ Good(q)
      BY DEF Consistent
    <2>2. Typed'
      BY <2>1, NextTyped, StutterTyped
    <2>3. \A p \in Workers : Duplicates(p)'
      BY <2>1, DuplicatesStay
    <2>4. \A q \in Quotes : SteppedKept(q)'
      BY <2>1, SteppedStays
    <2>5. \A q \in Quotes : Good(q)'
      BY <2>1, NextGood
    <2>6. ReceiptsDiffer'
      BY <2>1, NextReceipts
    <2> QED BY <2>2, <2>3, <2>4, <2>5, <2>6 DEF Consistent
  <1> QED BY <1>1, <1>2, PTL DEF Spec

(* Quotations, requests, incentives and the job always have their shape,     *)
(* whatever requests of quotation.service.ts come together.                 *)
THEOREM SpecTypeOK == Spec => []TypeOK
  <1>1. Consistent => TypeOK
    BY DEF Consistent, Typed
  <1> QED BY <1>1, SpecConsistent, PTL

(* The customer of a quotation that is out has been told so, if no requests  *)
(* on it overlapped and none failed.                                        *)
THEOREM SpecToldWhenOut == Spec => []ToldWhenOut
  <1>1. Consistent => ToldWhenOut
    BY DEF Consistent, Good, ToldOrTelling, ToldWhenOut, Sound, AtRest, InHand
  <1> QED BY <1>1, SpecConsistent, PTL

(* The order of a single quotation stands where create or update last put    *)
(* the quotation.                                                           *)
THEOREM SpecOrderFollows == Spec => []OrderFollows
  <1>1. Consistent => OrderFollows
    BY DEF Consistent, Good, FollowedOrPassing, OnlyQuote, OrderFollows, Sound, AtRest, InHand
  <1> QED BY <1>1, SpecConsistent, PTL

(* A full payment earns one incentive, no more and no fewer.                *)
THEOREM SpecPaymentEarnsOnce == Spec => []PaymentEarnsOnce
  <1>1. Consistent => PaymentEarnsOnce
    <2> SUFFICES ASSUME Consistent, NEW q \in Quotes, Sound(q), q \notin stepped,
                        quote[q].status = Paid, writer[q] = "update"
                 PROVE  Cardinality(EarnedBy(q)) = 1
      BY DEF PaymentEarnsOnce
    <2>1. EarnedOrEarning(q) /\ Exists(q) /\ \A p \in Workers : w[p].quote # q
      BY DEF Consistent, Good, Sound, AtRest, InHand
    <2>2. AtMostOne(EarnedBy(q)) /\ EarnedBy(q) # {}
      BY <2>1 DEF EarnedOrEarning
    <2>3. PICK i : EarnedBy(q) = {i}
      BY <2>2 DEF AtMostOne
    <2> QED BY <2>3, FS_Singleton
  <1> QED BY <1>1, SpecConsistent, PTL

(* No two quotations have a receipt number in common, except when a check    *)
(* was out of date as it was used.                                          *)
THEOREM SpecReceiptsDiffer == Spec => []ReceiptsDiffer
  <1>1. Consistent => ReceiptsDiffer
    BY DEF Consistent
  <1> QED BY <1>1, SpecConsistent, PTL

(* Removing duplicates from a list that may be out of date never leaves a    *)
(* quotation without the incentive it earned.                               *)
THEOREM SpecLastIncentiveStays == Spec => LastIncentiveStays
  <1>1. Consistent /\ [Next]_vars =>
          [\A q \in Quotes : EarnedBy(q) # {} => EarnedBy(q)' # {}]_vars
    BY NextOnward DEF Consistent, Onward
  <1> QED BY <1>1, SpecConsistent, PTL DEF Spec, LastIncentiveStays
=============================================================================
