---------------------- MODULE VendorRegistrationProofs ----------------------
(***************************************************************************)
(* Theorems of VendorRegistration for every set of registrations,           *)
(* applicants and requests: the history ends where the registration stands, *)
(* accounts and approvals are as many, and no vendor lacks a name or its    *)
(* credentials.                                                             *)
(***************************************************************************)
EXTENDS VendorRegistration, TLAPS, FiniteSetTheorems, SequenceTheorems

(* What a handler holds is of the kind it looked up.                        *)
RequestOK(p) ==
  /\ w[p].at \in {"approve", "reject"} => w[p].r \in Regs /\ w[p].seen \in Pending
  /\ w[p].at \in {"delete", "token"} => w[p].r \in Regs
  /\ w[p].at \in {"register.email", "register.company", "register.write"}
       => w[p].applicant \in Applicants
  /\ w[p].at \in {"login.first", "login.late"}
       => w[p].r \in Regs /\ w[p].account \in DOMAIN vendors

Typed == TypeOK /\ \A p \in Workers : RequestOK(p)

(* Only a rejected row grows old, and while it does nobody is still about to *)
(* review it; the jobs list old rows, tokens expire before a row is          *)
(* anonymised, and only the oldest rows are.                                *)
AgesOf(r) ==
  Exists(r) =>
    /\ reg[r].age # 0 => reg[r].status = "DITOLAK"
    /\ reg[r].age = 2 => token[r].status = None \/ token[r].expired
    /\ reg[r].applicant = None => reg[r].age = 2
Undisturbed(p) ==
  w[p].at \in {"approve", "reject"} =>
    /\ reg[w[p].r].at # "absent"
    /\ Exists(w[p].r) => reg[w[p].r].age = 0
Listed ==
  /\ \A r \in jobs["documents"] : reg[r].at # "absent" /\ (Exists(r) => reg[r].age # 0)
  /\ \A r \in jobs["anonymize"] : reg[r].at # "absent" /\ (Exists(r) => reg[r].age = 2)
Ages ==
  /\ \A r \in Regs : AgesOf(r)
  /\ \A p \in Workers : Undisturbed(p)
  /\ Listed

Named == /\ \A p \in Workers : w[p].at \in {"approve", "token"} => w[p].applicant # None
         /\ NoAnonymousVendor

(* Vendors come of rows that exist or existed, and a token is issued only    *)
(* with an account.                                                         *)
Issued == \A r \in Regs : Exists(r) /\ token[r].status # None => Accounts(r) # {}
Made == \A i \in DOMAIN vendors : reg[vendors[i].r].at # "absent"
Counted == AccountsApproved /\ Issued /\ Made

-----------------------------------------------------------------------------
(* Shapes.                                                                  *)

LEMMA RecordShapes ==
  /\ \A x \in Row : /\ x.at = "row" /\ x.status \in Statuses /\ x.age \in 0..2
                    /\ x.applicant \in Applicants \cup {None} /\ x.pathsCleared \in BOOLEAN
  /\ Absent.at = "absent" /\ Deleted.at = "deleted"
  /\ Idle \in Request /\ Idle.at = "idle"
  /\ NoToken \in Token /\ NoToken.status = None /\ NoToken.account = 0
  /\ \A t \in Token : t.account \in Nat /\ t.expired \in BOOLEAN
  /\ \A v \in Vendor : v.r \in Regs
  BY DEF Row, Absent, Deleted, Idle, Request, Steps, NoToken, Token, Vendor

LEMMA RowThere ==
  ASSUME TypeOK, NEW r \in Regs
  PROVE  /\ Exists(r) <=> reg[r] \in Row
         /\ ~Exists(r) => reg[r] \in {Absent, Deleted} /\ history[r] = <<>> /\ token[r] = NoToken
  BY RecordShapes DEF TypeOK, Exists

LEMMA RowEdits ==
  ASSUME NEW x \in Row
  PROVE  /\ \A s \in Statuses : [x EXCEPT !.status = s] \in Row
         /\ \A s \in Statuses, n \in 0..2 : [x EXCEPT !.status = s, !.age = n] \in Row
         /\ \A n \in 0..2 : [x EXCEPT !.age = n] \in Row
         /\ [x EXCEPT !.pathsCleared = TRUE] \in Row
         /\ [x EXCEPT !.applicant = None] \in Row
  BY DEF Row

LEMMA NewRow ==
  ASSUME NEW a \in Applicants
  PROVE  [at |-> "row", status |-> "MENUNGGU_APPROVE", applicant |-> a, age |-> 0,
          pathsCleared |-> FALSE] \in Row
  BY DEF Row, Statuses

LEMMA TokenEdits ==
  ASSUME NEW t \in Token, NEW n \in Nat, NEW s \in {"USED", "EXPIRED"}
  PROVE  /\ [t EXCEPT !.status = s] \in Token /\ [t EXCEPT !.status = s].account = t.account
         /\ [t EXCEPT !.status = s, !.account = n] \in Token
         /\ [t EXCEPT !.status = s, !.account = n].account = n
         /\ [t EXCEPT !.expired = TRUE] \in Token
         /\ [t EXCEPT !.expired = TRUE].account = t.account
  BY DEF Token

LEMMA NewToken ==
  ASSUME NEW n \in Nat
  PROVE  [status |-> "ACTIVE", expired |-> FALSE, account |-> n] \in Token
  BY DEF Token

LEMMA VendorEdits ==
  ASSUME NEW v \in Vendor, NEW o \in {"refused", "in"}
  PROVE  /\ [v EXCEPT !.login = o] \in Vendor
         /\ [v EXCEPT !.login = o].r = v.r /\ [v EXCEPT !.login = o].by = v.by
         /\ [v EXCEPT !.login = o].applicant = v.applicant
         /\ [v EXCEPT !.login = o].cred = v.cred
  BY DEF Vendor

LEMMA RequestOf ==
  ASSUME NEW x \in Request
  PROVE  x.at \in Steps /\ x.r \in Regs \cup {None} /\ x.account \in Nat
         /\ x.applicant \in Applicants \cup {None} /\ x.seen \in Statuses \cup {None}
  BY DEF Request

LEMMA VendorsSeq ==
  ASSUME TypeOK
  PROVE  /\ Len(vendors) \in Nat /\ DOMAIN vendors = 1..Len(vendors)
         /\ \A i \in DOMAIN vendors : vendors[i] \in Vendor
  BY LenProperties, ElementOfSeq DEF TypeOK

LEMMA HistorySeq ==
  ASSUME TypeOK, NEW r \in Regs
  PROVE  /\ history[r] \in Seq(HistoryRow) /\ Len(history[r]) \in Nat
         /\ DOMAIN history[r] = 1..Len(history[r])
  BY LenProperties DEF TypeOK

-----------------------------------------------------------------------------
(* Types.                                                                   *)

(* A row is written over a row, with its history and its token.             *)
LEMMA LinksKept ==
  ASSUME TypeOK, vendors' \in Seq(Vendor), Len(vendors) <= Len(vendors'),
         reg' \in [Regs -> Row \cup {Absent, Deleted}],
         history' \in [Regs -> Seq(HistoryRow)], token' \in [Regs -> Token],
         \A r \in Regs : Exists(r)' \/ (history'[r] = <<>> /\ token'[r] = NoToken),
         \A r \in Regs : token'[r].account \in {0, token[r].account} \cup DOMAIN vendors'
  PROVE  /\ \A r \in Regs : reg'[r].at # "row" => history'[r] = <<>> /\ token'[r] = NoToken
         /\ \A r \in Regs : token'[r].account \in {0} \cup DOMAIN vendors'
  <1>1. DOMAIN vendors \subseteq DOMAIN vendors'
    <2>1. DOMAIN vendors = 1..Len(vendors) /\ Len(vendors) \in Nat
      BY VendorsSeq
    <2>2. DOMAIN vendors' = 1..Len(vendors') /\ Len(vendors') \in Nat
      BY LenProperties
    <2> QED BY <2>1, <2>2
  <1>2. \A r \in Regs : token[r].account \in {0} \cup DOMAIN vendors
    BY DEF TypeOK
  <1> QED BY <1>1, <1>2 DEF Exists

(* A step of worker p, which goes on with x.                                *)
LEMMA WorkerTyped ==
  ASSUME Typed, NEW p \in Workers, NEW x \in Request, Continue(p, x),
         x = Idle \/ RequestOK(p)',
         Len(vendors) <= Len(vendors'), TypeOK'
  PROVE  Typed'
  <1>1. \A q \in Workers : w'[q] = IF q = p THEN x ELSE w[q]
    BY DEF Typed, TypeOK, Continue
  <1>2. DOMAIN vendors \subseteq DOMAIN vendors'
    <2>1. DOMAIN vendors = 1..Len(vendors) /\ Len(vendors) \in Nat
      BY VendorsSeq DEF Typed
    <2>2. DOMAIN vendors' = 1..Len(vendors') /\ Len(vendors') \in Nat
      BY LenProperties DEF TypeOK
    <2> QED BY <2>1, <2>2
  <1>3. \A q \in Workers : RequestOK(q)'
    BY <1>1, <1>2, RecordShapes DEF Typed, RequestOK
  <1> QED BY <1>3 DEF Typed

LEMMA WorkersShape ==
  ASSUME TypeOK, NEW p \in Workers, NEW x \in Request, Continue(p, x)
  PROVE  w' \in [Workers -> Request] /\ w'[p] = x
         /\ \A q \in Workers : w'[q] = IF q = p THEN x ELSE w[q]
  BY DEF TypeOK, Continue

(* A step that touches no row, history, token or vendor.                    *)
LEMMA AsideTyped ==
  ASSUME Typed, NEW p \in Workers, NEW x \in Request, Continue(p, x),
         x = Idle \/ RequestOK(p)', requests' \in 0..MaxRequests,
         UNCHANGED <<reg, history, token, vendors, jobs>>, mailed' \subseteq Nat, tries' \in Nat
  PROVE  Typed'
  <1>1. w' \in [Workers -> Request]
    BY WorkersShape DEF Typed
  <1>2. TypeOK'
    BY <1>1 DEF Typed, TypeOK
  <1>3. Len(vendors) <= Len(vendors')
    BY VendorsSeq DEF Typed
  <1> QED BY <1>2, <1>3, WorkerTyped

LEMMA BeginCounts ==
  ASSUME Typed, NEW p \in Workers, Begin(p)
  PROVE  requests' \in 0..MaxRequests
  BY BoundAssumption DEF Typed, TypeOK, Begin

(* The requests that begin, and what they have in hand.                     *)
LEMMA RegisterCooldownStep ==
  ASSUME TypeOK, NEW p \in Workers, NEW a \in Applicants, RegisterCooldown(p, a)
  PROVE  \E x \in Request : Continue(p, x) /\ x.at = "register.email" /\ x.applicant = a
  <1> [Idle EXCEPT !.at = "register.email", !.applicant = a] \in Request
    BY DEF Idle, Request, Steps
  <1> [Idle EXCEPT !.at = "register.email", !.applicant = a].at = "register.email"
      /\ [Idle EXCEPT !.at = "register.email", !.applicant = a].applicant = a
    BY DEF Idle
  <1> QED BY DEF RegisterCooldown

LEMMA ApproveReadStep ==
  ASSUME TypeOK, NEW p \in Workers, NEW r \in Regs, NEW via \in Via, ApproveRead(p, r, via)
  PROVE  /\ Has(r, Pending)
         /\ \E x \in Request : /\ Continue(p, x) /\ x.at = "approve" /\ x.r = r
                               /\ x.applicant = reg[r].applicant /\ x.seen \in Pending
  <1>1. PICK s \in Pending : s = reg[r].status
    BY DEF ApproveRead, Has
  <1>2. PICK a \in Applicants \cup {None} : a = reg[r].applicant
    BY RowThere, RecordShapes DEF ApproveRead, Has
  <1> DEFINE x == [Idle EXCEPT !.at = "approve", !.r = r, !.applicant = a, !.seen = s,
                               !.via = via]
  <1>3. x \in Request
    BY DEF Idle, Request, Steps, Pending, Statuses
  <1>4. x.at = "approve" /\ x.r = r /\ x.applicant = a /\ x.seen = s
    BY DEF Idle
  <1>5. Continue(p, x) /\ Has(r, Pending)
    BY <1>1, <1>2 DEF ApproveRead
  <1> HIDE DEF x
  <1> QED BY <1>1, <1>2, <1>3, <1>4, <1>5

LEMMA RejectReadStep ==
  ASSUME TypeOK, NEW p \in Workers, NEW r \in Regs, RejectRead(p, r)
  PROVE  /\ Has(r, Pending)
         /\ \E x \in Request : Continue(p, x) /\ x.at = "reject" /\ x.r = r /\ x.seen \in Pending
  <1>1. PICK s \in Pending : s = reg[r].status
    BY DEF RejectRead, Has
  <1> DEFINE x == [Idle EXCEPT !.at = "reject", !.r = r, !.seen = s]
  <1>3. x \in Request
    BY DEF Idle, Request, Steps, Pending, Statuses
  <1>4. x.at = "reject" /\ x.r = r /\ x.seen = s
    BY DEF Idle
  <1>5. Continue(p, x) /\ Has(r, Pending)
    BY <1>1 DEF RejectRead
  <1> HIDE DEF x
  <1> QED BY <1>1, <1>3, <1>4, <1>5

LEMMA DeleteReadStep ==
  ASSUME TypeOK, NEW p \in Workers, NEW r \in Regs, DeleteRead(p, r)
  PROVE  \E x \in Request : Continue(p, x) /\ x.at = "delete" /\ x.r = r
  <1> DEFINE x == [Idle EXCEPT !.at = "delete", !.r = r]
  <1>3. x \in Request
    BY DEF Idle, Request, Steps
  <1>4. x.at = "delete" /\ x.r = r /\ Continue(p, x)
    BY DEF Idle, DeleteRead
  <1> HIDE DEF x
  <1> QED BY <1>3, <1>4

LEMMA TokenReadStep ==
  ASSUME TypeOK, NEW p \in Workers, NEW r \in Regs, TokenRead(p, r)
  PROVE  /\ Exists(r) /\ token[r].status = "ACTIVE" /\ ~token[r].expired
         /\ \E x \in Request : /\ Continue(p, x) /\ x.at = "token" /\ x.r = r
                               /\ x.applicant = reg[r].applicant
  <1>1. token[r].status = "ACTIVE" /\ ~token[r].expired
    BY DEF TokenRead
  <1>2. Exists(r)
    BY <1>1, RowThere, RecordShapes DEF None
  <1>3. PICK a \in Applicants \cup {None} : a = reg[r].applicant
    BY <1>2, RowThere, RecordShapes
  <1> DEFINE x == [Idle EXCEPT !.at = "token", !.r = r, !.applicant = a]
  <1>4. x \in Request
    BY DEF Idle, Request, Steps
  <1>5. x.at = "token" /\ x.r = r /\ x.applicant = a
    BY DEF Idle
  <1>6. Continue(p, x)
    BY <1>3 DEF TokenRead
  <1> HIDE DEF x
  <1> QED BY <1>1, <1>2, <1>3, <1>4, <1>5, <1>6

LEMMA LoginReadStep ==
  ASSUME TypeOK, NEW p \in Workers, NEW i \in DOMAIN vendors, LoginRead(p, i)
  PROVE  \E x \in Request : /\ Continue(p, x) /\ x.at \in {"login.first", "login.late"}
                            /\ x.r \in Regs /\ x.account = i
  <1>1. PICK r \in Regs : Continue(p, [Idle EXCEPT
          !.at = IF token[r].expired THEN "login.late" ELSE "login.first",
          !.r = r, !.account = i])
    BY DEF LoginRead
  <1>2. PICK s \in {"login.first", "login.late"} :
          s = IF token[r].expired THEN "login.late" ELSE "login.first"
    OBVIOUS
  <1>3. i \in Nat
    BY VendorsSeq
  <1> DEFINE x == [Idle EXCEPT !.at = s, !.r = r, !.account = i]
  <1>4. x \in Request
    BY <1>3 DEF Idle, Request, Steps
  <1>5. x.at = s /\ x.r = r /\ x.account = i
    BY DEF Idle
  <1>6. Continue(p, x)
    BY <1>1, <1>2
  <1> HIDE DEF x
  <1> QED BY <1>4, <1>5, <1>6

(* Every request that begins, at once.                                      *)
LEMMA GotoStep ==
  ASSUME TypeOK, NEW p \in Workers, NEW s \in Steps, Goto(p, s)
  PROVE  \E x \in Request : Continue(p, x) /\ x.at = s /\ x.applicant = w[p].applicant
  <1>1. PICK y \in Request : y = w[p]
    BY DEF TypeOK
  <1>2. [y EXCEPT !.at = s] \in Request /\ [y EXCEPT !.at = s].at = s
        /\ [y EXCEPT !.at = s].applicant = y.applicant
    BY DEF Request
  <1> QED BY <1>1, <1>2 DEF Goto

-----------------------------------------------------------------------------
(* What the steps write.                                                    *)

LEMMA EntryTyped ==
  ASSUME NEW from \in Statuses \cup {None}, NEW to \in Statuses
  PROVE  /\ [from |-> from, to |-> to] \in HistoryRow
         /\ [from |-> from, to |-> to].to = to
  BY DEF HistoryRow

(* The row r is edited to x and y goes into its history.                    *)
Edits(r, x, y) ==
  /\ reg' = [reg EXCEPT ![r] = x]
  /\ history' = [history EXCEPT ![r] = Append(@, y)]

LEMMA EditsGives ==
  ASSUME TypeOK, NEW r \in Regs, Exists(r), NEW x \in Row, NEW y \in HistoryRow,
         Edits(r, x, y)
  PROVE  /\ reg' \in [Regs -> Row \cup {Absent, Deleted}]
         /\ history' \in [Regs -> Seq(HistoryRow)]
         /\ \A q \in Regs : /\ reg'[q] = IF q = r THEN x ELSE reg[q]
                            /\ history'[q] = IF q = r THEN Append(history[q], y) ELSE history[q]
         /\ \A q \in Regs : Exists(q)' <=> Exists(q)
         /\ Len(history'[r]) = Len(history[r]) + 1 /\ history'[r] # <<>>
         /\ history'[r][Len(history[r]) + 1] = y
         /\ \A i \in DOMAIN history[r] : history'[r][i] = history[r][i]
  <1>1. history[r] \in Seq(HistoryRow) /\ DOMAIN history[r] = 1..Len(history[r])
    BY HistorySeq
  <1>2. /\ Append(history[r], y) \in Seq(HistoryRow) /\ Append(history[r], y) # <<>>
        /\ Len(Append(history[r], y)) = Len(history[r]) + 1
        /\ \A i \in DOMAIN history[r] : Append(history[r], y)[i] = history[r][i]
        /\ Append(history[r], y)[Len(history[r]) + 1] = y
    BY <1>1, AppendProperties
  <1>3. \A q \in Regs : /\ reg'[q] = IF q = r THEN x ELSE reg[q]
                        /\ history'[q] = IF q = r THEN Append(history[q], y) ELSE history[q]
    BY DEF TypeOK, Edits
  <1>4. reg' \in [Regs -> Row \cup {Absent, Deleted}] /\ history' \in [Regs -> Seq(HistoryRow)]
    BY <1>2 DEF TypeOK, Edits
  <1>5. \A q \in Regs : Exists(q)' <=> Exists(q)
    BY <1>3, RecordShapes DEF Exists
  <1> QED BY <1>2, <1>3, <1>4, <1>5

(* The row alone is edited.                                                 *)
LEMMA RowAlone ==
  ASSUME TypeOK, NEW r \in Regs, Exists(r), NEW x \in Row, reg' = [reg EXCEPT ![r] = x]
  PROVE  /\ reg' \in [Regs -> Row \cup {Absent, Deleted}]
         /\ \A q \in Regs : reg'[q] = IF q = r THEN x ELSE reg[q]
         /\ \A q \in Regs : Exists(q)' <=> Exists(q)
  BY RecordShapes DEF TypeOK, Exists

LEMMA VendorAdded ==
  ASSUME TypeOK, NEW v \in Vendor, vendors' = Append(vendors, v)
  PROVE  /\ vendors' \in Seq(Vendor) /\ Len(vendors') = Len(vendors) + 1
         /\ DOMAIN vendors' = DOMAIN vendors \cup {Len(vendors) + 1}
         /\ Len(vendors) + 1 \notin DOMAIN vendors
         /\ \A i \in DOMAIN vendors : vendors'[i] = vendors[i]
         /\ vendors'[Len(vendors) + 1] = v
  <1>1. vendors \in Seq(Vendor) /\ Len(vendors) \in Nat /\ DOMAIN vendors = 1..Len(vendors)
    BY VendorsSeq DEF TypeOK
  <1>2. /\ vendors' \in Seq(Vendor) /\ Len(vendors') = Len(vendors) + 1
        /\ \A i \in DOMAIN vendors : vendors'[i] = vendors[i]
        /\ vendors'[Len(vendors) + 1] = v
    BY <1>1, AppendProperties
  <1>3. DOMAIN vendors' = 1..Len(vendors')
    BY <1>2, LenProperties
  <1> QED BY <1>1, <1>2, <1>3

LEMMA EnteredGives ==
  ASSUME TypeOK, NEW i \in DOMAIN vendors, NEW o \in {"refused", "in"}, Entered(i, o)
  PROVE  /\ vendors' \in Seq(Vendor) /\ Len(vendors') = Len(vendors)
         /\ DOMAIN vendors' = DOMAIN vendors
         /\ \A j \in DOMAIN vendors :
              /\ vendors'[j].r = vendors[j].r /\ vendors'[j].by = vendors[j].by
              /\ vendors'[j].applicant = vendors[j].applicant
              /\ vendors'[j].cred = vendors[j].cred
  <1>1. vendors \in [1..Len(vendors) -> Vendor] /\ Len(vendors) \in Nat
        /\ DOMAIN vendors = 1..Len(vendors)
    BY VendorsSeq, LenProperties DEF TypeOK
  <1>2. PICK v \in Vendor : v = [vendors[i] EXCEPT !.login = o]
    BY <1>1, VendorEdits
  <1>3. v.r = vendors[i].r /\ v.by = vendors[i].by /\ v.applicant = vendors[i].applicant
        /\ v.cred = vendors[i].cred
    BY <1>1, <1>2, VendorEdits
  <1>4. vendors' = [vendors EXCEPT ![i] = v]
    BY <1>2 DEF Entered
  <1>5. vendors' \in [1..Len(vendors) -> Vendor]
    BY <1>1, <1>4
  <1>6. vendors' \in Seq(Vendor) /\ Len(vendors') = Len(vendors)
    BY <1>1, <1>5, IsASeq, LenProperties
  <1> QED BY <1>1, <1>3, <1>4, <1>6

LEMMA NewVendorTyped ==
  ASSUME Typed, NEW p \in Workers, w[p].at \in {"approve", "token"}, NEW cred \in Nat,
         NEW by \in {"approval", "token"}
  PROVE  /\ NewVendor(p, by, cred) \in Vendor
         /\ NewVendor(p, by, cred).r = w[p].r /\ NewVendor(p, by, cred).by = by
         /\ NewVendor(p, by, cred).applicant = w[p].applicant
         /\ NewVendor(p, by, cred).cred = cred
  <1>1. w[p].r \in Regs
    BY DEF Typed, RequestOK
  <1>2. w[p].applicant \in Applicants \cup {None}
    BY RequestOf DEF Typed, TypeOK
  <1> QED BY <1>1, <1>2 DEF NewVendor, Vendor

-----------------------------------------------------------------------------
(* Every action keeps the types.                                            *)

LEMMA FinishTyped ==
  ASSUME Typed, NEW p \in Workers, Finish(p), Len(vendors) <= Len(vendors'),
         UNCHANGED <<jobs, requests>>, mailed' \subseteq Nat, tries' \in Nat,
         vendors' \in Seq(Vendor),
         reg' \in [Regs -> Row \cup {Absent, Deleted}],
         history' \in [Regs -> Seq(HistoryRow)], token' \in [Regs -> Token],
         \A r \in Regs : Exists(r)' \/ (history'[r] = <<>> /\ token'[r] = NoToken),
         \A r \in Regs : token'[r].account \in {0, token[r].account} \cup DOMAIN vendors'
  PROVE  Typed'
  <1>1. Idle \in Request /\ Continue(p, Idle) /\ TypeOK
    BY RecordShapes DEF Finish, Typed
  <1>2. w' \in [Workers -> Request]
    BY <1>1, WorkersShape
  <1>3. /\ \A r \in Regs : reg'[r].at # "row" => history'[r] = <<>> /\ token'[r] = NoToken
        /\ \A r \in Regs : token'[r].account \in {0} \cup DOMAIN vendors'
    BY <1>1, LinksKept
  <1>4. TypeOK'
    BY <1>1, <1>2, <1>3 DEF TypeOK
  <1> QED BY <1>1, <1>4, WorkerTyped

LEMMA QuitTyped ==
  ASSUME Typed, NEW p \in Workers, NEW s, Quit(p, s)
  PROVE  Typed'
  <1>1. Idle \in Request /\ Continue(p, Idle)
    BY RecordShapes DEF Quit, Finish
  <1> QED BY <1>1, AsideTyped DEF Quit, Typed, TypeOK

LEMMA RegisterTyped ==
  ASSUME Typed, NEW p \in Workers,
         \/ \E a \in Applicants : RegisterCooldown(p, a)
         \/ RegisterEmail(p) \/ RegisterCompany(p)
  PROVE  Typed'
  <1>1. CASE \E a \in Applicants : RegisterCooldown(p, a)
    <2>1. PICK a \in Applicants : RegisterCooldown(p, a)
      BY <1>1
    <2>2. PICK x \in Request : Continue(p, x) /\ x.at = "register.email" /\ x.applicant = a
      BY <2>1, RegisterCooldownStep DEF Typed
    <2>3. RequestOK(p)'
      BY <2>2, WorkersShape DEF RequestOK, Typed
    <2> QED BY <2>1, <2>2, <2>3, BeginCounts, AsideTyped DEF RegisterCooldown, Typed, TypeOK
  <1>2. ASSUME NEW s \in {"register.company", "register.write"}, Goto(p, s),
               w[p].at \in {"register.email", "register.company"},
               UNCHANGED <<reg, history, token, vendors, mailed, jobs, requests, tries>>
        PROVE  Typed'
    <2>1. PICK x \in Request : Continue(p, x) /\ x.at = s /\ x.applicant = w[p].applicant
      BY <1>2, GotoStep DEF Typed, Steps
    <2>2. RequestOK(p)'
      BY <1>2, <2>1, WorkersShape DEF RequestOK, Typed
    <2> QED BY <1>2, <2>1, <2>2, AsideTyped DEF Typed, TypeOK
  <1>3. ASSUME Finish(p),
               UNCHANGED <<reg, history, token, vendors, mailed, jobs, requests, tries>>
        PROVE  Typed'
    BY <1>3, RecordShapes, AsideTyped DEF Finish, Typed, TypeOK
  <1> QED BY <1>1, <1>2, <1>3 DEF RegisterEmail, RegisterCompany

LEMMA RegisterWriteGives ==
  ASSUME Typed, NEW p \in Workers, NEW r \in Regs, RegisterWrite(p, r)
  PROVE  /\ reg' \in [Regs -> Row \cup {Absent, Deleted}] /\ reg[r] = Absent
         /\ history' \in [Regs -> Seq(HistoryRow)]
         /\ \A q \in Regs : q # r => reg'[q] = reg[q] /\ history'[q] = history[q]
         /\ Exists(r)' /\ reg'[r].status = "MENUNGGU_APPROVE" /\ reg'[r].age = 0
         /\ reg'[r].applicant \in Applicants
         /\ history'[r] = <<[from |-> None, to |-> "MENUNGGU_APPROVE"]>>
  <1>1. PICK a \in Applicants : a = w[p].applicant
    BY DEF RegisterWrite, Typed, RequestOK
  <1>2. PICK x \in Row : x = [at |-> "row", status |-> "MENUNGGU_APPROVE", applicant |-> a,
                              age |-> 0, pathsCleared |-> FALSE]
    BY NewRow
  <1>3. x.at = "row" /\ x.status = "MENUNGGU_APPROVE" /\ x.age = 0 /\ x.applicant = a
    BY <1>2
  <1>4. reg' = [reg EXCEPT ![r] = x] /\ reg[r] = Absent
    BY <1>1, <1>2 DEF RegisterWrite, Free
  <1>5. <<[from |-> None, to |-> "MENUNGGU_APPROVE"]>> \in Seq(HistoryRow)
    BY DEF HistoryRow, Statuses
  <1> QED BY <1>3, <1>4, <1>5 DEF RegisterWrite, Typed, TypeOK, Exists

LEMMA RegisterWriteTyped ==
  ASSUME Typed, NEW p \in Workers, NEW r \in Regs, RegisterWrite(p, r)
  PROVE  Typed'
  <1>1. \A q \in Regs : Exists(q)' \/ (history'[q] = <<>> /\ token'[q] = NoToken)
    BY RegisterWriteGives, RowThere DEF Exists, Typed, RegisterWrite
  <1>2. Len(vendors) <= Len(vendors')
    BY VendorsSeq DEF Typed, RegisterWrite
  <1> QED BY <1>1, <1>2, RegisterWriteGives, FinishTyped DEF RegisterWrite, Typed, TypeOK

(* The three edits that are told in the history.                            *)
LEMMA ReviewGives ==
  ASSUME TypeOK, NEW r \in Regs, Exists(r), NEW from \in Statuses \cup {None},
         NEW to \in Statuses, Review(r, from, to)
  PROVE  \E x \in Row, y \in HistoryRow :
           /\ Edits(r, x, y) /\ x.status = to /\ y.to = to
           /\ x.age = reg[r].age /\ x.applicant = reg[r].applicant
  <1>1. PICK z \in Row : z = reg[r]
    BY RowThere
  <1>2. PICK x \in Row : x = [z EXCEPT !.status = to]
    BY RowEdits
  <1>3. x.status = to /\ x.age = z.age /\ x.applicant = z.applicant
    BY <1>2 DEF Row
  <1>4. PICK y \in HistoryRow : y = [from |-> from, to |-> to] /\ y.to = to
    BY EntryTyped
  <1>5. Edits(r, x, y)
    BY <1>1, <1>2, <1>4 DEF Review, Edits
  <1> QED BY <1>1, <1>3, <1>4, <1>5

LEMMA RejectGives ==
  ASSUME Typed, NEW p \in Workers, NEW r \in Regs, r = w[p].r, RejectWrite(p)
  PROVE  /\ Exists(r)
         /\ \E x \in Row, y \in HistoryRow :
              /\ Edits(r, x, y) /\ x.status = "DITOLAK" /\ y.to = "DITOLAK"
              /\ x.age = 0 /\ x.applicant = reg[r].applicant
  <1>1. Exists(r) /\ w[p].seen \in Statuses
    BY DEF RejectWrite, Typed, RequestOK, Pending, Statuses
  <1>2. PICK z \in Row : z = reg[r]
    BY <1>1, RowThere DEF Typed
  <1> "DITOLAK" \in Statuses /\ 0 \in 0..2
    BY DEF Statuses
  <1>3. PICK x \in Row : x = [z EXCEPT !.status = "DITOLAK", !.age = 0]
    BY RowEdits
  <1>4. x.status = "DITOLAK" /\ x.age = 0 /\ x.applicant = z.applicant
    BY <1>3 DEF Row
  <1>5. PICK y \in HistoryRow : y = [from |-> w[p].seen, to |-> "DITOLAK"] /\ y.to = "DITOLAK"
    BY <1>1, EntryTyped DEF Statuses
  <1>6. reg' = [reg EXCEPT ![r] = x]
    BY <1>2, <1>3 DEF RejectWrite
  <1>7. Edits(r, x, y)
    BY <1>5, <1>6 DEF RejectWrite, Edits
  <1> QED BY <1>1, <1>2, <1>4, <1>5, <1>7

LEMMA DocumentsGives ==
  ASSUME TypeOK, NEW r \in Regs, Exists(r), DeleteDocuments(r)
  PROVE  \E x \in Row, y \in HistoryRow :
           /\ Edits(r, x, y) /\ y.to = "DITOLAK"
           /\ x.status = reg[r].status /\ x.age = reg[r].age
           /\ x.applicant = reg[r].applicant
  <1>2. PICK z \in Row : z = reg[r]
    BY RowThere
  <1>3. PICK x \in Row : x = [z EXCEPT !.pathsCleared = TRUE]
    BY RowEdits
  <1>4. x.status = z.status /\ x.age = z.age /\ x.applicant = z.applicant
    BY <1>3 DEF Row
  <1>5. PICK y \in HistoryRow : y = [from |-> "DITOLAK", to |-> "DITOLAK"] /\ y.to = "DITOLAK"
    BY EntryTyped DEF Statuses
  <1>7. Edits(r, x, y)
    BY <1>2, <1>3, <1>5 DEF DeleteDocuments, Edits
  <1> QED BY <1>2, <1>4, <1>5, <1>7

(* The edits that are not.                                                  *)
LEMMA AnonymizeGives ==
  ASSUME TypeOK, NEW r \in Regs, Exists(r), Anonymize(r)
  PROVE  \E x \in Row : /\ reg' = [reg EXCEPT ![r] = x] /\ x.applicant = None
                        /\ x.status = reg[r].status /\ x.age = reg[r].age
  <1>2. PICK z \in Row : z = reg[r]
    BY RowThere
  <1>3. PICK x \in Row : x = [z EXCEPT !.applicant = None]
    BY RowEdits
  <1>4. x.status = z.status /\ x.age = z.age /\ x.applicant = None
    BY <1>3 DEF Row
  <1> QED BY <1>2, <1>3, <1>4 DEF Anonymize

LEMMA GrowGives ==
  ASSUME TypeOK, NEW r \in Regs, GrowOld(r)
  PROVE  /\ Exists(r) /\ reg[r].status = "DITOLAK" /\ reg[r].age \in 0..1
         /\ \E x \in Row : /\ reg' = [reg EXCEPT ![r] = x] /\ x.applicant = reg[r].applicant
                           /\ x.status = reg[r].status /\ x.age = reg[r].age + 1
  <1>1. Exists(r) /\ reg[r].status = "DITOLAK" /\ reg[r].age < 2
    BY DEF GrowOld, Has
  <1>2. PICK z \in Row : z = reg[r]
    BY <1>1, RowThere
  <1>3. PICK n \in 0..1 : n = z.age
    BY <1>1, <1>2, RecordShapes
  <1>4. n + 1 \in 0..2
    OBVIOUS
  <1>5. PICK x \in Row : x = [z EXCEPT !.age = n + 1]
    BY <1>4, RowEdits
  <1>6. x.status = z.status /\ x.age = n + 1 /\ x.applicant = z.applicant
    BY <1>5 DEF Row
  <1> QED BY <1>1, <1>2, <1>3, <1>5, <1>6 DEF GrowOld

(* Tokens.                                                                  *)
LEMMA TokenWritten ==
  ASSUME TypeOK, NEW r \in Regs, Exists(r), NEW t \in Token, token' = [token EXCEPT ![r] = t],
         t.account \in {0, token[r].account} \cup DOMAIN vendors', UNCHANGED reg
  PROVE  /\ token' \in [Regs -> Token]
         /\ \A q \in Regs : token'[q] = IF q = r THEN t ELSE token[q]
         /\ \A q \in Regs : token'[q].account \in {0, token[q].account} \cup DOMAIN vendors'
         /\ \A q \in Regs : Exists(q)' \/ (history[q] = <<>> /\ token'[q] = NoToken)
  BY RowThere DEF TypeOK, Exists

(* What ApproveFinal does.                                                  *)
LEMMA ApproveFinalGives ==
  ASSUME Typed, NEW p \in Workers, NEW r \in Regs, r = w[p].r, ApproveFinal(p)
  PROVE  /\ Exists(r)
         /\ \E x \in Row, y \in HistoryRow :
              /\ Edits(r, x, y) /\ x.status = "DISETUJUI" /\ y.to = "DISETUJUI"
              /\ x.age = reg[r].age /\ x.applicant = reg[r].applicant
         /\ token' \in [Regs -> Token]
         /\ \A q \in Regs : token'[q] = IF q = r THEN token'[r] ELSE token[q]
         /\ token'[r].status = "ACTIVE" /\ token'[r].account = Len(vendors) + 1
         /\ \E v \in Vendor : /\ vendors' = Append(vendors, v) /\ v.r = r /\ v.by = "approval"
                              /\ v.applicant = w[p].applicant /\ v.cred = tries + 1
  <1>1. Exists(r) /\ Review(r, "PROSES_PITCHING", "DISETUJUI") /\ w[p].at = "approve"
    BY DEF ApproveFinal
  <1>2. Len(vendors) + 1 \in Nat /\ tries + 1 \in Nat
    BY VendorsSeq DEF Typed, TypeOK
  <1>3. PICK t \in Token : t = [status |-> "ACTIVE", expired |-> FALSE,
                                account |-> Len(vendors) + 1]
    BY <1>2, NewToken
  <1>4. t.status = "ACTIVE" /\ t.account = Len(vendors) + 1
    BY <1>3
  <1>5. token' = [token EXCEPT ![r] = t]
    BY <1>3 DEF ApproveFinal, IssueToken
  <1>6. vendors' = Append(vendors, NewVendor(p, "approval", tries + 1))
    BY DEF ApproveFinal
  <1>7. \E v \in Vendor : /\ vendors' = Append(vendors, v) /\ v.r = r /\ v.by = "approval"
                          /\ v.applicant = w[p].applicant /\ v.cred = tries + 1
    BY <1>1, <1>2, <1>6, NewVendorTyped
  <1>8. \E x \in Row, y \in HistoryRow :
          /\ Edits(r, x, y) /\ x.status = "DISETUJUI" /\ y.to = "DISETUJUI"
          /\ x.age = reg[r].age /\ x.applicant = reg[r].applicant
    BY <1>1, ReviewGives DEF Typed, Statuses
  <1>9. token \in [Regs -> Token]
    BY DEF Typed, TypeOK
  <1> QED BY <1>1, <1>4, <1>5, <1>7, <1>8, <1>9

(* What TokenUse does.                                                      *)
LEMMA TokenUseGives ==
  ASSUME Typed, NEW p \in Workers, NEW r \in Regs, r = w[p].r, TokenUse(p)
  PROVE  /\ Exists(r) /\ token[r].status # None
         /\ \E t \in Token : /\ token' = [token EXCEPT ![r] = t] /\ t.expired = token[r].expired
                             /\ t.account = Len(vendors) + 1
         /\ \E v \in Vendor : /\ vendors' = Append(vendors, v) /\ v.r = r /\ v.by = "token"
                              /\ v.applicant = w[p].applicant
  <1>1. w[p].at = "token" /\ token[r].status # None
    BY DEF TokenUse
  <1>2. Exists(r)
    BY <1>1, RowThere, RecordShapes DEF Typed
  <1>3. PICK u \in Token : u = token[r]
    BY DEF Typed, TypeOK
  <1>4. Len(vendors) + 1 \in Nat
    BY VendorsSeq DEF Typed
  <1>5. PICK t \in Token : t = [u EXCEPT !.status = "USED", !.account = Len(vendors) + 1]
    BY <1>4, TokenEdits
  <1>6. t.account = Len(vendors) + 1 /\ t.expired = u.expired
    BY <1>5 DEF Token
  <1>7. token' = [token EXCEPT ![r] = t]
    BY <1>3, <1>5 DEF TokenUse
  <1>8. vendors' = Append(vendors, NewVendor(p, "token", 0))
    BY DEF TokenUse
  <1>9. \E v \in Vendor : /\ vendors' = Append(vendors, v) /\ v.r = r /\ v.by = "token"
                          /\ v.applicant = w[p].applicant
    BY <1>1, <1>8, NewVendorTyped
  <1> QED BY <1>1, <1>2, <1>3, <1>6, <1>7, <1>9

(* What the login of a pending account does.                                *)
Logs(p) == LoginFirst(p) \/ LoginLate(p)

LEMMA LoginGives ==
  ASSUME Typed, NEW p \in Workers, NEW r \in Regs, r = w[p].r, Logs(p)
  PROVE  /\ Exists(r) /\ token[r].status # None
         /\ \E t \in Token : /\ token' = [token EXCEPT ![r] = t] /\ t.expired = token[r].expired
                             /\ t.account = token[r].account
         /\ w[p].account \in DOMAIN vendors
         /\ \E o \in {"refused", "in"} : Entered(w[p].account, o)
         /\ Finish(p) /\ UNCHANGED <<reg, history, mailed, jobs, requests, tries>>
  <1> SUFFICES ASSUME NEW s \in {"USED", "EXPIRED"}, NEW o \in {"refused", "in"},
                      NEW step \in {"login.first", "login.late"},
                      LoginWrite(p, step, s, o)
               PROVE  /\ Exists(r) /\ token[r].status # None
                      /\ \E t \in Token : /\ token' = [token EXCEPT ![r] = t]
                                          /\ t.expired = token[r].expired
                                          /\ t.account = token[r].account
                      /\ w[p].account \in DOMAIN vendors
                      /\ \E y \in {"refused", "in"} : Entered(w[p].account, y)
                      /\ Finish(p) /\ UNCHANGED <<reg, history, mailed, jobs, requests, tries>>
    BY DEF Logs, LoginFirst, LoginLate
  <1>1. w[p].at = step /\ token[r].status # None
    BY DEF LoginWrite
  <1>2. Exists(r)
    BY <1>1, RowThere, RecordShapes DEF Typed
  <1>3. PICK u \in Token : u = token[r]
    BY DEF Typed, TypeOK
  <1>5. PICK t \in Token : t = [u EXCEPT !.status = s]
    BY TokenEdits
  <1>6. t.account = u.account /\ t.expired = u.expired
    BY <1>5 DEF Token
  <1>7. token' = [token EXCEPT ![r] = t]
    BY <1>3, <1>5 DEF LoginWrite
  <1>8. w[p].account \in DOMAIN vendors
    BY <1>1 DEF Typed, RequestOK
  <1> QED BY <1>1, <1>2, <1>3, <1>6, <1>7, <1>8 DEF LoginWrite

(* A review of the row a worker has in hand.                                *)
LEMMA EditsTyped ==
  ASSUME Typed, NEW p \in Workers, Finish(p), NEW r \in Regs, Exists(r),
         NEW x \in Row, NEW y \in HistoryRow, Edits(r, x, y),
         UNCHANGED <<token, vendors, mailed, jobs, requests, tries>>
  PROVE  Typed'
  <1>1. TypeOK
    BY DEF Typed
  <1>2. /\ reg' \in [Regs -> Row \cup {Absent, Deleted}]
        /\ history' \in [Regs -> Seq(HistoryRow)]
        /\ \A q \in Regs : history'[q] = IF q = r THEN Append(history[q], y) ELSE history[q]
        /\ \A q \in Regs : Exists(q)' <=> Exists(q)
    BY <1>1, EditsGives
  <1>3. \A q \in Regs : Exists(q)' \/ (history'[q] = <<>> /\ token'[q] = NoToken)
    BY <1>1, <1>2, RowThere
  <1>4. Len(vendors) <= Len(vendors')
    BY <1>1, VendorsSeq
  <1> QED BY <1>1, <1>2, <1>3, <1>4, FinishTyped DEF TypeOK

LEMMA ApproveTyped ==
  ASSUME Typed, NEW p \in Workers,
         ApprovePitching(p) \/ ApproveFinal(p) \/ ApproveLost(p) \/ RejectWrite(p)
  PROVE  Typed'
  <1> DEFINE r == w[p].r
  <1>1. r \in Regs
    BY DEF Typed, RequestOK, ApprovePitching, ApproveFinal, ApproveLost, RejectWrite
  <1>2. TypeOK
    BY DEF Typed
  <1>3. CASE ApprovePitching(p)
    <2>1. Exists(r) /\ Review(r, "MENUNGGU_APPROVE", "PROSES_PITCHING")
      BY <1>3 DEF ApprovePitching
    <2>2. PICK x \in Row, y \in HistoryRow : Edits(r, x, y)
      BY <1>1, <1>2, <2>1, ReviewGives DEF Statuses
    <2> QED BY <1>1, <1>3, <2>1, <2>2, EditsTyped DEF ApprovePitching
  <1>4. CASE RejectWrite(p)
    <2>1. Exists(r) /\ \E x \in Row, y \in HistoryRow : Edits(r, x, y)
      BY <1>1, <1>4, RejectGives
    <2> QED BY <1>1, <1>4, <2>1, EditsTyped DEF RejectWrite
  <1>5. CASE ApproveFinal(p)
    <2>1. Exists(r) /\ token' \in [Regs -> Token] /\ token'[r].account = Len(vendors) + 1
          /\ \A q \in Regs : token'[q] = IF q = r THEN token'[r] ELSE token[q]
      BY <1>1, <1>5, ApproveFinalGives
    <2>2. PICK x \in Row, y \in HistoryRow : Edits(r, x, y)
      BY <1>1, <1>5, ApproveFinalGives
    <2>3. PICK v \in Vendor : vendors' = Append(vendors, v)
      BY <1>1, <1>5, ApproveFinalGives
    <2>4. /\ reg' \in [Regs -> Row \cup {Absent, Deleted}]
          /\ history' \in [Regs -> Seq(HistoryRow)]
          /\ \A q \in Regs : history'[q] = IF q = r THEN Append(history[q], y) ELSE history[q]
          /\ \A q \in Regs : Exists(q)' <=> Exists(q)
      BY <1>1, <1>2, <2>1, <2>2, EditsGives
    <2>5. \A q \in Regs : Exists(q)' \/ (history'[q] = <<>> /\ token'[q] = NoToken)
      BY <1>2, <2>1, <2>4, RowThere
    <2>6. /\ vendors' \in Seq(Vendor) /\ Len(vendors) + 1 \in DOMAIN vendors'
          /\ Len(vendors) <= Len(vendors')
      BY <1>2, <2>3, VendorAdded, VendorsSeq
    <2>7. \A q \in Regs : token'[q].account \in {0, token[q].account} \cup DOMAIN vendors'
      BY <2>1, <2>6
    <2>8. mailed' \subseteq Nat /\ tries' \in Nat /\ UNCHANGED <<jobs, requests>> /\ Finish(p)
      BY <1>2, <1>5 DEF TypeOK, ApproveFinal
    <2> QED BY <2>1, <2>4, <2>5, <2>6, <2>7, <2>8, FinishTyped
  <1>6. CASE ApproveLost(p)
    <2>1. mailed' \subseteq Nat /\ tries' \in Nat
      BY <1>2, <1>6 DEF TypeOK, ApproveLost
    <2> QED BY <1>2, <1>6, <2>1, RecordShapes, AsideTyped DEF ApproveLost, Finish, TypeOK
  <1> QED BY <1>3, <1>4, <1>5, <1>6

LEMMA ReadTyped ==
  ASSUME Typed, NEW p \in Workers, NEW r \in Regs,
         \/ \E via \in Via : ApproveRead(p, r, via)
         \/ RejectRead(p, r) \/ DeleteRead(p, r) \/ TokenRead(p, r)
  PROVE  Typed'
  <1>1. TypeOK
    BY DEF Typed
  <1>2. ASSUME NEW x \in Request, Continue(p, x), x.r = r,
               \/ x.at \in {"approve", "reject"} /\ x.seen \in Pending
               \/ x.at \in {"delete", "token"}
        PROVE  RequestOK(p)'
    <2>1. w'[p] = x
      BY <1>1, <1>2, WorkersShape
    <2> QED BY <1>2, <2>1 DEF RequestOK
  <1>3. \E x \in Request : Continue(p, x) /\ RequestOK(p)'
    <2>1. CASE \E via \in Via : ApproveRead(p, r, via)
      BY <1>1, <1>2, <2>1, ApproveReadStep
    <2>2. CASE RejectRead(p, r)
      BY <1>1, <1>2, <2>2, RejectReadStep
    <2>3. CASE DeleteRead(p, r)
      BY <1>1, <1>2, <2>3, DeleteReadStep
    <2>4. CASE TokenRead(p, r)
      BY <1>1, <1>2, <2>4, TokenReadStep
    <2> QED BY <2>1, <2>2, <2>3, <2>4
  <1>4. Begin(p) /\ UNCHANGED <<reg, history, token, vendors, mailed, jobs, tries>>
    BY DEF ApproveRead, RejectRead, DeleteRead, TokenRead
  <1> QED BY <1>1, <1>3, <1>4, BeginCounts, AsideTyped DEF TypeOK

LEMMA LoginReadTyped ==
  ASSUME Typed, NEW p \in Workers, NEW i \in DOMAIN vendors, LoginRead(p, i)
  PROVE  Typed'
  <1>1. TypeOK
    BY DEF Typed
  <1>2. PICK x \in Request : /\ Continue(p, x) /\ x.at \in {"login.first", "login.late"}
                             /\ x.r \in Regs /\ x.account = i
    BY <1>1, LoginReadStep
  <1>3. Begin(p) /\ UNCHANGED <<reg, history, token, vendors, mailed, jobs, tries>>
    BY DEF LoginRead
  <1>4. w'[p] = x
    BY <1>1, <1>2, WorkersShape
  <1>5. RequestOK(p)'
    BY <1>2, <1>3, <1>4 DEF RequestOK
  <1> QED BY <1>1, <1>2, <1>3, <1>5, BeginCounts, AsideTyped DEF TypeOK

LEMMA LoginFreeTyped ==
  ASSUME Typed, NEW p \in Workers, NEW i \in DOMAIN vendors, LoginFree(p, i)
  PROVE  Typed'
  <1>1. TypeOK
    BY DEF Typed
  <1>2. /\ vendors' \in Seq(Vendor) /\ Len(vendors') = Len(vendors)
        /\ DOMAIN vendors' = DOMAIN vendors
    BY <1>1, EnteredGives DEF LoginFree
  <1>3. requests' \in 0..MaxRequests
    BY BeginCounts DEF LoginFree
  <1>4. UNCHANGED <<reg, history, token, mailed, jobs, w, tries>>
    BY DEF LoginFree
  <1>5. TypeOK'
    BY <1>1, <1>2, <1>3, <1>4 DEF TypeOK
  <1>6. \A q \in Workers : RequestOK(q)'
    BY <1>2, <1>4 DEF Typed, RequestOK
  <1> QED BY <1>5, <1>6 DEF Typed

LEMMA DeleteTyped ==
  ASSUME Typed, NEW p \in Workers, DeleteWrite(p)
  PROVE  Typed'
  <1>1. TypeOK /\ w[p].r \in Regs
    BY DEF Typed, RequestOK, DeleteWrite
  <1>2. <<>> \in Seq(HistoryRow) /\ NoToken \in Token /\ NoToken.account = 0
    BY RecordShapes
  <1>3. /\ reg' \in [Regs -> Row \cup {Absent, Deleted}]
        /\ history' \in [Regs -> Seq(HistoryRow)] /\ token' \in [Regs -> Token]
        /\ \A q \in Regs : IF q = w[p].r
                           THEN reg'[q] = Deleted /\ history'[q] = <<>> /\ token'[q] = NoToken
                           ELSE reg'[q] = reg[q] /\ history'[q] = history[q] /\ token'[q] = token[q]
    BY <1>1, <1>2 DEF DeleteWrite, TypeOK
  <1>4. \A q \in Regs : Exists(q)' \/ (history'[q] = <<>> /\ token'[q] = NoToken)
    BY <1>1, <1>3, RowThere DEF Exists
  <1>5. Len(vendors) <= Len(vendors')
    BY <1>1, VendorsSeq DEF DeleteWrite
  <1> QED BY <1>1, <1>2, <1>3, <1>4, <1>5, FinishTyped DEF DeleteWrite, TypeOK

LEMMA TokenTyped ==
  ASSUME Typed, NEW p \in Workers, TokenUse(p) \/ Logs(p)
  PROVE  Typed'
  <1>1. TypeOK
    BY DEF Typed
  <1>2. w[p].r \in Regs
    BY DEF Typed, RequestOK, TokenUse, Logs, LoginFirst, LoginLate, LoginWrite
  <1>3. ASSUME NEW r \in Regs, r = w[p].r, Exists(r), NEW t \in Token,
               token' = [token EXCEPT ![r] = t], Finish(p),
               t.account \in {0, token[r].account} \cup DOMAIN vendors',
               vendors' \in Seq(Vendor), Len(vendors) <= Len(vendors'),
               UNCHANGED <<reg, history, mailed, jobs, requests, tries>>
        PROVE  Typed'
    <2>1. /\ token' \in [Regs -> Token]
          /\ \A q \in Regs : token'[q].account \in {0, token[q].account} \cup DOMAIN vendors'
          /\ \A q \in Regs : Exists(q)' \/ (history'[q] = <<>> /\ token'[q] = NoToken)
      BY <1>1, <1>3, TokenWritten
    <2> QED BY <1>1, <1>3, <2>1, FinishTyped DEF TypeOK
  <1>4. CASE TokenUse(p)
    <2>1. PICK r \in Regs : r = w[p].r
      BY <1>2
    <2>2. Exists(r)
      BY <1>4, <2>1, TokenUseGives
    <2>3. PICK t \in Token : token' = [token EXCEPT ![r] = t] /\ t.account = Len(vendors) + 1
      BY <1>4, <2>1, TokenUseGives
    <2>4. PICK v \in Vendor : vendors' = Append(vendors, v)
      BY <1>4, <2>1, TokenUseGives
    <2>5. /\ vendors' \in Seq(Vendor) /\ Len(vendors) + 1 \in DOMAIN vendors'
          /\ Len(vendors) <= Len(vendors')
      BY <1>1, <2>4, VendorAdded, VendorsSeq
    <2>6. Finish(p) /\ UNCHANGED <<reg, history, mailed, jobs, requests, tries>>
      BY <1>4 DEF TokenUse
    <2> QED BY <1>3, <2>1, <2>2, <2>3, <2>5, <2>6
  <1>5. CASE Logs(p)
    <2>1. PICK r \in Regs : r = w[p].r
      BY <1>2
    <2>2. Exists(r) /\ w[p].account \in DOMAIN vendors /\ Finish(p)
          /\ UNCHANGED <<reg, history, mailed, jobs, requests, tries>>
      BY <1>5, <2>1, LoginGives
    <2>3. PICK t \in Token : token' = [token EXCEPT ![r] = t] /\ t.account = token[r].account
      BY <1>5, <2>1, LoginGives
    <2>4. PICK o \in {"refused", "in"} : Entered(w[p].account, o)
      BY <1>5, <2>1, LoginGives
    <2>5. vendors' \in Seq(Vendor) /\ Len(vendors) <= Len(vendors')
      BY <1>1, <2>2, <2>4, EnteredGives, VendorsSeq
    <2> QED BY <1>3, <2>1, <2>2, <2>3, <2>5
  <1> QED BY <1>4, <1>5

(* The jobs and time.                                                       *)
LEMMA JobTyped ==
  ASSUME Typed, UNCHANGED <<vendors, mailed, w, requests, tries>>,
         jobs' \in [JobNames -> SUBSET Regs],
         reg' \in [Regs -> Row \cup {Absent, Deleted}],
         history' \in [Regs -> Seq(HistoryRow)], token' \in [Regs -> Token],
         \A r \in Regs : Exists(r)' \/ (history'[r] = <<>> /\ token'[r] = NoToken),
         \A r \in Regs : token'[r].account \in {0, token[r].account} \cup DOMAIN vendors'
  PROVE  Typed'
  <1>1. TypeOK /\ vendors' \in Seq(Vendor) /\ Len(vendors) <= Len(vendors')
    BY VendorsSeq DEF Typed, TypeOK
  <1>2. /\ \A r \in Regs : reg'[r].at # "row" => history'[r] = <<>> /\ token'[r] = NoToken
        /\ \A r \in Regs : token'[r].account \in {0} \cup DOMAIN vendors'
    BY <1>1, LinksKept
  <1>3. TypeOK'
    BY <1>1, <1>2 DEF TypeOK
  <1>4. \A q \in Workers : RequestOK(q)'
    BY DEF Typed, RequestOK
  <1> QED BY <1>3, <1>4 DEF Typed

LEMMA JobListGives ==
  ASSUME TypeOK, NEW j \in JobNames, JobList(j)
  PROVE  /\ jobs' \in [JobNames -> SUBSET Regs]
         /\ \A i \in JobNames : i # j => jobs'[i] = jobs[i]
         /\ jobs'[j] \subseteq Due(j)
  <1>1. PICK s \in SUBSET Due(j) : jobs' = [jobs EXCEPT ![j] = s]
    BY DEF JobList, Listings
  <1>2. Due(j) \subseteq Regs
    BY DEF Due
  <1> QED BY <1>1, <1>2 DEF TypeOK

LEMMA JobStepGives ==
  ASSUME TypeOK, NEW r \in Regs, DeleteDocuments(r) \/ Anonymize(r)
  PROVE  /\ jobs' \in [JobNames -> SUBSET Regs]
         /\ \A j \in JobNames : jobs'[j] \subseteq jobs[j]
  BY DEF DeleteDocuments, Anonymize, TypeOK, JobNames

LEMMA ExpireGives ==
  ASSUME TypeOK, NEW r \in Regs, Expire(r)
  PROVE  /\ Exists(r)
         /\ \E t \in Token : /\ token' = [token EXCEPT ![r] = t] /\ t.account = token[r].account
                             /\ t.expired /\ t.status = token[r].status
  <1>1. token[r].status # None
    BY DEF Expire
  <1>2. Exists(r)
    BY <1>1, RowThere, RecordShapes
  <1>3. PICK u \in Token : u = token[r]
    BY DEF TypeOK
  <1>4. PICK t \in Token : t = [u EXCEPT !.expired = TRUE]
    BY DEF Token
  <1>5. t.account = u.account /\ t.expired /\ t.status = u.status
    BY <1>4 DEF Token
  <1>6. token' = [token EXCEPT ![r] = t]
    BY <1>3, <1>4 DEF Expire
  <1> QED BY <1>2, <1>3, <1>5, <1>6

LEMMA JobsTyped ==
  ASSUME Typed, NEW r \in Regs,
         DeleteDocuments(r) \/ Anonymize(r) \/ GrowOld(r) \/ Expire(r)
  PROVE  Typed'
  <1>1. TypeOK
    BY DEF Typed
  <1>2. jobs' \in [JobNames -> SUBSET Regs] /\ UNCHANGED <<vendors, mailed, w, requests, tries>>
    <2>1. CASE DeleteDocuments(r) \/ Anonymize(r)
      BY <1>1, <2>1, JobStepGives DEF DeleteDocuments, Anonymize
    <2>2. CASE GrowOld(r) \/ Expire(r)
      BY <1>1, <2>2 DEF GrowOld, Expire, TypeOK
    <2> QED BY <2>1, <2>2
  <1>3. \A q \in Regs : Exists(q) \/ (history[q] = <<>> /\ token[q] = NoToken)
    BY <1>1, RowThere
  <1>4. CASE UNCHANGED <<reg, history, token>>
    <2>1. \A q \in Regs : Exists(q)' \/ (history'[q] = <<>> /\ token'[q] = NoToken)
      BY <1>3, <1>4 DEF Exists
    <2> QED BY <1>1, <1>2, <1>4, <2>1, JobTyped DEF TypeOK
  <1>5. CASE DeleteDocuments(r) /\ Exists(r)
    <2>1. PICK x \in Row, y \in HistoryRow : Edits(r, x, y)
      BY <1>1, <1>5, DocumentsGives
    <2>2. /\ reg' \in [Regs -> Row \cup {Absent, Deleted}]
          /\ history' \in [Regs -> Seq(HistoryRow)]
          /\ \A q \in Regs : history'[q] = IF q = r THEN Append(history[q], y) ELSE history[q]
          /\ \A q \in Regs : Exists(q)' <=> Exists(q)
      BY <1>1, <1>5, <2>1, EditsGives
    <2>3. UNCHANGED token
      BY <1>5 DEF DeleteDocuments
    <2>4. \A q \in Regs : Exists(q)' \/ (history'[q] = <<>> /\ token'[q] = NoToken)
      BY <1>3, <1>5, <2>2, <2>3
    <2> QED BY <1>1, <1>2, <2>2, <2>3, <2>4, JobTyped DEF TypeOK
  <1>6. CASE (Anonymize(r) /\ Exists(r)) \/ GrowOld(r)
    <2>1. Exists(r) /\ \E x \in Row : reg' = [reg EXCEPT ![r] = x]
      BY <1>1, <1>6, AnonymizeGives, GrowGives
    <2>2. /\ reg' \in [Regs -> Row \cup {Absent, Deleted}]
          /\ \A q \in Regs : Exists(q)' <=> Exists(q)
      BY <1>1, <2>1, RowAlone
    <2>3. UNCHANGED <<history, token>>
      BY <1>6 DEF Anonymize, GrowOld
    <2>4. \A q \in Regs : Exists(q)' \/ (history'[q] = <<>> /\ token'[q] = NoToken)
      BY <1>3, <2>2, <2>3
    <2> QED BY <1>1, <1>2, <2>2, <2>3, <2>4, JobTyped DEF TypeOK
  <1>7. CASE Expire(r)
    <2>1. Exists(r) /\ UNCHANGED <<reg, history>>
      BY <1>1, <1>7, ExpireGives DEF Expire
    <2>2. PICK t \in Token : token' = [token EXCEPT ![r] = t] /\ t.account = token[r].account
      BY <1>1, <1>7, ExpireGives
    <2>3. /\ token' \in [Regs -> Token]
          /\ \A q \in Regs : token'[q].account \in {0, token[q].account} \cup DOMAIN vendors'
          /\ \A q \in Regs : Exists(q)' \/ (history'[q] = <<>> /\ token'[q] = NoToken)
      BY <1>1, <2>1, <2>2, TokenWritten
    <2> QED BY <1>1, <1>2, <2>1, <2>3, JobTyped DEF TypeOK
  <1>8. DeleteDocuments(r) /\ ~Exists(r) => UNCHANGED <<reg, history, token>>
    BY DEF DeleteDocuments
  <1>9. Anonymize(r) /\ ~Exists(r) => UNCHANGED <<reg, history, token>>
    BY DEF Anonymize
  <1> QED BY <1>4, <1>5, <1>6, <1>7, <1>8, <1>9

LEMMA JobListTyped ==
  ASSUME Typed, NEW j \in JobNames, JobList(j)
  PROVE  Typed'
  <1>1. TypeOK /\ UNCHANGED <<reg, history, token, vendors, mailed, w, requests, tries>>
    BY DEF Typed, JobList
  <1>2. \A q \in Regs : Exists(q)' \/ (history'[q] = <<>> /\ token'[q] = NoToken)
    BY <1>1, RowThere DEF Exists
  <1> QED BY <1>1, <1>2, JobListGives, JobTyped DEF TypeOK

LEMMA InitTyped == Init => Typed
  <1> SUFFICES ASSUME Init PROVE Typed
    OBVIOUS
  <1>1. TypeOK
    BY RecordShapes, BoundAssumption DEF Init, TypeOK, JobNames
  <1>2. \A p \in Workers : RequestOK(p)
    BY RecordShapes DEF Init, RequestOK
  <1> QED BY <1>1, <1>2 DEF Typed

LEMMA StutterTyped == Typed /\ UNCHANGED vars => Typed'
  BY DEF Typed, TypeOK, RequestOK, vars

LEMMA NextTyped == Typed /\ Next => Typed'
  <1> SUFFICES ASSUME Typed, Next PROVE Typed'
    OBVIOUS
  <1>1. CASE \E p \in Workers : Begins(p)
    BY <1>1, RegisterTyped, ReadTyped, LoginFreeTyped, LoginReadTyped DEF Begins
  <1>2. CASE \E p \in Workers : Handle(p)
    BY <1>2, RegisterTyped, RegisterWriteTyped, ApproveTyped, DeleteTyped, TokenTyped, QuitTyped
       DEF Handle, ApproveRefused, RejectRefused, DeleteRefused, TokenRefused, LoginFails, Logs
  <1>3. CASE \E j \in JobNames : JobList(j)
    BY <1>3, JobListTyped
  <1>4. CASE \E r \in Regs : DeleteDocuments(r) \/ Anonymize(r) \/ GrowOld(r) \/ Expire(r)
    BY <1>4, JobsTyped
  <1> QED BY <1>1, <1>2, <1>3, <1>4 DEF Next

-----------------------------------------------------------------------------
(* Ages.                                                                    *)

(* What most steps do to a row: its age stays, and what they do to its       *)
(* status, its name and its token its age allows.                           *)
RowKept(r) ==
  /\ reg[r].at # "absent" => reg'[r].at # "absent"
  /\ Exists(r)' =>
       /\ Exists(r)
       /\ reg'[r].age = reg[r].age
       /\ reg[r].age # 0 => reg'[r].status = reg[r].status
       /\ reg'[r].applicant = reg[r].applicant \/ reg[r].age = 2
       /\ reg[r].age = 2 => token'[r].status = None \/ token'[r].expired

LEMMA AgesKept ==
  ASSUME Typed, Ages, Typed', \A r \in Regs : RowKept(r),
         \A q \in Workers : w'[q] = w[q] \/ Undisturbed(q)',
         \A j \in JobNames : jobs'[j] \subseteq jobs[j]
  PROVE  Ages'
  <1>1. \A r \in Regs : AgesOf(r)'
    BY DEF Ages, AgesOf, RowKept
  <1>2. \A q \in Workers : Undisturbed(q)'
    BY DEF Ages, Undisturbed, RowKept, Typed, RequestOK
  <1>3. Listed'
    <2>1. jobs["documents"] \subseteq Regs /\ jobs["anonymize"] \subseteq Regs
          /\ jobs'["documents"] \subseteq jobs["documents"]
          /\ jobs'["anonymize"] \subseteq jobs["anonymize"]
      BY DEF Typed, TypeOK, JobNames
    <2>2. Listed
      BY DEF Ages
    <2> QED BY <2>1, <2>2 DEF Listed, RowKept
  <1> QED BY <1>1, <1>2, <1>3 DEF Ages

LEMMA RowSame ==
  ASSUME Ages, NEW r \in Regs, reg'[r] = reg[r],
         token'[r] = token[r] \/ (Exists(r) => reg[r].age # 2)
  PROVE  RowKept(r)
  BY DEF Ages, AgesOf, RowKept, Exists

LEMMA IdleUndisturbed ==
  ASSUME TypeOK, NEW p \in Workers, Finish(p)
  PROVE  \A q \in Workers : w'[q] = w[q] \/ Undisturbed(q)'
  <1>1. \A q \in Workers : w'[q] = IF q = p THEN Idle ELSE w[q]
    BY RecordShapes, WorkersShape DEF Finish
  <1> QED BY <1>1, RecordShapes DEF Undisturbed

(* A step that begins or goes on, with the rows as they were.               *)
LEMMA AsideAges ==
  ASSUME Typed, Ages, Typed', NEW p \in Workers, NEW x \in Request, Continue(p, x),
         UNCHANGED <<reg, token, jobs>>,
         x.at \in {"approve", "reject"} => Exists(x.r) /\ reg[x.r].age = 0
  PROVE  Ages'
  <1>1. \A q \in Workers : w'[q] = IF q = p THEN x ELSE w[q]
    BY WorkersShape DEF Typed
  <1>2. Undisturbed(p)'
    BY <1>1 DEF Undisturbed, Exists
  <1>3. \A r \in Regs : RowKept(r)
    BY RowSame
  <1> QED BY <1>1, <1>2, <1>3, AgesKept

LEMMA PendingIsYoung ==
  ASSUME Typed, Ages, NEW r \in Regs, Has(r, Pending)
  PROVE  Exists(r) /\ reg[r].age = 0 /\ reg[r].applicant # None
  BY RowThere, RecordShapes DEF Typed, Ages, AgesOf, Has, Pending

LEMMA BeginsAges ==
  ASSUME Typed, Ages, Typed', NEW p \in Workers, Begins(p)
  PROVE  Ages'
  <1>1. TypeOK
    BY DEF Typed
  <1>2. CASE \E a \in Applicants : RegisterCooldown(p, a)
    <2>1. \E x \in Request : Continue(p, x) /\ x.at = "register.email"
      BY <1>1, <1>2, RegisterCooldownStep
    <2> QED BY <1>2, <2>1, AsideAges DEF RegisterCooldown
  <1>3. ASSUME NEW r \in Regs, \E via \in Via : ApproveRead(p, r, via)
        PROVE  Ages'
    <2>1. Has(r, Pending) /\ \E x \in Request : Continue(p, x) /\ x.at = "approve" /\ x.r = r
      BY <1>1, <1>3, ApproveReadStep
    <2> QED BY <1>3, <2>1, PendingIsYoung, AsideAges DEF ApproveRead
  <1>4. ASSUME NEW r \in Regs, RejectRead(p, r)
        PROVE  Ages'
    <2>1. Has(r, Pending) /\ \E x \in Request : Continue(p, x) /\ x.at = "reject" /\ x.r = r
      BY <1>1, <1>4, RejectReadStep
    <2> QED BY <1>4, <2>1, PendingIsYoung, AsideAges DEF RejectRead
  <1>5. ASSUME NEW r \in Regs, DeleteRead(p, r)
        PROVE  Ages'
    <2>1. \E x \in Request : Continue(p, x) /\ x.at = "delete"
      BY <1>1, <1>5, DeleteReadStep
    <2> QED BY <1>5, <2>1, AsideAges DEF DeleteRead
  <1>6. ASSUME NEW r \in Regs, TokenRead(p, r)
        PROVE  Ages'
    <2>1. \E x \in Request : Continue(p, x) /\ x.at = "token"
      BY <1>1, <1>6, TokenReadStep
    <2> QED BY <1>6, <2>1, AsideAges DEF TokenRead
  <1>7. ASSUME NEW i \in DOMAIN vendors, LoginFree(p, i)
        PROVE  Ages'
    <2>1. UNCHANGED <<reg, token, jobs, w>>
      BY <1>7 DEF LoginFree
    <2> QED BY <2>1, RowSame, AgesKept
  <1>8. ASSUME NEW i \in DOMAIN vendors, LoginRead(p, i)
        PROVE  Ages'
    <2>1. \E x \in Request : Continue(p, x) /\ x.at \in {"login.first", "login.late"}
      BY <1>1, <1>8, LoginReadStep
    <2> QED BY <1>8, <2>1, AsideAges DEF LoginRead
  <1> QED BY <1>2, <1>3, <1>4, <1>5, <1>6, <1>7, <1>8 DEF Begins

LEMMA QuitAges ==
  ASSUME Typed, Ages, Typed', NEW p \in Workers, Finish(p), UNCHANGED <<reg, token, jobs>>
  PROVE  Ages'
  BY RecordShapes, AsideAges DEF Finish

LEMMA RegisterWriteAges ==
  ASSUME Typed, Ages, Typed', NEW p \in Workers, NEW r \in Regs, RegisterWrite(p, r)
  PROVE  Ages'
  <1>1. /\ reg[r] = Absent /\ Exists(r)' /\ reg'[r].age = 0 /\ reg'[r].applicant # None
        /\ \A q \in Regs : q # r => reg'[q] = reg[q]
    BY RegisterWriteGives, ApplicantsAssumption
  <1>2. UNCHANGED <<token, jobs>> /\ Finish(p)
    BY DEF RegisterWrite
  <1>3. \A q \in Regs : q # r => RowKept(q)
    BY <1>1, <1>2, RowSame
  <1>4. \A q \in Regs : AgesOf(q)'
    BY <1>1, <1>3 DEF Ages, AgesOf, RowKept
  <1>5. \A q \in Workers : Undisturbed(q)'
    <2>1. TypeOK
      BY DEF Typed
    <2>2. \A q \in Workers : w'[q] = w[q] \/ Undisturbed(q)'
      BY <1>2, <2>1, IdleUndisturbed
    <2>3. ASSUME NEW q \in Workers, w'[q] = w[q], w[q].at \in {"approve", "reject"}
          PROVE  Undisturbed(q)'
      <3>1. w[q].r \in Regs /\ w[q].r # r
        BY <1>1, <2>3, RecordShapes DEF Typed, RequestOK, Ages, Undisturbed
      <3> QED BY <1>1, <2>3, <3>1 DEF Ages, Undisturbed, Exists
    <2> QED BY <2>2, <2>3 DEF Undisturbed
  <1>6. Listed'
    <2>1. jobs["documents"] \subseteq Regs /\ jobs["anonymize"] \subseteq Regs /\ Listed
      BY DEF Typed, TypeOK, JobNames, Ages
    <2>2. r \notin jobs["documents"] /\ r \notin jobs["anonymize"]
      BY <1>1, <2>1, RecordShapes DEF Listed
    <2> QED BY <1>1, <1>2, <2>1, <2>2 DEF Listed, Exists
  <1> QED BY <1>4, <1>5, <1>6 DEF Ages

(* Reviews find a young row.                                                *)
LEMMA ReviewAges ==
  ASSUME Typed, Ages, Typed', NEW p \in Workers,
         ApprovePitching(p) \/ ApproveFinal(p) \/ RejectWrite(p)
  PROVE  Ages'
  <1>0. PICK r \in Regs : r = w[p].r
    BY DEF Typed, RequestOK, ApprovePitching, ApproveFinal, RejectWrite
  <1>1. TypeOK /\ Exists(r) /\ reg[r].age = 0
    BY <1>0 DEF Typed, Ages, Undisturbed, ApprovePitching, ApproveFinal, RejectWrite
  <1>2. \E x \in Row, y \in HistoryRow : Edits(r, x, y) /\ x.age = 0 /\ x.applicant = reg[r].applicant
    <2>1. CASE ApprovePitching(p)
      BY <1>0, <1>1, <2>1, ReviewGives DEF ApprovePitching, Statuses
    <2>2. CASE ApproveFinal(p)
      BY <1>0, <1>1, <2>2, ApproveFinalGives
    <2>3. CASE RejectWrite(p)
      BY <1>0, <1>1, <2>3, RejectGives
    <2> QED BY <2>1, <2>2, <2>3
  <1>3. /\ \A q \in Regs : q # r => reg'[q] = reg[q]
        /\ Exists(r)' /\ reg'[r].age = 0 /\ reg'[r].applicant = reg[r].applicant
    BY <1>1, <1>2, EditsGives
  <1>4. \A q \in Regs : q # r => token'[q] = token[q]
    BY <1>0, <1>1, ApproveFinalGives DEF ApprovePitching, RejectWrite
  <1>5. \A q \in Regs : RowKept(q)
    <2>1. \A q \in Regs : q # r => RowKept(q)
      BY <1>3, <1>4, RowSame
    <2>2. RowKept(r)
      BY <1>1, <1>3 DEF RowKept, Exists
    <2> QED BY <2>1, <2>2
  <1>6. Finish(p) /\ UNCHANGED jobs
    BY DEF ApprovePitching, ApproveFinal, RejectWrite
  <1> QED BY <1>1, <1>5, <1>6, IdleUndisturbed, AgesKept

LEMMA DeleteAges ==
  ASSUME Typed, Ages, Typed', NEW p \in Workers, DeleteWrite(p)
  PROVE  Ages'
  <1>1. TypeOK /\ w[p].r \in Regs
    BY DEF Typed, RequestOK, DeleteWrite
  <1>2. \A q \in Regs : IF q = w[p].r THEN reg'[q] = Deleted
                        ELSE reg'[q] = reg[q] /\ token'[q] = token[q]
    BY <1>1 DEF DeleteWrite, TypeOK
  <1>3. \A q \in Regs : RowKept(q)
    BY <1>2, RowSame, RecordShapes DEF RowKept, Exists
  <1> QED BY <1>1, <1>3, IdleUndisturbed, AgesKept DEF DeleteWrite

(* A token that is used or expires was issued, and stays as old as it is.   *)
LEMMA TokenAges ==
  ASSUME Typed, Ages, Typed', NEW r \in Regs, Exists(r), token[r].status # None, NEW t \in Token,
         token' = [token EXCEPT ![r] = t], t.expired \in {token[r].expired, TRUE},
         UNCHANGED <<reg, jobs>>,
         \A q \in Workers : w'[q] = w[q] \/ Undisturbed(q)'
  PROVE  Ages'
  <1>1. \A q \in Regs : token'[q] = IF q = r THEN t ELSE token[q]
    BY DEF Typed, TypeOK
  <1>2. \A q \in Regs : q # r => RowKept(q)
    BY <1>1, RowSame
  <1>3. RowKept(r)
    BY <1>1 DEF RowKept, Ages, AgesOf, Exists
  <1> QED BY <1>2, <1>3, AgesKept

LEMMA TokenStepAges ==
  ASSUME Typed, Ages, Typed', NEW p \in Workers, TokenUse(p) \/ Logs(p)
  PROVE  Ages'
  <1>1. PICK r \in Regs : r = w[p].r
    BY DEF Typed, RequestOK, TokenUse, Logs, LoginFirst, LoginLate, LoginWrite
  <1>2. Exists(r) /\ token[r].status # None
    BY <1>1, TokenUseGives, LoginGives
  <1>3. PICK t \in Token : token' = [token EXCEPT ![r] = t] /\ t.expired = token[r].expired
    BY <1>1, TokenUseGives, LoginGives
  <1>4. Finish(p) /\ UNCHANGED <<reg, jobs>>
    BY <1>1, LoginGives DEF TokenUse
  <1>5. \A q \in Workers : w'[q] = w[q] \/ Undisturbed(q)'
    BY <1>4, IdleUndisturbed DEF Typed
  <1> QED BY <1>2, <1>3, <1>4, <1>5, TokenAges

LEMMA JobListAges ==
  ASSUME Typed, Ages, Typed', NEW j \in JobNames, JobList(j)
  PROVE  Ages'
  <1>1. /\ \A i \in JobNames : i # j => jobs'[i] = jobs[i]
        /\ jobs'[j] \subseteq Due(j)
    BY JobListGives DEF Typed
  <1>2. UNCHANGED <<reg, token, w>>
    BY DEF JobList
  <1>3. Due("documents") \subseteq {r \in Regs : Exists(r) /\ reg[r].age # 0}
    BY DEF Due, Has
  <1>4. Due("anonymize") \subseteq {r \in Regs : Exists(r) /\ reg[r].age = 2}
    BY DEF Due, Has
  <1>5. Listed'
    BY <1>1, <1>2, <1>3, <1>4 DEF Ages, Listed, JobNames, Exists
  <1> QED BY <1>2, <1>5 DEF Ages, AgesOf, Undisturbed, Exists

LEMMA JobStepAges ==
  ASSUME Typed, Ages, Typed', NEW r \in Regs, DeleteDocuments(r) \/ Anonymize(r)
  PROVE  Ages'
  <1>1. TypeOK /\ \A j \in JobNames : jobs'[j] \subseteq jobs[j]
    BY JobStepGives DEF Typed
  <1>2. UNCHANGED <<token, w>>
    BY DEF DeleteDocuments, Anonymize
  <1>3. \A q \in Regs : q # r => reg'[q] = reg[q]
    BY <1>1 DEF DeleteDocuments, Anonymize, TypeOK
  <1>4. CASE UNCHANGED reg
    BY <1>1, <1>2, <1>4, RowSame, AgesKept
  <1>5. CASE DeleteDocuments(r) /\ Exists(r)
    <2>1. PICK x \in Row, y \in HistoryRow :
            Edits(r, x, y) /\ x.status = reg[r].status /\ x.age = reg[r].age
            /\ x.applicant = reg[r].applicant
      BY <1>1, <1>5, DocumentsGives
    <2>2. reg'[r] = x /\ Exists(r)'
      BY <1>1, <1>5, <2>1, EditsGives
    <2>3. RowKept(r)
      BY <1>2, <1>5, <2>1, <2>2 DEF RowKept, Ages, AgesOf, Exists
    <2> QED BY <1>1, <1>2, <1>3, <2>3, RowSame, AgesKept
  <1>6. CASE Anonymize(r) /\ Exists(r)
    <2>1. PICK x \in Row : reg' = [reg EXCEPT ![r] = x] /\ x.status = reg[r].status
                           /\ x.age = reg[r].age
      BY <1>1, <1>6, AnonymizeGives
    <2>2. reg'[r] = x /\ Exists(r)'
      BY <1>1, <1>6, <2>1, RowAlone
    <2>3. reg[r].age = 2
      BY <1>6 DEF Anonymize, Ages, Listed
    <2>4. RowKept(r)
      BY <1>2, <1>6, <2>1, <2>2, <2>3 DEF RowKept, Ages, AgesOf, Exists
    <2> QED BY <1>1, <1>2, <1>3, <2>4, RowSame, AgesKept
  <1> QED BY <1>4, <1>5, <1>6 DEF DeleteDocuments, Anonymize

LEMMA TimeAges ==
  ASSUME Typed, Ages, Typed', NEW r \in Regs, GrowOld(r) \/ Expire(r)
  PROVE  Ages'
  <1>1. TypeOK
    BY DEF Typed
  <1>2. CASE Expire(r)
    <2>1. Exists(r) /\ token[r].status # None
      BY <1>1, <1>2, ExpireGives DEF Expire
    <2>2. PICK t \in Token : token' = [token EXCEPT ![r] = t] /\ t.expired
      BY <1>1, <1>2, ExpireGives
    <2>3. t.expired = TRUE
      BY <2>2, RecordShapes
    <2> QED BY <1>2, <2>1, <2>2, <2>3, TokenAges DEF Expire
  <1>3. CASE GrowOld(r)
    <2>1. Exists(r) /\ reg[r].status = "DITOLAK" /\ reg[r].age \in 0..1
      BY <1>1, <1>3, GrowGives
    <2>2. PICK x \in Row : /\ reg' = [reg EXCEPT ![r] = x] /\ x.applicant = reg[r].applicant
                           /\ x.status = reg[r].status /\ x.age = reg[r].age + 1
      BY <1>1, <1>3, GrowGives
    <2>3. \A q \in Regs : reg'[q] = IF q = r THEN x ELSE reg[q]
      BY <1>1, <2>1, <2>2, RowAlone
    <2>4. UNCHANGED <<token, jobs, w>> /\ AtRest
      BY <1>3 DEF GrowOld
    <2>5. x.age = 2 => token[r].status = None \/ token[r].expired
      BY <1>3, <2>1, <2>2 DEF GrowOld
    <2>6. x.applicant # None
      BY <2>1, <2>2 DEF Ages, AgesOf
    <2>7. AgesOf(r)'
      BY <2>1, <2>2, <2>3, <2>4, <2>5, <2>6 DEF AgesOf
    <2>8. \A q \in Regs : AgesOf(q)'
      BY <2>3, <2>4, <2>7 DEF Ages, AgesOf, Exists
    <2>9. \A q \in Workers : Undisturbed(q)'
      BY <2>4 DEF AtRest, Undisturbed
    <2>10. Listed'
      BY <2>4 DEF AtRest, Listed, JobNames
    <2> QED BY <2>8, <2>9, <2>10 DEF Ages
  <1> QED BY <1>2, <1>3

LEMMA NextAges ==
  ASSUME Typed, Ages, Typed', Next
  PROVE  Ages'
  <1>0. TypeOK
    BY DEF Typed
  <1>1. CASE \E p \in Workers : Begins(p)
    BY <1>1, BeginsAges
  <1>2. ASSUME NEW p \in Workers, Handle(p)
        PROVE  Ages'
    <2>1. CASE RegisterEmail(p) \/ RegisterCompany(p)
      <3>1. \E x \in Request : Continue(p, x) /\ x.at \in {"idle", "register.company", "register.write"}
        BY <1>0, <2>1, GotoStep, RecordShapes
           DEF RegisterEmail, RegisterCompany, Finish, Steps
      <3> QED BY <2>1, <3>1, AsideAges DEF RegisterEmail, RegisterCompany
    <2>2. CASE \E r \in Regs : RegisterWrite(p, r)
      BY <2>2, RegisterWriteAges
    <2>3. CASE ApprovePitching(p) \/ ApproveFinal(p) \/ RejectWrite(p)
      BY <2>3, ReviewAges
    <2>4. CASE ApproveLost(p)
      BY <2>4, QuitAges DEF ApproveLost
    <2>5. CASE DeleteWrite(p)
      BY <2>5, DeleteAges
    <2>6. CASE TokenUse(p) \/ Logs(p)
      BY <2>6, TokenStepAges
    <2>7. ASSUME NEW s, Quit(p, s)
          PROVE  Ages'
      BY <2>7, QuitAges DEF Quit
    <2> QED BY <1>2, <2>1, <2>2, <2>3, <2>4, <2>5, <2>6, <2>7
            DEF Handle, ApproveRefused, RejectRefused, DeleteRefused, TokenRefused, LoginFails, Logs
  <1>3. CASE \E j \in JobNames : JobList(j)
    BY <1>3, JobListAges
  <1>4. CASE \E r \in Regs : DeleteDocuments(r) \/ Anonymize(r) \/ GrowOld(r) \/ Expire(r)
    BY <1>4, JobStepAges, TimeAges
  <1> QED BY <1>1, <1>2, <1>3, <1>4 DEF Next

-----------------------------------------------------------------------------
(* What becomes of the vendors, step by step.                               *)

(* The vendors stay, but for their logins.                                  *)
VendorsKept ==
  /\ DOMAIN vendors' = DOMAIN vendors
  /\ \A i \in DOMAIN vendors :
       /\ vendors'[i].r = vendors[i].r /\ vendors'[i].by = vendors[i].by
       /\ vendors'[i].applicant = vendors[i].applicant
       /\ vendors'[i].cred = vendors[i].cred

(* Two steps make a vendor.                                                 *)
Makes(p) == ApproveFinal(p) \/ TokenUse(p)

LEMMA MakesGives ==
  ASSUME Typed, NEW p \in Workers, Makes(p)
  PROVE  /\ w[p].at \in {"approve", "token"} /\ w[p].r \in Regs /\ Exists(w[p].r) /\ Finish(p)
         /\ \E v \in Vendor :
              /\ vendors' = Append(vendors, v) /\ v.r = w[p].r /\ v.applicant = w[p].applicant
              /\ v.by = "approval" => v.cred = tries + 1 /\ mailed' = mailed \cup {tries + 1}
         /\ mailed \subseteq mailed'
  <1>1. PICK r \in Regs : r = w[p].r
    BY DEF Typed, RequestOK, Makes, ApproveFinal, TokenUse
  <1>2. CASE ApproveFinal(p)
    BY <1>1, <1>2, ApproveFinalGives DEF ApproveFinal
  <1>3. CASE TokenUse(p)
    <2>1. PICK v \in Vendor : /\ vendors' = Append(vendors, v) /\ v.r = r /\ v.by = "token"
                              /\ v.applicant = w[p].applicant
      BY <1>1, <1>3, TokenUseGives
    <2>2. Exists(r)
      BY <1>1, <1>3, TokenUseGives
    <2>3. w[p].at = "token" /\ Finish(p) /\ UNCHANGED mailed
      BY <1>3 DEF TokenUse
    <2> QED BY <1>1, <2>1, <2>2, <2>3
  <1> QED BY <1>2, <1>3 DEF Makes

LEMMA OthersKeepVendors ==
  ASSUME Typed, Next
  PROVE  (\E p \in Workers : Makes(p)) \/ (VendorsKept /\ mailed \subseteq mailed')
  <1>0. TypeOK
    BY DEF Typed
  <1>1. ASSUME NEW p \in Workers, NEW i \in DOMAIN vendors, LoginFree(p, i)
        PROVE  VendorsKept /\ mailed \subseteq mailed'
    BY <1>0, <1>1, EnteredGives DEF LoginFree, VendorsKept
  <1>2. ASSUME NEW p \in Workers, Logs(p)
        PROVE  VendorsKept /\ mailed \subseteq mailed'
    <2>1. PICK r \in Regs : r = w[p].r
      BY <1>2 DEF Typed, RequestOK, Logs, LoginFirst, LoginLate, LoginWrite
    <2>2. w[p].account \in DOMAIN vendors /\ UNCHANGED mailed
          /\ \E o \in {"refused", "in"} : Entered(w[p].account, o)
      BY <1>2, <2>1, LoginGives
    <2> QED BY <1>0, <2>2, EnteredGives DEF VendorsKept
  <1>3. UNCHANGED vendors => VendorsKept
    BY DEF VendorsKept
  <1>4. CASE \E p \in Workers : Begins(p)
    BY <1>1, <1>3, <1>4 DEF Begins, RegisterCooldown, ApproveRead, RejectRead, DeleteRead, TokenRead,
       LoginRead
  <1>5. ASSUME NEW p \in Workers, Handle(p)
        PROVE  Makes(p) \/ (VendorsKept /\ mailed \subseteq mailed')
    <2>1. Makes(p) \/ Logs(p) \/ (UNCHANGED vendors /\ mailed \subseteq mailed')
      BY <1>5 DEF Handle, Makes, Logs, RegisterEmail, RegisterCompany, RegisterWrite, ApprovePitching,
         ApproveLost, ApproveRefused, RejectWrite, RejectRefused, DeleteWrite, DeleteRefused,
         TokenRefused, LoginFails, Quit
    <2> QED BY <1>2, <1>3, <2>1
  <1>6. CASE \E j \in JobNames : JobList(j)
    BY <1>3, <1>6 DEF JobList
  <1>7. CASE \E r \in Regs : DeleteDocuments(r) \/ Anonymize(r) \/ GrowOld(r) \/ Expire(r)
    BY <1>3, <1>7 DEF DeleteDocuments, Anonymize, GrowOld, Expire
  <1> QED BY <1>4, <1>5, <1>6, <1>7 DEF Next

-----------------------------------------------------------------------------
(* Credentials and names.                                                   *)

LEMMA NextMailed ==
  ASSUME Typed, CredentialsMailed, Next
  PROVE  CredentialsMailed'
  <1>1. CASE VendorsKept /\ mailed \subseteq mailed'
    BY <1>1 DEF VendorsKept, CredentialsMailed
  <1>2. ASSUME NEW p \in Workers, Makes(p)
        PROVE  CredentialsMailed'
    <2>1. mailed \subseteq mailed'
      BY <1>2, MakesGives
    <2>2. PICK v \in Vendor :
            /\ vendors' = Append(vendors, v)
            /\ v.by = "approval" => v.cred = tries + 1 /\ mailed' = mailed \cup {tries + 1}
      BY <1>2, MakesGives
    <2>3. /\ DOMAIN vendors' = DOMAIN vendors \cup {Len(vendors) + 1}
          /\ \A i \in DOMAIN vendors : vendors'[i] = vendors[i]
          /\ vendors'[Len(vendors) + 1] = v
      BY <2>2, VendorAdded DEF Typed
    <2> QED BY <2>1, <2>2, <2>3 DEF CredentialsMailed
  <1> QED BY <1>1, <1>2, OthersKeepVendors

LEMMA NextNamed ==
  ASSUME Typed, Ages, Named, Next
  PROVE  Named'
  <1>0. TypeOK
    BY DEF Typed
  <1>1. \A p \in Workers : w'[p].at \in {"approve", "token"} => w'[p].applicant # None
    <2>1. ASSUME NEW p \in Workers, NEW x \in Request, Continue(p, x),
                 x.at \in {"approve", "token"} => x.applicant # None
          PROVE  \A q \in Workers : w'[q].at \in {"approve", "token"} => w'[q].applicant # None
      <3>1. \A q \in Workers : w'[q] = IF q = p THEN x ELSE w[q]
        BY <1>0, <2>1, WorkersShape
      <3> QED BY <2>1, <3>1 DEF Named
    <2>2. CASE UNCHANGED w
      BY <2>2 DEF Named
    <2>3. ASSUME NEW p \in Workers, Begins(p), ~UNCHANGED w
          PROVE  \E x \in Request : Continue(p, x) /\ (x.at \in {"approve", "token"} => x.applicant # None)
      <3>1. CASE \E a \in Applicants : RegisterCooldown(p, a)
        BY <1>0, <3>1, RegisterCooldownStep
      <3>2. ASSUME NEW r \in Regs, \E via \in Via : ApproveRead(p, r, via)
            PROVE  \E x \in Request : Continue(p, x) /\ x.applicant # None
        BY <1>0, <3>2, ApproveReadStep, PendingIsYoung
      <3>3. CASE \E r \in Regs : RejectRead(p, r)
        BY <1>0, <3>3, RejectReadStep
      <3>4. CASE \E r \in Regs : DeleteRead(p, r)
        BY <1>0, <3>4, DeleteReadStep
      <3>5. ASSUME NEW r \in Regs, TokenRead(p, r)
            PROVE  \E x \in Request : Continue(p, x) /\ x.applicant # None
        <4>1. /\ Exists(r) /\ token[r].status # None /\ ~token[r].expired
              /\ \E x \in Request : Continue(p, x) /\ x.applicant = reg[r].applicant
          BY <1>0, <3>5, TokenReadStep DEF None
        <4>2. reg[r].applicant # None
          BY <4>1 DEF Ages, AgesOf
        <4> QED BY <4>1, <4>2
      <3>6. CASE \E i \in DOMAIN vendors : LoginRead(p, i)
        BY <1>0, <3>6, LoginReadStep
      <3>7. CASE \E i \in DOMAIN vendors : LoginFree(p, i)
        BY <2>3, <3>7 DEF LoginFree
      <3> QED BY <2>3, <3>1, <3>2, <3>3, <3>4, <3>5, <3>6, <3>7 DEF Begins
    <2>4. ASSUME NEW p \in Workers, Finish(p)
          PROVE  Continue(p, Idle) /\ Idle \in Request /\ Idle.at = "idle"
      BY <2>4, RecordShapes DEF Finish
    <2>5. ASSUME NEW p \in Workers, Handle(p)
          PROVE  \E x \in Request : Continue(p, x) /\ (x.at \in {"approve", "token"} => x.applicant # None)
      <3>1. CASE Finish(p)
        BY <2>4, <3>1
      <3>2. CASE Goto(p, "register.company") \/ Goto(p, "register.write")
        BY <1>0, <3>2, GotoStep DEF Steps
      <3>3. Finish(p) \/ Goto(p, "register.company") \/ Goto(p, "register.write")
        BY <2>5 DEF Handle, RegisterEmail, RegisterCompany, RegisterWrite, ApprovePitching, ApproveFinal,
           ApproveLost, ApproveRefused, RejectWrite, RejectRefused, DeleteWrite, DeleteRefused,
           TokenUse, TokenRefused, LoginFirst, LoginLate, LoginWrite, LoginFails, Quit
      <3> QED BY <3>1, <3>2, <3>3
    <2>6. (\E p \in Workers : Begins(p) \/ Handle(p)) \/ UNCHANGED w
      BY DEF Next, JobList, DeleteDocuments, Anonymize, GrowOld, Expire
    <2> QED BY <2>1, <2>2, <2>3, <2>5, <2>6
  <1>2. NoAnonymousVendor'
    <2>1. CASE VendorsKept
      BY <2>1 DEF VendorsKept, Named, NoAnonymousVendor
    <2>2. ASSUME NEW p \in Workers, Makes(p)
          PROVE  NoAnonymousVendor'
      <3>1. w[p].applicant # None
        BY <2>2, MakesGives DEF Named
      <3>2. PICK v \in Vendor : vendors' = Append(vendors, v) /\ v.applicant = w[p].applicant
        BY <2>2, MakesGives
      <3>3. /\ DOMAIN vendors' = DOMAIN vendors \cup {Len(vendors) + 1}
            /\ \A i \in DOMAIN vendors : vendors'[i] = vendors[i]
            /\ vendors'[Len(vendors) + 1] = v
        BY <1>0, <3>2, VendorAdded
      <3> QED BY <3>1, <3>2, <3>3 DEF Named, NoAnonymousVendor
    <2> QED BY <2>1, <2>2, OthersKeepVendors
  <1> QED BY <1>1, <1>2 DEF Named

-----------------------------------------------------------------------------
(* The history and the accounts: what the steps do to the rows.             *)

(* One row's edit is told in its history; status and history of the others   *)
(* stay, unless they are gone.                                              *)
Told(r, to) ==
  \E x \in Row, y \in HistoryRow : Edits(r, x, y) /\ x.status = to /\ y.to = to
Quiet ==
  \A q \in Regs :
    /\ reg[q].at # "absent" => reg'[q].at # "absent"
    /\ Exists(q)' => /\ Exists(q) /\ history'[q] = history[q]
                     /\ reg'[q].status = reg[q].status
                     /\ token'[q].status # None => token[q].status # None

LEMMA EveryStep ==
  ASSUME Typed, Ages, Next
  PROVE  \/ \E p \in Workers, r \in Regs : RegisterWrite(p, r)
         \/ \E p \in Workers : ApproveFinal(p)
         \/ \E r \in Regs, to \in Statuses \ {"DISETUJUI"} :
              Exists(r) /\ Told(r, to) /\ UNCHANGED <<token, vendors>>
         \/ Quiet
  <1>0. TypeOK
    BY DEF Typed
  <1>1. UNCHANGED <<reg, history, token>> => Quiet
    BY DEF Quiet, Exists
  <1>2. ASSUME NEW p \in Workers, Handle(p)
        PROVE  \/ \E r \in Regs : RegisterWrite(p, r)
               \/ ApproveFinal(p)
               \/ \E r \in Regs, to \in Statuses \ {"DISETUJUI"} :
                    Exists(r) /\ Told(r, to) /\ UNCHANGED <<token, vendors>>
               \/ Quiet
    <2>1. CASE ApprovePitching(p)
      <3>1. PICK r \in Regs : r = w[p].r
        BY <2>1 DEF Typed, RequestOK, ApprovePitching
      <3>2. Exists(r) /\ Review(r, "MENUNGGU_APPROVE", "PROSES_PITCHING") /\ UNCHANGED <<token, vendors>>
        BY <2>1, <3>1 DEF ApprovePitching
      <3>3. Told(r, "PROSES_PITCHING")
        BY <1>0, <3>2, ReviewGives DEF Told, Statuses
      <3> QED BY <3>2, <3>3 DEF Statuses
    <2>2. CASE RejectWrite(p)
      <3>1. PICK r \in Regs : r = w[p].r
        BY <2>2 DEF Typed, RequestOK, RejectWrite
      <3>2. Exists(r) /\ Told(r, "DITOLAK")
        BY <2>2, <3>1, RejectGives DEF Told
      <3>3. UNCHANGED <<token, vendors>>
        BY <2>2 DEF RejectWrite
      <3> QED BY <3>2, <3>3 DEF Statuses
    <2>3. CASE DeleteWrite(p)
      <3>1. w[p].r \in Regs
        BY <2>3 DEF Typed, RequestOK, DeleteWrite
      <3>2. \A q \in Regs : IF q = w[p].r THEN reg'[q] = Deleted
              ELSE reg'[q] = reg[q] /\ history'[q] = history[q] /\ token'[q] = token[q]
        BY <1>0, <2>3, <3>1 DEF DeleteWrite, TypeOK
      <3> QED BY <3>2, RecordShapes DEF Quiet, Exists
    <2>4. CASE TokenUse(p) \/ Logs(p)
      <3>1. PICK r \in Regs : r = w[p].r
        BY <2>4 DEF Typed, RequestOK, TokenUse, Logs, LoginFirst, LoginLate, LoginWrite
      <3>2. token[r].status # None /\ UNCHANGED <<reg, history>>
        BY <2>4, <3>1, TokenUseGives, LoginGives DEF TokenUse
      <3>3. PICK t \in Token : token' = [token EXCEPT ![r] = t]
        BY <2>4, <3>1, TokenUseGives, LoginGives
      <3>4. \A q \in Regs : q # r => token'[q] = token[q]
        BY <1>0, <3>3 DEF TypeOK
      <3> QED BY <3>2, <3>4 DEF Quiet, Exists
    <2>5. \/ \E r \in Regs : RegisterWrite(p, r)
          \/ ApproveFinal(p) \/ ApprovePitching(p) \/ RejectWrite(p) \/ DeleteWrite(p)
          \/ TokenUse(p) \/ Logs(p) \/ UNCHANGED <<reg, history, token>>
      BY <1>2 DEF Handle, RegisterEmail, RegisterCompany, ApproveLost, ApproveRefused, RejectRefused,
         DeleteRefused, TokenRefused, LoginFails, Logs, Quit
    <2> QED BY <1>1, <2>1, <2>2, <2>3, <2>4, <2>5
  <1>3. ASSUME NEW r \in Regs, DeleteDocuments(r), Exists(r)
        PROVE  \E to \in Statuses \ {"DISETUJUI"} :
                 Exists(r) /\ Told(r, to) /\ UNCHANGED <<token, vendors>>
    <2>1. reg[r].status = "DITOLAK"
      BY <1>3 DEF DeleteDocuments, Ages, AgesOf, Listed
    <2>2. Told(r, "DITOLAK")
      BY <1>0, <1>3, <2>1, DocumentsGives DEF Told
    <2> QED BY <1>3, <2>2 DEF DeleteDocuments, Statuses
  <1>4. ASSUME NEW r \in Regs, (Anonymize(r) /\ Exists(r)) \/ GrowOld(r)
        PROVE  Quiet
    <2>1. Exists(r) /\ \E x \in Row : reg' = [reg EXCEPT ![r] = x] /\ x.status = reg[r].status
      BY <1>0, <1>4, AnonymizeGives, GrowGives
    <2>2. PICK x \in Row : reg' = [reg EXCEPT ![r] = x] /\ x.status = reg[r].status
      BY <2>1
    <2>3. \A q \in Regs : reg'[q] = IF q = r THEN x ELSE reg[q]
      BY <1>0, <2>1, <2>2, RowAlone
    <2>4. UNCHANGED <<history, token>>
      BY <1>4 DEF Anonymize, GrowOld
    <2> QED BY <2>1, <2>2, <2>3, <2>4, RecordShapes DEF Quiet, Exists
  <1>5. ASSUME NEW r \in Regs, Expire(r)
        PROVE  Quiet
    <2>1. UNCHANGED <<reg, history>>
      BY <1>5 DEF Expire
    <2>2. PICK t \in Token : token' = [token EXCEPT ![r] = t] /\ t.status = token[r].status
      BY <1>0, <1>5, ExpireGives
    <2>3. \A q \in Regs : token'[q] = IF q = r THEN t ELSE token[q]
      BY <1>0, <2>2 DEF TypeOK
    <2> QED BY <2>1, <2>2, <2>3 DEF Quiet, Exists
  <1>6. CASE \E p \in Workers : Begins(p)
    <2>1. UNCHANGED <<reg, history, token>>
      BY <1>6 DEF Begins, RegisterCooldown, ApproveRead, RejectRead, DeleteRead, TokenRead,
         LoginRead, LoginFree
    <2> QED BY <1>1, <2>1
  <1>7. CASE \E j \in JobNames : JobList(j)
    BY <1>1, <1>7 DEF JobList
  <1>8. ASSUME NEW r \in Regs, (DeleteDocuments(r) \/ Anonymize(r)) /\ ~Exists(r)
        PROVE  UNCHANGED <<reg, history, token>>
    BY <1>8 DEF DeleteDocuments, Anonymize
  <1> QED BY <1>1, <1>2, <1>3, <1>4, <1>5, <1>6, <1>7, <1>8 DEF Next

LEMMA ToldGives ==
  ASSUME TypeOK, NEW r \in Regs, Exists(r), NEW to \in Statuses, Told(r, to)
  PROVE  /\ history'[r] # <<>> /\ Last(history'[r]).to = to /\ reg'[r].status = to
         /\ Approvals(r)' = IF to = "DISETUJUI" THEN Approvals(r) \cup {Len(history[r]) + 1}
                                                ELSE Approvals(r)
         /\ \A q \in Regs : q # r => reg'[q] = reg[q] /\ history'[q] = history[q]
         /\ \A q \in Regs : Exists(q)' <=> Exists(q)
         /\ \A q \in Regs : reg[q].at # "absent" => reg'[q].at # "absent"
  <1>1. PICK x \in Row, y \in HistoryRow : Edits(r, x, y) /\ x.status = to /\ y.to = to
    BY DEF Told
  <1>2. /\ \A q \in Regs : /\ reg'[q] = IF q = r THEN x ELSE reg[q]
                           /\ history'[q] = IF q = r THEN Append(history[q], y) ELSE history[q]
        /\ \A q \in Regs : Exists(q)' <=> Exists(q)
        /\ history' \in [Regs -> Seq(HistoryRow)]
        /\ Len(history'[r]) = Len(history[r]) + 1 /\ history'[r] # <<>>
        /\ history'[r][Len(history[r]) + 1] = y
        /\ \A i \in DOMAIN history[r] : history'[r][i] = history[r][i]
    BY <1>1, EditsGives
  <1>3. Len(history[r]) \in Nat /\ DOMAIN history[r] = 1..Len(history[r])
    BY HistorySeq
  <1>4. DOMAIN history'[r] = 1..(Len(history[r]) + 1)
    BY <1>2, LenProperties
  <1>5. DOMAIN history'[r] = DOMAIN history[r] \cup {Len(history[r]) + 1}
    BY <1>3, <1>4
  <1>6. Approvals(r)' = IF to = "DISETUJUI" THEN Approvals(r) \cup {Len(history[r]) + 1}
                                            ELSE Approvals(r)
    BY <1>1, <1>2, <1>5 DEF Approvals
  <1>7. Last(history'[r]).to = to
    BY <1>1, <1>2 DEF Last
  <1>8. x.at = "row"
    BY RecordShapes
  <1> QED BY <1>1, <1>2, <1>6, <1>7, <1>8

LEMMA NextEnds ==
  ASSUME Typed, Ages, HistoryEnds, Next
  PROVE  HistoryEnds'
  <1>0. TypeOK
    BY DEF Typed
  <1>1. CASE \E p \in Workers, r \in Regs : RegisterWrite(p, r)
    <2>1. PICK p \in Workers, r \in Regs : RegisterWrite(p, r)
      BY <1>1
    <2>2. /\ \A q \in Regs : q # r => reg'[q] = reg[q] /\ history'[q] = history[q]
          /\ reg'[r].status = "MENUNGGU_APPROVE"
          /\ history'[r] = <<[from |-> None, to |-> "MENUNGGU_APPROVE"]>>
      BY <2>1, RegisterWriteGives
    <2>3. history'[r] # <<>> /\ Last(history'[r]).to = reg'[r].status
      BY <2>2 DEF Last
    <2> QED BY <2>2, <2>3 DEF HistoryEnds, Exists
  <1>2. ASSUME NEW r \in Regs, NEW to \in Statuses, Exists(r), Told(r, to)
        PROVE  HistoryEnds'
    <2>1. /\ history'[r] # <<>> /\ Last(history'[r]).to = to /\ reg'[r].status = to
          /\ \A q \in Regs : q # r => reg'[q] = reg[q] /\ history'[q] = history[q]
          /\ \A q \in Regs : Exists(q)' <=> Exists(q)
      BY <1>0, <1>2, ToldGives
    <2> QED BY <2>1 DEF HistoryEnds, Last
  <1>3. CASE \E p \in Workers : ApproveFinal(p)
    <2>1. PICK p \in Workers : ApproveFinal(p)
      BY <1>3
    <2>2. PICK r \in Regs : r = w[p].r
      BY <2>1 DEF Typed, RequestOK, ApproveFinal
    <2>3. Exists(r) /\ Told(r, "DISETUJUI")
      BY <2>1, <2>2, ApproveFinalGives DEF Told
    <2> QED BY <1>2, <2>3 DEF Statuses
  <1>4. CASE Quiet
    BY <1>4 DEF Quiet, HistoryEnds, Last
  <1> QED BY <1>1, <1>2, <1>3, <1>4, EveryStep

LEMMA FiniteCounts ==
  ASSUME TypeOK, NEW r \in Regs
  PROVE  /\ IsFiniteSet(Accounts(r)) /\ Cardinality(Accounts(r)) \in Nat
         /\ IsFiniteSet(Approvals(r)) /\ Cardinality(Approvals(r)) \in Nat
         /\ Len(history[r]) + 1 \notin Approvals(r) /\ Len(vendors) + 1 \notin Accounts(r)
  <1>1. /\ Len(vendors) \in Nat /\ DOMAIN vendors = 1..Len(vendors)
        /\ Len(history[r]) \in Nat /\ DOMAIN history[r] = 1..Len(history[r])
    BY VendorsSeq, HistorySeq
  <1>2. Accounts(r) \subseteq 1..Len(vendors) /\ Approvals(r) \subseteq 1..Len(history[r])
    BY <1>1 DEF Accounts, Approvals
  <1>3. IsFiniteSet(1..Len(vendors)) /\ IsFiniteSet(1..Len(history[r]))
    BY <1>1, FS_Interval
  <1>4. IsFiniteSet(Accounts(r)) /\ IsFiniteSet(Approvals(r))
    BY <1>2, <1>3, FS_Subset
  <1> QED BY <1>1, <1>2, <1>4, FS_CardinalityType

(* A row, its approvals, its accounts and its token, after and before.      *)
CountsKept(q) ==
  /\ Approvals(q)' = Approvals(q) /\ Accounts(q)' = Accounts(q)
  /\ token'[q].status # None => token[q].status # None

LEMMA CountedKept ==
  ASSUME Counted, NEW q \in Regs, Exists(q), CountsKept(q),
         \A i \in DOMAIN vendors' :
           vendors'[i].r = q => \/ i \in DOMAIN vendors /\ vendors[i].r = q
                                \/ token[q].status # None
  PROVE  /\ Cardinality(Accounts(q)') = Cardinality(Approvals(q)')
         /\ \A i \in DOMAIN vendors' : vendors'[i].r = q => Accounts(q)' # {}
         /\ token'[q].status # None => Accounts(q)' # {}
  BY DEF Counted, AccountsApproved, Issued, CountsKept

(* The vendors do not change, but for their logins.                         *)
LEMMA KeptAccounts ==
  ASSUME VendorsKept
  PROVE  \A q \in Regs : Accounts(q)' = Accounts(q)
  BY DEF VendorsKept, Accounts

LEMMA RegisterCounted ==
  ASSUME Typed, Counted, NEW p \in Workers, NEW r \in Regs, RegisterWrite(p, r)
  PROVE  Counted'
  <1>0. TypeOK
    BY DEF Typed
  <1>1. UNCHANGED <<vendors, token>>
    BY DEF RegisterWrite
  <1>2. /\ reg[r] = Absent /\ Exists(r)'
        /\ \A q \in Regs : q # r => reg'[q] = reg[q] /\ history'[q] = history[q]
        /\ history'[r] = <<[from |-> None, to |-> "MENUNGGU_APPROVE"]>>
    BY RegisterWriteGives
  <1>3. \A i \in DOMAIN vendors : vendors[i].r # r
    BY <1>2, RecordShapes DEF Counted, Made
  <1>4. token[r].status = None
    BY <1>0, <1>2, RowThere, RecordShapes DEF Exists
  <1>5. Accounts(r)' = {} /\ Approvals(r)' = {}
    BY <1>1, <1>2, <1>3 DEF Accounts, Approvals
  <1>6. \A q \in Regs : q # r => CountsKept(q)
    BY <1>1, <1>2 DEF CountsKept, Accounts, Approvals
  <1>7. \A q \in Regs : q # r /\ Exists(q)' =>
          /\ Cardinality(Accounts(q)') = Cardinality(Approvals(q)')
          /\ \A i \in DOMAIN vendors' : vendors'[i].r = q => Accounts(q)' # {}
          /\ token'[q].status # None => Accounts(q)' # {}
    <2> SUFFICES ASSUME NEW q \in Regs, q # r, Exists(q)'
                 PROVE  /\ Cardinality(Accounts(q)') = Cardinality(Approvals(q)')
                        /\ \A i \in DOMAIN vendors' : vendors'[i].r = q => Accounts(q)' # {}
                        /\ token'[q].status # None => Accounts(q)' # {}
      OBVIOUS
    <2>1. Exists(q)
      BY <1>2 DEF Exists
    <2> QED BY <1>1, <1>6, <2>1, CountedKept
  <1>8. Made'
    <2>1. \A i \in DOMAIN vendors : vendors[i].r \in Regs /\ reg[vendors[i].r].at # "absent"
      BY <1>0, VendorsSeq, RecordShapes DEF Counted, Made
    <2>2. reg'[r].at # "absent"
      BY <1>2 DEF Exists
    <2> QED BY <1>1, <1>2, <2>1, <2>2 DEF Made
  <1> QED BY <1>1, <1>3, <1>4, <1>5, <1>7, <1>8 DEF Counted, AccountsApproved, Issued

(* Everything that makes no vendor from a row that gets one more approval.  *)
LEMMA StepCounted ==
  ASSUME Typed, Counted, \A q \in Regs : reg[q].at # "absent" => reg'[q].at # "absent",
         VendorsKept \/ \E p \in Workers : TokenUse(p),
         \A q \in Regs : Exists(q)' => /\ Exists(q) /\ Approvals(q)' = Approvals(q)
                                       /\ token'[q].status # None => token[q].status # None
  PROVE  Counted'
  <1>0. TypeOK /\ \A i \in DOMAIN vendors : vendors[i].r \in Regs
    BY VendorsSeq, RecordShapes DEF Typed
  <1>1. /\ \A q \in Regs : Accounts(q)' = Accounts(q)
        /\ \A i \in DOMAIN vendors' :
             \/ i \in DOMAIN vendors /\ vendors'[i].r = vendors[i].r
             \/ vendors'[i].r \in Regs /\ token[vendors'[i].r].status # None /\ Exists(vendors'[i].r)
    <2>1. CASE VendorsKept
      BY <2>1, KeptAccounts DEF VendorsKept
    <2>2. ASSUME NEW p \in Workers, TokenUse(p)
          PROVE  /\ \A q \in Regs : Accounts(q)' = Accounts(q)
                 /\ \A i \in DOMAIN vendors' :
                      \/ i \in DOMAIN vendors /\ vendors'[i].r = vendors[i].r
                      \/ vendors'[i].r \in Regs /\ token[vendors'[i].r].status # None
                         /\ Exists(vendors'[i].r)
      <3>1. PICK r \in Regs : r = w[p].r
        BY <2>2 DEF Typed, RequestOK, TokenUse
      <3>2. token[r].status # None /\ Exists(r)
        BY <2>2, <3>1, TokenUseGives
      <3>3. PICK v \in Vendor : vendors' = Append(vendors, v) /\ v.r = r /\ v.by = "token"
        BY <2>2, <3>1, TokenUseGives
      <3>4. /\ DOMAIN vendors' = DOMAIN vendors \cup {Len(vendors) + 1}
            /\ \A i \in DOMAIN vendors : vendors'[i] = vendors[i]
            /\ vendors'[Len(vendors) + 1] = v
        BY <1>0, <3>3, VendorAdded
      <3> QED BY <3>2, <3>3, <3>4 DEF Accounts
    <2> QED BY <2>1, <2>2
  <1>2. \A q \in Regs : Exists(q)' => CountsKept(q)
    BY <1>1 DEF CountsKept
  <1>3. \A q \in Regs : Exists(q)' =>
          /\ Cardinality(Accounts(q)') = Cardinality(Approvals(q)')
          /\ \A i \in DOMAIN vendors' : vendors'[i].r = q => Accounts(q)' # {}
          /\ token'[q].status # None => Accounts(q)' # {}
    BY <1>1, <1>2, CountedKept
  <1>4. Made'
    BY <1>0, <1>1, RecordShapes DEF Counted, Made, Exists
  <1> QED BY <1>3, <1>4 DEF Counted, AccountsApproved, Issued

LEMMA FinalCounted ==
  ASSUME Typed, Counted, NEW p \in Workers, ApproveFinal(p)
  PROVE  Counted'
  <1>0. TypeOK /\ \A i \in DOMAIN vendors : vendors[i].r \in Regs
    BY VendorsSeq, RecordShapes DEF Typed
  <1>1. PICK r \in Regs : r = w[p].r
    BY DEF Typed, RequestOK, ApproveFinal
  <1>2. Exists(r) /\ Told(r, "DISETUJUI") /\ \A q \in Regs : q # r => token'[q] = token[q]
    BY <1>1, ApproveFinalGives DEF Told
  <1>3. /\ Approvals(r)' = Approvals(r) \cup {Len(history[r]) + 1}
        /\ \A q \in Regs : q # r => reg'[q] = reg[q] /\ history'[q] = history[q]
        /\ \A q \in Regs : Exists(q)' <=> Exists(q)
        /\ \A q \in Regs : reg[q].at # "absent" => reg'[q].at # "absent"
    BY <1>0, <1>2, ToldGives DEF Statuses
  <1>4. PICK v \in Vendor : vendors' = Append(vendors, v) /\ v.r = r /\ v.by = "approval"
    BY <1>1, ApproveFinalGives
  <1>5. /\ DOMAIN vendors' = DOMAIN vendors \cup {Len(vendors) + 1}
        /\ \A i \in DOMAIN vendors : vendors'[i] = vendors[i]
        /\ vendors'[Len(vendors) + 1] = v
    BY <1>0, <1>4, VendorAdded
  <1>6. Accounts(r)' = Accounts(r) \cup {Len(vendors) + 1}
    BY <1>4, <1>5 DEF Accounts
  <1>7. Cardinality(Accounts(r)') = Cardinality(Approvals(r)')
    <2>1. Cardinality(Accounts(r)) = Cardinality(Approvals(r))
      BY <1>2 DEF Counted, AccountsApproved
    <2>2. Cardinality(Accounts(r)') = Cardinality(Accounts(r)) + 1
      BY <1>0, <1>6, FiniteCounts, FS_AddElement
    <2>3. Cardinality(Approvals(r)') = Cardinality(Approvals(r)) + 1
      BY <1>0, <1>3, FiniteCounts, FS_AddElement
    <2> QED BY <2>1, <2>2, <2>3
  <1>8. \A q \in Regs : q # r => CountsKept(q)
    BY <1>2, <1>3, <1>4, <1>5 DEF CountsKept, Accounts, Approvals
  <1>9. \A q \in Regs : q # r /\ Exists(q)' =>
          /\ Cardinality(Accounts(q)') = Cardinality(Approvals(q)')
          /\ \A i \in DOMAIN vendors' : vendors'[i].r = q => Accounts(q)' # {}
          /\ token'[q].status # None => Accounts(q)' # {}
    BY <1>3, <1>4, <1>5, <1>8, CountedKept
  <1>10. Made'
    BY <1>0, <1>2, <1>3, <1>4, <1>5 DEF Counted, Made, Exists
  <1> QED BY <1>6, <1>7, <1>9, <1>10 DEF Counted, AccountsApproved, Issued

LEMMA NextCounted ==
  ASSUME Typed, Ages, Counted, Next
  PROVE  Counted'
  <1>0. TypeOK
    BY DEF Typed
  <1>1. CASE \E p \in Workers, r \in Regs : RegisterWrite(p, r)
    BY <1>1, RegisterCounted
  <1>2. CASE \E p \in Workers : ApproveFinal(p)
    BY <1>2, FinalCounted
  <1>3. ASSUME NEW r \in Regs, NEW to \in Statuses \ {"DISETUJUI"}, Exists(r), Told(r, to),
               UNCHANGED <<token, vendors>>
        PROVE  Counted'
    <2>1. /\ Approvals(r)' = Approvals(r)
          /\ \A q \in Regs : q # r => reg'[q] = reg[q] /\ history'[q] = history[q]
          /\ \A q \in Regs : Exists(q)' <=> Exists(q)
          /\ \A q \in Regs : reg[q].at # "absent" => reg'[q].at # "absent"
      BY <1>0, <1>3, ToldGives
    <2>2. \A q \in Regs : Approvals(q)' = Approvals(q)
      BY <2>1 DEF Approvals
    <2>3. VendorsKept
      BY <1>3 DEF VendorsKept
    <2> QED BY <1>3, <2>1, <2>2, <2>3, StepCounted
  <1>4. CASE Quiet /\ ~\E p \in Workers : ApproveFinal(p)
    <2>1. VendorsKept \/ \E p \in Workers : TokenUse(p)
      BY <1>4, OthersKeepVendors DEF Makes
    <2>2. \A q \in Regs : Exists(q)' => Approvals(q)' = Approvals(q)
      BY <1>4 DEF Quiet, Approvals
    <2> QED BY <1>4, <2>1, <2>2, StepCounted DEF Quiet
  <1> QED BY <1>1, <1>2, <1>3, <1>4, EveryStep

-----------------------------------------------------------------------------
(* The theorems.                                                            *)

Sound == Typed /\ Ages /\ Named /\ CredentialsMailed /\ HistoryEnds /\ Counted

LEMMA InitSound == Init => Sound
  <1> SUFFICES ASSUME Init PROVE Sound
    OBVIOUS
  <1>1. Typed
    BY InitTyped
  <1>2. \A r \in Regs : reg[r] = Absent /\ ~Exists(r)
    BY RecordShapes DEF Init, Exists
  <1>3. \A p \in Workers : w[p].at = "idle"
    BY RecordShapes DEF Init
  <1>4. vendors = <<>> /\ DOMAIN vendors = {} /\ \A j \in JobNames : jobs[j] = {}
    BY DEF Init
  <1>5. Ages
    BY <1>2, <1>3, <1>4 DEF Ages, AgesOf, Undisturbed, Listed, JobNames
  <1>6. Named /\ CredentialsMailed
    BY <1>3, <1>4 DEF Named, NoAnonymousVendor, CredentialsMailed
  <1>7. HistoryEnds /\ Counted
    BY <1>2, <1>4 DEF HistoryEnds, Counted, AccountsApproved, Issued, Made
  <1> QED BY <1>1, <1>5, <1>6, <1>7 DEF Sound

LEMMA NextSound == Sound /\ [Next]_vars => Sound'
  <1> SUFFICES ASSUME Sound, [Next]_vars PROVE Sound'
    OBVIOUS
  <1>1. CASE Next
    <2>1. Typed'
      BY <1>1, NextTyped DEF Sound
    <2> QED BY <1>1, <2>1, NextAges, NextNamed, NextMailed, NextEnds, NextCounted DEF Sound
  <1>2. CASE UNCHANGED vars
    <2>1. Typed'
      BY <1>2, StutterTyped DEF Sound
    <2>2. Ages' /\ Named' /\ CredentialsMailed'
      BY <1>2 DEF vars, Sound, Ages, AgesOf, Undisturbed, Listed, Exists, Named, NoAnonymousVendor,
         CredentialsMailed
    <2>3. HistoryEnds' /\ Counted'
      BY <1>2 DEF vars, Sound, HistoryEnds, Exists, Last, Counted, AccountsApproved, Issued, Made,
         Accounts, Approvals
    <2> QED BY <2>1, <2>2, <2>3 DEF Sound
  <1> QED BY <1>1, <1>2

(* The inductive invariant: rows age only when nobody is about to review     *)
(* them, and history, vendors and tokens are made together.                 *)
THEOREM SpecSound == Spec => []Sound
  BY InitSound, NextSound, PTL DEF Spec

(* Registrations, their history, tokens, accounts and the requests under     *)
(* way are well typed; what is deleted leaves neither history nor token.    *)
THEOREM SpecTypeOK == Spec => []TypeOK
  <1>1. Sound => TypeOK
    BY DEF Sound, Typed
  <1> QED BY <1>1, SpecSound, PTL

(* A registration stands where the newest row of its history says, however   *)
(* reviews, deletions and the nightly job overlap: the job touches only rows *)
(* that nobody can still be about to review.                                *)
THEOREM SpecHistoryEnds == Spec => []HistoryEnds
  <1>1. Sound => HistoryEnds
    BY DEF Sound
  <1> QED BY <1>1, SpecSound, PTL

(* There are as many accounts made by approvals as the history shows         *)
(* approvals, and no other account without one of them.                     *)
THEOREM SpecAccountsApproved == Spec => []AccountsApproved
  <1>1. Sound => AccountsApproved
    BY DEF Sound, Counted
  <1> QED BY <1>1, SpecSound, PTL

(* The credentials of every account an approval made were queued.           *)
THEOREM SpecCredentialsMailed == Spec => []CredentialsMailed
  <1>1. Sound => CredentialsMailed
    BY DEF Sound
  <1> QED BY <1>1, SpecSound, PTL

(* No vendor is made from a row whose data were erased.                     *)
THEOREM SpecNoAnonymousVendor == Spec => []NoAnonymousVendor
  <1>1. Sound => NoAnonymousVendor
    BY DEF Sound, Named
  <1> QED BY <1>1, SpecSound, PTL
=============================================================================
