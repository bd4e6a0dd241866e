-------------------------- MODULE VendorRegistration --------------------------
(***************************************************************************)
(* The registration of vendors, vendor-registration.service.ts: the public  *)
(* form, the reviews of Admin HO, the credential token of an approval, the  *)
(* logins it limits (auth.service.ts) and the two jobs that clear the row of *)
(* a rejected applicant: the paths of the documents, then the personal data. *)
(* The uploaded files themselves stay where they are: deleting them is       *)
(* commented out in the service.                                            *)
(*                                                                         *)
(* A worker is one request.  An interactive transaction reads first and     *)
(* writes later; its reads keep no lock, so what it read may be out of date *)
(* when it commits.  Its writes lock the row, so from its first write to    *)
(* its commit it is one step.  Bull's queue may refuse a job, and a commit  *)
(* may fail after the mail was queued.                                     *)
(*                                                                         *)
(* Abstracted: an applicant stands for company name and contact data at     *)
(* once; documents, tukang, notes, bank and area do not matter.  Mails are  *)
(* followed only where they carry credentials; notifications are not.       *)
(***************************************************************************)
EXTENDS Naturals, Sequences, FiniteSets

CONSTANTS Regs,        \* ids the vendor_registration table may give out
          Applicants,
          Workers,     \* requests handled at the same time
          Via,         \* endpoints of approveRegistration in this instance
          Batch,       \* rows a job takes at a time (100 in the code)
          MaxRequests  \* bound: requests started in a behaviour

Statuses == {"MENUNGGU_APPROVE", "PROSES_PITCHING", "DISETUJUI", "DITOLAK"}
Pending  == {"MENUNGGU_APPROVE", "PROSES_PITCHING"}
Open     == Pending \cup {"DISETUJUI"}
None     == "none"

ASSUME ApplicantsAssumption == None \notin Applicants
ASSUME ViaAssumption == Via \subseteq {"approve", "start-pitching", "final-approve"}
ASSUME BoundAssumption == Batch \in Nat \ {0} /\ MaxRequests \in Nat

VARIABLES
  reg,      \* id -> Absent, Deleted, or the row of vendor_registration
  history,  \* id -> its rows of vendor_registration_history
  token,    \* id -> its row of vendor_registration_token
  vendors,  \* the vendors, each with its user, created so far
  mailed,   \* credentials some queued approval mail carries
  jobs,     \* job -> ids it has listed and not yet written
  w,        \* worker -> the request it handles
  requests, \* requests started so far
  tries     \* final approvals attempted so far: each makes new credentials

vars == <<reg, history, token, vendors, mailed, jobs, w, requests, tries>>

Absent  == [at |-> "absent"]
Deleted == [at |-> "deleted"]

(* age counts from rejected_at: 0 below 36 hours, 1 below 30 days, 2 above. *)
(* applicant is None once the row is anonymised; pathsCleared stands for     *)
(* documents_deleted_at, which is set when the row forgets the paths.        *)
Row == [at : {"row"}, status : Statuses, applicant : Applicants \cup {None},
        age : 0..2, pathsCleared : BOOLEAN]
HistoryRow == [from : Statuses \cup {None}, to : Statuses]
Token == [status : {None, "ACTIVE", "USED", "EXPIRED"}, expired : BOOLEAN,
          account : Nat]
NoToken == [status |-> None, expired |-> FALSE, account |-> 0]
Vendor == [r : Regs, applicant : Applicants \cup {None},
           by : {"approval", "token"}, cred : Nat,
           login : {"never", "refused", "in"}]

JobNames == {"documents", "anonymize"}
Steps == {"idle", "register.email", "register.company", "register.write",
          "approve", "reject", "delete", "token", "login.first", "login.late"}
Request == [at : Steps, r : Regs \cup {None}, applicant : Applicants \cup {None},
            seen : Statuses \cup {None}, via : Via \cup {None}, account : Nat]
Idle == [at |-> "idle", r |-> None, applicant |-> None, seen |-> None,
         via |-> None, account |-> 0]

TypeOK ==
  /\ reg \in [Regs -> Row \cup {Absent, Deleted}]
  /\ history \in [Regs -> Seq(HistoryRow)]
  /\ token \in [Regs -> Token]
  /\ vendors \in Seq(Vendor)
  /\ mailed \subseteq Nat
  /\ jobs \in [JobNames -> SUBSET Regs]
  /\ w \in [Workers -> Request]
  /\ requests \in 0..MaxRequests
  /\ tries \in Nat
  /\ \A r \in Regs : reg[r].at # "row" => history[r] = <<>> /\ token[r] = NoToken
  /\ \A r \in Regs : token[r].account \in {0} \cup DOMAIN vendors

-----------------------------------------------------------------------------
Exists(r) == reg[r].at = "row"
Has(r, statuses) == Exists(r) /\ reg[r].status \in statuses

Begin(p) ==
  /\ w[p].at = "idle"
  /\ requests < MaxRequests
  /\ requests' = requests + 1

Continue(p, x) == w' = [w EXCEPT ![p] = x]
Goto(p, step) == Continue(p, [w[p] EXCEPT !.at = step])
Finish(p) == Continue(p, Idle)

Quit(p, step) ==
  /\ w[p].at = step
  /\ Finish(p)
  /\ UNCHANGED <<reg, history, token, vendors, mailed, jobs, requests, tries>>

(* The row's status and the history row that tells of it.                   *)
Review(r, from, to) ==
  /\ reg' = [reg EXCEPT ![r].status = to]
  /\ history' = [history EXCEPT ![r] = Append(@, [from |-> from, to |-> to])]

-----------------------------------------------------------------------------
(* registerVendor: three checks and an insert, each a query of its own.     *)

Free == {r \in Regs : reg[r] = Absent}
Inserting == {p \in Workers : w[p].at \in {"register.email", "register.company",
                                           "register.write"}}

(* assertRejectedCooldown: 30 days after a rejection, unless anonymised.    *)
CoolingDown(a) ==
  \E r \in Regs : Has(r, {"DITOLAK"}) /\ reg[r].applicant = a /\ reg[r].age < 2

RegisterCooldown(p, a) ==
  /\ Begin(p)
  /\ Cardinality(Inserting) < Cardinality(Free)
  /\ ~CoolingDown(a)
  /\ Continue(p, [Idle EXCEPT !.at = "register.email", !.applicant = a])
  /\ UNCHANGED <<reg, history, token, vendors, mailed, jobs, tries>>

RegisterEmail(p) ==
  /\ w[p].at = "register.email"
  /\ IF \E r \in Regs : Has(r, Open) /\ reg[r].applicant = w[p].applicant
     THEN Finish(p)
     ELSE Goto(p, "register.company")
  /\ UNCHANGED <<reg, history, token, vendors, mailed, jobs, requests, tries>>

RegisterCompany(p) ==
  /\ w[p].at = "register.company"
  /\ IF \E i \in DOMAIN vendors : vendors[i].applicant = w[p].applicant
     THEN Finish(p)
     ELSE Goto(p, "register.write")
  /\ UNCHANGED <<reg, history, token, vendors, mailed, jobs, requests, tries>>

RegisterWrite(p, r) ==
  /\ w[p].at = "register.write"
  /\ r \in Free
  /\ reg' = [reg EXCEPT ![r] = [at |-> "row", status |-> "MENUNGGU_APPROVE",
                                applicant |-> w[p].applicant, age |-> 0,
                                pathsCleared |-> FALSE]]
  /\ history' = [history EXCEPT ![r] =
                   <<[from |-> None, to |-> "MENUNGGU_APPROVE"]>>]
  /\ Finish(p)
  /\ UNCHANGED <<token, vendors, mailed, jobs, requests, tries>>

-----------------------------------------------------------------------------
(* approveRegistration, behind three endpoints.  What it does depends on    *)
(* the status it reads, not on the endpoint.                                *)

ApproveRead(p, r, via) ==
  /\ Begin(p)
  /\ Has(r, Pending)
  /\ Continue(p, [Idle EXCEPT !.at = "approve", !.r = r,
                              !.applicant = reg[r].applicant,
                              !.seen = reg[r].status, !.via = via])
  /\ UNCHANGED <<reg, history, token, vendors, mailed, jobs, tries>>

ApprovePitching(p) ==
  /\ w[p].at = "approve"
  /\ w[p].seen = "MENUNGGU_APPROVE"
  /\ Exists(w[p].r)
  /\ Review(w[p].r, "MENUNGGU_APPROVE", "PROSES_PITCHING")
  /\ Finish(p)
  /\ UNCHANGED <<token, vendors, mailed, jobs, requests, tries>>

(* User, vendor and token are made, the credentials are mailed, and the     *)
(* whole is committed.                                                      *)
NewVendor(p, by, cred) ==
  [r |-> w[p].r, applicant |-> w[p].applicant, by |-> by, cred |-> cred,
   login |-> "never"]
IssueToken(r) ==
  token' = [token EXCEPT ![r] = [status |-> "ACTIVE", expired |-> FALSE,
                                 account |-> Len(vendors) + 1]]

(* Mutants: the account is made at the first approval already; the mail is  *)
(* queued after the commit, when the queue may refuse it.                   *)
ApproveFinal_EitherStage(p) ==
  /\ w[p].at = "approve"
  /\ LET r == w[p].r IN
     /\ Exists(r)
     /\ Review(r, w[p].seen, IF w[p].seen = "MENUNGGU_APPROVE"
                             THEN "PROSES_PITCHING" ELSE "DISETUJUI")
     /\ IssueToken(r)
     /\ vendors' = Append(vendors, NewVendor(p, "approval", tries + 1))
  /\ mailed' = mailed \cup {tries + 1}
  /\ tries' = tries + 1
  /\ Finish(p)
  /\ UNCHANGED <<jobs, requests>>

ApproveFinal_MailsLast(p) ==
  /\ w[p].at = "approve"
  /\ w[p].seen = "PROSES_PITCHING"
  /\ LET r == w[p].r IN
     /\ Exists(r)
     /\ Review(r, "PROSES_PITCHING", "DISETUJUI")
     /\ IssueToken(r)
     /\ vendors' = Append(vendors, NewVendor(p, "approval", tries + 1))
  /\ mailed' \in {mailed, mailed \cup {tries + 1}}
  /\ tries' = tries + 1
  /\ Finish(p)
  /\ UNCHANGED <<jobs, requests>>

ApproveFinal(p) ==
  /\ w[p].at = "approve"
  /\ w[p].seen = "PROSES_PITCHING"
  /\ LET r == w[p].r IN
     /\ Exists(r)
     /\ Review(r, "PROSES_PITCHING", "DISETUJUI")
     /\ IssueToken(r)
     /\ vendors' = Append(vendors, NewVendor(p, "approval", tries + 1))
  /\ mailed' = mailed \cup {tries + 1}
  /\ tries' = tries + 1
  /\ Finish(p)
  /\ UNCHANGED <<jobs, requests>>

(* The commit fails; the mail is on its way all the same.                   *)
ApproveLost(p) ==
  /\ w[p].at = "approve"
  /\ w[p].seen = "PROSES_PITCHING"
  /\ mailed' = mailed \cup {tries + 1}
  /\ tries' = tries + 1
  /\ Finish(p)
  /\ UNCHANGED <<reg, history, token, vendors, jobs, requests>>

(* The row is gone, or the queue or the database refuses.                   *)
ApproveRefused(p) == Quit(p, "approve")

-----------------------------------------------------------------------------
(* rejectRegistration and deleteRegistration *)

RejectRead(p, r) ==
  /\ Begin(p)
  /\ Has(r, Pending)
  /\ Continue(p, [Idle EXCEPT !.at = "reject", !.r = r, !.seen = reg[r].status])
  /\ UNCHANGED <<reg, history, token, vendors, mailed, jobs, tries>>

(* Mutant: the history row says what the row was when it is written.        *)
RejectWrite_NoHistory(p) ==
  /\ w[p].at = "reject"
  /\ Exists(w[p].r)
  /\ reg' = [reg EXCEPT ![w[p].r].status = "DITOLAK", ![w[p].r].age = 0]
  /\ Finish(p)
  /\ UNCHANGED <<history, token, vendors, mailed, jobs, requests, tries>>

RejectWrite(p) ==
  /\ w[p].at = "reject"
  /\ LET r == w[p].r IN
     /\ Exists(r)
     /\ reg' = [reg EXCEPT ![r].status = "DITOLAK", ![r].age = 0]
     /\ history' = [history EXCEPT ![r] =
                      Append(@, [from |-> w[p].seen, to |-> "DITOLAK"])]
  /\ Finish(p)
  /\ UNCHANGED <<token, vendors, mailed, jobs, requests, tries>>

RejectRefused(p) == Quit(p, "reject")

DeleteRead(p, r) ==
  /\ Begin(p)
  /\ Exists(r)
  /\ Continue(p, [Idle EXCEPT !.at = "delete", !.r = r])
  /\ UNCHANGED <<reg, history, token, vendors, mailed, jobs, tries>>

(* Mutant: the token is forgotten.                                          *)
DeleteWrite_KeepsToken(p) ==
  /\ w[p].at = "delete"
  /\ LET r == w[p].r IN
     /\ Exists(r)
     /\ reg' = [reg EXCEPT ![r] = Deleted]
     /\ history' = [history EXCEPT ![r] = <<>>]
  /\ Finish(p)
  /\ UNCHANGED <<token, vendors, mailed, jobs, requests, tries>>

(* History and token go with the row; vendors and users stay.               *)
DeleteWrite(p) ==
  /\ w[p].at = "delete"
  /\ LET r == w[p].r IN
     /\ Exists(r)
     /\ reg' = [reg EXCEPT ![r] = Deleted]
     /\ history' = [history EXCEPT ![r] = <<>>]
     /\ token' = [token EXCEPT ![r] = NoToken]
  /\ Finish(p)
  /\ UNCHANGED <<vendors, mailed, jobs, requests, tries>>

DeleteRefused(p) == Quit(p, "delete")

-----------------------------------------------------------------------------
(* createUserFromToken: another user and another vendor.                    *)

(* Mutant: expires_at is not looked at.                                     *)
TokenRead_AnyAge(p, r) ==
  /\ Begin(p)
  /\ token[r].status = "ACTIVE"
  /\ Continue(p, [Idle EXCEPT !.at = "token", !.r = r,
                              !.applicant = reg[r].applicant])
  /\ UNCHANGED <<reg, history, token, vendors, mailed, jobs, tries>>

TokenRead(p, r) ==
  /\ Begin(p)
  /\ token[r].status = "ACTIVE"
  /\ ~token[r].expired
  /\ Continue(p, [Idle EXCEPT !.at = "token", !.r = r,
                              !.applicant = reg[r].applicant])
  /\ UNCHANGED <<reg, history, token, vendors, mailed, jobs, tries>>

TokenUse(p) ==
  /\ w[p].at = "token"
  /\ token[w[p].r].status # None
  /\ token' = [token EXCEPT ![w[p].r].status = "USED",
                            ![w[p].r].account = Len(vendors) + 1]
  /\ vendors' = Append(vendors, NewVendor(p, "token", 0))
  /\ Finish(p)
  /\ UNCHANGED <<reg, history, mailed, jobs, requests, tries>>

(* The user name is taken, or the token went with its registration.         *)
TokenRefused(p) == Quit(p, "token")

-----------------------------------------------------------------------------
(* login of auth.service.ts, with the right password: an account whose      *)
(* token is still pending must log in before it expires.                    *)

Entered(i, outcome) == vendors' = [vendors EXCEPT ![i].login = outcome]

LoginFree(p, i) ==
  /\ Begin(p)
  /\ ~\E r \in Regs : token[r].account = i /\ token[r].status = "ACTIVE"
  /\ Entered(i, "in")
  /\ UNCHANGED <<reg, history, token, mailed, jobs, w, tries>>

LoginRead(p, i) ==
  /\ Begin(p)
  /\ \E r \in Regs :
       /\ token[r].account = i /\ token[r].status = "ACTIVE"
       /\ Continue(p, [Idle EXCEPT
            !.at = IF token[r].expired THEN "login.late" ELSE "login.first",
            !.r = r, !.account = i])
  /\ UNCHANGED <<reg, history, token, vendors, mailed, jobs, tries>>

LoginWrite(p, step, status, outcome) ==
  /\ w[p].at = step
  /\ token[w[p].r].status # None
  /\ token' = [token EXCEPT ![w[p].r].status = status]
  /\ Entered(w[p].account, outcome)
  /\ Finish(p)
  /\ UNCHANGED <<reg, history, mailed, jobs, requests, tries>>

LoginFirst(p) == LoginWrite(p, "login.first", "USED", "in")
LoginLate(p) == LoginWrite(p, "login.late", "EXPIRED", "refused")
LoginFails(p) == Quit(p, "login.first") \/ Quit(p, "login.late")

-----------------------------------------------------------------------------
(* deleteRejectedRegistrationDocuments and anonymizeRejectedRegistrations,  *)
(* on one instance of the cluster, each a list and then one row at a time.  *)

(* Mutant: the documents job looks at a window, not at everything overdue.  *)
Due_Window(job) ==
  {r \in Regs :
     /\ Has(r, {"DITOLAK"})
     /\ IF job = "documents"
        THEN ~reg[r].pathsCleared /\ reg[r].age = 1
        ELSE reg[r].applicant # None /\ reg[r].pathsCleared /\ reg[r].age = 2}

Due(job) ==
  {r \in Regs :
     /\ Has(r, {"DITOLAK"})
     /\ IF job = "documents"
        THEN ~reg[r].pathsCleared /\ reg[r].age >= 1
        ELSE reg[r].applicant # None /\ reg[r].pathsCleared /\ reg[r].age = 2}

(* The first Batch rows, for the documents the oldest rejections first.     *)
Listings(job) ==
  {s \in SUBSET Due(job) :
     /\ s # {} /\ Cardinality(s) <= Batch
     /\ s = Due(job) \/ Cardinality(s) = Batch
     /\ job = "documents" =>
          \A a \in s, b \in Due(job) \ s : reg[b].age <= reg[a].age}

JobList(job) ==
  /\ jobs[job] = {}
  /\ \E s \in Listings(job) : jobs' = [jobs EXCEPT ![job] = s]
  /\ UNCHANGED <<reg, history, token, vendors, mailed, w, requests, tries>>

(* The row loses the paths of its documents and gets documents_deleted_at;  *)
(* no file is deleted, whatever the history row says.                       *)
DeleteDocuments(r) ==
  /\ r \in jobs["documents"]
  /\ jobs' = [jobs EXCEPT !["documents"] = @ \ {r}]
  /\ IF Exists(r)
     THEN /\ reg' = [reg EXCEPT ![r].pathsCleared = TRUE]
          /\ history' = [history EXCEPT ![r] =
                           Append(@, [from |-> "DITOLAK", to |-> "DITOLAK"])]
     ELSE UNCHANGED <<reg, history>>
  /\ UNCHANGED <<token, vendors, mailed, w, requests, tries>>

(* A row that is gone ends the job for the night.                           *)
Anonymize(r) ==
  /\ r \in jobs["anonymize"]
  /\ IF Exists(r)
     THEN /\ reg' = [reg EXCEPT ![r].applicant = None]
          /\ jobs' = [jobs EXCEPT !["anonymize"] = @ \ {r}]
     ELSE /\ UNCHANGED reg
          /\ jobs' = [jobs EXCEPT !["anonymize"] = {}]
  /\ UNCHANGED <<history, token, vendors, mailed, w, requests, tries>>

-----------------------------------------------------------------------------
(* Time.  Requests and jobs take seconds, the periods are hours and days.   *)

AtRest == /\ \A p \in Workers : w[p].at = "idle"
          /\ \A j \in JobNames : jobs[j] = {}

(* A token lives 48 hours and a rejected row 30 days before it is           *)
(* anonymised; nothing issues a token for a row once it is rejected.        *)
GrowOld(r) ==
  /\ AtRest
  /\ Has(r, {"DITOLAK"})
  /\ reg[r].age < 2
  /\ reg[r].age = 1 => token[r].status = None \/ token[r].expired
  /\ reg' = [reg EXCEPT ![r].age = @ + 1]
  /\ UNCHANGED <<history, token, vendors, mailed, jobs, w, requests, tries>>

Expire(r) ==
  /\ AtRest
  /\ token[r].status # None
  /\ ~token[r].expired
  /\ token' = [token EXCEPT ![r].expired = TRUE]
  /\ UNCHANGED <<reg, history, vendors, mailed, jobs, w, requests, tries>>

-----------------------------------------------------------------------------
Begins(p) ==
  \/ \E a \in Applicants : RegisterCooldown(p, a)
  \/ \E r \in Regs : \/ \E via \in Via : ApproveRead(p, r, via)
                     \/ RejectRead(p, r) \/ DeleteRead(p, r) \/ TokenRead(p, r)
  \/ \E i \in DOMAIN vendors : LoginFree(p, i) \/ LoginRead(p, i)

Handle(p) ==
  \/ RegisterEmail(p) \/ RegisterCompany(p)
  \/ \E r \in Regs : RegisterWrite(p, r)
  \/ ApprovePitching(p) \/ ApproveFinal(p) \/ ApproveLost(p) \/ ApproveRefused(p)
  \/ RejectWrite(p) \/ RejectRefused(p)
  \/ DeleteWrite(p) \/ DeleteRefused(p)
  \/ TokenUse(p) \/ TokenRefused(p)
  \/ LoginFirst(p) \/ LoginLate(p) \/ LoginFails(p)

Init ==
  /\ reg = [r \in Regs |-> Absent]
  /\ history = [r \in Regs |-> <<>>]
  /\ token = [r \in Regs |-> NoToken]
  /\ vendors = <<>>
  /\ mailed = {}
  /\ jobs = [j \in JobNames |-> {}]
  /\ w = [p \in Workers |-> Idle]
  /\ requests = 0
  /\ tries = 0

Next ==
  \/ \E p \in Workers : Begins(p) \/ Handle(p)
  \/ \E j \in JobNames : JobList(j)
  \/ \E r \in Regs : DeleteDocuments(r) \/ Anonymize(r) \/ GrowOld(r) \/ Expire(r)

Spec == Init /\ [][Next]_vars

(* A request that was taken up is answered, the jobs run every hour and     *)
(* every night, and time passes.                                            *)
FairSpec ==
  /\ Spec
  /\ \A p \in Workers : WF_vars(Handle(p))
  /\ \A j \in JobNames : WF_vars(JobList(j))
  /\ \A r \in Regs : /\ WF_vars(DeleteDocuments(r)) /\ WF_vars(Anonymize(r))
                     /\ WF_vars(GrowOld(r)) /\ WF_vars(Expire(r))

-----------------------------------------------------------------------------
(* Properties *)

Last(s) == s[Len(s)]
Approvals(r) ==
  {i \in DOMAIN history[r] : history[r][i].to = "DISETUJUI"}
Accounts(r) ==
  {i \in DOMAIN vendors : vendors[i].r = r /\ vendors[i].by = "approval"}

(* However reviews, deletions and jobs overlap, a registration stands where *)
(* the newest row of its history says.                                      *)
HistoryEnds ==
  \A r \in Regs : Exists(r) => /\ history[r] # <<>>
                               /\ Last(history[r]).to = reg[r].status

(* approveRegistration and createUserFromToken: the accounts an approval    *)
(* made are as many as the approvals in the history, so no vendor enters by *)
(* the first stage, by a rejection or by a token alone; a race of two       *)
(* reviews may make two, but never one that the history does not show.      *)
AccountsApproved ==
  \A r \in Regs : Exists(r) =>
    /\ Cardinality(Accounts(r)) = Cardinality(Approvals(r))
    /\ \A i \in DOMAIN vendors : vendors[i].r = r => Accounts(r) # {}

(* The mail with the credentials is queued before the approval commits:     *)
(* nobody is left with an account whose password was never sent.            *)
CredentialsMailed ==
  \A i \in DOMAIN vendors : vendors[i].by = "approval" => vendors[i].cred \in mailed

(* No vendor is made from a row that was anonymised: tokens expire long  *)
(* before the night job anonymises, also when a rejection overtakes the     *)
(* approval that issued the token.                                          *)
NoAnonymousVendor == \A i \in DOMAIN vendors : vendors[i].applicant # None

(* The two retention jobs: the row of a rejected registration loses the     *)
(* paths of its documents and its personal data in the end, whatever        *)
(* batches, deletions and reviews come in between.  Of the uploaded files   *)
(* it says nothing; the jobs leave them on the disk.                        *)
RejectedRowIsCleared ==
  \A r \in Regs :
    Has(r, {"DITOLAK"}) ~>
      \/ ~Has(r, {"DITOLAK"})
      \/ reg[r].pathsCleared /\ reg[r].applicant = None

=============================================================================
