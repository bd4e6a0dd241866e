------------------------------- MODULE Staff -------------------------------
(***************************************************************************)
(* The people with an account: sales staff and managers of the stores, and  *)
(* the craftsmen (tukang) of the vendors.  Each is a row with is_active,    *)
(* deleted_at and a link to an account (users), and login looks at all      *)
(* three, differently for each.  Two midnight jobs switch off or remove     *)
(* sales staff that bring no orders; an endpoint runs either at any time.   *)
(*                                                                         *)
(* A worker is one request of more than one write.                          *)
(*                                                                         *)
(* Abstracted: names, user names, passwords and credential mails, bank and  *)
(* contact data (login asks that they are complete), areas, services and    *)
(* documents, users.is_active, which nothing reads, the stores of sales     *)
(* staff (each request of salesUser is for one).                            *)
(***************************************************************************)
EXTENDS Naturals, Sequences, FiniteSets

CONSTANTS Sales,      \* ids of rows of sales
          Managers,   \* ids of rows of manager
          Tukang,     \* ids of rows of tukang
          Stores,
          Known,      \* who may have been hired before: functions to accounts, 0 for none
          LastUser,   \* bound: users that are ever made
          Workers,    \* requests handled at the same time
          Batch,      \* job -> how many rows it takes at a time
          MaxEvents   \* bound: requests and failures

Staff == Sales \cup Managers \cup Tukang
Jobs == {"three", "six"}
None == "none"
NoUser == 0

ASSUME KindsAssumption == /\ Sales \cap Managers = {}
                          /\ Sales \cap Tukang = {}
                          /\ Managers \cap Tukang = {}
ASSUME FiniteAssumption == IsFiniteSet(Staff)
ASSUME KnownAssumption ==  \* no account is two people's, and they are numbered
  \A k \in Known :
    LET withOne == {x \in DOMAIN k : k[x] # NoUser}
    IN  /\ DOMAIN k \subseteq Staff /\ {k[x] : x \in withOne} = 1..Cardinality(withOne)
        /\ Cardinality(withOne) <= LastUser
        /\ \A x, y \in withOne : k[x] = k[y] => x = y
ASSUME BoundAssumption == /\ Batch \in [Jobs -> Nat \ {0}]
                          /\ LastUser \in Nat /\ MaxEvents \in Nat
ASSUME NoneAssumption == None \notin Stores \cup Staff

VARIABLES
  staff,   \* person -> Absent or its row
  users,   \* the accounts made so far, in the order of their ids
  quiet,   \* sales -> 0 orders lately, 1 none for three months, 2 none for six
  job,     \* job -> what it has listed
  w,       \* worker -> its request
  events,  \* bound: events so far
  revived, \* history: removed people that a later update wrote
  moved,   \* history: managers moved to another store while active
  raced    \* history: two requests about managers overlapped

vars == <<staff, users, quiet, job, w, events, revived, moved, raced>>

Absent == [at |-> "absent"]
Row == [at : {"row"}, store : Stores \cup {None}, active : BOOLEAN,
        deleted : BOOLEAN, user : Nat]
Switch == {"on", "off", "unset"}
Request == [at : {"idle", "sales.update", "salesUser", "sales.remove", "manager.row",
                  "manager.off", "manager.write", "tukang.row"},
            x : Staff \cup {None}, user : Nat, names : BOOLEAN, set : Switch,
            store : Stores \cup {None}, left : SUBSET Sales, made : [Sales -> Nat],
            read : Row \cup {Absent}]
Idle == [at |-> "idle", x |-> None, user |-> 0, names |-> FALSE, set |-> "unset",
         store |-> None, left |-> {}, made |-> [x \in Sales |-> NoUser], read |-> Absent]

There(x) == staff[x].at = "row"
Live(u) == u # NoUser /\ users[u] = "live"

(* The account that the next insert gets.                                   *)
Fresh == Len(users) + 1

(* Besides the types: no account is two people's.                           *)
TypeOK ==
  /\ staff \in [Staff -> Row \cup {Absent}]
  /\ users \in Seq({"live", "deleted"}) /\ Len(users) <= LastUser
  /\ quiet \in [Sales -> 0..2]
  /\ job \in [Jobs -> [at : {"idle", "write", "users"}, ids : SUBSET Sales]]
  /\ w \in [Workers -> Request]
  /\ events \in 0..MaxEvents
  /\ revived \subseteq Staff /\ moved \subseteq Managers /\ raced \in BOOLEAN
  /\ \A x \in Staff : There(x) => staff[x].user \in 0..Len(users)
  /\ \A x, y \in Staff : x # y /\ There(x) /\ There(y) /\ staff[x].user = staff[y].user
                           => staff[x].user = NoUser

Hired(store, user, active) ==
  [at |-> "row", store |-> store, active |-> active, deleted |-> FALSE, user |-> user]

OneActive(st) ==
  \A x, y \in Managers :
    x # y /\ There(x) /\ There(y) => ~(staff[x].store = st /\ staff[x].active
                                       /\ staff[y].store = st /\ staff[y].active)

(* Those known are at work, one manager in charge of a store at most.       *)
Init ==
  /\ \E known \in Known :
       /\ \E at \in [Managers \cap DOMAIN known -> Stores] :
            staff = [x \in Staff |->
                       IF x \notin DOMAIN known THEN Absent
                       ELSE Hired(IF x \in Managers THEN at[x] ELSE None, known[x], TRUE)]
       /\ users = [u \in 1..Cardinality({x \in DOMAIN known : known[x] # NoUser}) |-> "live"]
  /\ \A st \in Stores : OneActive(st)
  /\ \E q \in [Sales -> 0..2] : quiet = [x \in Sales |-> IF There(x) THEN q[x] ELSE 0]
  /\ job = [j \in Jobs |-> [at |-> "idle", ids |-> {}]]
  /\ w = [p \in Workers |-> Idle]
  /\ events = 0
  /\ revived = {} /\ moved = {} /\ raced = FALSE

-----------------------------------------------------------------------------
Count == events < MaxEvents /\ events' = events + 1

AboutManagers == {"manager.row", "manager.off", "manager.write"}
Busy == \E p \in Workers : w[p].at \in AboutManagers

(* The lowest idle worker takes the next request: they are all the same.    *)
Begin(p, request) ==
  /\ Count
  /\ w[p] = Idle /\ \A r \in Workers : w[r] = Idle => p <= r
  /\ w' = [w EXCEPT ![p] = request]
  /\ raced' = (raced \/ (Busy /\ request.at \in AboutManagers))

Continue(p, request) == w' = [w EXCEPT ![p] = request] /\ UNCHANGED <<events, raced>>
Goto(p, at) == Continue(p, [w[p] EXCEPT !.at = at])
Finish(p) == Continue(p, Idle)

(* A request of a single write.                                             *)
AtOnce == Count /\ UNCHANGED <<w, raced>>

Written(x, row) == staff' = [staff EXCEPT ![x] = row]
MakeUser == Fresh <= LastUser /\ users' = Append(users, "live")
EndUser(u) == users' = [users EXCEPT ![u] = "deleted"]
Removed(x) == revived' = revived \ {x}

-----------------------------------------------------------------------------
(* Sales staff.  create: the row and its account in one transaction; the    *)
(* connectOrCreate looks for the id 0 and so always makes an account.       *)
(* Mutant: it connects to an account that is there.                         *)
SalesCreate_Connects(x) ==
  /\ AtOnce
  /\ x \in Sales /\ staff[x] = Absent
  /\ IF users = <<>> THEN MakeUser ELSE UNCHANGED users
  /\ Written(x, Hired(None, 1, TRUE))
  /\ quiet' = [quiet EXCEPT ![x] = 2]
  /\ UNCHANGED <<job, revived, moved>>

SalesCreate(x) ==
  /\ AtOnce
  /\ x \in Sales /\ staff[x] = Absent
  /\ MakeUser
  /\ Written(x, Hired(None, Fresh, TRUE))
  /\ quiet' = [quiet EXCEPT ![x] = 2]
  /\ UNCHANGED <<job, revived, moved>>

(* update: the row is read, then written; an update that does not say       *)
(* is_active switches off.  names: it brings a user name or a password.     *)
SalesUpdateRead(p, x, set, names) ==
  /\ x \in Sales /\ There(x)
  /\ Begin(p, [Idle EXCEPT !.at = "sales.update", !.x = x, !.set = set, !.names = names,
                           !.user = staff[x].user])
  /\ UNCHANGED <<staff, users, quiet, job, revived, moved>>

SalesUpdateWrite(p) ==
  /\ w[p].at = "sales.update"
  /\ LET x == w[p].x
         new == w[p].user = NoUser /\ w[p].names
         user == IF new THEN Fresh ELSE staff[x].user
     IN  IF w[p].user # NoUser /\ staff[x].user # w[p].user
         THEN UNCHANGED <<staff, users, revived>>
         ELSE /\ IF new THEN MakeUser ELSE UNCHANGED users
              /\ Written(x, [staff[x] EXCEPT !.active = (w[p].set = "on"), !.user = user])
              /\ revived' = revived \cup {x}
  /\ Finish(p)
  /\ UNCHANGED <<quiet, job, moved>>

(* salesUser: an account for everyone without one.  For all of them at the  *)
(* same time, the account is made and then linked.                          *)
SalesUserList(p) ==
  LET ids == {x \in Sales : There(x) /\ staff[x].user = NoUser /\ ~staff[x].deleted}
  IN  /\ ids # {}
      /\ Begin(p, [Idle EXCEPT !.at = "salesUser", !.left = ids])
      /\ UNCHANGED <<staff, users, quiet, job, revived, moved>>

SalesUserMake(p, x) ==
  /\ w[p].at = "salesUser" /\ x \in w[p].left
  /\ MakeUser
  /\ Continue(p, [w[p] EXCEPT !.left = @ \ {x},
                               !.made = [@ EXCEPT ![x] = Fresh]])
  /\ UNCHANGED <<staff, quiet, job, revived, moved>>

SalesUserLink(p, x) ==
  /\ w[p].at = "salesUser" /\ w[p].made[x] # NoUser
  /\ Written(x, [staff[x] EXCEPT !.user = w[p].made[x]])
  /\ LET rest == [w[p] EXCEPT !.made = [@ EXCEPT ![x] = NoUser]]
     IN  IF rest.left = {} /\ \A y \in Sales : rest.made[y] = NoUser
         THEN Finish(p) ELSE Continue(p, rest)
  /\ UNCHANGED <<users, quiet, job, revived, moved>>

(* remove: the row and the account it was read with; without one the        *)
(* transaction fails as a whole.                                            *)
SalesRemoveRead(p, x) ==
  /\ x \in Sales /\ There(x)
  /\ Begin(p, [Idle EXCEPT !.at = "sales.remove", !.x = x, !.user = staff[x].user])
  /\ UNCHANGED <<staff, users, quiet, job, revived, moved>>

SalesRemoveWrite(p) ==
  /\ w[p].at = "sales.remove"
  /\ LET x == w[p].x
     IN  IF w[p].user = NoUser
         THEN UNCHANGED <<staff, users, revived>>
         ELSE /\ Written(x, [staff[x] EXCEPT !.active = FALSE, !.deleted = TRUE])
              /\ EndUser(w[p].user)
              /\ Removed(x)
  /\ Finish(p)
  /\ UNCHANGED <<quiet, job, moved>>

(* Orders come in, or do not for months.                                    *)
Order(x) ==
  /\ x \in Sales /\ quiet[x] # 0
  /\ quiet' = [quiet EXCEPT ![x] = 0]
  /\ UNCHANGED <<staff, users, job, w, events, revived, moved, raced>>

MonthsPass(x) ==
  /\ AtOnce
  /\ x \in Sales /\ There(x) /\ quiet[x] < 2
  /\ quiet' = [quiet EXCEPT ![x] = @ + 1]
  /\ UNCHANGED <<staff, users, job, revived, moved>>

-----------------------------------------------------------------------------
(* salesUserManagement ("three") and managementSalesSixMonth ("six"), at    *)
(* midnight and, through apiManagementSales, at any time.                   *)
(* Mutant: those switched off before are taken as well.                     *)
Idlers_AlsoOff(j) ==
  {x \in Sales : There(x) /\ quiet[x] >= (IF j = "three" THEN 1 ELSE 2)}

Idlers(j) ==
  {x \in Sales : There(x) /\ staff[x].active /\ quiet[x] >= (IF j = "three" THEN 1 ELSE 2)}

JobList(j) ==
  /\ job[j].at = "idle"
  /\ \E ids \in SUBSET Idlers(j) :
       /\ ids # {}
       /\ ids = Idlers(j) \/ Cardinality(ids) = Batch[j]
       /\ Cardinality(ids) <= Batch[j]
       /\ job' = [job EXCEPT ![j] = [at |-> "write", ids |-> ids]]
  /\ UNCHANGED <<staff, users, quiet, w, events, revived, moved, raced>>

(* Mutant: the six-month job leaves is_active to the other one.             *)
JobWrite_OnlyDeletes(j) ==
  /\ job[j].at = "write"
  /\ staff' = [x \in Staff |->
                 IF x \notin job[j].ids THEN staff[x]
                 ELSE IF j = "three" THEN [staff[x] EXCEPT !.active = FALSE]
                 ELSE [staff[x] EXCEPT !.deleted = TRUE]]
  /\ IF j = "three" THEN UNCHANGED revived ELSE revived' = revived \ job[j].ids
  /\ job' = [job EXCEPT ![j] = IF j = "three" THEN [at |-> "idle", ids |-> {}]
                                              ELSE [@ EXCEPT !.at = "users"]]
  /\ UNCHANGED <<users, quiet, w, events, moved, raced>>

JobWrite(j) ==
  /\ job[j].at = "write"
  /\ staff' = [x \in Staff |->
                 IF x \notin job[j].ids THEN staff[x]
                 ELSE [staff[x] EXCEPT !.active = FALSE, !.deleted = @ \/ j = "six"]]
  /\ IF j = "three" THEN UNCHANGED revived ELSE revived' = revived \ job[j].ids
  /\ job' = [job EXCEPT ![j] = IF j = "three" THEN [at |-> "idle", ids |-> {}]
                                              ELSE [@ EXCEPT !.at = "users"]]
  /\ UNCHANGED <<users, quiet, w, events, moved, raced>>

(* The accounts of those removed go in a write of their own.                *)
JobUsers(j) ==
  /\ job[j].at = "users"
  /\ users' = [u \in DOMAIN users |->
                 IF \E x \in job[j].ids : staff[x].user = u THEN "deleted" ELSE users[u]]
  /\ job' = [job EXCEPT ![j] = [at |-> "idle", ids |-> {}]]
  /\ UNCHANGED <<staff, quiet, w, events, revived, moved, raced>>

(* The database fails a job, which nothing resumes.                         *)
JobFail(j) ==
  /\ AtOnce
  /\ job[j].at # "idle"
  /\ job' = [job EXCEPT ![j] = [at |-> "idle", ids |-> {}]]
  /\ UNCHANGED <<staff, users, quiet, revived, moved>>

-----------------------------------------------------------------------------
(* Managers.  create: whoever is active in the store is switched off, and   *)
(* the new manager is written after that, with an account.                  *)
SwitchOff(st, but) ==
  staff' = [x \in Staff |-> IF x \in Managers \ {but} /\ There(x) /\ staff[x].store = st
                            THEN [staff[x] EXCEPT !.active = FALSE] ELSE staff[x]]

ManagerCreate(p, x, st) ==
  /\ x \in Managers /\ staff[x] = Absent
  /\ \A r \in Workers : ~(w[r].at = "manager.row" /\ w[r].x = x)
  /\ SwitchOff(st, None)
  /\ Begin(p, [Idle EXCEPT !.at = "manager.row", !.x = x, !.store = st])
  /\ UNCHANGED <<users, quiet, job, revived, moved>>

ManagerRow(p) ==
  /\ w[p].at = "manager.row"
  /\ MakeUser
  /\ Written(w[p].x, Hired(w[p].store, Fresh, TRUE))
  /\ Finish(p)
  /\ UNCHANGED <<quiet, job, revived, moved>>

(* update: the row is read; the others are switched off if this one goes    *)
(* on; the row is written, is_active as it was read unless the payload says.*)
ManagerUpdateRead(p, x, st, set) ==
  /\ x \in Managers /\ There(x)
  /\ Begin(p, [Idle EXCEPT !.at = IF set = "on" THEN "manager.off" ELSE "manager.write",
                           !.x = x, !.store = st, !.set = set, !.read = staff[x]])
  /\ UNCHANGED <<staff, users, quiet, job, revived, moved>>

(* Mutant: those of the store it comes from, when it moves.                 *)
ManagerUpdateOff_OldStore(p) ==
  /\ w[p].at = "manager.off"
  /\ SwitchOff(w[p].read.store, w[p].x)
  /\ Goto(p, "manager.write")
  /\ UNCHANGED <<users, quiet, job, revived, moved>>

ManagerUpdateOff(p) ==
  /\ w[p].at = "manager.off"
  /\ SwitchOff(IF w[p].store # None THEN w[p].store ELSE w[p].read.store, w[p].x)
  /\ Goto(p, "manager.write")
  /\ UNCHANGED <<users, quiet, job, revived, moved>>

ManagerUpdateWrite(p) ==
  /\ w[p].at = "manager.write"
  /\ LET x == w[p].x
         active == IF w[p].set = "unset" THEN w[p].read.active ELSE w[p].set = "on"
     IN  /\ Written(x, [staff[x] EXCEPT !.active = active,
                                        !.store = IF w[p].store # None THEN w[p].store ELSE @])
         /\ revived' = revived \cup {x}
         /\ moved' = IF w[p].store # None /\ active /\ w[p].set = "unset"
                     THEN moved \cup {x} ELSE moved
  /\ Finish(p)
  /\ UNCHANGED <<users, quiet, job>>

ManagerRemove(x) ==
  /\ AtOnce
  /\ x \in Managers /\ There(x)
  /\ Written(x, [staff[x] EXCEPT !.active = FALSE, !.deleted = TRUE])
  /\ Removed(x)
  /\ UNCHANGED <<users, quiet, job, moved>>

-----------------------------------------------------------------------------
(* Craftsmen.  create: the account first, the row after it.                 *)
TukangCreate(p, x) ==
  /\ x \in Tukang /\ staff[x] = Absent
  /\ \A r \in Workers : ~(w[r].at = "tukang.row" /\ w[r].x = x)
  /\ MakeUser
  /\ Begin(p, [Idle EXCEPT !.at = "tukang.row", !.x = x, !.user = Fresh])
  /\ UNCHANGED <<staff, quiet, job, revived, moved>>

TukangRow(p) ==
  /\ w[p].at = "tukang.row"
  /\ Written(w[p].x, Hired(None, w[p].user, TRUE))
  /\ Finish(p)
  /\ UNCHANGED <<users, quiet, job, revived, moved>>

(* update: one nested write of row and account; whoever is not removed by   *)
(* it (is_delete = 1) is no longer removed.                                 *)
TukangUpdate(x, set, delete) ==
  /\ AtOnce
  /\ x \in Tukang /\ There(x)
  /\ Written(x, [staff[x] EXCEPT !.active = (set = "on"), !.deleted = delete])
  /\ users' = [users EXCEPT ![staff[x].user] = IF delete THEN "deleted" ELSE "live"]
  /\ revived' = IF delete THEN revived \ {x} ELSE revived \cup {x}
  /\ UNCHANGED <<quiet, job, moved>>

TukangRemove(x) ==
  /\ AtOnce
  /\ x \in Tukang /\ There(x)
  /\ Written(x, [staff[x] EXCEPT !.active = FALSE, !.deleted = TRUE])
  /\ EndUser(staff[x].user)
  /\ Removed(x)
  /\ UNCHANGED <<quiet, job, moved>>

-----------------------------------------------------------------------------
(* deleteUser, whosever account it is.                                      *)
DeleteUser(u) ==
  /\ AtOnce
  /\ Live(u)
  /\ EndUser(u)
  /\ UNCHANGED <<staff, quiet, job, revived, moved>>

(* Whom login lets in with the right password.                              *)
Admits(x) ==
  /\ There(x) /\ Live(staff[x].user)
  /\ x \in Sales \cup Managers => staff[x].active

(* The database fails a request between two of its writes.                  *)
Fail(p) ==
  /\ Count
  /\ w[p] # Idle
  /\ w' = [w EXCEPT ![p] = Idle]
  /\ UNCHANGED <<staff, users, quiet, job, revived, moved, raced>>

-----------------------------------------------------------------------------
Starting(p) ==
  \/ \E x \in Sales, set \in {"on", "off"}, names \in BOOLEAN : SalesUpdateRead(p, x, set, names)
  \/ SalesUserList(p)
  \/ \E x \in Sales : SalesRemoveRead(p, x)
  \/ \E x \in Managers, st \in Stores : ManagerCreate(p, x, st)
  \/ \E x \in Managers, st \in Stores \cup {None}, set \in Switch : ManagerUpdateRead(p, x, st, set)
  \/ \E x \in Tukang : TukangCreate(p, x)

Continuing(p) ==
  \/ SalesUpdateWrite(p) \/ SalesRemoveWrite(p)
  \/ \E x \in Sales : SalesUserMake(p, x) \/ SalesUserLink(p, x)
  \/ ManagerRow(p) \/ ManagerUpdateOff(p) \/ ManagerUpdateWrite(p) \/ TukangRow(p)

Single ==
  \/ \E x \in Sales : SalesCreate(x) \/ Order(x) \/ MonthsPass(x)
  \/ \E x \in Managers : ManagerRemove(x)
  \/ \E x \in Tukang : TukangRemove(x) \/ \E delete \in BOOLEAN, set \in {"on", "off"} : TukangUpdate(x, set, delete)
  \/ \E u \in DOMAIN users : DeleteUser(u)

JobStep(j) == JobList(j) \/ JobWrite(j) \/ JobUsers(j)

Next ==
  \/ Single
  \/ \E p \in Workers : Starting(p) \/ Continuing(p) \/ Fail(p)
  \/ \E j \in Jobs : JobStep(j) \/ JobFail(j)

Spec == Init /\ [][Next]_vars

(* Every night comes, and what a job has begun it goes on with.             *)
FairSpec == Spec /\ \A j \in Jobs : WF_vars(JobStep(j))

-----------------------------------------------------------------------------
(* Whoever was removed, by hand or by the six-month job, stays out, unless  *)
(* an update wrote the row since (any update of a manager or sales person   *)
(* with is_active may let it in, and one of a tukang that does not say      *)
(* is_delete restores it): although a removal is two writes for the job,    *)
(* and touches the account for some and only the row for others.            *)
RemovedStaysOut == \A x \in Staff : There(x) /\ staff[x].deleted /\ Admits(x) => x \in revived

(* A store has one active manager at most, unless two requests about        *)
(* managers overlapped, or an active manager was moved to it by an update   *)
(* that did not say is_active.                                              *)
OneActiveManager == raced \/ moved # {} \/ \A st \in Stores : OneActive(st)

(* Sales staff without orders for three months do not stay active, however  *)
(* few of them a night takes and whoever is switched on again.              *)
IdleGoesOff == \A x \in Sales : x \in Idlers("three") ~> x \notin Idlers("three")
=============================================================================
