---------------------------- MODULE StaffProofs ----------------------------
(***************************************************************************)
(* Theorems of Staff for every set of people, stores and workers: no two     *)
(* people share an account, whoever was removed stays out, and a store has   *)
(* one active manager, with the exceptions the properties name.             *)
(***************************************************************************)
EXTENDS Staff, TLAPS, FiniteSetTheorems, SequenceTheorems

Account == {"live", "deleted"}
JobRow == [at : {"idle", "write", "users"}, ids : SUBSET Sales]

(* The types without what TypeOK says of accounts.                          *)
Shapes ==
  /\ staff \in [Staff -> Row \cup {Absent}]
  /\ users \in Seq(Account) /\ Len(users) <= LastUser
  /\ quiet \in [Sales -> 0..2]
  /\ job \in [Jobs -> JobRow]
  /\ w \in [Workers -> Request]
  /\ events \in 0..MaxEvents
  /\ revived \subseteq Staff /\ moved \subseteq Managers /\ raced \in BOOLEAN

(* A request is about people of the kind its handler looks up.              *)
RequestOK(p) ==
  /\ w[p].at \in {"sales.update", "sales.remove"} => w[p].x \in Sales /\ There(w[p].x)
  /\ w[p].at = "manager.row" => w[p].x \in Managers /\ w[p].store \in Stores
  /\ w[p].at \in {"manager.off", "manager.write"} =>
       w[p].x \in Managers /\ There(w[p].x) /\ w[p].read \in Row
  /\ w[p].at = "tukang.row" => w[p].x \in Tukang
  /\ \A x \in Sales : x \in w[p].left \/ w[p].made[x] # NoUser => There(x)

(* Where an account may be kept: in a row, with a request that has made it   *)
(* for a sales person, or with one that is about to write a tukang's row.   *)
Place == [kind : {"staff"}, p : {None}, x : Staff]
           \cup [kind : {"made"}, p : Workers, x : Sales]
           \cup [kind : {"row"}, p : Workers, x : {None}]
At(c) ==
  CASE c.kind = "staff" -> IF There(c.x) THEN staff[c.x].user ELSE NoUser
    [] c.kind = "made" -> w[c.p].made[c.x]
    [] c.kind = "row" -> IF w[c.p].at = "tukang.row" THEN w[c.p].user ELSE NoUser

(* An account is kept in one place.                                         *)
Distinct ==
  /\ \A c \in Place : At(c) \in 0..Len(users)
  /\ \A c, d \in Place : c # d /\ At(c) = At(d) => At(c) = NoUser

Typed == Shapes /\ (\A p \in Workers : RequestOK(p)) /\ Distinct

-----------------------------------------------------------------------------
(* Shapes.                                                                  *)

LEMMA RecordShapes ==
  /\ \A r \in Row : r.at = "row" /\ r.user \in Nat /\ r.active \in BOOLEAN
                    /\ r.deleted \in BOOLEAN /\ r.store \in Stores \cup {None}
  /\ Absent.at = "absent" /\ Absent \notin Row
  /\ Idle \in Request /\ Idle.at = "idle" /\ Idle.left = {} /\ Idle.user = NoUser
  /\ Idle.store = None /\ Idle.set = "unset" /\ Idle.x = None /\ Idle.read = Absent
  /\ \A x \in Sales : Idle.made[x] = NoUser
  BY DEF Row, Absent, Idle, Request, NoUser, Switch

LEMMA RowThere ==
  ASSUME Shapes, NEW x \in Staff
  PROVE  There(x) <=> staff[x] \in Row
  BY RecordShapes DEF Shapes, There

LEMMA Kinds ==
  /\ Sales \subseteq Staff /\ Managers \subseteq Staff /\ Tukang \subseteq Staff
  /\ \A x \in Sales : x \notin Managers /\ x \notin Tukang
  /\ \A x \in Managers : x \notin Tukang /\ x \notin Sales
  /\ None \notin Staff /\ None \notin Stores
  BY KindsAssumption, NoneAssumption DEF Staff

(* A row that is edited stays a row.                                        *)
LEMMA RowEdits ==
  ASSUME NEW r \in Row, NEW a \in BOOLEAN, NEW d \in BOOLEAN, NEW u \in Nat,
         NEW st \in Stores \cup {None}
  PROVE  /\ [r EXCEPT !.active = a] \in Row
         /\ [r EXCEPT !.user = u] \in Row
         /\ [r EXCEPT !.active = a, !.deleted = d] \in Row
         /\ [r EXCEPT !.active = a, !.user = u] \in Row
         /\ [r EXCEPT !.active = a, !.store = st] \in Row
  BY DEF Row

(* Accounts made and ended.                                                 *)
LEMMA Accounts ==
  ASSUME users \in Seq(Account)
  PROVE  /\ Len(users) \in Nat /\ DOMAIN users = 1..Len(users) /\ Fresh = Len(users) + 1
         /\ users = [u \in 1..Len(users) |-> users[u]]
         /\ \A u \in 1..Len(users) : users[u] \in Account
  BY LenProperties, ElementOfSeq DEF Fresh

LEMMA MakeUserGives ==
  ASSUME Shapes, MakeUser
  PROVE  /\ users' \in Seq(Account) /\ Len(users') = Len(users) + 1 /\ Len(users') <= LastUser
         /\ Fresh = Len(users) + 1 /\ Fresh \in Nat \ {0} /\ users'[Fresh] = "live"
         /\ \A u \in 1..Len(users) : users'[u] = users[u]
  <1>1. "live" \in Account
    BY DEF Account
  <1>2. users \in Seq(Account) /\ users' = Append(users, "live") /\ Fresh <= LastUser
    BY DEF Shapes, MakeUser
  <1>3. Len(users) \in Nat /\ Fresh = Len(users) + 1
    BY <1>2, Accounts
  <1> QED BY <1>1, <1>2, <1>3, AppendProperties

LEMMA EndUserGives ==
  ASSUME users \in Seq(Account), NEW u, NEW a \in Account, users' = [users EXCEPT ![u] = a]
  PROVE  /\ users' \in Seq(Account) /\ Len(users') = Len(users)
         /\ \A v \in 1..Len(users) : users'[v] = IF v = u THEN a ELSE users[v]
  <1>1. Len(users) \in Nat /\ users \in [1..Len(users) -> Account]
    BY Accounts
  <1>2. users' \in [1..Len(users) -> Account]
    BY <1>1
  <1>3. users' \in Seq(Account) /\ Len(users') = Len(users)
    BY <1>1, <1>2, IsASeq, LenProperties
  <1> QED BY <1>1, <1>3

-----------------------------------------------------------------------------
(* What a step does to the accounts people hold.                            *)

(* At most one place gets an account: a fresh one, or the one another place  *)
(* gives up.                                                                *)
LEMMA DistinctKept ==
  ASSUME Distinct, Len(users) \in Nat, Len(users') \in Nat, Len(users) <= Len(users'),
         NEW c \in Place,
         \A d \in Place : d # c => At(d)' \in {At(d), NoUser},
         \/ At(c)' \in {At(c), NoUser}
         \/ At(c)' = Len(users) + 1 /\ Len(users') = Len(users) + 1
         \/ \E e \in Place : e # c /\ At(c)' = At(e) /\ At(e)' = NoUser
  PROVE  Distinct'
  <1>1. \A d \in Place : d # c /\ At(d)' # NoUser => At(d)' # At(c)'
    BY DEF Distinct, NoUser
  <1>2. \A d \in Place : At(d)' \in 0..Len(users')
    BY DEF Distinct, NoUser
  <1>3. \A d, e \in Place : d # e /\ At(d)' = At(e)' => At(d)' = NoUser
    BY <1>1 DEF Distinct
  <1>4. Place' = Place
    BY DEF Place
  <1> QED BY <1>2, <1>3, <1>4 DEF Distinct

(* No place gets an account it did not keep.                                *)
LEMMA DistinctSame ==
  ASSUME Distinct, Len(users) \in Nat, Len(users') \in Nat, Len(users) <= Len(users'),
         \A d \in Place : At(d)' \in {At(d), NoUser}
  PROVE  Distinct'
  <1>2. \A d \in Place : At(d)' \in 0..Len(users')
    BY DEF Distinct, NoUser
  <1>3. \A d, e \in Place : d # e /\ At(d)' = At(e)' => At(d)' = NoUser
    BY DEF Distinct
  <1>4. Place' = Place
    BY DEF Place
  <1> QED BY <1>2, <1>3, <1>4 DEF Distinct

(* The places one by one.                                                   *)
LEMMA Places ==
  /\ \A x \in Staff : /\ [kind |-> "staff", p |-> None, x |-> x] \in Place
                      /\ At([kind |-> "staff", p |-> None, x |-> x])
                           = IF There(x) THEN staff[x].user ELSE NoUser
  /\ \A p \in Workers, x \in Sales :
       /\ [kind |-> "made", p |-> p, x |-> x] \in Place
       /\ At([kind |-> "made", p |-> p, x |-> x]) = w[p].made[x]
  /\ \A p \in Workers :
       /\ [kind |-> "row", p |-> p, x |-> None] \in Place
       /\ At([kind |-> "row", p |-> p, x |-> None])
            = IF w[p].at = "tukang.row" THEN w[p].user ELSE NoUser
  /\ \A c \in Place :
       \/ \E x \in Staff : c = [kind |-> "staff", p |-> None, x |-> x]
       \/ \E p \in Workers, x \in Sales : c = [kind |-> "made", p |-> p, x |-> x]
       \/ \E p \in Workers : c = [kind |-> "row", p |-> p, x |-> None]
  BY DEF Place, At

(* A step in which nobody's account and no request that holds one changes,   *)
(* except that requests end.                                                *)
RowsKeep == \A x \in Staff : There(x)' => There(x) /\ staff'[x].user = staff[x].user
RequestsKeep ==
  \A p \in Workers :
    /\ \A x \in Sales : w'[p].made[x] \in {w[p].made[x], NoUser}
    /\ w'[p].at = "tukang.row" => w[p].at = "tukang.row" /\ w'[p].user = w[p].user

LEMMA AtSame ==
  ASSUME RowsKeep, RequestsKeep
  PROVE  \A c \in Place : At(c)' \in {At(c), NoUser}
  BY DEF Place, At, RowsKeep, RequestsKeep

LEMMA DistinctKeep ==
  ASSUME Typed, RowsKeep, RequestsKeep, Len(users') \in Nat, Len(users) <= Len(users')
  PROVE  Distinct'
  <1>1. Len(users) \in Nat
    BY Accounts DEF Typed, Shapes
  <1> QED BY <1>1, AtSame, DistinctSame DEF Typed

(* What holds of the requests when they are still the same or over.         *)
LEMMA RequestsSame ==
  ASSUME Typed, \A x \in Staff : There(x) => There(x)',
         NEW p \in Workers, w'[p] = w[p] \/ w'[p] = Idle
  PROVE  RequestOK(p)'
  BY RecordShapes, Kinds DEF Typed, RequestOK

LEMMA TypeFromTyped == Typed => TypeOK
  <1> SUFFICES ASSUME Typed PROVE TypeOK
    OBVIOUS
  <1>1. \A x \in Staff : There(x) => staff[x].user \in 0..Len(users)
    BY Places DEF Typed, Distinct
  <1>2. \A x, y \in Staff : x # y /\ There(x) /\ There(y) /\ staff[x].user = staff[y].user
                           => staff[x].user = NoUser
    <2> SUFFICES ASSUME NEW x \in Staff, NEW y \in Staff, x # y, There(x), There(y),
                        staff[x].user = staff[y].user
                 PROVE  staff[x].user = NoUser
      OBVIOUS
    <2> DEFINE c == [kind |-> "staff", p |-> None, x |-> x]
               d == [kind |-> "staff", p |-> None, x |-> y]
    <2>1. c # d /\ c \in Place /\ d \in Place /\ At(c) = staff[x].user /\ At(d) = staff[y].user
      BY Places
    <2> HIDE DEF c, d
    <2> QED BY <2>1 DEF Typed, Distinct
  <1> QED BY <1>1, <1>2 DEF Typed, TypeOK, Shapes, Account, JobRow

(* A request handled in one step, on rows that are there.                   *)
LEMMA AtOnceTyped ==
  ASSUME Typed, AtOnce,
         staff' \in [Staff -> Row \cup {Absent}], \A x \in Staff : There(x) => There(x)',
         users' \in Seq(Account), Len(users') <= LastUser,
         quiet' \in [Sales -> 0..2], job' \in [Jobs -> JobRow],
         revived' \subseteq Staff, moved' \subseteq Managers, Distinct'
  PROVE  Typed'
  <1>1. UNCHANGED <<w, raced>> /\ events' \in 0..MaxEvents
    BY BoundAssumption DEF AtOnce, Count, Typed, Shapes
  <1>2. \A p \in Workers : RequestOK(p)'
    BY <1>1, RequestsSame
  <1> QED BY <1>1, <1>2 DEF Typed, Shapes

(* A step of worker p, which goes on with req or ends.                      *)
LEMMA WorkerTyped ==
  ASSUME Typed, NEW p \in Workers, NEW req \in Request, w' = [w EXCEPT ![p] = req],
         staff' \in [Staff -> Row \cup {Absent}], \A x \in Staff : There(x) => There(x)',
         users' \in Seq(Account), Len(users') <= LastUser,
         events' \in 0..MaxEvents, raced' \in BOOLEAN, UNCHANGED <<quiet, job>>,
         revived' \subseteq Staff, moved' \subseteq Managers, Distinct',
         req = Idle \/ RequestOK(p)'
  PROVE  Typed'
  <1>1. w \in [Workers -> Request] /\ w' \in [Workers -> Request]
    BY DEF Typed, Shapes
  <1>2. \A q \in Workers : w'[q] = IF q = p THEN req ELSE w[q]
    BY <1>1
  <1>3. \A q \in Workers : RequestOK(q)'
    BY <1>2, RequestsSame
  <1> QED BY <1>1, <1>3 DEF Typed, Shapes

LEMMA CountTyped ==
  ASSUME Typed, Count \/ UNCHANGED events
  PROVE  events' \in 0..MaxEvents
  BY BoundAssumption DEF Typed, Shapes, Count

(* The row x is written, the others stay.                                   *)
LEMMA WrittenGives ==
  ASSUME Typed, NEW x \in Staff, NEW row \in Row, Written(x, row)
  PROVE  /\ staff' \in [Staff -> Row \cup {Absent}]
         /\ \A y \in Staff : There(y) => There(y)'
         /\ \A y \in Staff : staff'[y] = IF y = x THEN row ELSE staff[y]
  <1>1. row.at = "row"
    BY RecordShapes
  <1> QED BY <1>1 DEF Typed, Shapes, Written, There

-----------------------------------------------------------------------------
(* Types, action by action.                                                 *)

LEMMA UsersKept ==
  ASSUME Typed
  PROVE  /\ users \in Seq(Account) /\ Len(users) <= LastUser /\ Len(users) \in Nat
         /\ "deleted" \in Account /\ "live" \in Account
  BY Accounts DEF Typed, Shapes, Account

LEMMA RequestsKeepSame ==
  ASSUME UNCHANGED w
  PROVE  RequestsKeep
  BY DEF RequestsKeep

LEMMA SalesCreateTyped ==
  ASSUME Typed, NEW x \in Sales, SalesCreate(x)
  PROVE  Typed'
  <1>1. /\ users' \in Seq(Account) /\ Len(users') = Len(users) + 1 /\ Len(users') <= LastUser
        /\ Fresh = Len(users) + 1 /\ Fresh \in Nat
    BY MakeUserGives DEF Typed, SalesCreate
  <1> DEFINE row == Hired(None, Fresh, TRUE)
  <1>2. row \in Row /\ row.user = Fresh
    BY <1>1 DEF Hired, Row
  <1>3. x \in Staff /\ Written(x, row) /\ UNCHANGED w
    BY Kinds DEF SalesCreate, AtOnce
  <1> HIDE DEF row
  <1>4. /\ staff' \in [Staff -> Row \cup {Absent}]
        /\ \A y \in Staff : There(y) => There(y)'
        /\ \A y \in Staff : staff'[y] = IF y = x THEN row ELSE staff[y]
    BY <1>2, <1>3, WrittenGives
  <1>5. Distinct'
    <2> DEFINE c == [kind |-> "staff", p |-> None, x |-> x]
    <2>1. c \in Place /\ At(c)' = Fresh
      <3>1. There(x)'
        BY <1>2, <1>3, <1>4, RecordShapes DEF There
      <3> QED BY <1>2, <1>3, <1>4, <3>1, Places DEF At
    <2>2. \A d \in Place : d # c => At(d)' = At(d)
      BY <1>3, <1>4 DEF Place, At, There
    <2> HIDE DEF c
    <2> QED BY <1>1, <2>1, <2>2, UsersKept, DistinctKept DEF Typed
  <1>6. /\ quiet' \in [Sales -> 0..2] /\ job' \in [Jobs -> JobRow]
        /\ revived' \subseteq Staff /\ moved' \subseteq Managers /\ AtOnce
    BY DEF Typed, Shapes, SalesCreate
  <1> QED BY <1>1, <1>4, <1>5, <1>6, AtOnceTyped

LEMMA QuietTyped ==
  ASSUME Typed, NEW x \in Sales, Order(x) \/ MonthsPass(x)
  PROVE  Typed'
  <1>1. quiet' \in [Sales -> 0..2]
    BY DEF Typed, Shapes, Order, MonthsPass
  <1>2. UNCHANGED <<staff, users, job, w, revived, moved, raced>>
    BY DEF Order, MonthsPass, AtOnce
  <1>3. events' \in 0..MaxEvents
    BY CountTyped DEF Order, MonthsPass, AtOnce
  <1>4. RowsKeep /\ RequestsKeep /\ Len(users') \in Nat /\ Len(users) <= Len(users')
    BY <1>2, UsersKept, RequestsKeepSame DEF RowsKeep, There
  <1>5. Distinct'
    BY <1>4, DistinctKeep
  <1>6. \A p \in Workers : RequestOK(p)'
    BY <1>2, RequestsSame DEF There
  <1> QED BY <1>1, <1>2, <1>3, <1>5, <1>6 DEF Typed, Shapes

(* Rows that keep their account, and accounts that end or live again.       *)
LEMMA RowKept ==
  ASSUME Typed, NEW x \in Staff, NEW row \in Row, Written(x, row),
         There(x), row.user = staff[x].user
  PROVE  /\ staff' \in [Staff -> Row \cup {Absent}]
         /\ \A y \in Staff : There(y) => There(y)'
         /\ RowsKeep
  <1>1. /\ staff' \in [Staff -> Row \cup {Absent}]
        /\ \A y \in Staff : There(y) => There(y)'
        /\ \A y \in Staff : staff'[y] = IF y = x THEN row ELSE staff[y]
    BY WrittenGives
  <1>2. RowsKeep
    BY <1>1 DEF RowsKeep, There
  <1> QED BY <1>1, <1>2

LEMMA RemoveTyped ==
  ASSUME Typed, NEW x \in Staff,
         \/ x \in Managers /\ ManagerRemove(x)
         \/ x \in Tukang /\ TukangRemove(x)
         \/ \E delete \in BOOLEAN, set \in {"on", "off"} : x \in Tukang /\ TukangUpdate(x, set, delete)
  PROVE  Typed'
  <1>1. There(x) /\ staff[x] \in Row
    BY RowThere DEF Typed, ManagerRemove, TukangRemove, TukangUpdate
  <1>2. PICK a \in BOOLEAN, d \in BOOLEAN :
          Written(x, [staff[x] EXCEPT !.active = a, !.deleted = d])
    <2>1. \A set \in {"on", "off"} : (set = "on") \in BOOLEAN
      OBVIOUS
    <2> QED BY <2>1 DEF ManagerRemove, TukangRemove, TukangUpdate
  <1> DEFINE row == [staff[x] EXCEPT !.active = a, !.deleted = d]
  <1>3. row \in Row /\ row.user = staff[x].user
    BY <1>1, RowEdits DEF Row
  <1> HIDE DEF row
  <1>4. /\ staff' \in [Staff -> Row \cup {Absent}]
        /\ \A y \in Staff : There(y) => There(y)'
        /\ RowsKeep
    BY <1>1, <1>2, <1>3, RowKept DEF row
  <1>5. users' \in Seq(Account) /\ Len(users') = Len(users)
    <2>1. CASE UNCHANGED users
      BY <2>1, UsersKept
    <2>2. CASE \E a2 \in Account : users' = [users EXCEPT ![staff[x].user] = a2]
      BY <2>2, UsersKept, EndUserGives
    <2> QED BY <2>1, <2>2, UsersKept DEF ManagerRemove, TukangRemove, TukangUpdate, EndUser
  <1>6. /\ quiet' \in [Sales -> 0..2] /\ job' \in [Jobs -> JobRow]
        /\ revived' \subseteq Staff /\ moved' \subseteq Managers /\ AtOnce
    BY DEF Typed, Shapes, ManagerRemove, TukangRemove, TukangUpdate, Removed
  <1>7. RequestsKeep
    BY <1>6, RequestsKeepSame DEF AtOnce
  <1>8. Distinct'
    BY <1>4, <1>5, <1>7, UsersKept, DistinctKeep
  <1> QED BY <1>4, <1>5, <1>6, <1>8, UsersKept, AtOnceTyped

LEMMA DeleteUserTyped ==
  ASSUME Typed, NEW u, DeleteUser(u)
  PROVE  Typed'
  <1>1. users' \in Seq(Account) /\ Len(users') = Len(users)
    BY UsersKept, EndUserGives DEF DeleteUser, EndUser
  <1>2. UNCHANGED <<staff, quiet, job, revived, moved, w>> /\ AtOnce
    BY DEF DeleteUser, AtOnce
  <1>3. RowsKeep /\ RequestsKeep
    BY <1>2, RequestsKeepSame DEF RowsKeep, There
  <1>4. Distinct'
    BY <1>1, <1>3, UsersKept, DistinctKeep
  <1>5. \A x \in Staff : There(x) => There(x)'
    BY <1>2 DEF There
  <1>6. /\ staff' \in [Staff -> Row \cup {Absent}] /\ quiet' \in [Sales -> 0..2]
        /\ job' \in [Jobs -> JobRow] /\ revived' \subseteq Staff /\ moved' \subseteq Managers
    BY <1>2 DEF Typed, Shapes
  <1>7. Len(users') <= LastUser
    BY <1>1, UsersKept
  <1> QED BY <1>1, <1>2, <1>4, <1>5, <1>6, <1>7, AtOnceTyped

(* The midnight jobs.                                                       *)
LEMMA JobTyped ==
  ASSUME Typed, NEW j \in Jobs, JobStep(j) \/ JobFail(j)
  PROVE  Typed'
  <1>1. job' \in [Jobs -> JobRow]
    <2>1. [at |-> "idle", ids |-> {}] \in JobRow
          /\ \A ids \in SUBSET Idlers(j) : [at |-> "write", ids |-> ids] \in JobRow
      BY DEF JobRow, Idlers
    <2>2. job[j] \in JobRow /\ [job[j] EXCEPT !.at = "users"] \in JobRow
      BY DEF Typed, Shapes, JobRow
    <2> QED BY <2>1, <2>2 DEF Typed, Shapes, JobStep, JobList, JobWrite, JobUsers, JobFail
  <1>2. UNCHANGED <<quiet, w, moved, raced>> /\ revived' \subseteq Staff
    BY DEF Typed, Shapes, JobStep, JobList, JobWrite, JobUsers, JobFail, AtOnce
  <1>3. events' \in 0..MaxEvents
    BY CountTyped DEF JobStep, JobList, JobWrite, JobUsers, JobFail, AtOnce
  <1>4. /\ staff' \in [Staff -> Row \cup {Absent}]
        /\ \A x \in Staff : There(x) => There(x)'
        /\ RowsKeep
    <2>1. CASE UNCHANGED staff
      BY <2>1 DEF RowsKeep, There, Typed, Shapes
    <2>2. CASE JobWrite(j)
      <3>1. \A x \in job[j].ids : x \in Sales
        BY DEF Typed, Shapes, JobRow
      <3>2. \A x \in Staff : staff'[x] =
                 IF x \notin job[j].ids THEN staff[x]
                 ELSE [staff[x] EXCEPT !.active = FALSE, !.deleted = @ \/ j = "six"]
        BY <2>2 DEF JobWrite
      <3>3. \A x \in Staff : \/ staff'[x] = staff[x]
                             \/ /\ There(x) /\ staff'[x] \in Row
                                /\ staff'[x].user = staff[x].user
                             \/ ~There(x) /\ staff'[x] = Absent
        <4> SUFFICES ASSUME NEW x \in Staff, x \in job[j].ids
                     PROVE  \/ /\ There(x) /\ staff'[x] \in Row
                               /\ staff'[x].user = staff[x].user
                            \/ ~There(x) /\ staff'[x] = Absent
          BY <3>2
        <4>1. CASE There(x)
          <5> DEFINE d == staff[x].deleted \/ j = "six"
          <5>1. staff[x] \in Row
            BY <4>1, RowThere DEF Typed
          <5>2. staff'[x] = [staff[x] EXCEPT !.active = FALSE, !.deleted = d]
            BY <3>2
          <5>3. d \in BOOLEAN
            BY <5>1, RecordShapes
          <5> HIDE DEF d
          <5>4. staff'[x] \in Row
            BY <5>1, <5>2, <5>3, RowEdits
          <5>5. staff'[x].user = staff[x].user
            BY <5>1, <5>2 DEF Row
          <5> QED BY <4>1, <5>4, <5>5
        <4>2. CASE ~There(x)
          <5>1. staff[x] = Absent
            BY <4>2, RowThere DEF Typed, Shapes
          <5>2. [Absent EXCEPT !.active = FALSE, !.deleted = Absent.deleted \/ j = "six"] = Absent
            BY DEF Absent
          <5> QED BY <3>2, <4>2, <5>1, <5>2
        <4> QED BY <4>1, <4>2
      <3>4. staff' \in [Staff -> Row \cup {Absent}]
        <4>1. DOMAIN staff' = Staff /\ staff' = [x \in Staff |-> staff'[x]]
          BY <2>2 DEF JobWrite
        <4> QED BY <3>3, <4>1 DEF Typed, Shapes
      <3>5. \A x \in Staff : staff'[x] \in Row => staff'[x].at = "row"
        BY RecordShapes
      <3> QED BY <3>3, <3>4, <3>5, RecordShapes DEF There, RowsKeep
    <2> QED BY <2>1, <2>2 DEF JobStep, JobList, JobUsers, JobFail, AtOnce
  <1>5. users' \in Seq(Account) /\ Len(users') = Len(users)
    <2>1. CASE UNCHANGED users
      BY <2>1, UsersKept
    <2>2. CASE JobUsers(j)
      <3>1. users' \in [1..Len(users) -> Account]
        BY <2>2, Accounts, UsersKept DEF JobUsers
      <3> QED BY <3>1, UsersKept, IsASeq, LenProperties
    <2> QED BY <2>1, <2>2 DEF JobStep, JobList, JobWrite, JobFail, AtOnce
  <1>6. RequestsKeep
    BY <1>2, RequestsKeepSame
  <1>7. Distinct'
    BY <1>4, <1>5, <1>6, UsersKept, DistinctKeep
  <1>8. \A p \in Workers : RequestOK(p)'
    BY <1>2, <1>4, RequestsSame
  <1> QED BY <1>1, <1>2, <1>3, <1>4, <1>5, <1>7, <1>8, UsersKept DEF Typed, Shapes

(* A request begins, goes on or ends.                                       *)
LEMMA BeginGives ==
  ASSUME Typed, NEW p \in Workers, NEW req \in Request, Begin(p, req)
  PROVE  /\ w' = [w EXCEPT ![p] = req] /\ w[p] = Idle
         /\ events' \in 0..MaxEvents /\ raced' \in BOOLEAN
         /\ \A q \in Workers : w'[q] = IF q = p THEN req ELSE w[q]
  <1>1. events' \in 0..MaxEvents
    BY CountTyped DEF Begin
  <1>2. raced' \in BOOLEAN
    BY DEF Begin, Busy
  <1> QED BY <1>1, <1>2 DEF Begin, Typed, Shapes

LEMMA ContinueGives ==
  ASSUME Typed, NEW p \in Workers, NEW req, Continue(p, req)
  PROVE  /\ w' = [w EXCEPT ![p] = req]
         /\ events' \in 0..MaxEvents /\ raced' \in BOOLEAN
         /\ \A q \in Workers : w'[q] = IF q = p THEN req ELSE w[q]
  BY DEF Continue, Typed, Shapes

(* A request that has made no account yet.                                  *)
LEMMA StartTyped ==
  ASSUME Typed, NEW p \in Workers, NEW req \in Request, Begin(p, req),
         UNCHANGED <<users, quiet, job, revived, moved>>,
         staff' \in [Staff -> Row \cup {Absent}], \A x \in Staff : There(x) => There(x)',
         RowsKeep, req.at # "tukang.row", \A x \in Sales : req.made[x] = NoUser,
         RequestOK(p)'
  PROVE  Typed'
  <1>1. /\ w' = [w EXCEPT ![p] = req]
        /\ events' \in 0..MaxEvents /\ raced' \in BOOLEAN
        /\ \A q \in Workers : w'[q] = IF q = p THEN req ELSE w[q]
    BY BeginGives
  <1>2. RequestsKeep
    BY <1>1 DEF RequestsKeep
  <1>3. Distinct'
    BY <1>2, UsersKept, DistinctKeep
  <1>4. revived' \subseteq Staff /\ moved' \subseteq Managers
    BY DEF Typed, Shapes
  <1> QED BY <1>1, <1>3, <1>4, UsersKept, WorkerTyped

LEMMA ReadTyped ==
  ASSUME Typed, NEW p \in Workers,
         \/ \E x \in Sales, set \in {"on", "off"}, names \in BOOLEAN : SalesUpdateRead(p, x, set, names)
         \/ \E x \in Sales : SalesRemoveRead(p, x)
         \/ SalesUserList(p)
         \/ \E x \in Managers, st \in Stores \cup {None}, set \in Switch : ManagerUpdateRead(p, x, st, set)
  PROVE  Typed'
  <1>1. PICK req \in Request :
          /\ Begin(p, req) /\ req.at # "tukang.row" /\ \A x \in Sales : req.made[x] = NoUser
          /\ req.at \in {"sales.update", "sales.remove"} => req.x \in Sales /\ There(req.x)
          /\ req.at # "manager.row"
          /\ req.at \in {"manager.off", "manager.write"} =>
               req.x \in Managers /\ There(req.x) /\ req.read \in Row
          /\ \A x \in req.left : There(x)
    <2>1. ASSUME NEW x \in Sales, NEW set \in {"on", "off"}, NEW names \in BOOLEAN,
                 SalesUpdateRead(p, x, set, names)
          PROVE  \E req \in Request :
                   /\ Begin(p, req) /\ req.at = "sales.update" /\ req.made = Idle.made
                   /\ req.x = x /\ There(x) /\ req.left = {}
      <3>1. staff[x] \in Row /\ x \in Staff
        BY <2>1, RowThere, Kinds DEF SalesUpdateRead, Typed
      <3> DEFINE req == [Idle EXCEPT !.at = "sales.update", !.x = x, !.set = set,
                                     !.names = names, !.user = staff[x].user]
      <3>2. /\ req \in Request /\ req.at = "sales.update" /\ req.made = Idle.made
            /\ req.x = x /\ req.left = {}
        BY <3>1, RecordShapes DEF Request, Idle, Switch
      <3> HIDE DEF req
      <3>3. Begin(p, req) /\ There(x)
        BY <2>1 DEF SalesUpdateRead, req
      <3> QED BY <3>2, <3>3
    <2>2. ASSUME NEW x \in Sales, SalesRemoveRead(p, x)
          PROVE  \E req \in Request :
                   /\ Begin(p, req) /\ req.at = "sales.remove" /\ req.made = Idle.made
                   /\ req.x = x /\ There(x) /\ req.left = {}
      <3>1. staff[x] \in Row /\ x \in Staff
        BY <2>2, RowThere, Kinds DEF SalesRemoveRead, Typed
      <3> DEFINE req == [Idle EXCEPT !.at = "sales.remove", !.x = x, !.user = staff[x].user]
      <3>2. /\ req \in Request /\ req.at = "sales.remove" /\ req.made = Idle.made
            /\ req.x = x /\ req.left = {}
        BY <3>1, RecordShapes DEF Request, Idle
      <3> HIDE DEF req
      <3>3. Begin(p, req) /\ There(x)
        BY <2>2 DEF SalesRemoveRead, req
      <3> QED BY <3>2, <3>3
    <2>3. ASSUME SalesUserList(p)
          PROVE  \E req \in Request :
                   /\ Begin(p, req) /\ req.at = "salesUser" /\ req.made = Idle.made
                   /\ \A x \in req.left : There(x)
      <3> DEFINE ids == {x \in Sales : There(x) /\ staff[x].user = NoUser /\ ~staff[x].deleted}
                 req == [Idle EXCEPT !.at = "salesUser", !.left = ids]
      <3>1. /\ req \in Request /\ req.at = "salesUser" /\ req.made = Idle.made
            /\ req.left = ids
        BY RecordShapes DEF Request, Idle
      <3>2. Begin(p, req)
        BY <2>3 DEF SalesUserList
      <3> QED BY <3>1, <3>2
    <2>4. ASSUME NEW x \in Managers, NEW st \in Stores \cup {None}, NEW set \in Switch,
                 ManagerUpdateRead(p, x, st, set)
          PROVE  \E req \in Request :
                   /\ Begin(p, req) /\ req.at \in {"manager.off", "manager.write"}
                   /\ req.made = Idle.made /\ req.x = x /\ There(x) /\ req.read \in Row
                   /\ req.left = {}
      <3>1. staff[x] \in Row /\ x \in Staff
        BY <2>4, RowThere, Kinds DEF ManagerUpdateRead, Typed
      <3> DEFINE req == [Idle EXCEPT !.at = IF set = "on" THEN "manager.off" ELSE "manager.write",
                           !.x = x, !.store = st, !.set = set, !.read = staff[x]]
      <3>2. /\ req \in Request /\ req.at \in {"manager.off", "manager.write"}
            /\ req.made = Idle.made /\ req.x = x /\ req.left = {} /\ req.read = staff[x]
        BY <3>1, RecordShapes DEF Request, Idle
      <3> HIDE DEF req
      <3>3. Begin(p, req) /\ There(x)
        BY <2>4 DEF ManagerUpdateRead, req
      <3> QED BY <3>1, <3>2, <3>3
    <2> QED BY <2>1, <2>2, <2>3, <2>4, RecordShapes
  <1>2. UNCHANGED <<staff, users, quiet, job, revived, moved>>
    BY DEF SalesUpdateRead, SalesRemoveRead, SalesUserList, ManagerUpdateRead
  <1>3. RowsKeep /\ (\A x \in Staff : There(x) => There(x)')
        /\ staff' \in [Staff -> Row \cup {Absent}]
    BY <1>2 DEF RowsKeep, There, Typed, Shapes
  <1>4. w'[p] = req
    BY <1>1, BeginGives
  <1>5. RequestOK(p)'
    BY <1>1, <1>2, <1>4 DEF RequestOK, There
  <1> QED BY <1>1, <1>2, <1>3, <1>5, StartTyped

(* Everybody else of the store is switched off.                             *)
LEMMA SwitchOffGives ==
  ASSUME Typed, NEW st, NEW but, SwitchOff(st, but)
  PROVE  /\ staff' \in [Staff -> Row \cup {Absent}]
         /\ \A x \in Staff :
              /\ There(x)' <=> There(x)
              /\ There(x) => /\ staff'[x].user = staff[x].user
                             /\ staff'[x].store = staff[x].store
                             /\ staff'[x].deleted = staff[x].deleted
                             /\ staff'[x].active =
                                  (/\ staff[x].active
                                   /\ ~(x \in Managers \ {but} /\ staff[x].store = st))
         /\ RowsKeep
  <1> DEFINE Hit(x) == x \in Managers \ {but} /\ There(x) /\ staff[x].store = st
  <1>1. /\ DOMAIN staff' = Staff /\ staff' = [x \in Staff |-> staff'[x]]
        /\ \A x \in Staff : staff'[x] = IF Hit(x) THEN [staff[x] EXCEPT !.active = FALSE]
                                                  ELSE staff[x]
    BY DEF SwitchOff
  <1>2. ASSUME NEW x \in Staff
        PROVE  /\ staff'[x] \in Row \cup {Absent}
               /\ There(x)' <=> There(x)
               /\ There(x) => /\ staff'[x].user = staff[x].user
                              /\ staff'[x].store = staff[x].store
                              /\ staff'[x].deleted = staff[x].deleted
                              /\ staff'[x].active =
                                  (/\ staff[x].active
                                   /\ ~(x \in Managers \ {but} /\ staff[x].store = st))
    <2>1. CASE Hit(x)
      <3>1. staff[x] \in Row
        BY <2>1, RowThere DEF Typed
      <3>2. staff'[x] = [staff[x] EXCEPT !.active = FALSE]
        BY <1>1, <2>1
      <3>3. /\ staff'[x] \in Row /\ staff'[x].user = staff[x].user
            /\ staff'[x].store = staff[x].store /\ staff'[x].deleted = staff[x].deleted
            /\ staff'[x].active = FALSE
        BY <3>1, <3>2 DEF Row
      <3> QED BY <2>1, <3>3, RecordShapes DEF There
    <2>2. CASE ~Hit(x)
      <3>1. staff'[x] = staff[x]
        BY <1>1, <2>2
      <3>2. There(x) => staff[x].active \in BOOLEAN
        BY RowThere, RecordShapes DEF Typed
      <3> QED BY <2>2, <3>1, <3>2 DEF There, Typed, Shapes
    <2> QED BY <2>1, <2>2
  <1> HIDE DEF Hit
  <1> QED BY <1>1, <1>2 DEF RowsKeep

LEMMA ManagerCreateTyped ==
  ASSUME Typed, NEW p \in Workers, NEW x \in Managers, NEW st \in Stores, ManagerCreate(p, x, st)
  PROVE  Typed'
  <1> DEFINE req == [Idle EXCEPT !.at = "manager.row", !.x = x, !.store = st]
  <1>1. /\ req \in Request /\ req.at = "manager.row" /\ req.made = Idle.made
        /\ req.x = x /\ req.left = {} /\ req.store = st
    BY Kinds, RecordShapes DEF Request, Idle
  <1> HIDE DEF req
  <1>2. Begin(p, req) /\ UNCHANGED <<users, quiet, job, revived, moved>>
    BY DEF ManagerCreate, req
  <1>3. /\ staff' \in [Staff -> Row \cup {Absent}]
        /\ \A y \in Staff : There(y) => There(y)'
        /\ RowsKeep
    BY SwitchOffGives DEF ManagerCreate
  <1>4. w'[p] = req
    BY <1>1, <1>2, BeginGives
  <1>5. RequestOK(p)'
    BY <1>1, <1>4, RecordShapes DEF RequestOK
  <1> QED BY <1>1, <1>2, <1>3, <1>5, RecordShapes, StartTyped

(* A craftsman's account waits with its request until the row is written.   *)
LEMMA TukangCreateTyped ==
  ASSUME Typed, NEW p \in Workers, NEW x \in Tukang, TukangCreate(p, x)
  PROVE  Typed'
  <1>1. /\ users' \in Seq(Account) /\ Len(users') = Len(users) + 1 /\ Len(users') <= LastUser
        /\ Fresh = Len(users) + 1 /\ Fresh \in Nat
    BY MakeUserGives DEF Typed, TukangCreate
  <1> DEFINE req == [Idle EXCEPT !.at = "tukang.row", !.x = x, !.user = Fresh]
  <1>2. /\ req \in Request /\ req.at = "tukang.row" /\ req.made = Idle.made
        /\ req.x = x /\ req.left = {} /\ req.user = Fresh
    BY <1>1, Kinds, RecordShapes DEF Request, Idle
  <1> HIDE DEF req
  <1>3. Begin(p, req) /\ UNCHANGED <<staff, quiet, job, revived, moved>>
    BY DEF TukangCreate, req
  <1>4. /\ w' = [w EXCEPT ![p] = req] /\ w[p] = Idle
        /\ events' \in 0..MaxEvents /\ raced' \in BOOLEAN
        /\ \A q \in Workers : w'[q] = IF q = p THEN req ELSE w[q]
    BY <1>2, <1>3, BeginGives
  <1>5. RequestOK(p)'
    BY <1>2, <1>4, RecordShapes DEF RequestOK
  <1>6. Distinct'
    <2> DEFINE c == [kind |-> "row", p |-> p, x |-> None]
    <2>1. c \in Place /\ At(c)' = Fresh
      BY <1>2, <1>4 DEF Place, At
    <2>2. \A d \in Place : d # c => At(d)' \in {At(d), NoUser}
      BY <1>2, <1>3, <1>4, RecordShapes DEF Place, At, There
    <2> HIDE DEF c
    <2> QED BY <1>1, <2>1, <2>2, UsersKept, DistinctKept DEF Typed
  <1>7. /\ staff' \in [Staff -> Row \cup {Absent}] /\ \A y \in Staff : There(y) => There(y)'
        /\ revived' \subseteq Staff /\ moved' \subseteq Managers
    BY <1>3 DEF Typed, Shapes, There
  <1> QED BY <1>1, <1>2, <1>3, <1>4, <1>5, <1>6, <1>7, WorkerTyped

LEMMA TukangRowTyped ==
  ASSUME Typed, NEW p \in Workers, TukangRow(p)
  PROVE  Typed'
  <1>1. PICK x \in Staff : /\ w[p] \in Request /\ w[p].at = "tukang.row" /\ x = w[p].x
                           /\ w[p].user \in Nat
    BY Kinds DEF Typed, Shapes, RequestOK, TukangRow, Request
  <1> DEFINE row == Hired(None, w[p].user, TRUE)
  <1>2. row \in Row /\ row.user = w[p].user
    BY <1>1 DEF Hired, Row
  <1>3. Written(x, row) /\ Continue(p, Idle) /\ UNCHANGED <<users, quiet, job, revived, moved>>
    BY <1>1 DEF TukangRow, Finish
  <1> HIDE DEF row
  <1>4. /\ staff' \in [Staff -> Row \cup {Absent}]
        /\ \A y \in Staff : There(y) => There(y)'
        /\ \A y \in Staff : staff'[y] = IF y = x THEN row ELSE staff[y]
    BY <1>1, <1>2, <1>3, WrittenGives
  <1>5. /\ w' = [w EXCEPT ![p] = Idle]
        /\ events' \in 0..MaxEvents /\ raced' \in BOOLEAN
        /\ \A q \in Workers : w'[q] = IF q = p THEN Idle ELSE w[q]
    BY <1>3, ContinueGives
  <1>6. Distinct'
    <2> DEFINE c == [kind |-> "staff", p |-> None, x |-> x]
               e == [kind |-> "row", p |-> p, x |-> None]
    <2>1. c \in Place /\ e \in Place /\ e # c
      BY <1>1, Places
    <2>2. At(e) = w[p].user /\ At(e)' = NoUser
      BY <1>1, <1>5, RecordShapes DEF At
    <2>3. At(c)' = w[p].user
      <3>1. There(x)'
        BY <1>1, <1>2, <1>4, RecordShapes DEF There
      <3> QED BY <1>1, <1>2, <1>4, <3>1 DEF At
    <2>4. \A d \in Place : d # c => At(d)' \in {At(d), NoUser}
      BY <1>4, <1>5, RecordShapes DEF Place, At, There
    <2> HIDE DEF c, e
    <2> QED BY <1>3, <2>1, <2>2, <2>3, <2>4, UsersKept, DistinctKept DEF Typed
  <1>7. revived' \subseteq Staff /\ moved' \subseteq Managers
    BY <1>3 DEF Typed, Shapes
  <1> QED BY <1>3, <1>4, <1>5, <1>6, <1>7, UsersKept, RecordShapes, WorkerTyped

LEMMA ManagerRowTyped ==
  ASSUME Typed, NEW p \in Workers, ManagerRow(p)
  PROVE  Typed'
  <1>1. PICK x \in Staff : x = w[p].x /\ w[p].store \in Stores
    BY Kinds DEF Typed, Shapes, RequestOK, ManagerRow
  <1>2. /\ users' \in Seq(Account) /\ Len(users') = Len(users) + 1 /\ Len(users') <= LastUser
        /\ Fresh = Len(users) + 1 /\ Fresh \in Nat
    BY MakeUserGives DEF Typed, ManagerRow
  <1> DEFINE row == Hired(w[p].store, Fresh, TRUE)
  <1>3. row \in Row /\ row.user = Fresh
    BY <1>1, <1>2 DEF Hired, Row
  <1>4. Written(x, row) /\ Continue(p, Idle) /\ UNCHANGED <<quiet, job, revived, moved>>
    BY <1>1 DEF ManagerRow, Finish
  <1> HIDE DEF row
  <1>5. /\ staff' \in [Staff -> Row \cup {Absent}]
        /\ \A y \in Staff : There(y) => There(y)'
        /\ \A y \in Staff : staff'[y] = IF y = x THEN row ELSE staff[y]
    BY <1>1, <1>3, <1>4, WrittenGives
  <1>6. /\ w' = [w EXCEPT ![p] = Idle]
        /\ events' \in 0..MaxEvents /\ raced' \in BOOLEAN
        /\ \A q \in Workers : w'[q] = IF q = p THEN Idle ELSE w[q]
    BY <1>4, ContinueGives
  <1>7. Distinct'
    <2> DEFINE c == [kind |-> "staff", p |-> None, x |-> x]
    <2>1. c \in Place
      BY <1>1, Places
    <2>3. At(c)' = Fresh
      <3>1. There(x)'
        BY <1>1, <1>3, <1>5, RecordShapes DEF There
      <3> QED BY <1>1, <1>3, <1>5, <3>1 DEF At
    <2>4. \A d \in Place : d # c => At(d)' \in {At(d), NoUser}
      BY <1>5, <1>6, RecordShapes DEF Place, At, There
    <2> HIDE DEF c
    <2> QED BY <1>2, <2>1, <2>3, <2>4, UsersKept, DistinctKept DEF Typed
  <1>8. revived' \subseteq Staff /\ moved' \subseteq Managers
    BY <1>4 DEF Typed, Shapes
  <1> QED BY <1>2, <1>4, <1>5, <1>6, <1>7, <1>8, RecordShapes, WorkerTyped

(* A request that ends or goes on without an account of its own.            *)
LEMMA WorkTyped ==
  ASSUME Typed, NEW p \in Workers, NEW req \in Request, w' = [w EXCEPT ![p] = req],
         req = Idle \/ RequestOK(p)',
         req.at # "tukang.row", \A x \in Sales : req.made[x] \in {w[p].made[x], NoUser},
         events' \in 0..MaxEvents, raced' \in BOOLEAN, UNCHANGED <<quiet, job>>,
         staff' \in [Staff -> Row \cup {Absent}], \A x \in Staff : There(x) => There(x)',
         RowsKeep, users' \in Seq(Account), Len(users') = Len(users),
         revived' \subseteq Staff, moved' \subseteq Managers
  PROVE  Typed'
  <1>1. \A q \in Workers : w'[q] = IF q = p THEN req ELSE w[q]
    BY DEF Typed, Shapes
  <1>2. RequestsKeep
    BY <1>1 DEF RequestsKeep
  <1>3. Distinct'
    BY <1>2, UsersKept, DistinctKeep
  <1> QED BY <1>3, UsersKept, WorkerTyped

LEMMA EndTyped ==
  ASSUME Typed, NEW p \in Workers, Continue(p, Idle),
         UNCHANGED <<quiet, job>>,
         staff' \in [Staff -> Row \cup {Absent}], \A x \in Staff : There(x) => There(x)',
         RowsKeep, users' \in Seq(Account), Len(users') = Len(users),
         revived' \subseteq Staff, moved' \subseteq Managers
  PROVE  Typed'
  <1>1. /\ w' = [w EXCEPT ![p] = Idle]
        /\ events' \in 0..MaxEvents /\ raced' \in BOOLEAN
    BY ContinueGives
  <1>2. \A x \in Sales : Idle.made[x] \in {w[p].made[x], NoUser}
    BY RecordShapes
  <1>3. Idle \in Request /\ Idle.at # "tukang.row"
    BY RecordShapes
  <1> QED BY <1>1, <1>2, <1>3, WorkTyped

LEMMA SalesRemoveTyped ==
  ASSUME Typed, NEW p \in Workers, SalesRemoveWrite(p)
  PROVE  Typed'
  <1>1. w[p].x \in Sales /\ w[p].x \in Staff /\ There(w[p].x) /\ staff[w[p].x] \in Row
    BY Kinds, RowThere DEF Typed, RequestOK, SalesRemoveWrite
  <1>2. Continue(p, Idle) /\ UNCHANGED <<quiet, job, moved>>
    BY DEF SalesRemoveWrite, Finish
  <1>4. /\ staff' \in [Staff -> Row \cup {Absent}]
        /\ \A y \in Staff : There(y) => There(y)'
        /\ RowsKeep
        /\ users' \in Seq(Account) /\ Len(users') = Len(users)
    <2>1. CASE UNCHANGED <<staff, users>>
      BY <2>1, UsersKept DEF RowsKeep, There, Typed, Shapes
    <2>2. CASE ~UNCHANGED <<staff, users>>
      <3> DEFINE row == [staff[w[p].x] EXCEPT !.active = FALSE, !.deleted = TRUE]
      <3>1. Written(w[p].x, row) /\ EndUser(w[p].user)
        BY <2>2 DEF SalesRemoveWrite
      <3>2. row \in Row /\ row.user = staff[w[p].x].user
        BY <1>1 DEF Row
      <3> HIDE DEF row
      <3>3. users' \in Seq(Account) /\ Len(users') = Len(users)
        BY <3>1, UsersKept, EndUserGives DEF EndUser
      <3> QED BY <1>1, <3>1, <3>2, <3>3, RowKept
    <2> QED BY <2>1, <2>2
  <1>5. revived' \subseteq Staff /\ moved' \subseteq Managers
    BY DEF Typed, Shapes, SalesRemoveWrite, Removed
  <1> QED BY <1>2, <1>4, <1>5, EndTyped

LEMMA SalesUpdateTyped ==
  ASSUME Typed, NEW p \in Workers, SalesUpdateWrite(p)
  PROVE  Typed'
  <1>1. PICK x \in Sales : x = w[p].x /\ x \in Staff /\ There(x) /\ staff[x] \in Row
    BY Kinds, RowThere DEF Typed, Shapes, RequestOK, SalesUpdateWrite
  <1>2. Continue(p, Idle) /\ UNCHANGED <<quiet, job, moved>>
    BY DEF SalesUpdateWrite, Finish
  <1>3. /\ w' = [w EXCEPT ![p] = Idle]
        /\ events' \in 0..MaxEvents /\ raced' \in BOOLEAN
        /\ \A q \in Workers : w'[q] = IF q = p THEN Idle ELSE w[q]
    BY <1>2, ContinueGives
  <1>4. revived' \subseteq Staff /\ moved' \subseteq Managers
    BY <1>1 DEF Typed, Shapes, SalesUpdateWrite
  <1> DEFINE new == w[p].user = NoUser /\ w[p].names
             kept == [staff[x] EXCEPT !.active = (w[p].set = "on"), !.user = staff[x].user]
             made == [staff[x] EXCEPT !.active = (w[p].set = "on"), !.user = Fresh]
  <1>5. \/ UNCHANGED <<staff, users>>
        \/ ~new /\ Written(x, kept) /\ UNCHANGED users
        \/ new /\ MakeUser /\ Written(x, made)
    BY <1>1 DEF SalesUpdateWrite
  <1>6. CASE UNCHANGED <<staff, users>>
    <2>1. /\ staff' \in [Staff -> Row \cup {Absent}]
          /\ \A y \in Staff : There(y) => There(y)'
          /\ RowsKeep /\ users' \in Seq(Account) /\ Len(users') = Len(users)
      BY <1>6, UsersKept DEF RowsKeep, There, Typed, Shapes
    <2> QED BY <1>2, <1>4, <2>1, EndTyped
  <1>7. CASE ~new /\ Written(x, kept) /\ UNCHANGED users
    <2>1. kept \in Row /\ kept.user = staff[x].user
      BY <1>1 DEF Row
    <2> HIDE DEF kept
    <2>2. /\ staff' \in [Staff -> Row \cup {Absent}]
          /\ \A y \in Staff : There(y) => There(y)'
          /\ RowsKeep
      BY <1>1, <1>7, <2>1, RowKept
    <2> QED BY <1>2, <1>4, <1>7, <2>2, UsersKept, EndTyped
  <1>8. CASE new /\ MakeUser /\ Written(x, made)
    <2>1. /\ users' \in Seq(Account) /\ Len(users') = Len(users) + 1 /\ Len(users') <= LastUser
          /\ Fresh = Len(users) + 1 /\ Fresh \in Nat
      BY <1>8, MakeUserGives DEF Typed
    <2>2. made \in Row /\ made.user = Fresh
      BY <1>1, <2>1 DEF Row
    <2> HIDE DEF made
    <2>3. /\ staff' \in [Staff -> Row \cup {Absent}]
          /\ \A y \in Staff : There(y) => There(y)'
          /\ \A y \in Staff : staff'[y] = IF y = x THEN made ELSE staff[y]
      BY <1>1, <1>8, <2>2, WrittenGives
    <2>4. Distinct'
      <3> DEFINE c == [kind |-> "staff", p |-> None, x |-> x]
      <3>1. c \in Place
        BY <1>1, Places
      <3>2. At(c)' = Fresh
        <4>1. There(x)'
          BY <1>1, <2>3
        <4> QED BY <1>1, <2>2, <2>3, <4>1 DEF At
      <3>3. \A d \in Place : d # c => At(d)' \in {At(d), NoUser}
        BY <1>3, <2>3, RecordShapes DEF Place, At, There
      <3> HIDE DEF c
      <3> QED BY <2>1, <3>1, <3>2, <3>3, UsersKept, DistinctKept DEF Typed
    <2> QED BY <1>2, <1>3, <1>4, <2>1, <2>3, <2>4, RecordShapes, WorkerTyped
  <1> QED BY <1>5, <1>6, <1>7, <1>8

LEMMA SalesUserMakeTyped ==
  ASSUME Typed, NEW p \in Workers, NEW x \in Sales, SalesUserMake(p, x)
  PROVE  Typed'
  <1>1. /\ users' \in Seq(Account) /\ Len(users') = Len(users) + 1 /\ Len(users') <= LastUser
        /\ Fresh = Len(users) + 1 /\ Fresh \in Nat
    BY MakeUserGives DEF Typed, SalesUserMake
  <1>2. w[p] \in Request /\ w[p].at = "salesUser" /\ x \in w[p].left
    BY DEF Typed, Shapes, SalesUserMake
  <1> DEFINE made == [w[p].made EXCEPT ![x] = Fresh]
             req == [w[p] EXCEPT !.left = w[p].left \ {x}, !.made = made]
  <1>3. made \in [Sales -> Nat] /\ \A y \in Sales : made[y] = IF y = x THEN Fresh ELSE w[p].made[y]
    BY <1>1, <1>2 DEF Request
  <1>4. Continue(p, req)
    BY DEF SalesUserMake
  <1> HIDE DEF made
  <1>5. /\ req \in Request /\ req.at = "salesUser" /\ req.made = made
        /\ req.left = w[p].left \ {x}
    BY <1>2, <1>3 DEF Request
  <1> HIDE DEF req
  <1>6. /\ w' = [w EXCEPT ![p] = req]
        /\ events' \in 0..MaxEvents /\ raced' \in BOOLEAN
        /\ \A q \in Workers : w'[q] = IF q = p THEN req ELSE w[q]
    BY <1>4, ContinueGives
  <1>7. UNCHANGED <<staff, quiet, job, revived, moved>>
    BY DEF SalesUserMake
  <1>8. Distinct'
    <2> DEFINE c == [kind |-> "made", p |-> p, x |-> x]
    <2>1. c \in Place /\ At(c)' = Fresh
      BY <1>3, <1>5, <1>6 DEF Place, At
    <2>2. \A d \in Place : d # c => At(d)' \in {At(d), NoUser}
      BY <1>2, <1>3, <1>5, <1>6, <1>7 DEF Place, At, There
    <2> HIDE DEF c
    <2> QED BY <1>1, <2>1, <2>2, UsersKept, DistinctKept DEF Typed
  <1>9. RequestOK(p)'
    <2>1. \A y \in Sales : y \in w[p].left \/ w[p].made[y] # NoUser => There(y)
      BY DEF Typed, RequestOK
    <2>2. \A y \in Sales : y \in req.left \/ req.made[y] # NoUser => There(y)
      BY <1>2, <1>3, <1>5, <2>1
    <2>3. w'[p] = req /\ \A y \in Sales : There(y)' <=> There(y)
      BY <1>6, <1>7 DEF There
    <2> QED BY <1>5, <2>2, <2>3 DEF RequestOK
  <1>10. /\ staff' \in [Staff -> Row \cup {Absent}] /\ \A y \in Staff : There(y) => There(y)'
         /\ revived' \subseteq Staff /\ moved' \subseteq Managers
    BY <1>7 DEF Typed, Shapes, There
  <1> QED BY <1>1, <1>5, <1>6, <1>7, <1>8, <1>9, <1>10, WorkerTyped

LEMMA SalesUserLinkTyped ==
  ASSUME Typed, NEW p \in Workers, NEW x \in Sales, SalesUserLink(p, x)
  PROVE  Typed'
  <1>1. /\ w[p] \in Request /\ w[p].at = "salesUser" /\ w[p].made[x] # NoUser
        /\ w[p].made[x] \in Nat /\ There(x) /\ x \in Staff /\ staff[x] \in Row
    BY Kinds, RowThere DEF Typed, Shapes, SalesUserLink, RequestOK, Request
  <1> DEFINE row == [staff[x] EXCEPT !.user = w[p].made[x]]
             made == [w[p].made EXCEPT ![x] = NoUser]
             rest == [w[p] EXCEPT !.made = made]
  <1>2. row \in Row /\ row.user = w[p].made[x] /\ Written(x, row)
    BY <1>1 DEF Row, SalesUserLink
  <1>3. made \in [Sales -> Nat] /\ \A y \in Sales : made[y] = IF y = x THEN NoUser ELSE w[p].made[y]
    BY <1>1 DEF Request, NoUser
  <1>4. Continue(p, rest) \/ Continue(p, Idle)
    BY DEF SalesUserLink, Finish
  <1> HIDE DEF made, row
  <1>5. rest \in Request /\ rest.at = "salesUser" /\ rest.made = made /\ rest.left = w[p].left
    BY <1>1, <1>3 DEF Request
  <1> HIDE DEF rest
  <1>6. PICK req \in Request :
          /\ Continue(p, req) /\ req \in {Idle, rest}
    BY <1>4, <1>5, RecordShapes
  <1>7. /\ w' = [w EXCEPT ![p] = req]
        /\ events' \in 0..MaxEvents /\ raced' \in BOOLEAN
        /\ \A q \in Workers : w'[q] = IF q = p THEN req ELSE w[q]
    BY <1>6, ContinueGives
  <1>8. /\ staff' \in [Staff -> Row \cup {Absent}]
        /\ \A y \in Staff : There(y) => There(y)'
        /\ \A y \in Staff : staff'[y] = IF y = x THEN row ELSE staff[y]
    BY <1>1, <1>2, WrittenGives
  <1>9. req.at # "tukang.row" /\ req.made[x] = NoUser
        /\ \A y \in Sales : req.made[y] \in {w[p].made[y], NoUser}
    BY <1>3, <1>5, <1>6, RecordShapes
  <1>10. Distinct'
    <2> DEFINE c == [kind |-> "staff", p |-> None, x |-> x]
               e == [kind |-> "made", p |-> p, x |-> x]
    <2>1. c \in Place /\ e \in Place /\ e # c /\ At(e) = w[p].made[x] /\ At(e)' = NoUser
      BY <1>1, <1>7, <1>9 DEF Place, At
    <2>2. At(c)' = w[p].made[x]
      <3>1. There(x)'
        BY <1>1, <1>8
      <3> QED BY <1>1, <1>2, <1>8, <3>1 DEF At
    <2>3. \A d \in Place : d # c => At(d)' \in {At(d), NoUser}
      BY <1>7, <1>8, <1>9 DEF Place, At, There
    <2>4. UNCHANGED users
      BY DEF SalesUserLink
    <2> HIDE DEF c, e
    <2> QED BY <2>1, <2>2, <2>3, <2>4, UsersKept, DistinctKept DEF Typed
  <1>11. req = Idle \/ RequestOK(p)'
    <2>1. \A y \in Sales : y \in w[p].left \/ w[p].made[y] # NoUser => There(y)
      BY DEF Typed, RequestOK
    <2>2. \A y \in Sales : y \in rest.left \/ rest.made[y] # NoUser => There(y)'
      BY <1>3, <1>5, <1>8, <2>1, Kinds
    <2> QED BY <1>5, <1>6, <1>7, <2>2 DEF RequestOK
  <1>12. UNCHANGED <<users, quiet, job>> /\ revived' \subseteq Staff /\ moved' \subseteq Managers
    BY DEF Typed, Shapes, SalesUserLink
  <1> QED BY <1>7, <1>8, <1>10, <1>11, <1>12, UsersKept, WorkerTyped

LEMMA ManagerOffTyped ==
  ASSUME Typed, NEW p \in Workers, ManagerUpdateOff(p)
  PROVE  Typed'
  <1>1. w[p] \in Request /\ w[p].at = "manager.off" /\ w[p].x \in Managers
        /\ There(w[p].x) /\ w[p].read \in Row
    BY DEF Typed, Shapes, ManagerUpdateOff, RequestOK
  <1> DEFINE req == [w[p] EXCEPT !.at = "manager.write"]
  <1>2. /\ req \in Request /\ req.at = "manager.write" /\ req.made = w[p].made
        /\ req.x = w[p].x /\ req.read = w[p].read /\ req.left = w[p].left
    BY <1>1 DEF Request
  <1> HIDE DEF req
  <1>3. Continue(p, req) /\ UNCHANGED <<users, quiet, job, revived, moved>>
    BY DEF ManagerUpdateOff, Goto, req
  <1>4. /\ w' = [w EXCEPT ![p] = req]
        /\ events' \in 0..MaxEvents /\ raced' \in BOOLEAN
        /\ \A q \in Workers : w'[q] = IF q = p THEN req ELSE w[q]
    BY <1>3, ContinueGives
  <1>5. /\ staff' \in [Staff -> Row \cup {Absent}]
        /\ \A x \in Staff : There(x)' <=> There(x)
        /\ RowsKeep
    BY SwitchOffGives DEF ManagerUpdateOff
  <1>6. RequestOK(p)'
    <2>1. \A y \in Sales : y \in w[p].left \/ w[p].made[y] # NoUser => There(y)
      BY DEF Typed, RequestOK
    <2> QED BY <1>1, <1>2, <1>4, <1>5, <2>1, Kinds DEF RequestOK
  <1>7. revived' \subseteq Staff /\ moved' \subseteq Managers
    BY <1>3 DEF Typed, Shapes
  <1> QED BY <1>2, <1>3, <1>4, <1>5, <1>6, <1>7, UsersKept, WorkTyped

LEMMA ManagerWriteTyped ==
  ASSUME Typed, NEW p \in Workers, ManagerUpdateWrite(p)
  PROVE  Typed'
  <1>1. PICK x \in Managers :
          /\ x = w[p].x /\ x \in Staff /\ There(x) /\ staff[x] \in Row
          /\ w[p].read \in Row /\ w[p].store \in Stores \cup {None}
    BY Kinds, RowThere DEF Typed, Shapes, ManagerUpdateWrite, RequestOK, Request
  <1>2. PICK a \in BOOLEAN, st \in Stores \cup {None} :
          Written(x, [staff[x] EXCEPT !.active = a, !.store = st])
    <2> DEFINE a == IF w[p].set = "unset" THEN w[p].read.active ELSE w[p].set = "on"
               st == IF w[p].store # None THEN w[p].store ELSE staff[x].store
    <2>1. a \in BOOLEAN /\ st \in Stores \cup {None}
      BY <1>1, RecordShapes
    <2>2. Written(x, [staff[x] EXCEPT !.active = a, !.store = st])
      BY <1>1 DEF ManagerUpdateWrite
    <2> HIDE DEF a, st
    <2> QED BY <2>1, <2>2
  <1> DEFINE row == [staff[x] EXCEPT !.active = a, !.store = st]
  <1>3. row \in Row /\ row.user = staff[x].user
    BY <1>1 DEF Row
  <1> HIDE DEF row
  <1>4. /\ staff' \in [Staff -> Row \cup {Absent}]
        /\ \A y \in Staff : There(y) => There(y)'
        /\ RowsKeep
    BY <1>1, <1>2, <1>3, RowKept DEF row
  <1>5. Continue(p, Idle) /\ UNCHANGED <<users, quiet, job>>
    BY DEF ManagerUpdateWrite, Finish
  <1>6. revived' \subseteq Staff /\ moved' \subseteq Managers
    BY <1>1 DEF Typed, Shapes, ManagerUpdateWrite
  <1> QED BY <1>4, <1>5, <1>6, UsersKept, EndTyped

LEMMA FailTyped ==
  ASSUME Typed, NEW p \in Workers, Fail(p)
  PROVE  Typed'
  <1>1. /\ w' = [w EXCEPT ![p] = Idle] /\ raced' \in BOOLEAN
        /\ UNCHANGED <<staff, users, quiet, job, revived, moved>>
    BY DEF Fail, Typed, Shapes
  <1>2. events' \in 0..MaxEvents
    BY CountTyped DEF Fail
  <1>3. /\ staff' \in [Staff -> Row \cup {Absent}]
        /\ \A y \in Staff : There(y) => There(y)'
        /\ RowsKeep
        /\ revived' \subseteq Staff /\ moved' \subseteq Managers
    BY <1>1 DEF RowsKeep, There, Typed, Shapes
  <1>4. \A x \in Sales : Idle.made[x] \in {w[p].made[x], NoUser}
    BY RecordShapes
  <1>5. Idle \in Request /\ Idle.at # "tukang.row"
    BY RecordShapes
  <1> QED BY <1>1, <1>2, <1>3, <1>4, <1>5, UsersKept, WorkTyped

LEMMA NextTyped == Typed /\ [Next]_vars => Typed'
  <1> SUFFICES ASSUME Typed, [Next]_vars PROVE Typed'
    OBVIOUS
  <1>1. CASE UNCHANGED vars
    <2>1. RowsKeep /\ RequestsKeep /\ UNCHANGED <<users, w>> /\ \A x \in Staff : There(x) => There(x)'
      BY <1>1, RequestsKeepSame DEF vars, RowsKeep, There
    <2>2. Distinct' /\ \A p \in Workers : RequestOK(p)'
      BY <2>1, UsersKept, DistinctKeep, RequestsSame
    <2> QED BY <1>1, <2>2 DEF Typed, Shapes, vars
  <1>2. CASE Single
    BY <1>2, SalesCreateTyped, QuietTyped, RemoveTyped, DeleteUserTyped, Kinds DEF Single
  <1>3. ASSUME NEW p \in Workers, Starting(p) PROVE Typed'
    BY <1>3, ReadTyped, ManagerCreateTyped, TukangCreateTyped DEF Starting
  <1>4. ASSUME NEW p \in Workers, Continuing(p) PROVE Typed'
    BY <1>4, SalesUpdateTyped, SalesRemoveTyped, SalesUserMakeTyped, SalesUserLinkTyped,
       ManagerRowTyped, ManagerOffTyped, ManagerWriteTyped, TukangRowTyped DEF Continuing
  <1>5. ASSUME NEW p \in Workers, Fail(p) PROVE Typed'
    BY <1>5, FailTyped
  <1>6. ASSUME NEW j \in Jobs, JobStep(j) \/ JobFail(j) PROVE Typed'
    BY <1>6, JobTyped
  <1> QED BY <1>1, <1>2, <1>3, <1>4, <1>5, <1>6 DEF Next

LEMMA InitTyped == Init => Typed
  <1> SUFFICES ASSUME Init PROVE Typed
    OBVIOUS
  <1>1. PICK known \in Known :
          /\ \E at \in [Managers \cap DOMAIN known -> Stores] :
               staff = [x \in Staff |->
                          IF x \notin DOMAIN known THEN Absent
                          ELSE Hired(IF x \in Managers THEN at[x] ELSE None, known[x], TRUE)]
          /\ users = [u \in 1..Cardinality({x \in DOMAIN known : known[x] # NoUser}) |-> "live"]
    BY DEF Init
  <1> DEFINE withOne == {x \in DOMAIN known : known[x] # NoUser}
             n == Cardinality(withOne)
  <1>2. n \in Nat
    <2>1. withOne \subseteq Staff
      BY KnownAssumption
    <2> QED BY <2>1, FiniteAssumption, FS_Subset, FS_CardinalityType
  <1>3. /\ {known[x] : x \in withOne} = 1..n
        /\ \A x, y \in withOne : known[x] = known[y] => x = y
    BY KnownAssumption
  <1>4. users = [u \in 1..n |-> "live"]
    BY <1>1
  <1> HIDE DEF n
  <1>5. users \in Seq(Account) /\ Len(users) = n
    <2>1. users \in [1..n -> Account]
      BY <1>4 DEF Account
    <2> QED BY <1>2, <2>1, IsASeq, LenProperties
  <1>6. \A x \in DOMAIN known : known[x] \in 0..n
    BY <1>2, <1>3 DEF NoUser
  <1>7. PICK at \in [Managers \cap DOMAIN known -> Stores] :
          staff = [x \in Staff |->
                          IF x \notin DOMAIN known THEN Absent
                          ELSE Hired(IF x \in Managers THEN at[x] ELSE None, known[x], TRUE)]
    BY <1>1
  <1>8. /\ staff \in [Staff -> Row \cup {Absent}]
        /\ \A x \in Staff : There(x) => x \in DOMAIN known /\ staff[x].user = known[x]
    <2>1. \A st \in Stores \cup {None}, u \in 0..n : Hired(st, u, TRUE) \in Row
      BY <1>2 DEF Hired, Row
    <2>2. \A x \in Staff \cap DOMAIN known : (IF x \in Managers THEN at[x] ELSE None) \in Stores \cup {None}
      OBVIOUS
    <2>3. staff \in [Staff -> Row \cup {Absent}]
      BY <1>6, <1>7, <2>1, <2>2
    <2>4. \A x \in Staff : There(x) => x \in DOMAIN known /\ staff[x].user = known[x]
      BY <1>7, RecordShapes DEF There, Hired
    <2> QED BY <2>3, <2>4
  <1>9. w = [p \in Workers |-> Idle]
    BY DEF Init
  <1>10. Distinct
    <2>1. \A c \in Place : c.kind # "staff" => At(c) = NoUser
      BY <1>9, RecordShapes DEF Place, At
    <2>2. \A c \in Place : c.kind = "staff" => At(c) = NoUser \/ (c.x \in withOne /\ At(c) = known[c.x])
      BY <1>8 DEF Place, At
    <2>3. \A c \in Place : At(c) \in 0..Len(users)
      BY <1>2, <1>5, <1>6, <2>1, <2>2 DEF NoUser
    <2>4. \A c, d \in Place : c # d /\ c.kind = "staff" /\ d.kind = "staff" => c.x # d.x
      BY DEF Place
    <2>5. \A c, d \in Place : c # d /\ At(c) = At(d) => At(c) = NoUser
      BY <1>3, <2>1, <2>2, <2>4
    <2> QED BY <2>3, <2>5 DEF Distinct
  <1>11. \A p \in Workers : RequestOK(p)
    BY <1>9, RecordShapes DEF RequestOK
  <1>12. job \in [Jobs -> JobRow]
    BY DEF Init, JobRow
  <1>13. quiet \in [Sales -> 0..2]
    BY DEF Init
  <1>14. w \in [Workers -> Request]
    BY <1>9, RecordShapes
  <1>15. Len(users) <= LastUser
    BY <1>5, KnownAssumption DEF n
  <1>16. /\ events \in 0..MaxEvents /\ revived \subseteq Staff /\ moved \subseteq Managers
         /\ raced \in BOOLEAN
    <2>1. events = 0 /\ revived = {} /\ moved = {}
      BY DEF Init
    <2>2. raced \in BOOLEAN
      BY DEF Init
    <2>3. events \in 0..MaxEvents
      BY <2>1, BoundAssumption
    <2> QED BY <2>1, <2>2, <2>3
  <1> QED BY <1>5, <1>8, <1>10, <1>11, <1>12, <1>13, <1>14, <1>15, <1>16 DEF Typed, Shapes

THEOREM SpecTyped == Spec => []Typed
  BY InitTyped, NextTyped, PTL DEF Spec

(* Every reachable state is well typed, and no account is two people's: an   *)
(* account that a request has made and not yet linked is nobody else's,      *)
(* whatever requests overlap or fail.                                       *)
THEOREM SpecTypeOK == Spec => []TypeOK
  BY SpecTyped, TypeFromTyped, PTL

-----------------------------------------------------------------------------
(* Removed people.                                                          *)

(* A removed tukang has no live account; a removed sales person or manager   *)
(* is off.  An update since may have changed that.                          *)
Out ==
  \A x \in Staff : There(x) /\ staff[x].deleted =>
    \/ x \in revived
    \/ x \in Tukang /\ ~Live(staff[x].user)
    \/ x \notin Tukang /\ ~staff[x].active

(* The account u lets in after the step.                                    *)
LiveNext(u) == u # NoUser /\ users'[u] = "live"

(* The row is as before, or less than before.                               *)
Quieter(x) ==
  /\ There(x) /\ staff'[x].deleted = staff[x].deleted
  /\ staff'[x].active => staff[x].active
  /\ staff'[x].user = staff[x].user \/ x \notin Tukang

LEMMA OutKept ==
  ASSUME Out, Typed,
         \A u \in 1..Len(users) : users'[u] = "live" => users[u] = "live",
         \A x \in Staff : There(x)' /\ staff'[x].deleted =>
           \/ x \in revived'
           \/ x \notin Tukang /\ ~staff'[x].active
           \/ x \in Tukang /\ ~LiveNext(staff'[x].user)
           \/ Quieter(x) /\ (x \in revived => x \in revived')
  PROVE  Out'
  <1>1. \A x \in Staff : There(x) => staff[x].user \in 0..Len(users)
    BY TypeFromTyped DEF TypeOK
  <1>2. Len(users) \in Nat
    BY UsersKept
  <1>3. \A x \in Staff : x \in Tukang /\ Quieter(x) /\ ~Live(staff[x].user)
                          => ~LiveNext(staff'[x].user)
    BY <1>1, <1>2 DEF Quieter, Live, LiveNext, NoUser
  <1> QED BY <1>3 DEF Out, Quieter, Live, LiveNext

LEMMA QuieterSame ==
  ASSUME UNCHANGED staff, NEW x \in Staff, There(x)'
  PROVE  Quieter(x)
  BY DEF Quieter, There

(* Steps that write no row, and end no account or make one.                 *)
LEMMA OutSame ==
  ASSUME Out, Typed, UNCHANGED <<staff, revived>>,
         UNCHANGED users \/ MakeUser \/ \E u : EndUser(u)
  PROVE  Out'
  <1>1. \A u \in 1..Len(users) : users'[u] = "live" => users[u] = "live"
    <2>1. CASE MakeUser
      BY <2>1, MakeUserGives DEF Typed
    <2>2. CASE \E u : EndUser(u)
      BY <2>2, UsersKept, EndUserGives DEF EndUser
    <2> QED BY <2>1, <2>2
  <1> QED BY <1>1, QuieterSame, OutKept

(* Steps that write the row x.                                              *)
LEMMA OutWritten ==
  ASSUME Out, Typed, NEW x \in Staff, NEW row, Written(x, row),
         revived \ {x} \subseteq revived',
         UNCHANGED users \/ MakeUser \/ \E u : EndUser(u),
         row.deleted => \/ x \in revived'
                        \/ x \notin Tukang /\ ~row.active
                        \/ x \in Tukang /\ ~LiveNext(row.user)
  PROVE  Out'
  <1>1. \A u \in 1..Len(users) : users'[u] = "live" => users[u] = "live"
    <2>1. CASE MakeUser
      BY <2>1, MakeUserGives DEF Typed
    <2>2. CASE \E u : EndUser(u)
      BY <2>2, UsersKept, EndUserGives DEF EndUser
    <2> QED BY <2>1, <2>2
  <1>2. \A y \in Staff : staff'[y] = IF y = x THEN row ELSE staff[y]
    BY DEF Typed, Shapes, Written
  <1>3. \A y \in Staff : y # x /\ There(y)' => Quieter(y)
    BY <1>2 DEF Quieter, There
  <1> QED BY <1>1, <1>2, <1>3, OutKept

LEMMA SingleOut ==
  ASSUME Out, Typed, Single
  PROVE  Out'
  <1>1. ASSUME NEW x \in Sales, SalesCreate(x) PROVE Out'
    <2>1. x \in Staff /\ Hired(None, Fresh, TRUE).deleted = FALSE
      BY Kinds DEF Hired
    <2> QED BY <1>1, <2>1, OutWritten DEF SalesCreate
  <1>2. ASSUME NEW x \in Sales, Order(x) \/ MonthsPass(x) PROVE Out'
    BY <1>2, OutSame DEF Order, MonthsPass
  <1>3. ASSUME NEW x \in Managers, ManagerRemove(x) PROVE Out'
    <2> DEFINE row == [staff[x] EXCEPT !.active = FALSE, !.deleted = TRUE]
    <2>1. x \in Staff /\ x \notin Tukang /\ staff[x] \in Row /\ ~row.active
      BY <1>3, Kinds, RowThere DEF ManagerRemove, Typed, Row
    <2> HIDE DEF row
    <2>2. Written(x, row) /\ Removed(x) /\ UNCHANGED users
      BY <1>3 DEF ManagerRemove, row
    <2> QED BY <2>1, <2>2, OutWritten DEF Removed
  <1>4. ASSUME NEW x \in Tukang, TukangRemove(x) PROVE Out'
    <2> DEFINE row == [staff[x] EXCEPT !.active = FALSE, !.deleted = TRUE]
    <2>1. x \in Staff /\ There(x) /\ staff[x] \in Row /\ row.user = staff[x].user
      BY <1>4, Kinds, RowThere DEF TukangRemove, Typed, Row
    <2> HIDE DEF row
    <2>2. Written(x, row) /\ Removed(x) /\ EndUser(staff[x].user)
      BY <1>4 DEF TukangRemove, row
    <2>3. ~LiveNext(row.user)
      <3>1. staff[x].user \in 0..Len(users)
        BY <2>1, TypeFromTyped DEF TypeOK
      <3>2. staff[x].user # NoUser => users'[staff[x].user] = "deleted"
        BY <2>2, <3>1, UsersKept, EndUserGives DEF EndUser, NoUser
      <3> QED BY <2>1, <3>2 DEF LiveNext
    <2> QED BY <2>1, <2>2, <2>3, OutWritten DEF Removed
  <1>5. ASSUME NEW x \in Tukang, NEW set \in {"on", "off"}, NEW delete \in BOOLEAN,
               TukangUpdate(x, set, delete)
        PROVE  Out'
    <2> DEFINE row == [staff[x] EXCEPT !.active = (set = "on"), !.deleted = delete]
    <2>1. /\ x \in Staff /\ There(x) /\ staff[x] \in Row
          /\ row.user = staff[x].user /\ row.deleted = delete
      BY <1>5, Kinds, RowThere DEF TukangUpdate, Typed, Row
    <2>2. staff[x].user \in 0..Len(users) /\ Len(users) \in Nat
      BY <2>1, TypeFromTyped, UsersKept DEF TypeOK
    <2> HIDE DEF row
    <2>3. Written(x, row)
      BY <1>5 DEF TukangUpdate, row
    <2>4. \A y \in Staff : staff'[y] = IF y = x THEN row ELSE staff[y]
      BY <2>3 DEF Typed, Shapes, Written
    <2>5. CASE delete
      <3>1. EndUser(staff[x].user) /\ Removed(x)
        BY <1>5, <2>5 DEF TukangUpdate, EndUser, Removed
      <3>2. staff[x].user # NoUser => users'[staff[x].user] = "deleted"
        BY <2>2, <3>1, UsersKept, EndUserGives DEF EndUser, NoUser
      <3> QED BY <2>1, <2>3, <3>1, <3>2, OutWritten DEF Removed, LiveNext
    <2>6. CASE ~delete
      <3>1. revived' = revived \cup {x} /\ users' = [users EXCEPT ![staff[x].user] = "live"]
        BY <1>5, <2>6 DEF TukangUpdate
      <3>2. \A u \in 1..Len(users) : users'[u] = IF u = staff[x].user THEN "live" ELSE users[u]
        BY <3>1, UsersKept, EndUserGives
      <3> SUFFICES ASSUME NEW y \in Staff, There(y)', staff'[y].deleted
                   PROVE  \/ y \in revived'
                          \/ y \notin Tukang /\ ~staff'[y].active
                          \/ y \in Tukang /\ ~LiveNext(staff'[y].user)
        BY DEF Out, Live, LiveNext
      <3>3. CASE y = x
        BY <3>1, <3>3
      <3>4. CASE y # x
        <4>1. There(y) /\ staff'[y] = staff[y] /\ staff[y].deleted
          BY <2>4, <3>4 DEF There
        <4>2. staff[y].user \in 0..Len(users)
          BY <4>1, TypeFromTyped DEF TypeOK
        <4>3. staff[y].user = staff[x].user => staff[y].user = NoUser
          BY <2>1, <3>4, <4>1, TypeFromTyped DEF TypeOK
        <4>4. LiveNext(staff[y].user) => Live(staff[y].user)
          BY <2>2, <3>2, <4>2, <4>3 DEF Live, LiveNext, NoUser
        <4> QED BY <3>1, <4>1, <4>4 DEF Out
      <3> QED BY <3>3, <3>4
    <2> QED BY <2>5, <2>6
  <1>6. ASSUME NEW u, DeleteUser(u) PROVE Out'
    BY <1>6, OutSame DEF DeleteUser
  <1> QED BY <1>1, <1>2, <1>3, <1>4, <1>5, <1>6 DEF Single

LEMMA JobOut ==
  ASSUME Out, Typed, NEW j \in Jobs, JobStep(j) \/ JobFail(j)
  PROVE  Out'
  <1>1. CASE JobWrite(j)
    <2>1. \A x \in job[j].ids : x \in Sales /\ x \notin Tukang
      BY Kinds DEF Typed, Shapes, JobRow
    <2>2. UNCHANGED users /\ \A x \in Staff : x \notin job[j].ids => staff'[x] = staff[x]
      BY <1>1 DEF JobWrite
    <2>3. \A x \in Staff : x \in job[j].ids /\ There(x)' => ~staff'[x].active
      <3> SUFFICES ASSUME NEW x \in Staff, x \in job[j].ids, There(x)' PROVE ~staff'[x].active
        OBVIOUS
      <3>1. staff'[x] = [staff[x] EXCEPT !.active = FALSE, !.deleted = @ \/ j = "six"]
        BY <1>1 DEF JobWrite
      <3>2. staff[x] \in Row
        <4>1. staff[x] = Absent => staff'[x] = Absent
          BY <3>1 DEF Absent
        <4> QED BY <4>1, RecordShapes DEF There, Typed, Shapes
      <3> QED BY <3>1, <3>2 DEF Row
    <2>4. \A x \in Staff : x \notin job[j].ids /\ x \in revived => x \in revived'
      BY <1>1 DEF JobWrite
    <2>5. \A x \in Staff : x \notin job[j].ids /\ There(x)' => Quieter(x)
      BY <2>2 DEF Quieter, There
    <2> QED BY <2>1, <2>2, <2>3, <2>4, <2>5, OutKept
  <1>2. CASE JobUsers(j)
    <2>1. \A u \in 1..Len(users) : users'[u] = "live" => users[u] = "live"
      BY <1>2, Accounts, UsersKept DEF JobUsers
    <2>2. UNCHANGED <<staff, revived>>
      BY <1>2 DEF JobUsers
    <2> QED BY <2>1, <2>2, QuieterSame, OutKept
  <1>3. CASE JobList(j) \/ JobFail(j)
    BY <1>3, OutSame DEF JobList, JobFail
  <1> QED BY <1>1, <1>2, <1>3 DEF JobStep

LEMMA WorkOut ==
  ASSUME Out, Typed, NEW p \in Workers, Starting(p) \/ Continuing(p) \/ Fail(p)
  PROVE  Out'
  <1>1. CASE SalesUpdateWrite(p)
    <2>1. PICK x \in Staff : x = w[p].x
      BY <1>1, Kinds DEF SalesUpdateWrite, Typed, RequestOK
    <2>2. CASE UNCHANGED <<staff, users, revived>>
      BY <2>2, OutSame
    <2>3. CASE ~UNCHANGED <<staff, users, revived>>
      <3>1. PICK u : Written(x, [staff[x] EXCEPT !.active = (w[p].set = "on"), !.user = u])
        BY <1>1, <2>1, <2>3 DEF SalesUpdateWrite
      <3>2. UNCHANGED users \/ MakeUser
        BY <1>1, <2>3 DEF SalesUpdateWrite
      <3>3. revived' = revived \cup {x}
        BY <1>1, <2>1, <2>3 DEF SalesUpdateWrite
      <3> QED BY <3>1, <3>2, <3>3, OutWritten
    <2> QED BY <2>2, <2>3
  <1>2. CASE SalesRemoveWrite(p)
    <2>1. PICK x \in Sales : x = w[p].x /\ x \in Staff /\ x \notin Tukang /\ staff[x] \in Row
      BY <1>2, Kinds, RowThere DEF SalesRemoveWrite, Typed, RequestOK
    <2>2. CASE UNCHANGED <<staff, users, revived>>
      BY <2>2, OutSame
    <2>3. CASE ~UNCHANGED <<staff, users, revived>>
      <3> DEFINE row == [staff[x] EXCEPT !.active = FALSE, !.deleted = TRUE]
      <3>1. Written(x, row) /\ EndUser(w[p].user) /\ Removed(x)
        BY <1>2, <2>1, <2>3 DEF SalesRemoveWrite
      <3>2. ~row.active
        BY <2>1 DEF Row
      <3> HIDE DEF row
      <3> QED BY <2>1, <3>1, <3>2, OutWritten DEF Removed
    <2> QED BY <2>2, <2>3
  <1>3. ASSUME NEW x \in Sales, SalesUserMake(p, x) PROVE Out'
    BY <1>3, OutSame DEF SalesUserMake
  <1>4. ASSUME NEW x \in Sales, SalesUserLink(p, x) PROVE Out'
    <2>1. x \in Staff /\ x \notin Tukang /\ There(x) /\ staff[x] \in Row /\ w[p] \in Request
      BY <1>4, Kinds, RowThere DEF SalesUserLink, Typed, RequestOK, Shapes
    <2> DEFINE row == [staff[x] EXCEPT !.user = w[p].made[x]]
    <2>2. Written(x, row) /\ UNCHANGED <<users, revived>>
      BY <1>4 DEF SalesUserLink
    <2>3. row.deleted = staff[x].deleted /\ row.active = staff[x].active
      BY <2>1 DEF Row
    <2> HIDE DEF row
    <2> QED BY <2>1, <2>2, <2>3, OutWritten DEF Out
  <1>5. CASE ManagerRow(p)
    <2>1. PICK x \in Staff : x = w[p].x
      BY <1>5, Kinds DEF ManagerRow, Typed, RequestOK
    <2>2. Hired(w[p].store, Fresh, TRUE).deleted = FALSE
      BY DEF Hired
    <2> QED BY <1>5, <2>1, <2>2, OutWritten DEF ManagerRow
  <1>6. CASE ManagerUpdateOff(p) \/ \E x \in Managers, st \in Stores : ManagerCreate(p, x, st)
    <2>1. \E st, but : SwitchOff(st, but)
      BY <1>6 DEF ManagerUpdateOff, ManagerCreate
    <2>2. \A x \in Staff : There(x)' => Quieter(x)
      BY <2>1, SwitchOffGives DEF Quieter
    <2>3. UNCHANGED <<users, revived>>
      BY <1>6 DEF ManagerUpdateOff, ManagerCreate
    <2> QED BY <2>2, <2>3, OutKept
  <1>7. CASE ManagerUpdateWrite(p)
    <2>1. PICK x \in Staff : x = w[p].x
      BY <1>7, Kinds DEF ManagerUpdateWrite, Typed, RequestOK
    <2>2. UNCHANGED users /\ revived' = revived \cup {x} /\ \E row : Written(x, row)
      BY <1>7, <2>1 DEF ManagerUpdateWrite
    <2> QED BY <2>2, OutWritten
  <1>8. CASE TukangRow(p)
    <2>1. PICK x \in Staff : x = w[p].x
      BY <1>8, Kinds DEF TukangRow, Typed, RequestOK
    <2>2. Hired(None, w[p].user, TRUE).deleted = FALSE
      BY DEF Hired
    <2> QED BY <1>8, <2>1, <2>2, OutWritten DEF TukangRow
  <1>9. CASE \/ \E x \in Sales, set \in {"on", "off"}, names \in BOOLEAN : SalesUpdateRead(p, x, set, names)
             \/ \E x \in Sales : SalesRemoveRead(p, x)
             \/ SalesUserList(p) \/ Fail(p)
             \/ \E x \in Managers, st \in Stores \cup {None}, set \in Switch : ManagerUpdateRead(p, x, st, set)
             \/ \E x \in Tukang : TukangCreate(p, x)
    BY <1>9, OutSame DEF SalesUpdateRead, SalesRemoveRead, SalesUserList, ManagerUpdateRead,
                         TukangCreate, Fail
  <1> QED BY <1>1, <1>2, <1>3, <1>4, <1>5, <1>6, <1>7, <1>8, <1>9 DEF Starting, Continuing

(* The rows at the start.                                                   *)
LEMMA InitRows ==
  ASSUME Init, NEW x \in Staff, There(x)
  PROVE  staff[x].deleted = FALSE /\ (x \in Managers => staff[x].store \in Stores)
  <1>1. PICK known \in Known : \E at \in [Managers \cap DOMAIN known -> Stores] :
          staff = [y \in Staff |->
                     IF y \notin DOMAIN known THEN Absent
                     ELSE Hired(IF y \in Managers THEN at[y] ELSE None, known[y], TRUE)]
    BY DEF Init
  <1>2. PICK at \in [Managers \cap DOMAIN known -> Stores] :
          staff = [y \in Staff |->
                     IF y \notin DOMAIN known THEN Absent
                     ELSE Hired(IF y \in Managers THEN at[y] ELSE None, known[y], TRUE)]
    BY <1>1
  <1> DEFINE st == IF x \in Managers THEN at[x] ELSE None
  <1>3. x \in DOMAIN known
    BY <1>2, RecordShapes DEF There
  <1>4. staff[x] = Hired(st, known[x], TRUE) /\ (x \in Managers => st \in Stores)
    BY <1>2, <1>3
  <1>5. staff[x].deleted = FALSE /\ staff[x].store = st
    BY <1>4 DEF Hired
  <1> QED BY <1>4, <1>5

(* Whoever was removed stays out unless an update wrote the row since: for   *)
(* any number of people, requests that overlap or fail between their writes, *)
(* and both midnight jobs.                                                  *)
THEOREM SpecRemovedStaysOut == Spec => []RemovedStaysOut
  <1>1. Init => Out
    BY InitRows DEF Out
  <1>2. Typed /\ Out /\ [Next]_vars => Out'
    <2>1. ASSUME Typed, Out, UNCHANGED vars PROVE Out'
      BY <2>1, OutSame DEF vars
    <2> QED BY <2>1, SingleOut, WorkOut, JobOut DEF Next
  <1>3. Typed /\ Out => RemovedStaysOut
    BY Kinds DEF Out, RemovedStaysOut, Admits, Staff
  <1> QED BY <1>1, <1>2, <1>3, SpecTyped, PTL DEF Spec

-----------------------------------------------------------------------------
(* Active managers.                                                         *)

(* No other manager than x is active in the store.                          *)
Alone(x, st) ==
  \A y \in Managers : y # x /\ There(y) => ~(staff[y].store = st /\ staff[y].active)

(* What a request about managers relies on while it is the only one.        *)
RequestAlone(p) ==
  /\ w[p].at = "manager.row" => Alone(w[p].x, w[p].store)
  /\ w[p].at \in {"manager.off", "manager.write"} => staff[w[p].x].store = w[p].read.store
  /\ w[p].at = "manager.off" => w[p].set = "on"
  /\ w[p].at = "manager.write" /\ w[p].set = "on" =>
       Alone(w[p].x, IF w[p].store # None THEN w[p].store ELSE w[p].read.store)
  /\ w[p].at = "manager.write" /\ w[p].set = "unset" /\ w[p].store = None /\ w[p].read.active =>
       Alone(w[p].x, w[p].read.store)

(* Every manager has a store, and as long as no two requests about managers  *)
(* overlapped and nobody was moved, there is one such request at most.      *)
One ==
  /\ \A x \in Managers : There(x) => staff[x].store \in Stores
  /\ \/ raced \/ moved # {}
     \/ /\ \A p, q \in Workers : w[p].at \in AboutManagers /\ w[q].at \in AboutManagers => p = q
        /\ \A st \in Stores : OneActive(st)
        /\ \A p \in Workers : RequestAlone(p)

(* The managers stay, and nobody is switched on.                            *)
ManagersKeep ==
  \A x \in Managers :
    /\ There(x)' <=> There(x)
    /\ There(x) => staff'[x].store = staff[x].store /\ (staff'[x].active => staff[x].active)

LEMMA AloneKept ==
  ASSUME ManagersKeep
  PROVE  /\ \A x, st : Alone(x, st) => Alone(x, st)'
         /\ \A st : OneActive(st) => OneActive(st)'
  BY DEF ManagersKeep, Alone, OneActive

(* Steps of others, which begin no request about managers.                  *)
LEMMA OneKept ==
  ASSUME One, Typed, ManagersKeep, raced => raced', moved \subseteq moved',
         \A p \in Workers : w'[p] = w[p] \/ w'[p].at \notin AboutManagers
  PROVE  One'
  <1>1. \A x \in Managers : There(x)' => staff'[x].store \in Stores
    BY DEF One, ManagersKeep
  <1>2. CASE raced \/ moved # {}
    BY <1>1, <1>2 DEF One
  <1>3. CASE ~(raced \/ moved # {})
    <2>1. \A p, q \in Workers : w'[p].at \in AboutManagers /\ w'[q].at \in AboutManagers => p = q
      BY <1>3 DEF One
    <2>2. \A st \in Stores : OneActive(st)'
      BY <1>3, AloneKept DEF One
    <2>3. ASSUME NEW p \in Workers PROVE RequestAlone(p)'
      <3>1. CASE w'[p].at \notin AboutManagers
        BY <3>1 DEF RequestAlone, AboutManagers
      <3>2. CASE w'[p] = w[p]
        <4>1. w[p].at \in {"manager.off", "manager.write"} =>
                w[p].x \in Managers /\ staff'[w[p].x].store = staff[w[p].x].store
          BY DEF Typed, RequestOK, ManagersKeep
        <4>2. RequestAlone(p)
          BY <1>3 DEF One
        <4> QED BY <3>2, <4>1, <4>2, AloneKept DEF RequestAlone
      <3> QED BY <3>1, <3>2
    <2> QED BY <1>1, <2>1, <2>2, <2>3 DEF One
  <1> QED BY <1>2, <1>3

(* Managers are written by the requests about them and by their removal.    *)
LEMMA OthersKeep ==
  ASSUME Typed, NEW x \in Sales \cup Tukang, NEW row, Written(x, row)
  PROVE  ManagersKeep
  <1>1. \A y \in Managers : staff'[y] = staff[y]
    BY Kinds DEF Typed, Shapes, Written
  <1> QED BY <1>1 DEF ManagersKeep, There

LEMMA StaffSameKeep ==
  ASSUME UNCHANGED staff
  PROVE  ManagersKeep
  BY DEF ManagersKeep, There

LEMMA SingleOne ==
  ASSUME One, Typed, Single
  PROVE  One'
  <1>1. UNCHANGED <<w, raced, moved>>
    BY DEF Single, SalesCreate, Order, MonthsPass, ManagerRemove, TukangRemove, TukangUpdate,
           DeleteUser, AtOnce
  <1>2. ManagersKeep
    <2>1. ASSUME NEW x \in Managers, ManagerRemove(x) PROVE ManagersKeep
      <3> DEFINE row == [staff[x] EXCEPT !.active = FALSE, !.deleted = TRUE]
      <3>1. x \in Staff /\ There(x) /\ staff[x] \in Row
        BY <2>1, Kinds, RowThere DEF ManagerRemove, Typed
      <3>2. /\ row.at = "row" /\ row.active = FALSE /\ row.store = staff[x].store
        BY <3>1 DEF Row
      <3> HIDE DEF row
      <3>3. \A y \in Staff : staff'[y] = IF y = x THEN row ELSE staff[y]
        BY <2>1 DEF ManagerRemove, Typed, Shapes, Written, row
      <3> QED BY <3>1, <3>2, <3>3, Kinds DEF ManagersKeep, There
    <2>2. ASSUME NEW x \in Sales \cup Tukang, NEW row, Written(x, row) PROVE ManagersKeep
      BY <2>2, OthersKeep
    <2>3. CASE UNCHANGED staff
      BY <2>3, StaffSameKeep
    <2> QED BY <2>1, <2>2, <2>3 DEF Single, SalesCreate, Order, MonthsPass, TukangRemove,
                                    TukangUpdate, DeleteUser
  <1> QED BY <1>1, <1>2, OneKept

LEMMA JobOne ==
  ASSUME One, Typed, NEW j \in Jobs, JobStep(j) \/ JobFail(j)
  PROVE  One'
  <1>1. UNCHANGED <<w, raced, moved>>
    BY DEF JobStep, JobList, JobWrite, JobUsers, JobFail, AtOnce
  <1>2. ManagersKeep
    <2>1. CASE JobWrite(j)
      <3>1. \A x \in Managers : x \in Staff /\ x \notin job[j].ids
        BY Kinds DEF Typed, Shapes, JobRow
      <3>2. \A x \in Managers : staff'[x] = staff[x]
        BY <2>1, <3>1 DEF JobWrite
      <3> QED BY <3>2 DEF ManagersKeep, There
    <2>2. CASE UNCHANGED staff
      BY <2>2, StaffSameKeep
    <2> QED BY <2>1, <2>2 DEF JobStep, JobList, JobUsers, JobFail
  <1> QED BY <1>1, <1>2, OneKept

(* Nobody begins a request about managers.                                  *)
QuietRequest ==
  /\ raced => raced'
  /\ \A q \in Workers : w'[q] = w[q] \/ w'[q].at \notin AboutManagers

(* Requests that are not about managers.                                    *)
LEMMA OtherWorkOne ==
  ASSUME One, Typed, NEW p \in Workers,
         \/ \E x \in Sales, set \in {"on", "off"}, names \in BOOLEAN : SalesUpdateRead(p, x, set, names)
         \/ SalesUserList(p)
         \/ \E x \in Sales : SalesRemoveRead(p, x)
         \/ \E x \in Tukang : TukangCreate(p, x)
         \/ SalesUpdateWrite(p) \/ SalesRemoveWrite(p) \/ TukangRow(p) \/ Fail(p)
         \/ \E x \in Sales : SalesUserMake(p, x) \/ SalesUserLink(p, x)
  PROVE  One'
  <1>1. UNCHANGED moved
    BY DEF SalesUpdateRead, SalesUserList, SalesRemoveRead, TukangCreate, SalesUpdateWrite,
           SalesRemoveWrite, TukangRow, Fail, SalesUserMake, SalesUserLink
  <1>2. ManagersKeep
    <2>1. CASE UNCHANGED staff
      BY <2>1, StaffSameKeep
    <2>2. ASSUME NEW x \in Sales \cup Tukang, NEW row, Written(x, row) PROVE ManagersKeep
      BY <2>2, OthersKeep
    <2>3. CASE SalesUpdateWrite(p) \/ SalesRemoveWrite(p)
      <3>1. w[p].x \in Sales
        BY <2>3 DEF SalesUpdateWrite, SalesRemoveWrite, Typed, RequestOK
      <3>2. PICK x \in Sales : x = w[p].x
        BY <3>1
      <3>3. UNCHANGED staff \/ \E row : Written(x, row)
        BY <2>3, <3>2 DEF SalesUpdateWrite, SalesRemoveWrite
      <3> QED BY <2>1, <2>2, <3>3
    <2>4. CASE TukangRow(p)
      <3>1. w[p].x \in Tukang
        BY <2>4 DEF TukangRow, Typed, RequestOK
      <3> QED BY <2>2, <2>4, <3>1 DEF TukangRow
    <2> QED BY <2>1, <2>2, <2>3, <2>4
            DEF SalesUpdateRead, SalesUserList, SalesRemoveRead, TukangCreate, Fail,
                SalesUserMake, SalesUserLink
  <1>3. QuietRequest
    <2>1. ASSUME NEW req, req.at \notin AboutManagers,
                 (Begin(p, req) \/ Continue(p, req))
          PROVE  QuietRequest
      BY <2>1 DEF QuietRequest, Begin, Continue, Typed, Shapes
    <2>2. Idle.at \notin AboutManagers
      BY RecordShapes DEF AboutManagers
    <2>3. CASE Fail(p)
      BY <2>2, <2>3 DEF QuietRequest, Fail, Typed, Shapes
    <2>4. ASSUME NEW x, NEW set, NEW names, SalesUpdateRead(p, x, set, names) PROVE QuietRequest
      <3>1. [Idle EXCEPT !.at = "sales.update", !.x = x, !.set = set, !.names = names,
                         !.user = staff[x].user].at \notin AboutManagers
        BY DEF Idle, AboutManagers
      <3> QED BY <2>1, <2>4, <3>1 DEF SalesUpdateRead
    <2>5. ASSUME NEW x, SalesRemoveRead(p, x) PROVE QuietRequest
      <3>1. [Idle EXCEPT !.at = "sales.remove", !.x = x,
                         !.user = staff[x].user].at \notin AboutManagers
        BY DEF Idle, AboutManagers
      <3> QED BY <2>1, <2>5, <3>1 DEF SalesRemoveRead
    <2>6. CASE SalesUserList(p)
      <3> DEFINE ids == {x \in Sales : There(x) /\ staff[x].user = NoUser /\ ~staff[x].deleted}
      <3>1. [Idle EXCEPT !.at = "salesUser", !.left = ids].at \notin AboutManagers
        BY DEF Idle, AboutManagers
      <3> QED BY <2>1, <2>6, <3>1 DEF SalesUserList
    <2>7. ASSUME NEW x, TukangCreate(p, x) PROVE QuietRequest
      <3>1. [Idle EXCEPT !.at = "tukang.row", !.x = x, !.user = Fresh].at \notin AboutManagers
        BY DEF Idle, AboutManagers
      <3> QED BY <2>1, <2>7, <3>1 DEF TukangCreate
    <2>8. CASE SalesUpdateWrite(p) \/ SalesRemoveWrite(p) \/ TukangRow(p)
      BY <2>1, <2>2, <2>8 DEF SalesUpdateWrite, SalesRemoveWrite, TukangRow, Finish
    <2>9. ASSUME NEW x \in Sales, SalesUserMake(p, x) PROVE QuietRequest
      <3> DEFINE req == [w[p] EXCEPT !.left = @ \ {x}, !.made = [@ EXCEPT ![x] = Fresh]]
      <3>1. w[p] \in Request /\ w[p].at = "salesUser"
        BY <2>9 DEF SalesUserMake, Typed, Shapes
      <3>2. req.at \notin AboutManagers
        BY <3>1 DEF Request, AboutManagers
      <3> QED BY <2>1, <2>9, <3>2 DEF SalesUserMake
    <2>10. ASSUME NEW x \in Sales, SalesUserLink(p, x) PROVE QuietRequest
      <3> DEFINE req == [w[p] EXCEPT !.made = [@ EXCEPT ![x] = NoUser]]
      <3>1. w[p] \in Request /\ w[p].at = "salesUser"
        BY <2>10 DEF SalesUserLink, Typed, Shapes
      <3>2. req.at \notin AboutManagers
        BY <3>1 DEF Request, AboutManagers
      <3>3. Continue(p, req) \/ Continue(p, Idle)
        BY <2>10 DEF SalesUserLink, Finish
      <3> HIDE DEF req
      <3> QED BY <2>1, <2>2, <3>2, <3>3
    <2> QED BY <2>3, <2>4, <2>5, <2>6, <2>7, <2>8, <2>9, <2>10
  <1> QED BY <1>1, <1>2, <1>3, OneKept DEF QuietRequest

(* A request about managers that begins when there is no other.             *)
LEMMA BeginAlone ==
  ASSUME Typed, One, NEW p \in Workers, NEW req \in Request, Begin(p, req),
         req.at \in AboutManagers, UNCHANGED moved, ManagersKeep,
         ~raced /\ moved = {} => RequestAlone(p)'
  PROVE  One'
  <1>1. \A q \in Workers : w'[q] = IF q = p THEN req ELSE w[q]
    BY BeginGives
  <1>2. \A x \in Managers : There(x)' => staff'[x].store \in Stores
    BY DEF One, ManagersKeep
  <1>3. raced' \/ (~raced /\ \A q \in Workers : w[q].at \notin AboutManagers)
    BY DEF Begin, Busy
  <1>4. CASE ~raced' /\ moved = {}
    <2>1. ~raced /\ \A q \in Workers : q # p => w'[q].at \notin AboutManagers
      BY <1>1, <1>3, <1>4
    <2>2. \A q, r \in Workers : w'[q].at \in AboutManagers /\ w'[r].at \in AboutManagers => q = r
      BY <2>1
    <2>3. \A st \in Stores : OneActive(st)'
      BY <1>4, <2>1, AloneKept DEF One
    <2>4. \A q \in Workers : q # p => RequestAlone(q)'
      BY <2>1 DEF RequestAlone, AboutManagers
    <2> QED BY <1>2, <1>4, <2>1, <2>2, <2>3, <2>4 DEF One
  <1> QED BY <1>2, <1>4 DEF One

LEMMA ManagerCreateOne ==
  ASSUME Typed, One, NEW p \in Workers, NEW x \in Managers, NEW st \in Stores, ManagerCreate(p, x, st)
  PROVE  One'
  <1> DEFINE req == [Idle EXCEPT !.at = "manager.row", !.x = x, !.store = st]
  <1>1. /\ req \in Request /\ req.at = "manager.row" /\ req.x = x /\ req.store = st
    BY Kinds, RecordShapes DEF Request, Idle
  <1> HIDE DEF req
  <1>2. Begin(p, req) /\ UNCHANGED moved /\ SwitchOff(st, None)
    BY DEF ManagerCreate, req
  <1>3. w'[p] = req
    BY <1>1, <1>2, BeginGives
  <1>4. \A y \in Staff :
          /\ There(y)' <=> There(y)
          /\ There(y) => /\ staff'[y].store = staff[y].store
                         /\ staff'[y].active =
                              (/\ staff[y].active
                               /\ ~(y \in Managers \ {None} /\ staff[y].store = st))
    BY <1>2, SwitchOffGives
  <1>5. ManagersKeep
    BY <1>4, Kinds DEF ManagersKeep
  <1>6. Alone(x, st)'
    BY <1>4, Kinds DEF Alone
  <1>7. RequestAlone(p)'
    BY <1>1, <1>3, <1>6 DEF RequestAlone
  <1> QED BY <1>1, <1>2, <1>5, <1>7, BeginAlone DEF AboutManagers

LEMMA ManagerReadOne ==
  ASSUME Typed, One, NEW p \in Workers, NEW x \in Managers, NEW st \in Stores \cup {None},
         NEW set \in Switch, ManagerUpdateRead(p, x, st, set)
  PROVE  One'
  <1>1. x \in Staff /\ There(x) /\ staff[x] \in Row /\ staff[x].store \in Stores
    BY Kinds, RowThere DEF ManagerUpdateRead, Typed, One
  <1> DEFINE req == [Idle EXCEPT !.at = IF set = "on" THEN "manager.off" ELSE "manager.write",
                           !.x = x, !.store = st, !.set = set, !.read = staff[x]]
  <1>2. /\ req \in Request /\ req.at = (IF set = "on" THEN "manager.off" ELSE "manager.write")
        /\ req.x = x /\ req.store = st /\ req.set = set /\ req.read = staff[x]
    BY <1>1, Kinds, RecordShapes DEF Request, Idle
  <1>3. Begin(p, req) /\ UNCHANGED <<moved, staff>>
    BY DEF ManagerUpdateRead
  <1> HIDE DEF req
  <1>4. w'[p] = req
    BY <1>2, <1>3, BeginGives
  <1>5. ManagersKeep
    BY <1>3, StaffSameKeep
  <1>6. ASSUME ~raced, moved = {} PROVE RequestAlone(p)'
    <2>1. OneActive(staff[x].store)
      BY <1>1, <1>6 DEF One
    <2>2. staff[x].active => Alone(x, staff[x].store)
      BY <1>1, <2>1 DEF OneActive, Alone
    <2>3. \A s : Alone(x, s) => Alone(x, s)'
      BY <1>5, AloneKept
    <2> QED BY <1>2, <1>3, <1>4, <2>2, <2>3 DEF RequestAlone
  <1>7. req.at \in AboutManagers
    BY <1>2 DEF AboutManagers
  <1> QED BY <1>2, <1>3, <1>5, <1>6, <1>7, BeginAlone

(* A request about managers that goes on or ends.                           *)
LEMMA ContinueAlone ==
  ASSUME Typed, One, NEW p \in Workers, NEW req, Continue(p, req), w[p].at \in AboutManagers,
         moved \subseteq moved',
         \A x \in Managers : There(x)' => staff'[x].store \in Stores,
         ~raced /\ moved' = {} /\ RequestAlone(p) /\ (\A st \in Stores : OneActive(st)) =>
           RequestAlone(p)' /\ \A st \in Stores : OneActive(st)'
  PROVE  One'
  <1>1. UNCHANGED raced /\ \A q \in Workers : w'[q] = IF q = p THEN req ELSE w[q]
    BY ContinueGives DEF Continue
  <1>2. CASE raced \/ moved' # {}
    BY <1>1, <1>2 DEF One
  <1>3. CASE ~raced /\ moved' = {}
    <2>1. moved = {}
      BY <1>3
    <2>2. \A q \in Workers : q # p => w'[q].at \notin AboutManagers
      BY <1>1, <1>3, <2>1 DEF One
    <2>3. RequestAlone(p)' /\ \A st \in Stores : OneActive(st)'
      BY <1>3, <2>1 DEF One
    <2>4. \A q \in Workers : q # p => RequestAlone(q)'
      BY <2>2 DEF RequestAlone, AboutManagers
    <2>5. \A q, r \in Workers : w'[q].at \in AboutManagers /\ w'[r].at \in AboutManagers => q = r
      BY <2>2
    <2> QED BY <2>3, <2>4, <2>5 DEF One
  <1> QED BY <1>2, <1>3

LEMMA ManagerOffOne ==
  ASSUME Typed, One, NEW p \in Workers, ManagerUpdateOff(p)
  PROVE  One'
  <1>1. w[p] \in Request /\ w[p].at = "manager.off"
    BY DEF Typed, Shapes, ManagerUpdateOff
  <1>2. PICK x \in Managers : x = w[p].x /\ There(x)
    BY <1>1 DEF Typed, RequestOK
  <1>3. PICK st : st = IF w[p].store # None THEN w[p].store ELSE w[p].read.store
    OBVIOUS
  <1> DEFINE req == [w[p] EXCEPT !.at = "manager.write"]
  <1>4. /\ req.at = "manager.write" /\ req.x = w[p].x /\ req.store = w[p].store
        /\ req.set = w[p].set /\ req.read = w[p].read
    BY <1>1 DEF Request
  <1>5. Continue(p, req) /\ UNCHANGED moved /\ SwitchOff(st, x)
    BY <1>2, <1>3 DEF ManagerUpdateOff, Goto
  <1> HIDE DEF req
  <1>6. w'[p] = req
    BY <1>5, ContinueGives
  <1>7. \A y \in Staff :
          /\ There(y)' <=> There(y)
          /\ There(y) => /\ staff'[y].store = staff[y].store
                         /\ staff'[y].active =
                              (/\ staff[y].active
                               /\ ~(y \in Managers \ {x} /\ staff[y].store = st))
    BY <1>5, SwitchOffGives
  <1>8. ManagersKeep
    BY <1>7, Kinds DEF ManagersKeep
  <1>9. Alone(x, st)'
    BY <1>7, Kinds DEF Alone
  <1>10. \A y \in Managers : There(y)' => staff'[y].store \in Stores
    BY <1>8 DEF One, ManagersKeep
  <1>11. RequestAlone(p) => RequestAlone(p)'
    <2>1. staff'[x].store = staff[x].store
      BY <1>2, <1>8 DEF ManagersKeep
    <2> QED BY <1>1, <1>2, <1>3, <1>4, <1>6, <1>9, <2>1 DEF RequestAlone
  <1>12. w[p].at \in AboutManagers
    BY <1>1 DEF AboutManagers
  <1> QED BY <1>5, <1>8, <1>10, <1>11, <1>12, AloneKept, ContinueAlone

(* The row x is written, active only where nobody else is.                  *)
LEMMA WrittenAlone ==
  ASSUME Typed, NEW x \in Managers, NEW row \in Row, Written(x, row),
         \A st \in Stores : OneActive(st),
         row.active => Alone(x, row.store)
  PROVE  \A st \in Stores : OneActive(st)'
  <1>1. /\ \A y \in Staff : staff'[y] = IF y = x THEN row ELSE staff[y]
    BY Kinds, WrittenGives
  <1>2. \A y \in Managers : y # x /\ There(y)' => There(y) /\ staff'[y] = staff[y]
    BY <1>1, Kinds DEF There
  <1>3. staff'[x] = row
    BY <1>1, Kinds
  <1> QED BY <1>2, <1>3 DEF OneActive, Alone

LEMMA ManagerRowOne ==
  ASSUME Typed, One, NEW p \in Workers, ManagerRow(p)
  PROVE  One'
  <1>1. PICK x \in Managers : x = w[p].x /\ w[p].store \in Stores /\ x \in Staff
    BY Kinds DEF Typed, RequestOK, ManagerRow
  <1> DEFINE row == Hired(w[p].store, Fresh, TRUE)
  <1>2. row \in Row /\ row.store = w[p].store
    <2>1. Fresh \in Nat
      BY MakeUserGives DEF Typed, ManagerRow
    <2> QED BY <1>1, <2>1 DEF Hired, Row
  <1>3. Written(x, row) /\ Continue(p, Idle) /\ UNCHANGED moved /\ w[p].at = "manager.row"
    BY <1>1 DEF ManagerRow, Finish
  <1> HIDE DEF row
  <1>4. w'[p] = Idle
    BY <1>3, ContinueGives
  <1>5. \A y \in Managers : There(y)' => staff'[y].store \in Stores
    <2>1. \A y \in Staff : staff'[y] = IF y = x THEN row ELSE staff[y]
      BY <1>1, <1>2, <1>3, WrittenGives
    <2> QED BY <1>1, <1>2, <2>1, Kinds DEF One, There
  <1>6. RequestAlone(p)'
    BY <1>4, RecordShapes DEF RequestAlone
  <1>7. RequestAlone(p) => Alone(x, row.store)
    BY <1>1, <1>2, <1>3 DEF RequestAlone
  <1>8. w[p].at \in AboutManagers
    BY <1>3 DEF AboutManagers
  <1> QED BY <1>2, <1>3, <1>5, <1>6, <1>7, <1>8, WrittenAlone, ContinueAlone

LEMMA ManagerWriteOne ==
  ASSUME Typed, One, NEW p \in Workers, ManagerUpdateWrite(p)
  PROVE  One'
  <1>1. PICK x \in Managers :
          /\ x = w[p].x /\ x \in Staff /\ There(x) /\ staff[x] \in Row
          /\ staff[x].store \in Stores /\ w[p].at = "manager.write"
          /\ w[p].read \in Row /\ w[p].store \in Stores \cup {None} /\ w[p].set \in Switch
    BY Kinds, RowThere DEF Typed, Shapes, ManagerUpdateWrite, RequestOK, Request, One
  <1>2. PICK a \in BOOLEAN : a = IF w[p].set = "unset" THEN w[p].read.active ELSE w[p].set = "on"
    BY <1>1, RecordShapes
  <1>3. PICK st \in Stores : st = IF w[p].store # None THEN w[p].store ELSE staff[x].store
    BY <1>1
  <1> DEFINE row == [staff[x] EXCEPT !.active = a, !.store = st]
  <1>4. row \in Row /\ row.active = a /\ row.store = st
    BY <1>1 DEF Row
  <1>5. Written(x, row) /\ Continue(p, Idle)
    <2>1. Written(x, [staff[x] EXCEPT !.active = a,
                                      !.store = IF w[p].store # None THEN w[p].store ELSE @])
      BY <1>1, <1>2 DEF ManagerUpdateWrite
    <2> QED BY <1>3, <2>1 DEF ManagerUpdateWrite, Finish
  <1>6. moved' = IF w[p].store # None /\ a /\ w[p].set = "unset" THEN moved \cup {x} ELSE moved
    BY <1>1, <1>2 DEF ManagerUpdateWrite
  <1> HIDE DEF row
  <1>7. w'[p] = Idle
    BY <1>5, ContinueGives
  <1>8. \A y \in Managers : There(y)' => staff'[y].store \in Stores
    <2>1. \A y \in Staff : staff'[y] = IF y = x THEN row ELSE staff[y]
      BY <1>1, <1>4, <1>5, WrittenGives
    <2> QED BY <1>1, <1>3, <1>4, <2>1, Kinds DEF One, There
  <1>9. RequestAlone(p)'
    BY <1>7, RecordShapes DEF RequestAlone
  <1>10. ASSUME RequestAlone(p), moved' = {}, row.active PROVE Alone(x, row.store)
    <2>1. staff[x].store = w[p].read.store
      BY <1>1, <1>10 DEF RequestAlone
    <2>2. CASE w[p].set = "on"
      BY <1>1, <1>3, <1>4, <1>10, <2>1, <2>2 DEF RequestAlone
    <2>3. CASE w[p].set = "unset"
      <3>1. w[p].store = None /\ w[p].read.active
        BY <1>2, <1>4, <1>6, <1>10, <2>3
      <3> QED BY <1>1, <1>3, <1>4, <1>10, <2>1, <2>3, <3>1 DEF RequestAlone
    <2>4. w[p].set # "off"
      BY <1>2, <1>4, <1>10
    <2> QED BY <1>1, <2>2, <2>3, <2>4 DEF Switch
  <1>11. w[p].at \in AboutManagers
    BY <1>1 DEF AboutManagers
  <1>12. moved \subseteq moved'
    BY <1>6
  <1> QED BY <1>4, <1>5, <1>8, <1>9, <1>10, <1>11, <1>12, WrittenAlone, ContinueAlone

(* A store has one active manager at most, unless two requests about         *)
(* managers overlapped or an active one was moved there unasked: switching   *)
(* off the others and writing the row are two steps, between which any other *)
(* request may come and the request may fail.                               *)
THEOREM SpecOneActiveManager == Spec => []OneActiveManager
  <1>1. Init => One
    <2> SUFFICES ASSUME Init PROVE One
      OBVIOUS
    <2>1. \A x \in Managers : There(x) => staff[x].store \in Stores
      BY InitRows, Kinds
    <2>2. \A p \in Workers : w[p].at \notin AboutManagers
      BY RecordShapes DEF Init, AboutManagers
    <2>3. \A p \in Workers : RequestAlone(p)
      BY <2>2 DEF RequestAlone, AboutManagers
    <2>4. \A st \in Stores : OneActive(st)
      BY DEF Init
    <2> QED BY <2>1, <2>2, <2>3, <2>4 DEF One
  <1>2. Typed /\ One /\ [Next]_vars => One'
    <2>1. ASSUME Typed, One, UNCHANGED vars PROVE One'
      <3>1. ManagersKeep /\ UNCHANGED <<w, raced, moved>>
        BY <2>1, StaffSameKeep DEF vars
      <3> QED BY <2>1, <3>1, OneKept
    <2>2. ASSUME Typed, One, NEW p \in Workers, Starting(p) \/ Continuing(p) \/ Fail(p) PROVE One'
      BY <2>2, OtherWorkOne, ManagerCreateOne, ManagerReadOne, ManagerOffOne, ManagerRowOne,
         ManagerWriteOne DEF Starting, Continuing
    <2> QED BY <2>1, <2>2, SingleOne, JobOne DEF Next
  <1>3. One => OneActiveManager
    BY DEF One, OneActiveManager
  <1> QED BY <1>1, <1>2, <1>3, SpecTyped, PTL DEF Spec
=============================================================================
