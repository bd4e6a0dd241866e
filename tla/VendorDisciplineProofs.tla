----------------------- MODULE VendorDisciplineProofs -----------------------
(* Theorems of VendorDiscipline for every set of vendors, types, orders,   *)
(* workers and operations.                                                 *)
EXTENDS VendorDiscipline, TLAPS, SequenceTheorems

(* The tables only grow; a log keeps its owner, a request also its target. *)
Grows ==
  /\ DOMAIN sp \subseteq DOMAIN sp'
  /\ DOMAIN logs \subseteq DOMAIN logs'
  /\ \A i \in DOMAIN logs : logs'[i].v = logs[i].v
  /\ DOMAIN requests \subseteq DOMAIN requests'
  /\ \A r \in DOMAIN requests : /\ requests'[r].v = requests[r].v
                                /\ requests'[r].target = requests[r].target

-----------------------------------------------------------------------------
(* The expressions the actions are built from.                             *)

LEMMA SPLevelRange == \A x : SPLevel(x) \in 0..3
  BY DEF SPLevel

LEMMA LevelWithRange == \A ids, pt, v : LevelWith(ids, pt, v) \in 0..3
  BY SPLevelRange DEF LevelWith

LEMMA NowTyped == TypeOK => now \in Nat /\ Quarter(now) \in Nat
  BY ClockAssumption DEF TypeOK, Quarter

LEMMA NewSPTyped ==
  ASSUME TypeOK, NEW v \in Vendor, NEW level \in Level
  PROVE  NewSP(v, level) \in SPRow
  BY ClockAssumption DEF TypeOK, NewSP, SPRow, ACTIVE

LEMMA HighestRow ==
  ASSUME NEW ids, ids \subseteq DOMAIN sp, NEW i \in Highest(ids)
  PROVE  i \in {0} \cup DOMAIN sp
  BY DEF Highest

LEMMA LetterNumber ==
  ASSUME TypeOK, NEW i \in DOMAIN sp
  PROVE  i \in Nat /\ i # 0 /\ sp[i] \in SPRow
  BY DEF TypeOK

LEMMA LetterUpdates ==
  ASSUME NEW x \in SPRow
  PROVE  /\ x.level \in Level
         /\ \A l \in Level : [x EXCEPT !.level = l] \in SPRow
         /\ \A s \in 1..3 : [x EXCEPT !.status = s] \in SPRow
         /\ \A s \in 1..3, t \in Nat : [x EXCEPT !.end = t, !.status = s] \in SPRow
  BY DEF SPRow

(* A row of a table may be appended, or replaced by another row.           *)
LEMMA AppendRow ==
  ASSUME NEW Row, NEW s \in Seq(Row), NEW x \in Row
  PROVE  /\ Append(s, x) \in Seq(Row)
         /\ DOMAIN s \subseteq DOMAIN Append(s, x)
         /\ DOMAIN Append(s, x) = DOMAIN s \cup {Len(s) + 1}
         /\ Append(s, x)[Len(s) + 1] = x
         /\ \A i \in DOMAIN s : Append(s, x)[i] = s[i]
  OBVIOUS

LEMMA RowNumber ==
  ASSUME NEW Row, NEW s \in Seq(Row), NEW i \in DOMAIN s
  PROVE  i \in Nat /\ i # 0 /\ s[i] \in Row
  OBVIOUS

LEMMA ReplaceRow ==
  ASSUME NEW Row, NEW s \in Seq(Row), NEW i \in DOMAIN s, NEW x \in Row
  PROVE  /\ [s EXCEPT ![i] = x] \in Seq(Row)
         /\ DOMAIN [s EXCEPT ![i] = x] = DOMAIN s
  BY ExceptSeq

-----------------------------------------------------------------------------
(* The shape of a step: the tables grow, one worker moves.                 *)

LEMMA IdleSound == NoWork \in Work /\ Sound(NoWork) /\ Sound(NoWork)'
  BY DEF NoWork, Work, Steps, Sound, VendorSteps, LevelSteps, LetterSteps,
     JobSteps, ReviewSteps, CorrectSteps

LEMMA TouchableGrows ==
  ASSUME Grows, NEW r \in DOMAIN requests
  PROVE  Touchable(requests[r]) \subseteq Touchable(requests[r])'
  BY DEF Grows, Touchable, IsReset

LEMMA SoundGrows ==
  ASSUME Grows, NEW x, Sound(x)
  PROVE  Sound(x)'
  <1>1. ASSUME x.at \in CorrectSteps
        PROVE  x.todo \subseteq Touchable(requests[x.n])'
    <2>1. x.n \in DOMAIN requests /\ x.todo \subseteq Touchable(requests[x.n])
      BY <1>1 DEF Sound, ReviewSteps, CorrectSteps
    <2> QED BY <2>1, TouchableGrows
  <1> QED BY <1>1 DEF Sound, Grows, OwnTarget

LEMMA RequestsKept ==
  ASSUME Grows, RequestsSound, requests' = requests
  PROVE  RequestsSound'
  BY DEF RequestsSound, Grows, OwnTarget

(* One worker goes to x, which is sound in the new state.                  *)
LEMMA WorkerMoves ==
  ASSUME TypeOK, WorkSound, Grows, NEW p \in Workers, NEW x \in Work, Sound(x)',
         w' = [w EXCEPT ![p] = x]
  PROVE  w' \in [Workers -> Work] /\ WorkSound'
  <1>1. w' \in [Workers -> Work] /\ w'[p] = x
        /\ \A q \in Workers \ {p} : w'[q] = w[q]
    BY DEF TypeOK
  <1>2. ASSUME NEW q \in Workers PROVE Sound(w[q])'
    <2>1. CASE q = p
      BY <1>1, <2>1 DEF Sound, OwnTarget
    <2>2. CASE q # p
      <3>1. PICK y : y = w[q]
        OBVIOUS
      <3>2. Sound(y)
        BY <3>1 DEF WorkSound
      <3>3. Sound(y)'
        BY <3>2, SoundGrows
      <3>4. w'[q] = y
        BY <1>1, <2>2, <3>1
      <3> QED BY <3>3, <3>4 DEF Sound
    <2> QED BY <2>1, <2>2
  <1> QED BY <1>1, <1>2 DEF WorkSound

(* A step that only reads: the tables stay.                                *)
LEMMA ReadStep ==
  ASSUME Consistent, NEW p \in Workers, NEW x \in Work, Sound(x),
         w' = [w EXCEPT ![p] = x],
         UNCHANGED <<now, vendor, types, logs, sp, requests, resets>>
  PROVE  Consistent'
  <1>1. Grows
    BY DEF Grows
  <1>2. w' \in [Workers -> Work] /\ WorkSound'
    BY <1>1, SoundGrows, WorkerMoves DEF Consistent
  <1> QED
    BY <1>1, <1>2, RequestsKept DEF Consistent, TypeOK

(* A step that sets a vendor's is_active, then goes on.                    *)
LEMMA ActiveStep ==
  ASSUME Consistent, NEW p \in Workers, NEW x \in Work, Sound(x),
         w' = [w EXCEPT ![p] = x], NEW v, NEW b \in BOOLEAN, SetActive(v, b),
         UNCHANGED <<now, types, logs, sp, requests, resets>>
  PROVE  Consistent'
  <1>1. Grows
    BY DEF Grows
  <1>2. w' \in [Workers -> Work] /\ WorkSound'
    BY <1>1, SoundGrows, WorkerMoves DEF Consistent
  <1>3. vendor' \in [Vendor -> VendorRow]
    BY DEF Consistent, TypeOK, SetActive, VendorRow
  <1> QED
    BY <1>1, <1>2, <1>3, RequestsKept DEF Consistent, TypeOK

(* A step that writes the letters, then goes on.                           *)
LEMMA LetterStep ==
  ASSUME Consistent, NEW p \in Workers, NEW x \in Work, Sound(x),
         w' = [w EXCEPT ![p] = x],
         sp' \in Seq(SPRow), DOMAIN sp \subseteq DOMAIN sp',
         UNCHANGED <<now, vendor, types, logs, requests, resets>>
  PROVE  Consistent'
  <1>1. Grows
    BY DEF Grows
  <1>2. w' \in [Workers -> Work] /\ WorkSound'
    BY <1>1, SoundGrows, WorkerMoves DEF Consistent
  <1> QED
    BY <1>1, <1>2, RequestsKept DEF Consistent, TypeOK

-----------------------------------------------------------------------------
LEMMA InitConsistent == Init => Consistent
  <1> SUFFICES ASSUME Init PROVE Consistent
    OBVIOUS
  <1>1. TypeOK
    BY ClockAssumption, NullAssumption
    DEF Init, TypeOK, VendorRow, TypeRow, NoWork, Work, Steps
  <1>2. WorkSound /\ RequestsSound
    BY DEF Init, WorkSound, RequestsSound, Sound, NoWork, VendorSteps,
       LevelSteps, LetterSteps, JobSteps, ReviewSteps, CorrectSteps
  <1> QED BY <1>1, <1>2 DEF Consistent

-----------------------------------------------------------------------------
(* The actions that only read, or that only set is_active.                 *)

(* Every record a worker may come to hold is typed.                        *)
LEMMA WorkerTyped ==
  ASSUME TypeOK, NEW p \in Workers
  PROVE  w[p] \in Work
  BY DEF TypeOK

(* It stays typed when its step, row number and level are set.             *)
LEMMA WorkUpdates ==
  ASSUME NEW y \in Work, NEW step \in Steps
  PROVE  /\ [y EXCEPT !.at = step] \in Work
         /\ \A l \in 0..3 : [y EXCEPT !.at = step, !.lvl = l] \in Work
         /\ \A i \in Nat, l \in 0..3 :
              [y EXCEPT !.at = step, !.id = i, !.lvl = l] \in Work
  BY DEF Work

LEMMA DetectConsistent ==
  ASSUME Consistent, NEW p \in Workers, Detect(p)
  PROVE  Consistent'
  <1> USE DEF Consistent
  <1>w. w[p] \in Work /\ Sound(w[p])
    BY WorkerTyped DEF WorkSound
  <1>1. ASSUME NEW v \in Vendor, NEW t \in VType, NEW o \in Order,
               DetectCheck(p, v, t, o)
        PROVE  Consistent'
    <2> DEFINE x == [NoWork EXCEPT !.at = "detect.create", !.v = v, !.t = t, !.o = o]
    <2>1. x \in Work
      BY IdleSound DEF Work, Steps
    <2>2. Sound(x)
      BY DEF NoWork, Sound, VendorSteps, LevelSteps, LetterSteps,
         JobSteps, ReviewSteps, CorrectSteps
    <2> HIDE DEF x
    <2> QED BY <1>1, <2>1, <2>2, ReadStep DEF DetectCheck, Begin, x
  <1>2. CASE DetectCreate(p)
    <2> DEFINE x == [w[p] EXCEPT !.at = "detect.total"]
               row == [v |-> w[p].v, t |-> w[p].t, o |-> w[p].o,
                       q |-> Quarter(now), adj |-> None, by |-> "detector"]
    <2>1. row \in LogRow
      BY <1>2, <1>w, NowTyped DEF DetectCreate, Sound, VendorSteps, LogRow
    <2>2. logs' = Append(logs, row) /\ w' = [w EXCEPT ![p] = x]
      BY <1>2 DEF DetectCreate, Goto
    <2>3. x \in Work /\ Sound(x)
      BY <1>2, <1>w DEF DetectCreate, Work, Steps, Sound, VendorSteps,
         LevelSteps, LetterSteps, JobSteps, ReviewSteps, CorrectSteps
    <2> HIDE DEF x, row
    <2>4. logs \in Seq(LogRow)
      BY DEF TypeOK
    <2>5. logs' \in Seq(LogRow) /\ Grows
      BY <1>2, <2>1, <2>2, <2>4, AppendRow DEF DetectCreate, Grows
    <2>6. w' \in [Workers -> Work] /\ WorkSound'
      BY <2>2, <2>3, <2>5, SoundGrows, WorkerMoves
    <2> QED
      BY <1>2, <2>5, <2>6, RequestsKept DEF DetectCreate, TypeOK
  <1>3. CASE DetectTotal(p)
    <2> DEFINE lvl == SPLevel(TotalPoints(w[p].v))
               x == [w[p] EXCEPT !.at = "detect.find", !.lvl = lvl]
    <2>1. CASE lvl = 0
      BY <1>3, <2>1, IdleSound, ReadStep DEF DetectTotal, Done
    <2>2. CASE lvl # 0
      <3>1. lvl \in 1..3
        BY <2>2, SPLevelRange
      <3> HIDE DEF lvl
      <3>2. x \in Work
        <4>1. "detect.find" \in Steps /\ lvl \in 0..3
          BY <3>1 DEF Steps
        <4> QED BY <1>w, <4>1, WorkUpdates
      <3>2a. Sound(x)
        BY <1>3, <1>w, <3>1 DEF DetectTotal, Work, Sound, VendorSteps,
           LevelSteps, LetterSteps, JobSteps, ReviewSteps, CorrectSteps, Level
      <3>3. w' = [w EXCEPT ![p] = x]
        BY <1>3, <2>2 DEF DetectTotal, lvl
      <3> QED BY <1>3, <3>2, <3>2a, <3>3, ReadStep DEF DetectTotal
    <2> QED BY <2>1, <2>2
  <1>4. CASE DetectFind(p)
    <2> DEFINE x == [w[p] EXCEPT !.at = "detect.write"]
    <2>1. x \in Work /\ Sound(x)
      BY <1>4, <1>w DEF DetectFind, Work, Steps, Sound, VendorSteps,
         LevelSteps, LetterSteps, JobSteps, ReviewSteps, CorrectSteps
    <2>2. w' = [w EXCEPT ![p] = NoWork] \/ w' = [w EXCEPT ![p] = x]
      BY <1>4 DEF DetectFind, Done, Goto
    <2> QED BY <1>4, <2>1, <2>2, IdleSound, ReadStep DEF DetectFind
  <1>5. CASE DetectWrite(p)
    <2> DEFINE x == [w[p] EXCEPT !.at = "detect.deactivate"]
    <2>1. x \in Work /\ Sound(x)
      BY <1>5, <1>w DEF DetectWrite, Work, Steps, Sound, VendorSteps,
         LevelSteps, LetterSteps, JobSteps, ReviewSteps, CorrectSteps
    <2>2. w' = [w EXCEPT ![p] = NoWork] \/ w' = [w EXCEPT ![p] = x]
      BY <1>5 DEF DetectWrite, Done, Goto
    <2>3. NewSP(w[p].v, w[p].lvl) \in SPRow
      BY <1>5, <1>w, NewSPTyped DEF DetectWrite, Sound, VendorSteps, LevelSteps
    <2>4. sp' \in Seq(SPRow) /\ DOMAIN sp \subseteq DOMAIN sp'
      BY <1>5, <2>3, AppendRow DEF DetectWrite, TypeOK
    <2> QED BY <1>5, <2>1, <2>2, <2>4, IdleSound, LetterStep DEF DetectWrite
  <1>6. CASE DetectDeactivate(p)
    BY <1>6, IdleSound, ActiveStep DEF DetectDeactivate, Done
  <1> QED
    BY <1>1, <1>2, <1>3, <1>4, <1>5, <1>6 DEF Detect

LEMMA ManualLogConsistent ==
  ASSUME Consistent, NEW p \in Workers, ManualLog(p)
  PROVE  Consistent'
  <1> USE DEF Consistent
  <1>w. w[p] \in Work /\ Sound(w[p])
    BY WorkerTyped DEF WorkSound
  <1>1. ASSUME NEW v \in Vendor, NEW t \in VType, NEW o \in Order \cup {None},
               LogCreate(p, v, t, o)
        PROVE  Consistent'
    <2> DEFINE x == [NoWork EXCEPT !.at = "log.total", !.v = v]
               row == [v |-> v, t |-> t, o |-> o, q |-> Quarter(now),
                       adj |-> None, by |-> "manual"]
    <2>1. row \in LogRow
      BY NowTyped DEF LogRow
    <2>2. logs' = Append(logs, row) /\ w' = [w EXCEPT ![p] = x]
      BY <1>1 DEF LogCreate, Begin
    <2>3. x \in Work
      BY IdleSound DEF Work, Steps
    <2>3a. Sound(x)
      BY DEF NoWork, Sound, VendorSteps, LevelSteps, LetterSteps,
         JobSteps, ReviewSteps, CorrectSteps
    <2> HIDE DEF x, row
    <2>4. logs \in Seq(LogRow)
      BY DEF TypeOK
    <2>5. logs' \in Seq(LogRow) /\ Grows
      BY <1>1, <2>1, <2>2, <2>4, AppendRow DEF LogCreate, Grows
    <2>6. w' \in [Workers -> Work] /\ WorkSound'
      BY <2>2, <2>3, <2>3a, <2>5, SoundGrows, WorkerMoves
    <2> QED
      BY <1>1, <2>5, <2>6, RequestsKept DEF LogCreate, TypeOK
  <1>2. CASE LogTotal(p)
    <2> DEFINE lvl == SPLevel(TotalPoints(w[p].v))
               x == [w[p] EXCEPT !.at = "log.find", !.lvl = lvl]
    <2>1. lvl \in 0..3
      BY SPLevelRange
    <2>2. w' = [w EXCEPT ![p] = x]
      BY <1>2 DEF LogTotal
    <2> HIDE DEF lvl
    <2>3. x \in Work /\ Sound(x)
      BY <1>2, <1>w, <2>1 DEF LogTotal, Work, Steps, Sound, VendorSteps,
         LevelSteps, LetterSteps, JobSteps, ReviewSteps, CorrectSteps, Level
    <2> QED BY <1>2, <2>2, <2>3, ReadStep DEF LogTotal
  <1>3. CASE LogFind(p)
    <2>1. PICK i \in Highest(RunningSPs(w[p].v)) :
            CASE i = 0 /\ w[p].lvl = 0 -> Done(p)
              [] i = 0 /\ w[p].lvl # 0 -> Goto(p, "issue.find")
              [] i # 0 /\ w[p].lvl = 0 ->
                   w' = [w EXCEPT ![p].at = "drop", ![p].id = i,
                                  ![p].lvl = sp[i].level]
              [] OTHER -> w' = [w EXCEPT ![p].at = "rewrite", ![p].id = i]
      BY <1>3 DEF LogFind
    <2>2. i \in {0} \cup DOMAIN sp
      BY HighestRow DEF RunningSPs, SPsOf
    <2>3. CASE i = 0 /\ w[p].lvl = 0
      BY <1>3, <2>1, <2>3, IdleSound, ReadStep DEF LogFind, Done
    <2>4. CASE i = 0 /\ w[p].lvl # 0
      <3> DEFINE x == [w[p] EXCEPT !.at = "issue.find"]
      <3>1. x \in Work /\ Sound(x)
        BY <1>3, <1>w, <2>4 DEF LogFind, Work, Steps, Sound, VendorSteps,
           LevelSteps, LetterSteps, JobSteps, ReviewSteps, CorrectSteps, Level
      <3>2. w' = [w EXCEPT ![p] = x]
        BY <2>1, <2>4 DEF Goto
      <3> QED BY <1>3, <3>1, <3>2, ReadStep DEF LogFind
    <2>5. CASE i # 0 /\ w[p].lvl = 0
      <3> DEFINE x == [w[p] EXCEPT !.at = "drop", !.id = i, !.lvl = sp[i].level]
      <3>1. sp[i].level \in Level /\ i \in Nat
        BY <2>2, <2>5, LetterNumber, LetterUpdates
      <3>2. x \in Work
        <4>1. "drop" \in Steps /\ sp[i].level \in 0..3
          BY <3>1 DEF Steps, Level
        <4> QED BY <1>w, <3>1, <4>1, WorkUpdates
      <3>2a. Sound(x)
        BY <1>3, <1>w, <2>2, <2>5, <3>1 DEF LogFind, Work, Sound,
           VendorSteps, LevelSteps, LetterSteps, JobSteps, ReviewSteps, CorrectSteps, Level
      <3>3. w' = [w EXCEPT ![p] = x]
        BY <2>1, <2>5
      <3> QED BY <1>3, <3>2, <3>2a, <3>3, ReadStep DEF LogFind
    <2>6. CASE i # 0 /\ w[p].lvl # 0
      <3> DEFINE x == [w[p] EXCEPT !.at = "rewrite", !.id = i]
      <3>1. i \in Nat
        BY <2>2, <2>6, LetterNumber
      <3>2. x \in Work
        BY <1>w, <3>1 DEF Work, Steps, Level
      <3>2a. Sound(x)
        BY <1>3, <1>w, <2>2, <2>6, <3>1 DEF LogFind, Work, Sound,
           VendorSteps, LevelSteps, LetterSteps, JobSteps, ReviewSteps, CorrectSteps, Level
      <3>3. w' = [w EXCEPT ![p] = x]
        BY <2>1, <2>6
      <3> QED BY <1>3, <3>2, <3>2a, <3>3, ReadStep DEF LogFind
    <2> QED BY <2>3, <2>4, <2>5, <2>6
  <1>4. CASE IssueFind(p)
    <2> DEFINE x(step) == [w[p] EXCEPT !.at = step]
    <2>1. /\ x("issue.deactivate") \in Work /\ Sound(x("issue.deactivate"))
          /\ x("issue.create") \in Work /\ Sound(x("issue.create"))
      BY <1>4, <1>w DEF IssueFind, Work, Steps, Sound, VendorSteps,
         LevelSteps, LetterSteps, JobSteps, ReviewSteps, CorrectSteps
    <2>2. \/ w' = [w EXCEPT ![p] = NoWork]
          \/ w' = [w EXCEPT ![p] = x("issue.deactivate")]
          \/ w' = [w EXCEPT ![p] = x("issue.create")]
      BY <1>4 DEF IssueFind, Done, Goto
    <2> QED BY <1>4, <2>1, <2>2, IdleSound, ReadStep DEF IssueFind
  <1>5. CASE IssueDeactivate(p)
    <2> DEFINE x == [w[p] EXCEPT !.at = "issue.create"]
    <2>1. x \in Work /\ Sound(x)
      BY <1>5, <1>w DEF IssueDeactivate, Work, Steps, Sound, VendorSteps,
         LevelSteps, LetterSteps, JobSteps, ReviewSteps, CorrectSteps
    <2>2. w' = [w EXCEPT ![p] = x]
      BY <1>5 DEF IssueDeactivate, Goto
    <2> QED BY <1>5, <2>1, <2>2, ActiveStep DEF IssueDeactivate
  <1>6. CASE IssueCreate(p)
    <2>1. NewSP(w[p].v, w[p].lvl) \in SPRow
      BY <1>6, <1>w, NewSPTyped DEF IssueCreate, Sound, VendorSteps, LevelSteps
    <2>2. sp' \in Seq(SPRow) /\ DOMAIN sp \subseteq DOMAIN sp'
      BY <1>6, <2>1, AppendRow DEF IssueCreate, TypeOK
    <2> QED BY <1>6, <2>2, IdleSound, LetterStep DEF IssueCreate, Done
  <1>7. CASE DropSP(p)
    <2> DEFINE x == [w[p] EXCEPT !.at = "drop.reactivate"]
    <2>1. x \in Work /\ Sound(x)
      BY <1>7, <1>w DEF DropSP, Work, Steps, Sound, VendorSteps,
         LevelSteps, LetterSteps, JobSteps, ReviewSteps, CorrectSteps
    <2>2. w' = [w EXCEPT ![p] = NoWork] \/ w' = [w EXCEPT ![p] = x]
      BY <1>7 DEF DropSP, Done, Goto
    <2>3. w[p].id \in DOMAIN sp
      BY <1>7, <1>w DEF DropSP, Sound, LetterSteps
    <2>4. [sp[w[p].id] EXCEPT !.status = COMPLETED] \in SPRow
      <3>1. COMPLETED \in 1..3
        BY DEF COMPLETED
      <3> QED BY <2>3, <3>1, LetterNumber, LetterUpdates
    <2>5. sp' \in Seq(SPRow) /\ DOMAIN sp \subseteq DOMAIN sp'
      BY <1>7, <2>3, <2>4, ReplaceRow DEF DropSP, TypeOK
    <2> QED BY <1>7, <2>1, <2>2, <2>5, IdleSound, LetterStep DEF DropSP
  <1>8. CASE RewriteSP(p)
    <2> DEFINE x == [w[p] EXCEPT !.at = "rewrite.deactivate"]
    <2>1. x \in Work /\ Sound(x)
      BY <1>8, <1>w DEF RewriteSP, Work, Steps, Sound, VendorSteps,
         LevelSteps, LetterSteps, JobSteps, ReviewSteps, CorrectSteps
    <2>2. w' = [w EXCEPT ![p] = NoWork] \/ w' = [w EXCEPT ![p] = x]
      BY <1>8 DEF RewriteSP, Done, Goto
    <2>3. w[p].id \in DOMAIN sp /\ w[p].lvl \in Level
      BY <1>8, <1>w DEF RewriteSP, Sound, LetterSteps, LevelSteps
    <2>4. [sp[w[p].id] EXCEPT !.level = w[p].lvl] \in SPRow
      BY <2>3, LetterNumber, LetterUpdates
    <2>5. sp' \in Seq(SPRow) /\ DOMAIN sp \subseteq DOMAIN sp'
      BY <1>8, <2>3, <2>4, ReplaceRow DEF RewriteSP, TypeOK
    <2> QED BY <1>8, <2>1, <2>2, <2>5, IdleSound, LetterStep DEF RewriteSP
  <1>9. CASE DropReactivate(p)
    BY <1>9, IdleSound, ActiveStep DEF DropReactivate, Done
  <1>10. CASE RewriteDeactivate(p)
    BY <1>10, IdleSound, ActiveStep DEF RewriteDeactivate, Done
  <1> QED
    BY <1>1, <1>2, <1>3, <1>4, <1>5, <1>6, <1>7, <1>8, <1>9, <1>10 DEF ManualLog

LEMMA SPAdminConsistent ==
  ASSUME Consistent, NEW p \in Workers, SPAdmin(p)
  PROVE  Consistent'
  <1> USE DEF Consistent
  <1>w. w[p] \in Work /\ Sound(w[p])
    BY WorkerTyped DEF WorkSound
  <1>1. ASSUME NEW i \in DOMAIN sp, NEW end \in EndDates, ExtendRead(p, i, end)
        PROVE  Consistent'
    <2> DEFINE x == [NoWork EXCEPT !.at = "extend.write", !.id = i, !.n = end]
    <2>1. x \in Work
      BY IdleSound, LetterNumber, ClockAssumption DEF Work, Steps
    <2>2. Sound(x)
      BY DEF NoWork, Sound, VendorSteps, LevelSteps, LetterSteps, JobSteps,
         ReviewSteps, CorrectSteps
    <2> HIDE DEF x
    <2> QED BY <1>1, <2>1, <2>2, ReadStep DEF ExtendRead, Begin, x
  <1>2. CASE ExtendWrite(p)
    <2>1. w[p].id \in DOMAIN sp /\ w[p].n \in Nat
      BY <1>2, <1>w DEF ExtendWrite, Sound, LetterSteps, Work
    <2>2. [sp[w[p].id] EXCEPT !.end = w[p].n, !.status = EXTENDED] \in SPRow
      <3>1. EXTENDED \in 1..3
        BY DEF EXTENDED
      <3> QED BY <2>1, <3>1, LetterNumber, LetterUpdates
    <2>3. sp' \in Seq(SPRow) /\ DOMAIN sp \subseteq DOMAIN sp'
      BY <1>2, <2>1, <2>2, ReplaceRow DEF ExtendWrite, TypeOK
    <2> QED BY <1>2, <2>3, IdleSound, LetterStep DEF ExtendWrite, Done
  <1>3. ASSUME NEW i \in DOMAIN sp, CompleteRead(p, i)
        PROVE  Consistent'
    <2> DEFINE x == [NoWork EXCEPT !.at = "complete.write", !.id = i]
    <2>1. x \in Work
      BY IdleSound, LetterNumber DEF Work, Steps
    <2>2. Sound(x)
      BY DEF NoWork, Sound, VendorSteps, LevelSteps, LetterSteps, JobSteps,
         ReviewSteps, CorrectSteps
    <2> HIDE DEF x
    <2> QED BY <1>3, <2>1, <2>2, ReadStep DEF CompleteRead, Begin, x
  <1>4. CASE CompleteWrite(p)
    <2>1. w[p].id \in DOMAIN sp /\ now \in Nat
      BY <1>4, <1>w, NowTyped DEF CompleteWrite, Sound, LetterSteps
    <2>2. [sp[w[p].id] EXCEPT !.end = now, !.status = COMPLETED] \in SPRow
      <3>1. COMPLETED \in 1..3
        BY DEF COMPLETED
      <3> QED BY <2>1, <3>1, LetterNumber, LetterUpdates
    <2>3. sp' \in Seq(SPRow) /\ DOMAIN sp \subseteq DOMAIN sp'
      BY <1>4, <2>1, <2>2, ReplaceRow DEF CompleteWrite, TypeOK
    <2> QED BY <1>4, <2>3, IdleSound, LetterStep DEF CompleteWrite, Done
  <1>5. ASSUME NEW v \in Vendor, ReactivateRead(p, v)
        PROVE  Consistent'
    <2> DEFINE x == [NoWork EXCEPT !.at = "reactivate.commit", !.v = v]
    <2>1. x \in Work
      BY IdleSound DEF Work, Steps
    <2>2. Sound(x)
      BY DEF NoWork, Sound, VendorSteps, LevelSteps, LetterSteps, JobSteps,
         ReviewSteps, CorrectSteps
    <2> HIDE DEF x
    <2> QED BY <1>5, <2>1, <2>2, ReadStep DEF ReactivateRead, Begin, x
  <1>6. CASE ReactivateCommit(p)
    BY <1>6, IdleSound, ActiveStep DEF ReactivateCommit, Done
  <1> QED
    BY <1>1, <1>2, <1>3, <1>4, <1>5, <1>6 DEF SPAdmin

LEMMA JobConsistent ==
  ASSUME Consistent, NEW p \in Workers, Job(p)
  PROVE  Consistent'
  <1> USE DEF Consistent
  <1>w. w[p] \in Work /\ Sound(w[p])
    BY WorkerTyped DEF WorkSound
  <1>n. DOMAIN sp \subseteq Nat
    BY LetterNumber
  <1>1. ASSUME NEW quarterly \in BOOLEAN, StartJob(p, quarterly)
        PROVE  Consistent'
    <2> DEFINE rows == {i \in DOMAIN sp : sp[i].status = ACTIVE /\ sp[i].end < now}
               x == [NoWork EXCEPT !.at = "job.complete", !.quarterly = quarterly,
                                   !.todo = rows]
    <2>1. w' = [w EXCEPT ![p] = x]
      BY <1>1 DEF StartJob, Begin
    <2>2. rows \subseteq DOMAIN sp
      OBVIOUS
    <2> HIDE DEF rows
    <2>3. x \in Work
      BY <1>n, <2>2, IdleSound DEF Work, Steps
    <2>4. Sound(x)
      BY <2>2 DEF NoWork, Sound, VendorSteps, LevelSteps, LetterSteps,
         JobSteps, ReviewSteps, CorrectSteps
    <2> QED BY <1>1, <2>1, <2>3, <2>4, ReadStep DEF StartJob
  <1>2. CASE JobComplete(p)
    <2>1. PICK i \in w[p].todo :
            /\ sp' = [sp EXCEPT ![i].status = COMPLETED]
            /\ w' = [w EXCEPT ![p].todo = @ \ {i}]
      BY <1>2 DEF JobComplete
    <2> DEFINE x == [w[p] EXCEPT !.todo = @ \ {i}]
    <2>2. i \in DOMAIN sp
      BY <1>2, <1>w DEF JobComplete, Sound, JobSteps
    <2>3. [sp[i] EXCEPT !.status = COMPLETED] \in SPRow
      <3>1. COMPLETED \in 1..3
        BY DEF COMPLETED
      <3> QED BY <2>2, <3>1, LetterNumber, LetterUpdates
    <2>4. sp' \in Seq(SPRow) /\ DOMAIN sp \subseteq DOMAIN sp'
      BY <2>1, <2>2, <2>3, ReplaceRow DEF TypeOK
    <2>5. x \in Work
      BY <1>w DEF Work
    <2>6. Sound(x)
      BY <1>2, <1>w DEF JobComplete, Work, Sound, VendorSteps, LevelSteps,
         LetterSteps, JobSteps, ReviewSteps, CorrectSteps
    <2>7. w' = [w EXCEPT ![p] = x]
      BY <2>1
    <2> QED BY <1>2, <2>4, <2>5, <2>6, <2>7, LetterStep DEF JobComplete
  <1>3. CASE JobListSP3(p)
    <2> DEFINE rows == {i \in DOMAIN sp : /\ sp[i].level = 3
                                          /\ sp[i].status = COMPLETED
                                          /\ sp[i].end < now
                                          /\ ~vendor[sp[i].v].active}
               x == [w[p] EXCEPT !.at = "job.reactivate", !.todo = rows]
    <2>1. w' = [w EXCEPT ![p] = x]
      BY <1>3 DEF JobListSP3
    <2>2. rows \subseteq DOMAIN sp
      OBVIOUS
    <2> HIDE DEF rows
    <2>3. x \in Work
      BY <1>n, <1>w, <2>2 DEF Work, Steps
    <2>4. Sound(x)
      BY <1>w, <2>2 DEF Work, Sound, VendorSteps, LevelSteps, LetterSteps,
         JobSteps, ReviewSteps, CorrectSteps
    <2> QED BY <1>3, <2>1, <2>3, <2>4, ReadStep DEF JobListSP3
  <1>4. CASE JobReactivate(p)
    <2>1. PICK i \in w[p].todo :
            /\ SetActive(sp[i].v, TRUE)
            /\ w' = [w EXCEPT ![p].todo = @ \ {i}]
      BY <1>4 DEF JobReactivate
    <2> DEFINE x == [w[p] EXCEPT !.todo = @ \ {i}]
    <2>2. x \in Work
      BY <1>w DEF Work
    <2>3. Sound(x)
      BY <1>4, <1>w DEF JobReactivate, Work, Sound, VendorSteps, LevelSteps,
         LetterSteps, JobSteps, ReviewSteps, CorrectSteps
    <2>4. w' = [w EXCEPT ![p] = x]
      BY <2>1
    <2> QED BY <1>4, <2>1, <2>2, <2>3, <2>4, ActiveStep DEF JobReactivate
  <1>5. CASE JobEnd(p)
    <2>1. Grows
      BY <1>5 DEF JobEnd, Grows
    <2>2. w' \in [Workers -> Work] /\ WorkSound'
      BY <1>5, <2>1, IdleSound, WorkerMoves DEF JobEnd, Done
    <2>3. resets' \subseteq Nat
      BY <1>5, NowTyped DEF JobEnd, TypeOK
    <2> QED
      BY <1>5, <2>1, <2>2, <2>3, RequestsKept DEF JobEnd, TypeOK
  <1> QED
    BY <1>1, <1>2, <1>3, <1>4, <1>5
    DEF Job, NightlyStart, QuarterlyCron, QuarterlyAtStartup

-----------------------------------------------------------------------------
(* The revision service.                                                   *)

LEMMA RequestNumber ==
  ASSUME TypeOK, NEW r \in DOMAIN requests
  PROVE  r \in Nat /\ requests[r] \in RequestRow
  BY DEF TypeOK

LEMMA LogNumber ==
  ASSUME TypeOK, NEW i \in DOMAIN logs
  PROVE  i \in Nat /\ i # 0 /\ logs[i] \in LogRow
  BY DEF TypeOK

LEMMA RequestUpdates ==
  ASSUME NEW x \in RequestRow
  PROVE  /\ x.v \in Vendor /\ x.target \in Nat /\ x.point \in {0, 1}
         /\ \A s \in {"PENDING", "APPROVED", "REJECTED"} :
              [x EXCEPT !.status = s] \in RequestRow
  BY DEF RequestRow

(* A new status leaves the rest of a request alone.                        *)
LEMMA Reviewed ==
  ASSUME TypeOK, NEW n \in DOMAIN requests,
         NEW s \in {"PENDING", "APPROVED", "REJECTED"},
         requests' = [requests EXCEPT ![n].status = s]
  PROVE  /\ requests' \in Seq(RequestRow)
         /\ DOMAIN requests' = DOMAIN requests
         /\ \A r \in DOMAIN requests :
              /\ requests'[r].v = requests[r].v
              /\ requests'[r].target = requests[r].target
              /\ requests'[r].point = requests[r].point
              /\ requests'[r].status = IF r = n THEN s ELSE requests[r].status
  <1>1. [requests[n] EXCEPT !.status = s] \in RequestRow
    BY RequestNumber, RequestUpdates
  <1>2. requests \in Seq(RequestRow)
    BY DEF TypeOK
  <1>3. requests' \in Seq(RequestRow) /\ DOMAIN requests' = DOMAIN requests
    BY <1>1, <1>2, ReplaceRow
  <1>4. \A r \in DOMAIN requests : requests[r] \in RequestRow
    BY RequestNumber
  <1> QED BY <1>3, <1>4 DEF RequestRow

(* SyncSP leaves letters and vendors typed, and deletes no letter.         *)
LEMMA SyncTyped ==
  ASSUME TypeOK, NEW v \in Vendor, NEW i \in {0} \cup DOMAIN sp,
         NEW lvl \in 0..3, SyncSP(v, i, lvl)
  PROVE  /\ sp' \in Seq(SPRow) /\ DOMAIN sp \subseteq DOMAIN sp'
         /\ vendor' \in [Vendor -> VendorRow]
  <1>1. vendor' \in [Vendor -> VendorRow]
    BY DEF TypeOK, SyncSP, SetActive, VendorRow
  <1>2. sp \in Seq(SPRow)
    BY DEF TypeOK
  <1>3. CASE i = 0 /\ lvl = 0
    BY <1>1, <1>2, <1>3 DEF SyncSP
  <1>4. CASE i = 0 /\ lvl # 0
    <2>1. NewSP(v, lvl) \in SPRow
      BY <1>4, NewSPTyped DEF Level
    <2> QED BY <1>1, <1>2, <1>4, <2>1, AppendRow DEF SyncSP
  <1>5. CASE i # 0 /\ lvl = 0
    <2>1. COMPLETED \in 1..3
      BY DEF COMPLETED
    <2>2. [sp[i] EXCEPT !.status = COMPLETED] \in SPRow
      BY <1>5, <2>1, LetterNumber, LetterUpdates
    <2> QED BY <1>1, <1>2, <1>5, <2>2, ReplaceRow DEF SyncSP
  <1>6. CASE i # 0 /\ lvl # 0
    <2>1. lvl \in Level
      BY <1>6 DEF Level
    <2>2. [sp[i] EXCEPT !.level = lvl] \in SPRow
      BY <1>6, <2>1, LetterNumber, LetterUpdates
    <2> QED BY <1>1, <1>2, <1>6, <2>2, ReplaceRow DEF SyncSP
  <1> QED BY <1>3, <1>4, <1>5, <1>6

(* An approval writes the points it asks for, and nothing else of a log.   *)
LEMMA LogsCorrected ==
  ASSUME TypeOK, NEW ids, NEW point \in {0, 1},
         logs' = [i \in DOMAIN logs |->
                    IF i \in ids THEN [logs[i] EXCEPT !.adj = point] ELSE logs[i]]
  PROVE  /\ logs' \in Seq(LogRow) /\ DOMAIN logs' = DOMAIN logs
         /\ \A i \in DOMAIN logs :
              /\ logs'[i].v = logs[i].v /\ logs'[i].q = logs[i].q
              /\ logs'[i].adj = IF i \in ids THEN point ELSE logs[i].adj
  <1>1. \A i \in DOMAIN logs : logs[i] \in LogRow
    BY LogNumber
  <1>2. \A i \in DOMAIN logs : [logs[i] EXCEPT !.adj = point] \in LogRow
    BY <1>1 DEF LogRow
  <1>3. logs \in Seq(LogRow)
    BY DEF TypeOK
  <1>4. DOMAIN logs = 1..Len(logs) /\ Len(logs) \in Nat
    BY <1>3
  <1>5. logs' \in [1..Len(logs) -> LogRow]
    BY <1>1, <1>2, <1>4
  <1>6. logs' \in Seq(LogRow) /\ DOMAIN logs' = DOMAIN logs
    BY <1>4, <1>5
  <1> QED BY <1>1, <1>6 DEF LogRow

LEMMA RevisionConsistent ==
  ASSUME Consistent, NEW p \in Workers, Revision(p)
  PROVE  Consistent'
  <1> USE DEF Consistent
  <1>w. w[p] \in Work /\ Sound(w[p])
    BY WorkerTyped DEF WorkSound
  <1>1. ASSUME NEW v \in Vendor, NEW target \in {0} \cup DOMAIN logs,
               NEW pt \in {0, 1}, RequestCheck(p, v, target, pt)
        PROVE  Consistent'
    <2> DEFINE n == IF target = 0 THEN 0 ELSE pt
               x == [NoWork EXCEPT !.at = "request.create", !.v = v,
                                   !.id = target, !.n = n]
    <2>1. n \in {0, 1} /\ OwnTarget(v, target, n)
      BY <1>1 DEF RequestCheck, OwnTarget
    <2>2. target \in Nat /\ n \in Nat
      BY <2>1, LogNumber
    <2>3. w' = [w EXCEPT ![p] = x]
      BY <1>1 DEF RequestCheck, Begin
    <2> HIDE DEF n
    <2>4. x \in Work
      BY <2>1, <2>2, IdleSound DEF Work, Steps
    <2>5. Sound(x)
      BY <2>1 DEF NoWork, Sound, VendorSteps, LevelSteps, LetterSteps,
         JobSteps, ReviewSteps, CorrectSteps
    <2> QED BY <1>1, <2>3, <2>4, <2>5, ReadStep DEF RequestCheck
  <1>2. CASE RequestCreate(p)
    <2> DEFINE row == [v |-> w[p].v, target |-> w[p].id, point |-> w[p].n,
                       status |-> "PENDING"]
    <2>1. /\ w[p].v \in Vendor /\ w[p].id \in Nat /\ w[p].n \in {0, 1}
          /\ OwnTarget(w[p].v, w[p].id, w[p].n)
      BY <1>2, <1>w DEF RequestCreate, Sound, VendorSteps, Work
    <2>2. row \in RequestRow
      BY <2>1 DEF RequestRow
    <2>3. requests' = Append(requests, row) /\ requests \in Seq(RequestRow)
      BY <1>2 DEF RequestCreate, TypeOK
    <2>4. OwnTarget(row.v, row.target, row.point)
      BY <2>1
    <2> HIDE DEF row
    <2>5. /\ requests' \in Seq(RequestRow)
          /\ DOMAIN requests' = DOMAIN requests \cup {Len(requests) + 1}
          /\ requests'[Len(requests) + 1] = row
          /\ \A r \in DOMAIN requests : requests'[r] = requests[r]
      BY <2>2, <2>3, AppendRow
    <2>6. Grows /\ logs' = logs
      BY <1>2, <2>5 DEF RequestCreate, Grows
    <2>7. w' \in [Workers -> Work] /\ WorkSound'
      BY <1>2, <2>6, IdleSound, WorkerMoves DEF RequestCreate, Done
    <2>8. RequestsSound'
      BY <2>4, <2>5, <2>6 DEF RequestsSound, OwnTarget
    <2> QED
      BY <1>2, <2>5, <2>7, <2>8 DEF RequestCreate, TypeOK
  <1>3. ASSUME NEW r \in DOMAIN requests, ApproveRead(p, r)
        PROVE  Consistent'
    <2> DEFINE x == [NoWork EXCEPT !.at = "approve.correct", !.v = requests[r].v,
                                   !.n = r]
    <2>1. r \in Nat /\ requests[r].v \in Vendor
      BY RequestNumber, RequestUpdates
    <2>2. x \in Work
      BY <2>1, IdleSound DEF Work, Steps
    <2>3. Sound(x)
      BY <2>1 DEF NoWork, Sound, VendorSteps, LevelSteps, LetterSteps,
         JobSteps, ReviewSteps, CorrectSteps
    <2> HIDE DEF x
    <2> QED BY <1>3, <2>2, <2>3, ReadStep DEF ApproveRead, Begin, x
  <1>3a. CASE ApproveCorrect(p)
    <2> DEFINE ids == Corrected(requests[w[p].n])
               x == [w[p] EXCEPT !.at = "approve.find", !.todo = ids]
    <2>1. w[p].n \in DOMAIN requests /\ w[p].v \in Vendor
      BY <1>3a, <1>w DEF ApproveCorrect, Sound, VendorSteps, ReviewSteps, CorrectSteps
    <2>2. ids \subseteq Touchable(requests[w[p].n])
      BY <2>1 DEF RequestsSound, OwnTarget, Corrected, LogsOf, Touchable, IsReset
    <2>3. ids \subseteq Nat
      BY <2>2 DEF Touchable, TypeOK
    <2>4. w' = [w EXCEPT ![p] = x]
      BY <1>3a DEF ApproveCorrect
    <2> HIDE DEF ids
    <2>5. x \in Work
      BY <1>w, <2>3 DEF Work, Steps
    <2>6. Sound(x)
      BY <1>w, <2>1, <2>2 DEF Work, Sound, VendorSteps, LevelSteps,
         LetterSteps, JobSteps, ReviewSteps, CorrectSteps
    <2> QED BY <1>3a, <2>4, <2>5, <2>6, ReadStep DEF ApproveCorrect
  <1>3b. CASE ApproveFind(p)
    <2> DEFINE lvl == LevelWith(w[p].todo, requests[w[p].n].point, w[p].v)
    <2>1. PICK i \in Highest(SPsOf(w[p].v, {ACTIVE, EXTENDED})) :
            w' = [w EXCEPT ![p].at = "approve.commit", ![p].id = i, ![p].lvl = lvl]
      BY <1>3b DEF ApproveFind
    <2> DEFINE x == [w[p] EXCEPT !.at = "approve.commit", !.id = i, !.lvl = lvl]
    <2>2. lvl \in 0..3
      BY LevelWithRange
    <2>3. w' = [w EXCEPT ![p] = x]
      BY <2>1
    <2>4. i \in {0} \cup DOMAIN sp
      BY HighestRow DEF SPsOf
    <2>5. i \in Nat
      BY <2>4, LetterNumber
    <2>6. /\ w[p].n \in DOMAIN requests /\ w[p].v \in Vendor
          /\ w[p].todo \subseteq Touchable(requests[w[p].n])
      BY <1>3b, <1>w DEF ApproveFind, Sound, VendorSteps, ReviewSteps, CorrectSteps
    <2> HIDE DEF lvl
    <2>7. x \in Work
      <3>1. "approve.commit" \in Steps
        BY DEF Steps
      <3> QED BY <1>w, <2>2, <2>5, <3>1, WorkUpdates
    <2>8. Sound(x)
      BY <1>w, <2>4, <2>6 DEF Work, Sound, VendorSteps, LevelSteps,
         LetterSteps, JobSteps, ReviewSteps, CorrectSteps
    <2> QED BY <1>3b, <2>3, <2>7, <2>8, ReadStep DEF ApproveFind
  <1>4. CASE ApproveCommit(p)
    <2> DEFINE n == w[p].n
               r == requests[n]
    <2>1. /\ n \in DOMAIN requests
          /\ w[p].v \in Vendor /\ w[p].id \in {0} \cup DOMAIN sp /\ w[p].lvl \in 0..3
      BY <1>4, <1>w DEF ApproveCommit, Sound, Work, VendorSteps, ReviewSteps, CorrectSteps
    <2>2. SyncSP(w[p].v, w[p].id, w[p].lvl)
      BY <1>4 DEF ApproveCommit
    <2>3. /\ sp' \in Seq(SPRow) /\ DOMAIN sp \subseteq DOMAIN sp'
          /\ vendor' \in [Vendor -> VendorRow]
      BY <2>1, <2>2, SyncTyped
    <2>4. r.point \in {0, 1}
      BY <2>1, RequestNumber, RequestUpdates
    <2>5. /\ logs' \in Seq(LogRow) /\ DOMAIN logs' = DOMAIN logs
          /\ \A i \in DOMAIN logs : logs'[i].v = logs[i].v
      BY <1>4, <2>4, LogsCorrected DEF ApproveCommit
    <2>6. /\ requests' \in Seq(RequestRow) /\ DOMAIN requests' = DOMAIN requests
          /\ \A k \in DOMAIN requests :
               /\ requests'[k].v = requests[k].v
               /\ requests'[k].target = requests[k].target
               /\ requests'[k].point = requests[k].point
      BY <1>4, <2>1, Reviewed DEF ApproveCommit
    <2>7. Grows
      BY <2>3, <2>5, <2>6 DEF Grows
    <2>8. w' \in [Workers -> Work] /\ WorkSound'
      BY <1>4, <2>7, IdleSound, WorkerMoves DEF ApproveCommit, Done
    <2>9. RequestsSound'
      BY <2>5, <2>6 DEF RequestsSound, OwnTarget
    <2> QED
      BY <1>4, <2>3, <2>5, <2>6, <2>8, <2>9 DEF ApproveCommit, TypeOK
  <1>5. ASSUME NEW r \in DOMAIN requests, RejectRead(p, r)
        PROVE  Consistent'
    <2> DEFINE x == [NoWork EXCEPT !.at = "reject.commit", !.n = r]
    <2>1. x \in Work
      BY IdleSound, RequestNumber DEF Work, Steps
    <2>2. Sound(x)
      BY DEF NoWork, Sound, VendorSteps, LevelSteps, LetterSteps, JobSteps,
         ReviewSteps, CorrectSteps
    <2> HIDE DEF x
    <2> QED BY <1>5, <2>1, <2>2, ReadStep DEF RejectRead, Begin, x
  <1>6. CASE RejectCommit(p)
    <2>1. w[p].n \in DOMAIN requests
      BY <1>6, <1>w DEF RejectCommit, Sound, ReviewSteps, CorrectSteps
    <2>2. /\ requests' \in Seq(RequestRow) /\ DOMAIN requests' = DOMAIN requests
          /\ \A k \in DOMAIN requests :
               /\ requests'[k].v = requests[k].v
               /\ requests'[k].target = requests[k].target
               /\ requests'[k].point = requests[k].point
      BY <1>6, <2>1, Reviewed DEF RejectCommit
    <2>3. Grows
      BY <1>6, <2>2 DEF Grows, RejectCommit
    <2>4. w' \in [Workers -> Work] /\ WorkSound'
      BY <1>6, <2>3, IdleSound, WorkerMoves DEF RejectCommit, Done
    <2>5. RequestsSound'
      BY <1>6, <2>2 DEF RequestsSound, OwnTarget, RejectCommit
    <2> QED
      BY <1>6, <2>2, <2>4, <2>5 DEF RejectCommit, TypeOK
  <1> QED
    BY <1>1, <1>2, <1>3, <1>3a, <1>3b, <1>4, <1>5, <1>6 DEF Revision

-----------------------------------------------------------------------------
LEMMA TypeAdminConsistent ==
  ASSUME Consistent, TypeAdmin
  PROVE  Consistent'
  <1>1. types' \in [VType -> TypeRow]
    <2>1. types \in [VType -> TypeRow]
      BY DEF Consistent, TypeOK
    <2>2. \A t \in VType, pt \in PointValues, status \in {"on", "off"} :
            CreateType(t, pt, status) \/ UpdateType(t, pt, status)
              => types' \in [VType -> TypeRow]
      BY <2>1 DEF CreateType, UpdateType, TypeRow
    <2>3. \A t \in VType : DeleteType(t) => types' \in [VType -> TypeRow]
      BY <2>1 DEF DeleteType, TypeRow
    <2> QED BY <2>2, <2>3 DEF TypeAdmin
  <1>2. Grows
    BY DEF TypeAdmin, Grows
  <1>3. WorkSound'
    BY <1>2, SoundGrows DEF TypeAdmin, Consistent, WorkSound
  <1> QED
    BY <1>1, <1>2, <1>3, RequestsKept DEF TypeAdmin, Consistent, TypeOK

LEMMA RemoveConsistent ==
  ASSUME Consistent, NEW v \in Vendor, RemoveVendor(v)
  PROVE  Consistent'
  <1>1. vendor' \in [Vendor -> VendorRow]
    BY DEF RemoveVendor, Consistent, TypeOK, VendorRow
  <1>2. Grows
    BY DEF RemoveVendor, Grows
  <1>3. WorkSound'
    BY <1>2, SoundGrows DEF RemoveVendor, Consistent, WorkSound
  <1> QED
    BY <1>1, <1>2, <1>3, RequestsKept DEF RemoveVendor, Consistent, TypeOK

LEMMA TickConsistent ==
  ASSUME Consistent, Tick
  PROVE  Consistent'
  <1>1. now' \in Nat
    BY DEF Tick, Consistent, TypeOK
  <1>2. Grows
    BY DEF Tick, Grows
  <1>3. WorkSound'
    BY <1>2, SoundGrows DEF Tick, Consistent, WorkSound
  <1> QED
    BY <1>1, <1>2, <1>3, RequestsKept DEF Tick, Consistent, TypeOK

LEMMA StutterConsistent ==
  ASSUME Consistent, UNCHANGED vars
  PROVE  Consistent'
  <1>1. Grows
    BY DEF vars, Grows
  <1>2. WorkSound'
    BY <1>1, SoundGrows DEF vars, Consistent, WorkSound
  <1> QED
    BY <1>1, <1>2, RequestsKept DEF vars, Consistent, TypeOK

LEMMA NextConsistent ==
  ASSUME Consistent, [Next]_vars
  PROVE  Consistent'
  <1>1. ASSUME NEW p \in Workers, Fail(p)
        PROVE  Consistent'
    BY <1>1, IdleSound, ReadStep DEF Fail, Done
  <1> QED
    BY <1>1, DetectConsistent, ManualLogConsistent, SPAdminConsistent,
       RevisionConsistent, JobConsistent, TypeAdminConsistent, RemoveConsistent,
       TickConsistent, StutterConsistent DEF Next

(* However handlers interleave and wherever they stop, what a handler has  *)
(* in hand still exists when it uses it: letters, requests and logs it     *)
(* names, and a REVISE in flight names a log of its own vendor.            *)
THEOREM SpecConsistent == Spec => []Consistent
  BY InitConsistent, NextConsistent, PTL DEF Spec

(* Every reachable state is well typed: no handler leaves a table, a row or *)
(* another handler's data in a shape the services do not expect.           *)
THEOREM SpecTypeOK == Spec => []TypeOK
  <1>1. Consistent => TypeOK
    BY DEF Consistent
  <1> QED BY <1>1, SpecConsistent, PTL

-----------------------------------------------------------------------------
(* Every correction of points is the outcome of a review.                  *)

LEMMA JustificationKept ==
  ASSUME CorrectionsReviewed, logs' = logs, requests' = requests
  PROVE  CorrectionsReviewed'
  BY DEF CorrectionsReviewed, Justifies, IsReset

LEMMA JustificationNewLog ==
  ASSUME TypeOK, CorrectionsReviewed, requests' = requests,
         NEW row \in LogRow, row.adj = None, logs' = Append(logs, row)
  PROVE  CorrectionsReviewed'
  <1>1. /\ DOMAIN logs' = DOMAIN logs \cup {Len(logs) + 1}
        /\ logs'[Len(logs) + 1] = row
        /\ \A i \in DOMAIN logs : logs'[i] = logs[i]
    BY AppendRow DEF TypeOK
  <1> QED BY <1>1 DEF CorrectionsReviewed, Justifies, IsReset

LEMMA JustificationNewRequest ==
  ASSUME TypeOK, CorrectionsReviewed, logs' = logs,
         DOMAIN requests \subseteq DOMAIN requests',
         \A r \in DOMAIN requests : requests'[r] = requests[r]
  PROVE  CorrectionsReviewed'
  BY DEF CorrectionsReviewed, Justifies, IsReset

LEMMA ReviewJustified ==
  ASSUME Consistent, CorrectionsReviewed, NEW p \in Workers,
         ApproveCommit(p) \/ RejectCommit(p)
  PROVE  CorrectionsReviewed'
  <1> USE DEF Consistent
  <1>w. PICK n \in DOMAIN requests : n = w[p].n
    BY WorkerTyped DEF WorkSound, Sound, ReviewSteps, CorrectSteps, ApproveCommit, RejectCommit
  <1>1. CASE RejectCommit(p)
    <2>1. /\ DOMAIN requests' = DOMAIN requests
          /\ \A k \in DOMAIN requests :
               /\ requests'[k].v = requests[k].v
               /\ requests'[k].target = requests[k].target
               /\ requests'[k].point = requests[k].point
               /\ requests'[k].status = IF k = n THEN "REJECTED"
                                        ELSE requests[k].status
      BY <1>1, <1>w, Reviewed DEF RejectCommit
    <2>2. \A k \in DOMAIN requests, i \in DOMAIN logs :
            Justifies(requests[k], i) => Justifies(requests[k], i)'
      BY <1>1, <2>1 DEF RejectCommit, Justifies, IsReset
    <2> QED BY <1>1, <2>1, <2>2 DEF RejectCommit, CorrectionsReviewed
  <1>2. CASE ApproveCommit(p)
    <2>1. /\ DOMAIN requests' = DOMAIN requests
          /\ \A k \in DOMAIN requests :
               /\ requests'[k].v = requests[k].v
               /\ requests'[k].target = requests[k].target
               /\ requests'[k].point = requests[k].point
               /\ requests'[k].status = IF k = n THEN "APPROVED"
                                        ELSE requests[k].status
      BY <1>2, <1>w, Reviewed DEF ApproveCommit
    <2> DEFINE r == requests[n]
    <2>0. PICK ids : ids = w[p].todo
      OBVIOUS
    <2>0a. ids \subseteq Touchable(r)
      BY <1>2, <1>w, <2>0, WorkerTyped
      DEF WorkSound, Sound, CorrectSteps, ApproveCommit
    <2>2. r.point \in {0, 1}
      BY <1>w, RequestNumber, RequestUpdates
    <2>3. /\ DOMAIN logs' = DOMAIN logs
          /\ \A i \in DOMAIN logs :
               /\ logs'[i].v = logs[i].v
               /\ logs'[i].adj = IF i \in ids THEN r.point ELSE logs[i].adj
      <3>1. logs' = [i \in DOMAIN logs |->
                       IF i \in ids THEN [logs[i] EXCEPT !.adj = r.point]
                       ELSE logs[i]]
        BY <1>2, <1>w, <2>0 DEF ApproveCommit
      <3> HIDE DEF r
      <3>2. \A i \in DOMAIN logs : logs'[i].adj = IF i \in ids THEN r.point
                                                ELSE logs[i].adj
        BY <2>2, <3>1, LogsCorrected
      <3>3. DOMAIN logs' = DOMAIN logs /\ \A i \in DOMAIN logs : logs'[i].v = logs[i].v
        BY <2>2, <3>1, LogsCorrected
      <3> QED BY <3>2, <3>3
    <2>4. ASSUME NEW i \in ids
          PROVE  Justifies(requests[n], i)'
      <3>1. OwnTarget(r.v, r.target, r.point)
        BY <1>w DEF RequestsSound
      <3>2. i \in DOMAIN logs /\ logs[i].v = r.v
        BY <2>0a, <2>4 DEF Touchable
      <3>3. IF IsReset(r) THEN r.point = 0 ELSE r.target = i
        BY <2>0a, <2>4, <3>1 DEF Touchable, IsReset, OwnTarget
      <3> QED BY <1>w, <2>1, <2>3, <2>4, <3>2, <3>3 DEF Justifies, IsReset
    <2>5. ASSUME NEW i \in DOMAIN logs, i \notin ids,
                 NEW k \in DOMAIN requests, Justifies(requests[k], i)
          PROVE  Justifies(requests[k], i)'
      BY <2>1, <2>3, <2>5 DEF Justifies, IsReset
    <2> QED
      BY <1>w, <2>1, <2>3, <2>4, <2>5 DEF CorrectionsReviewed
  <1> QED BY <1>1, <1>2

LEMMA NextReviewed ==
  ASSUME Consistent, CorrectionsReviewed, [Next]_vars
  PROVE  CorrectionsReviewed'
  <1> USE DEF Consistent
  <1>1. ASSUME NEW p \in Workers, DetectCreate(p)
        PROVE  CorrectionsReviewed'
    <2> DEFINE row == [v |-> w[p].v, t |-> w[p].t, o |-> w[p].o,
                       q |-> Quarter(now), adj |-> None, by |-> "detector"]
    <2>1. row \in LogRow
      BY <1>1, WorkerTyped, NowTyped
      DEF DetectCreate, WorkSound, Sound, VendorSteps, LogRow
    <2> QED BY <1>1, <2>1, JustificationNewLog DEF DetectCreate
  <1>2. ASSUME NEW p \in Workers, NEW v \in Vendor, NEW t \in VType,
               NEW o \in Order \cup {None}, LogCreate(p, v, t, o)
        PROVE  CorrectionsReviewed'
    <2> DEFINE row == [v |-> v, t |-> t, o |-> o, q |-> Quarter(now),
                       adj |-> None, by |-> "manual"]
    <2>1. row \in LogRow
      BY NowTyped DEF LogRow
    <2> QED BY <1>2, <2>1, JustificationNewLog DEF LogCreate
  <1>3. ASSUME NEW p \in Workers, RequestCreate(p)
        PROVE  CorrectionsReviewed'
    <2> DEFINE row == [v |-> w[p].v, target |-> w[p].id, point |-> w[p].n,
                       status |-> "PENDING"]
    <2>1. row \in RequestRow
      BY <1>3, WorkerTyped
      DEF RequestCreate, WorkSound, Sound, VendorSteps, Work, RequestRow
    <2>2. /\ DOMAIN requests \subseteq DOMAIN requests'
          /\ \A r \in DOMAIN requests : requests'[r] = requests[r]
      BY <1>3, <2>1, AppendRow DEF RequestCreate, TypeOK
    <2> QED BY <1>3, <2>2, JustificationNewRequest DEF RequestCreate
  <1>4. ASSUME NEW p \in Workers, ApproveCommit(p) \/ RejectCommit(p)
        PROVE  CorrectionsReviewed'
    BY <1>4, ReviewJustified
  <1>5. CASE logs' = logs /\ requests' = requests
    BY <1>5, JustificationKept
  <1>6. ASSUME NEW p \in Workers, Detect(p)
        PROVE  DetectCreate(p) \/ (logs' = logs /\ requests' = requests)
    BY <1>6 DEF Detect, DetectCheck, DetectTotal, DetectFind, DetectWrite,
       DetectDeactivate
  <1>7. ASSUME NEW p \in Workers, ManualLog(p)
        PROVE  \/ \E v \in Vendor, t \in VType, o \in Order \cup {None} :
                    LogCreate(p, v, t, o)
               \/ logs' = logs /\ requests' = requests
    BY <1>7 DEF ManualLog, LogTotal, LogFind, IssueFind, IssueDeactivate,
       IssueCreate, DropSP, DropReactivate, RewriteSP, RewriteDeactivate
  <1>8. ASSUME NEW p \in Workers, Revision(p)
        PROVE  \/ RequestCreate(p) \/ ApproveCommit(p) \/ RejectCommit(p)
               \/ logs' = logs /\ requests' = requests
    BY <1>8 DEF Revision, RequestCheck, ApproveRead, ApproveCorrect, ApproveFind,
       RejectRead
  <1>9. ASSUME NEW p \in Workers, SPAdmin(p) \/ Job(p) \/ Fail(p)
        PROVE  logs' = logs /\ requests' = requests
    BY <1>9 DEF SPAdmin, ExtendRead, ExtendWrite, CompleteRead, CompleteWrite,
       ReactivateRead, ReactivateCommit, Job, NightlyStart, QuarterlyCron,
       QuarterlyAtStartup, StartJob, JobComplete, JobListSP3, JobReactivate,
       JobEnd, Fail
  <1>10. ASSUME \/ TypeAdmin \/ Tick \/ UNCHANGED vars
                \/ \E v \in Vendor : RemoveVendor(v)
         PROVE  logs' = logs /\ requests' = requests
    BY <1>10 DEF TypeAdmin, Tick, vars, RemoveVendor
  <1> QED
    BY <1>1, <1>2, <1>3, <1>4, <1>5, <1>6, <1>7, <1>8, <1>9, <1>10 DEF Next

(* Points are overridden only through a reviewed request of the vendor,    *)
(* even when reviews of the same request, corrections and crashes overlap. *)
THEOREM SpecCorrectionsReviewed == Spec => []CorrectionsReviewed
  <1>1. Init => CorrectionsReviewed
    BY DEF Init, CorrectionsReviewed
  <1> QED
    BY <1>1, SpecConsistent, NextReviewed, PTL DEF Spec

-----------------------------------------------------------------------------
(* What a step puts a worker at.                                           *)
At(p, S) == \A q \in Workers : w'[q] = w[q] \/ (q = p /\ w'[q].at \in S)

LEMMA Went ==
  ASSUME TypeOK, NEW p \in Workers
  PROVE  /\ Done(p) => At(p, {"idle"})
         /\ \A s \in Steps : Goto(p, s) => At(p, {s})
         /\ \A y : w' = [w EXCEPT ![p] = y] => At(p, {y.at})
         /\ \A y : Begin(p, y) => At(p, {y.at})
  <1>w. w \in [Workers -> Work] /\ w[p] \in Work
    BY WorkerTyped DEF TypeOK
  <1>1. \A y : w' = [w EXCEPT ![p] = y] => At(p, {y.at})
    BY <1>w DEF At
  <1>2. Done(p) => At(p, {"idle"})
    <2>1. NoWork.at = "idle"
      BY DEF NoWork
    <2> QED BY <1>1, <2>1 DEF Done
  <1>3. ASSUME NEW s \in Steps, Goto(p, s)
        PROVE  At(p, {s})
    BY <1>3, <1>w DEF Goto, At, Work
  <1>4. \A y : Begin(p, y) => At(p, {y.at})
    BY <1>1 DEF Begin
  <1> QED BY <1>1, <1>2, <1>3, <1>4

(* Where a step of each service leaves its worker.                          *)
Detecting == {"idle", "detect.total", "detect.find", "detect.write", "detect.deactivate"}
ByHand == {"idle", "log.total", "log.find", "issue.find", "issue.deactivate", "issue.create", "drop",
           "drop.reactivate", "rewrite", "rewrite.deactivate"}
Administering == {"idle", "extend.write", "complete.write", "reactivate.commit"}
AtNight == {"idle", "job.complete", "job.reactivate"}
Requesting == {"idle", "request.create"}

LEMMA DetectMoves ==
  ASSUME TypeOK, NEW p \in Workers, Detect(p)
  PROVE  At(p, Detecting) \/ \E v \in Vendor, t \in VType, o \in Order : DetectCheck(p, v, t, o)
  <1>w. w \in [Workers -> Work] /\ w[p] \in Work
    BY WorkerTyped DEF TypeOK
  <1>s. {"idle", "detect.total", "detect.find", "detect.write", "detect.deactivate"} \subseteq Detecting
    BY DEF Detecting
  <1>p. \A s \in Detecting : s \in Steps /\ (At(p, {s}) => At(p, Detecting))
    BY DEF At, Detecting, Steps
  <1>1. CASE DetectCreate(p)
    BY <1>1, <1>s, <1>p, Went DEF DetectCreate
  <1>2. CASE DetectTotal(p)
    <2>1. PICK l : Done(p) \/ w' = [w EXCEPT ![p].at = "detect.find", ![p].lvl = l]
      BY <1>2 DEF DetectTotal
    <2>2. CASE w' = [w EXCEPT ![p].at = "detect.find", ![p].lvl = l]
      BY <2>2, <1>w, <1>s DEF At, Work
    <2> QED BY <2>1, <2>2, <1>s, <1>p, Went
  <1>3. CASE DetectFind(p)
    BY <1>3, <1>s, <1>p, Went DEF DetectFind
  <1>4. CASE DetectWrite(p)
    BY <1>4, <1>s, <1>p, Went DEF DetectWrite
  <1>5. CASE DetectDeactivate(p)
    BY <1>5, <1>s, <1>p, Went DEF DetectDeactivate
  <1> QED BY <1>1, <1>2, <1>3, <1>4, <1>5 DEF Detect

LEMMA ManualLogMoves ==
  ASSUME TypeOK, NEW p \in Workers, ManualLog(p)
  PROVE  At(p, ByHand)
  <1>w. w \in [Workers -> Work] /\ w[p] \in Work
    BY WorkerTyped DEF TypeOK
  <1>s. {"idle", "log.total", "log.find", "issue.find", "issue.deactivate", "issue.create", "drop",
         "drop.reactivate", "rewrite", "rewrite.deactivate"} \subseteq ByHand
    BY DEF ByHand
  <1>p. \A s \in ByHand : s \in Steps /\ (At(p, {s}) => At(p, ByHand))
    BY DEF At, ByHand, Steps
  <1>1. ASSUME NEW v \in Vendor, NEW t \in VType, NEW o \in Order \cup {None}, LogCreate(p, v, t, o)
        PROVE  At(p, ByHand)
    <2>1. PICK y : y = [NoWork EXCEPT !.at = "log.total", !.v = v]
      OBVIOUS
    <2>2. y.at = "log.total"
      BY <2>1 DEF NoWork
    <2> QED BY <1>1, <1>s, <1>p, <2>1, <2>2, Went DEF LogCreate
  <1>2. CASE LogTotal(p)
    <2>1. PICK l : w' = [w EXCEPT ![p].at = "log.find", ![p].lvl = l]
      BY <1>2 DEF LogTotal
    <2> QED BY <2>1, <1>w, <1>s DEF At, Work
  <1>3. CASE LogFind(p)
    <2>1. PICK i, l : \/ Done(p) \/ Goto(p, "issue.find")
                      \/ w' = [w EXCEPT ![p].at = "drop", ![p].id = i, ![p].lvl = l]
                      \/ w' = [w EXCEPT ![p].at = "rewrite", ![p].id = i]
      BY <1>3, Zenon DEF LogFind
    <2>2. CASE w' = [w EXCEPT ![p].at = "drop", ![p].id = i, ![p].lvl = l]
      BY <2>2, <1>w, <1>s DEF At, Work
    <2>3. CASE w' = [w EXCEPT ![p].at = "rewrite", ![p].id = i]
      BY <2>3, <1>w, <1>s DEF At, Work
    <2> QED BY <2>1, <2>2, <2>3, <1>s, <1>p, Went
  <1>4. CASE IssueFind(p)
    <2>1. Done(p) \/ Goto(p, "issue.deactivate") \/ Goto(p, "issue.create")
      BY <1>4 DEF IssueFind
    <2> QED BY <2>1, <1>s, <1>p, Went
  <1>5. CASE \/ IssueDeactivate(p) \/ IssueCreate(p) \/ DropSP(p) \/ DropReactivate(p)
             \/ RewriteSP(p) \/ RewriteDeactivate(p)
    <2>1. \/ Done(p) \/ Goto(p, "issue.create") \/ Goto(p, "drop.reactivate")
          \/ Goto(p, "rewrite.deactivate")
      BY <1>5 DEF IssueDeactivate, IssueCreate, DropSP, DropReactivate, RewriteSP,
                  RewriteDeactivate
    <2> QED BY <2>1, <1>s, <1>p, Went
  <1> QED BY <1>1, <1>2, <1>3, <1>4, <1>5 DEF ManualLog

LEMMA SPAdminMoves ==
  ASSUME TypeOK, NEW p \in Workers, SPAdmin(p)
  PROVE  At(p, Administering)
  <1>s. {"idle", "extend.write", "complete.write", "reactivate.commit"} \subseteq Administering
    BY DEF Administering
  <1>p. \A s \in Administering : s \in Steps /\ (At(p, {s}) => At(p, Administering))
    BY DEF At, Administering, Steps
  <1>1. ASSUME NEW i, NEW n, ExtendRead(p, i, n)
        PROVE  At(p, Administering)
    <2>1. PICK y : y = [NoWork EXCEPT !.at = "extend.write", !.id = i, !.n = n]
      OBVIOUS
    <2>2. y.at = "extend.write"
      BY <2>1 DEF NoWork
    <2> QED BY <1>1, <1>s, <1>p, <2>1, <2>2, Went DEF ExtendRead
  <1>2. ASSUME NEW i, CompleteRead(p, i)
        PROVE  At(p, Administering)
    <2>1. PICK y : y = [NoWork EXCEPT !.at = "complete.write", !.id = i]
      OBVIOUS
    <2>2. y.at = "complete.write"
      BY <2>1 DEF NoWork
    <2> QED BY <1>2, <1>s, <1>p, <2>1, <2>2, Went DEF CompleteRead
  <1>3. ASSUME NEW v, ReactivateRead(p, v)
        PROVE  At(p, Administering)
    <2>1. PICK y : y = [NoWork EXCEPT !.at = "reactivate.commit", !.v = v]
      OBVIOUS
    <2>2. y.at = "reactivate.commit"
      BY <2>1 DEF NoWork
    <2> QED BY <1>3, <1>s, <1>p, <2>1, <2>2, Went DEF ReactivateRead
  <1>4. CASE ExtendWrite(p) \/ CompleteWrite(p) \/ ReactivateCommit(p)
    <2>1. Done(p)
      BY <1>4 DEF ExtendWrite, CompleteWrite, ReactivateCommit
    <2> QED BY <2>1, <1>s, <1>p, Went
  <1> QED BY <1>1, <1>2, <1>3, <1>4 DEF SPAdmin

LEMMA JobMoves ==
  ASSUME TypeOK, NEW p \in Workers, Job(p) \/ Fail(p)
  PROVE  At(p, AtNight)
  <1>w. w \in [Workers -> Work] /\ w[p] \in Work
    BY WorkerTyped DEF TypeOK
  <1>s. {"idle", "job.complete", "job.reactivate"} \subseteq AtNight
    BY DEF AtNight
  <1>p. \A s \in AtNight : s \in Steps /\ (At(p, {s}) => At(p, AtNight))
    BY DEF At, AtNight, Steps
  <1>1. ASSUME NEW b, StartJob(p, b)
        PROVE  At(p, AtNight)
    <2>1. PICK y, D : /\ y = [NoWork EXCEPT !.at = "job.complete", !.quarterly = b, !.todo = D]
                      /\ Begin(p, y)
      BY <1>1 DEF StartJob
    <2>2. y.at = "job.complete"
      BY <2>1 DEF NoWork
    <2> QED BY <1>s, <1>p, <2>1, <2>2, Went
  <1>2. CASE JobComplete(p)
    <2>1. PICK i : w' = [w EXCEPT ![p].todo = @ \ {i}]
      BY <1>2 DEF JobComplete
    <2>2. w[p].at = "job.complete"
      BY <1>2 DEF JobComplete
    <2> QED BY <2>1, <2>2, <1>w, <1>s DEF At, Work
  <1>3. CASE JobListSP3(p)
    <2>1. PICK D : w' = [w EXCEPT ![p].at = "job.reactivate", ![p].todo = D]
      BY <1>3 DEF JobListSP3
    <2> QED BY <2>1, <1>w, <1>s DEF At, Work
  <1>4. CASE JobReactivate(p)
    <2>1. PICK i : w' = [w EXCEPT ![p].todo = @ \ {i}]
      BY <1>4 DEF JobReactivate
    <2>2. w[p].at = "job.reactivate"
      BY <1>4 DEF JobReactivate
    <2> QED BY <2>1, <2>2, <1>w, <1>s DEF At, Work
  <1>5. CASE JobEnd(p) \/ Fail(p)
    <2>1. Done(p)
      BY <1>5 DEF JobEnd, Fail
    <2> QED BY <2>1, <1>s, <1>p, Went
  <1> QED BY <1>1, <1>2, <1>3, <1>4, <1>5 DEF Job, NightlyStart, QuarterlyCron, QuarterlyAtStartup

LEMMA RevisionMoves ==
  ASSUME TypeOK, NEW p \in Workers, Revision(p)
  PROVE  \/ At(p, Requesting) /\ UNCHANGED <<requests, logs>>
         \/ At(p, Requesting) /\ RequestCreate(p)
         \/ At(p, Requesting) /\ (ApproveCommit(p) \/ RejectCommit(p))
         \/ \E r \in DOMAIN requests : ApproveRead(p, r) \/ RejectRead(p, r)
         \/ ApproveCorrect(p) \/ ApproveFind(p)
  <1>s. {"idle", "request.create"} \subseteq Requesting
    BY DEF Requesting
  <1>p. \A s \in Requesting : s \in Steps /\ (At(p, {s}) => At(p, Requesting))
    BY DEF At, Requesting, Steps
  <1>1. ASSUME NEW v, NEW t, NEW n, RequestCheck(p, v, t, n)
        PROVE  At(p, Requesting) /\ UNCHANGED <<requests, logs>>
    <2>1. PICK y, k : /\ y = [NoWork EXCEPT !.at = "request.create", !.v = v, !.id = t, !.n = k]
                      /\ Begin(p, y)
      BY <1>1 DEF RequestCheck
    <2>2. y.at = "request.create"
      BY <2>1 DEF NoWork
    <2> QED BY <1>1, <1>s, <1>p, <2>1, <2>2, Went DEF RequestCheck
  <1>2. CASE RequestCreate(p) \/ ApproveCommit(p) \/ RejectCommit(p)
    <2>1. Done(p)
      BY <1>2 DEF RequestCreate, ApproveCommit, RejectCommit
    <2> QED BY <1>2, <2>1, <1>s, <1>p, Went
  <1> QED BY <1>1, <1>2 DEF Revision

(* Everything that is neither a log the detector is about to write nor a   *)
(* review.                                                                 *)
Plain == Steps \ (ReviewSteps \cup {"detect.create"})

LEMMA PlainSteps ==
  ASSUME NEW p, NEW S \in {Detecting, ByHand, Administering, AtNight, Requesting}, At(p, S)
  PROVE  At(p, Plain)
  BY DEF At, Detecting, ByHand, Administering, AtNight, Requesting, Plain, Steps, ReviewSteps, CorrectSteps

(* Every step is one of these.                                              *)
Writes(p) ==
  \/ UNCHANGED <<logs, requests>>
  \/ DetectCreate(p)
  \/ \E v \in Vendor, t \in VType, o \in Order \cup {None} : LogCreate(p, v, t, o)
  \/ RequestCreate(p)
  \/ ApproveCommit(p)
  \/ RejectCommit(p)
Checks(p) ==
  \/ \E v \in Vendor, t \in VType, o \in Order : DetectCheck(p, v, t, o)
  \/ \E r \in DOMAIN requests : ApproveRead(p, r) \/ RejectRead(p, r)
  \/ ApproveCorrect(p)
  \/ ApproveFind(p)

LEMMA NextMoves ==
  ASSUME TypeOK, [Next]_vars
  PROVE  \/ \E p \in Workers : now' = now /\ (Checks(p) \/ (At(p, Plain) /\ Writes(p)))
         \/ UNCHANGED <<now, w, logs, requests>>
         \/ Tick
  <1>1. ASSUME NEW p \in Workers, Detect(p)
        PROVE  now' = now /\ (Checks(p) \/ (At(p, Plain) /\ Writes(p)))
    <2>1. now' = now /\ Writes(p)
      BY <1>1 DEF Detect, DetectCheck, DetectCreate, DetectTotal, DetectFind, DetectWrite,
                  DetectDeactivate, Writes
    <2> QED BY <1>1, <2>1, DetectMoves, PlainSteps DEF Checks
  <1>2. ASSUME NEW p \in Workers, ManualLog(p)
        PROVE  now' = now /\ At(p, Plain) /\ Writes(p)
    <2>1. now' = now /\ Writes(p)
      BY <1>2 DEF ManualLog, LogCreate, LogTotal, LogFind, IssueFind, IssueDeactivate,
                  IssueCreate, DropSP, DropReactivate, RewriteSP, RewriteDeactivate, Writes
    <2> QED BY <1>2, <2>1, ManualLogMoves, PlainSteps
  <1>3. ASSUME NEW p \in Workers, SPAdmin(p)
        PROVE  now' = now /\ At(p, Plain) /\ Writes(p)
    <2>1. now' = now /\ Writes(p)
      BY <1>3 DEF SPAdmin, ExtendRead, ExtendWrite, CompleteRead, CompleteWrite, ReactivateRead,
                  ReactivateCommit, Writes
    <2> QED BY <1>3, <2>1, SPAdminMoves, PlainSteps
  <1>4. ASSUME NEW p \in Workers, Revision(p)
        PROVE  now' = now /\ (Checks(p) \/ (At(p, Plain) /\ Writes(p)))
    <2>1. now' = now
      BY <1>4 DEF Revision, RequestCheck, RequestCreate, ApproveRead, ApproveCorrect, ApproveFind,
                  ApproveCommit, RejectRead, RejectCommit
    <2> QED BY <1>4, <2>1, RevisionMoves, PlainSteps DEF Checks, Writes
  <1>5. ASSUME NEW p \in Workers, Job(p) \/ Fail(p)
        PROVE  now' = now /\ At(p, Plain) /\ Writes(p)
    <2>1. now' = now /\ Writes(p)
      BY <1>5 DEF Job, NightlyStart, QuarterlyCron, QuarterlyAtStartup, StartJob, JobComplete,
                  JobListSP3, JobReactivate, JobEnd, Fail, Writes
    <2> QED BY <1>5, <2>1, JobMoves, PlainSteps
  <1>6. ASSUME TypeAdmin \/ (\E v \in Vendor : RemoveVendor(v)) \/ UNCHANGED vars
        PROVE  UNCHANGED <<now, w, logs, requests>>
    BY <1>6 DEF TypeAdmin, RemoveVendor, vars
  <1> QED BY <1>1, <1>2, <1>3, <1>4, <1>5, <1>6 DEF Next

(* What a log says of the violation stays, and so does what a request asks.  *)
Lasting ==
  /\ DOMAIN logs \subseteq DOMAIN logs'
  /\ \A i \in DOMAIN logs :
       /\ logs'[i].v = logs[i].v /\ logs'[i].t = logs[i].t /\ logs'[i].o = logs[i].o
       /\ logs'[i].q = logs[i].q /\ logs'[i].by = logs[i].by
  /\ DOMAIN requests \subseteq DOMAIN requests'
  /\ \A r \in DOMAIN requests : requests'[r].target = requests[r].target

LEMMA CorrectedStays ==
  ASSUME TypeOK, NEW ids, NEW point \in {0, 1},
         logs' = [i \in DOMAIN logs |->
                    IF i \in ids THEN [logs[i] EXCEPT !.adj = point] ELSE logs[i]]
  PROVE  /\ DOMAIN logs' = DOMAIN logs
         /\ \A i \in DOMAIN logs :
              /\ logs'[i].v = logs[i].v /\ logs'[i].t = logs[i].t /\ logs'[i].o = logs[i].o
              /\ logs'[i].q = logs[i].q /\ logs'[i].by = logs[i].by
              /\ i \notin ids => logs'[i].adj = logs[i].adj
  <1>1. \A i \in DOMAIN logs : logs[i] \in LogRow
    BY LogNumber
  <1>2. \A x \in LogRow : LET y == [x EXCEPT !.adj = point] IN
          y.v = x.v /\ y.t = x.t /\ y.o = x.o /\ y.q = x.q /\ y.by = x.by
    BY DEF LogRow
  <1> QED BY <1>1, <1>2

LEMMA NewLog ==
  ASSUME TypeOK, NEW row \in LogRow, logs' = Append(logs, row)
  PROVE  /\ DOMAIN logs' = DOMAIN logs \cup {Len(logs) + 1}
         /\ Len(logs) + 1 \notin DOMAIN logs /\ DOMAIN logs \subseteq Nat
         /\ \A i \in DOMAIN logs : i < Len(logs) + 1
         /\ logs'[Len(logs) + 1] = row
         /\ \A i \in DOMAIN logs : logs'[i] = logs[i]
  <1>1. logs \in Seq(LogRow)
    BY DEF TypeOK
  <1>2. DOMAIN logs = 1..Len(logs) /\ Len(logs) \in Nat
    BY <1>1
  <1> QED BY <1>1, <1>2, AppendRow

LEMMA DetectedRow ==
  ASSUME Consistent, NEW p \in Workers, DetectCreate(p)
  PROVE  \E row \in LogRow :
           /\ row.v = w[p].v /\ row.t = w[p].t /\ row.o = w[p].o /\ row.q = Quarter(now)
           /\ row.by = "detector" /\ row.adj = None
           /\ logs' = Append(logs, row)
  <1> DEFINE row == [v |-> w[p].v, t |-> w[p].t, o |-> w[p].o,
                     q |-> Quarter(now), adj |-> None, by |-> "detector"]
  <1>1. row \in LogRow
    BY WorkerTyped, NowTyped
    DEF Consistent, DetectCreate, WorkSound, Sound, VendorSteps, LogRow
  <1> QED BY <1>1 DEF DetectCreate

LEMMA ManualRow ==
  ASSUME Consistent, NEW p \in Workers, NEW v \in Vendor, NEW t \in VType,
         NEW o \in Order \cup {None}, LogCreate(p, v, t, o)
  PROVE  \E row \in LogRow : row.by = "manual" /\ row.adj = None /\ logs' = Append(logs, row)
  <1> DEFINE row == [v |-> v, t |-> t, o |-> o, q |-> Quarter(now), adj |-> None, by |-> "manual"]
  <1>1. row \in LogRow
    BY NowTyped DEF Consistent, LogRow
  <1> QED BY <1>1 DEF LogCreate

LEMMA ReviewInHand ==
  ASSUME Consistent, NEW p \in Workers, w[p].at \in ReviewSteps
  PROVE  \E n \in DOMAIN requests : n = w[p].n
  BY WorkerTyped DEF Consistent, WorkSound, Sound

LEMMA ApprovedGives ==
  ASSUME Consistent, NEW p \in Workers, ApproveCommit(p)
  PROVE  \E n \in DOMAIN requests, ids \in SUBSET DOMAIN logs :
           /\ n = w[p].n /\ ids = w[p].todo /\ ids \subseteq Touchable(requests[n])
           /\ logs' = [i \in DOMAIN logs |->
                         IF i \in ids THEN [logs[i] EXCEPT !.adj = requests[n].point] ELSE logs[i]]
           /\ requests[n].point \in {0, 1}
           /\ requests' = [requests EXCEPT ![n].status = "APPROVED"]
  <1>0. w[p].at \in ReviewSteps /\ w[p].at \in CorrectSteps
    BY DEF ApproveCommit, ReviewSteps, CorrectSteps
  <1>1. PICK n \in DOMAIN requests : n = w[p].n
    BY <1>0, ReviewInHand
  <1>2. PICK ids : ids = w[p].todo
    OBVIOUS
  <1>3. ids \subseteq Touchable(requests[n])
    BY <1>0, <1>1, <1>2, WorkerTyped DEF Consistent, WorkSound, Sound
  <1>4. requests[n].point \in {0, 1}
    BY <1>1, RequestNumber, RequestUpdates DEF Consistent
  <1>5. ids \in SUBSET DOMAIN logs
    BY <1>3 DEF Touchable
  <1> QED BY <1>1, <1>2, <1>3, <1>4, <1>5 DEF ApproveCommit

LEMMA RejectedGives ==
  ASSUME Consistent, NEW p \in Workers, RejectCommit(p)
  PROVE  \E n \in DOMAIN requests :
           n = w[p].n /\ requests' = [requests EXCEPT ![n].status = "REJECTED"] /\ logs' = logs
  BY ReviewInHand DEF RejectCommit, ReviewSteps

LEMMA NewRequest ==
  ASSUME Consistent, NEW p \in Workers, RequestCreate(p)
  PROVE  /\ logs' = logs /\ DOMAIN requests \subseteq DOMAIN requests'
         /\ \A r \in DOMAIN requests : requests'[r] = requests[r]
  <1> DEFINE row == [v |-> w[p].v, target |-> w[p].id, point |-> w[p].n, status |-> "PENDING"]
  <1>1. row \in RequestRow
    BY WorkerTyped
    DEF Consistent, RequestCreate, WorkSound, Sound, VendorSteps, Work, RequestRow
  <1> QED BY <1>1, AppendRow DEF RequestCreate, Consistent, TypeOK

LEMMA NextLasting ==
  ASSUME Consistent, [Next]_vars
  PROVE  Lasting
  <1>1. CASE UNCHANGED <<logs, requests>>
    BY <1>1 DEF Lasting
  <1>2. ASSUME NEW p \in Workers, DetectCreate(p)
        PROVE  Lasting
    BY <1>2, DetectedRow, NewLog DEF Lasting, DetectCreate, Consistent
  <1>3. ASSUME NEW p \in Workers, NEW v \in Vendor, NEW t \in VType,
               NEW o \in Order \cup {None}, LogCreate(p, v, t, o)
        PROVE  Lasting
    BY <1>3, ManualRow, NewLog DEF Lasting, LogCreate, Consistent
  <1>4. ASSUME NEW p \in Workers, RequestCreate(p)
        PROVE  Lasting
    BY <1>4, NewRequest DEF Lasting
  <1>5. ASSUME NEW p \in Workers, ApproveCommit(p)
        PROVE  Lasting
    <2>1. PICK n \in DOMAIN requests, ids \in SUBSET DOMAIN logs :
            /\ logs' = [i \in DOMAIN logs |->
                          IF i \in ids THEN [logs[i] EXCEPT !.adj = requests[n].point] ELSE logs[i]]
            /\ requests[n].point \in {0, 1}
            /\ requests' = [requests EXCEPT ![n].status = "APPROVED"]
      BY <1>5, ApprovedGives
    <2>2. DOMAIN requests' = DOMAIN requests /\ \A r \in DOMAIN requests : requests'[r].target = requests[r].target
      BY <2>1, Reviewed DEF Consistent
    <2>3. /\ DOMAIN logs' = DOMAIN logs
          /\ \A i \in DOMAIN logs :
               /\ logs'[i].v = logs[i].v /\ logs'[i].t = logs[i].t /\ logs'[i].o = logs[i].o
               /\ logs'[i].q = logs[i].q /\ logs'[i].by = logs[i].by
      BY <2>1, CorrectedStays DEF Consistent
    <2> QED BY <2>2, <2>3 DEF Lasting
  <1>6. ASSUME NEW p \in Workers, RejectCommit(p)
        PROVE  Lasting
    <2>1. PICK n \in DOMAIN requests :
            requests' = [requests EXCEPT ![n].status = "REJECTED"] /\ logs' = logs
      BY <1>6, RejectedGives
    <2>2. DOMAIN requests' = DOMAIN requests /\ \A r \in DOMAIN requests : requests'[r].target = requests[r].target
      BY <2>1, Reviewed DEF Consistent
    <2> QED BY <2>1, <2>2 DEF Lasting
  <1>7. ASSUME NEW p \in Workers, Checks(p)
        PROVE  UNCHANGED <<logs, requests>>
    BY <1>7 DEF Checks, DetectCheck, ApproveRead, RejectRead, ApproveCorrect, ApproveFind
  <1>8. Tick => UNCHANGED <<logs, requests>>
    BY DEF Tick
  <1> QED BY <1>1, <1>2, <1>3, <1>4, <1>5, <1>6, <1>7, <1>8, NextMoves DEF Writes, Consistent

-----------------------------------------------------------------------------
(* A RESET under review corrects logs of the current quarter: the calendar  *)
(* moves only between handlers.                                            *)
Current ==
  \A p \in Workers, n \in DOMAIN requests, i \in DOMAIN logs :
    w[p].at \in CorrectSteps /\ w[p].n = n /\ IsReset(requests[n]) /\ i \in w[p].todo =>
      logs[i].q = Quarter(now)

LEMMA NothingInHand ==
  ASSUME Tick
  PROVE  /\ \A p \in Workers : w'[p].at \notin ReviewSteps /\ w'[p].at \notin CorrectSteps
                               /\ w'[p].at # "detect.create"
         /\ UNCHANGED <<logs, requests>>
  BY DEF Tick, NoWork, ReviewSteps, CorrectSteps

LEMMA CorrectsWhat ==
  ASSUME Consistent, NEW p \in Workers, w[p].at \in CorrectSteps
  PROVE  /\ w[p].todo \subseteq DOMAIN logs
         /\ \E n \in DOMAIN requests : n = w[p].n /\ w[p].todo \subseteq Touchable(requests[n])
  <1>1. w[p].at \in ReviewSteps
    BY DEF ReviewSteps
  <1>2. PICK n \in DOMAIN requests : n = w[p].n
    BY <1>1, ReviewInHand
  <1>3. w[p].todo \subseteq Touchable(requests[n])
    BY <1>2, WorkerTyped DEF Consistent, WorkSound, Sound
  <1> QED BY <1>2, <1>3 DEF Touchable

LEMMA NextCurrent ==
  ASSUME Consistent, Current, [Next]_vars
  PROVE  Current'
  <1>l. Lasting
    BY NextLasting
  <1>1. ASSUME NEW p \in Workers, now' = now,
               \A q \in Workers : w'[q] = w[q] \/ w'[q].at \notin CorrectSteps
        PROVE  Current'
    <2> SUFFICES ASSUME NEW q \in Workers, NEW n \in DOMAIN requests', NEW i \in DOMAIN logs',
                        w'[q].at \in CorrectSteps, w'[q].n = n, IsReset(requests'[n]),
                        i \in w'[q].todo
                 PROVE  logs'[i].q = Quarter(now')
      BY DEF Current
    <2>1. w'[q] = w[q]
      BY <1>1
    <2>2. n \in DOMAIN requests /\ i \in DOMAIN logs
      BY <2>1, CorrectsWhat
    <2>3. IsReset(requests[n])
      BY <1>l, <2>2 DEF Lasting, IsReset
    <2>4. logs[i].q = Quarter(now)
      BY <2>1, <2>2, <2>3 DEF Current
    <2> QED BY <1>1, <1>l, <2>2, <2>4 DEF Lasting
  <1>2. ASSUME NEW p \in Workers, now' = now, At(p, Plain)
        PROVE  Current'
    <2>1. \A q \in Workers : w'[q] = w[q] \/ w'[q].at \notin CorrectSteps
      BY <1>2 DEF At, Plain, ReviewSteps
    <2> QED BY <1>1, <1>2, <2>1
  <1>3. ASSUME NEW p \in Workers, NEW y, Begin(p, y), now' = now, y.at \notin CorrectSteps
        PROVE  Current'
    <2>1. \A q \in Workers : w'[q] = w[q] \/ w'[q].at \notin CorrectSteps
      BY <1>3, Went DEF At, Consistent
    <2> QED BY <1>1, <1>3, <2>1
  <1>4. ASSUME NEW p \in Workers, NEW v \in Vendor, NEW t \in VType, NEW o \in Order,
               DetectCheck(p, v, t, o)
        PROVE  Current'
    <2>1. PICK y : y = [NoWork EXCEPT !.at = "detect.create", !.v = v, !.t = t, !.o = o]
      OBVIOUS
    <2>2. y.at \notin CorrectSteps
      BY <2>1 DEF NoWork, CorrectSteps
    <2> QED BY <1>3, <1>4, <2>1, <2>2 DEF DetectCheck
  <1>5. ASSUME NEW p \in Workers, NEW r \in DOMAIN requests, ApproveRead(p, r)
        PROVE  Current'
    <2>1. PICK y : y = [NoWork EXCEPT !.at = "approve.correct", !.v = requests[r].v, !.n = r]
      OBVIOUS
    <2>2. y.at \notin CorrectSteps
      BY <2>1 DEF NoWork, CorrectSteps
    <2> QED BY <1>3, <1>5, <2>1, <2>2 DEF ApproveRead
  <1>6. ASSUME NEW p \in Workers, NEW r \in DOMAIN requests, RejectRead(p, r)
        PROVE  Current'
    <2>1. PICK y : y = [NoWork EXCEPT !.at = "reject.commit", !.n = r]
      OBVIOUS
    <2>2. y.at \notin CorrectSteps
      BY <2>1 DEF NoWork, CorrectSteps
    <2> QED BY <1>3, <1>6, <2>1, <2>2 DEF RejectRead
  <1>7. ASSUME NEW p \in Workers, ApproveCorrect(p)
        PROVE  Current'
    <2>1. PICK m \in DOMAIN requests : m = w[p].n
      BY <1>7, ReviewInHand DEF ApproveCorrect, ReviewSteps
    <2>2. PICK D : D = Corrected(requests[m])
      OBVIOUS
    <2>3. w' = [w EXCEPT ![p].at = "approve.find", ![p].todo = D] /\ UNCHANGED <<now, logs, requests>>
      BY <1>7, <2>1, <2>2 DEF ApproveCorrect
    <2>4. IsReset(requests[m]) => \A i \in D : logs[i].q = Quarter(now)
      BY <2>2 DEF Corrected, LogsOf
    <2>5. w \in [Workers -> Work] /\ w[p] \in Work
      BY WorkerTyped DEF Consistent, TypeOK
    <2>6. w'[p].n = m /\ w'[p].todo = D /\ \A q \in Workers : q # p => w'[q] = w[q]
      BY <2>1, <2>3, <2>5 DEF Work
    <2> QED BY <2>3, <2>4, <2>6 DEF Current
  <1>8. ASSUME NEW p \in Workers, ApproveFind(p)
        PROVE  Current'
    <2>1. PICK i, l : w' = [w EXCEPT ![p].at = "approve.commit", ![p].id = i, ![p].lvl = l]
      BY <1>8 DEF ApproveFind
    <2>2. w[p].at \in CorrectSteps /\ UNCHANGED <<now, logs, requests>>
      BY <1>8 DEF ApproveFind, CorrectSteps
    <2>3. w \in [Workers -> Work] /\ w[p] \in Work
      BY WorkerTyped DEF Consistent, TypeOK
    <2>4. /\ w'[p].n = w[p].n /\ w'[p].todo = w[p].todo
          /\ \A q \in Workers : q # p => w'[q] = w[q]
      BY <2>1, <2>3 DEF Work
    <2> QED BY <2>2, <2>4 DEF Current
  <1>9. CASE Tick
    BY <1>9, NothingInHand DEF Current
  <1>10. CASE UNCHANGED <<now, w, logs, requests>>
    BY <1>10 DEF Current
  <1>11. ASSUME NEW p \in Workers, now' = now, Checks(p)
         PROVE  Current'
    BY <1>11, <1>4, <1>5, <1>6, <1>7, <1>8 DEF Checks
  <1> QED BY <1>2, <1>9, <1>10, <1>11, NextMoves DEF Consistent

(* Only an approval changes the points a log carries.                       *)
LEMMA ApprovalsCorrect ==
  ASSUME Consistent, Current, [Next]_vars, NEW i \in DOMAIN logs,
         logs'[i].adj # logs[i].adj, logs[i].q # Quarter(now)
  PROVE  \E r \in DOMAIN requests : requests[r].target = i
  <1>1. ASSUME NEW p \in Workers, DetectCreate(p)
        PROVE  FALSE
    BY <1>1, DetectedRow, NewLog DEF Consistent
  <1>2. ASSUME NEW p \in Workers, NEW v \in Vendor, NEW t \in VType,
               NEW o \in Order \cup {None}, LogCreate(p, v, t, o)
        PROVE  FALSE
    BY <1>2, ManualRow, NewLog DEF Consistent
  <1>3. ASSUME NEW p \in Workers, RequestCreate(p) \/ RejectCommit(p)
        PROVE  FALSE
    BY <1>3 DEF RequestCreate, RejectCommit
  <1>4. ASSUME NEW p \in Workers, ApproveCommit(p)
        PROVE  \E r \in DOMAIN requests : requests[r].target = i
    <2>1. PICK n \in DOMAIN requests, ids \in SUBSET DOMAIN logs :
            /\ n = w[p].n /\ ids = w[p].todo /\ ids \subseteq Touchable(requests[n])
            /\ logs' = [k \in DOMAIN logs |->
                          IF k \in ids THEN [logs[k] EXCEPT !.adj = requests[n].point] ELSE logs[k]]
      BY <1>4, ApprovedGives
    <2>2. i \in ids
      BY <2>1
    <2>3. ~IsReset(requests[n])
      BY <1>4, <2>1, <2>2 DEF Current, ApproveCommit, CorrectSteps
    <2>4. requests[n].target = i
      BY <2>1, <2>2, <2>3 DEF Touchable
    <2> QED BY <2>4
  <1>5. ASSUME NEW p \in Workers, Checks(p)
        PROVE  UNCHANGED logs
    BY <1>5 DEF Checks, DetectCheck, ApproveRead, RejectRead, ApproveCorrect, ApproveFind
  <1>6. Tick => UNCHANGED logs
    BY DEF Tick
  <1> QED BY <1>1, <1>2, <1>3, <1>4, <1>5, <1>6, NextMoves DEF Writes, Consistent

(* A RESET never reaches back into an earlier quarter, whatever overlaps    *)
(* with it (approve): an older log is changed only by a REVISE of that log. *)
THEOREM SpecResetStaysInQuarter == Spec => ResetStaysInQuarter
  <1>1. Init => Current
    BY DEF Init, Current, NoWork, CorrectSteps
  <1>2. Spec => [](Consistent /\ Current)
    BY <1>1, InitConsistent, NextConsistent, NextCurrent, PTL DEF Spec
  <1>3. Consistent /\ Current /\ [Next]_vars =>
          [\A i \in DOMAIN logs :
             logs'[i].adj # logs[i].adj /\ logs[i].q # Quarter(now) =>
               \E r \in DOMAIN requests : requests[r].target = i]_vars
    BY ApprovalsCorrect
  <1> QED BY <1>2, <1>3, PTL DEF Spec, ResetStaysInQuarter

-----------------------------------------------------------------------------
(* However many handlers overlap: a decision is final once nobody has the   *)
(* request in hand, and a violation is logged by the detector no more once  *)
(* nobody who looked for it before is still to write.                       *)

(* A handler that is done reviews nothing and is about to log nothing.       *)
LEMMA DoneLeaves ==
  ASSUME Consistent, NEW p \in Workers, Done(p)
  PROVE  w'[p].at \notin ReviewSteps /\ w'[p].at # "detect.create"
  <1>1. w'[p] = NoWork
    BY DEF Done, Consistent, TypeOK
  <1> QED BY <1>1 DEF NoWork, ReviewSteps, CorrectSteps

(* Who comes to be about to log a violation has found none in the log.       *)
LEMMA DetectBegins ==
  ASSUME TypeOK, NEW p \in Workers, NEW v \in Vendor, NEW t \in VType, NEW o \in Order,
         DetectCheck(p, v, t, o)
  PROVE  /\ \A q \in Workers : q # p => w'[q] = w[q]
         /\ w'[p].at = "detect.create" /\ w'[p].v = v /\ w'[p].t = t /\ w'[p].o = o
         /\ ~IsDuplicate(v, t, o)
  <1>1. PICK y : y = [NoWork EXCEPT !.at = "detect.create", !.v = v, !.t = t, !.o = o]
    OBVIOUS
  <1>2. y.at = "detect.create" /\ y.v = v /\ y.t = t /\ y.o = o
    BY <1>1 DEF NoWork
  <1> QED BY <1>1, <1>2 DEF DetectCheck, Begin, TypeOK

(* Who takes up a request finds it pending.                                  *)
LEMMA ReviewBegins ==
  ASSUME TypeOK, NEW p \in Workers, NEW r \in DOMAIN requests,
         ApproveRead(p, r) \/ RejectRead(p, r)
  PROVE  /\ \A q \in Workers : q # p => w'[q] = w[q]
         /\ w'[p].at \in ReviewSteps /\ w'[p].n = r
         /\ requests[r].status = "PENDING"
  <1>1. PICK y : Begin(p, y) /\ y.n = r /\ y.at \in ReviewSteps
    <2>1. \/ Begin(p, [NoWork EXCEPT !.at = "approve.correct", !.v = requests[r].v, !.n = r])
          \/ Begin(p, [NoWork EXCEPT !.at = "reject.commit", !.n = r])
      BY DEF ApproveRead, RejectRead
    <2>2. /\ [NoWork EXCEPT !.at = "approve.correct", !.v = requests[r].v, !.n = r].n = r
          /\ [NoWork EXCEPT !.at = "reject.commit", !.n = r].n = r
          /\ [NoWork EXCEPT !.at = "approve.correct", !.v = requests[r].v, !.n = r].at = "approve.correct"
          /\ [NoWork EXCEPT !.at = "reject.commit", !.n = r].at = "reject.commit"
      BY DEF NoWork
    <2> QED BY <2>1, <2>2 DEF ReviewSteps
  <1> QED BY <1>1 DEF Begin, TypeOK, ApproveRead, RejectRead

LEMMA ReviewGoesOn ==
  ASSUME TypeOK, NEW p \in Workers, ApproveCorrect(p) \/ ApproveFind(p)
  PROVE  /\ \A q \in Workers : q # p => w'[q] = w[q]
         /\ w[p].at \in ReviewSteps /\ w'[p].at \in ReviewSteps
         /\ w'[p].n = w[p].n
  <1>1. PICK D, i, l : \/ w' = [w EXCEPT ![p].at = "approve.find", ![p].todo = D]
                       \/ w' = [w EXCEPT ![p].at = "approve.commit", ![p].id = i, ![p].lvl = l]
    BY DEF ApproveCorrect, ApproveFind
  <1>2. w \in [Workers -> Work] /\ w[p] \in Work
    BY WorkerTyped DEF TypeOK
  <1>3. w'[p].n = w[p].n /\ w'[p].at \in {"approve.find", "approve.commit"}
    BY <1>1, <1>2 DEF Work
  <1> QED BY <1>1, <1>2, <1>3 DEF ApproveCorrect, ApproveFind, ReviewSteps, CorrectSteps

(* A step that writes the decision of some other request, or none.          *)
LEMMA DecisionStays ==
  ASSUME Consistent, [Next]_vars, NEW r \in DOMAIN requests, Closed(r)
  PROVE  requests'[r].status = requests[r].status
  <1>1. ASSUME NEW p \in Workers, RequestCreate(p)
        PROVE  requests'[r].status = requests[r].status
    BY <1>1, NewRequest
  <1>2. ASSUME NEW p \in Workers, ApproveCommit(p) \/ RejectCommit(p)
        PROVE  requests'[r].status = requests[r].status
    <2>1. PICK n \in DOMAIN requests, s \in {"APPROVED", "REJECTED"} :
            n = w[p].n /\ requests' = [requests EXCEPT ![n].status = s]
      BY <1>2, ApprovedGives, RejectedGives
    <2>2. w[p].at \in ReviewSteps
      BY <1>2 DEF ApproveCommit, RejectCommit, ReviewSteps, CorrectSteps
    <2>3. r # n
      BY <2>1, <2>2 DEF Closed
    <2> QED BY <2>1, <2>3
  <1>3. ASSUME NEW p \in Workers, Checks(p)
        PROVE  UNCHANGED requests
    BY <1>3 DEF Checks, DetectCheck, ApproveRead, RejectRead, ApproveCorrect, ApproveFind
  <1>4. Tick => UNCHANGED requests
    BY DEF Tick
  <1>5. ASSUME NEW p \in Workers,
               DetectCreate(p) \/ \E v \in Vendor, t \in VType, o \in Order \cup {None} : LogCreate(p, v, t, o)
        PROVE  UNCHANGED requests
    BY <1>5 DEF DetectCreate, LogCreate
  <1> QED BY <1>1, <1>2, <1>3, <1>4, <1>5, NextMoves DEF Writes, Consistent

(* Nobody takes a decided request up.                                        *)
LEMMA NobodyTakesUp ==
  ASSUME Consistent, [Next]_vars, NEW r \in DOMAIN requests, Closed(r)
  PROVE  \A q \in Workers : ~(w'[q].at \in ReviewSteps /\ w'[q].n = r)
  <1>c. \A q \in Workers : ~(w[q].at \in ReviewSteps /\ w[q].n = r)
    BY DEF Closed
  <1>1. ASSUME NEW p \in Workers, At(p, Plain)
        PROVE  \A q \in Workers : ~(w'[q].at \in ReviewSteps /\ w'[q].n = r)
    BY <1>1, <1>c DEF At, Plain
  <1>2. ASSUME NEW p \in Workers, NEW v \in Vendor, NEW t \in VType, NEW o \in Order,
               DetectCheck(p, v, t, o)
        PROVE  \A q \in Workers : ~(w'[q].at \in ReviewSteps /\ w'[q].n = r)
    <2>1. w'[p].at \notin ReviewSteps
      BY <1>2, DetectBegins DEF Consistent, ReviewSteps, CorrectSteps
    <2> QED BY <1>2, <1>c, <2>1, DetectBegins DEF Consistent
  <1>3. ASSUME NEW p \in Workers, NEW n \in DOMAIN requests, ApproveRead(p, n) \/ RejectRead(p, n)
        PROVE  \A q \in Workers : ~(w'[q].at \in ReviewSteps /\ w'[q].n = r)
    <2>1. r # n
      BY <1>3, ReviewBegins DEF Closed, Consistent
    <2> QED BY <1>3, <1>c, <2>1, ReviewBegins DEF Consistent
  <1>4. ASSUME NEW p \in Workers, ApproveCorrect(p) \/ ApproveFind(p)
        PROVE  \A q \in Workers : ~(w'[q].at \in ReviewSteps /\ w'[q].n = r)
    BY <1>4, <1>c, ReviewGoesOn DEF Consistent
  <1>5. CASE Tick
    BY <1>5, NothingInHand
  <1>6. CASE UNCHANGED <<now, w, logs, requests>>
    BY <1>6, <1>c
  <1>7. ASSUME NEW p \in Workers, Checks(p)
        PROVE  \A q \in Workers : ~(w'[q].at \in ReviewSteps /\ w'[q].n = r)
    BY <1>7, <1>2, <1>3, <1>4 DEF Checks
  <1> QED BY <1>1, <1>5, <1>6, <1>7, NextMoves DEF Consistent

(* approve and reject may overlap and overwrite each other, but the         *)
(* decision that stands once nobody reviews the request any more is final,  *)
(* for any number of reviewers: the request is never taken up again.        *)
THEOREM SpecReviewedOnce == Spec => ReviewedOnce
  <1>1. ASSUME Consistent, [Next]_vars, NEW r \in DOMAIN requests, Closed(r)
        PROVE  Closed(r)' /\ requests'[r].status = requests[r].status
    BY <1>1, DecisionStays, NobodyTakesUp DEF Closed
  <1>2. Consistent /\ [Next]_vars =>
          [\A r \in DOMAIN requests :
             Closed(r) => Closed(r)' /\ requests'[r].status = requests[r].status]_vars
    BY <1>1
  <1> QED BY <1>2, SpecConsistent, PTL DEF Spec, ReviewedOnce

(* Nobody comes to be about to log what is recorded.                        *)
LEMMA NobodyLogsAgain ==
  ASSUME Consistent, [Next]_vars, NEW v \in Vendor, NEW t \in VType, NEW o \in Order,
         NEW q \in 0..Quarter(now), Recorded(v, t, o, q), q = Quarter(now)'
  PROVE  ~AboutToLog(v, t, o)'
  <1>1. CASE Tick
    BY <1>1, NothingInHand DEF AboutToLog
  <1>2. ASSUME now' = now
        PROVE  q = Quarter(now) /\ ~AboutToLog(v, t, o)
               /\ \E i \in LogsOf(v, q) : logs[i].t = t /\ logs[i].o = o
    BY <1>2 DEF Recorded, Quarter
  <1>3. CASE UNCHANGED <<now, w, logs, requests>>
    BY <1>2, <1>3 DEF AboutToLog
  <1>4. ASSUME NEW p \in Workers, now' = now, At(p, Plain)
        PROVE  ~AboutToLog(v, t, o)'
    BY <1>2, <1>4 DEF AboutToLog, At, Plain
  <1>5. ASSUME NEW p \in Workers, now' = now, NEW v1 \in Vendor, NEW t1 \in VType, NEW o1 \in Order,
               DetectCheck(p, v1, t1, o1)
        PROVE  ~AboutToLog(v, t, o)'
    <2>1. ~(v1 = v /\ t1 = t /\ o1 = o)
      BY <1>2, <1>5, DetectBegins DEF IsDuplicate, Consistent
    <2> QED BY <1>2, <1>5, <2>1, DetectBegins DEF AboutToLog, Consistent
  <1>6. ASSUME NEW p \in Workers, now' = now, NEW r \in DOMAIN requests,
               ApproveRead(p, r) \/ RejectRead(p, r)
        PROVE  ~AboutToLog(v, t, o)'
    <2>1. w'[p].at # "detect.create"
      BY <1>6, ReviewBegins DEF Consistent, ReviewSteps, CorrectSteps
    <2> QED BY <1>2, <1>6, <2>1, ReviewBegins DEF AboutToLog, Consistent
  <1>7. ASSUME NEW p \in Workers, now' = now, ApproveCorrect(p) \/ ApproveFind(p)
        PROVE  ~AboutToLog(v, t, o)'
    <2>1. w'[p].at # "detect.create"
      BY <1>7, ReviewGoesOn DEF Consistent, ReviewSteps, CorrectSteps
    <2> QED BY <1>2, <1>7, <2>1, ReviewGoesOn DEF AboutToLog, Consistent
  <1>8. ASSUME NEW p \in Workers, now' = now, Checks(p)
        PROVE  ~AboutToLog(v, t, o)'
    BY <1>8, <1>5, <1>6, <1>7 DEF Checks
  <1> QED BY <1>1, <1>3, <1>4, <1>8, NextMoves DEF Consistent

(* The detector's logs of a recorded violation stay those they are.         *)
LEMMA NoNewDetection ==
  ASSUME Consistent, [Next]_vars, NEW v \in Vendor, NEW t \in VType, NEW o \in Order,
         NEW q \in 0..Quarter(now), Recorded(v, t, o, q)
  PROVE  Detections(v, t, o, q)' = Detections(v, t, o, q)
  <1>l. Lasting
    BY NextLasting
  <1>1. ASSUME DOMAIN logs' = DOMAIN logs
        PROVE  Detections(v, t, o, q)' = Detections(v, t, o, q)
    BY <1>1, <1>l DEF Detections, LogsOf, Lasting
  <1>2. ASSUME NEW row \in LogRow, logs' = Append(logs, row),
               ~(row.by = "detector" /\ row.v = v /\ row.t = t /\ row.o = o /\ row.q = q)
        PROVE  Detections(v, t, o, q)' = Detections(v, t, o, q)
    BY <1>2, NewLog DEF Detections, LogsOf, Consistent
  <1>3. ASSUME NEW p \in Workers, DetectCreate(p)
        PROVE  Detections(v, t, o, q)' = Detections(v, t, o, q)
    <2>1. PICK row \in LogRow :
            /\ row.v = w[p].v /\ row.t = w[p].t /\ row.o = w[p].o /\ row.q = Quarter(now)
            /\ logs' = Append(logs, row)
      BY <1>3, DetectedRow
    <2>2. ~(row.v = v /\ row.t = t /\ row.o = o /\ row.q = q)
      BY <1>3, <2>1 DEF DetectCreate, Recorded, AboutToLog
    <2> QED BY <1>2, <2>1, <2>2
  <1>4. ASSUME NEW p \in Workers, NEW v1 \in Vendor, NEW t1 \in VType,
               NEW o1 \in Order \cup {None}, LogCreate(p, v1, t1, o1)
        PROVE  Detections(v, t, o, q)' = Detections(v, t, o, q)
    BY <1>2, <1>4, ManualRow
  <1>5. ASSUME NEW p \in Workers, RequestCreate(p) \/ ApproveCommit(p) \/ RejectCommit(p)
        PROVE  DOMAIN logs' = DOMAIN logs
    BY <1>5, ApprovedGives DEF RequestCreate, RejectCommit
  <1>6. ASSUME NEW p \in Workers, Checks(p)
        PROVE  UNCHANGED logs
    BY <1>6 DEF Checks, DetectCheck, ApproveRead, RejectRead, ApproveCorrect, ApproveFind
  <1>7. Tick => UNCHANGED logs
    BY DEF Tick
  <1> QED BY <1>1, <1>3, <1>4, <1>5, <1>6, <1>7, NextMoves DEF Writes, Consistent

(* Overlapping detections may log a violation twice, but once it is in the  *)
(* log and the last that had looked before is through, the detector never   *)
(* logs it again in that quarter (recordViolation), for any number of       *)
(* handlers and whatever ends them half way.                                *)
THEOREM SpecDetectorLogsOnce == Spec => DetectorLogsOnce
  <1>1. ASSUME Consistent, [Next]_vars, NEW v \in Vendor, NEW t \in VType, NEW o \in Order,
               NEW q \in 0..Quarter(now), Recorded(v, t, o, q)
        PROVE  /\ Recorded(v, t, o, q)'
               /\ Detections(v, t, o, q)' = Detections(v, t, o, q)
    <2>1. (\E i \in LogsOf(v, q) : logs[i].t = t /\ logs[i].o = o)'
      BY <1>1, NextLasting DEF Recorded, LogsOf, Lasting
    <2>2. q = Quarter(now)' => ~AboutToLog(v, t, o)'
      BY <1>1, NobodyLogsAgain
    <2>3. Recorded(v, t, o, q)'
      BY <2>1, <2>2 DEF Recorded
    <2> QED BY <1>1, <2>3, NoNewDetection
  <1>2. Consistent /\ [Next]_vars =>
          [\A v \in Vendor, t \in VType, o \in Order, q \in 0..Quarter(now) :
             Recorded(v, t, o, q) =>
               /\ Recorded(v, t, o, q)'
               /\ Detections(v, t, o, q)' = Detections(v, t, o, q)]_vars
    BY <1>1
  <1> QED BY <1>2, SpecConsistent, PTL DEF Spec, DetectorLogsOnce

-----------------------------------------------------------------------------
(* Where only the detector issues letters (no manual log, no review) their *)
(* levels are never rewritten, and a vendor is put out of action after its *)
(* SP3.  The other two services lower letters, and issueSP writes the      *)
(* vendor before the letter, so there a vendor may be left without its SP3. *)
OnlyDetector == Ops \cap {"log", "review"} = {}

Rewriting == (ByHand \ {"idle"}) \cup ReviewSteps
NobodyAt(S) == \A p \in Workers : w[p].at \notin S

LEMMA NextNobodyRewrites ==
  ASSUME OnlyDetector, TypeOK, NobodyAt(Rewriting), [Next]_vars
  PROVE  NobodyAt(Rewriting)'
  <1>s. \A S \in {Detecting, Administering, AtNight, Requesting, {"detect.create"}} :
          S \cap Rewriting = {}
    BY DEF Detecting, ByHand, Administering, AtNight, Requesting, Rewriting, ReviewSteps, CorrectSteps
  <1>1. ASSUME NEW p \in Workers, NEW S, S \cap Rewriting = {}, At(p, S)
        PROVE  NobodyAt(Rewriting)'
    BY <1>1 DEF At, NobodyAt
  <1>2. ASSUME NEW p \in Workers, Detect(p)
        PROVE  NobodyAt(Rewriting)'
    <2>1. ASSUME NEW v \in Vendor, NEW t \in VType, NEW o \in Order, DetectCheck(p, v, t, o)
          PROVE  At(p, {"detect.create"})
      <3>1. PICK y : y = [NoWork EXCEPT !.at = "detect.create", !.v = v, !.t = t, !.o = o]
        OBVIOUS
      <3>2. y.at = "detect.create"
        BY <3>1 DEF NoWork
      <3> QED BY <2>1, <3>1, <3>2, Went DEF DetectCheck
    <2> QED BY <1>1, <1>2, <1>s, <2>1, DetectMoves
  <1>3. ASSUME NEW p \in Workers, ManualLog(p)
        PROVE  FALSE
    BY <1>3 DEF ManualLog, LogCreate, LogTotal, LogFind, IssueFind, IssueDeactivate, IssueCreate,
                DropSP, DropReactivate, RewriteSP, RewriteDeactivate, OnlyDetector, NobodyAt,
                Rewriting, ByHand
  <1>4. ASSUME NEW p \in Workers, Revision(p)
        PROVE  NobodyAt(Rewriting)'
    <2>1. ~ApproveCommit(p) /\ ~RejectCommit(p) /\ ~ApproveCorrect(p) /\ ~ApproveFind(p)
      BY DEF ApproveCommit, RejectCommit, ApproveCorrect, ApproveFind, NobodyAt, Rewriting,
             ReviewSteps, CorrectSteps
    <2>2. \A r \in DOMAIN requests : ~ApproveRead(p, r) /\ ~RejectRead(p, r)
      BY DEF ApproveRead, RejectRead, OnlyDetector, NobodyAt
    <2> QED BY <1>1, <1>4, <1>s, <2>1, <2>2, RevisionMoves
  <1>5. ASSUME NEW p \in Workers, SPAdmin(p) \/ Job(p) \/ Fail(p)
        PROVE  NobodyAt(Rewriting)'
    BY <1>1, <1>5, <1>s, SPAdminMoves, JobMoves
  <1>6. ASSUME TypeAdmin \/ (\E v \in Vendor : RemoveVendor(v)) \/ Tick \/ UNCHANGED vars
        PROVE  NobodyAt(Rewriting)'
    BY <1>6 DEF TypeAdmin, RemoveVendor, Tick, vars, NobodyAt
  <1> QED BY <1>2, <1>3, <1>4, <1>5, <1>6 DEF Next

(* The letters stay; TermsLast says that nobody moved their dates either.   *)
LettersLast ==
  /\ DOMAIN sp \subseteq DOMAIN sp'
  /\ \A i \in DOMAIN sp : sp'[i].v = sp[i].v /\ sp'[i].level = sp[i].level
TermsLast == \A i \in DOMAIN sp : sp'[i].start = sp[i].start /\ sp'[i].end = sp[i].end

LEMMA LetterDated ==
  ASSUME TypeOK, NEW i \in DOMAIN sp, NEW t \in Nat, NEW s \in 1..3,
         sp' = [sp EXCEPT ![i].end = t, ![i].status = s]
  PROVE  LettersLast
  <1>1. \A y \in SPRow : LET z == [y EXCEPT !.end = t, !.status = s] IN
          z.v = y.v /\ z.level = y.level
    BY DEF SPRow
  <1>2. sp' = [sp EXCEPT ![i] = [sp[i] EXCEPT !.end = t, !.status = s]]
    OBVIOUS
  <1> QED BY <1>1, <1>2, LetterNumber DEF LettersLast

LEMMA LetterCompleted ==
  ASSUME TypeOK, NEW i \in DOMAIN sp, sp' = [sp EXCEPT ![i].status = COMPLETED]
  PROVE  LettersLast /\ TermsLast /\ DOMAIN sp' = DOMAIN sp
  <1>1. \A y \in SPRow : LET z == [y EXCEPT !.status = COMPLETED] IN
          z.v = y.v /\ z.level = y.level /\ z.start = y.start /\ z.end = y.end
    BY DEF SPRow
  <1> QED BY <1>1, LetterNumber DEF LettersLast, TermsLast

LEMMA LetterIssued ==
  ASSUME Consistent, NEW p \in Workers, DetectWrite(p)
  PROVE  /\ LettersLast /\ TermsLast
         /\ \E i \in DOMAIN sp' : /\ DOMAIN sp' = DOMAIN sp \cup {i}
                                  /\ sp'[i].v = w[p].v /\ sp'[i].level = w[p].lvl
                                  /\ sp'[i].end = sp'[i].start + SPDuration
  <1>1. PICK x : x = NewSP(w[p].v, w[p].lvl)
    OBVIOUS
  <1>2. x \in SPRow
    BY <1>1, WorkerTyped, NewSPTyped
    DEF DetectWrite, Consistent, WorkSound, Sound, VendorSteps, LevelSteps
  <1>3. x.v = w[p].v /\ x.level = w[p].lvl /\ x.end = x.start + SPDuration
    BY <1>1 DEF NewSP
  <1>4. sp' = Append(sp, x) /\ sp \in Seq(SPRow)
    BY <1>1 DEF DetectWrite, Consistent, TypeOK
  <1>5. /\ DOMAIN sp' = DOMAIN sp \cup {Len(sp) + 1} /\ sp'[Len(sp) + 1] = x
        /\ \A i \in DOMAIN sp : sp'[i] = sp[i]
    BY <1>2, <1>4, AppendRow
  <1> QED BY <1>3, <1>5 DEF LettersLast, TermsLast

(* Who writes letters, and who writes vendors.                              *)
LEMMA WhoWrites ==
  ASSUME OnlyDetector, NobodyAt(Rewriting), [Next]_vars
  PROVE  /\ \/ sp' = sp
            \/ \E p \in Workers : DetectWrite(p) \/ ExtendWrite(p) \/ CompleteWrite(p) \/ JobComplete(p)
         /\ \/ vendor' = vendor
            \/ \E p \in Workers : DetectDeactivate(p) \/ ReactivateCommit(p) \/ JobReactivate(p)
            \/ \E v \in Vendor : RemoveVendor(v)
  <1>1. ASSUME NEW p \in Workers, ManualLog(p)
        PROVE  FALSE
    BY <1>1 DEF ManualLog, LogCreate, LogTotal, LogFind, IssueFind, IssueDeactivate, IssueCreate,
                DropSP, DropReactivate, RewriteSP, RewriteDeactivate, OnlyDetector, NobodyAt,
                Rewriting, ByHand
  <1>2. ASSUME NEW p \in Workers, Revision(p)
        PROVE  UNCHANGED <<sp, vendor>>
    <2>1. ~ApproveCommit(p)
      BY DEF ApproveCommit, NobodyAt, Rewriting, ReviewSteps, CorrectSteps
    <2> QED BY <1>2, <2>1 DEF Revision, RequestCheck, RequestCreate, ApproveRead, RejectRead,
                              ApproveCorrect, ApproveFind, RejectCommit
  <1>3. ASSUME NEW p \in Workers, Detect(p)
        PROVE  /\ sp' = sp \/ DetectWrite(p)
               /\ vendor' = vendor \/ DetectDeactivate(p)
    BY <1>3 DEF Detect, DetectCheck, DetectCreate, DetectTotal, DetectFind, DetectWrite,
                DetectDeactivate
  <1>4. ASSUME NEW p \in Workers, SPAdmin(p)
        PROVE  /\ sp' = sp \/ ExtendWrite(p) \/ CompleteWrite(p)
               /\ vendor' = vendor \/ ReactivateCommit(p)
    BY <1>4 DEF SPAdmin, ExtendRead, ExtendWrite, CompleteRead, CompleteWrite, ReactivateRead,
                ReactivateCommit
  <1>5. ASSUME NEW p \in Workers, Job(p) \/ Fail(p)
        PROVE  /\ sp' = sp \/ JobComplete(p)
               /\ vendor' = vendor \/ JobReactivate(p)
    BY <1>5 DEF Job, NightlyStart, QuarterlyCron, QuarterlyAtStartup, StartJob, JobComplete,
                JobListSP3, JobReactivate, JobEnd, Fail
  <1>6. ASSUME TypeAdmin \/ (\E v \in Vendor : RemoveVendor(v)) \/ Tick \/ UNCHANGED vars
        PROVE  sp' = sp /\ (vendor' = vendor \/ \E v \in Vendor : RemoveVendor(v))
    BY <1>6 DEF TypeAdmin, RemoveVendor, Tick, vars
  <1> QED BY <1>1, <1>2, <1>3, <1>4, <1>5, <1>6 DEF Next

LEMMA NextLettersLast ==
  ASSUME OnlyDetector, Consistent, NobodyAt(Rewriting), [Next]_vars
  PROVE  LettersLast
  <1>w. \A p \in Workers : w[p] \in Work /\ Sound(w[p])
    BY WorkerTyped DEF Consistent, WorkSound
  <1>1. ASSUME NEW p \in Workers, ExtendWrite(p)
        PROVE  LettersLast
    <2>1. PICK i \in DOMAIN sp : i = w[p].id
      BY <1>1, <1>w DEF ExtendWrite, Sound, LetterSteps
    <2>2. PICK n \in Nat : n = w[p].n
      BY <1>w DEF Work
    <2>3. sp' = [sp EXCEPT ![i].end = n, ![i].status = EXTENDED]
      BY <1>1, <2>1, <2>2 DEF ExtendWrite
    <2>4. EXTENDED \in 1..3
      BY DEF EXTENDED
    <2> QED BY <2>3, <2>4, LetterDated DEF Consistent
  <1>2. ASSUME NEW p \in Workers, CompleteWrite(p)
        PROVE  LettersLast
    <2>1. PICK i \in DOMAIN sp : i = w[p].id
      BY <1>2, <1>w DEF CompleteWrite, Sound, LetterSteps
    <2>3. sp' = [sp EXCEPT ![i].end = now, ![i].status = COMPLETED]
      BY <1>2, <2>1 DEF CompleteWrite
    <2>4. COMPLETED \in 1..3 /\ now \in Nat
      BY NowTyped DEF COMPLETED, Consistent
    <2> QED BY <2>3, <2>4, LetterDated DEF Consistent
  <1>3. ASSUME NEW p \in Workers, JobComplete(p)
        PROVE  LettersLast
    <2>1. PICK i \in w[p].todo : sp' = [sp EXCEPT ![i].status = COMPLETED]
      BY <1>3 DEF JobComplete
    <2>2. i \in DOMAIN sp
      BY <1>3, <1>w DEF JobComplete, Sound, JobSteps
    <2> QED BY <2>1, <2>2, LetterCompleted DEF Consistent
  <1>4. sp' = sp => LettersLast
    BY DEF LettersLast
  <1> QED BY <1>1, <1>2, <1>3, <1>4, WhoWrites, LetterIssued

(* The vendor the detector is about to put out of action has its SP3.       *)
HasSP3(v) == \E i \in DOMAIN sp : sp[i].v = v /\ sp[i].level = 3
Deactivating == \A p \in Workers, v \in Vendor : w[p].at = "detect.deactivate" /\ w[p].v = v => HasSP3(v)

LEMMA NextDeactivating ==
  ASSUME OnlyDetector, Consistent, NobodyAt(Rewriting), Deactivating, [Next]_vars
  PROVE  Deactivating'
  <1>w. w \in [Workers -> Work] /\ \A p \in Workers : w[p] \in Work
    BY WorkerTyped DEF Consistent, TypeOK
  <1>l. \A v \in Vendor : HasSP3(v) => HasSP3(v)'
    BY NextLettersLast DEF LettersLast, HasSP3
  <1>1. ASSUME \A q \in Workers : w'[q] = w[q] \/ w'[q].at # "detect.deactivate"
        PROVE  Deactivating'
    BY <1>1, <1>l DEF Deactivating
  <1>2. ASSUME NEW p \in Workers, NEW S, At(p, S), "detect.deactivate" \notin S
        PROVE  Deactivating'
    BY <1>1, <1>2 DEF At
  <1>s. /\ \A S \in {Administering, AtNight, Requesting, {"idle"}, {"detect.create"}, {"detect.total"},
                    {"detect.find"}, {"detect.write"}} : "detect.deactivate" \notin S
        /\ {"detect.total", "detect.find", "detect.write", "detect.deactivate"} \subseteq Steps
    BY DEF Administering, AtNight, Requesting, Steps
  <1>3. ASSUME NEW p \in Workers, DetectWrite(p)
        PROVE  Deactivating'
    <2>1. CASE Done(p)
      BY <1>2, <1>s, <2>1, Went DEF Consistent
    <2>2. CASE w[p].lvl = 3 /\ Goto(p, "detect.deactivate")
      <3>1. w'[p].v = w[p].v /\ \A q \in Workers : q # p => w'[q] = w[q]
        BY <1>w, <2>2 DEF Goto, Work
      <3>2. \A v \in Vendor : w[p].v = v => HasSP3(v)'
        BY <1>3, <2>2, LetterIssued DEF HasSP3
      <3> QED BY <1>l, <3>1, <3>2 DEF Deactivating
    <2> QED BY <1>3, <2>1, <2>2 DEF DetectWrite
  <1>4. ASSUME NEW p \in Workers, Detect(p)
        PROVE  Deactivating'
    <2>1. ASSUME NEW v \in Vendor, NEW t \in VType, NEW o \in Order, DetectCheck(p, v, t, o)
          PROVE  At(p, {"detect.create"})
      <3>1. PICK y : y = [NoWork EXCEPT !.at = "detect.create", !.v = v, !.t = t, !.o = o]
        OBVIOUS
      <3>2. y.at = "detect.create"
        BY <3>1 DEF NoWork
      <3> QED BY <2>1, <3>1, <3>2, Went DEF DetectCheck, Consistent
    <2>2. ASSUME DetectTotal(p)
          PROVE  At(p, {"idle"}) \/ At(p, {"detect.find"})
      <3>1. PICK l : Done(p) \/ w' = [w EXCEPT ![p].at = "detect.find", ![p].lvl = l]
        BY <2>2 DEF DetectTotal
      <3>2. CASE w' = [w EXCEPT ![p].at = "detect.find", ![p].lvl = l]
        BY <3>2, <1>w DEF At, Work
      <3> QED BY <3>1, <3>2, Went DEF Consistent
    <2>3. ASSUME DetectCreate(p) \/ DetectFind(p) \/ DetectDeactivate(p)
          PROVE  At(p, {"detect.total"}) \/ At(p, {"idle"}) \/ At(p, {"detect.write"})
      <3>1. Done(p) \/ Goto(p, "detect.total") \/ Goto(p, "detect.write")
        BY <2>3 DEF DetectCreate, DetectFind, DetectDeactivate
      <3> QED BY <1>s, <3>1, Went DEF Consistent
    <2> QED BY <1>2, <1>3, <1>4, <1>s, <2>1, <2>2, <2>3 DEF Detect
  <1>5. ASSUME NEW p \in Workers, ManualLog(p)
        PROVE  FALSE
    BY <1>5 DEF ManualLog, LogCreate, LogTotal, LogFind, IssueFind, IssueDeactivate, IssueCreate,
                DropSP, DropReactivate, RewriteSP, RewriteDeactivate, OnlyDetector, NobodyAt,
                Rewriting, ByHand
  <1>6. ASSUME NEW p \in Workers, Revision(p)
        PROVE  Deactivating'
    <2>1. ~ApproveCommit(p) /\ ~RejectCommit(p) /\ ~ApproveCorrect(p) /\ ~ApproveFind(p)
      BY DEF ApproveCommit, RejectCommit, ApproveCorrect, ApproveFind, NobodyAt, Rewriting,
             ReviewSteps, CorrectSteps
    <2>2. \A r \in DOMAIN requests : ~ApproveRead(p, r) /\ ~RejectRead(p, r)
      BY DEF ApproveRead, RejectRead, OnlyDetector, NobodyAt
    <2> QED BY <1>2, <1>6, <1>s, <2>1, <2>2, RevisionMoves DEF Consistent
  <1>7. ASSUME NEW p \in Workers, SPAdmin(p) \/ Job(p) \/ Fail(p)
        PROVE  Deactivating'
    BY <1>2, <1>7, <1>s, SPAdminMoves, JobMoves DEF Consistent
  <1>8. ASSUME TypeAdmin \/ (\E v \in Vendor : RemoveVendor(v)) \/ Tick \/ UNCHANGED vars
        PROVE  Deactivating'
    BY <1>1, <1>8 DEF TypeAdmin, RemoveVendor, Tick, vars
  <1> QED BY <1>4, <1>5, <1>6, <1>7, <1>8 DEF Next

LEMMA NextInactive ==
  ASSUME OnlyDetector, Consistent, NobodyAt(Rewriting), Deactivating, InactiveHasSP3, [Next]_vars
  PROVE  InactiveHasSP3'
  <1>v. vendor \in [Vendor -> VendorRow]
    BY DEF Consistent, TypeOK
  <1>l. \A v \in Vendor : HasSP3(v) => HasSP3(v)'
    BY NextLettersLast DEF LettersLast, HasSP3
  <1>h. \A v \in Vendor : ~vendor[v].active /\ ~vendor[v].deleted => HasSP3(v)
    BY DEF InactiveHasSP3, HasSP3
  <1>1. ASSUME \A v \in Vendor : \/ vendor'[v] = vendor[v]
                                 \/ vendor'[v].active \/ vendor'[v].deleted \/ HasSP3(v)
        PROVE  InactiveHasSP3'
    <2>1. \A v \in Vendor : ~vendor'[v].active /\ ~vendor'[v].deleted => HasSP3(v)'
      BY <1>1, <1>h, <1>l
    <2> QED BY <2>1 DEF InactiveHasSP3, HasSP3
  <1>2. ASSUME NEW u, NEW b \in BOOLEAN, SetActive(u, b), b \/ (u \in Vendor => HasSP3(u))
        PROVE  InactiveHasSP3'
    <2>1. \A v \in Vendor : v # u => vendor'[v] = vendor[v]
      BY <1>2, <1>v DEF SetActive
    <2>2. u \in Vendor => vendor'[u].active = b
      BY <1>2, <1>v DEF SetActive, VendorRow
    <2> QED BY <1>1, <1>2, <2>1, <2>2
  <1>3. ASSUME NEW p \in Workers, DetectDeactivate(p)
        PROVE  InactiveHasSP3'
    <2>1. PICK u : u = w[p].v
      OBVIOUS
    <2>2. u \in Vendor => HasSP3(u)
      BY <1>3, <2>1 DEF DetectDeactivate, Deactivating
    <2>3. SetActive(u, FALSE)
      BY <1>3, <2>1 DEF DetectDeactivate
    <2> QED BY <1>2, <2>2, <2>3
  <1>4. ASSUME NEW p \in Workers, ReactivateCommit(p) \/ JobReactivate(p)
        PROVE  InactiveHasSP3'
    <2>1. PICK u : SetActive(u, TRUE)
      BY <1>4 DEF ReactivateCommit, JobReactivate
    <2> QED BY <1>2, <2>1
  <1>5. ASSUME NEW u \in Vendor, RemoveVendor(u)
        PROVE  InactiveHasSP3'
    <2>1. vendor'[u].deleted /\ \A v \in Vendor : v # u => vendor'[v] = vendor[v]
      BY <1>5, <1>v DEF RemoveVendor
    <2> QED BY <1>1, <2>1
  <1> QED BY <1>1, <1>3, <1>4, <1>5, WhoWrites

(* However handlers interleave or fail, a vendor out of action has an SP3   *)
(* as long as only the detector issues letters (recordViolation writes the  *)
(* letter before the vendor).                                               *)
THEOREM SpecInactiveHasSP3 == OnlyDetector => (Spec => []InactiveHasSP3)
  <1> SUFFICES ASSUME OnlyDetector PROVE Spec => []InactiveHasSP3
    OBVIOUS
  <1>1. Init => NobodyAt(Rewriting) /\ Deactivating /\ InactiveHasSP3
    <2>1. NoWork.at = "idle"
      BY DEF NoWork
    <2> QED BY <2>1 DEF Init, NobodyAt, Deactivating, InactiveHasSP3, Rewriting, ReviewSteps, CorrectSteps
  <1>2. Consistent /\ NobodyAt(Rewriting) /\ Deactivating /\ InactiveHasSP3 /\ [Next]_vars =>
          NobodyAt(Rewriting)' /\ Deactivating' /\ InactiveHasSP3'
    BY NextNobodyRewrites, NextDeactivating, NextInactive DEF Consistent
  <1> QED BY <1>1, <1>2, InitConsistent, NextConsistent, PTL DEF Spec

-----------------------------------------------------------------------------
(* Where, besides, nobody moves a letter's dates by hand, the list the      *)
(* nightly job works through holds SP3s that ran their full time.           *)
DatesStand == Ops \cap {"extend", "complete"} = {}

Dating == {"extend.write", "complete.write"}
FullTerm == \A i \in DOMAIN sp : sp[i].end = sp[i].start + SPDuration
Returning ==
  \A p \in Workers, i \in DOMAIN sp :
    w[p].at = "job.reactivate" /\ i \in w[p].todo => sp[i].level = 3 /\ sp[i].end < now

LEMMA NextNobodyDates ==
  ASSUME DatesStand, TypeOK, NobodyAt(Dating), [Next]_vars
  PROVE  NobodyAt(Dating)'
  <1>1. ASSUME NEW p \in Workers, NEW S, S \cap Dating = {}, At(p, S)
        PROVE  NobodyAt(Dating)'
    BY <1>1 DEF At, NobodyAt
  <1>s. \A S \in {Detecting, ByHand, AtNight, Requesting, {"idle"}, {"reactivate.commit"},
                  {"detect.create"}, {"approve.correct"}, {"reject.commit"}, {"approve.find"},
                  {"approve.commit"}} :
          S \cap Dating = {}
    BY DEF Detecting, ByHand, AtNight, Requesting, Dating
  <1>2. ASSUME NEW p \in Workers, NEW y, Begin(p, y), y.at \notin Dating
        PROVE  NobodyAt(Dating)'
    <2>1. At(p, {y.at})
      BY <1>2, Went
    <2> QED BY <1>1, <1>2, <2>1
  <1>3. ASSUME NEW p \in Workers, Detect(p)
        PROVE  NobodyAt(Dating)'
    <2>1. ASSUME NEW v \in Vendor, NEW t \in VType, NEW o \in Order, DetectCheck(p, v, t, o)
          PROVE  NobodyAt(Dating)'
      <3>1. PICK y : y = [NoWork EXCEPT !.at = "detect.create", !.v = v, !.t = t, !.o = o]
        OBVIOUS
      <3>2. y.at \notin Dating
        BY <3>1 DEF NoWork, Dating
      <3> QED BY <1>2, <2>1, <3>1, <3>2 DEF DetectCheck
    <2> QED BY <1>1, <1>3, <1>s, <2>1, DetectMoves
  <1>4. ASSUME NEW p \in Workers, ManualLog(p) \/ Job(p) \/ Fail(p)
        PROVE  NobodyAt(Dating)'
    BY <1>1, <1>4, <1>s, ManualLogMoves, JobMoves
  <1>5. ASSUME NEW p \in Workers, SPAdmin(p)
        PROVE  NobodyAt(Dating)'
    <2>1. ASSUME NEW v \in Vendor, ReactivateRead(p, v)
          PROVE  NobodyAt(Dating)'
      <3>1. PICK y : y = [NoWork EXCEPT !.at = "reactivate.commit", !.v = v]
        OBVIOUS
      <3>2. y.at \notin Dating
        BY <3>1 DEF NoWork, Dating
      <3> QED BY <1>2, <2>1, <3>1, <3>2 DEF ReactivateRead
    <2>2. ASSUME ExtendWrite(p) \/ CompleteWrite(p) \/ ReactivateCommit(p)
          PROVE  NobodyAt(Dating)'
      <3>1. Done(p)
        BY <2>2 DEF ExtendWrite, CompleteWrite, ReactivateCommit
      <3> QED BY <1>1, <1>s, <3>1, Went
    <2>3. \A i \in DOMAIN sp, end \in EndDates : ~ExtendRead(p, i, end)
      BY DEF DatesStand, ExtendRead
    <2>4. \A i \in DOMAIN sp : ~CompleteRead(p, i)
      BY DEF DatesStand, CompleteRead
    <2> QED BY <1>5, <2>1, <2>2, <2>3, <2>4 DEF SPAdmin
  <1>6. ASSUME NEW p \in Workers, Revision(p)
        PROVE  NobodyAt(Dating)'
    <2>1. ASSUME NEW r \in DOMAIN requests, ApproveRead(p, r) \/ RejectRead(p, r)
          PROVE  NobodyAt(Dating)'
      <3>1. PICK y : Begin(p, y) /\ y.at \in {"approve.correct", "reject.commit"}
        <4>1. \/ Begin(p, [NoWork EXCEPT !.at = "approve.correct", !.v = requests[r].v, !.n = r])
              \/ Begin(p, [NoWork EXCEPT !.at = "reject.commit", !.n = r])
          BY <2>1 DEF ApproveRead, RejectRead
        <4>2. /\ [NoWork EXCEPT !.at = "approve.correct", !.v = requests[r].v, !.n = r].at = "approve.correct"
              /\ [NoWork EXCEPT !.at = "reject.commit", !.n = r].at = "reject.commit"
          BY DEF NoWork
        <4> QED BY <4>1, <4>2
      <3>2. y.at \notin Dating
        BY <3>1 DEF Dating
      <3> QED BY <1>2, <3>1, <3>2
    <2>2. ASSUME ApproveCorrect(p) \/ ApproveFind(p)
          PROVE  NobodyAt(Dating)'
      <3>1. PICK D, i, l : \/ w' = [w EXCEPT ![p].at = "approve.find", ![p].todo = D]
                           \/ w' = [w EXCEPT ![p].at = "approve.commit", ![p].id = i, ![p].lvl = l]
        BY <2>2 DEF ApproveCorrect, ApproveFind
      <3>2. w \in [Workers -> Work] /\ w[p] \in Work
        BY WorkerTyped DEF TypeOK
      <3>3. At(p, {"approve.find"}) \/ At(p, {"approve.commit"})
        BY <3>1, <3>2 DEF At, Work
      <3> QED BY <1>1, <1>s, <3>3
    <2> QED BY <1>1, <1>6, <1>s, <2>1, <2>2, RevisionMoves
  <1>7. ASSUME TypeAdmin \/ (\E v \in Vendor : RemoveVendor(v)) \/ Tick \/ UNCHANGED vars
        PROVE  NobodyAt(Dating)'
    BY <1>7 DEF TypeAdmin, RemoveVendor, Tick, vars, NobodyAt
  <1> QED BY <1>3, <1>4, <1>5, <1>6, <1>7 DEF Next

(* No letter's dates change, and a new letter has its full term.            *)
LEMMA NextFullTerm ==
  ASSUME OnlyDetector, Consistent, NobodyAt(Rewriting), NobodyAt(Dating), FullTerm, [Next]_vars
  PROVE  LettersLast /\ TermsLast /\ FullTerm'
  <1>1. ASSUME LettersLast, TermsLast, DOMAIN sp' = DOMAIN sp
        PROVE  FullTerm'
    BY <1>1 DEF TermsLast, FullTerm
  <1>2. ASSUME NEW p \in Workers, DetectWrite(p)
        PROVE  LettersLast /\ TermsLast /\ FullTerm'
    <2>1. LettersLast /\ TermsLast
      BY <1>2, LetterIssued
    <2>2. PICK i \in DOMAIN sp' : DOMAIN sp' = DOMAIN sp \cup {i} /\ sp'[i].end = sp'[i].start + SPDuration
      BY <1>2, LetterIssued
    <2> QED BY <2>1, <2>2 DEF TermsLast, FullTerm
  <1>3. ASSUME NEW p \in Workers, ExtendWrite(p) \/ CompleteWrite(p)
        PROVE  FALSE
    BY <1>3 DEF ExtendWrite, CompleteWrite, NobodyAt, Dating
  <1>4. ASSUME NEW p \in Workers, JobComplete(p)
        PROVE  LettersLast /\ TermsLast /\ FullTerm'
    <2>1. PICK i \in w[p].todo : sp' = [sp EXCEPT ![i].status = COMPLETED]
      BY <1>4 DEF JobComplete
    <2>2. i \in DOMAIN sp
      BY <1>4, WorkerTyped DEF JobComplete, Consistent, WorkSound, Sound, JobSteps
    <2> QED BY <1>1, <2>1, <2>2, LetterCompleted DEF Consistent
  <1>5. ASSUME sp' = sp
        PROVE  LettersLast /\ TermsLast /\ FullTerm'
    <2>1. LettersLast /\ TermsLast
      BY <1>5 DEF LettersLast, TermsLast
    <2> QED BY <1>1, <1>5, <2>1
  <1> QED BY <1>2, <1>3, <1>4, <1>5, WhoWrites

LEMMA NextReturning ==
  ASSUME OnlyDetector, Consistent, NobodyAt(Rewriting), NobodyAt(Dating), FullTerm, Returning,
         [Next]_vars
  PROVE  Returning'
  <1>w. /\ w \in [Workers -> Work] /\ \A p \in Workers : w[p] \in Work
        /\ \A p \in Workers : w[p].at = "job.reactivate" => w[p].todo \subseteq DOMAIN sp
    BY WorkerTyped DEF Consistent, TypeOK, WorkSound, Sound, JobSteps
  <1>l. LettersLast /\ TermsLast
    BY NextFullTerm
  <1>1. ASSUME now' = now, \A q \in Workers : w'[q] = w[q] \/ w'[q].at # "job.reactivate"
        PROVE  Returning'
    <2> SUFFICES ASSUME NEW q \in Workers, NEW i \in DOMAIN sp', w'[q].at = "job.reactivate",
                        i \in w'[q].todo
                 PROVE  sp'[i].level = 3 /\ sp'[i].end < now'
      BY DEF Returning
    <2>1. w'[q] = w[q]
      BY <1>1
    <2>2. i \in DOMAIN sp
      BY <1>w, <2>1
    <2> QED BY <1>1, <1>l, <2>1, <2>2 DEF Returning, LettersLast, TermsLast
  <1>2. ASSUME NEW p \in Workers, NEW S, now' = now, At(p, S), "job.reactivate" \notin S
        PROVE  Returning'
    BY <1>1, <1>2 DEF At
  <1>s. /\ \A S \in {Detecting, ByHand, Administering, Requesting, {"idle"}, {"detect.create"}, {"job.complete"}} :
             "job.reactivate" \notin S
        /\ {"idle", "job.complete"} \subseteq Steps
    BY DEF Detecting, ByHand, Administering, Requesting, Steps
  <1>3. ASSUME NEW p \in Workers, Detect(p)
        PROVE  Returning'
    <2>1. ASSUME NEW v \in Vendor, NEW t \in VType, NEW o \in Order, DetectCheck(p, v, t, o)
          PROVE  At(p, {"detect.create"})
      <3>1. PICK y : y = [NoWork EXCEPT !.at = "detect.create", !.v = v, !.t = t, !.o = o]
        OBVIOUS
      <3>2. y.at = "detect.create"
        BY <3>1 DEF NoWork
      <3> QED BY <2>1, <3>1, <3>2, Went DEF DetectCheck, Consistent
    <2>2. now' = now
      BY <1>3 DEF Detect, DetectCheck, DetectCreate, DetectTotal, DetectFind, DetectWrite, DetectDeactivate
    <2> QED BY <1>2, <1>3, <1>s, <2>1, <2>2, DetectMoves DEF Consistent
  <1>4. ASSUME NEW p \in Workers, ManualLog(p)
        PROVE  FALSE
    BY <1>4 DEF ManualLog, LogCreate, LogTotal, LogFind, IssueFind, IssueDeactivate, IssueCreate,
                DropSP, DropReactivate, RewriteSP, RewriteDeactivate, OnlyDetector, NobodyAt,
                Rewriting, ByHand
  <1>5. ASSUME NEW p \in Workers, Revision(p)
        PROVE  Returning'
    <2>1. ~ApproveCommit(p) /\ ~RejectCommit(p) /\ ~ApproveCorrect(p) /\ ~ApproveFind(p)
      BY DEF ApproveCommit, RejectCommit, ApproveCorrect, ApproveFind, NobodyAt, Rewriting,
             ReviewSteps, CorrectSteps
    <2>2. \A r \in DOMAIN requests : ~ApproveRead(p, r) /\ ~RejectRead(p, r)
      BY DEF ApproveRead, RejectRead, OnlyDetector, NobodyAt
    <2>3. now' = now
      BY <1>5, <2>1, <2>2 DEF Revision, RequestCheck, RequestCreate
    <2> QED BY <1>2, <1>5, <1>s, <2>1, <2>2, <2>3, RevisionMoves DEF Consistent
  <1>6. ASSUME NEW p \in Workers, SPAdmin(p)
        PROVE  Returning'
    <2>1. now' = now
      BY <1>6 DEF SPAdmin, ExtendRead, ExtendWrite, CompleteRead, CompleteWrite, ReactivateRead,
                  ReactivateCommit
    <2> QED BY <1>2, <1>6, <1>s, <2>1, SPAdminMoves DEF Consistent
  <1>7. ASSUME NEW p \in Workers, NEW b, StartJob(p, b)
        PROVE  Returning'
    <2>1. PICK y, D : /\ y = [NoWork EXCEPT !.at = "job.complete", !.quarterly = b, !.todo = D]
                      /\ Begin(p, y)
      BY <1>7 DEF StartJob
    <2>2. y.at = "job.complete"
      BY <2>1 DEF NoWork
    <2> QED BY <1>2, <1>7, <1>s, <2>1, <2>2, Went DEF StartJob, Consistent
  <1>8. ASSUME NEW p \in Workers, JobComplete(p)
        PROVE  Returning'
    <2>1. PICK i : w' = [w EXCEPT ![p].todo = @ \ {i}]
      BY <1>8 DEF JobComplete
    <2>2. w'[p].at = "job.complete" /\ \A q \in Workers : q # p => w'[q] = w[q]
      BY <1>8, <1>w, <2>1 DEF JobComplete, Work
    <2> QED BY <1>1, <1>8, <2>2 DEF JobComplete
  <1>9. ASSUME NEW p \in Workers, JobListSP3(p)
        PROVE  Returning'
    <2>1. PICK D : D = {i \in DOMAIN sp : /\ sp[i].level = 3
                                          /\ sp[i].status = COMPLETED
                                          /\ sp[i].end < now
                                          /\ ~vendor[sp[i].v].active}
      OBVIOUS
    <2>2. w' = [w EXCEPT ![p].at = "job.reactivate", ![p].todo = D] /\ UNCHANGED <<now, sp>>
      BY <1>9, <2>1 DEF JobListSP3
    <2>3. w'[p].todo = D /\ \A q \in Workers : q # p => w'[q] = w[q]
      BY <1>w, <2>2 DEF Work
    <2> QED BY <2>1, <2>2, <2>3 DEF Returning
  <1>10. ASSUME NEW p \in Workers, JobReactivate(p)
         PROVE  Returning'
    <2>1. PICK i : w' = [w EXCEPT ![p].todo = @ \ {i}]
      BY <1>10 DEF JobReactivate
    <2>2. w'[p].todo \subseteq w[p].todo /\ \A q \in Workers : q # p => w'[q] = w[q]
      BY <1>w, <2>1 DEF Work
    <2>3. w[p].at = "job.reactivate" /\ UNCHANGED <<now, sp>>
      BY <1>10 DEF JobReactivate
    <2> QED BY <2>2, <2>3 DEF Returning
  <1>11. ASSUME NEW p \in Workers, JobEnd(p) \/ Fail(p)
         PROVE  Returning'
    BY <1>2, <1>11, <1>s, Went DEF JobEnd, Fail, Consistent
  <1>12. CASE Tick
    <2>1. NoWork.at = "idle"
      BY DEF NoWork
    <2> QED BY <1>12, <2>1 DEF Tick, Returning
  <1>13. ASSUME TypeAdmin \/ (\E v \in Vendor : RemoveVendor(v)) \/ UNCHANGED vars
         PROVE  Returning'
    BY <1>1, <1>13 DEF TypeAdmin, RemoveVendor, vars
  <1> QED BY <1>3, <1>4, <1>5, <1>6, <1>7, <1>8, <1>9, <1>10, <1>11, <1>12, <1>13
          DEF Next, Job, NightlyStart, QuarterlyCron, QuarterlyAtStartup

LEMMA ReturnIsNatural ==
  ASSUME OnlyDetector, Consistent, NobodyAt(Rewriting), FullTerm, Returning, [Next]_vars,
         NEW v \in Vendor, ReturnedByJob(v)
  PROVE  \E i \in DOMAIN sp : /\ sp[i].v = v /\ sp[i].level = 3
                              /\ sp[i].end >= sp[i].start + SPDuration
                              /\ sp[i].end < now
  <1>v. vendor \in [Vendor -> VendorRow]
    BY DEF Consistent, TypeOK
  <1>r. ~vendor[v].active /\ vendor'[v].active
    BY DEF ReturnedByJob
  <1>1. ASSUME NEW p \in Workers, DetectDeactivate(p)
        PROVE  FALSE
    <2>1. PICK u : SetActive(u, FALSE)
      BY <1>1 DEF DetectDeactivate
    <2>2. vendor'[v] = vendor[v] \/ vendor'[v].active = FALSE
      BY <1>v, <2>1 DEF SetActive, VendorRow
    <2> QED BY <1>r, <2>2
  <1>2. ASSUME NEW u \in Vendor, RemoveVendor(u)
        PROVE  FALSE
    <2>1. vendor'[v] = vendor[v] \/ vendor'[v].active = FALSE
      BY <1>2, <1>v DEF RemoveVendor
    <2> QED BY <1>r, <2>1
  <1>3. ASSUME NEW p \in Workers, ReactivateCommit(p)
        PROVE  FALSE
    <2>1. PICK q \in Workers : w[q].at = "job.reactivate" /\ w'[q] # w[q]
      BY DEF ReturnedByJob
    <2>2. q = p
      BY <1>3, <2>1 DEF ReactivateCommit, Done, Consistent, TypeOK
    <2> QED BY <1>3, <2>1, <2>2 DEF ReactivateCommit
  <1>4. ASSUME NEW p \in Workers, JobReactivate(p)
        PROVE  \E i \in DOMAIN sp : /\ sp[i].v = v /\ sp[i].level = 3
                                    /\ sp[i].end >= sp[i].start + SPDuration
                                    /\ sp[i].end < now
    <2>1. PICK i \in w[p].todo : SetActive(sp[i].v, TRUE) /\ w[p].at = "job.reactivate"
      BY <1>4 DEF JobReactivate
    <2>2. i \in DOMAIN sp
      BY <2>1 DEF Consistent, WorkSound, Sound, JobSteps
    <2>3. sp[i].v = v
      BY <1>r, <1>v, <2>1 DEF SetActive
    <2>4. sp[i].level = 3 /\ sp[i].end < now
      BY <2>1, <2>2 DEF Returning
    <2>5. sp[i].end = sp[i].start + SPDuration /\ sp[i].end \in Nat
      BY <2>2, LetterNumber DEF FullTerm, Consistent, SPRow
    <2> QED BY <2>2, <2>3, <2>4, <2>5
  <1>5. vendor' # vendor
    BY <1>r
  <1> QED BY <1>1, <1>2, <1>3, <1>4, <1>5, WhoWrites

(* The nightly job gives back only vendors whose SP3 ran its full time      *)
(* (reactivateExpiredSP3Vendors), where nobody issues, rewrites or dates    *)
(* letters by hand.                                                        *)
THEOREM SpecAutoReactivationIsNatural ==
  OnlyDetector /\ DatesStand => (Spec => AutoReactivationIsNatural)
  <1> SUFFICES ASSUME OnlyDetector, DatesStand PROVE Spec => AutoReactivationIsNatural
    OBVIOUS
  <1> DEFINE Lasts == NobodyAt(Rewriting) /\ NobodyAt(Dating) /\ FullTerm /\ Returning
  <1>1. Init => Lasts
    <2>1. NoWork.at = "idle"
      BY DEF NoWork
    <2> QED BY <2>1 DEF Init, NobodyAt, FullTerm, Returning, Rewriting, Dating, ReviewSteps, CorrectSteps
  <1>2. Consistent /\ Lasts /\ [Next]_vars => Lasts'
    BY NextNobodyRewrites, NextNobodyDates, NextFullTerm, NextReturning DEF Consistent
  <1>3. Spec => [](Consistent /\ Lasts)
    <2> HIDE DEF Lasts
    <2> QED BY <1>1, <1>2, InitConsistent, NextConsistent, PTL DEF Spec
  <1>4. Consistent /\ Lasts /\ [Next]_vars =>
          [\A v \in Vendor : ReturnedByJob(v) =>
             \E i \in DOMAIN sp : /\ sp[i].v = v /\ sp[i].level = 3
                                  /\ sp[i].end >= sp[i].start + SPDuration
                                  /\ sp[i].end < now]_vars
    BY ReturnIsNatural
  <1> HIDE DEF Lasts
  <1> QED BY <1>3, <1>4, PTL DEF Spec, AutoReactivationIsNatural

=============================================================================
