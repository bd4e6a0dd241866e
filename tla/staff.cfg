SPECIFICATION FairSpec
CONSTANTS
  s1 = s1
  s2 = s2
  m1 = m1
  m2 = m2
  m3 = m3
  t1 = t1
  
  Sales = {s1, s2}
  Managers = {m1, m2, m3}
  Tukang = {t1}
  Stores = {"a", "b"}
  Known <- KnownStaff
  LastUser = 5
  Workers = {1, 2}
  Batch <- OneAtATime
  MaxEvents = 2
INVARIANTS
  TypeOK
  RemovedStaysOut
  OneActiveManager
PROPERTIES
  IdleGoesOff
CHECK_DEADLOCK FALSE
