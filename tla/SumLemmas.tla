------------------------------ MODULE SumLemmas ------------------------------
(***************************************************************************)
(* Sums of natural numbers over a finite set (SumFunctionOnSet): they are   *)
(* natural numbers, depend on the summands alone and grow with them.  The   *)
(* order of summation is that of a CHOOSE, so each fact goes by the         *)
(* smallest set that would be an exception.                                 *)
(***************************************************************************)
EXTENDS Naturals, FiniteSets, Functions, TLAPS, FiniteSetTheorems, WellFoundedInduction

(* A set of numbers has a smallest member.                                  *)
LEMMA Smallest ==
  ASSUME NEW T, T \subseteq Nat, T # {}
  PROVE  \E x \in T : \A y \in T : x <= y
  <1>1. PICK R : R = {ss \in Nat \X Nat : ss[1] < ss[2]}
    OBVIOUS
  <1>2. IsWellFoundedOn(R, Nat)
    BY <1>1, NatLessThanWellFounded DEF OpToRel
  <1>3. PICK x \in T : \A y \in T : ~(<<y, x>> \in R)
    BY <1>2, WFMin
  <1>4. \A y \in T : ~(y < x)
    BY <1>1, <1>3
  <1> QED BY <1>4

-----------------------------------------------------------------------------
Some(s) == CHOOSE x \in s : TRUE

(* The table of the sums over the sets in T, as the fold defines it.        *)
Adds(g, f, T) ==
  g = [s \in T |-> IF s = {} THEN 0 ELSE f[Some(s)] + g[s \ {Some(s)}]]
Sums(f, D) == CHOOSE g : Adds(g, f, SUBSET D)

LEMMA SumGives ==
  ASSUME NEW f, NEW D
  PROVE  SumFunctionOnSet(f, D) = Sums(f, D)[D]
  BY Zenon DEF SumFunctionOnSet, FoldFunctionOnSet, MapThenFoldSet, Adds, Some, Sums

LEMMA OneLess ==
  ASSUME NEW D, IsFiniteSet(D), NEW s \in SUBSET D, s # {}
  PROVE  /\ Some(s) \in s /\ s \ {Some(s)} \in SUBSET D
         /\ Cardinality(s \ {Some(s)}) \in Nat /\ Cardinality(s) = Cardinality(s \ {Some(s)}) + 1
  <1>1. Some(s) \in s
    BY DEF Some
  <1>2. IsFiniteSet(s)
    BY FS_Subset
  <1>3. PICK t \in SUBSET D : t = s \ {Some(s)}
    OBVIOUS
  <1>4. Cardinality(t) \in Nat /\ Cardinality(s) \in Nat
    BY <1>2, <1>3, FS_Subset, FS_CardinalityType
  <1>5. Cardinality(t) = Cardinality(s) - 1
    BY <1>1, <1>2, <1>3, FS_RemoveElement
  <1>6. Cardinality(s) = Cardinality(t) + 1
    BY <1>4, <1>5
  <1> QED BY <1>1, <1>3, <1>4, <1>6

(* The subsets of D with at most n members, and a table of their sums.      *)
Upto(D, n) == {s \in SUBSET D : Cardinality(s) <= n}
Table(g, f, D, n) == g \in [Upto(D, n) -> Nat] /\ Adds(g, f, Upto(D, n))

LEMMA TableExists ==
  ASSUME NEW D, IsFiniteSet(D), NEW f, \A x \in D : f[x] \in Nat, NEW n \in Nat
  PROVE  \E g : Table(g, f, D, n)
  <1> DEFINE Bad == {k \in Nat : ~\E g : Table(g, f, D, k)}
  <1> SUFFICES ASSUME Bad # {} PROVE FALSE
    OBVIOUS
  <1>1. PICK k \in Bad : \A j \in Bad : k <= j
    BY Smallest
  <1>2. CASE k = 0
    <2>1. \A s \in Upto(D, 0) : s = {}
      BY FS_Subset, FS_EmptySet, FS_CardinalityType DEF Upto
    <2>2. PICK g : g = [s \in Upto(D, 0) |-> 0]
      OBVIOUS
    <2>3. Table(g, f, D, 0)
      BY <2>1, <2>2 DEF Table, Adds
    <2> QED BY <1>2, <2>3
  <1>3. CASE k # 0
    <2>1. k \in Nat /\ k - 1 \in Nat /\ k - 1 \notin Bad
      BY <1>1, <1>3
    <2>2. PICK h : Table(h, f, D, k - 1)
      BY <2>1
    <2>3. PICK g : g = [s \in Upto(D, k) |-> IF s = {} THEN 0 ELSE f[Some(s)] + h[s \ {Some(s)}]]
      OBVIOUS
    <2>4. \A s \in Upto(D, k) : s # {} =>
            /\ Some(s) \in D /\ s \ {Some(s)} \in Upto(D, k - 1) /\ s \ {Some(s)} \in Upto(D, k)
      BY <2>1, OneLess DEF Upto
    <2>5. \A s \in Upto(D, k - 1) : s \in Upto(D, k) /\ h[s] = g[s]
      <3>1. \A s \in Upto(D, k - 1) : s \in Upto(D, k)
        BY <2>1, FS_Subset, FS_CardinalityType DEF Upto
      <3>2. h = [s \in Upto(D, k - 1) |-> IF s = {} THEN 0 ELSE f[Some(s)] + h[s \ {Some(s)}]]
        BY <2>2 DEF Table, Adds
      <3> QED BY <2>3, <3>1, <3>2
    <2>6. g \in [Upto(D, k) -> Nat]
      <3>1. h \in [Upto(D, k - 1) -> Nat]
        BY <2>2 DEF Table
      <3> QED BY <2>3, <2>4, <3>1
    <2>7. Adds(g, f, Upto(D, k))
      BY <2>3, <2>4, <2>5 DEF Adds
    <2>8. Table(g, f, D, k)
      BY <2>6, <2>7 DEF Table
    <2> QED BY <1>1, <2>8
  <1> QED BY <1>2, <1>3

LEMMA SumsGive ==
  ASSUME NEW D, IsFiniteSet(D), NEW f, \A x \in D : f[x] \in Nat
  PROVE  \A s \in SUBSET D :
           Sums(f, D)[s] = IF s = {} THEN 0 ELSE f[Some(s)] + Sums(f, D)[s \ {Some(s)}]
  <1>1. Cardinality(D) \in Nat
    BY FS_CardinalityType
  <1>2. Upto(D, Cardinality(D)) = SUBSET D
    BY FS_Subset DEF Upto
  <1>3. PICK h : Table(h, f, D, Cardinality(D))
    BY <1>1, TableExists
  <1>4. \E g : Adds(g, f, SUBSET D)
    BY <1>2, <1>3 DEF Table
  <1>5. PICK g : g = Sums(f, D)
    OBVIOUS
  <1>6. Adds(g, f, SUBSET D)
    BY <1>4, <1>5 DEF Sums
  <1>7. \A s \in SUBSET D : g[s] = IF s = {} THEN 0 ELSE f[Some(s)] + g[s \ {Some(s)}]
    BY <1>6 DEF Adds
  <1> QED BY <1>5, <1>7

(* The sum of natural numbers is one.                                       *)
LEMMA PartsAreNat ==
  ASSUME NEW D, IsFiniteSet(D), NEW f, \A x \in D : f[x] \in Nat
  PROVE  \A s \in SUBSET D : Sums(f, D)[s] \in Nat
  <1>1. PICK g : g = Sums(f, D)
    OBVIOUS
  <1>2. \A s \in SUBSET D : g[s] = IF s = {} THEN 0 ELSE f[Some(s)] + g[s \ {Some(s)}]
    BY <1>1, SumsGive
  <1> DEFINE Bad == {n \in Nat : \E s \in SUBSET D : Cardinality(s) = n /\ g[s] \notin Nat}
  <1>3. Bad = {}
    <2> SUFFICES ASSUME Bad # {} PROVE FALSE
      OBVIOUS
    <2>1. PICK n \in Bad : \A m \in Bad : n <= m
      BY Smallest
    <2>2. PICK s \in SUBSET D : Cardinality(s) = n /\ g[s] \notin Nat
      OBVIOUS
    <2> HIDE DEF Bad
    <2>3. g[s] = IF s = {} THEN 0 ELSE f[Some(s)] + g[s \ {Some(s)}]
      BY <1>2
    <2>4. s # {}
      BY <2>2, <2>3
    <2>5. PICK t \in SUBSET D : t = s \ {Some(s)}
      BY <2>4, OneLess
    <2>6. Some(s) \in D /\ Cardinality(t) \in Nat /\ n = Cardinality(t) + 1
      BY <2>2, <2>4, <2>5, OneLess
    <2>7. Cardinality(t) \notin Bad
      BY <2>1, <2>6
    <2>8. g[t] \in Nat /\ f[Some(s)] \in Nat
      BY <2>6, <2>7 DEF Bad
    <2> QED BY <2>2, <2>3, <2>4, <2>5, <2>8
  <1>4. \A s \in SUBSET D : Cardinality(s) \in Nat
    BY FS_Subset, FS_CardinalityType
  <1> QED BY <1>1, <1>3, <1>4

LEMMA SumIsNat ==
  ASSUME NEW D, IsFiniteSet(D), NEW f, \A x \in D : f[x] \in Nat
  PROVE  SumFunctionOnSet(f, D) \in Nat
  BY PartsAreNat, SumGives

(* Where two functions agree their sums do; if the second is one more at     *)
(* one point, so is its sum.                                                *)
LEMMA SumMoves ==
  ASSUME NEW D, IsFiniteSet(D), NEW f, NEW h, NEW e,
         \A x \in D : f[x] \in Nat /\ h[x] = IF x = e THEN f[x] + 1 ELSE f[x]
  PROVE  SumFunctionOnSet(h, D) = IF e \in D THEN SumFunctionOnSet(f, D) + 1
                                             ELSE SumFunctionOnSet(f, D)
  <1>0. \A x \in D : h[x] \in Nat
    OBVIOUS
  <1>1. PICK a : a = Sums(f, D)
    OBVIOUS
  <1>2. PICK b : b = Sums(h, D)
    OBVIOUS
  <1>3. /\ \A s \in SUBSET D : a[s] = IF s = {} THEN 0 ELSE f[Some(s)] + a[s \ {Some(s)}]
        /\ \A s \in SUBSET D : a[s] \in Nat
    BY <1>1, SumsGive, PartsAreNat
  <1>4. \A s \in SUBSET D : b[s] = IF s = {} THEN 0 ELSE h[Some(s)] + b[s \ {Some(s)}]
    BY <1>0, <1>2, SumsGive
  <1> DEFINE Fits(s) == b[s] = IF e \in s THEN a[s] + 1 ELSE a[s]
             Bad == {n \in Nat : \E s \in SUBSET D : Cardinality(s) = n /\ ~Fits(s)}
  <1>5. Bad = {}
    <2> SUFFICES ASSUME Bad # {} PROVE FALSE
      OBVIOUS
    <2>1. PICK n \in Bad : \A m \in Bad : n <= m
      BY Smallest
    <2>2. PICK s \in SUBSET D : Cardinality(s) = n /\ ~Fits(s)
      OBVIOUS
    <2> HIDE DEF Bad
    <2>3. /\ a[s] = IF s = {} THEN 0 ELSE f[Some(s)] + a[s \ {Some(s)}]
          /\ b[s] = IF s = {} THEN 0 ELSE h[Some(s)] + b[s \ {Some(s)}]
      BY <1>3, <1>4
    <2>4. s # {}
      BY <2>2, <2>3
    <2>5. PICK t \in SUBSET D : t = s \ {Some(s)}
      BY <2>4, OneLess
    <2>6. Some(s) \in D /\ Some(s) \in s /\ Cardinality(t) \in Nat /\ n = Cardinality(t) + 1
      BY <2>2, <2>4, <2>5, OneLess
    <2>7. Cardinality(t) \notin Bad
      BY <2>1, <2>6
    <2>8. Fits(t)
      BY <2>6, <2>7 DEF Bad
    <2>9. a[t] \in Nat /\ f[Some(s)] \in Nat
          /\ h[Some(s)] = IF Some(s) = e THEN f[Some(s)] + 1 ELSE f[Some(s)]
      BY <1>3, <2>6
    <2>10. a[s] = f[Some(s)] + a[t] /\ b[s] = h[Some(s)] + b[t]
      BY <2>3, <2>4, <2>5
    <2>11. CASE Some(s) = e
      <3>1. e \notin t /\ e \in s
        BY <2>5, <2>6, <2>11
      <3> QED BY <2>2, <2>8, <2>9, <2>10, <2>11, <3>1
    <2>12. CASE Some(s) # e
      <3>1. e \in t <=> e \in s
        BY <2>5, <2>12
      <3> QED BY <2>2, <2>8, <2>9, <2>10, <2>12, <3>1
    <2> QED BY <2>11, <2>12
  <1>6. Cardinality(D) \in Nat
    BY FS_CardinalityType
  <1>7. Fits(D)
    BY <1>5, <1>6
  <1> QED BY <1>1, <1>2, <1>7, SumGives

LEMMA SumSame ==
  ASSUME NEW D, IsFiniteSet(D), NEW f, NEW h, \A x \in D : f[x] \in Nat /\ h[x] = f[x]
  PROVE  SumFunctionOnSet(h, D) = SumFunctionOnSet(f, D)
  <1>1. PICK e : e \notin D
    <2>1. {x \in D : x \notin x} \notin D
      OBVIOUS
    <2> QED BY <2>1
  <1> QED BY <1>1, SumMoves
=============================================================================
