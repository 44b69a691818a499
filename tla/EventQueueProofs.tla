-------------------------- MODULE EventQueueProofs --------------------------
(***************************************************************************)
(* What EventQueue promises, for any event types, messages and number of   *)
(* events: contents() is a merge of two sorted sequences, no flagged       *)
(* message is lost or repeated, and deque and dict implement the log of    *)
(* pending entries.                                                        *)
(***************************************************************************)
EXTENDS EventQueue, FiniteSetTheorems, SequenceTheorems, WellFoundedInduction, TLAPS

-----------------------------------------------------------------------------
(* Numbers, sets of numbers and loops over them.                           *)

LEMMA SmallestExists ==
    ASSUME NEW T \in SUBSET Nat, T # {}
    PROVE  \E n \in T : \A m \in T : n <= m
  <1>1. \E n \in T : \A m \in T : ~ (<<m, n>> \in OpToRel(<, Nat))
    BY WFMin, NatLessThanWellFounded
  <1>2. PICK n \in T : \A m \in T : ~ (<<m, n>> \in OpToRel(<, Nat))
    BY <1>1
  <1>3. \A m \in T : ~ (m < n)
    BY <1>2 DEF OpToRel
  <1>4. \A m \in T : n <= m
    BY <1>3
  <1>. QED  BY <1>4

(* Induction over a set of numbers.                                        *)
LEMMA SetInduction ==
    ASSUME NEW n \in Nat, NEW T, 0 \in T, \A k \in 1 .. n : k - 1 \in T => k \in T
    PROVE  \A k \in 0 .. n : k \in T
  <1>. DEFINE Missing == {k \in 0 .. n : k \notin T}
  <1>. SUFFICES ASSUME Missing # {} PROVE FALSE
    OBVIOUS
  <1>1. PICK k \in Missing : \A m \in Missing : k <= m
    <2>1. Missing \in SUBSET Nat
      OBVIOUS
    <2>. HIDE DEF Missing
    <2>. QED  BY <2>1, SmallestExists
  <1>2. k # 0 /\ k \in 1 .. n /\ k - 1 \in 0 .. n
    BY <1>1
  <1>3. k - 1 \notin Missing
    BY <1>1, <1>2
  <1>. QED  BY <1>1, <1>2, <1>3

LEMMA LargestExists ==
    ASSUME NEW n \in Nat, NEW T \in SUBSET (1 .. n), T # {}
    PROVE  \E k \in T : \A m \in T : m <= k
  <1>. DEFINE R == {n - k : k \in T}
  <1>0. \A k \in T : k \in 1 .. n /\ n - k \in Nat
    OBVIOUS
  <1>1. R \in SUBSET Nat /\ R # {}
    BY <1>0
  <1>2. PICK r \in R : \A m \in R : r <= m
    <2>. HIDE DEF R
    <2>. QED  BY <1>1, SmallestExists
  <1>3. PICK k \in T : r = n - k
    OBVIOUS
  <1>4. ASSUME NEW m \in T PROVE m <= k
    <2>1. n - m \in R
      OBVIOUS
    <2>2. r <= n - m
      BY <1>2, <2>1
    <2>. QED  BY <1>3, <2>2
  <1>. QED  BY <1>4

(* A loop of n rounds has a result after every round.                      *)
Rounds(n, S) == [1 .. n -> [S -> S]]

IsRun(f, n, S, base, step) ==
    /\ f \in [0 .. n -> S]
    /\ f[0] = base
    /\ \A k \in 1 .. n : f[k] = step[k][f[k - 1]]

LEMMA LoopExists ==
    ASSUME NEW n \in Nat, NEW S, NEW base \in S, NEW step \in Rounds(n, S)
    PROVE  \E f : IsRun(f, n, S, base, step)
  <1>. DEFINE Result(f, m) == f = [k \in 0 .. m |-> IF k = 0 THEN base ELSE step[k][f[k - 1]]]
              T == {m \in 0 .. n : \E f \in [0 .. m -> S] : Result(f, m)}
  <1>1. 0 \in T
    <2>. DEFINE g == [k \in 0 .. 0 |-> base]
    <2>1. g \in [0 .. 0 -> S]
      OBVIOUS
    <2>2. ASSUME NEW k \in 0 .. 0
          PROVE  g[k] = IF k = 0 THEN base ELSE step[k][g[k - 1]]
      <3>1. k = 0
        OBVIOUS
      <3>. QED  BY <3>1
    <2>3. Result(g, 0)
      <3>. DEFINE h == [k \in 0 .. 0 |-> IF k = 0 THEN base ELSE step[k][g[k - 1]]]
      <3>. HIDE DEF g
      <3>1. \A k \in 0 .. 0 : g[k] = h[k]
        BY <2>2
      <3>2. g = [k \in 0 .. 0 |-> g[k]]
        BY <2>1
      <3>3. h = [k \in 0 .. 0 |-> h[k]]
        OBVIOUS
      <3>4. g = h
        <4>. HIDE DEF h
        <4>. QED  BY <3>1, <3>2, <3>3
      <3>. QED  BY <3>4
    <2>. HIDE DEF g, Result
    <2>. QED  BY <2>1, <2>3
  <1>2. ASSUME NEW m \in 1 .. n, m - 1 \in T PROVE m \in T
    <2>1. PICK f \in [0 .. m - 1 -> S] : Result(f, m - 1)
      BY <1>2
    <2>. DEFINE g == [k \in 0 .. m |-> IF k <= m - 1 THEN f[k] ELSE step[m][f[m - 1]]]
    <2>2. g \in [0 .. m -> S]
      <3>1. step[m] \in [S -> S] /\ f[m - 1] \in S
        BY <2>1 DEF Rounds
      <3>. QED  BY <2>1, <3>1
    <2>3. ASSUME NEW k \in 0 .. m
          PROVE  g[k] = IF k = 0 THEN base ELSE step[k][g[k - 1]]
      <3>1. CASE k <= m - 1
        <4>1. f[k] = IF k = 0 THEN base ELSE step[k][f[k - 1]]
          <5>1. k \in 0 .. m - 1
            BY <3>1
          <5>. QED  BY <2>1, <5>1
        <4>2. g[k] = f[k] /\ (k # 0 => g[k - 1] = f[k - 1])
          BY <3>1
        <4>. QED  BY <4>1, <4>2
      <3>2. CASE k = m
        BY <2>1, <3>2
      <3>. QED  BY <3>1, <3>2
    <2>4. Result(g, m)
      <3>. DEFINE h == [k \in 0 .. m |-> IF k = 0 THEN base ELSE step[k][g[k - 1]]]
      <3>. HIDE DEF g
      <3>1. \A k \in 0 .. m : g[k] = h[k]
        BY <2>3
      <3>2. g = [k \in 0 .. m |-> g[k]]
        BY <2>2
      <3>3. h = [k \in 0 .. m |-> h[k]]
        OBVIOUS
      <3>4. g = h
        <4>. HIDE DEF h
        <4>. QED  BY <3>1, <3>2, <3>3
      <3>. QED  BY <3>4
    <2>. HIDE DEF g, Result
    <2>. QED  BY <2>2, <2>4
  <1>3. n \in T
    <2>1. \A k \in 1 .. n : k - 1 \in T => k \in T
      BY <1>2
    <2>2. n \in 0 .. n
      OBVIOUS
    <2>. HIDE DEF T
    <2>. QED  BY <1>1, <2>1, <2>2, SetInduction
  <1>4. PICK f \in [0 .. n -> S] : Result(f, n)
    BY <1>3
  <1>5. f[0] = base /\ \A k \in 1 .. n : f[k] = step[k][f[k - 1]]
    <2>1. 0 \in 0 .. n /\ \A k \in 1 .. n : k \in 0 .. n /\ k # 0
      OBVIOUS
    <2>. QED  BY <1>4, <2>1
  <1>. QED  BY <1>5 DEF IsRun

-----------------------------------------------------------------------------
(* The loops over events.                                                  *)
LEMMA LeadingCount ==
    ASSUME NEW E, \A e \in E : e.id \in Int, NEW s \in Seq(E), NEW id \in Int
    PROVE  /\ Leading(s, id) \in 0 .. Len(s)
           /\ \A i \in 1 .. Leading(s, id) : s[i].id <= id
           /\ Leading(s, id) < Len(s) => s[Leading(s, id) + 1].id > id
  <1>. DEFINE D == {k \in 1 .. Len(s) : \A i \in 1 .. k : s[i].id <= id}
  <1>1. DOMAIN s = 1 .. Len(s) /\ Len(s) \in Nat /\ \A i \in 1 .. Len(s) : s[i] \in E
    OBVIOUS
  <1>2. \E m \in 0 .. Len(s) : D = 1 .. m
    <2>1. CASE D = {}
      BY <1>1, <2>1
    <2>2. CASE D # {}
      <3>1. PICK m \in D : \A k \in D : k <= m
        <4>1. D \in SUBSET (1 .. Len(s))
          OBVIOUS
        <4>. HIDE DEF D
        <4>. QED  BY <1>1, <2>2, <4>1, LargestExists
      <3>2. D = 1 .. m
        BY <1>1, <3>1
      <3>. QED  BY <3>1, <3>2
    <2>. QED  BY <2>1, <2>2
  <1>3. PICK m \in 0 .. Len(s) : D = 1 .. m
    BY <1>2
  <1>4. Cardinality(1 .. m) = m
    <2>1. m \in Nat
      BY <1>1, <1>3
    <2>. QED  BY <2>1, FS_Interval
  <1>5. Leading(s, id) = m
    BY <1>1, <1>3, <1>4 DEF Leading
  <1>6. \A i \in 1 .. m : s[i].id <= id
    BY <1>1, <1>3
  <1>7. ASSUME m < Len(s) PROVE s[m + 1].id > id
    <2>0. m \in Nat /\ m + 1 \in 1 .. Len(s)
      BY <1>1, <1>3, <1>7
    <2>1. m + 1 \in 1 .. Len(s) /\ m + 1 \notin D /\ m \in Nat
      <3>. HIDE DEF D
      <3>. QED  BY <1>3, <2>0
    <2>2. PICK i \in 1 .. m + 1 : ~(s[i].id <= id)
      BY <2>1
    <2>3. i = m + 1 /\ s[i].id \in Int
      BY <1>1, <1>6, <2>1, <2>2
    <2>. QED  BY <2>2, <2>3
  <1>. QED  BY <1>3, <1>5, <1>6, <1>7

-----------------------------------------------------------------------------
(* Events in the order of their ids.                                       *)
Increasing(s) == \A i, j \in 1 .. Len(s) : i < j => s[i].id < s[j].id

Numbered(S) ==
    /\ IsFiniteSet(S)
    /\ \A e \in S : e.id \in Int
    /\ \A e, f \in S : e.id = f.id => e = f

UpTo(S, e) == {f \in S : f.id <= e.id}

(* The place of an event grows with its id.                                *)
LEMMA PlaceGrows ==
    ASSUME NEW S, Numbered(S)
    PROVE  \A e \in S :
                /\ Cardinality(UpTo(S, e)) \in 1 .. Cardinality(S)
                /\ \A f \in S : e.id < f.id =>
                        Cardinality(UpTo(S, e)) < Cardinality(UpTo(S, f))
  <1>. SUFFICES ASSUME NEW e \in S
                PROVE  /\ Cardinality(UpTo(S, e)) \in 1 .. Cardinality(S)
                       /\ \A f \in S : e.id < f.id =>
                            Cardinality(UpTo(S, e)) < Cardinality(UpTo(S, f))
    OBVIOUS
  <1>1. \A f \in S : /\ IsFiniteSet(UpTo(S, f)) /\ Cardinality(UpTo(S, f)) \in Nat
                     /\ Cardinality(UpTo(S, f)) <= Cardinality(S)
    BY FS_Subset, FS_CardinalityType DEF Numbered, UpTo
  <1>2. Cardinality(UpTo(S, e)) # 0
    <2>1. e \in UpTo(S, e)
      BY DEF Numbered, UpTo
    <2>. QED  BY <1>1, <2>1, FS_EmptySet
  <1>3. Cardinality(S) \in Nat
    BY FS_CardinalityType DEF Numbered
  <1>4. ASSUME NEW f \in S, e.id < f.id
        PROVE  Cardinality(UpTo(S, e)) < Cardinality(UpTo(S, f))
    <2>1. UpTo(S, e) \subseteq UpTo(S, f) /\ f \in UpTo(S, f) /\ f \notin UpTo(S, e)
      BY <1>4 DEF Numbered, UpTo
    <2>. DEFINE T == UpTo(S, e)  U == UpTo(S, f)
    <2>2. Cardinality(T) <= Cardinality(U) /\ Cardinality(T) # Cardinality(U)
      <3>. HIDE DEF T, U
      <3>1. IsFiniteSet(U) /\ T \in SUBSET U /\ T # U
        BY <1>1, <2>1 DEF T, U
      <3>. QED  BY <3>1, FS_Subset
    <2>. QED  BY <1>1, <2>2
  <1>. QED  BY <1>1, <1>2, <1>3, <1>4

LEMMA PlaceIsUnique ==
    ASSUME NEW S, Numbered(S), NEW e \in S, NEW f \in S,
           Cardinality(UpTo(S, e)) = Cardinality(UpTo(S, f))
    PROVE  e = f
  <1>1. ~(e.id < f.id) /\ ~(f.id < e.id)
    <2>1. /\ Cardinality(UpTo(S, e)) \in Int
          /\ e.id < f.id => Cardinality(UpTo(S, e)) < Cardinality(UpTo(S, f))
          /\ f.id < e.id => Cardinality(UpTo(S, f)) < Cardinality(UpTo(S, e))
      BY PlaceGrows
    <2>. QED  BY <2>1
  <1>. QED  BY <1>1 DEF Numbered

(* Every place is taken.                                                   *)
LEMMA PlaceExists ==
    ASSUME NEW S, Numbered(S), NEW k \in 1 .. Cardinality(S)
    PROVE  \E e \in S : Cardinality(UpTo(S, e)) = k
  <1>. DEFINE n == Cardinality(S)  f == [e \in S |-> Cardinality(UpTo(S, e))]
  <1>1. n \in Nat /\ IsFiniteSet(S)
    BY FS_CardinalityType DEF Numbered
  <1>2. f \in [S -> 1 .. n]
    BY PlaceGrows
  <1>3. f \in Injection(S, 1 .. n)
    BY <1>2, PlaceIsUnique DEF Injection, IsInjective
  <1>4. Cardinality(1 .. n) = n /\ IsFiniteSet(1 .. n)
    BY <1>1, FS_Interval
  <1>5. f \in Surjection(S, 1 .. n)
    <2>. HIDE DEF f
    <2>. QED  BY <1>1, <1>3, <1>4, FS_Injection
  <1>. QED  BY <1>5 DEF Surjection

(* sorted() returns every event of the set once, by increasing id.         *)
LEMMA SortedIsIncreasing ==
    ASSUME NEW S, Numbered(S)
    PROVE  /\ SortedById(S) \in Seq(S) /\ Len(SortedById(S)) = Cardinality(S)
           /\ Increasing(SortedById(S)) /\ Range(SortedById(S)) = S
  <1>. DEFINE n == Cardinality(S)  s == SortedById(S)
  <1>1. n \in Nat
    BY FS_CardinalityType DEF Numbered
  <1>2. ASSUME NEW k \in 1 .. n
        PROVE  s[k] \in S /\ Cardinality(UpTo(S, s[k])) = k
    <2>1. s[k] = CHOOSE e \in S : Cardinality(UpTo(S, e)) = k
      BY DEF SortedById, UpTo
    <2>. QED  BY <2>1, PlaceExists
  <1>3. s \in [1 .. n -> S]
    <2>. DEFINE at(k) == CHOOSE e \in S : Cardinality(UpTo(S, e)) = k
    <2>1. s = [k \in 1 .. n |-> at(k)]
      BY DEF SortedById, UpTo
    <2>2. \A k \in 1 .. n : at(k) \in S
      BY PlaceExists
    <2>. HIDE DEF s, n, at
    <2>. QED  BY <2>1, <2>2
  <1>4. s \in Seq(S) /\ Len(s) = n
    <2>. HIDE DEF s, n
    <2>. QED  BY <1>1, <1>3
  <1>5. Increasing(s)
    <2>. SUFFICES ASSUME NEW i \in 1 .. n, NEW j \in 1 .. n, i < j, ~(s[i].id < s[j].id)
                  PROVE  FALSE
      BY <1>4 DEF Increasing
    <2>1. s[i] \in S /\ s[j] \in S /\ s[i].id \in Int /\ s[j].id \in Int
      BY <1>2 DEF Numbered
    <2>2. s[i].id = s[j].id \/ s[j].id < s[i].id
      BY <2>1
    <2>3. CASE s[i].id = s[j].id
      BY <1>2, <2>1, <2>3 DEF Numbered
    <2>4. CASE s[j].id < s[i].id
      <3>1. Cardinality(UpTo(S, s[j])) < Cardinality(UpTo(S, s[i]))
        BY <2>1, <2>4, PlaceGrows
      <3>. QED  BY <1>2, <3>1
    <2>. QED  BY <2>2, <2>3, <2>4
  <1>6. Range(s) = S
    <2>1. ASSUME NEW e \in S PROVE e \in Range(s)
      <3>. DEFINE k == Cardinality(UpTo(S, e))
      <3>1. k \in 1 .. n
        BY PlaceGrows
      <3>2. s[k] = e
        BY <1>2, <3>1, PlaceIsUnique
      <3>. QED  BY <1>3, <3>1, <3>2 DEF Range
    <2>. QED  BY <1>3, <2>1 DEF Range
  <1>. QED  BY <1>4, <1>5, <1>6

(* It is the only such sequence.                                           *)
LEMMA IncreasingIsSorted ==
    ASSUME NEW E, \A e \in E : e.id \in Int, NEW s \in Seq(E), Increasing(s)
    PROVE  Numbered(Range(s)) /\ s = SortedById(Range(s))
  <1>. DEFINE n == Len(s)  S == Range(s)
  <1>1. /\ n \in Nat /\ s \in [1 .. n -> E] /\ DOMAIN s = 1 .. n
        /\ \A i \in 1 .. n : s[i] \in S /\ s[i].id \in Int
        /\ \A e \in S : \E i \in 1 .. n : e = s[i]
    BY DEF Range
  <1>2. \A i, j \in 1 .. n : (s[i].id <= s[j].id) <=> i <= j
    <2>. SUFFICES ASSUME NEW i \in 1 .. n, NEW j \in 1 .. n
                  PROVE  (s[i].id <= s[j].id) <=> i <= j
      OBVIOUS
    <2>1. /\ i < j => s[i].id < s[j].id
          /\ j < i => s[j].id < s[i].id
          /\ s[i].id \in Int /\ s[j].id \in Int /\ i \in Int /\ j \in Int
      BY <1>1 DEF Increasing
    <2>2. CASE i < j
      BY <2>1, <2>2
    <2>3. CASE j < i
      BY <2>1, <2>3
    <2>4. CASE i = j
      BY <2>1, <2>4
    <2>. QED  BY <2>1, <2>2, <2>3, <2>4
  <1>3. ASSUME NEW k \in 0 .. n
        PROVE  /\ IsFiniteSet({s[i] : i \in 1 .. k})
               /\ Cardinality({s[i] : i \in 1 .. k}) = k
    <2>. DEFINE f == [i \in 1 .. k |-> s[i]]  T == {s[i] : i \in 1 .. k}
    <2>1. \A i, j \in 1 .. k : s[i] = s[j] => i = j
      <3>1. \A i \in 1 .. k : i \in 1 .. n /\ i \in Int
        BY <1>1
      <3>2. \A i, j \in 1 .. k : s[i] = s[j] => i <= j /\ j <= i
        BY <1>1, <1>2, <3>1
      <3>. QED  BY <3>1, <3>2
    <2>2. f \in Bijection(1 .. k, T)
      BY <2>1 DEF Bijection, Injection, IsInjective, Surjection
    <2>3. ExistsBijection(1 .. k, T)
      BY <2>2 DEF ExistsBijection
    <2>4. IsFiniteSet(1 .. k) /\ Cardinality(1 .. k) = k
      <3>1. k \in Nat
        BY <1>1
      <3>. QED  BY <3>1, FS_Interval
    <2>. HIDE DEF T
    <2>5. IsFiniteSet(T) /\ Cardinality(T) = k
      BY <2>3, <2>4, FS_Bijection
    <2>. QED  BY <2>5 DEF T
  <1>4. S = {s[i] : i \in 1 .. n}
    BY <1>1 DEF Range
  <1>5. IsFiniteSet(S) /\ Cardinality(S) = n
    <2>1. n \in 0 .. n
      BY <1>1
    <2>. QED  BY <1>3, <1>4, <2>1
  <1>6. Numbered(S)
    <2>1. ASSUME NEW e \in S, NEW f \in S, e.id = f.id PROVE e = f
      <3>1. PICK i \in 1 .. n, j \in 1 .. n : e = s[i] /\ f = s[j]
        BY <1>1
      <3>2. s[i].id = s[j].id /\ s[i].id \in Int /\ s[j].id \in Int /\ i \in Int /\ j \in Int
        BY <1>1, <2>1, <3>1
      <3>3. s[i].id <= s[j].id /\ s[j].id <= s[i].id
        BY <3>2
      <3>4. i <= j /\ j <= i
        BY <1>2, <3>3
      <3>. QED  BY <3>1, <3>2, <3>4
    <2>. QED  BY <1>1, <1>5, <2>1 DEF Numbered
  <1>7. ASSUME NEW k \in 1 .. n PROVE Cardinality(UpTo(S, s[k])) = k
    <2>1. UpTo(S, s[k]) = {s[i] : i \in 1 .. k}
      <3>1. \A i \in 1 .. k : i \in 1 .. n
        BY <1>1
      <3>2. ASSUME NEW e \in UpTo(S, s[k]) PROVE \E i \in 1 .. k : e = s[i]
        <4>1. PICK i \in 1 .. n : e = s[i]
          BY <1>1 DEF UpTo
        <4>2. i <= k
          BY <1>2, <4>1 DEF UpTo
        <4>. QED  BY <4>1, <4>2
      <3>3. ASSUME NEW i \in 1 .. k PROVE s[i] \in UpTo(S, s[k])
        BY <1>1, <1>2, <3>1 DEF UpTo
      <3>. QED  BY <3>2, <3>3
    <2>2. k \in 0 .. n
      BY <1>1
    <2>. QED  BY <1>3, <2>1, <2>2
  <1>8. /\ SortedById(S) \in Seq(S) /\ Len(SortedById(S)) = n
        /\ \A k \in 1 .. n : SortedById(S)[k] = s[k]
    <2>1. SortedById(S) \in Seq(S) /\ Len(SortedById(S)) = n
      BY <1>5, <1>6, SortedIsIncreasing
    <2>2. ASSUME NEW k \in 1 .. n PROVE SortedById(S)[k] = s[k]
      <3>1. SortedById(S)[k] = CHOOSE e \in S : Cardinality(UpTo(S, e)) = k
        BY <1>5 DEF SortedById, UpTo
      <3>2. s[k] \in S /\ Cardinality(UpTo(S, s[k])) = k
        BY <1>1, <1>7
      <3>3. /\ SortedById(S)[k] \in S
            /\ Cardinality(UpTo(S, SortedById(S)[k])) = k
        BY <3>1, <3>2
      <3>. QED  BY <1>6, <3>2, <3>3, PlaceIsUnique
    <2>. QED  BY <2>1, <2>2
  <1>9. s \in Seq(S)
    <2>1. s \in [1 .. n -> S]
      BY <1>1
    <2>. QED  BY <1>1, <2>1
  <1>10. s = SortedById(S)
    <2>. HIDE DEF n, S
    <2>. QED  BY <1>8, <1>9, SeqEqual DEF n
  <1>. QED  BY <1>6, <1>10

-----------------------------------------------------------------------------
(* Parts of increasing sequences.                                          *)
Items(s, m, n) == {s[i] : i \in m .. n}

Below(S, T) == \A e \in S, f \in T : e.id < f.id

LEMMA PartOf ==
    ASSUME NEW E, NEW w \in Seq(E), NEW m \in 1 .. Len(w) + 1, NEW n \in m - 1 .. Len(w)
    PROVE  /\ SubSeq(w, m, n) \in Seq(E) /\ Len(SubSeq(w, m, n)) = n - m + 1
           /\ \A i \in 1 .. n - m + 1 : SubSeq(w, m, n)[i] = w[m + i - 1]
           /\ Range(SubSeq(w, m, n)) = Items(w, m, n)
  <1>1. Len(w) \in Nat /\ m \in Int /\ n \in Int /\ \A i \in m .. n : w[i] \in E
    OBVIOUS
  <1>. DEFINE s == SubSeq(w, m, n)
  <1>2. /\ s \in Seq(E) /\ Len(s) = n - m + 1
        /\ \A i \in 1 .. n - m + 1 : s[i] = w[m + i - 1]
    <2>1. /\ s \in Seq(E) /\ Len(s) = IF m <= n THEN n - m + 1 ELSE 0
          /\ \A i \in 1 .. n - m + 1 : s[i] = w[m + i - 1]
      BY <1>1, SubSeqProperties
    <2>2. CASE m <= n
      BY <2>1, <2>2
    <2>3. CASE n = m - 1
      BY <1>1, <2>1, <2>3
    <2>. QED  BY <1>1, <2>2, <2>3
  <1>. HIDE DEF s
  <1>3. Range(s) = {s[i] : i \in 1 .. n - m + 1}
    BY <1>2, RangeEquality
  <1>4. {s[i] : i \in 1 .. n - m + 1} = {w[j] : j \in m .. n}
    <2>1. ASSUME NEW i \in 1 .. n - m + 1 PROVE m + i - 1 \in m .. n /\ s[i] = w[m + i - 1]
      BY <1>1, <1>2
    <2>2. ASSUME NEW j \in m .. n PROVE j - m + 1 \in 1 .. n - m + 1 /\ s[j - m + 1] = w[j]
      <3>. DEFINE i == j - m + 1
      <3>1. i \in 1 .. n - m + 1 /\ m + i - 1 = j
        BY <1>1
      <3>. HIDE DEF i
      <3>2. s[i] = w[j]
        BY <1>2, <3>1
      <3>. QED  BY <3>1, <3>2 DEF i
    <2>. DEFINE I == 1 .. n - m + 1  J == m .. n
    <2>3. \A i \in I : \E j \in J : s[i] = w[j]
      BY <2>1
    <2>4. \A j \in J : \E i \in I : s[i] = w[j]
      BY <2>2
    <2>. HIDE DEF I, J
    <2>5. {s[i] : i \in I} = {w[j] : j \in J}
      BY <2>3, <2>4
    <2>. QED  BY <2>5 DEF I, J
  <1>. QED  BY <1>2, <1>3, <1>4 DEF s, Items

LEMMA PartIncreasing ==
    ASSUME NEW E, NEW w \in Seq(E), NEW m \in 1 .. Len(w) + 1, NEW n \in m - 1 .. Len(w),
           Increasing(w)
    PROVE  Increasing(SubSeq(w, m, n))
  <1>. DEFINE s == SubSeq(w, m, n)
  <1>1. Len(s) = n - m + 1 /\ \A i \in 1 .. n - m + 1 : s[i] = w[m + i - 1]
    BY PartOf
  <1>2. Len(w) \in Nat /\ m \in Int /\ n \in Int
    OBVIOUS
  <1>. HIDE DEF s
  <1>3. ASSUME NEW i \in 1 .. n - m + 1, NEW j \in 1 .. n - m + 1, i < j
        PROVE  s[i].id < s[j].id
    <2>1. m + i - 1 \in 1 .. Len(w) /\ m + j - 1 \in 1 .. Len(w) /\ m + i - 1 < m + j - 1
      BY <1>2, <1>3
    <2>. QED  BY <1>1, <2>1 DEF Increasing
  <1>. QED  BY <1>1, <1>3 DEF Increasing, s

LEMMA IncreasingConcat ==
    ASSUME NEW E, NEW s \in Seq(E), NEW t \in Seq(E), Increasing(s), Increasing(t),
           Below(Range(s), Range(t))
    PROVE  /\ s \o t \in Seq(E) /\ Increasing(s \o t)
           /\ Range(s \o t) = Range(s) \cup Range(t)
  <1>1. /\ Len(s) \in Nat /\ Len(t) \in Nat /\ Len(s \o t) = Len(s) + Len(t)
        /\ s \o t \in Seq(E)
        /\ \A i \in 1 .. Len(s) + Len(t) :
                (s \o t)[i] = IF i <= Len(s) THEN s[i] ELSE t[i - Len(s)]
    BY ConcatProperties
  <1>2. /\ \A i \in 1 .. Len(s) : s[i] \in Range(s)
        /\ \A i \in 1 .. Len(t) : t[i] \in Range(t)
    BY RangeEquality
  <1>. DEFINE u == s \o t  a == Len(s)  b == Len(t)
  <1>3. ASSUME NEW i \in 1 .. a + b, NEW j \in 1 .. a + b, i < j
        PROVE  u[i].id < u[j].id
    <2>1. a \in Nat /\ b \in Nat /\ i \in Int /\ j \in Int
      BY <1>1
    <2>2. CASE j <= a
      <3>1. i \in 1 .. a /\ j \in 1 .. a /\ u[i] = s[i] /\ u[j] = s[j]
        BY <1>1, <1>3, <2>1, <2>2
      <3>. QED  BY <1>3, <3>1 DEF Increasing
    <2>3. CASE i <= a /\ ~(j <= a)
      <3>1. i \in 1 .. a /\ j - a \in 1 .. b /\ u[i] = s[i] /\ u[j] = t[j - a]
        BY <1>1, <2>1, <2>3
      <3>. QED  BY <1>2, <3>1 DEF Below
    <2>4. CASE ~(i <= a)
      <3>1. /\ i - a \in 1 .. b /\ j - a \in 1 .. b /\ i - a < j - a
            /\ u[i] = t[i - a] /\ u[j] = t[j - a]
        BY <1>1, <1>3, <2>1, <2>4
      <3>. QED  BY <3>1 DEF Increasing
    <2>. QED  BY <1>3, <2>1, <2>2, <2>3, <2>4
  <1>. HIDE DEF u
  <1>4. Range(u) = Range(s) \cup Range(t)
    <2>0. /\ Range(u) = {u[i] : i \in 1 .. a + b} /\ Range(s) = {s[i] : i \in 1 .. a}
          /\ Range(t) = {t[i] : i \in 1 .. b}
      BY <1>1, RangeEquality DEF u
    <2>1. ASSUME NEW i \in 1 .. a + b PROVE u[i] \in Range(s) \cup Range(t)
      <3>1. CASE i <= a
        BY <1>1, <1>2, <3>1 DEF u
      <3>2. CASE ~(i <= a)
        <4>1. i - a \in 1 .. b /\ u[i] = t[i - a]
          BY <1>1, <3>2 DEF u
        <4>. QED  BY <1>2, <4>1
      <3>. QED  BY <3>1, <3>2
    <2>2. ASSUME NEW i \in 1 .. a PROVE s[i] \in Range(u)
      <3>1. i \in 1 .. a + b /\ u[i] = s[i]
        BY <1>1 DEF u
      <3>. QED  BY <2>0, <3>1
    <2>3. ASSUME NEW i \in 1 .. b PROVE t[i] \in Range(u)
      <3>. DEFINE j == a + i
      <3>1. j \in 1 .. a + b /\ ~(j <= a) /\ j - a = i
        BY <1>1
      <3>. HIDE DEF j
      <3>2. u[j] = t[i]
        BY <1>1, <3>1 DEF u
      <3>. QED  BY <2>0, <3>1, <3>2
    <2>. QED  BY <2>0, <2>1, <2>2, <2>3
  <1>. QED  BY <1>1, <1>3, <1>4 DEF Increasing, u

-----------------------------------------------------------------------------
(* contents()                                                              *)
Accs(E, w) == [contents : Seq(E), index : 0 .. Len(w)]

(* One round emits the events that wait with a smaller id, and the event.  *)
LEMMA EmitStep ==
    ASSUME NEW E, \A e \in E : e.id \in Int, NEW w \in Seq(E), NEW acc \in Accs(E, w),
           NEW event \in E
    PROVE  LET next == Emit(acc, event, w)
           IN  /\ next \in Accs(E, w) /\ next.index \in acc.index .. Len(w)
               /\ next.contents =
                    acc.contents \o SubSeq(w, acc.index + 1, next.index) \o <<event>>
               /\ \A j \in acc.index + 1 .. next.index : w[j].id < event.id
               /\ next.index < Len(w) => ~(w[next.index + 1].id < event.id)
  <1>. DEFINE a == acc.index
              rest == SubSeq(w, a + 1, Len(w))
              n == Leading(rest, event.id - 1)
  <1>1. Len(w) \in Nat /\ a \in 0 .. Len(w) /\ event.id \in Int /\ event.id - 1 \in Int
        /\ acc.contents \in Seq(E) /\ \A i \in 1 .. Len(w) : w[i].id \in Int
    BY DEF Accs
  <1>2. a + 1 \in 1 .. Len(w) + 1 /\ Len(w) \in (a + 1) - 1 .. Len(w)
    BY <1>1
  <1>. HIDE DEF a
  <1>3. /\ rest \in Seq(E) /\ Len(rest) = Len(w) - a
        /\ \A i \in 1 .. Len(w) - a : rest[i] = w[a + i]
    <2>1. /\ rest \in Seq(E) /\ Len(rest) = Len(w) - (a + 1) + 1
          /\ \A i \in 1 .. Len(w) - (a + 1) + 1 : rest[i] = w[a + 1 + i - 1]
      BY <1>2, PartOf
    <2>. HIDE DEF rest
    <2>2. a \in Int /\ Len(w) \in Int
      BY <1>1
    <2>3. Len(w) - (a + 1) + 1 = Len(w) - a
      BY <2>2
    <2>4. ASSUME NEW i \in 1 .. Len(w) - a PROVE rest[i] = w[a + i]
      <3>1. a + 1 + i - 1 = a + i
        BY <2>2
      <3>2. i \in 1 .. Len(w) - (a + 1) + 1
        BY <2>3
      <3>3. rest[i] = w[a + 1 + i - 1]
        BY <2>1, <3>2
      <3>. QED  BY <3>1, <3>3
    <2>5. Len(rest) = Len(w) - a
      BY <2>1, <2>3
    <2>. QED  BY <2>1, <2>4, <2>5
  <1>. HIDE DEF rest
  <1>4. /\ n \in 0 .. Len(rest)
        /\ \A i \in 1 .. n : rest[i].id <= event.id - 1
        /\ n < Len(rest) => rest[n + 1].id > event.id - 1
    BY <1>1, <1>3, LeadingCount
  <1>. HIDE DEF n
  <1>5. a + n \in a .. Len(w) /\ a + n \in 0 .. Len(w)
    BY <1>1, <1>3, <1>4
  <1>6. ASSUME NEW j \in a + 1 .. a + n PROVE w[j].id < event.id
    <2>1. j - a \in 1 .. n /\ j - a \in 1 .. Len(w) - a /\ a + (j - a) = j /\ j \in 1 .. Len(w)
      <3>1. n \in Nat /\ n <= Len(w) - a
        BY <1>1, <1>3, <1>4
      <3>. QED  BY <1>1, <3>1
    <2>2. w[j].id <= event.id - 1
      BY <1>3, <1>4, <2>1
    <2>. QED  BY <1>1, <2>1, <2>2
  <1>7. ASSUME a + n < Len(w) PROVE ~(w[a + n + 1].id < event.id)
    <2>1. n < Len(rest) /\ n + 1 \in 1 .. Len(w) - a /\ a + (n + 1) = a + n + 1
          /\ a + n + 1 \in 1 .. Len(w)
      BY <1>1, <1>3, <1>4, <1>5, <1>7
    <2>2. w[a + n + 1].id > event.id - 1
      BY <1>3, <1>4, <2>1
    <2>. QED  BY <1>1, <2>1, <2>2
  <1>8. SubSeq(w, a + 1, a + n) \in Seq(E)
    <2>1. a + 1 \in 1 .. Len(w) + 1 /\ a + n \in (a + 1) - 1 .. Len(w)
      BY <1>1, <1>4, <1>5
    <2>. HIDE DEF a
    <2>. QED  BY <2>1, PartOf
  <1>9. Emit(acc, event, w) =
            [contents |-> acc.contents \o SubSeq(w, a + 1, a + n) \o <<event>>,
             index |-> a + n]
    BY DEF Emit, a, n, rest
  <1>10. acc.contents \o SubSeq(w, a + 1, a + n) \o <<event>> \in Seq(E)
    <2>. DEFINE u == SubSeq(w, a + 1, a + n)  v == acc.contents \o u
    <2>1. v \in Seq(E)
      <3>. HIDE DEF u
      <3>. QED  BY <1>1, <1>8, ConcatProperties DEF u
    <2>2. <<event>> \in Seq(E)
      OBVIOUS
    <2>. HIDE DEF v
    <2>3. v \o <<event>> \in Seq(E)
      BY <2>1, <2>2, ConcatProperties
    <2>. QED  BY <2>3 DEF v
  <1>. DEFINE next == Emit(acc, event, w)
  <1>11. /\ next \in Accs(E, w) /\ next.index = a + n
         /\ next.contents = acc.contents \o SubSeq(w, a + 1, a + n) \o <<event>>
    <2>. DEFINE all == acc.contents \o SubSeq(w, a + 1, a + n) \o <<event>>
                i == a + n
    <2>1. all \in Seq(E) /\ i \in 0 .. Len(w) /\ next = [contents |-> all, index |-> i]
      BY <1>5, <1>9, <1>10
    <2>. HIDE DEF all, i, next
    <2>2. next \in Accs(E, w) /\ next.index = i /\ next.contents = all
      BY <2>1 DEF Accs
    <2>. QED  BY <2>2 DEF all, i
  <1>. HIDE DEF next
  <1>12. /\ next \in Accs(E, w) /\ next.index \in a .. Len(w)
         /\ next.contents = acc.contents \o SubSeq(w, a + 1, next.index) \o <<event>>
         /\ \A j \in a + 1 .. next.index : w[j].id < event.id
         /\ next.index < Len(w) => ~(w[next.index + 1].id < event.id)
    BY <1>5, <1>6, <1>7, <1>11
  <1>. QED  BY <1>12 DEF a, next

LEMMA AppendRange ==
    ASSUME NEW E, NEW s \in Seq(E), NEW e \in E
    PROVE  Range(Append(s, e)) = Range(s) \cup {e}
  <1>. DEFINE r == Append(s, e)  m == Len(s)
  <1>1. r \in Seq(E) /\ Len(r) = m + 1 /\ r[m + 1] = e /\ \A i \in 1 .. m : r[i] = s[i]
    BY AppendProperties
  <1>2. m \in Nat /\ m + 1 \in 1 .. m + 1
    OBVIOUS
  <1>. HIDE DEF r
  <1>3. Range(r) = {r[i] : i \in 1 .. m + 1} /\ Range(s) = {s[i] : i \in 1 .. m}
    BY <1>1, RangeEquality
  <1>4. \A i \in 1 .. m + 1 : i \in 1 .. m \/ i = m + 1
    BY <1>2
  <1>5. \A i \in 1 .. m : i \in 1 .. m + 1
    BY <1>2
  <1>. HIDE DEF m
  <1>6. Range(r) = Range(s) \cup {e}
    BY <1>1, <1>2, <1>3, <1>4, <1>5
  <1>. QED  BY <1>6 DEF r

LEMMA LoopSteps ==
    ASSUME NEW E, \A e \in E : e.id \in Int, NEW q \in Seq(E), NEW w \in Seq(E)
    PROVE  /\ Loop(q, w)[0] = [contents |-> <<>>, index |-> 0]
           /\ \A k \in 1 .. Len(q) :
                    Loop(q, w)[k] = Emit(Loop(q, w)[k - 1], q[k], w)
           /\ \A k \in 0 .. Len(q) : Loop(q, w)[k] \in Accs(E, w)
  <1>. DEFINE n == Len(q)
              start == [contents |-> <<>>, index |-> 0]
              IsLoop(f) == f = [k \in 0 .. n |-> IF k = 0 THEN start
                                                ELSE Emit(f[k - 1], q[k], w)]
              step == [k \in 1 .. n |-> [acc \in Accs(E, w) |-> Emit(acc, q[k], w)]]
  <1>1. n \in Nat /\ Len(w) \in Nat /\ \A k \in 1 .. n : q[k] \in E
    OBVIOUS
  <1>2. start \in Accs(E, w)
    BY <1>1 DEF Accs
  <1>3. step \in [1 .. n -> [Accs(E, w) -> Accs(E, w)]]
    BY <1>1, EmitStep
  <1>4. \A k \in 1 .. n, acc \in Accs(E, w) : step[k][acc] = Emit(acc, q[k], w)
    OBVIOUS
  <1>. HIDE DEF start, step
  <1>5. PICK g \in [0 .. n -> Accs(E, w)] :
            g[0] = start /\ \A k \in 1 .. n : g[k] = step[k][g[k - 1]]
    <2>. DEFINE S == Accs(E, w)
    <2>1. step \in Rounds(n, S) /\ start \in S /\ n \in Nat
      BY <1>1, <1>2, <1>3 DEF Rounds
    <2>2. PICK g : IsRun(g, n, S, start, step)
      <3>. HIDE DEF n, S
      <3>. QED  BY <2>1, LoopExists
    <2>. QED  BY <2>2 DEF IsRun
  <1>6. IsLoop(g)
    <2>1. ASSUME NEW k \in 0 .. n
          PROVE  g[k] = IF k = 0 THEN start ELSE Emit(g[k - 1], q[k], w)
      <3>1. CASE k = 0
        BY <1>5, <3>1
      <3>2. CASE k # 0
        <4>1. k \in 1 .. n /\ g[k - 1] \in Accs(E, w)
          <5>1. k \in 1 .. n /\ k - 1 \in 0 .. n
            BY <1>1, <3>2
          <5>. QED  BY <5>1
        <4>2. g[k] = step[k][g[k - 1]]
          BY <1>5, <4>1
        <4>3. step[k][g[k - 1]] = Emit(g[k - 1], q[k], w)
          BY <1>4, <4>1
        <4>. QED  BY <3>2, <4>2, <4>3
      <3>. QED  BY <3>1, <3>2
    <2>. DEFINE h == [k \in 0 .. n |-> IF k = 0 THEN start ELSE Emit(g[k - 1], q[k], w)]
    <2>2. \A k \in 0 .. n : g[k] = h[k]
      BY <2>1
    <2>3. g = [k \in 0 .. n |-> g[k]] /\ h = [k \in 0 .. n |-> h[k]]
      BY <1>5
    <2>4. g = h
      <3>. HIDE DEF h
      <3>. QED  BY <2>2, <2>3
    <2>. QED  BY <2>4
  <1>7. Loop(q, w) = CHOOSE f : IsLoop(f)
    BY DEF Loop, start
  <1>8. IsLoop(Loop(q, w))
    <2>1. IsLoop(CHOOSE f : IsLoop(f))
      <3>. HIDE DEF IsLoop
      <3>. QED  BY <1>6
    <2>. HIDE DEF IsLoop
    <2>. QED  BY <1>7, <2>1
  <1>. DEFINE L == Loop(q, w)
  <1>9. L[0] = start /\ \A k \in 1 .. n : L[k] = Emit(L[k - 1], q[k], w)
    <2>. HIDE DEF L
    <2>1. L = [k \in 0 .. n |-> IF k = 0 THEN start ELSE Emit(L[k - 1], q[k], w)]
      BY <1>8 DEF L
    <2>2. 0 \in 0 .. n /\ \A k \in 1 .. n : k \in 0 .. n /\ k # 0
      BY <1>1
    <2>. QED  BY <2>1, <2>2
  <1>. HIDE DEF L
  <1>10. \A k \in 0 .. n : L[k] \in Accs(E, w)
    <2>. DEFINE T == {k \in 0 .. n : L[k] \in Accs(E, w)}
    <2>1. 0 \in T
      BY <1>1, <1>2, <1>9
    <2>2. ASSUME NEW k \in 1 .. n, k - 1 \in T PROVE k \in T
      <3>1. L[k - 1] \in Accs(E, w) /\ q[k] \in E /\ k \in 0 .. n
        BY <1>1, <2>2
      <3>2. Emit(L[k - 1], q[k], w) \in Accs(E, w)
        BY <3>1, EmitStep
      <3>. QED  BY <1>9, <3>1, <3>2
    <2>3. \A k \in 0 .. n : k \in T
      <3>. HIDE DEF T
      <3>. QED  BY <1>1, <2>1, <2>2, SetInduction
    <2>. QED  BY <2>3
  <1>. QED  BY <1>9, <1>10 DEF L, start

(* The merge, after k real events: what was emitted is sorted, and all of  *)
(* it comes before all that is left.                                       *)
MergedTo(q, w, k, acc) ==
    /\ Increasing(acc.contents)
    /\ Range(acc.contents) = Items(q, 1, k) \cup Items(w, 1, acc.index)
    /\ Below(Range(acc.contents),
             Items(q, k + 1, Len(q)) \cup Items(w, acc.index + 1, Len(w)))

LEMMA EmitMerges ==
    ASSUME NEW E, \A e \in E : e.id \in Int, NEW q \in Seq(E), NEW w \in Seq(E),
           Increasing(q), Increasing(w),
           \A e \in Range(q), f \in Range(w) : e.id # f.id,
           NEW k \in 1 .. Len(q), NEW acc \in Accs(E, w), MergedTo(q, w, k - 1, acc)
    PROVE  MergedTo(q, w, k, Emit(acc, q[k], w))
  <1>. DEFINE a == acc.index  next == Emit(acc, q[k], w)  b == next.index
              part == SubSeq(w, a + 1, b)  u == acc.contents \o part
              R == Range(acc.contents)  P == Items(w, a + 1, b)
              later == Items(q, k + 1, Len(q)) \cup Items(w, b + 1, Len(w))
  <1>1. /\ Len(q) \in Nat /\ Len(w) \in Nat /\ k \in Nat
        /\ \A i \in 1 .. Len(q) : q[i] \in E /\ q[i] \in Range(q) /\ q[i].id \in Int
        /\ \A i \in 1 .. Len(w) : w[i] \in E /\ w[i] \in Range(w) /\ w[i].id \in Int
    BY RangeEquality
  <1>2. acc.contents \in Seq(E) /\ a \in 0 .. Len(w)
    BY DEF Accs
  <1>3. /\ next \in Accs(E, w) /\ b \in a .. Len(w) /\ next.contents = u \o <<q[k]>>
        /\ \A j \in a + 1 .. b : w[j].id < q[k].id
        /\ b < Len(w) => ~(w[b + 1].id < q[k].id)
    <2>. DEFINE event == q[k]
    <2>1. event \in E
      BY <1>1
    <2>. HIDE DEF event
    <2>2. LET after == Emit(acc, event, w)
          IN  /\ after \in Accs(E, w) /\ after.index \in acc.index .. Len(w)
              /\ after.contents =
                    acc.contents \o SubSeq(w, acc.index + 1, after.index) \o <<event>>
              /\ \A j \in acc.index + 1 .. after.index : w[j].id < event.id
              /\ after.index < Len(w) => ~(w[after.index + 1].id < event.id)
      BY <2>1, EmitStep
    <2>. QED  BY <2>2 DEF event
  <1>. HIDE DEF a, next, b
  <1>4. /\ Increasing(acc.contents) /\ R = Items(q, 1, k - 1) \cup Items(w, 1, a)
        /\ Below(R, Items(q, k - 1 + 1, Len(q)) \cup Items(w, a + 1, Len(w)))
    BY DEF MergedTo, a
  <1>5. part \in Seq(E) /\ Range(part) = P /\ Increasing(part)
    <2>1. a + 1 \in 1 .. Len(w) + 1 /\ b \in (a + 1) - 1 .. Len(w)
      BY <1>1, <1>2, <1>3
    <2>. QED  BY <2>1, PartOf, PartIncreasing
  <1>. HIDE DEF part
  <1>6. /\ \A e \in R, j \in a + 1 .. Len(w) : e.id < w[j].id
        /\ \A e \in R, i \in k .. Len(q) : e.id < q[i].id
    <2>1. k - 1 + 1 = k
      BY <1>1
    <2>. QED  BY <1>4, <2>1 DEF Below, Items
  <1>7. Below(R, P)
    BY SMTT(30), <1>1, <1>2, <1>3, <1>6 DEF Below, Items
  <1>8. u \in Seq(E) /\ Increasing(u) /\ Range(u) = R \cup P
    <2>. DEFINE c == acc.contents
    <2>1. /\ c \in Seq(E) /\ Increasing(c) /\ part \in Seq(E) /\ Increasing(part)
          /\ Below(Range(c), Range(part)) /\ R = Range(c)
      BY <1>2, <1>4, <1>5, <1>7
    <2>. HIDE DEF c, R
    <2>2. c \o part \in Seq(E) /\ Increasing(c \o part)
          /\ Range(c \o part) = Range(c) \cup Range(part)
      BY <2>1, IncreasingConcat
    <2>. QED  BY <1>5, <2>1, <2>2 DEF c, u
  <1>. HIDE DEF u
  <1>9. Below(R \cup P, {q[k]})
    BY <1>1, <1>3, <1>6 DEF Below, Items
  <1>. HIDE DEF R, P
  <1>10. Increasing(next.contents) /\ Range(next.contents) = R \cup P \cup {q[k]}
    <2>. DEFINE t == <<q[k]>>
    <2>1. t \in Seq(E) /\ Increasing(t) /\ Range(t) = {q[k]}
      BY <1>1 DEF Increasing, Range
    <2>. HIDE DEF t
    <2>2. u \in Seq(E) /\ Increasing(u) /\ Below(Range(u), Range(t))
      BY <1>8, <1>9, <2>1
    <2>3. Increasing(u \o t) /\ Range(u \o t) = Range(u) \cup Range(t)
      BY ZenonT(40), <2>1, <2>2, IncreasingConcat
    <2>. QED  BY <1>3, <1>8, <2>1, <2>3 DEF t
  <1>11. R \cup P \cup {q[k]} = Items(q, 1, k) \cup Items(w, 1, b)
    <2>1. Items(q, 1, k - 1) \cup {q[k]} = Items(q, 1, k)
      BY <1>1 DEF Items
    <2>2. Items(w, 1, a) \cup P = Items(w, 1, b)
      BY <1>1, <1>2, <1>3 DEF Items, P
    <2>. QED  BY <1>4, <2>1, <2>2
  <1>12. Below({q[k]}, later)
    <2>1. ASSUME NEW i \in k + 1 .. Len(q) PROVE q[k].id < q[i].id
      BY <1>1, <2>1 DEF Increasing
    <2>2. ASSUME NEW j \in b + 1 .. Len(w) PROVE q[k].id < w[j].id
      <3>1. b + 1 \in 1 .. Len(w) /\ j \in 1 .. Len(w) /\ b < Len(w) /\ (j = b + 1 \/ b + 1 < j)
        BY <1>1, <1>2, <1>3
      <3>2. ~(w[b + 1].id < q[k].id) /\ q[k].id # w[b + 1].id
        BY <1>1, <1>3, <3>1
      <3>3. q[k].id < w[b + 1].id
        BY <1>1, <3>1, <3>2
      <3>4. j = b + 1 \/ w[b + 1].id < w[j].id
        BY <3>1 DEF Increasing
      <3>. QED  BY <1>1, <3>1, <3>3, <3>4
    <2>. QED  BY <2>1, <2>2 DEF Below, Items
  <1>13. Below(R, later)
    <2>1. \A i \in k + 1 .. Len(q) : i \in k .. Len(q)
      BY <1>1
    <2>2. \A j \in b + 1 .. Len(w) : j \in a + 1 .. Len(w)
      BY <1>1, <1>2, <1>3
    <2>. QED  BY <1>6, <2>1, <2>2 DEF Below, Items
  <1>14. Below(P, later)
    <2>1. \A e \in P : e.id < q[k].id /\ e.id \in Int
      BY <1>1, <1>2, <1>3 DEF Items, P
    <2>2. \A f \in later : q[k].id < f.id /\ f.id \in Int
      <3>1. \A f \in later : f.id \in Int
        BY SMTT(30), <1>1, <1>2, <1>3 DEF Items
      <3>. QED  BY <1>12, <3>1 DEF Below
    <2>. HIDE DEF later
    <2>. QED  BY <1>1, <2>1, <2>2 DEF Below
  <1>15. Below(R \cup P \cup {q[k]}, later)
    BY <1>12, <1>13, <1>14 DEF Below
  <1>. QED  BY <1>10, <1>11, <1>15 DEF MergedTo, b, next

LEMMA LoopMerges ==
    ASSUME NEW E, \A e \in E : e.id \in Int, NEW q \in Seq(E), NEW w \in Seq(E),
           Increasing(q), Increasing(w),
           \A e \in Range(q), f \in Range(w) : e.id # f.id
    PROVE  \A k \in 0 .. Len(q) : MergedTo(q, w, k, Loop(q, w)[k])
  <1>. DEFINE L == Loop(q, w)  n == Len(q)  T == {k \in 0 .. n : MergedTo(q, w, k, L[k])}
  <1>1. n \in Nat /\ Len(w) \in Nat
    OBVIOUS
  <1>2. /\ L[0] = [contents |-> <<>>, index |-> 0]
        /\ \A k \in 1 .. n : L[k] = Emit(L[k - 1], q[k], w)
        /\ \A k \in 0 .. n : L[k] \in Accs(E, w)
    BY LoopSteps
  <1>. HIDE DEF L
  <1>3. 0 \in T
    <2>1. Increasing(<<>>) /\ Range(<<>>) = {} /\ Items(q, 1, 0) = {} /\ Items(w, 1, 0) = {}
      BY DEF Increasing, Range, Items
    <2>2. Below({}, Items(q, 0 + 1, Len(q)) \cup Items(w, 0 + 1, Len(w)))
      BY DEF Below
    <2>3. 0 \in 0 .. n /\ L[0].contents = <<>> /\ L[0].index = 0
      BY <1>1, <1>2
    <2>. QED  BY <2>1, <2>2, <2>3 DEF MergedTo
  <1>4. ASSUME NEW k \in 1 .. n, k - 1 \in T PROVE k \in T
    <2>1. L[k - 1] \in Accs(E, w) /\ k \in 0 .. n /\ MergedTo(q, w, k - 1, L[k - 1])
      BY <1>1, <1>2, <1>4
    <2>2. MergedTo(q, w, k, Emit(L[k - 1], q[k], w))
      BY <2>1, EmitMerges
    <2>. QED  BY <1>2, <2>1, <2>2
  <1>5. \A k \in 0 .. n : k \in T
    <2>. HIDE DEF T
    <2>. QED  BY <1>1, <1>3, <1>4, SetInduction
  <1>. QED  BY <1>5 DEF L

Merged(q, w) ==
    LET merged == Loop(q, w)[Len(q)]
    IN  merged.contents \o SubSeq(w, merged.index + 1, Len(w))

LEMMA MergeSorts ==
    ASSUME NEW E, \A e \in E : e.id \in Int, NEW q \in Seq(E), NEW w \in Seq(E),
           Increasing(q), Increasing(w),
           \A e \in Range(q), f \in Range(w) : e.id # f.id
    PROVE  /\ Merged(q, w) \in Seq(E) /\ Increasing(Merged(q, w))
           /\ Range(Merged(q, w)) = Range(q) \cup Range(w)
  <1>. DEFINE L == Loop(q, w)  n == Len(q)
  <1>1. n \in Nat /\ Len(w) \in Nat
    OBVIOUS
  <1>. DEFINE acc == L[n]  a == acc.index  part == SubSeq(w, a + 1, Len(w))
  <1>6. acc \in Accs(E, w) /\ MergedTo(q, w, n, acc)
    <2>1. n \in 0 .. n
      BY <1>1
    <2>. QED  BY <2>1, LoopSteps, LoopMerges
  <1>. HIDE DEF acc, L
  <1>7. acc.contents \in Seq(E) /\ a \in 0 .. Len(w)
    BY <1>6 DEF Accs
  <1>. HIDE DEF a
  <1>8. part \in Seq(E) /\ Range(part) = Items(w, a + 1, Len(w)) /\ Increasing(part)
    <2>1. a + 1 \in 1 .. Len(w) + 1 /\ Len(w) \in (a + 1) - 1 .. Len(w)
      BY <1>1, <1>7
    <2>. QED  BY <2>1, PartOf, PartIncreasing
  <1>. HIDE DEF part
  <1>9. /\ Increasing(acc.contents) /\ Below(Range(acc.contents), Range(part))
        /\ Range(acc.contents) = Items(q, 1, n) \cup Items(w, 1, a)
    BY <1>6, <1>8 DEF MergedTo, Below, a
  <1>10. /\ acc.contents \o part \in Seq(E) /\ Increasing(acc.contents \o part)
         /\ Range(acc.contents \o part) = Range(acc.contents) \cup Range(part)
    <2>. DEFINE c == acc.contents
    <2>1. /\ c \in Seq(E) /\ Increasing(c) /\ part \in Seq(E) /\ Increasing(part)
          /\ Below(Range(c), Range(part))
      BY <1>7, <1>8, <1>9
    <2>. HIDE DEF c
    <2>2. c \o part \in Seq(E) /\ Increasing(c \o part)
          /\ Range(c \o part) = Range(c) \cup Range(part)
      BY <2>1, IncreasingConcat
    <2>. QED  BY <2>2 DEF c
  <1>11. Items(q, 1, n) = Range(q) /\ Items(w, 1, a) \cup Items(w, a + 1, Len(w)) = Range(w)
    <2>1. Items(w, 1, a) \cup Items(w, a + 1, Len(w)) = Items(w, 1, Len(w))
      BY <1>1, <1>7 DEF Items
    <2>2. Items(q, 1, n) = Range(q) /\ Items(w, 1, Len(w)) = Range(w)
      BY RangeEquality DEF Items
    <2>. QED  BY <2>1, <2>2
  <1>12. Merged(q, w) = acc.contents \o part
    BY DEF Merged, acc, a, part, L
  <1>. QED  BY <1>8, <1>9, <1>10, <1>11, <1>12

-----------------------------------------------------------------------------
(* prune() splits an increasing queue at the id.                           *)
LEMMA PruneSplits ==
    ASSUME NEW E, \A e \in E : e.id \in Int, NEW q \in Seq(E), Increasing(q), NEW c \in Int
    PROVE  /\ PruneCount(q, c) \in 0 .. Len(q)
           /\ Prune(q, c) \in Seq(E) /\ Popped(q, c) \in Seq(E)
           /\ Increasing(Prune(q, c))
           /\ Popped(q, c) \o Prune(q, c) = q
           /\ Range(Prune(q, c)) = {e \in Range(q) : e.id > c}
           /\ \A i \in 1 .. Len(q) : q[i].id <= c <=> i <= PruneCount(q, c)
  <1>. DEFINE k == PruneCount(q, c)  n == Len(q)
  <1>1. /\ n \in Nat /\ Range(q) = {q[i] : i \in 1 .. n}
        /\ \A i \in 1 .. n : q[i] \in E /\ q[i].id \in Int
    BY RangeEquality
  <1>2. /\ k \in 0 .. n /\ \A i \in 1 .. k : q[i].id <= c
        /\ k < n => q[k + 1].id > c
    BY LeadingCount DEF PruneCount
  <1>. HIDE DEF k
  <1>3. ASSUME NEW i \in 1 .. n PROVE q[i].id <= c <=> i <= k
    <2>1. CASE i <= k
      BY <1>2, <2>1
    <2>2. CASE ~(i <= k)
      <3>1. k < n /\ k + 1 \in 1 .. n /\ (i = k + 1 \/ k + 1 < i)
        BY <1>1, <1>2, <2>2
      <3>2. q[k + 1].id > c /\ (i = k + 1 \/ q[k + 1].id < q[i].id)
        BY <1>2, <3>1 DEF Increasing
      <3>3. q[i].id > c
        BY <1>1, <3>1, <3>2
      <3>. QED  BY <1>1, <2>2, <3>3
    <2>. QED  BY <2>1, <2>2
  <1>4. k + 1 \in 1 .. n + 1 /\ n \in (k + 1) - 1 .. n /\ 1 \in 1 .. n + 1 /\ k \in 1 - 1 .. n
    BY <1>1, <1>2
  <1>5. /\ SubSeq(q, k + 1, n) \in Seq(E) /\ Increasing(SubSeq(q, k + 1, n))
        /\ Range(SubSeq(q, k + 1, n)) = Items(q, k + 1, n)
        /\ SubSeq(q, 1, k) \in Seq(E)
    BY <1>4, PartOf, PartIncreasing
  <1>6. SubSeq(q, 1, k) \o SubSeq(q, k + 1, n) = SubSeq(q, 1, n) /\ SubSeq(q, 1, n) = q
    <2>1. n \in k .. Len(q)
      BY <1>1, <1>2
    <2>2. SubSeq(q, 1, k) \o SubSeq(q, k + 1, n) = SubSeq(q, 1, n)
      <3>. HIDE DEF n
      <3>. QED  BY <1>4, <2>1, ConcatAdjacentSubSeq DEF n
    <2>. QED  BY <2>2, SubSeqFull
  <1>7. Items(q, k + 1, n) = {e \in Range(q) : e.id > c}
    <2>1. ASSUME NEW i \in k + 1 .. n PROVE q[i] \in Range(q) /\ q[i].id > c
      <3>1. i \in 1 .. n /\ ~(i <= k)
        BY <1>1, <1>2
      <3>2. ~(q[i].id <= c) /\ q[i].id \in Int
        BY <1>1, <1>3, <3>1
      <3>. QED  BY <1>1, <3>1, <3>2
    <2>2. ASSUME NEW i \in 1 .. n, q[i].id > c PROVE i \in k + 1 .. n
      <3>1. q[i].id \in Int /\ ~(q[i].id <= c)
        BY <1>1, <2>2
      <3>2. ~(i <= k)
        BY <1>3, <3>1
      <3>. QED  BY <1>2, <3>2
    <2>. QED  BY <1>1, <2>1, <2>2 DEF Items
  <1>. QED  BY <1>2, <1>3, <1>5, <1>6, <1>7 DEF Prune, Popped, k

(* contents() of a queue and a dict in order.                              *)
Typed(q, v) ==
    /\ q \in Seq(Events)
    /\ IsFiniteSet(DOMAIN v)
    /\ DOMAIN v \subseteq VirtualTypes
    /\ \A t \in DOMAIN v : v[t] \in Events /\ v[t].type = t

Ordered(q, v, n) ==
    /\ Increasing(q)
    /\ \A e \in Range(q) : e.id < n
    /\ \A t \in DOMAIN v : v[t].id < n
    /\ \A t, u \in DOMAIN v : v[t].id = v[u].id => t = u
    /\ \A e \in Range(q), t \in DOMAIN v :
          e.id # v[t].id /\ (e.type = t => e.id < v[t].id)

Values(v) == {v[t] : t \in DOMAIN v}

LEMMA EventIds == \A e \in Events : e.id \in Int /\ e.id \in 0 .. MaxEvents - 1
  BY MaxEventsAssumption DEF Events

LEMMA VirtualsSorted ==
    ASSUME NEW q, NEW v, NEW n, Typed(q, v), Ordered(q, v, n)
    PROVE  /\ Numbered(Values(v)) /\ SortedVirtuals(v) \in Seq(Events)
           /\ Increasing(SortedVirtuals(v)) /\ Range(SortedVirtuals(v)) = Values(v)
  <1>. DEFINE f == [t \in DOMAIN v |-> v[t]]  D == DOMAIN v  V == Values(v)
  <1>1. f \in Surjection(D, V)
    BY DEF Surjection, Values
  <1>2. IsFiniteSet(V)
    <2>1. IsFiniteSet(D)
      BY DEF Typed
    <2>. HIDE DEF f, D, V
    <2>. QED  BY <1>1, <2>1, FS_Surjection
  <1>3. V \subseteq Events
    BY DEF Typed, Values
  <1>4. Numbered(V)
    BY <1>2, <1>3, EventIds DEF Numbered, Ordered, Values
  <1>. DEFINE s == SortedById(V)
  <1>5. s \in Seq(V) /\ Increasing(s) /\ Range(s) = V
    <2>. HIDE DEF V
    <2>. QED  BY <1>4, SortedIsIncreasing
  <1>6. s \in Seq(Events)
    <2>. HIDE DEF V, s
    <2>. QED  BY <1>3, <1>5
  <1>. QED  BY <1>4, <1>5, <1>6 DEF SortedVirtuals, Values

LEMMA ContentsSorted ==
    ASSUME NEW q, NEW v, NEW n, Typed(q, v), Ordered(q, v, n)
    PROVE  /\ Contents(q, v) \in Seq(Events) /\ Increasing(Contents(q, v))
           /\ Range(Contents(q, v)) = Range(q) \cup Values(v)
           /\ Contents(q, v) = SortedById(Range(q) \cup Values(v))
  <1>. DEFINE w == SortedVirtuals(v)  c == Merged(q, w)
  <1>1. w \in Seq(Events) /\ Increasing(w) /\ Range(w) = Values(v)
    BY VirtualsSorted
  <1>2. q \in Seq(Events) /\ Increasing(q)
    BY DEF Typed, Ordered
  <1>3. \A e \in Range(q), f \in Range(w) : e.id # f.id
    BY <1>1 DEF Ordered, Values
  <1>4. \A e \in Events : e.id \in Int
    BY EventIds
  <1>5. Contents(q, v) = c
    BY DEF Contents, Merged
  <1>. HIDE DEF w
  <1>6. c \in Seq(Events) /\ Increasing(c) /\ Range(c) = Range(q) \cup Range(w)
    BY <1>1, <1>2, <1>3, <1>4, MergeSorts
  <1>. HIDE DEF c
  <1>7. c = SortedById(Range(c))
    BY <1>4, <1>6, IncreasingIsSorted
  <1>. QED  BY <1>1, <1>5, <1>6, <1>7

LEMMA ContentsOrdered ==
    ASSUME NEW q, NEW v, NEW n, Typed(q, v), Ordered(q, v, n)
    PROVE  Typed(Contents(q, v), NoVirtuals) /\ Ordered(Contents(q, v), NoVirtuals, n)
  <1>1. DOMAIN NoVirtuals = {} /\ IsFiniteSet({})
    BY FS_EmptySet DEF NoVirtuals
  <1>2. \A e \in Range(q) \cup Values(v) : e.id < n
    BY DEF Ordered, Values
  <1>. QED  BY ZenonT(40), <1>1, <1>2, ContentsSorted DEF Typed, Ordered

LEMMA PruneOrdered ==
    ASSUME NEW q, NEW v, NEW n, Typed(q, v), Ordered(q, v, n), NEW c \in Int
    PROVE  Typed(Prune(q, c), v) /\ Ordered(Prune(q, c), v, n)
  <1>1. q \in Seq(Events) /\ Increasing(q)
    BY DEF Typed, Ordered
  <1>2. \A e \in Events : e.id \in Int
    BY EventIds
  <1>. DEFINE r == Prune(q, c)
  <1>3. r \in Seq(Events) /\ Increasing(r) /\ Range(r) \subseteq Range(q)
    BY <1>1, <1>2, PruneSplits
  <1>. HIDE DEF r
  <1>4. Typed(r, v) /\ Ordered(r, v, n)
    BY <1>3 DEF Typed, Ordered
  <1>. QED  BY <1>4 DEF r

-----------------------------------------------------------------------------
(* push()                                                                  *)
NewEvent(type, messages, n) ==
    [id |-> n, type |-> type, messages |-> messages, covers |-> {n}]

LEMMA NewEventType ==
    ASSUME NEW type \in VirtualTypes \cup OtherTypes, NEW messages \in Payloads(type),
           NEW n \in 0 .. MaxEvents - 1
    PROVE  NewEvent(type, messages, n) \in Events /\ messages \in Seq(Messages)
  <1>1. messages \in Seq(Messages)
    <2>1. CASE type \in FlagTypes
      <3>1. PICK m \in Messages : messages = <<m>>
        BY <2>1 DEF Payloads
      <3>. QED  BY <3>1
    <2>2. CASE type \notin FlagTypes
      BY <2>2 DEF Payloads
    <2>. QED  BY <2>1, <2>2
  <1>. QED  BY <1>1 DEF NewEvent, Events

(* What a virtual event is filed as.                                       *)
LEMMA FileVirtualIs ==
    ASSUME NEW v, NEW event
    PROVE  /\ DOMAIN FileVirtual(v, event) = DOMAIN v \cup {event.type}
           /\ \A t \in DOMAIN v : t # event.type => FileVirtual(v, event)[t] = v[t]
           /\ FileVirtual(v, event)[event.type] =
                IF event.type \in DOMAIN v THEN MergeVirtual(v[event.type], event)
                ELSE event
  BY DEF FileVirtual

LEMMA MergeVirtualIs ==
    ASSUME NEW old \in Events, NEW event \in Events
    PROVE  /\ MergeVirtual(old, event) \in Events
           /\ MergeVirtual(old, event).id = event.id
           /\ MergeVirtual(old, event).type = old.type
           /\ MergeVirtual(old, event).messages = old.messages \o event.messages
           /\ MergeVirtual(old, event).covers = old.covers \cup event.covers
  <1>. DEFINE m == old.messages \o event.messages  c == old.covers \cup event.covers
              A == 0 .. MaxEvents - 1  B == VirtualTypes \cup OtherTypes
              C == Seq(Messages)  D == SUBSET (0 .. MaxEvents - 1)
              x == event.id
  <1>1. x \in A /\ m \in C /\ c \in D
    BY DEF Events
  <1>2. old \in [id : A, type : B, messages : C, covers : D]
    BY DEF Events
  <1>3. MergeVirtual(old, event) = [old EXCEPT !.id = x, !.messages = m, !.covers = c]
    BY DEF MergeVirtual
  <1>. HIDE DEF m, c, A, B, C, D, x
  <1>. DEFINE f == [old EXCEPT !.id = x, !.messages = m, !.covers = c]
  <1>4. f.id = x /\ f.type = old.type /\ f.messages = m /\ f.covers = c
    BY <1>2
  <1>5. f \in [id : A, type : B, messages : C, covers : D]
    BY <1>1, <1>2
  <1>. QED  BY <1>3, <1>4, <1>5 DEF Events, m, c, A, B, C, D, x

LEMMA FileOrdered ==
    ASSUME NEW q, NEW v, NEW n \in 0 .. MaxEvents - 1, Typed(q, v), Ordered(q, v, n),
           NEW event \in Events, event.id = n, event.type \in VirtualTypes
    PROVE  Typed(q, FileVirtual(v, event)) /\ Ordered(q, FileVirtual(v, event), n + 1)
  <1>. DEFINE u == FileVirtual(v, event)  type == event.type
  <1>1. /\ DOMAIN u = DOMAIN v \cup {type}
        /\ \A t \in DOMAIN v : t # type => u[t] = v[t]
        /\ u[type] = IF type \in DOMAIN v THEN MergeVirtual(v[type], event) ELSE event
    BY FileVirtualIs
  <1>. HIDE DEF u
  <1>2. n \in Int /\ n < n + 1
    OBVIOUS
  <1>3. u[type] \in Events /\ u[type].type = type /\ u[type].id = n
    <2>1. CASE type \in DOMAIN v
      <3>. DEFINE old == v[type]
      <3>1. old \in Events /\ old.type = type /\ u[type] = MergeVirtual(old, event)
        BY <1>1, <2>1 DEF Typed
      <3>. HIDE DEF old
      <3>. QED  BY ZenonT(40), <3>1, MergeVirtualIs
    <2>2. CASE type \notin DOMAIN v
      BY <1>1, <2>2
    <2>. QED  BY <2>1, <2>2
  <1>4. IsFiniteSet(DOMAIN u)
    BY <1>1, FS_AddElement DEF Typed
  <1>5. Typed(q, u)
    BY <1>1, <1>3, <1>4 DEF Typed
  <1>6. /\ \A t \in DOMAIN u : t # type => t \in DOMAIN v /\ u[t] = v[t]
        /\ \A t \in DOMAIN v : v[t].id \in Int /\ v[t].id < n /\ v[t].id # n
        /\ \A e \in Range(q) : e.id \in Int /\ e.id < n /\ e.id # n
    <2>1. \A t \in DOMAIN v : v[t].id \in Int /\ v[t].id < n
      BY EventIds DEF Typed, Ordered
    <2>2. \A e \in Range(q) : e.id \in Int /\ e.id < n
      <3>1. \A e \in Range(q) : e \in Events
        BY RangeEquality DEF Typed
      <3>. QED  BY <3>1, EventIds DEF Ordered
    <2>. QED  BY <1>1, <1>2, <2>1, <2>2
  <1>7. Ordered(q, u, n + 1)
    <2>1. \A t \in DOMAIN u : u[t].id < n + 1
      BY <1>2, <1>3, <1>6
    <2>2. \A e \in Range(q) : e.id < n + 1
      BY <1>2, <1>6
    <2>3. ASSUME NEW t \in DOMAIN u, NEW s \in DOMAIN u, u[t].id = u[s].id PROVE t = s
      <3>1. CASE t = type /\ s # type
        BY <1>3, <1>6, <2>3, <3>1
      <3>2. CASE t # type /\ s = type
        BY <1>3, <1>6, <2>3, <3>2
      <3>3. CASE t # type /\ s # type
        BY <1>6, <2>3, <3>3 DEF Ordered
      <3>. QED  BY <3>1, <3>2, <3>3
    <2>4. ASSUME NEW e \in Range(q), NEW t \in DOMAIN u
          PROVE  e.id # u[t].id /\ (e.type = t => e.id < u[t].id)
      <3>1. CASE t = type
        BY <1>3, <1>6, <3>1
      <3>2. CASE t # type
        BY <1>6, <3>2 DEF Ordered
      <3>. QED  BY <3>1, <3>2
    <2>. QED  BY <2>1, <2>2, <2>3, <2>4 DEF Ordered
  <1>. QED  BY <1>5, <1>7 DEF u

LEMMA AppendOrdered ==
    ASSUME NEW q, NEW v, NEW n \in 0 .. MaxEvents - 1, Typed(q, v), Ordered(q, v, n),
           NEW event \in Events, event.id = n, event.type \notin VirtualTypes
    PROVE  Typed(Append(q, event), v) /\ Ordered(Append(q, event), v, n + 1)
  <1>. DEFINE r == Append(q, event)
  <1>0. q \in Seq(Events) /\ n \in Int
    BY DEF Typed
  <1>1. /\ r \in Seq(Events) /\ Len(r) = Len(q) + 1 /\ r[Len(q) + 1] = event
        /\ \A i \in 1 .. Len(q) : r[i] = q[i]
    BY <1>0, AppendProperties
  <1>. HIDE DEF r
  <1>2. /\ Len(q) \in Nat
        /\ \A i \in 1 .. Len(q) : q[i] \in Range(q) /\ q[i].id \in Int /\ q[i].id < n
    BY <1>0, RangeEquality, EventIds DEF Ordered
  <1>3. Increasing(r)
    <2>. SUFFICES ASSUME NEW i \in 1 .. Len(q) + 1, NEW j \in 1 .. Len(q) + 1, i < j
                  PROVE  r[i].id < r[j].id
      BY <1>1 DEF Increasing
    <2>1. i \in 1 .. Len(q) /\ r[i] = q[i]
      BY <1>1, <1>2
    <2>2. CASE j \in 1 .. Len(q)
      BY <1>1, <2>1, <2>2 DEF Ordered, Increasing
    <2>3. CASE j = Len(q) + 1
      BY <1>1, <1>2, <2>1, <2>3
    <2>. QED  BY <1>2, <2>2, <2>3
  <1>4. \A e \in Range(r) : e \in Range(q) \/ e = event
    <2>1. Range(Append(q, event)) = Range(q) \cup {event}
      BY <1>0, AppendRange
    <2>. QED  BY <2>1 DEF r
  <1>5. /\ \A t \in DOMAIN v : v[t].id \in Int /\ v[t].id < n /\ t \in VirtualTypes
        /\ \A e \in Range(q) : e.id \in Int /\ e.id < n
    <2>1. \A e \in Range(q) : e \in Events
      BY <1>0, RangeEquality
    <2>. QED  BY <2>1, EventIds DEF Typed, Ordered
  <1>6. Typed(r, v)
    BY <1>1 DEF Typed
  <1>7. Ordered(r, v, n + 1)
    <2>1. \A e \in Range(r) : e.id < n + 1
      BY <1>0, <1>4, <1>5
    <2>2. \A t \in DOMAIN v : v[t].id < n + 1
      BY <1>0, <1>5
    <2>3. ASSUME NEW e \in Range(r), NEW t \in DOMAIN v
          PROVE  e.id # v[t].id /\ (e.type = t => e.id < v[t].id)
      <3>1. CASE e = event
        BY <1>0, <1>5, <3>1
      <3>2. CASE e \in Range(q)
        BY <3>2 DEF Ordered
      <3>. QED  BY <1>4, <3>1, <3>2
    <2>4. \A t, s \in DOMAIN v : v[t].id = v[s].id => t = s
      BY DEF Ordered
    <2>. QED  BY <1>3, <2>1, <2>2, <2>3, <2>4 DEF Ordered
  <1>. QED  BY <1>6, <1>7 DEF r

-----------------------------------------------------------------------------
(* The queue at work.                                                      *)
Pushes == [type : VirtualTypes \cup OtherTypes, messages : Seq(Messages)]

QueueInv ==
    /\ Typed(queue, virtual_events)
    /\ Ordered(queue, virtual_events, next_event_id)
    /\ next_event_id \in 0 .. MaxEvents
    /\ newest_pruned_id \in -1 .. MaxEvents - 1
    /\ newest_pruned_id < next_event_id
    /\ pruned \in Seq(Events)
    /\ pushed \in Seq(Pushes)

LEMMA InitQueueInv == Init => QueueInv
  <1>. SUFFICES ASSUME Init PROVE QueueInv
    OBVIOUS
  <1>1. Range(queue) = {} /\ DOMAIN virtual_events = {} /\ queue = <<>>
    BY DEF Init, Range, NoVirtuals
  <1>2. Typed(queue, virtual_events)
    BY <1>1, FS_EmptySet DEF Typed
  <1>3. Ordered(queue, virtual_events, next_event_id)
    BY <1>1 DEF Ordered, Increasing
  <1>. QED  BY <1>2, <1>3, MaxEventsAssumption DEF QueueInv, Init

(* What prune() reports: the id of the last event it pops, or the old one. *)
LEMMA NewestPrunedIs ==
    ASSUME NEW v, NEW q, NEW n \in 0 .. MaxEvents, Typed(q, v), Ordered(q, v, n),
           NEW c \in Int, NEW old \in -1 .. MaxEvents - 1, old < n
    PROVE  /\ NewestPruned(q, c, old) \in -1 .. MaxEvents - 1
           /\ NewestPruned(q, c, old) < n
           /\ PruneCount(q, c) = 0 => NewestPruned(q, c, old) = old
           /\ PruneCount(q, c) # 0 =>
                /\ q[PruneCount(q, c)] \in Range(q)
                /\ NewestPruned(q, c, old) = q[PruneCount(q, c)].id
  <1>. DEFINE k == PruneCount(q, c)
  <1>1. q \in Seq(Events) /\ Increasing(q) /\ \A e \in Events : e.id \in Int
    BY EventIds DEF Typed, Ordered
  <1>2. k \in 0 .. Len(q) /\ Len(q) \in Nat
    BY <1>1, PruneSplits
  <1>. HIDE DEF k
  <1>3. CASE k = 0
    BY <1>3 DEF NewestPruned, k
  <1>4. CASE k # 0
    <2>1. k \in 1 .. Len(q)
      BY <1>2, <1>4
    <2>2. q[k] \in Range(q) /\ q[k] \in Events
      BY <1>1, <2>1, RangeEquality
    <2>3. q[k].id \in 0 .. MaxEvents - 1 /\ q[k].id < n
      BY <2>2, EventIds DEF Ordered
    <2>4. NewestPruned(q, c, old) = q[k].id
      BY <1>4 DEF NewestPruned, k
    <2>. QED  BY <1>4, <2>2, <2>3, <2>4, MaxEventsAssumption DEF k
  <1>. QED  BY <1>3, <1>4

(* What a fetch does to the deque and the counters.                        *)
LEMMA FetchPrunes ==
    ASSUME QueueInv, NEW c \in LastEventIds
    PROVE  /\ Typed(Prune(queue, c), virtual_events)
           /\ Ordered(Prune(queue, c), virtual_events, next_event_id)
           /\ NewestPruned(queue, c, newest_pruned_id) \in -1 .. MaxEvents - 1
           /\ NewestPruned(queue, c, newest_pruned_id) < next_event_id
           /\ pruned \o Popped(queue, c) \in Seq(Events)
  <1>1. c \in Int
    BY MaxEventsAssumption DEF LastEventIds
  <1>2. \A e \in Events : e.id \in Int
    BY EventIds
  <1>3. Popped(queue, c) \in Seq(Events)
    BY <1>1, <1>2, PruneSplits DEF QueueInv, Typed, Ordered
  <1>. DEFINE p == Popped(queue, c)
  <1>4. pruned \o p \in Seq(Events)
    <2>. HIDE DEF p
    <2>. QED  BY <1>3, ConcatProperties DEF QueueInv, p
  <1>. QED  BY <1>1, <1>4, PruneOrdered, NewestPrunedIs DEF QueueInv

LEMMA NextQueueInv == QueueInv /\ [Next]_vars => QueueInv'
  <1>. SUFFICES ASSUME QueueInv, [Next]_vars PROVE QueueInv'
    OBVIOUS
  <1>1. ASSUME NEW type \in VirtualTypes \cup OtherTypes, NEW messages \in Payloads(type),
               Push(type, messages)
        PROVE  QueueInv'
    <2>. DEFINE event == NewEvent(type, messages, next_event_id)
                push == [type |-> type, messages |-> messages]
    <2>1. /\ next_event_id \in 0 .. MaxEvents - 1 /\ next_event_id' = next_event_id + 1
          /\ next_event_id' \in 0 .. MaxEvents /\ newest_pruned_id' < next_event_id'
          /\ newest_pruned_id' = newest_pruned_id /\ pruned' = pruned
      BY <1>1, MaxEventsAssumption DEF Push, QueueInv
    <2>2. event \in Events /\ messages \in Seq(Messages)
      BY <2>1, NewEventType
    <2>3. event.id = next_event_id /\ event.type = type
      BY DEF NewEvent
    <2>4. pushed' \in Seq(Pushes)
      <3>1. push \in Pushes /\ pushed' = Append(pushed, push)
        BY <1>1, <2>2 DEF Push, Pushes
      <3>. HIDE DEF push
      <3>. QED  BY <3>1, AppendProperties DEF QueueInv
    <2>5. Typed(queue, virtual_events)' /\ Ordered(queue, virtual_events, next_event_id)'
      <3>1. CASE type \in VirtualTypes
        <4>1. queue' = queue /\ virtual_events' = FileVirtual(virtual_events, event)
          BY <1>1, <3>1 DEF Push, NewEvent
        <4>. HIDE DEF event
        <4>2. /\ Typed(queue, FileVirtual(virtual_events, event))
              /\ Ordered(queue, FileVirtual(virtual_events, event), next_event_id + 1)
          BY <2>1, <2>2, <2>3, <3>1, FileOrdered DEF QueueInv
        <4>. QED  BY <2>1, <4>1, <4>2
      <3>2. CASE type \notin VirtualTypes
        <4>1. queue' = Append(queue, event) /\ virtual_events' = virtual_events
          BY <1>1, <3>2 DEF Push, NewEvent
        <4>. HIDE DEF event
        <4>2. /\ Typed(Append(queue, event), virtual_events)
              /\ Ordered(Append(queue, event), virtual_events, next_event_id + 1)
          BY <2>1, <2>2, <2>3, <3>2, AppendOrdered DEF QueueInv
        <4>. QED  BY <2>1, <4>1, <4>2
      <3>. QED  BY <3>1, <3>2
    <2>. QED  BY <2>1, <2>4, <2>5 DEF QueueInv
  <1>2. CASE Finish
    <2>1. /\ Typed(Contents(queue, virtual_events), NoVirtuals)
          /\ Ordered(Contents(queue, virtual_events), NoVirtuals, next_event_id)
      BY ContentsOrdered DEF QueueInv
    <2>. QED  BY <1>2, <2>1 DEF Finish, QueueInv
  <1>3. ASSUME NEW c \in LastEventIds, FetchNotInQueue(c) PROVE QueueInv'
    BY <1>3, FetchPrunes DEF FetchNotInQueue, QueueInv
  <1>4. ASSUME NEW c \in LastEventIds, NEW dont_block \in BOOLEAN, FetchRespond(c, dont_block)
        PROVE  QueueInv'
    <2>. DEFINE rest == Prune(queue, c)
    <2>1. /\ Typed(rest, virtual_events)
          /\ Ordered(rest, virtual_events, next_event_id)
          /\ NewestPruned(queue, c, newest_pruned_id) \in -1 .. MaxEvents - 1
          /\ NewestPruned(queue, c, newest_pruned_id) < next_event_id
          /\ pruned \o Popped(queue, c) \in Seq(Events)
      BY FetchPrunes
    <2>2. /\ Typed(Contents(rest, virtual_events), NoVirtuals)
          /\ Ordered(Contents(rest, virtual_events), NoVirtuals, next_event_id)
      <3>. HIDE DEF rest
      <3>. QED  BY <2>1, ContentsOrdered
    <2>. QED  BY <1>4, <2>1, <2>2 DEF FetchRespond, QueueInv
  <1>5. ASSUME NEW c \in LastEventIds, FetchBlock(c) PROVE QueueInv'
    BY <1>5, FetchPrunes DEF FetchBlock, QueueInv
  <1>6. CASE UNCHANGED vars
    BY <1>6 DEF vars, QueueInv
  <1>7. CASE DumpLoad
    BY <1>7 DEF DumpLoad, FromDict, ToDict, QueueInv
  <1>8. ASSUME NEW c \in LastEventIds, FetchAlreadyPruned(c) PROVE QueueInv'
    BY <1>6, <1>8 DEF FetchAlreadyPruned
  <1>. QED  BY <1>1, <1>2, <1>3, <1>4, <1>5, <1>6, <1>7, <1>8 DEF Next

LEMMA QueueInvariant == Spec => []QueueInv
  BY InitQueueInv, NextQueueInv, PTL DEF Spec

(* The fields of the queue keep their types, and a virtual event stays     *)
(* filed under its own full event type, whatever is merged into it.        *)
THEOREM TypeCorrect == Spec => []EventQueueTypeOK
  <1>1. QueueInv => EventQueueTypeOK
    BY DEF QueueInv, Typed, EventQueueTypeOK
  <1>. QED  BY <1>1, QueueInvariant, PTL

(* contents() sorts: it is a merge of the deque and the sorted dict, and   *)
(* that these two are in order with all ids different is what every push,  *)
(* fetch and restart preserves.                                            *)
THEOREM ContentsAreSorted == Spec => []MergeIsSort
  <1>1. QueueInv => MergeIsSort
    BY ContentsSorted DEF QueueInv, MergeIsSort, ContentsNow, Virtuals, Values
  <1>. QED  BY <1>1, QueueInvariant, PTL

-----------------------------------------------------------------------------
(* The deque and the dict as a log of pending entries.                     *)
QEntries(q) == {LogEntry(e, <<"final">>) : e \in Range(q)}

VEntries(v) == {LogEntry(e, e.type) : e \in Values(v)}

Entries(q, v) == QEntries(q) \cup VEntries(v)

LEMMA FinalIsNotVirtual == \A t \in VirtualTypes : t # <<"final">>
  <1>. SUFFICES ASSUME NEW t \in VirtualTypes PROVE t # <<"final">>
    OBVIOUS
  <1>1. t[1] = "flags" \/ t[1] = "restart"
    BY DEF VirtualTypes, FlagTypes, Restart
  <1>2. <<"final">>[1] = "final"
    OBVIOUS
  <1>. QED  BY <1>1, <1>2

LEMMA LogEntryIs ==
    ASSUME NEW e, NEW t
    PROVE  /\ LogEntry(e, t).id = e.id /\ LogEntry(e, t).covers = e.covers
           /\ LogEntry(e, t).virtual = t
  BY DEF LogEntry

LEMMA VEntriesAre ==
    ASSUME NEW q, NEW v, Typed(q, v)
    PROVE  VEntries(v) = {LogEntry(v[t], t) : t \in DOMAIN v}
  <1>1. \A t \in DOMAIN v : v[t].type = t
    BY DEF Typed
  <1>. QED  BY <1>1 DEF VEntries, Values

(* A real event is a final entry.                                          *)
LEMMA AppendEntries ==
    ASSUME NEW q, NEW v, NEW n \in 0 .. MaxEvents - 1, Typed(q, v),
           NEW type \in VirtualTypes \cup OtherTypes, NEW messages \in Payloads(type)
    PROVE  LET event == NewEvent(type, messages, n)
           IN  Entries(Append(q, event), v) = Log!Pushed(Entries(q, v), n, <<"final">>)
  <1>. DEFINE event == NewEvent(type, messages, n)
              new == [id |-> n, covers |-> {n} \cup {}, virtual |-> <<"final">>]
  <1>1. q \in Seq(Events) /\ event \in Events
    BY NewEventType DEF Typed
  <1>2. Range(Append(q, event)) = Range(q) \cup {event}
    <2>. HIDE DEF event
    <2>. QED  BY <1>1, AppendRange
  <1>3. LogEntry(event, <<"final">>) = new
    BY DEF LogEntry, NewEvent
  <1>4. Entries(Append(q, event), v) = Entries(q, v) \cup {new}
    <2>. DEFINE r == Append(q, event)
    <2>. HIDE DEF event, new, r
    <2>1. QEntries(r) = QEntries(q) \cup {LogEntry(event, <<"final">>)}
      BY <1>2 DEF QEntries, r
    <2>. QED  BY <1>3, <2>1 DEF Entries, r
  <1>5. <<"final">> \notin VirtualTypes
    BY FinalIsNotVirtual
  <1>6. Log!Pushed(Entries(q, v), n, <<"final">>) = Entries(q, v) \cup {new}
    <2>. DEFINE P == Entries(q, v)
    <2>1. {e \in P : <<"final">> \in VirtualTypes /\ e.virtual = <<"final">>} = {}
      BY <1>5
    <2>2. Log!Covered({}) = {}
      BY DEF Log!Covered
    <2>. HIDE DEF P
    <2>3. Log!Pushed(P, n, <<"final">>) = (P \ {}) \cup {new}
      BY <2>1, <2>2 DEF Log!Pushed
    <2>. QED  BY <2>3 DEF P
  <1>. QED  BY <1>4, <1>6

(* A virtual event replaces the entry of its type, and covers what that    *)
(* entry covered.                                                          *)
LEMMA FileEntries ==
    ASSUME NEW q, NEW v, NEW n \in 0 .. MaxEvents - 1, Typed(q, v),
           NEW event \in Events, event.type \in VirtualTypes,
           event.id = n, event.covers = {n}
    PROVE  Entries(q, FileVirtual(v, event)) = Log!Pushed(Entries(q, v), n, event.type)
  <1>. DEFINE type == event.type  u == FileVirtual(v, event)  D == DOMAIN v
              P == Entries(q, v)
              merged == {e \in P : type \in VirtualTypes /\ e.virtual = type}
              new == [id |-> n, covers |-> {n} \cup Log!Covered(merged), virtual |-> type]
  <1>1. /\ DOMAIN u = D \cup {type} /\ \A t \in D : t # type => u[t] = v[t]
        /\ u[type] = IF type \in D THEN MergeVirtual(v[type], event) ELSE event
    BY FileVirtualIs
  <1>2. type \in VirtualTypes /\ type # <<"final">>
    BY FinalIsNotVirtual
  <1>3. VEntries(v) = {LogEntry(v[t], t) : t \in D}
    BY VEntriesAre
  <1>4. \A t \in D : v[t] \in Events /\ v[t].type = t
    BY DEF Typed
  <1>5. VEntries(u) = {LogEntry(u[t], t) : t \in D \cup {type}}
    <2>1. u[type].type = type
      <3>1. CASE type \in D
        <4>. DEFINE old == v[type]
        <4>1. old \in Events /\ old.type = type /\ u[type] = MergeVirtual(old, event)
          BY <1>1, <1>4, <3>1
        <4>. HIDE DEF old, u
        <4>. QED  BY ZenonT(40), <4>1, MergeVirtualIs
      <3>2. CASE type \notin D
        BY <1>1, <3>2
      <3>. QED  BY <3>1, <3>2
    <2>. HIDE DEF u, D, type
    <2>2. \A t \in D \cup {type} : u[t].type = t
      BY <1>1, <1>4, <2>1
    <2>. QED  BY <1>1, <2>2 DEF VEntries, Values
  <1>. HIDE DEF u, D, type
  <1>6. \A e \in QEntries(q) : e.virtual # type
    BY <1>2, LogEntryIs DEF QEntries
  <1>7. merged = {LogEntry(v[t], t) : t \in D \cap {type}}
    <2>1. \A t \in D : LogEntry(v[t], t).virtual = t
      BY LogEntryIs
    <2>. QED  BY <1>2, <1>3, <1>6, <2>1 DEF Entries
  <1>8. new = LogEntry(u[type], type)
    <2>1. CASE type \in D
      <3>. DEFINE old == v[type]
      <3>1. merged = {LogEntry(old, type)}
        BY <1>7, <2>1
      <3>2. Log!Covered(merged) = old.covers
        <4>. HIDE DEF merged, old
        <4>. QED  BY <3>1, LogEntryIs DEF Log!Covered
      <3>3. old \in Events /\ u[type] = MergeVirtual(old, event)
        BY <1>1, <1>4, <2>1
      <3>. HIDE DEF merged, old
      <3>4. u[type].id = n /\ u[type].covers = old.covers \cup {n}
        BY ZenonT(40), <3>3, MergeVirtualIs
      <3>5. {n} \cup old.covers = old.covers \cup {n}
        OBVIOUS
      <3>. QED  BY <3>2, <3>4, <3>5 DEF LogEntry
    <2>2. CASE type \notin D
      <3>1. merged = {}
        BY <1>7, <2>2
      <3>2. Log!Covered(merged) = {}
        BY <3>1 DEF Log!Covered
      <3>3. u[type] = event
        BY <1>1, <2>2
      <3>. HIDE DEF merged
      <3>. QED  BY <3>2, <3>3 DEF LogEntry
    <2>. QED  BY <2>1, <2>2
  <1>. HIDE DEF new
  <1>9. \A t \in D \cup {type} : LogEntry(u[t], t) \in (VEntries(v) \ merged) \cup {new}
    <2>1. ASSUME NEW t \in D, t # type PROVE LogEntry(u[t], t) \in VEntries(v) \ merged
      <3>1. u[t] = v[t] /\ LogEntry(v[t], t) \in VEntries(v) /\ LogEntry(v[t], t).virtual # type
        BY <1>1, <1>3, <2>1, LogEntryIs
      <3>. QED  BY <3>1
    <2>. QED  BY <1>8, <2>1
  <1>10. \A e \in VEntries(v) \ merged : e \in VEntries(u)
    <2>. SUFFICES ASSUME NEW t \in D, LogEntry(v[t], t) \notin merged
                  PROVE  LogEntry(v[t], t) \in VEntries(u)
      BY <1>3
    <2>1. t # type
      <3>. HIDE DEF merged
      <3>. QED  BY <1>7
    <2>. QED  BY <1>1, <1>5, <2>1
  <1>11. new \in VEntries(u)
    BY <1>5, <1>8
  <1>12. VEntries(u) = (VEntries(v) \ merged) \cup {new}
    <2>. HIDE DEF merged
    <2>. QED  BY <1>5, <1>9, <1>10, <1>11
  <1>13. QEntries(q) \cap merged = {}
    BY <1>6
  <1>14. Entries(q, u) = (P \ merged) \cup {new}
    <2>. HIDE DEF merged
    <2>. QED  BY <1>12, <1>13 DEF Entries
  <1>15. Log!Pushed(P, n, type) = (P \ merged) \cup {new}
    <2>. HIDE DEF P
    <2>. QED  BY DEF Log!Pushed, new
  <1>. QED  BY <1>14, <1>15 DEF u, type

(* contents() makes every entry final.                                     *)
LEMMA FinalEntries ==
    ASSUME NEW q, NEW v, NEW c, Range(c) = Range(q) \cup Values(v)
    PROVE  Entries(c, NoVirtuals) = Log!Final(Entries(q, v))
  <1>. DEFINE S == Range(q) \cup Values(v)  F == <<"final">>
  <1>1. Values(NoVirtuals) = {}
    BY DEF Values, NoVirtuals
  <1>2. Entries(c, NoVirtuals) = {LogEntry(e, F) : e \in S}
    BY <1>1 DEF Entries, QEntries, VEntries
  <1>3. ASSUME NEW e, NEW t PROVE [LogEntry(e, t) EXCEPT !.virtual = F] = LogEntry(e, F)
    BY DEF LogEntry
  <1>. HIDE DEF F
  <1>4. Log!Final(Entries(q, v)) = {[e EXCEPT !.virtual = F] : e \in Entries(q, v)}
    BY DEF Log!Final, F
  <1>5. ASSUME NEW e \in S PROVE LogEntry(e, F) \in Log!Final(Entries(q, v))
    <2>1. LogEntry(e, F) \in Entries(q, v) \/ LogEntry(e, e.type) \in Entries(q, v)
      BY DEF Entries, QEntries, VEntries, F
    <2>2. PICK f \in Entries(q, v) : f = LogEntry(e, F) \/ f = LogEntry(e, e.type)
      BY <2>1
    <2>. QED  BY <1>3, <1>4, <2>2
  <1>6. ASSUME NEW f \in Entries(q, v) PROVE \E e \in S : [f EXCEPT !.virtual = F] = LogEntry(e, F)
    <2>1. PICK e \in S : f = LogEntry(e, F) \/ f = LogEntry(e, e.type)
      BY DEF Entries, QEntries, VEntries, F
    <2>. QED  BY <1>3, <2>1
  <1>. HIDE DEF S
  <1>7. Log!Final(Entries(q, v)) = {LogEntry(e, F) : e \in S}
    BY <1>4, <1>5, <1>6
  <1>. QED  BY <1>2, <1>7

(* prune() removes the final entries up to the id, also of an id that      *)
(* separates the real events in the same way.                              *)
LEMMA PruneEntries ==
    ASSUME NEW q, NEW v, NEW n, Typed(q, v), Ordered(q, v, n), NEW c \in Int, NEW d \in Int,
           \A e \in Range(q) : e.id <= c <=> e.id <= d, NEW old
    PROVE  /\ Entries(Prune(q, c), v) = Entries(q, v) \ Log!Prunable(Entries(q, v), d)
           /\ NewestPruned(q, c, old) = Log!NewestPruned(Entries(q, v), d, old)
  <1>. DEFINE F == <<"final">>  k == PruneCount(q, c)  P == Entries(q, v)
              G == Log!Prunable(P, d)  gone == {e.id : e \in G}
              R == Range(q)
  <1>1. q \in Seq(Events) /\ Increasing(q) /\ \A e \in Events : e.id \in Int
    BY EventIds DEF Typed, Ordered
  <1>2. /\ k \in 0 .. Len(q) /\ Range(Prune(q, c)) = {e \in R : e.id > c}
        /\ \A i \in 1 .. Len(q) : q[i].id <= c <=> i <= k
    BY <1>1, PruneSplits
  <1>3. /\ Len(q) \in Nat /\ R = {q[i] : i \in 1 .. Len(q)}
        /\ \A e \in R : e.id \in Int
    BY <1>1, RangeEquality
  <1>. HIDE DEF k, R
  <1>4. \A e \in VEntries(v) : e.virtual # F
    <2>1. VEntries(v) = {LogEntry(v[t], t) : t \in DOMAIN v}
      BY VEntriesAre
    <2>2. \A t \in DOMAIN v : t # F
      BY FinalIsNotVirtual DEF Typed
    <2>3. \A t \in DOMAIN v : LogEntry(v[t], t).virtual = t
      BY LogEntryIs
    <2>. QED  BY <2>1, <2>2, <2>3
  <1>5. QEntries(q) = {LogEntry(e, F) : e \in R}
    BY DEF QEntries, R
  <1>. HIDE DEF F
  <1>6. G = {LogEntry(e, F) : e \in {x \in R : x.id <= c}}
    <2>0. G = {e \in P : e.virtual = F /\ e.id <= d}
      BY DEF Log!Prunable, F
    <2>1. ASSUME NEW e \in R, e.id <= c PROVE LogEntry(e, F) \in G
      <3>1. LogEntry(e, F) \in P /\ LogEntry(e, F).virtual = F /\ LogEntry(e, F).id <= d
        BY <1>5, <2>1, LogEntryIs DEF Entries, R
      <3>. QED  BY <2>0, <3>1
    <2>2. ASSUME NEW g \in G PROVE \E e \in R : e.id <= c /\ g = LogEntry(e, F)
      <3>1. g \in QEntries(q)
        BY <1>4, <2>0 DEF Entries
      <3>2. PICK e \in R : g = LogEntry(e, F)
        BY <1>5, <3>1
      <3>3. e.id <= d
        BY <2>0, <3>2, LogEntryIs
      <3>. QED  BY <3>2, <3>3 DEF R
    <2>. HIDE DEF G
    <2>. QED  BY <2>1, <2>2
  <1>. HIDE DEF G
  <1>7. QEntries(Prune(q, c)) = QEntries(q) \ G
    <2>1. QEntries(Prune(q, c)) = {LogEntry(e, F) : e \in {x \in R : x.id > c}}
      BY <1>2 DEF QEntries, F
    <2>2. ASSUME NEW e \in R, e.id > c PROVE LogEntry(e, F) \notin G
      <3>1. LogEntry(e, F).id = e.id /\ ~(e.id <= c)
        BY <1>3, <2>2, LogEntryIs
      <3>2. \A g \in G : g.id <= c
        BY <1>6, LogEntryIs
      <3>. QED  BY <3>1, <3>2
    <2>3. ASSUME NEW e \in R, LogEntry(e, F) \notin G PROVE e.id > c
      <3>1. ~(e.id <= c)
        BY <1>6, <2>3
      <3>. QED  BY <1>3, <3>1
    <2>. QED  BY <1>5, <2>1, <2>2, <2>3
  <1>8. VEntries(v) \cap G = {}
    <2>1. \A g \in G : g.virtual = F
      BY <1>6, LogEntryIs
    <2>. QED  BY <1>4, <2>1
  <1>9. Entries(Prune(q, c), v) = P \ G
    BY <1>7, <1>8 DEF Entries
  <1>10. gone = {e.id : e \in {x \in R : x.id <= c}}
    <2>1. \A e \in R : LogEntry(e, F).id = e.id
      BY LogEntryIs
    <2>. QED  BY <1>6, <2>1
  <1>. HIDE DEF gone
  <1>11. NewestPruned(q, c, old) = IF k = 0 THEN old ELSE q[k].id
    BY DEF NewestPruned, k
  <1>12. Log!NewestPruned(P, d, old) =
            IF gone = {} THEN old ELSE CHOOSE i \in gone : \A j \in gone : j <= i
    BY DEF Log!NewestPruned, gone, G
  <1>13. CASE k = 0
    <2>1. gone = {}
      <3>1. \A i \in 1 .. Len(q) : ~(q[i].id <= c)
        BY <1>2, <1>13
      <3>. QED  BY <1>3, <1>10, <3>1
    <2>. QED  BY <1>9, <1>11, <1>12, <1>13, <2>1 DEF G
  <1>14. CASE k # 0
    <2>. DEFINE m == q[k].id  IsMax(i) == i \in gone /\ \A j \in gone : j <= i
    <2>0. k \in 1 .. Len(q)
      BY <1>2, <1>3, <1>14
    <2>1. m \in gone /\ m \in Int
      BY <1>2, <1>3, <1>10, <2>0
    <2>2. ASSUME NEW j \in gone PROVE j <= m /\ j \in Int
      <3>1. PICK e \in R : e.id <= c /\ j = e.id
        BY <1>10
      <3>2. PICK i \in 1 .. Len(q) : e = q[i]
        BY <1>3
      <3>3. i <= k /\ q[i].id \in Int /\ i \in Int /\ k \in Int
        BY <1>2, <1>3, <2>0, <3>1, <3>2
      <3>4. i = k \/ q[i].id < q[k].id
        BY <1>1, <2>0, <3>3 DEF Increasing
      <3>. QED  BY <2>1, <3>1, <3>2, <3>3, <3>4
    <2>. HIDE DEF m
    <2>3. \A i \in gone : (\A j \in gone : j <= i) <=> i = m
      BY <2>1, <2>2
    <2>4. (CHOOSE i \in gone : \A j \in gone : j <= i) = m
      BY <2>1, <2>3
    <2>5. gone # {}
      BY <2>1
    <2>. QED  BY <1>9, <1>11, <1>12, <1>14, <2>4, <2>5 DEF m, G
  <1>. QED  BY <1>13, <1>14

Pending == Entries(queue, virtual_events)

(* Every step of the queue is a step of the log, or none.                  *)
LEMMA StepImplements ==
    ASSUME QueueInv, [Next]_vars
    PROVE  \/ \E type \in Log!Types : /\ Pending' = Log!Pushed(Pending, next_event_id, type)
                                      /\ next_event_id' = next_event_id + 1
                                      /\ UNCHANGED newest_pruned_id
           \/ Pending' = Log!Final(Pending) /\ UNCHANGED <<next_event_id, newest_pruned_id>>
           \/ \E id \in -1 .. next_event_id :
                /\ newest_pruned_id' = Log!NewestPruned(Pending, id, newest_pruned_id)
                /\ UNCHANGED next_event_id
                /\ \/ Pending' = Pending \ Log!Prunable(Pending, id)
                   \/ Pending' = Log!Final(Pending \ Log!Prunable(Pending, id))
           \/ UNCHANGED <<Pending, next_event_id, newest_pruned_id>>
  <1>. DEFINE Pushing == \E type \in Log!Types :
                            /\ Pending' = Log!Pushed(Pending, next_event_id, type)
                            /\ next_event_id' = next_event_id + 1
                            /\ UNCHANGED newest_pruned_id
              Reading == /\ Pending' = Log!Final(Pending)
                         /\ UNCHANGED <<next_event_id, newest_pruned_id>>
              Pruning == \E id \in -1 .. next_event_id :
                            /\ newest_pruned_id' =
                                    Log!NewestPruned(Pending, id, newest_pruned_id)
                            /\ UNCHANGED next_event_id
                            /\ \/ Pending' = Pending \ Log!Prunable(Pending, id)
                               \/ Pending' = Log!Final(Pending \ Log!Prunable(Pending, id))
              Waiting == UNCHANGED <<Pending, next_event_id, newest_pruned_id>>
              Goal == Pushing \/ Reading \/ Pruning \/ Waiting
  <1>. SUFFICES Goal
    OBVIOUS
  <1>0. /\ Typed(queue, virtual_events) /\ Ordered(queue, virtual_events, next_event_id)
        /\ next_event_id \in 0 .. MaxEvents /\ newest_pruned_id \in -1 .. MaxEvents - 1
        /\ newest_pruned_id < next_event_id
    BY DEF QueueInv
  <1>1. ASSUME NEW type \in VirtualTypes \cup OtherTypes, NEW messages \in Payloads(type),
               Push(type, messages)
        PROVE  Pushing
    <2>. DEFINE event == NewEvent(type, messages, next_event_id)
    <2>1. /\ next_event_id \in 0 .. MaxEvents - 1 /\ next_event_id' = next_event_id + 1
          /\ newest_pruned_id' = newest_pruned_id
      BY <1>0, <1>1, MaxEventsAssumption DEF Push
    <2>2. event \in Events /\ event.type = type /\ event.id = next_event_id
          /\ event.covers = {next_event_id}
      BY <2>1, NewEventType DEF NewEvent
    <2>3. CASE type \in VirtualTypes
      <3>1. queue' = queue /\ virtual_events' = FileVirtual(virtual_events, event)
        BY <1>1, <2>3 DEF Push, NewEvent
      <3>. HIDE DEF event
      <3>2. Entries(queue, FileVirtual(virtual_events, event))
                = Log!Pushed(Entries(queue, virtual_events), next_event_id, event.type)
        <4>1. event \in Events /\ event.type \in VirtualTypes
          BY <2>2, <2>3
        <4>2. event.id = next_event_id /\ event.covers = {next_event_id}
          BY <2>2
        <4>3. next_event_id \in 0 .. MaxEvents - 1
          BY <2>1
        <4>4. Typed(queue, virtual_events)
          BY <1>0
        <4>. QED  BY <4>1, <4>2, <4>3, <4>4, FileEntries
      <3>3. Pending' = Log!Pushed(Pending, next_event_id, type)
        BY <2>2, <3>1, <3>2 DEF Pending
      <3>4. type \in Log!Types
        BY <2>3 DEF Log!Types
      <3>. QED  BY <2>1, <3>3, <3>4
    <2>4. CASE type \notin VirtualTypes
      <3>1. queue' = Append(queue, event) /\ virtual_events' = virtual_events
        BY <1>1, <2>4 DEF Push, NewEvent
      <3>2. Entries(Append(queue, event), virtual_events)
                = Log!Pushed(Entries(queue, virtual_events), next_event_id, <<"final">>)
        BY <1>0, <2>1, AppendEntries
      <3>3. Pending' = Log!Pushed(Pending, next_event_id, <<"final">>)
        BY <3>1, <3>2 DEF Pending
      <3>4. <<"final">> \in Log!Types
        BY DEF Log!Types
      <3>. QED  BY <2>1, <3>3, <3>4
    <2>. QED  BY <2>3, <2>4
  <1>2. CASE Finish
    <2>1. Range(Contents(queue, virtual_events)) = Range(queue) \cup Values(virtual_events)
      BY <1>0, ContentsSorted
    <2>2. Entries(Contents(queue, virtual_events), NoVirtuals)
            = Log!Final(Entries(queue, virtual_events))
      BY <2>1, FinalEntries
    <2>. QED  BY <1>2, <2>2 DEF Finish, Pending
  <1>3. ASSUME NEW c \in LastEventIds
        PROVE  \E id \in -1 .. next_event_id :
                 /\ Entries(Prune(queue, c), virtual_events)
                        = Pending \ Log!Prunable(Pending, id)
                 /\ NewestPruned(queue, c, newest_pruned_id)
                        = Log!NewestPruned(Pending, id, newest_pruned_id)
    <2>0. c \in Int /\ c >= -1 /\ next_event_id \in Int /\ next_event_id >= 0
      BY <1>0, MaxEventsAssumption DEF LastEventIds
    <2>. DEFINE id == IF c <= next_event_id THEN c ELSE next_event_id
    <2>1. id \in -1 .. next_event_id
      BY <2>0
    <2>2. \A e \in Range(queue) : e.id \in Int /\ e.id < next_event_id
      <3>1. \A e \in Range(queue) : e \in Events
        BY <1>0, RangeEquality DEF Typed
      <3>. QED  BY <1>0, <3>1, EventIds DEF Ordered
    <2>3. \A e \in Range(queue) : e.id <= c <=> e.id <= id
      BY <2>0, <2>2
    <2>. HIDE DEF id
    <2>4. id \in Int
      BY <2>0, <2>1
    <2>5. /\ Entries(Prune(queue, c), virtual_events)
                = Entries(queue, virtual_events)
                    \ Log!Prunable(Entries(queue, virtual_events), id)
          /\ NewestPruned(queue, c, newest_pruned_id)
                = Log!NewestPruned(Entries(queue, virtual_events), id, newest_pruned_id)
      BY <1>0, <2>0, <2>3, <2>4, PruneEntries
    <2>. QED  BY <2>1, <2>5 DEF Pending
  <1>4. ASSUME NEW c \in LastEventIds, FetchNotInQueue(c) PROVE Pruning
    <2>1. /\ queue' = Prune(queue, c) /\ virtual_events' = virtual_events
          /\ newest_pruned_id' = NewestPruned(queue, c, newest_pruned_id)
          /\ next_event_id' = next_event_id
      BY <1>4 DEF FetchNotInQueue
    <2>2. Pending' = Entries(Prune(queue, c), virtual_events)
      BY <2>1 DEF Pending
    <2>. QED  BY <1>3, <2>1, <2>2
  <1>5. ASSUME NEW c \in LastEventIds, FetchBlock(c) PROVE Pruning
    <2>1. /\ queue' = Prune(queue, c) /\ virtual_events' = virtual_events
          /\ newest_pruned_id' = NewestPruned(queue, c, newest_pruned_id)
          /\ next_event_id' = next_event_id
      BY <1>5 DEF FetchBlock
    <2>2. Pending' = Entries(Prune(queue, c), virtual_events)
      BY <2>1 DEF Pending
    <2>. QED  BY <1>3, <2>1, <2>2
  <1>6. ASSUME NEW c \in LastEventIds, NEW dont_block \in BOOLEAN, FetchRespond(c, dont_block)
        PROVE  Pruning
    <2>. DEFINE rest == Prune(queue, c)
    <2>1. /\ queue' = Contents(rest, virtual_events) /\ virtual_events' = NoVirtuals
          /\ newest_pruned_id' = NewestPruned(queue, c, newest_pruned_id)
          /\ next_event_id' = next_event_id
      BY <1>6 DEF FetchRespond
    <2>2. Typed(rest, virtual_events) /\ Ordered(rest, virtual_events, next_event_id)
      BY FetchPrunes
    <2>. HIDE DEF rest
    <2>3. Range(Contents(rest, virtual_events)) = Range(rest) \cup Values(virtual_events)
      BY <2>2, ContentsSorted
    <2>4. Entries(Contents(rest, virtual_events), NoVirtuals)
            = Log!Final(Entries(rest, virtual_events))
      BY <2>3, FinalEntries
    <2>5. Pending' = Log!Final(Entries(Prune(queue, c), virtual_events))
      BY <2>1, <2>4 DEF Pending, rest
    <2>. QED  BY <1>3, <2>1, <2>5
  <1>7. CASE UNCHANGED vars
    BY <1>7 DEF vars, Pending
  <1>8. CASE DumpLoad
    BY <1>8 DEF DumpLoad, FromDict, ToDict, Pending
  <1>9. ASSUME NEW c \in LastEventIds, FetchAlreadyPruned(c) PROVE Waiting
    BY <1>7, <1>9 DEF FetchAlreadyPruned, vars, Pending
  <1>. HIDE DEF Pushing, Reading, Pruning, Waiting
  <1>. QED  BY <1>1, <1>2, <1>4, <1>5, <1>6, <1>7, <1>8, <1>9 DEF Next, Reading, Waiting

(* The deque, the dict and the counters implement the log of pending       *)
(* entries: every operation is one of the log's, with the sets of entries, *)
(* of covered pushes and of pruned ids that the log gives it.              *)
THEOREM LogImplemented == Spec => ImplementsLog
  <1>0. Pending = {LogEntry(e, <<"final">>) : e \in Range(queue)}
                    \cup {LogEntry(e, e.type) : e \in Virtuals}
    BY DEF Pending, Entries, QEntries, VEntries, Values, Virtuals
  <1>1. Init => Log!LogInit
    <2>1. Init => Pending = {} /\ next_event_id = 0 /\ newest_pruned_id = -1
      BY DEF Init, Pending, Entries, QEntries, VEntries, Values, Range, NoVirtuals
    <2>. QED  BY <1>0, <2>1 DEF Log!LogInit
  <1>2. QueueInv /\ [Next]_vars => [Log!LogNext]_(Log!logVars)
    <2>. SUFFICES ASSUME QueueInv, [Next]_vars PROVE [Log!LogNext]_(Log!logVars)
      OBVIOUS
    <2>1. Pending' = ({LogEntry(e, <<"final">>) : e \in Range(queue)}
                        \cup {LogEntry(e, e.type) : e \in Virtuals})'
      BY DEF Pending, Entries, QEntries, VEntries, Values, Virtuals
    <2>. QED  BY <1>0, <2>1, StepImplements
              DEF Log!LogNext, Log!LogPush, Log!LogContents, Log!LogPrune,
                  Log!LogPruneContents, Log!logVars
  <1>. QED  BY <1>1, <1>2, QueueInvariant, PTL DEF Spec, ImplementsLog, Log!LogSpec

-----------------------------------------------------------------------------
(* The messages of one type, event after event.                            *)
LEMMA FlattenIs ==
    ASSUME NEW S, NEW ss \in Seq(Seq(S)), Len(ss) # 0
    PROVE  \E f : /\ f[1] = ss[1] /\ \A i \in 2 .. Len(ss) : f[i] = f[i - 1] \o ss[i]
                  /\ \A i \in 1 .. Len(ss) : f[i] \in Seq(S)
                  /\ FlattenSeq(ss) = f[Len(ss)]
  <1>. DEFINE n == Len(ss)  Q == Seq(S)
              step == [k \in 1 .. n |-> [x \in Q |-> x \o ss[k]]]
              IsFlatten(f) == f = [i \in 1 .. n |-> IF i = 1 THEN ss[i] ELSE f[i - 1] \o ss[i]]
  <1>1. n \in Nat /\ n >= 1 /\ \A i \in 1 .. n : ss[i] \in Q
    OBVIOUS
  <1>2. <<>> \in Q /\ \A x, y \in Q : x \o y \in Q
    BY ConcatProperties
  <1>3. \A x \in Q : <<>> \o x = x
    BY ConcatEmptySeq
  <1>. HIDE DEF Q
  <1>4. step \in Rounds(n, Q)
    BY <1>1, <1>2 DEF Rounds
  <1>5. \A k \in 1 .. n, x \in Q : step[k][x] = x \o ss[k]
    OBVIOUS
  <1>6. PICK r : IsRun(r, n, Q, <<>>, step)
    <2>. DEFINE base == <<>>
    <2>1. base \in Q
      BY <1>2
    <2>. HIDE DEF step, n, base
    <2>2. \E r : IsRun(r, n, Q, base, step)
      BY <1>1, <1>4, <2>1, LoopExists
    <2>. QED  BY <2>2 DEF base
  <1>. HIDE DEF step
  <1>7. /\ r[0] = <<>> /\ \A k \in 0 .. n : r[k] \in Q
        /\ \A k \in 1 .. n : r[k] = r[k - 1] \o ss[k]
    <2>1. /\ r \in [0 .. n -> Q] /\ r[0] = <<>>
          /\ \A k \in 1 .. n : r[k] = step[k][r[k - 1]]
      BY <1>6 DEF IsRun
    <2>2. ASSUME NEW k \in 1 .. n PROVE r[k] = r[k - 1] \o ss[k]
      <3>1. r[k - 1] \in Q
        <4>1. k - 1 \in 0 .. n
          BY <1>1
        <4>. QED  BY <2>1, <4>1
      <3>. QED  BY <1>5, <2>1, <3>1
    <2>. QED  BY <2>1, <2>2
  <1>. DEFINE g == [i \in 1 .. n |-> r[i]]
  <1>8. /\ g[1] = ss[1] /\ \A i \in 2 .. n : g[i] = g[i - 1] \o ss[i]
        /\ \A i \in 1 .. n : g[i] \in Q
    <2>1. g[1] = ss[1]
      <3>1. 1 \in 1 .. n /\ 1 - 1 = 0
        BY <1>1
      <3>2. r[1] = <<>> \o ss[1]
        <4>1. r[1] = r[1 - 1] \o ss[1]
          BY <1>7, <3>1
        <4>. QED  BY <1>7, <3>1, <4>1
      <3>. QED  BY <1>1, <1>3, <3>1, <3>2
    <2>2. ASSUME NEW i \in 2 .. n PROVE g[i] = g[i - 1] \o ss[i]
      <3>1. i \in 1 .. n /\ i - 1 \in 1 .. n
        BY <1>1
      <3>2. r[i] = r[i - 1] \o ss[i]
        BY <1>7, <3>1
      <3>3. g[i] = r[i] /\ g[i - 1] = r[i - 1]
        BY <3>1
      <3>. QED  BY <3>2, <3>3
    <2>3. ASSUME NEW i \in 1 .. n PROVE g[i] \in Q
      <3>1. i \in 0 .. n /\ g[i] = r[i]
        BY <1>1
      <3>. QED  BY <1>7, <3>1
    <2>. QED  BY <2>1, <2>2, <2>3
  <1>9. g = [i \in 1 .. n |-> g[i]]
    OBVIOUS
  <1>. HIDE DEF g
  <1>10. IsFlatten(g)
    <2>. DEFINE h == [i \in 1 .. n |-> IF i = 1 THEN ss[i] ELSE g[i - 1] \o ss[i]]
    <2>1. ASSUME NEW i \in 1 .. n PROVE g[i] = h[i]
      <3>1. i = 1 \/ i \in 2 .. n
        BY <1>1
      <3>. QED  BY <1>8, <3>1
    <2>2. h = [i \in 1 .. n |-> h[i]]
      OBVIOUS
    <2>3. g = h
      <3>. HIDE DEF h
      <3>. QED  BY <1>9, <2>1, <2>2
    <2>. QED  BY <2>3
  <1>11. FlattenSeq(ss) = (CHOOSE f : IsFlatten(f))[n]
    BY <1>1 DEF FlattenSeq
  <1>12. IsFlatten(CHOOSE f : IsFlatten(f))
    <2>. HIDE DEF IsFlatten
    <2>. QED  BY <1>10
  <1>. DEFINE f == CHOOSE f : IsFlatten(f)
  <1>13. IsFlatten(f) /\ FlattenSeq(ss) = f[n]
    BY <1>11, <1>12
  <1>. HIDE DEF f
  <1>14. f[1] = ss[1] /\ \A i \in 2 .. n : f[i] = f[i - 1] \o ss[i]
    <2>1. 1 \in 1 .. n /\ \A i \in 2 .. n : i \in 1 .. n /\ i # 1
      BY <1>1
    <2>. QED  BY <1>13, <2>1
  <1>15. \A i \in 1 .. n : f[i] \in Q
    <2>. DEFINE T == {i \in 0 .. n : i = 0 \/ f[i] \in Q}
    <2>1. 0 \in T
      BY <1>1
    <2>2. ASSUME NEW k \in 1 .. n, k - 1 \in T PROVE k \in T
      <3>1. k \in 0 .. n
        BY <1>1
      <3>2. CASE k = 1
        BY <1>1, <1>14, <3>1, <3>2
      <3>3. CASE k # 1
        <4>1. k \in 2 .. n /\ k - 1 # 0
          BY <1>1, <3>3
        <4>2. f[k - 1] \in Q /\ ss[k] \in Q /\ f[k] = f[k - 1] \o ss[k]
          BY <1>1, <1>14, <2>2, <4>1
        <4>. QED  BY <1>2, <3>1, <4>2
      <3>. QED  BY <3>2, <3>3
    <2>3. \A k \in 0 .. n : k \in T
      <3>. HIDE DEF T, n
      <3>. QED  BY <1>1, <2>1, <2>2, SetInduction
    <2>4. \A k \in 1 .. n : k \in 0 .. n /\ k # 0
      BY <1>1
    <2>. QED  BY <2>3, <2>4
  <1>. QED  BY <1>13, <1>14, <1>15 DEF Q

LEMMA FlattenAppend ==
    ASSUME NEW S, NEW ss \in Seq(Seq(S)), NEW x \in Seq(S)
    PROVE  /\ FlattenSeq(ss) \in Seq(S)
           /\ FlattenSeq(Append(ss, x)) = FlattenSeq(ss) \o x
           /\ Len(ss) = 0 => FlattenSeq(ss) = <<>>
  <1>. DEFINE n == Len(ss)  Q == Seq(S)  tt == Append(ss, x)
  <1>1. n \in Nat /\ \A i \in 1 .. n : ss[i] \in Q
    OBVIOUS
  <1>2. /\ tt \in Seq(Q) /\ Len(tt) = n + 1 /\ tt[n + 1] = x
        /\ \A i \in 1 .. n : tt[i] = ss[i]
    BY AppendProperties
  <1>. HIDE DEF tt
  <1>3. PICK g : /\ g[1] = tt[1] /\ \A i \in 2 .. Len(tt) : g[i] = g[i - 1] \o tt[i]
                 /\ FlattenSeq(tt) = g[Len(tt)]
    <2>1. Len(tt) # 0
      BY <1>1, <1>2
    <2>. QED  BY <1>2, <2>1, FlattenIs DEF Q
  <1>4. CASE n = 0
    <2>1. ss = <<>> /\ FlattenSeq(ss) = ss
      BY <1>4 DEF FlattenSeq
    <2>2. FlattenSeq(tt) = x
      BY <1>2, <1>3, <1>4
    <2>3. <<>> \o x = x
      BY ConcatEmptySeq
    <2>4. FlattenSeq(ss) = <<>> /\ <<>> \in Seq(S)
      BY <2>1
    <2>5. FlattenSeq(tt) = FlattenSeq(ss) \o x
      BY <2>2, <2>3, <2>4
    <2>. QED  BY <2>4, <2>5 DEF tt
  <1>5. CASE n # 0
    <2>1. PICK f : /\ f[1] = ss[1] /\ \A i \in 2 .. n : f[i] = f[i - 1] \o ss[i]
                   /\ \A i \in 1 .. n : f[i] \in Seq(S)
                   /\ FlattenSeq(ss) = f[n]
      BY <1>5, FlattenIs
    <2>. DEFINE T == {i \in 0 .. n : i = 0 \/ f[i] = g[i]}
    <2>2. 0 \in T
      BY <1>1
    <2>3. ASSUME NEW k \in 1 .. n, k - 1 \in T PROVE k \in T
      <3>1. k \in 0 .. n
        BY <1>1
      <3>2. CASE k = 1
        BY <1>2, <1>3, <2>1, <3>1, <3>2
      <3>3. CASE k # 1
        <4>1. k \in 2 .. n /\ k - 1 # 0 /\ k \in 2 .. n + 1
          BY <1>1, <3>3
        <4>2. f[k - 1] = g[k - 1] /\ tt[k] = ss[k]
          BY <1>2, <2>3, <4>1
        <4>3. f[k] = f[k - 1] \o ss[k] /\ g[k] = g[k - 1] \o tt[k]
          BY <1>2, <1>3, <2>1, <4>1
        <4>. QED  BY <3>1, <4>2, <4>3
      <3>. QED  BY <3>2, <3>3
    <2>4. f[n] = g[n]
      <3>1. \A k \in 0 .. n : k \in T
        <4>. HIDE DEF T, n
        <4>. QED  BY <1>1, <2>2, <2>3, SetInduction
      <3>2. n \in 0 .. n
        BY <1>1
      <3>. QED  BY <1>5, <3>1, <3>2
    <2>5. g[n + 1] = g[n] \o x
      <3>1. n + 1 \in 2 .. n + 1 /\ (n + 1) - 1 = n
        BY <1>1, <1>5
      <3>. QED  BY <1>2, <1>3, <3>1
    <2>6. f[n] \in Seq(S)
      BY <1>1, <1>5, <2>1
    <2>. QED  BY <1>2, <1>3, <1>5, <2>1, <2>4, <2>5, <2>6 DEF tt
  <1>. QED  BY <1>4, <1>5

WithMessages(E) == \A e \in E : e.messages \in Seq(Messages)

MessagesIn(e, type) == IF e.type = type THEN e.messages ELSE <<>>

LEMMA MessagesAppend ==
    ASSUME NEW E, WithMessages(E), NEW s \in Seq(E), NEW e \in E, NEW type
    PROVE  /\ MessagesOf(s, type) \in Seq(Messages)
           /\ MessagesOf(Append(s, e), type) = MessagesOf(s, type) \o MessagesIn(e, type)
           /\ s = <<>> => MessagesOf(s, type) = <<>>
  <1>. DEFINE M == Seq(Messages)  n == Len(s)  tt == Append(s, e)
              parts == [i \in 1 .. n |-> MessagesIn(s[i], type)]
              x == MessagesIn(e, type)
  <1>1. <<>> \in M
    OBVIOUS
  <1>2. \A f \in E : MessagesIn(f, type) \in M
    BY <1>1 DEF WithMessages, MessagesIn
  <1>3. n \in Nat /\ DOMAIN s = 1 .. n /\ \A i \in 1 .. n : s[i] \in E
    OBVIOUS
  <1>4. parts \in Seq(M) /\ Len(parts) = n
    <2>. HIDE DEF M
    <2>. QED  BY <1>2, <1>3
  <1>5. x \in M
    BY <1>2
  <1>6. MessagesOf(s, type) = FlattenSeq(parts)
    BY <1>3 DEF MessagesOf, MessagesIn
  <1>7. /\ tt \in Seq(E) /\ Len(tt) = n + 1 /\ tt[n + 1] = e
        /\ \A i \in 1 .. n : tt[i] = s[i]
    BY AppendProperties
  <1>. HIDE DEF tt, n, x
  <1>. DEFINE all == [i \in 1 .. n + 1 |-> MessagesIn(tt[i], type)]
  <1>8. MessagesOf(tt, type) = FlattenSeq(all)
    <2>1. DOMAIN tt = 1 .. n + 1
      BY <1>7
    <2>. QED  BY <2>1 DEF MessagesOf, MessagesIn
  <1>9. all = Append(parts, x)
    <2>1. all \in Seq(M) /\ Len(all) = n + 1
      <3>1. \A i \in 1 .. n + 1 : MessagesIn(tt[i], type) \in M
        BY <1>2, <1>7
      <3>. HIDE DEF M
      <3>. QED  BY <1>3, <3>1
    <2>2. /\ Append(parts, x) \in Seq(M) /\ Len(Append(parts, x)) = n + 1
          /\ Append(parts, x)[n + 1] = x
          /\ \A i \in 1 .. n : Append(parts, x)[i] = parts[i]
      <3>. HIDE DEF M, parts
      <3>. QED  BY <1>4, <1>5, AppendProperties
    <2>3. ASSUME NEW i \in 1 .. n + 1 PROVE all[i] = Append(parts, x)[i]
      <3>1. CASE i = n + 1
        BY <1>3, <1>7, <2>2, <3>1 DEF x
      <3>2. CASE i \in 1 .. n
        <4>1. Append(parts, x)[i] = parts[i]
          BY <2>2, <3>2
        <4>2. parts[i] = MessagesIn(s[i], type) /\ all[i] = MessagesIn(tt[i], type)
          BY <3>2
        <4>. QED  BY <1>7, <3>2, <4>1, <4>2
      <3>. QED  BY <1>3, <3>1, <3>2
    <2>. DEFINE a == all  b == Append(parts, x)
    <2>4. a \in Seq(M) /\ b \in Seq(M) /\ Len(a) = Len(b) /\ \A i \in 1 .. Len(a) : a[i] = b[i]
      BY <2>1, <2>2, <2>3
    <2>. HIDE DEF a, b, M
    <2>5. a = b
      BY <2>4, SeqEqual
    <2>. QED  BY <2>5 DEF a, b
  <1>. HIDE DEF parts, all
  <1>10. /\ FlattenSeq(parts) \in Seq(Messages)
         /\ FlattenSeq(Append(parts, x)) = FlattenSeq(parts) \o x
         /\ Len(parts) = 0 => FlattenSeq(parts) = <<>>
    BY <1>4, <1>5, FlattenAppend
  <1>11. s = <<>> => Len(parts) = 0
    BY <1>4 DEF n
  <1>. QED  BY <1>6, <1>8, <1>9, <1>10, <1>11 DEF tt, x

LEMMA MessagesType ==
    ASSUME NEW E, WithMessages(E), NEW s \in Seq(E), NEW type
    PROVE  /\ MessagesOf(s, type) \in Seq(Messages)
           /\ MessagesOf(<<>>, type) = <<>>
  <1>1. MessagesOf(<<>>, type) = <<>>
    <2>. DEFINE parts == [i \in DOMAIN <<>> |-> IF <<>>[i].type = type
                                                THEN <<>>[i].messages ELSE <<>>]
    <2>1. parts = <<>>
      OBVIOUS
    <2>2. MessagesOf(<<>>, type) = FlattenSeq(parts)
      BY DEF MessagesOf
    <2>3. FlattenSeq(<<>>) = <<>>
      BY DEF FlattenSeq
    <2>. HIDE DEF parts
    <2>. QED  BY <2>1, <2>2, <2>3
  <1>2. CASE s = <<>>
    <2>1. MessagesOf(s, type) = MessagesOf(<<>>, type) /\ <<>> \in Seq(Messages)
      BY <1>2
    <2>. QED  BY <1>1, <2>1
  <1>3. CASE s # <<>>
    <2>1. \E e : e \in E
      BY <1>3
    <2>. QED  BY <1>1, <2>1, MessagesAppend
  <1>. QED  BY <1>2, <1>3

(* An initial part of a sequence grows by one.                             *)
LEMMA PartGrows ==
    ASSUME NEW E, NEW s \in Seq(E), NEW k \in 1 .. Len(s)
    PROVE  /\ s[k] \in E /\ SubSeq(s, 1, k - 1) \in Seq(E)
           /\ SubSeq(s, 1, k) = Append(SubSeq(s, 1, k - 1), s[k])
  <1>1. k \in Nat /\ Len(s) \in Nat /\ s[k] \in E
    OBVIOUS
  <1>2. 1 \in 1 .. Len(s) /\ k \in 1 .. Len(s) /\ 1 \in 1 .. Len(s) + 1
        /\ k - 1 \in 1 - 1 .. Len(s)
    BY <1>1
  <1>3. SubSeq(s, 1, k - 1) \in Seq(E)
    BY <1>2, PartOf
  <1>. DEFINE w == SubSeq(s, 1, k - 1)  e == s[k]
  <1>4. SubSeq(s, 1, k) = w \o <<e>>
    BY <1>1, <1>2, SubSeqRecursiveSecond
  <1>5. Append(w, e) = w \o <<e>>
    <2>. HIDE DEF w, e
    <2>. QED  BY <1>1, <1>3, AppendIsConcat DEF w, e
  <1>. QED  BY <1>1, <1>3, <1>4, <1>5

LEMMA ConcatAppend ==
    ASSUME NEW E, NEW s \in Seq(E), NEW v \in Seq(E), NEW e \in E
    PROVE  s \o v \in Seq(E) /\ s \o Append(v, e) = Append(s \o v, e)
  <1>. DEFINE z == <<e>>  y == s \o v
  <1>1. z \in Seq(E) /\ y \in Seq(E)
    BY ConcatProperties
  <1>2. Append(v, e) = v \o z
    BY AppendIsConcat
  <1>. HIDE DEF z
  <1>3. Append(y, e) = y \o z
    <2>. HIDE DEF y
    <2>. QED  BY <1>1, AppendIsConcat DEF z
  <1>4. (s \o v) \o z = s \o (v \o z)
    BY <1>1, ConcatAssociative
  <1>. QED  BY <1>1, <1>2, <1>3, <1>4

(* Sequences of messages under concatenation.                              *)
LEMMA ConcatOfMessages ==
    /\ \A a, b \in Seq(Messages) : a \o b \in Seq(Messages)
    /\ \A a, b, c \in Seq(Messages) : (a \o b) \o c = a \o (b \o c)
    /\ \A a \in Seq(Messages) : a \o <<>> = a
    /\ <<>> \in Seq(Messages)
  <1>1. \A a, b \in Seq(Messages) : a \o b \in Seq(Messages)
    BY ConcatProperties
  <1>2. \A a, b, c \in Seq(Messages) : (a \o b) \o c = a \o (b \o c)
    BY ConcatAssociative
  <1>3. \A a \in Seq(Messages) : a \o <<>> = a
    BY ConcatEmptySeq
  <1>. QED  BY SMTT(30), <1>1, <1>2, <1>3

LEMMA MessagesConcat ==
    ASSUME NEW E, WithMessages(E), NEW s \in Seq(E), NEW u \in Seq(E), NEW type
    PROVE  MessagesOf(s \o u, type) = MessagesOf(s, type) \o MessagesOf(u, type)
  <1>. DEFINE n == Len(u)  w(k) == SubSeq(u, 1, k)
              T == {k \in 0 .. n :
                      MessagesOf(s \o w(k), type) = MessagesOf(s, type) \o MessagesOf(w(k), type)}
  <1>1. n \in Nat
    OBVIOUS
  <1>2. 0 \in T
    <2>1. w(0) = <<>> /\ s \o <<>> = s
      BY SubSeqEmpty, ConcatEmptySeq
    <2>2. MessagesOf(s, type) \in Seq(Messages) /\ MessagesOf(<<>>, type) = <<>>
      BY MessagesType
    <2>3. MessagesOf(s, type) \o <<>> = MessagesOf(s, type)
      BY <2>2, ConcatEmptySeq
    <2>. HIDE DEF w
    <2>4. MessagesOf(s \o w(0), type) = MessagesOf(s, type)
      BY <2>1
    <2>5. MessagesOf(w(0), type) = <<>>
      BY <2>1, <2>2
    <2>6. MessagesOf(s \o w(0), type) = MessagesOf(s, type) \o MessagesOf(w(0), type)
      BY <2>3, <2>4, <2>5
    <2>. QED  BY <1>1, <2>6
  <1>3. ASSUME NEW k \in 1 .. n, k - 1 \in T PROVE k \in T
    <2>. DEFINE v == w(k - 1)  e == u[k]
    <2>1. e \in E /\ v \in Seq(E) /\ w(k) = Append(v, e) /\ k \in 0 .. n
      BY <1>1, PartGrows
    <2>2. MessagesOf(s \o v, type) = MessagesOf(s, type) \o MessagesOf(v, type)
      BY <1>3
    <2>. HIDE DEF v, e, w
    <2>3. s \o v \in Seq(E) /\ s \o Append(v, e) = Append(s \o v, e)
      BY <2>1, ConcatAppend
    <2>. DEFINE a == MessagesOf(s, type)  b == MessagesOf(v, type)  c == MessagesIn(e, type)
                y == s \o v
    <2>4. MessagesOf(Append(y, e), type) = MessagesOf(y, type) \o c
      <3>. HIDE DEF y, c
      <3>. QED  BY <2>1, <2>3, MessagesAppend DEF y, c
    <2>5. MessagesOf(Append(v, e), type) = b \o c /\ b \in Seq(Messages)
      BY <2>1, MessagesAppend
    <2>6. a \in Seq(Messages) /\ c \in Seq(Messages)
      BY <2>1, MessagesType DEF WithMessages, MessagesIn
    <2>. HIDE DEF a, b, c
    <2>7. (a \o b) \o c = a \o (b \o c)
      BY SMTT(30), <2>5, <2>6, ConcatAssociative
    <2>8. MessagesOf(s \o w(k), type) = a \o MessagesOf(w(k), type)
      BY <2>1, <2>2, <2>3, <2>4, <2>5, <2>7 DEF a, b
    <2>. QED  BY <2>1, <2>8 DEF a
  <1>4. n \in T
    <2>1. \A k \in 0 .. n : k \in T
      <3>. HIDE DEF T, n
      <3>. QED  BY <1>1, <1>2, <1>3, SetInduction
    <2>. QED  BY <1>1, <2>1
  <1>5. w(n) = u
    BY SubSeqFull
  <1>. HIDE DEF w
  <1>. QED  BY <1>4, <1>5

LEMMA MessagesNone ==
    ASSUME NEW E, WithMessages(E), NEW s \in Seq(E), NEW type,
           \A i \in 1 .. Len(s) : s[i].type # type
    PROVE  MessagesOf(s, type) = <<>>
  <1>. DEFINE n == Len(s)  w(k) == SubSeq(s, 1, k)
              T == {k \in 0 .. n : MessagesOf(w(k), type) = <<>>}
  <1>1. n \in Nat
    OBVIOUS
  <1>2. 0 \in T
    <2>1. w(0) = <<>>
      BY SubSeqEmpty
    <2>2. MessagesOf(<<>>, type) = <<>>
      BY MessagesType
    <2>. HIDE DEF w
    <2>. QED  BY <1>1, <2>1, <2>2
  <1>3. ASSUME NEW k \in 1 .. n, k - 1 \in T PROVE k \in T
    <2>. DEFINE v == w(k - 1)  e == s[k]
    <2>1. e \in E /\ v \in Seq(E) /\ w(k) = Append(v, e) /\ k \in 0 .. n
      BY <1>1, PartGrows
    <2>2. MessagesOf(v, type) = <<>> /\ MessagesIn(e, type) = <<>>
      BY <1>3 DEF MessagesIn
    <2>. HIDE DEF v, e, w
    <2>3. MessagesOf(Append(v, e), type) = <<>> \o <<>>
      BY <2>1, <2>2, MessagesAppend
    <2>4. <<>> \o <<>> = <<>>
      OBVIOUS
    <2>. QED  BY <2>1, <2>3, <2>4
  <1>4. n \in T
    <2>1. \A k \in 0 .. n : k \in T
      <3>. HIDE DEF T, n
      <3>. QED  BY <1>1, <1>2, <1>3, SetInduction
    <2>. QED  BY <1>1, <2>1
  <1>5. w(n) = s
    BY SubSeqFull
  <1>. HIDE DEF w
  <1>. QED  BY <1>4, <1>5

(* One round adds the messages of the event and of what it emits first.    *)
SplitAt(q, w, k, acc, type) ==
    MessagesOf(acc.contents, type) = MessagesOf(SubSeq(q, 1, k), type)
                                       \o MessagesOf(SubSeq(w, 1, acc.index), type)

RealFirst(q, w, type) ==
    \A i \in 1 .. Len(q), j \in 1 .. Len(w) :
        q[i].type = type /\ w[j].type = type => q[i].id < w[j].id

LEMMA EmitMessages ==
    ASSUME NEW E, \A e \in E : e.id \in Int, WithMessages(E),
           NEW q \in Seq(E), NEW w \in Seq(E), NEW type,
           RealFirst(q, w, type),
           NEW k \in 1 .. Len(q), NEW acc \in Accs(E, w), MergedTo(q, w, k - 1, acc),
           SplitAt(q, w, k - 1, acc, type)
    PROVE  SplitAt(q, w, k, Emit(acc, q[k], w), type)
  <1>. DEFINE event == q[k]  a == acc.index  next == Emit(acc, event, w)  b == next.index
              part == SubSeq(w, a + 1, b)  c == acc.contents
              M(s) == MessagesOf(s, type)
              Q == M(SubSeq(q, 1, k - 1))  A == M(SubSeq(w, 1, a))  P == M(part)
              B == M(SubSeq(w, 1, b))  X == MessagesIn(event, type)
  <1>1. /\ Len(w) \in Nat /\ Len(q) \in Nat /\ k \in Nat /\ event \in E
        /\ \A i \in 1 .. Len(w) : w[i] \in E /\ w[i].id \in Int
    OBVIOUS
  <1>2. c \in Seq(E) /\ a \in 0 .. Len(w)
    BY DEF Accs
  <1>. HIDE DEF event
  <1>3. /\ b \in a .. Len(w) /\ next.contents = c \o part \o <<event>>
        /\ \A j \in a + 1 .. b : w[j].id < event.id
    <2>1. LET after == Emit(acc, event, w)
          IN  /\ after \in Accs(E, w) /\ after.index \in acc.index .. Len(w)
              /\ after.contents =
                    acc.contents \o SubSeq(w, acc.index + 1, after.index) \o <<event>>
              /\ \A j \in acc.index + 1 .. after.index : w[j].id < event.id
              /\ after.index < Len(w) => ~(w[after.index + 1].id < event.id)
      BY <1>1, EmitStep
    <2>. QED  BY <2>1
  <1>. HIDE DEF a, next, b
  <1>4. /\ part \in Seq(E) /\ SubSeq(w, 1, a) \in Seq(E) /\ SubSeq(w, 1, b) \in Seq(E)
        /\ SubSeq(w, 1, a) \o part = SubSeq(w, 1, b)
        /\ Len(SubSeq(w, 1, b)) = b /\ \A j \in 1 .. b : SubSeq(w, 1, b)[j] = w[j]
    <2>1. /\ 1 \in 1 .. Len(w) + 1 /\ a \in 1 - 1 .. Len(w) /\ b \in 1 - 1 .. Len(w)
          /\ b \in a .. Len(w) /\ a + 1 \in 1 .. Len(w) + 1 /\ b \in (a + 1) - 1 .. Len(w)
      BY <1>1, <1>2, <1>3
    <2>2. SubSeq(w, 1, a) \o part = SubSeq(w, 1, b)
      BY <2>1, ConcatAdjacentSubSeq
    <2>3. part \in Seq(E) /\ SubSeq(w, 1, a) \in Seq(E)
      BY <2>1, PartOf
    <2>4. /\ SubSeq(w, 1, b) \in Seq(E) /\ Len(SubSeq(w, 1, b)) = b - 1 + 1
          /\ \A j \in 1 .. b - 1 + 1 : SubSeq(w, 1, b)[j] = w[1 + j - 1]
      BY <2>1, PartOf
    <2>5. b - 1 + 1 = b /\ \A j \in 1 .. b : 1 + j - 1 = j
      BY <1>1, <2>1
    <2>. QED  BY <2>2, <2>3, <2>4, <2>5
  <1>. HIDE DEF part, c
  <1>5. B = A \o P
    <2>. DEFINE s == SubSeq(w, 1, a)
    <2>1. s \in Seq(E) /\ SubSeq(w, 1, b) = s \o part
      BY <1>4
    <2>. HIDE DEF s
    <2>2. MessagesOf(s \o part, type) = MessagesOf(s, type) \o MessagesOf(part, type)
      <3>1. part \in Seq(E) /\ s \in Seq(E) /\ WithMessages(E)
        BY <1>4, <2>1
      <3>. QED  BY ONLY SMTT(30), <3>1, MessagesConcat
    <2>. QED  BY <2>1, <2>2 DEF s
  <1>6. SubSeq(q, 1, k - 1) \in Seq(E) /\ M(SubSeq(q, 1, k)) = Q \o X
    <2>. DEFINE r == SubSeq(q, 1, k - 1)
    <2>1. r \in Seq(E) /\ SubSeq(q, 1, k) = Append(r, event)
      BY PartGrows DEF event
    <2>. HIDE DEF r
    <2>2. M(Append(r, event)) = M(r) \o X
      BY <1>1, <2>1, MessagesAppend
    <2>. QED  BY <2>1, <2>2 DEF r
  <1>7. M(next.contents) = (M(c) \o P) \o X
    <2>. DEFINE y == c \o part
    <2>1. y \in Seq(E)
      BY <1>2, <1>4, ConcatProperties
    <2>2. MessagesOf(y, type) = MessagesOf(c, type) \o MessagesOf(part, type)
      <3>1. c \in Seq(E) /\ part \in Seq(E) /\ WithMessages(E)
        BY <1>2, <1>4
      <3>. QED  BY ONLY SMTT(30), <3>1, MessagesConcat
    <2>3. next.contents = y \o <<event>>
      BY <1>3
    <2>. HIDE DEF y
    <2>4. Append(y, event) = y \o <<event>>
      BY <1>1, <2>1, AppendIsConcat
    <2>5. MessagesOf(Append(y, event), type) = MessagesOf(y, type) \o MessagesIn(event, type)
      BY <1>1, <2>1, MessagesAppend
    <2>. QED  BY <2>2, <2>3, <2>4, <2>5
  <1>8. M(c) = Q \o A
    BY DEF SplitAt, c, a
  <1>9. Q \in Seq(Messages) /\ A \in Seq(Messages) /\ P \in Seq(Messages) /\ X \in Seq(Messages)
    <2>1. ASSUME NEW s \in Seq(E) PROVE MessagesOf(s, type) \in Seq(Messages)
      BY MessagesType
    <2>2. X \in Seq(Messages)
      <3>1. event.messages \in Seq(Messages) /\ <<>> \in Seq(Messages)
        BY <1>1 DEF WithMessages
      <3>. QED  BY <3>1 DEF MessagesIn
    <2>. HIDE DEF X
    <2>. QED  BY <1>4, <1>6, <2>1, <2>2
  <1>10. A \o P = <<>> \/ X = <<>>
    <2>1. CASE event.type # type
      BY <2>1 DEF MessagesIn
    <2>2. CASE event.type = type
      <3>1. ASSUME NEW j \in 1 .. b PROVE w[j].type # type
        <4>1. j \in 1 .. Len(w) /\ (j \in 1 .. a \/ j \in a + 1 .. b)
          BY <1>1, <1>2, <1>3
        <4>2. w[j].id < event.id
          <5>1. CASE j \in 1 .. a
            <6>1. w[j] \in Items(q, 1, k - 1) \cup Items(w, 1, a)
              BY <5>1 DEF Items
            <6>2. w[j] \in Range(acc.contents)
              BY <6>1 DEF MergedTo, a
            <6>3. event \in Items(q, k - 1 + 1, Len(q))
              BY <1>1 DEF Items, event
            <6>. QED  BY <6>2, <6>3 DEF MergedTo, Below
          <5>2. CASE j \in a + 1 .. b
            BY <1>3, <5>2
          <5>. QED  BY <4>1, <5>1, <5>2
        <4>3. w[j].type = type => event.id < w[j].id
          BY <2>2, <4>1 DEF RealFirst, event
        <4>4. w[j].id \in Int /\ event.id \in Int
          BY <1>1, <4>1
        <4>. QED  BY <4>2, <4>3, <4>4
      <3>. DEFINE s == SubSeq(w, 1, b)
      <3>2. s \in Seq(E) /\ \A j \in 1 .. Len(s) : s[j].type # type
        BY <1>4, <3>1
      <3>. HIDE DEF s
      <3>3. M(s) = <<>>
        BY <3>2, MessagesNone
      <3>. QED  BY <1>5, <3>3 DEF s
    <2>. QED  BY <2>1, <2>2
  <1>. HIDE DEF Q, A, P, X
  <1>11. ((Q \o A) \o P) \o X = (Q \o X) \o (A \o P)
    <2>. DEFINE b0 == A \o P
    <2>1. b0 \in Seq(Messages)
      BY <1>9, ConcatProperties
    <2>2. (Q \o A) \o P = Q \o b0
      <3>1. \A x, y, z \in Seq(Messages) : (x \o y) \o z = x \o (y \o z)
        BY ConcatOfMessages
      <3>. QED  BY ONLY ZenonT(40), <1>9, <3>1
    <2>3. b0 = <<>> \/ X = <<>>
      BY <1>10
    <2>. HIDE DEF b0
    <2>4. (Q \o b0) \o X = (Q \o X) \o b0
      <3>1. \A s \in Seq(Messages) : s \o <<>> = s
        BY ConcatEmptySeq
      <3>2. Q \o b0 \in Seq(Messages) /\ Q \o X \in Seq(Messages)
        BY <1>9, <2>1, ConcatProperties
      <3>3. CASE b0 = <<>>
        <4>1. Q \o b0 = Q /\ (Q \o X) \o b0 = Q \o X
          BY <1>9, <3>1, <3>2, <3>3
        <4>. QED  BY <4>1
      <3>4. CASE X = <<>>
        <4>1. Q \o X = Q /\ (Q \o b0) \o X = Q \o b0
          BY <1>9, <3>1, <3>2, <3>4
        <4>. QED  BY <4>1
      <3>. QED  BY <2>3, <3>3, <3>4
    <2>. QED  BY <2>2, <2>4 DEF b0
  <1>12. M(next.contents) = M(SubSeq(q, 1, k)) \o B
    BY <1>5, <1>6, <1>7, <1>8, <1>11
  <1>. QED  BY <1>12 DEF SplitAt, next, b, event

LEMMA MergedMessages ==
    ASSUME NEW E, \A e \in E : e.id \in Int, WithMessages(E),
           NEW q \in Seq(E), NEW w \in Seq(E), Increasing(q), Increasing(w),
           \A e \in Range(q), f \in Range(w) : e.id # f.id, NEW type,
           RealFirst(q, w, type)
    PROVE  MessagesOf(Merged(q, w), type) = MessagesOf(q, type) \o MessagesOf(w, type)
  <1>. DEFINE L == Loop(q, w)  n == Len(q)
              T == {k \in 0 .. n : SplitAt(q, w, k, L[k], type)}
  <1>1. n \in Nat /\ Len(w) \in Nat
    OBVIOUS
  <1>2. /\ L[0] = [contents |-> <<>>, index |-> 0]
        /\ \A k \in 1 .. n : L[k] = Emit(L[k - 1], q[k], w)
        /\ \A k \in 0 .. n : L[k] \in Accs(E, w)
    BY LoopSteps
  <1>3. \A k \in 0 .. n : MergedTo(q, w, k, L[k])
    BY LoopMerges
  <1>. HIDE DEF L
  <1>4. 0 \in T
    <2>1. L[0].contents = <<>> /\ L[0].index = 0
      BY <1>2
    <2>2. SubSeq(q, 1, 0) = <<>> /\ SubSeq(w, 1, 0) = <<>>
      BY SubSeqEmpty
    <2>3. MessagesOf(<<>>, type) = <<>>
      BY MessagesType
    <2>4. <<>> \o <<>> = <<>>
      OBVIOUS
    <2>5. SplitAt(q, w, 0, L[0], type)
      BY <2>1, <2>2, <2>3, <2>4 DEF SplitAt
    <2>. QED  BY <1>1, <2>5
  <1>5. ASSUME NEW k \in 1 .. n, k - 1 \in T PROVE k \in T
    <2>. DEFINE acc == L[k - 1]
    <2>1. k - 1 \in 0 .. n /\ k \in 0 .. n
      BY <1>1
    <2>2. acc \in Accs(E, w) /\ MergedTo(q, w, k - 1, acc) /\ L[k] = Emit(acc, q[k], w)
      BY <1>2, <1>3, <2>1
    <2>3. SplitAt(q, w, k - 1, acc, type)
      BY <1>5
    <2>. HIDE DEF acc
    <2>4. SplitAt(q, w, k, Emit(acc, q[k], w), type)
      BY <2>2, <2>3, EmitMessages
    <2>. QED  BY <2>1, <2>2, <2>4
  <1>6. SplitAt(q, w, n, L[n], type)
    <2>1. \A k \in 0 .. n : k \in T
      <3>. HIDE DEF T, n
      <3>. QED  BY <1>1, <1>4, <1>5, SetInduction
    <2>. QED  BY <1>1, <2>1
  <1>. DEFINE a == L[n].index  c == L[n].contents  first == SubSeq(w, 1, a)
              rest == SubSeq(w, a + 1, Len(w))
  <1>7. c \in Seq(E) /\ a \in 0 .. Len(w)
    <2>1. L[n] \in Accs(E, w)
      BY <1>1, <1>2
    <2>. QED  BY <2>1 DEF Accs
  <1>8. SubSeq(q, 1, n) = q
    BY SubSeqFull
  <1>9. MessagesOf(c, type) = MessagesOf(q, type) \o MessagesOf(first, type)
    BY <1>6, <1>8 DEF SplitAt
  <1>10. Merged(q, w) = c \o rest
    BY DEF Merged, L
  <1>. HIDE DEF a, c
  <1>11. first \in Seq(E) /\ rest \in Seq(E) /\ first \o rest = w
    <2>1. /\ 1 \in 1 .. Len(w) + 1 /\ a \in 1 - 1 .. Len(w) /\ Len(w) \in a .. Len(w)
          /\ a + 1 \in 1 .. Len(w) + 1 /\ Len(w) \in (a + 1) - 1 .. Len(w)
      BY <1>1, <1>7
    <2>2. first \in Seq(E) /\ rest \in Seq(E)
      BY <2>1, PartOf
    <2>3. first \o rest = SubSeq(w, 1, Len(w)) /\ SubSeq(w, 1, Len(w)) = w
      BY <2>1, ConcatAdjacentSubSeq, SubSeqFull
    <2>. QED  BY <2>2, <2>3
  <1>. HIDE DEF first, rest
  <1>. DEFINE Q == MessagesOf(q, type)  F == MessagesOf(first, type)  R == MessagesOf(rest, type)
  <1>12. MessagesOf(first \o rest, type) = F \o R
    <2>1. first \in Seq(E) /\ rest \in Seq(E) /\ WithMessages(E)
      BY <1>11
    <2>. QED  BY ONLY SMTT(30), <2>1, MessagesConcat
  <1>13. MessagesOf(c \o rest, type) = MessagesOf(c, type) \o R
    <2>1. c \in Seq(E) /\ rest \in Seq(E) /\ WithMessages(E)
      BY <1>7, <1>11
    <2>. QED  BY ONLY SMTT(30), <2>1, MessagesConcat
  <1>14. Q \in Seq(Messages) /\ F \in Seq(Messages) /\ R \in Seq(Messages)
    BY <1>11, MessagesType
  <1>. HIDE DEF Q, F, R
  <1>15. (Q \o F) \o R = Q \o (F \o R)
    BY <1>14, ConcatAssociative
  <1>. QED  BY <1>9, <1>10, <1>11, <1>12, <1>13, <1>15 DEF Q, F

Waiting(v, type) == IF type \in DOMAIN v THEN v[type].messages ELSE <<>>

LEMMA EventMessages == WithMessages(Events)
  BY DEF WithMessages, Events

LEMMA VirtualMessages ==
    ASSUME NEW q, NEW v, NEW n, Typed(q, v), Ordered(q, v, n), NEW type
    PROVE  MessagesOf(SortedVirtuals(v), type) = Waiting(v, type)
  <1>. DEFINE w == SortedVirtuals(v)
  <1>1. w \in Seq(Events) /\ Increasing(w) /\ Range(w) = Values(v)
    BY VirtualsSorted
  <1>. HIDE DEF w
  <1>2. /\ Len(w) \in Nat /\ Values(v) = {w[j] : j \in 1 .. Len(w)}
        /\ \A j \in 1 .. Len(w) : w[j] \in Events /\ w[j].id \in Int
    BY <1>1, RangeEquality, EventIds
  <1>3. \A t \in DOMAIN v : v[t].type = t
    BY DEF Typed
  <1>4. \A j \in 1 .. Len(w) : \E t \in DOMAIN v : w[j] = v[t] /\ w[j].type = t
    <2>1. \A j \in 1 .. Len(w) : w[j] \in Values(v)
      BY <1>2
    <2>2. \A e \in Values(v) : \E t \in DOMAIN v : e = v[t] /\ e.type = t
      BY <1>3 DEF Values
    <2>. QED  BY <2>1, <2>2
  <1>5. CASE type \notin DOMAIN v
    <2>1. \A j \in 1 .. Len(w) : w[j].type # type
      BY <1>4, <1>5
    <2>2. MessagesOf(w, type) = <<>>
      BY <1>1, <2>1, EventMessages, MessagesNone
    <2>. QED  BY <1>5, <2>2 DEF Waiting, w
  <1>6. CASE type \in DOMAIN v
    <2>1. PICK j \in 1 .. Len(w) : w[j] = v[type]
      BY <1>2, <1>6 DEF Values
    <2>2. ASSUME NEW i \in 1 .. Len(w), i # j PROVE w[i].type # type
      <3>1. i < j \/ j < i
        BY <1>2, <2>2
      <3>2. w[i].id < w[j].id \/ w[j].id < w[i].id
        BY <1>1, <3>1 DEF Increasing
      <3>3. w[i].id # w[j].id
        BY <1>2, <3>2
      <3>. QED  BY <1>4, <2>1, <3>3
    <2>. DEFINE before == SubSeq(w, 1, j - 1)  after == SubSeq(w, j + 1, Len(w))
                upto == SubSeq(w, 1, j)  e == w[j]
    <2>3. upto = Append(before, e) /\ before \in Seq(Events) /\ e \in Events
      BY <1>1, PartGrows
    <2>4. /\ 1 \in 1 .. Len(w) + 1 /\ j - 1 \in 1 - 1 .. Len(w) /\ j \in 1 - 1 .. Len(w)
          /\ Len(w) \in j .. Len(w) /\ j + 1 \in 1 .. Len(w) + 1
          /\ Len(w) \in (j + 1) - 1 .. Len(w) /\ j \in Nat
      BY <1>2
    <2>5. upto \o after = w
      <3>1. upto \o after = SubSeq(w, 1, Len(w)) /\ SubSeq(w, 1, Len(w)) = w
        BY <1>1, <2>4, ConcatAdjacentSubSeq, SubSeqFull
      <3>. QED  BY <3>1
    <2>6. /\ Len(before) = j - 1 /\ \A i \in 1 .. j - 1 : before[i] = w[i]
      <3>1. /\ Len(before) = (j - 1) - 1 + 1
            /\ \A i \in 1 .. (j - 1) - 1 + 1 : before[i] = w[1 + i - 1]
        BY <1>1, <2>4, PartOf
      <3>2. (j - 1) - 1 + 1 = j - 1 /\ \A i \in 1 .. j - 1 : 1 + i - 1 = i
        BY <2>4
      <3>. HIDE DEF before
      <3>. QED  BY <3>1, <3>2
    <2>7. /\ after \in Seq(Events) /\ Len(after) = Len(w) - (j + 1) + 1
          /\ \A i \in 1 .. Len(w) - (j + 1) + 1 : after[i] = w[j + 1 + i - 1]
      BY <1>1, <2>4, PartOf
    <2>8. upto \in Seq(Events)
      BY <1>1, <2>4, PartOf
    <2>. HIDE DEF before, after, upto, e
    <2>9. MessagesOf(before, type) = <<>>
      <3>1. \A i \in 1 .. Len(before) : before[i].type # type
        <4>1. \A i \in 1 .. j - 1 : i \in 1 .. Len(w) /\ i # j
          BY <1>2, <2>4
        <4>. QED  BY <2>2, <2>6, <4>1
      <3>. QED  BY <2>3, <3>1, EventMessages, MessagesNone
    <2>10. MessagesOf(after, type) = <<>>
      <3>1. \A i \in 1 .. Len(after) : after[i].type # type
        <4>1. \A i \in 1 .. Len(w) - (j + 1) + 1 :
                    j + 1 + i - 1 \in 1 .. Len(w) /\ j + 1 + i - 1 # j
          BY <1>2, <2>4
        <4>. QED  BY <2>2, <2>7, <4>1
      <3>. QED  BY <2>7, <3>1, EventMessages, MessagesNone
    <2>11. MessagesIn(e, type) = v[type].messages
      BY <1>3, <1>6, <2>1 DEF MessagesIn, e
    <2>12. v[type].messages \in Seq(Messages)
      BY <1>6, EventMessages DEF WithMessages, Typed
    <2>. DEFINE m == v[type].messages
    <2>13. MessagesOf(upto, type) = <<>> \o m
      BY ZenonT(40), <2>3, <2>9, <2>11, EventMessages, MessagesAppend
    <2>14. MessagesOf(w, type) = (<<>> \o m) \o <<>>
      <3>1. upto \in Seq(Events) /\ after \in Seq(Events)
        BY <2>7, <2>8
      <3>2. MessagesOf(upto \o after, type) = MessagesOf(upto, type) \o MessagesOf(after, type)
        BY ONLY <3>1, EventMessages, MessagesConcat
      <3>. HIDE DEF m
      <3>. QED  BY <2>5, <2>10, <2>13, <3>2
    <2>15. (<<>> \o m) \o <<>> = m
      <3>. HIDE DEF m
      <3>. QED  BY <2>12, ConcatEmptySeq DEF m
    <2>. QED  BY <1>6, <2>14, <2>15 DEF Waiting, w
  <1>. QED  BY <1>5, <1>6

LEMMA ContentsMessages ==
    ASSUME NEW q, NEW v, NEW n, Typed(q, v), Ordered(q, v, n), NEW type
    PROVE  MessagesOf(Contents(q, v), type) = MessagesOf(q, type) \o Waiting(v, type)
  <1>. DEFINE w == SortedVirtuals(v)
  <1>1. w \in Seq(Events) /\ Increasing(w) /\ Range(w) = Values(v)
    BY VirtualsSorted
  <1>2. Contents(q, v) = Merged(q, w)
    BY DEF Contents, Merged
  <1>3. MessagesOf(w, type) = Waiting(v, type)
    BY VirtualMessages
  <1>. HIDE DEF w
  <1>4. q \in Seq(Events) /\ Increasing(q) /\ \A e \in Events : e.id \in Int
    BY EventIds DEF Typed, Ordered
  <1>5. \A e \in Range(q), f \in Range(w) :
            e.id # f.id /\ (e.type = f.type => e.id < f.id)
    BY <1>1 DEF Ordered, Typed, Values
  <1>6. ASSUME NEW i \in 1 .. Len(q), NEW j \in 1 .. Len(w),
               q[i].type = type, w[j].type = type
        PROVE  q[i].id < w[j].id
    <2>1. q[i] \in Range(q) /\ w[j] \in Range(w)
      BY <1>1, <1>4, RangeEquality
    <2>. QED  BY <1>5, <1>6, <2>1
  <1>7. RealFirst(q, w, type)
    BY <1>6 DEF RealFirst
  <1>8. MessagesOf(Merged(q, w), type) = MessagesOf(q, type) \o MessagesOf(w, type)
    BY <1>1, <1>4, <1>5, <1>7, EventMessages, MergedMessages
  <1>. QED  BY <1>2, <1>3, <1>8

(* The messages of a type acknowledged, in the deque, and in the dict.     *)
Known(p, q, v, type) ==
    MessagesOf(p, type) \o (MessagesOf(q, type) \o Waiting(v, type))

MessagesInv ==
    \A type \in FlagTypes :
        Known(pruned, queue, virtual_events, type) = MessagesOf(pushed, type)

LEMMA WaitingType ==
    ASSUME NEW q, NEW v, Typed(q, v), NEW type
    PROVE  Waiting(v, type) \in Seq(Messages)
  <1>1. \A t \in DOMAIN v : v[t].messages \in Seq(Messages)
    BY EventMessages DEF Typed, WithMessages
  <1>. QED  BY <1>1, ConcatOfMessages DEF Waiting

(* contents() moves what waits in the dict to the end of the deque's.      *)
LEMMA ContentsKnown ==
    ASSUME NEW q, NEW v, NEW n, Typed(q, v), Ordered(q, v, n), NEW p, NEW type
    PROVE  Known(p, Contents(q, v), NoVirtuals, type) = Known(p, q, v, type)
  <1>. DEFINE Q == MessagesOf(q, type)  W == Waiting(v, type)
  <1>1. Q \in Seq(Messages) /\ W \in Seq(Messages)
    BY EventMessages, MessagesType, WaitingType DEF Typed
  <1>2. MessagesOf(Contents(q, v), type) = Q \o W
    BY ContentsMessages
  <1>3. Waiting(NoVirtuals, type) = <<>>
    BY DEF Waiting, NoVirtuals
  <1>. HIDE DEF Q, W
  <1>4. (Q \o W) \o <<>> = Q \o W
    BY <1>1, ConcatOfMessages
  <1>. QED  BY <1>2, <1>3, <1>4 DEF Known, Q, W

(* prune() moves the first messages of the deque to the acknowledged ones. *)
LEMMA PruneKnown ==
    ASSUME NEW q, NEW v, NEW n, Typed(q, v), Ordered(q, v, n), NEW p \in Seq(Events),
           NEW c \in Int, NEW type
    PROVE  Known(p \o Popped(q, c), Prune(q, c), v, type) = Known(p, q, v, type)
  <1>. DEFINE x == Popped(q, c)  r == Prune(q, c)
  <1>1. x \in Seq(Events) /\ r \in Seq(Events) /\ x \o r = q
    BY PruneSplits, EventIds DEF Typed, Ordered
  <1>. HIDE DEF x, r
  <1>. DEFINE P == MessagesOf(p, type)  X == MessagesOf(x, type)  R == MessagesOf(r, type)
              W == Waiting(v, type)
  <1>2. P \in Seq(Messages) /\ X \in Seq(Messages) /\ R \in Seq(Messages) /\ W \in Seq(Messages)
    BY <1>1, EventMessages, MessagesType, WaitingType
  <1>3. MessagesOf(p \o x, type) = P \o X /\ MessagesOf(x \o r, type) = X \o R
    <2>1. MessagesOf(p \o x, type) = MessagesOf(p, type) \o MessagesOf(x, type)
      <3>1. p \in Seq(Events) /\ x \in Seq(Events)
        BY <1>1
      <3>. QED  BY ONLY <3>1, EventMessages, MessagesConcat
    <2>2. MessagesOf(x \o r, type) = MessagesOf(x, type) \o MessagesOf(r, type)
      <3>1. x \in Seq(Events) /\ r \in Seq(Events)
        BY <1>1
      <3>. QED  BY ONLY <3>1, EventMessages, MessagesConcat
    <2>. QED  BY <2>1, <2>2
  <1>. HIDE DEF P, X, R, W
  <1>4. (P \o X) \o (R \o W) = P \o ((X \o R) \o W)
    <2>1. R \o W \in Seq(Messages) /\ X \o R \in Seq(Messages)
      BY <1>2, ConcatOfMessages
    <2>2. (P \o X) \o (R \o W) = P \o (X \o (R \o W))
      <3>. DEFINE y == R \o W
      <3>1. y \in Seq(Messages)
        BY <2>1
      <3>. HIDE DEF y
      <3>2. (P \o X) \o y = P \o (X \o y)
        <4>1. P \in Seq(Messages) /\ X \in Seq(Messages) /\ y \in Seq(Messages)
          BY <1>2, <3>1
        <4>. QED  BY ONLY <4>1, ConcatOfMessages
      <3>. QED  BY <3>2 DEF y
    <2>3. (X \o R) \o W = X \o (R \o W)
      BY SMTT(30), <1>2, ConcatOfMessages
    <2>. QED  BY <2>2, <2>3
  <1>. QED  BY <1>1, <1>3, <1>4 DEF Known, P, X, R, W, x, r

(* push() adds the messages of the event at the end.                       *)
LEMMA PushKnown ==
    ASSUME NEW q, NEW v, Typed(q, v), NEW p \in Seq(Events), NEW event \in Events,
           NEW type \in FlagTypes
    PROVE  /\ event.type \in VirtualTypes =>
                Known(p, q, FileVirtual(v, event), type)
                    = Known(p, q, v, type) \o MessagesIn(event, type)
           /\ event.type \notin VirtualTypes =>
                Known(p, Append(q, event), v, type)
                    = Known(p, q, v, type) \o MessagesIn(event, type)
  <1>. DEFINE P == MessagesOf(p, type)  Q == MessagesOf(q, type)  W == Waiting(v, type)
              X == MessagesIn(event, type)  u == FileVirtual(v, event)
  <1>1. P \in Seq(Messages) /\ Q \in Seq(Messages) /\ W \in Seq(Messages) /\ X \in Seq(Messages)
    <2>1. P \in Seq(Messages) /\ Q \in Seq(Messages) /\ W \in Seq(Messages)
      BY EventMessages, MessagesType, WaitingType DEF Typed
    <2>2. X \in Seq(Messages)
      BY EventMessages, ConcatOfMessages DEF WithMessages, MessagesIn
    <2>. HIDE DEF P, Q, W, X
    <2>. QED  BY <2>1, <2>2
  <1>2. Waiting(u, type) = W \o X
    <2>1. /\ DOMAIN u = DOMAIN v \cup {event.type}
          /\ \A t \in DOMAIN v : t # event.type => u[t] = v[t]
          /\ u[event.type] = IF event.type \in DOMAIN v THEN MergeVirtual(v[event.type], event)
                             ELSE event
      BY FileVirtualIs
    <2>. HIDE DEF u
    <2>2. CASE event.type # type
      <3>1. X = <<>> /\ Waiting(u, type) = W
        BY <2>1, <2>2 DEF Waiting, MessagesIn
      <3>. HIDE DEF X, W
      <3>. QED  BY <1>1, <3>1, ConcatOfMessages
    <2>3. CASE event.type = type /\ type \in DOMAIN v
      <3>. DEFINE old == v[type]
      <3>1. old \in Events /\ u[type] = MergeVirtual(old, event)
        BY <2>1, <2>3 DEF Typed
      <3>2. W = old.messages /\ X = event.messages /\ Waiting(u, type) = u[type].messages
        BY <2>1, <2>3 DEF Waiting, MessagesIn
      <3>. HIDE DEF old, W, X
      <3>3. u[type].messages = old.messages \o event.messages
        BY <3>1, MergeVirtualIs
      <3>. QED  BY <3>2, <3>3
    <2>4. CASE event.type = type /\ type \notin DOMAIN v
      <3>1. W = <<>> /\ X = event.messages /\ Waiting(u, type) = event.messages
        BY <2>1, <2>4 DEF Waiting, MessagesIn
      <3>. HIDE DEF W, X
      <3>2. <<>> \o X = X
        BY <1>1, ConcatEmptySeq
      <3>. QED  BY <3>1, <3>2
    <2>. QED  BY <2>2, <2>3, <2>4
  <1>3. ASSUME event.type \notin VirtualTypes
        PROVE  X = <<>> /\ MessagesOf(Append(q, event), type) = Q
    <2>1. X = <<>>
      BY <1>3 DEF MessagesIn, VirtualTypes
    <2>2. MessagesOf(Append(q, event), type) = Q \o X
      BY EventMessages, MessagesAppend DEF Typed
    <2>. HIDE DEF Q, X
    <2>. QED  BY <1>1, <2>1, <2>2, ConcatOfMessages
  <1>. HIDE DEF P, Q, W, X, u
  <1>4. Q \o W \in Seq(Messages) /\ P \o (Q \o W) \in Seq(Messages)
    BY <1>1, ConcatOfMessages
  <1>5. P \o (Q \o (W \o X)) = (P \o (Q \o W)) \o X
    <2>. DEFINE y == Q \o W
    <2>1. Q \o (W \o X) = y \o X
      BY SMTT(30), <1>1, ConcatOfMessages
    <2>2. y \in Seq(Messages)
      BY <1>4
    <2>. HIDE DEF y
    <2>3. P \o (y \o X) = (P \o y) \o X
      BY SMTT(30), <1>1, <2>2, ConcatOfMessages
    <2>. QED  BY <2>1, <2>3 DEF y
  <1>6. (P \o (Q \o W)) \o <<>> = P \o (Q \o W)
    <2>. DEFINE y == P \o (Q \o W)
    <2>. HIDE DEF y
    <2>1. y \o <<>> = y
      BY <1>4, ConcatOfMessages DEF y
    <2>. QED  BY <2>1 DEF y
  <1>. QED  BY <1>2, <1>3, <1>5, <1>6 DEF Known, P, Q, W, X, u

LEMMA InitMessagesInv == Init => MessagesInv
  <1>. SUFFICES ASSUME Init, NEW type \in FlagTypes
                PROVE  Known(pruned, queue, virtual_events, type) = MessagesOf(pushed, type)
    BY DEF MessagesInv
  <1>1. pruned = <<>> /\ queue = <<>> /\ pushed = <<>> /\ virtual_events = NoVirtuals
    BY DEF Init
  <1>2. MessagesOf(<<>>, type) = <<>>
    <2>1. <<>> \in Seq(Events)
      OBVIOUS
    <2>. QED  BY ONLY <2>1, EventMessages, MessagesType
  <1>3. Waiting(NoVirtuals, type) = <<>>
    BY DEF Waiting, NoVirtuals
  <1>4. <<>> \o (<<>> \o <<>>) = <<>>
    OBVIOUS
  <1>. QED  BY <1>1, <1>2, <1>3, <1>4 DEF Known

LEMMA NextMessagesInv == QueueInv /\ MessagesInv /\ [Next]_vars => MessagesInv'
  <1>. SUFFICES ASSUME QueueInv, MessagesInv, [Next]_vars, NEW type \in FlagTypes
                PROVE  Known(pruned', queue', virtual_events', type) = MessagesOf(pushed', type)
    BY DEF MessagesInv
  <1>. DEFINE Same == /\ Known(pruned', queue', virtual_events', type)
                            = Known(pruned, queue, virtual_events, type)
                      /\ pushed' = pushed
  <1>0. /\ Typed(queue, virtual_events) /\ Ordered(queue, virtual_events, next_event_id)
        /\ pruned \in Seq(Events) /\ pushed \in Seq(Pushes) /\ queue \in Seq(Events)
        /\ Known(pruned, queue, virtual_events, type) = MessagesOf(pushed, type)
    BY DEF QueueInv, MessagesInv, Typed
  <1>1. ASSUME NEW t \in VirtualTypes \cup OtherTypes, NEW messages \in Payloads(t),
               Push(t, messages)
        PROVE  Known(pruned', queue', virtual_events', type) = MessagesOf(pushed', type)
    <2>. DEFINE event == NewEvent(t, messages, next_event_id)
                push == [type |-> t, messages |-> messages]
    <2>1. next_event_id \in 0 .. MaxEvents - 1
      BY <1>1, MaxEventsAssumption DEF Push, QueueInv
    <2>2. event \in Events /\ event.type = t /\ messages \in Seq(Messages)
      BY <2>1, NewEventType DEF NewEvent
    <2>3. /\ pruned' = pruned /\ pushed' = Append(pushed, push)
          /\ t \in VirtualTypes =>
                queue' = queue /\ virtual_events' = FileVirtual(virtual_events, event)
          /\ t \notin VirtualTypes =>
                queue' = Append(queue, event) /\ virtual_events' = virtual_events
      BY <1>1 DEF Push, NewEvent
    <2>4. MessagesIn(event, type) = MessagesIn(push, type)
      BY DEF MessagesIn, NewEvent
    <2>5. push \in Pushes
      BY <2>2 DEF Pushes
    <2>6. WithMessages(Pushes)
      BY DEF WithMessages, Pushes
    <2>. HIDE DEF event, push
    <2>7. MessagesOf(pushed', type) = MessagesOf(pushed, type) \o MessagesIn(push, type)
      BY <1>0, <2>3, <2>5, <2>6, MessagesAppend
    <2>8. CASE t \in VirtualTypes
      <3>1. Known(pruned, queue, FileVirtual(virtual_events, event), type)
              = Known(pruned, queue, virtual_events, type) \o MessagesIn(event, type)
        BY <1>0, <2>2, <2>8, PushKnown
      <3>. QED  BY <1>0, <2>3, <2>4, <2>7, <2>8, <3>1
    <2>9. CASE t \notin VirtualTypes
      <3>1. Known(pruned, Append(queue, event), virtual_events, type)
              = Known(pruned, queue, virtual_events, type) \o MessagesIn(event, type)
        BY <1>0, <2>2, <2>9, PushKnown
      <3>. QED  BY <1>0, <2>3, <2>4, <2>7, <2>9, <3>1
    <2>. QED  BY <2>8, <2>9
  <1>2. CASE Finish
    <2>1. Known(pruned, Contents(queue, virtual_events), NoVirtuals, type)
            = Known(pruned, queue, virtual_events, type)
      BY <1>0, ContentsKnown
    <2>. QED  BY <1>0, <1>2, <2>1 DEF Finish
  <1>3. ASSUME NEW c \in LastEventIds
        PROVE  Known(pruned \o Popped(queue, c), Prune(queue, c), virtual_events, type)
                 = Known(pruned, queue, virtual_events, type)
    <2>1. c \in Int
      BY MaxEventsAssumption DEF LastEventIds
    <2>. QED  BY <1>0, <2>1, PruneKnown
  <1>4. ASSUME NEW c \in LastEventIds, FetchNotInQueue(c) PROVE Same
    BY <1>3, <1>4 DEF FetchNotInQueue
  <1>5. ASSUME NEW c \in LastEventIds, FetchBlock(c) PROVE Same
    BY <1>3, <1>5 DEF FetchBlock
  <1>6. ASSUME NEW c \in LastEventIds, NEW dont_block \in BOOLEAN, FetchRespond(c, dont_block)
        PROVE  Same
    <2>. DEFINE rest == Prune(queue, c)  p == pruned \o Popped(queue, c)
    <2>1. Typed(rest, virtual_events) /\ Ordered(rest, virtual_events, next_event_id)
      BY FetchPrunes
    <2>2. /\ queue' = Contents(rest, virtual_events) /\ virtual_events' = NoVirtuals
          /\ pruned' = p /\ pushed' = pushed
      BY <1>6 DEF FetchRespond
    <2>3. Known(p, rest, virtual_events, type) = Known(pruned, queue, virtual_events, type)
      BY <1>3
    <2>. HIDE DEF rest, p
    <2>4. Known(p, Contents(rest, virtual_events), NoVirtuals, type)
            = Known(p, rest, virtual_events, type)
      BY <2>1, ContentsKnown
    <2>. QED  BY <2>2, <2>3, <2>4
  <1>7. CASE UNCHANGED vars
    BY <1>0, <1>7 DEF vars
  <1>8. CASE DumpLoad
    BY <1>0, <1>8 DEF DumpLoad, FromDict, ToDict
  <1>9. ASSUME NEW c \in LastEventIds, FetchAlreadyPruned(c) PROVE Same
    BY <1>9 DEF FetchAlreadyPruned, vars
  <1>10. ASSUME Same
         PROVE  Known(pruned', queue', virtual_events', type) = MessagesOf(pushed', type)
    BY <1>0, <1>10
  <1>. HIDE DEF Same
  <1>. QED  BY <1>1, <1>2, <1>4, <1>5, <1>6, <1>7, <1>8, <1>9, <1>10 DEF Next

(* Merging flag events neither loses, repeats nor reorders a message: what *)
(* was acknowledged and what contents() returns add up to what was pushed. *)
THEOREM MessagesAreKept == Spec => []MergeKeepsMessages
  <1>1. QueueInv /\ MessagesInv => MergeKeepsMessages
    <2>. SUFFICES ASSUME QueueInv, MessagesInv, NEW type \in FlagTypes
                  PROVE  MessagesOf(pruned \o ContentsNow, type) = MessagesOf(pushed, type)
      BY DEF MergeKeepsMessages
    <2>1. /\ Typed(queue, virtual_events) /\ Ordered(queue, virtual_events, next_event_id)
          /\ pruned \in Seq(Events)
          /\ Known(pruned, queue, virtual_events, type) = MessagesOf(pushed, type)
      BY DEF QueueInv, MessagesInv
    <2>. DEFINE c == Contents(queue, virtual_events)
    <2>2. /\ c \in Seq(Events)
          /\ MessagesOf(c, type) = MessagesOf(queue, type) \o Waiting(virtual_events, type)
      BY <2>1, ContentsSorted, ContentsMessages
    <2>. HIDE DEF c
    <2>3. MessagesOf(pruned \o c, type) = MessagesOf(pruned, type) \o MessagesOf(c, type)
      <3>1. pruned \in Seq(Events) /\ c \in Seq(Events)
        BY <2>1, <2>2
      <3>. QED  BY ONLY <3>1, EventMessages, MessagesConcat
    <2>. QED  BY <2>1, <2>2, <2>3 DEF Known, ContentsNow, c
  <1>2. QueueInv /\ QueueInv' /\ MessagesInv /\ [Next]_vars => MessagesInv'
    BY NextMessagesInv
  <1>. QED  BY <1>1, <1>2, InitMessagesInv, QueueInvariant, PTL DEF Spec
=============================================================================
