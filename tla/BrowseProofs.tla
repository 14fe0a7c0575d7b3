---------------------------- MODULE BrowseProofs ----------------------------
(***************************************************************************)
(* What the pages of the UI show while the cluster changes: the proofs of  *)
(* LabelsRespected, AssemblyAgrees and BadgeAgrees.                        *)
(***************************************************************************)
EXTENDS Browse, FiniteSetTheorems, SequenceTheorems, WellFoundedInduction, TLAPS

-----------------------------------------------------------------------------
\* Lists

\* The positions of a list that match have a first one.
LEMMA MinExists ==
  ASSUME NEW S \in SUBSET Nat, S # {}
  PROVE  Min(S) \in S /\ \A x \in S : Min(S) <= x
  <1>1. PICK e \in S : \A f \in S : ~(<<f, e>> \in OpToRel(<, Nat))
    BY NatLessThanWellFounded, WFMin, Zenon
  <1>2. \A f \in S : e <= f
    <2> TAKE f \in S
    <2>1. e \in Nat /\ f \in Nat
      OBVIOUS
    <2>2. ASSUME f < e PROVE FALSE
      <3> DEFINE pair == <<f, e>>
      <3>1. pair \in Nat \X Nat /\ pair[1] < pair[2]
        BY <2>1, <2>2
      <3>2. QED
        BY <1>1, <3>1 DEF OpToRel
    <2>3. QED
      BY <2>1, <2>2
  <1>3. QED
    BY <1>1, <1>2 DEF Min

\* Each position of a finite set has its number, counted from below.
LEMMA PositionsNumbered ==
  ASSUME NEW P \in SUBSET Nat, IsFiniteSet(P)
  PROVE  /\ \A i \in P : Cardinality({j \in P : j < i}) \in 0..(Cardinality(P) - 1)
         /\ \A i, k \in P : i # k => Cardinality({j \in P : j < i}) # Cardinality({j \in P : j < k})
         /\ \A m \in 0..(Cardinality(P) - 1) : \E i \in P : Cardinality({j \in P : j < i}) = m
  <1> DEFINE below(i) == {j \in P : j < i}
             n == Cardinality(P)
             T == 0..(n - 1)
             number == [i \in P |-> Cardinality(below(i))]
  <1>1. n \in Nat
    BY FS_CardinalityType
  <1>2. \A i \in P : IsFiniteSet(below(i)) /\ Cardinality(below(i)) \in T
    <2> SUFFICES ASSUME NEW i \in P PROVE IsFiniteSet(below(i)) /\ Cardinality(below(i)) \in T
      OBVIOUS
    <2>1. below(i) \in SUBSET (P \ {i})
      OBVIOUS
    <2>2. IsFiniteSet(P \ {i}) /\ Cardinality(P \ {i}) = n - 1
      BY FS_RemoveElement
    <2> HIDE DEF below, n
    <2>3. IsFiniteSet(below(i)) /\ Cardinality(below(i)) <= n - 1
      BY <2>1, <2>2, FS_Subset
    <2>4. QED
      BY <1>1, <2>3, FS_CardinalityType
  <1>3. \A i, k \in P : i < k => Cardinality(below(i)) # Cardinality(below(k))
    <2> SUFFICES ASSUME NEW i \in P, NEW k \in P, i < k
                 PROVE  Cardinality(below(i)) # Cardinality(below(k))
      OBVIOUS
    <2>0. i \in Nat /\ k \in Nat /\ \A j \in P : j \in Nat
      OBVIOUS
    <2>1. below(i) \in SUBSET below(k) /\ i \in below(k) /\ i \notin below(i)
      <3>1. \A j \in P : j < i => j < k
        BY <2>0
      <3>2. ~(i < i)
        BY <2>0
      <3>3. QED
        BY <3>1, <3>2, Zenon
    <2>2. below(i) # below(k)
      BY <2>1
    <2> HIDE DEF below
    <2>3. QED
      BY <1>2, <2>1, <2>2, FS_Subset
  <1>4. \A i, k \in P : i # k => Cardinality(below(i)) # Cardinality(below(k))
    <2> SUFFICES ASSUME NEW i \in P, NEW k \in P, i # k
                 PROVE  Cardinality(below(i)) # Cardinality(below(k))
      OBVIOUS
    <2>1. i < k \/ k < i
      OBVIOUS
    <2> HIDE DEF below
    <2>2. QED
      BY <1>3, <2>1
  <1>5. number \in Surjection(P, T)
    <2>1. number \in [P -> T]
      BY <1>2
    <2>2. \A i, k \in P : number[i] = number[k] => i = k
      BY <1>4
    <2> HIDE DEF number
    <2>3. number \in Injection(P, T)
      BY <2>1, <2>2 DEF Injection, IsInjective
    <2>4. IsFiniteSet(T) /\ Cardinality(T) = n
      <3> HIDE DEF n
      <3>1. n \in Int /\ n - 1 \in Int /\ 0 \in Int
        BY <1>1
      <3>2. QED
        BY ONLY <1>1, <3>1, FS_Interval, SMT
    <2>5. QED
      <3> HIDE DEF T
      <3>1. Cardinality(P) = Cardinality(T)
        BY <2>4
      <3>2. QED
        BY <2>3, <2>4, <3>1, FS_Injection
  <1>6. \A m \in T : \E i \in P : Cardinality(below(i)) = m
    BY <1>5 DEF Surjection
  <1>7. QED
    BY <1>2, <1>4, <1>6

\* Entries returns the entries at the positions, each at one place.
LEMMA EntriesAre ==
  ASSUME NEW S, NEW s \in Seq(S), NEW P \in SUBSET DOMAIN s
  PROVE  /\ Entries(s, P) \in Seq(S)
         /\ \A k \in DOMAIN Entries(s, P) : \E i \in P : Entries(s, P)[k] = s[i]
         /\ \A i \in P : \E k \in DOMAIN Entries(s, P) : Entries(s, P)[k] = s[i]
         /\ Entries(s, P) = <<>> <=> P = {}
  <1> DEFINE number(i) == Cardinality({j \in P : j < i})
             place(k) == CHOOSE i \in P : number(i) = k - 1
             n == Cardinality(P)
             t == Entries(s, P)
  <1>1. P \in SUBSET Nat /\ IsFiniteSet(P) /\ n \in Nat
    <2>1. DOMAIN s = 1..Len(s) /\ Len(s) \in Nat
      OBVIOUS
    <2>2. IsFiniteSet(DOMAIN s)
      BY <2>1, FS_Interval
    <2>3. QED
      BY <2>1, <2>2, FS_Subset, FS_CardinalityType
  <1>2. t = [k \in 1..n |-> s[place(k)]]
    BY DEF Entries
  <1>3. \A k \in 1..n : place(k) \in P /\ number(place(k)) = k - 1
    <2> SUFFICES ASSUME NEW k \in 1..n PROVE place(k) \in P /\ number(place(k)) = k - 1
      OBVIOUS
    <2>1. k - 1 \in 0..(n - 1)
      BY <1>1
    <2>2. \E i \in P : number(i) = k - 1
      BY <1>1, <2>1, PositionsNumbered
    <2>3. QED
      BY <2>2
  <1>4. \A i \in P : number(i) + 1 \in 1..n /\ place(number(i) + 1) = i
    <2> SUFFICES ASSUME NEW i \in P PROVE number(i) + 1 \in 1..n /\ place(number(i) + 1) = i
      OBVIOUS
    <2>1. number(i) \in 0..(n - 1)
      BY <1>1, PositionsNumbered
    <2>2. number(i) + 1 \in 1..n /\ (number(i) + 1) - 1 = number(i)
      <3> HIDE DEF number
      <3> QED
        BY <1>1, <2>1
    <2>3. place(number(i) + 1) \in P /\ number(place(number(i) + 1)) = number(i)
      <3> HIDE DEF number
      <3> QED
        BY <1>3, <2>2
    <2>4. \A j, k \in P : j # k => number(j) # number(k)
      BY <1>1, PositionsNumbered
    <2> HIDE DEF number, place
    <2>5. QED
      BY <2>2, <2>3, <2>4
  <1> HIDE DEF number, place, t
  <1>5. t \in [1..n -> S]
    <2>1. \A k \in 1..n : s[place(k)] \in S
      BY <1>3
    <2>2. QED
      BY <1>2, <2>1
  <1>6. t \in Seq(S) /\ DOMAIN t = 1..n
    <2> HIDE DEF n
    <2> QED
      BY ONLY <1>1, <1>5
  <1>7. \A k \in DOMAIN t : \E i \in P : t[k] = s[i]
    BY <1>2, <1>3, <1>6
  <1>8. \A i \in P : \E k \in DOMAIN t : t[k] = s[i]
    BY <1>2, <1>4, <1>6
  <1>9. t = <<>> <=> P = {}
    <2>1. CASE P = {}
      <3>1. DOMAIN t = {}
        BY <1>7, <2>1
      <3>2. QED
        BY <1>6, <2>1, <3>1
    <2>2. CASE P # {}
      BY <1>8, <2>2
    <2>3. QED
      BY <2>1, <2>2
  <1>10. QED
    BY <1>6, <1>7, <1>8, <1>9 DEF t

\* A Version may change in everything but its name.
LEMMA VersionEdited ==
  ASSUME NEW s \in Seq(BrowseVersion), NamedApart(s),
         NEW i \in DOMAIN s, NEW w \in BrowseVersion, SameName(w, s[i])
  PROVE  /\ [s EXCEPT ![i] = w] \in Seq(BrowseVersion)
         /\ NamedApart([s EXCEPT ![i] = w])
  <1> DEFINE t == [s EXCEPT ![i] = w]
  <1>1. t \in Seq(BrowseVersion) /\ DOMAIN t = DOMAIN s
    OBVIOUS
  <1>2. \A j \in DOMAIN s : SameName(t[j], s[j])
    BY DEF SameName
  <1>3. NamedApart(t)
    BY <1>1, <1>2 DEF NamedApart, SameName
  <1>4. QED
    BY <1>1, <1>3

\* A resource may change in everything but its name.
LEMMA ResourceEdited ==
  ASSUME NEW s \in Seq(BrowseResource), ResourcesApart(s),
         NEW i \in DOMAIN s, NEW r \in BrowseResource, Id(r) = Id(s[i])
  PROVE  /\ [s EXCEPT ![i] = r] \in Seq(BrowseResource)
         /\ ResourcesApart([s EXCEPT ![i] = r])
  <1> DEFINE t == [s EXCEPT ![i] = r]
  <1>1. t \in Seq(BrowseResource) /\ DOMAIN t = DOMAIN s
    OBVIOUS
  <1>2. \A j \in DOMAIN s : Id(t[j]) = Id(s[j])
    OBVIOUS
  <1>3. ResourcesApart(t)
    BY <1>1, <1>2 DEF ResourcesApart
  <1>4. QED
    BY <1>1, <1>3

\* A Version of a new name may be added.
LEMMA VersionAdded ==
  ASSUME NEW s \in Seq(BrowseVersion), NamedApart(s), NEW w \in BrowseVersion,
         \A v \in ToSet(s) : ~SameName(w, v)
  PROVE  /\ Append(s, w) \in Seq(BrowseVersion)
         /\ NamedApart(Append(s, w))
  <1> DEFINE t == Append(s, w)
  <1>1. /\ t \in Seq(BrowseVersion) /\ DOMAIN t = 1..(Len(s) + 1) /\ DOMAIN s = 1..Len(s)
        /\ t[Len(s) + 1] = w /\ \A i \in 1..Len(s) : t[i] = s[i]
    OBVIOUS
  <1>2. \A i \in 1..Len(s) : ~SameName(w, s[i])
    BY <1>1 DEF ToSet
  <1>3. ASSUME NEW i \in DOMAIN t, NEW j \in DOMAIN t, SameName(t[i], t[j])
        PROVE  i = j
    <2>1. CASE i \in 1..Len(s) /\ j \in 1..Len(s)
      BY <1>1, <1>3, <2>1 DEF NamedApart
    <2>2. CASE i = Len(s) + 1 /\ j \in 1..Len(s)
      BY <1>1, <1>2, <1>3, <2>2
    <2>3. CASE i \in 1..Len(s) /\ j = Len(s) + 1
      BY <1>1, <1>2, <1>3, <2>3 DEF SameName
    <2>4. QED
      <3>1. Len(s) \in Nat
        OBVIOUS
      <3>2. QED
        BY <1>1, <2>1, <2>2, <2>3, <3>1
  <1>4. QED
    BY <1>1, <1>3 DEF NamedApart

-----------------------------------------------------------------------------
\* The order of versions

\* Two different versions differ in a first part, one that only one of them has
\* if need be.
LEMMA FirstDifference ==
  ASSUME NEW a \in Seq(Int), NEW b \in Seq(Int), a # b
  PROVE  \E i \in Nat \ {0} :
            /\ \A j \in 1..(i-1) : j \in DOMAIN a /\ j \in DOMAIN b /\ a[j] = b[j]
            /\ \/ i \in DOMAIN a /\ i \in DOMAIN b /\ a[i] # b[i]
               \/ i \in DOMAIN a /\ i \notin DOMAIN b
               \/ i \notin DOMAIN a /\ i \in DOMAIN b
  <1> DEFINE both(i) == i \in DOMAIN a /\ i \in DOMAIN b /\ a[i] = b[i]
             S == {i \in Nat \ {0} : ~both(i) /\ (i \in DOMAIN a \/ i \in DOMAIN b)}
  <1>1. DOMAIN a = 1..Len(a) /\ DOMAIN b = 1..Len(b) /\ Len(a) \in Nat /\ Len(b) \in Nat
    OBVIOUS
  <1>2. S # {}
    <2> SUFFICES ASSUME S = {} PROVE FALSE
      OBVIOUS
    <2>1. \A i \in Nat \ {0} : i \in DOMAIN a \/ i \in DOMAIN b => both(i)
      OBVIOUS
    <2>2. \A m, n \in Nat : (\A i \in Nat \ {0} : i \in 1..m <=> i \in 1..n) => m = n
      <3> SUFFICES ASSUME NEW m \in Nat, NEW n \in Nat,
                          \A i \in Nat \ {0} : i \in 1..m <=> i \in 1..n
                   PROVE  m = n
        OBVIOUS
      <3>0. m + 1 \in Nat \ {0} /\ n + 1 \in Nat \ {0}
        BY ONLY m \in Nat, n \in Nat
      <3>1. m + 1 \in 1..m <=> m + 1 \in 1..n
        BY <3>0, Zenon
      <3>2. n + 1 \in 1..m <=> n + 1 \in 1..n
        BY <3>0, Zenon
      <3>3. QED
        BY ONLY <3>1, <3>2, m \in Nat, n \in Nat
    <2>3. \A i \in DOMAIN a : a[i] = b[i]
      BY <1>1, <2>1
    <2>4. Len(a) = Len(b)
      <3> DEFINE m == Len(a)
                 n == Len(b)
      <3>1. \A i \in Nat \ {0} : i \in 1..m <=> i \in 1..n
        BY <1>1, <2>1
      <3> HIDE DEF m, n
      <3>2. m \in Nat /\ n \in Nat
        BY <1>1 DEF m, n
      <3>3. m = n
        BY ONLY <2>2, <3>1, <3>2
      <3>4. QED
        BY <3>3 DEF m, n
    <2>5. QED
      BY <1>1, <2>3, <2>4, SeqEqual
  <1>3. Min(S) \in S /\ \A x \in S : Min(S) <= x
    BY <1>2, MinExists
  <1> DEFINE i == Min(S)
  <1>4. i \in Nat \ {0} /\ \A j \in 1..(i-1) : j \notin S
    <2> HIDE DEF S
    <2>1. i \in Nat \ {0} /\ \A x \in S : i <= x
      BY <1>3 DEF S
    <2> HIDE DEF i
    <2>2. QED
      BY <2>1
  <1> HIDE DEF i
  <1>5. \A j \in 1..(i-1) : both(j)
    <2> SUFFICES ASSUME NEW j \in 1..(i-1) PROVE both(j)
      OBVIOUS
    <2>1. j \in Nat \ {0} /\ j < i /\ j \notin S
      BY <1>4
    <2>2. ~(j \in DOMAIN a \/ j \in DOMAIN b) \/ both(j)
      BY <2>1
    <2>3. i \in DOMAIN a \/ i \in DOMAIN b
      BY <1>3 DEF i
    <2>4. j \in DOMAIN a \/ j \in DOMAIN b
      BY <1>1, <1>4, <2>1, <2>3
    <2>5. QED
      BY <2>2, <2>4
  <1>6. i \in S
    BY <1>3 DEF i
  <1>7. QED
    BY <1>4, <1>5, <1>6

\* compareVersionDesc is a strict order, total between different versions.
LEMMA VersionsOrdered ==
  ASSUME NEW a \in Seq(Int), NEW b \in Seq(Int), NEW c \in Seq(Int)
  PROVE  /\ ~compareVersionDesc(a, a)
         /\ compareVersionDesc(a, b) /\ compareVersionDesc(b, c) => compareVersionDesc(a, c)
         /\ a # b => compareVersionDesc(a, b) \/ compareVersionDesc(b, a)
  <1>1. /\ DOMAIN a = 1..Len(a) /\ DOMAIN b = 1..Len(b) /\ DOMAIN c = 1..Len(c)
        /\ Len(a) \in Nat /\ Len(b) \in Nat /\ Len(c) \in Nat
        /\ \A i \in DOMAIN a : a[i] \in Int
        /\ \A i \in DOMAIN b : b[i] \in Int
        /\ \A i \in DOMAIN c : c[i] \in Int
    OBVIOUS
  <1>2. ~compareVersionDesc(a, a)
    BY <1>1 DEF compareVersionDesc
  <1>3. ASSUME compareVersionDesc(a, b), compareVersionDesc(b, c)
        PROVE  compareVersionDesc(a, c)
    <2>1. PICK i \in DOMAIN a : /\ \A j \in 1..(i-1) : j \in DOMAIN b /\ a[j] = b[j]
                                /\ i \in DOMAIN b => a[i] > b[i]
      BY <1>3 DEF compareVersionDesc
    <2>2. PICK k \in DOMAIN b : /\ \A j \in 1..(k-1) : j \in DOMAIN c /\ b[j] = c[j]
                                /\ k \in DOMAIN c => b[k] > c[k]
      BY <1>3 DEF compareVersionDesc
    <2>3. i \in Nat \ {0} /\ k \in Nat \ {0}
      BY <1>1
    <2>4. \A j \in 1..(i-1) : j < i /\ (i < k \/ i = k => j \in 1..(k-1))
      BY ONLY <2>3
    <2>5. \A j \in 1..(k-1) : j < k /\ (k < i \/ i = k => j \in 1..(i-1))
      BY ONLY <2>3
    <2>6. (i < k => i \in 1..(k-1)) /\ (k < i => k \in 1..(i-1))
      BY ONLY <2>3
    <2>7. CASE i < k
      <3>1. \A j \in 1..(i-1) : j \in DOMAIN c /\ a[j] = c[j]
        BY ONLY <2>1, <2>2, <2>4, <2>7
      <3>2. i \in DOMAIN c /\ b[i] = c[i] /\ i \in DOMAIN b
        <4>1. i \in DOMAIN c /\ b[i] = c[i]
          BY ONLY <2>2, <2>6, <2>7
        <4>2. i \in DOMAIN b
          <5> DEFINE m == Len(b)
          <5>1. m \in Nat /\ k \in 1..m
            BY <1>1
          <5> HIDE DEF m
          <5>2. i \in 1..m
            BY ONLY <2>3, <2>7, <5>1
          <5>3. QED
            BY <1>1, <5>2 DEF m
        <4>3. QED
          BY <4>1, <4>2
      <3>3. a[i] > c[i]
        BY ONLY <2>1, <3>2
      <3>4. QED
        BY <2>1, <3>1, <3>3 DEF compareVersionDesc
    <2>8. CASE k < i
      <3>1. \A j \in 1..(k-1) : j \in DOMAIN c /\ a[j] = c[j]
        BY ONLY <2>1, <2>2, <2>5, <2>8
      <3>2. k \in DOMAIN a /\ a[k] = b[k]
        <4>1. a[k] = b[k]
          BY ONLY <2>1, <2>6, <2>8
        <4>2. k \in DOMAIN a
          <5> DEFINE m == Len(a)
          <5>1. m \in Nat /\ i \in 1..m
            BY <1>1
          <5> HIDE DEF m
          <5>2. k \in 1..m
            BY ONLY <2>3, <2>8, <5>1
          <5>3. QED
            BY <1>1, <5>2 DEF m
        <4>3. QED
          BY <4>1, <4>2
      <3>3. k \in DOMAIN c => a[k] > c[k]
        BY ONLY <2>2, <3>2
      <3>4. QED
        BY <3>1, <3>2, <3>3 DEF compareVersionDesc
    <2>9. CASE i = k
      <3>1. \A j \in 1..(i-1) : j \in DOMAIN c /\ a[j] = c[j]
        BY ONLY <2>1, <2>2, <2>9
      <3>2. i \in DOMAIN c => a[i] > c[i]
        <4>1. ASSUME i \in DOMAIN c PROVE a[i] > c[i]
          <5>1. a[i] \in Int /\ b[i] \in Int /\ c[i] \in Int
            BY <1>1, <2>9, <4>1
          <5>2. a[i] > b[i] /\ b[i] > c[i]
            BY ONLY <2>1, <2>2, <2>9, <4>1
          <5>3. QED
            BY ONLY <5>1, <5>2
        <4>2. QED
          BY <4>1
      <3>3. QED
        BY <2>1, <3>1, <3>2 DEF compareVersionDesc
    <2>10. QED
      BY <2>3, <2>7, <2>8, <2>9
  <1>4. ASSUME a # b PROVE compareVersionDesc(a, b) \/ compareVersionDesc(b, a)
    <2>1. PICK i \in Nat \ {0} :
            /\ \A j \in 1..(i-1) : j \in DOMAIN a /\ j \in DOMAIN b /\ a[j] = b[j]
            /\ \/ i \in DOMAIN a /\ i \in DOMAIN b /\ a[i] # b[i]
               \/ i \in DOMAIN a /\ i \notin DOMAIN b
               \/ i \notin DOMAIN a /\ i \in DOMAIN b
      BY <1>4, FirstDifference
    <2>2. CASE i \in DOMAIN a /\ i \in DOMAIN b /\ a[i] # b[i]
      <3>1. a[i] > b[i] \/ b[i] > a[i]
        BY <1>1, <2>2
      <3>2. QED
        BY <2>1, <2>2, <3>1 DEF compareVersionDesc
    <2>3. CASE i \in DOMAIN a /\ i \notin DOMAIN b
      BY <2>1, <2>3 DEF compareVersionDesc
    <2>4. CASE i \notin DOMAIN a /\ i \in DOMAIN b
      BY <2>1, <2>4 DEF compareVersionDesc
    <2>5. QED
      BY <2>1, <2>2, <2>3, <2>4
  <1>5. QED
    BY <1>2, <1>3, <1>4

\* The newest of a list is one of it that none is newer than.
LEMMA NewestIs ==
  ASSUME NEW s \in Seq(BrowseVersion), s # <<>>
  PROVE  \E i \in DOMAIN s :
            /\ Newest(s) = s[i]
            /\ \A j \in DOMAIN s : ~compareVersionDesc(s[j].version.parts, s[i].version.parts)
  <1> DEFINE parts(i) == s[i].version.parts
             newer(i) == {j \in DOMAIN s : compareVersionDesc(parts(j), parts(i))}
             C == {Cardinality(newer(i)) : i \in DOMAIN s}
             M == {i \in DOMAIN s : \A j \in DOMAIN s : ~compareVersionDesc(parts(j), parts(i))}
  <1>1. DOMAIN s = 1..Len(s) /\ Len(s) \in Nat /\ DOMAIN s # {}
    OBVIOUS
  <1>2. \A i \in DOMAIN s : parts(i) \in Seq(Int)
    BY DEF BrowseVersion, VersionName
  <1>3. IsFiniteSet(DOMAIN s)
    BY <1>1, FS_Interval
  <1>4. \A i \in DOMAIN s : IsFiniteSet(newer(i)) /\ Cardinality(newer(i)) \in Nat
    <2> SUFFICES ASSUME NEW i \in DOMAIN s
                 PROVE  IsFiniteSet(newer(i)) /\ Cardinality(newer(i)) \in Nat
      OBVIOUS
    <2>1. newer(i) \in SUBSET DOMAIN s
      OBVIOUS
    <2> HIDE DEF newer
    <2>2. QED
      BY <1>3, <2>1, FS_Subset, FS_CardinalityType
  <1>5. C \in SUBSET Nat /\ C # {}
    <2> HIDE DEF newer
    <2> QED
      BY <1>1, <1>4
  <1>6. PICK i \in DOMAIN s : \A j \in DOMAIN s : Cardinality(newer(i)) <= Cardinality(newer(j))
    <2> HIDE DEF newer
    <2>1. Min(C) \in C /\ \A x \in C : Min(C) <= x
      BY <1>5, MinExists
    <2>2. PICK i \in DOMAIN s : Min(C) = Cardinality(newer(i))
      BY <2>1
    <2>3. QED
      BY <2>1, <2>2
  <1>7. ASSUME NEW j \in newer(i) PROVE FALSE
    <2>1. \A k \in newer(j) : k \in newer(i)
      BY <1>2, <1>7, VersionsOrdered
    <2>2. j \notin newer(j)
      BY <1>2, VersionsOrdered
    <2>3. newer(j) \in SUBSET newer(i) /\ newer(j) # newer(i) /\ j \in DOMAIN s
      BY <1>7, <2>1, <2>2
    <2> HIDE DEF newer
    <2>4. Cardinality(newer(j)) < Cardinality(newer(i))
      BY <1>4, <2>3, FS_Subset
    <2>5. QED
      BY <1>4, <1>6, <2>3, <2>4
  <1>8. i \in M
    BY <1>7
  <1>9. M # {} /\ M \in SUBSET Nat
    <2>1. M \subseteq DOMAIN s /\ DOMAIN s \subseteq Nat
      BY <1>1
    <2> HIDE DEF M
    <2>2. QED
      BY <1>8, <2>1
  <1>10. Min(M) \in M
    BY <1>9, MinExists
  <1>11. Newest(s) = s[Min(M)]
    BY <1>9 DEF Newest, FirstAt
  <1> HIDE DEF M
  <1>12. QED
    BY <1>10, <1>11 DEF M

-----------------------------------------------------------------------------
\* A request

LEMMA Requesting ==
  ASSUME BrowseInv,
         \/ \E cred \in Credentials, order \in {"namespaces", "resources"} : Arrive(cred, order)
         \/ ReadNamespaces \/ ReadResources \/ Reply \/ Finish
  PROVE  BrowseInv'
  <1>1. cluster' = cluster /\ edits' = edits
    BY DEF Arrive, ReadNamespaces, ReadResources, Reply, Finish
  <1> USE DEF BrowseInv, BrowseTypeOK, LabelsSeen, LabelsRespected, Labelled
  <1>2. ASSUME NEW cred \in Credentials, NEW order \in {"namespaces", "resources"}, Arrive(cred, order)
        PROVE  BrowseInv'
    <2>1. Labelled(NoRequest.read) = {}
      BY DEF NoRequest, ToSet
    <2>2. QED
      BY <1>1, <1>2, <2>1 DEF Arrive, NoRequest
  <1>3. CASE ReadNamespaces
    BY <1>1, <1>3 DEF ReadNamespaces, NoRequest
  <1>4. CASE ReadResources
    BY <1>1, <1>4 DEF ReadResources, NoRequest
  <1>5. CASE Reply
    <2> DEFINE c == [cluster EXCEPT !.public = request.read.public, !.resources = request.read.resources]
    <2>1. c.public = request.read.public /\ c.resources = request.read.resources
      BY BrowseConstants
    <2>2. ASSUME NEW r \in ToSet(c.resources), Shown(c, request.caller, r),
                 ~request.caller.all, request.caller.binding = Nobody
          PROVE  Id(r) \in request.labelled /\ Id(r)[2] \in request.namespaces
      BY <1>5, <2>1, <2>2 DEF Reply, Shown, Visible, IsPublic, Id
    <2>3. QED
      BY <1>1, <1>5, <2>2 DEF Reply, NoRequest
  <1>6. CASE Finish
    BY <1>1, <1>6 DEF Finish, NoRequest
  <1>7. QED
    BY <1>2, <1>3, <1>4, <1>5, <1>6

-----------------------------------------------------------------------------
\* The cluster changes

\* A change that keeps the names of the resources and of the Versions apart.
LEMMA Changing ==
  ASSUME BrowseInv, NEW c, Changed(c), DOMAIN c = DOMAIN cluster,
         c.resources \in Seq(BrowseResource), ResourcesApart(c.resources),
         c.versions \in Seq(BrowseVersion), NamedApart(c.versions)
  PROVE  BrowseInv'
  <1>1. BrowseTypeOK' /\ NamedApart(cluster.versions)' /\ ResourcesApart(cluster.resources)'
    BY BrowseConstants DEF BrowseInv, BrowseTypeOK, Changed
  <1>2. LabelsSeen'
    BY DEF BrowseInv, BrowseTypeOK, Changed, LabelsSeen, NoRequest
  <1>3. LabelsRespected'
    BY DEF BrowseInv, BrowseTypeOK, Changed, LabelsRespected, NoRequest
  <1>4. QED
    BY <1>1, <1>2, <1>3 DEF BrowseInv

LEMMA Labelling ==
  ASSUME BrowseInv,
         \/ \E r \in ToSet(Cluster0.resources) : LabelNamespace(r.ns)
         \/ \E i \in DOMAIN cluster.resources : LabelResource(i)
         \/ EditBindings \/ RewriteDocument \/ CountDownload
  PROVE  BrowseInv'
  <1>0. ASSUME NEW c, Changed(c), DOMAIN c = DOMAIN cluster, c.versions = cluster.versions,
               c.resources = cluster.resources
        PROVE  BrowseInv'
    BY <1>0, Changing DEF BrowseInv, BrowseTypeOK
  <1>1. ASSUME NEW ns, LabelNamespace(ns) PROVE BrowseInv'
    <2> DEFINE c == [cluster EXCEPT !.public = IF ns \in @ THEN @ \ {ns} ELSE @ \cup {ns}]
    <2>1. DOMAIN c = DOMAIN cluster /\ c.versions = cluster.versions /\ c.resources = cluster.resources
      BY BrowseConstants DEF BrowseInv, BrowseTypeOK
    <2>2. QED
      BY <1>0, <1>1, <2>1 DEF LabelNamespace
  <1>2. ASSUME NEW i \in DOMAIN cluster.resources, LabelResource(i) PROVE BrowseInv'
    <2> DEFINE c == [cluster EXCEPT !.resources[i].public = ~@]
               r == [cluster.resources[i] EXCEPT !.public = ~@]
    <2>1. /\ DOMAIN c = DOMAIN cluster /\ c.versions = cluster.versions
          /\ c.resources = [cluster.resources EXCEPT ![i] = r]
      BY BrowseConstants DEF BrowseInv, BrowseTypeOK
    <2>2. cluster.resources[i] \in BrowseResource
      BY DEF BrowseInv, BrowseTypeOK
    <2>3. r \in BrowseResource /\ Id(r) = Id(cluster.resources[i])
      BY <2>2 DEF BrowseResource, Id
    <2>4. Changed(c)
      BY <1>2 DEF LabelResource
    <2> HIDE DEF c, r
    <2>5. c.resources \in Seq(BrowseResource) /\ ResourcesApart(c.resources)
      BY <2>1, <2>3, ResourceEdited DEF BrowseInv, BrowseTypeOK
    <2>6. QED
      BY <2>1, <2>4, <2>5, Changing DEF BrowseInv, BrowseTypeOK
  <1>3. CASE EditBindings
    <2>1. PICK b : Changed([cluster EXCEPT !.bindings = b])
      BY <1>3 DEF EditBindings
    <2> DEFINE c == [cluster EXCEPT !.bindings = b]
    <2>2. DOMAIN c = DOMAIN cluster /\ c.versions = cluster.versions /\ c.resources = cluster.resources
      BY BrowseConstants DEF BrowseInv, BrowseTypeOK
    <2>3. QED
      BY <1>0, <2>1, <2>2
  <1>4. CASE RewriteDocument
    <2>1. ASSUME NEW m, NEW d, Changed([cluster EXCEPT !.maps[m] = d]) PROVE BrowseInv'
      <3> DEFINE c == [cluster EXCEPT !.maps[m] = d]
      <3>1. DOMAIN c = DOMAIN cluster /\ c.versions = cluster.versions /\ c.resources = cluster.resources
        BY BrowseConstants DEF BrowseInv, BrowseTypeOK
      <3>2. QED
        BY <1>0, <2>1, <3>1
    <2>2. ASSUME NEW o, NEW d, Changed([cluster EXCEPT !.objects[o] = d]) PROVE BrowseInv'
      <3> DEFINE c == [cluster EXCEPT !.objects[o] = d]
      <3>1. DOMAIN c = DOMAIN cluster /\ c.versions = cluster.versions /\ c.resources = cluster.resources
        BY BrowseConstants DEF BrowseInv, BrowseTypeOK
      <3>2. QED
        BY <1>0, <2>2, <3>1
    <2>3. QED
      BY <1>4, <2>1, <2>2 DEF RewriteDocument
  <1>5. CASE CountDownload
    <2>1. ASSUME NEW d, Changed([cluster EXCEPT !.downloads = d]) PROVE BrowseInv'
      <3> DEFINE c == [cluster EXCEPT !.downloads = d]
      <3>1. DOMAIN c = DOMAIN cluster /\ c.versions = cluster.versions /\ c.resources = cluster.resources
        BY BrowseConstants DEF BrowseInv, BrowseTypeOK
      <3>2. QED
        BY <1>0, <2>1, <3>1
    <2>2. \E d : Changed([cluster EXCEPT !.downloads = d])
      BY <1>5 DEF CountDownload
    <2>3. QED
      BY <2>1, <2>2
  <1>6. QED
    BY <1>1, <1>2, <1>3, <1>4, <1>5

LEMMA Scanning ==
  ASSUME BrowseInv, NEW i \in DOMAIN cluster.versions, Scan(i) \/ Sync(i) \/ RewriteConfig(i)
  PROVE  BrowseInv'
  <1> DEFINE v == cluster.versions[i]
  <1>1. v \in BrowseVersion
    BY DEF BrowseInv, BrowseTypeOK
  <1>2. PICK c, w : /\ Changed(c) /\ DOMAIN c = DOMAIN cluster
                    /\ w \in BrowseVersion /\ SameName(w, v)
                    /\ c.versions = [cluster.versions EXCEPT ![i] = w]
                    /\ c.resources = cluster.resources
    <2>1. CASE Scan(i)
      <3>1. PICK s \in Scans :
              \/ Changed([cluster EXCEPT !.versions[i].source = s])
              \/ Changed([cluster EXCEPT !.versions[i].binary = s])
        BY <2>1 DEF Scan
      <3>2. CASE Changed([cluster EXCEPT !.versions[i].source = s])
        <4> DEFINE c == [cluster EXCEPT !.versions[i].source = s]
                   w == [v EXCEPT !.source = s]
        <4>1. w \in BrowseVersion /\ SameName(w, v)
          BY <1>1 DEF BrowseVersion, SameName, Called, Reports
        <4>2. /\ DOMAIN c = DOMAIN cluster /\ c.resources = cluster.resources
             /\ c.versions = [cluster.versions EXCEPT ![i] = w]
          BY BrowseConstants DEF BrowseInv, BrowseTypeOK
        <4>3. QED
          BY <3>2, <4>1, <4>2
      <3>3. CASE Changed([cluster EXCEPT !.versions[i].binary = s])
        <4> DEFINE c == [cluster EXCEPT !.versions[i].binary = s]
                   w == [v EXCEPT !.binary = s]
        <4>1. w \in BrowseVersion /\ SameName(w, v)
          BY <1>1 DEF BrowseVersion, SameName, Called, Reports
        <4>2. /\ DOMAIN c = DOMAIN cluster /\ c.resources = cluster.resources
             /\ c.versions = [cluster.versions EXCEPT ![i] = w]
          BY BrowseConstants DEF BrowseInv, BrowseTypeOK
        <4>3. QED
          BY <3>3, <4>1, <4>2
      <3>4. QED
        BY <3>1, <3>2, <3>3
    <2>2. CASE Sync(i)
      <3>1. PICK ok \in BOOLEAN, name \in {v.ref, Called(v)} :
              Changed([cluster EXCEPT !.versions[i] =
                         [@ EXCEPT !.synced = ok, !.failed = ~ok, !.ref = name]])
        BY <2>2 DEF Sync
      <3> DEFINE c == [cluster EXCEPT !.versions[i] =
                         [@ EXCEPT !.synced = ok, !.failed = ~ok, !.ref = name]]
                 w == [v EXCEPT !.synced = ok, !.failed = ~ok, !.ref = name]
      <3>2. w \in BrowseVersion /\ SameName(w, v)
        BY <1>1 DEF BrowseVersion, SameName, Called
      <3>3. /\ DOMAIN c = DOMAIN cluster /\ c.resources = cluster.resources
           /\ c.versions = [cluster.versions EXCEPT ![i] = w]
        BY BrowseConstants DEF BrowseInv, BrowseTypeOK
      <3>4. QED
        BY <3>1, <3>2, <3>3
    <2>3. CASE RewriteConfig(i)
      <3>1. PICK r \in ToSet(cluster.resources) :
              /\ Id(r) = <<"provider", v.ns, v.owner>> /\ v.kind = "provider"
              /\ ConfigName(r) = Called(v)
              /\ Changed([cluster EXCEPT !.versions[i] = [@ EXCEPT !.ref = r.config]])
        BY <2>3 DEF RewriteConfig
      <3> DEFINE c == [cluster EXCEPT !.versions[i] = [@ EXCEPT !.ref = r.config]]
                 w == [v EXCEPT !.ref = r.config]
      <3>2. r \in BrowseResource
        BY DEF ToSet, BrowseInv, BrowseTypeOK
      <3>3. w \in BrowseVersion
        BY <1>1, <3>1, <3>2 DEF BrowseVersion, BrowseResource
      <3>4. Called(w) = Called(v)
        <4>1. w.ref = r.config /\ w.owner = v.owner
          BY <1>1 DEF BrowseVersion
        <4>2. r.name = v.owner
          BY <3>1 DEF Id
        <4>3. QED
          BY <3>1, <4>1, <4>2 DEF Called, ConfigName
      <3>5. SameName(w, v)
        BY <1>1, <3>4 DEF SameName, BrowseVersion
      <3>6. /\ DOMAIN c = DOMAIN cluster /\ c.resources = cluster.resources
           /\ c.versions = [cluster.versions EXCEPT ![i] = w]
        BY BrowseConstants DEF BrowseInv, BrowseTypeOK
      <3>7. QED
        BY <3>1, <3>3, <3>5, <3>6
    <2>4. QED
      BY <2>1, <2>2, <2>3
  <1>3. c.versions \in Seq(BrowseVersion) /\ NamedApart(c.versions)
    BY <1>2, VersionEdited DEF BrowseInv, BrowseTypeOK
  <1>4. QED
    BY <1>2, <1>3, Changing DEF BrowseInv, BrowseTypeOK

LEMMA Adding ==
  ASSUME BrowseInv, NEW v \in Fresh, AddVersion(v)
  PROVE  BrowseInv'
  <1> DEFINE t == Append(cluster.versions, v)
             c1 == [cluster EXCEPT !.versions = t]
             mine == OwnedBy(t, v.kind, v.ns, v.owner)
             latest == Newest(mine).version
             s == cluster.resources
  <1>1. t \in Seq(BrowseVersion) /\ NamedApart(t)
    BY VersionAdded, BrowseConstants DEF BrowseInv, BrowseTypeOK, AddVersion
  <1>2. DOMAIN c1 = DOMAIN cluster /\ c1.versions = t /\ c1.resources = s
    BY BrowseConstants DEF BrowseInv, BrowseTypeOK
  <1>3. s \in Seq(BrowseResource) /\ ResourcesApart(s)
    BY DEF BrowseInv, BrowseTypeOK
  <1>4. latest \in VersionName
    <2> DEFINE P == {i \in DOMAIN t : /\ t[i].kind = v.kind /\ t[i].ns = v.ns
                                      /\ t[i].owner = v.owner}
    <2>1. P \in SUBSET DOMAIN t
      OBVIOUS
    <2>2. Len(cluster.versions) + 1 \in DOMAIN t /\ t[Len(cluster.versions) + 1] = v
      BY DEF BrowseInv, BrowseTypeOK
    <2>3. P # {}
      BY <2>2
    <2>4. mine = Entries(t, P)
      BY DEF OwnedBy
    <2> HIDE DEF mine, P, t
    <2>5. mine \in Seq(BrowseVersion) /\ mine # <<>>
      BY <1>1, <2>1, <2>3, <2>4, EntriesAre
    <2>6. PICK i \in DOMAIN mine : Newest(mine) = mine[i]
      BY <2>5, NewestIs
    <2>7. Newest(mine) \in BrowseVersion
      BY <2>5, <2>6
    <2>8. QED
      BY <2>7 DEF BrowseVersion
  <1>5. CASE Changed(c1)
    <2> HIDE DEF c1, s
    <2> QED
      BY <1>1, <1>2, <1>3, <1>5, Changing
  <1>6. ASSUME NEW i \in DOMAIN s, Changed([cluster EXCEPT !.versions = t, !.resources[i].latest = latest])
        PROVE  BrowseInv'
    <2> DEFINE c == [cluster EXCEPT !.versions = t, !.resources[i].latest = latest]
               r == [s[i] EXCEPT !.latest = latest]
    <2> HIDE DEF latest
    <2>1. /\ DOMAIN c = DOMAIN cluster /\ c.versions = t
          /\ c.resources = [s EXCEPT ![i] = r]
      BY BrowseConstants DEF BrowseInv, BrowseTypeOK
    <2>2. s[i] \in BrowseResource
      BY <1>3
    <2>3. r \in BrowseResource /\ Id(r) = Id(s[i])
      BY <1>4, <2>2 DEF BrowseResource, Id
    <2>4. Changed(c)
      BY <1>6
    <2> HIDE DEF c, r, t, s
    <2>5. c.resources \in Seq(BrowseResource) /\ ResourcesApart(c.resources)
      BY <1>3, <1>6, <2>1, <2>3, ResourceEdited
    <2>6. QED
      BY <1>1, <2>1, <2>4, <2>5, Changing
  <1>7. \/ Changed(c1)
        \/ \E i \in DOMAIN s : Changed([cluster EXCEPT !.versions = t, !.resources[i].latest = latest])
    BY DEF AddVersion
  <1> HIDE DEF c1, t, s, latest
  <1>8. QED
    BY <1>5, <1>6, <1>7

-----------------------------------------------------------------------------
\* The documents of an assembly

\* The Version of a module that is found synced is the one found first: there is
\* only one.
LEMMA SameContract ==
  ASSUME BrowseInv, NEW ns, NEW name, NEW parts,
         NEW S, S = {i \in WithContract(cluster, ns, name, parts) : cluster.versions[i].synced},
         ContractOf(cluster, FirstAt(cluster.versions, S)) # 0
  PROVE  FirstAt(cluster.versions, S)
           = FirstAt(cluster.versions, WithContract(cluster, ns, name, parts))
  <1> DEFINE W == WithContract(cluster, ns, name, parts)
  <1>1. S # {} /\ W # {} /\ S \subseteq W
    BY DEF FirstAt, ContractOf
  <1>2. W \subseteq DOMAIN cluster.versions /\ DOMAIN cluster.versions \subseteq Nat
    BY DEF BrowseInv, BrowseTypeOK, WithContract, VersionsAt
  <1>3. Min(S) \in S /\ Min(W) \in W
    BY <1>1, <1>2, MinExists
  <1>4. ASSUME NEW i \in W, NEW j \in W PROVE i = j
    <2>1. i \in DOMAIN cluster.versions /\ j \in DOMAIN cluster.versions
      BY <1>2
    <2>2. /\ cluster.versions[i].platform = 0 /\ cluster.versions[j].platform = 0
          /\ cluster.versions[i].ref # 0 /\ cluster.versions[j].ref # 0
      BY <2>1 DEF WithContract, VersionsAt, BrowseInv, BrowseTypeOK, BrowseVersion
    <2>3. SameName(cluster.versions[i], cluster.versions[j])
      BY <2>2 DEF WithContract, VersionsAt, SameName, Called
    <2>4. QED
      BY <2>1, <2>3 DEF BrowseInv, NamedApart
  <1>5. Min(S) = Min(W)
    BY <1>1, <1>3, <1>4
  <1>6. QED
    BY <1>1, <1>5 DEF FirstAt

\* One node of a canvas.
LEMMA NodeShows ==
  ASSUME BrowseInv, NEW caller, NEW i \in DOMAIN cluster.versions, NEW n, n = Node(cluster.versions[i]),
         NEW a, a = ResolveNode(cluster, caller, n), a.status # 404, a.status # 422
  PROVE  /\ a.document # 0
         /\ IF n.kind = "module"
            THEN LET p == Contract(cluster, caller, n.ns, n.name, n.version)
                 IN  p.status = 200 /\ p.contract = a.document
            ELSE LET p == ProviderSchema(cluster, caller, n.ns, n.name, n.version)
                 IN  p.status = 200 /\ p.schema = a.document
  <1>1. cluster.versions[i] \in BrowseVersion
    BY DEF BrowseInv, BrowseTypeOK
  <1>2. n.kind \in {"module", "provider"} /\ n.version # <<>>
    BY <1>1 DEF Node, BrowseVersion
  <1>3. Reachable(cluster, caller, n.kind, n.ns, n.name)
    BY DEF ResolveNode, NotFound
  <1>4. CASE n.kind = "module"
    <2> DEFINE S == {k \in WithContract(cluster, n.ns, n.name, n.version) : cluster.versions[k].synced}
               d == ContractOf(cluster, FirstAt(cluster.versions, S))
               p == Contract(cluster, caller, n.ns, n.name, n.version)
    <2>1. a = IF d = 0 THEN [status |-> 422] ELSE [status |-> 200, document |-> d]
      BY <1>3, <1>4 DEF ResolveNode
    <2> HIDE DEF d
    <2>2. d # 0 /\ a.document = d
      BY <2>1
    <2>3. p.status = 200
          /\ p.contract = ContractOf(cluster, FirstAt(cluster.versions,
                                                      WithContract(cluster, n.ns, n.name, n.version)))
      BY <1>2, <1>3, <1>4 DEF Contract, Target
    <2>4. QED
      BY <1>4, <2>2, <2>3, SameContract DEF d
  <1>5. CASE n.kind = "provider"
    <2> DEFINE r == Find(cluster, n.kind, n.ns, n.name)
               s == SchemaOf(cluster, FirstAt(cluster.versions,
                                              WithSchema(cluster, n.ns, ConfigName(r), n.version)))
               d == IF r.opentofu THEN s ELSE 0
               p == ProviderSchema(cluster, caller, n.ns, n.name, n.version)
    <2>1. a = IF d = 0 THEN [status |-> 422] ELSE [status |-> 200, document |-> d]
      BY <1>3, <1>5 DEF ResolveNode
    <2>2. p.status = 200 /\ p.schema = s
      BY <1>2, <1>3, <1>5 DEF ProviderSchema, Target
    <2> HIDE DEF s, p
    <2>3. s # 0 /\ a.document = s
      BY <2>1
    <2>4. QED
      BY <1>5, <2>2, <2>3 DEF p
  <1>6. QED
    BY <1>2, <1>4, <1>5

LEMMA AssemblyShows ==
  ASSUME BrowseInv
  PROVE  AssemblyAgrees
  <1> SUFFICES ASSUME NEW caller, NEW i \in DOMAIN cluster.versions, NEW j \in DOMAIN cluster.versions,
                      NEW nodes, nodes = {Node(cluster.versions[i]), Node(cluster.versions[j])},
                      NEW a, a = Assembly(cluster, caller, nodes, 2), a.status = 200,
                      NEW n \in nodes
               PROVE  /\ a.documents[n] # 0
                      /\ IF n.kind = "module"
                         THEN LET p == Contract(cluster, caller, n.ns, n.name, n.version)
                              IN  p.status = 200 /\ p.contract = a.documents[n]
                         ELSE LET p == ProviderSchema(cluster, caller, n.ns, n.name, n.version)
                              IN  p.status = 200 /\ p.schema = a.documents[n]
    BY DEF AssemblyAgrees
  <1> DEFINE answers == [m \in nodes |-> ResolveNode(cluster, caller, m)]
  <1>1. /\ \A m \in nodes : answers[m].status # 404 /\ answers[m].status # 422
        /\ a = [status |-> 200, documents |-> [m \in nodes |-> answers[m].document]]
    <2>1. Cardinality(nodes) \in Nat
      <3> DEFINE x == Node(cluster.versions[i])
                 y == Node(cluster.versions[j])
      <3>1. IsFiniteSet({x})
        BY FS_Singleton
      <3> HIDE DEF x, y
      <3>2. IsFiniteSet({x} \cup {y})
        BY <3>1, FS_AddElement
      <3>3. nodes = {x} \cup {y}
        BY DEF x, y
      <3>4. QED
        BY <3>2, <3>3, FS_CardinalityType
    <2>2. Cardinality(nodes) <= 2 /\ ~(Cardinality(nodes) > 2)
      BY <2>1 DEF Assembly
    <2>3. a = IF \E m \in nodes : answers[m].status = 404 THEN NotFound
              ELSE IF \E m \in nodes : answers[m].status = 422 THEN [status |-> 422]
              ELSE [status |-> 200, documents |-> [m \in nodes |-> answers[m].document]]
      BY <2>2 DEF Assembly
    <2> HIDE DEF answers
    <2>4. QED
      BY <2>3 DEF NotFound
  <1>2. answers[n] = ResolveNode(cluster, caller, n)
    OBVIOUS
  <1>3. a.documents[n] = answers[n].document
    BY <1>1
  <1> HIDE DEF answers
  <1>4. PICK k \in DOMAIN cluster.versions : n = Node(cluster.versions[k])
    OBVIOUS
  <1>5. QED
    BY <1>1, <1>2, <1>3, <1>4, NodeShows

-----------------------------------------------------------------------------
\* The badge of a module

\* No two Versions of the list have one version.
VersionsApart(s) == \A i, j \in DOMAIN s : s[i].version.parts = s[j].version.parts => s[i] = s[j]

\* The Versions of a module, as lists read them.
LEMMA ModuleVersions ==
  ASSUME BrowseInv, NEW ns, NEW name
  PROVE  /\ VersionsOf(cluster, "module", ns, name) \in Seq(BrowseVersion)
         /\ VersionsApart(VersionsOf(cluster, "module", ns, name))
  <1> DEFINE P == VersionsAt(cluster, "module", ns, name)
             s == VersionsOf(cluster, "module", ns, name)
  <1>1. cluster.versions \in Seq(BrowseVersion) /\ NamedApart(cluster.versions)
    BY DEF BrowseInv, BrowseTypeOK
  <1>2. P \in SUBSET DOMAIN cluster.versions
    BY DEF VersionsAt
  <1>3. s = Entries(cluster.versions, P)
    BY DEF VersionsOf
  <1>4. s \in Seq(BrowseVersion) /\ \A k \in DOMAIN s : \E i \in P : s[k] = cluster.versions[i]
    BY <1>1, <1>2, <1>3, EntriesAre
  <1>5. ASSUME NEW i \in P, NEW j \in P, cluster.versions[i].version.parts = cluster.versions[j].version.parts
        PROVE  i = j
    <2>1. i \in DOMAIN cluster.versions /\ j \in DOMAIN cluster.versions
      BY <1>2
    <2>2. /\ cluster.versions[i].platform = 0 /\ cluster.versions[j].platform = 0
          /\ cluster.versions[i].ref # 0 /\ cluster.versions[j].ref # 0
      BY <1>1, <2>1 DEF VersionsAt, BrowseVersion
    <2>3. SameName(cluster.versions[i], cluster.versions[j])
      BY <1>5, <2>2 DEF VersionsAt, SameName, Called
    <2>4. QED
      BY <1>1, <2>1, <2>3 DEF NamedApart
  <1> HIDE DEF s, P
  <1>6. VersionsApart(s)
    BY <1>4, <1>5 DEF VersionsApart
  <1>7. QED
    BY <1>4, <1>6 DEF s

\* In a list whose newest Version is scanned, the card and the findings page find
\* its scan.
LEMMA ScansAgree ==
  ASSUME NEW s \in Seq(BrowseVersion), s # <<>>, VersionsApart(s), Newest(s).source # None
  PROVE  /\ Newest(s) \in BrowseVersion
         /\ SourceScan(s, <<>>) = Newest(s).source
         /\ FirstAt(s, {i \in DOMAIN s : s[i].version.parts = Newest(s).version.parts
                                         /\ s[i].source # None}) = Newest(s)
  <1>1. PICK n \in DOMAIN s :
          /\ Newest(s) = s[n]
          /\ \A j \in DOMAIN s : ~compareVersionDesc(s[j].version.parts, s[n].version.parts)
    BY NewestIs
  <1>2. s[n] \in BrowseVersion /\ \A j \in DOMAIN s : s[j] \in BrowseVersion
    OBVIOUS
  <1>3. \A v \in BrowseVersion : v.version.parts \in Seq(Int)
    BY DEF BrowseVersion, VersionName
  <1>4. \A v \in BrowseVersion : v # None
    BY BrowseConstants
  <1>5. SourceScan(s, <<>>) = Newest(s).source
    <2> DEFINE S == {i \in DOMAIN s : s[i].source # None}
               t == Entries(s, S)
    <2>1. /\ t \in Seq(BrowseVersion)
          /\ \A k \in DOMAIN t : \E i \in S : t[k] = s[i]
          /\ \A i \in S : \E k \in DOMAIN t : t[k] = s[i]
          /\ t # <<>>
      <3>1. S \in SUBSET DOMAIN s /\ n \in S
        BY <1>1
      <3>2. t = Entries(s, S)
        OBVIOUS
      <3> HIDE DEF S, t
      <3>3. /\ t \in Seq(BrowseVersion)
            /\ \A k \in DOMAIN t : \E i \in S : t[k] = s[i]
            /\ \A i \in S : \E k \in DOMAIN t : t[k] = s[i]
            /\ t = <<>> <=> S = {}
        BY ONLY <3>1, <3>2, EntriesAre, s \in Seq(BrowseVersion)
      <3>4. QED
        BY <3>1, <3>3
    <2> HIDE DEF t
    <2>2. PICK m \in DOMAIN t :
            /\ Newest(t) = t[m]
            /\ \A j \in DOMAIN t : ~compareVersionDesc(t[j].version.parts, t[m].version.parts)
      BY <2>1, NewestIs
    <2>3. PICK i \in S : t[m] = s[i]
      BY <2>1
    <2>4. PICK k \in DOMAIN t : t[k] = s[n]
      BY <1>1, <2>1
    <2>5. /\ ~compareVersionDesc(s[n].version.parts, s[i].version.parts)
          /\ ~compareVersionDesc(s[i].version.parts, s[n].version.parts)
      BY <1>1, <2>2, <2>3, <2>4
    <2>6. s[i].version.parts = s[n].version.parts
      BY <1>2, <1>3, <2>5, VersionsOrdered
    <2>7. Newest(t) = s[n]
      BY <2>2, <2>3, <2>6 DEF VersionsApart
    <2>8. SourceScan(s, <<>>) = IF Newest(t) = None THEN None ELSE Newest(t).source
      BY DEF SourceScan, t
    <2>9. QED
      BY <1>1, <1>2, <1>4, <2>7, <2>8
  <1>6. FirstAt(s, {i \in DOMAIN s : s[i].version.parts = Newest(s).version.parts
                                     /\ s[i].source # None}) = Newest(s)
    <2> DEFINE S == {i \in DOMAIN s : s[i].version.parts = Newest(s).version.parts
                                      /\ s[i].source # None}
    <2>1. n \in S /\ S \in SUBSET Nat
      BY <1>1
    <2>2. Min(S) \in S
      BY <2>1, MinExists
    <2>3. s[Min(S)] = s[n]
      BY <1>1, <2>1, <2>2 DEF VersionsApart
    <2>4. FirstAt(s, S) = s[Min(S)]
      BY <2>1 DEF FirstAt
    <2> HIDE DEF S
    <2>5. FirstAt(s, S) = Newest(s)
      BY <1>1, <2>3, <2>4
    <2>6. QED
      BY <2>5 DEF S
  <1>7. QED
    BY <1>1, <1>2, <1>5, <1>6

-----------------------------------------------------------------------------
\* Findings

\* The severities of the findings that are not exempted.
Severities(findings) == {findings[i].severity : i \in {j \in DOMAIN findings : ~findings[j].exempted}}

\* Of the findings that are not exempted, deduplicateFindings keeps every severity.
LEMMA SeveritiesKept ==
  ASSUME OneSeverity, NEW report \in Reports \ {None}
  PROVE  {f.severity : f \in {g \in ToSet(deduplicateFindings(report.findings)) : ~g.exempted}}
           = Severities(report.findings)
  <1> DEFINE s == report.findings
             key(f) == <<f.id, f.pkg, f.exempted>>
             P == {i \in DOMAIN s : \A j \in 1..(i-1) : key(s[j]) # key(s[i])}
             F == [id : Nat, pkg : Nat, severity : Severity, exempted : BOOLEAN]
             t == deduplicateFindings(s)
  <1>1. s \in Seq(F) /\ DOMAIN s = 1..Len(s) /\ Len(s) \in Nat
    <2>1. report \in Report
      BY BrowseConstants
    <2>2. s \in Seq(F)
      BY <2>1 DEF Report
    <2> HIDE DEF s
    <2>3. QED
      BY <2>2
  <1>2. \A f, g \in ToSet(s) : f.id = g.id /\ f.pkg = g.pkg => f.severity = g.severity
    BY DEF OneSeverity
  <1> HIDE DEF s
  <1>3. P \in SUBSET DOMAIN s
    OBVIOUS
  <1>4. t = Entries(s, P)
    BY DEF deduplicateFindings
  <1> HIDE DEF P, t, F
  <1>5. /\ t \in Seq(F)
        /\ \A k \in DOMAIN t : \E i \in P : t[k] = s[i]
        /\ \A i \in P : \E k \in DOMAIN t : t[k] = s[i]
    BY ONLY <1>1, <1>3, <1>4, EntriesAre
  <1>6. ASSUME NEW i \in DOMAIN s PROVE \E j \in P : key(s[j]) = key(s[i])
    <2> DEFINE E == {j \in DOMAIN s : key(s[j]) = key(s[i])}
    <2>1. E \in SUBSET Nat /\ E # {}
      <3>1. E \subseteq DOMAIN s /\ i \in E
        OBVIOUS
      <3> HIDE DEF E
      <3>2. QED
        BY <1>1, <3>1
    <2>2. Min(E) \in E /\ \A x \in E : Min(E) <= x
      BY <2>1, MinExists
    <2> DEFINE m == Min(E)
    <2>3. m \in DOMAIN s /\ key(s[m]) = key(s[i])
      BY <2>2
    <2>4. \A j \in DOMAIN s : key(s[j]) = key(s[i]) => m <= j
      BY <2>2
    <2> HIDE DEF m, key, E
    <2>5. \A j \in 1..(m-1) : key(s[j]) # key(s[m])
      <3> SUFFICES ASSUME NEW j \in 1..(m-1), key(s[j]) = key(s[m]) PROVE FALSE
        OBVIOUS
      <3> DEFINE l == Len(s)
      <3>1. m \in 1..l /\ l \in Nat
        BY <1>1, <2>3
      <3> HIDE DEF l
      <3>2. j \in 1..l /\ ~(m <= j)
        BY ONLY <3>1, j \in 1..(m-1)
      <3>3. QED
        BY <1>1, <2>3, <2>4, <3>2 DEF l
    <2>6. m \in P
      BY <2>3, <2>5 DEF P
    <2>7. QED
      BY <2>3, <2>6
  <1>7. ASSUME NEW x PROVE x \in {f.severity : f \in {g \in ToSet(t) : ~g.exempted}} => x \in Severities(s)
    <2>1. ASSUME NEW k \in DOMAIN t, ~t[k].exempted PROVE t[k].severity \in Severities(s)
      BY <1>3, <1>5, <2>1 DEF Severities
    <2>2. QED
      BY <2>1 DEF ToSet
  <1>8. ASSUME NEW i \in DOMAIN s, ~s[i].exempted
        PROVE  s[i].severity \in {f.severity : f \in {g \in ToSet(t) : ~g.exempted}}
    <2>1. PICK j \in P : key(s[j]) = key(s[i])
      BY <1>6
    <2>2. j \in DOMAIN s /\ s[j] \in F /\ s[i] \in F
      BY <1>1, <1>3
    <2>3. s[j].id = s[i].id /\ s[j].pkg = s[i].pkg /\ s[j].exempted = s[i].exempted
      BY <2>1
    <2>4. s[j].severity = s[i].severity /\ ~s[j].exempted
      BY <1>2, <1>8, <2>2, <2>3 DEF ToSet
    <2>5. PICK k \in DOMAIN t : t[k] = s[j]
      BY <1>5
    <2>6. t[k] \in ToSet(t) /\ ~t[k].exempted /\ t[k].severity = s[i].severity
      BY <2>4, <2>5 DEF ToSet
    <2>7. QED
      BY <2>6
  <1>9. QED
    BY <1>7, <1>8 DEF Severities, s, t

\* browseScanCounts counts a severity exactly if a finding that is not exempted has
\* it.
LEMMA SeveritiesCounted ==
  ASSUME NEW report \in Reports \ {None},
         NEW counts, counts = browseScanCounts(report.findings)
  PROVE  /\ Severities(report.findings) \subseteq Severity
         /\ Severities(report.findings)
              = IF counts = None THEN {} ELSE {s \in Severity : counts.live[s] > 0}
  <1> DEFINE s == report.findings
             F == [id : Nat, pkg : Nat, severity : Severity, exempted : BOOLEAN]
             at(x) == {i \in DOMAIN s : ~s[i].exempted /\ s[i].severity = x}
             out == {i \in DOMAIN s : s[i].exempted}
  <1>1. s \in Seq(F) /\ DOMAIN s = 1..Len(s) /\ Len(s) \in Nat
    <2>1. report \in Report
      BY BrowseConstants
    <2>2. s \in Seq(F)
      BY <2>1 DEF Report
    <2> HIDE DEF s
    <2>3. QED
      BY <2>2
  <1> HIDE DEF s
  <1>2. Severities(s) \subseteq Severity
    <2>1. \A i \in DOMAIN s : s[i] \in F
      <3> HIDE DEF F
      <3> QED
        BY <1>1
    <2>2. \A f \in F : f.severity \in Severity
      OBVIOUS
    <2> HIDE DEF F
    <2>3. QED
      BY <2>1, <2>2 DEF Severities
  <1>3. CASE s = <<>>
    <2>1. counts = None
      BY <1>3 DEF browseScanCounts, s
    <2>2. Severities(s) = {}
      BY <1>3 DEF Severities
    <2>3. QED
      BY <2>1, <2>2 DEF s
  <1>4. CASE s # <<>>
    <2>1. IsFiniteSet(DOMAIN s)
      BY <1>1, FS_Interval
    <2>2. \A x \in Severity : Cardinality(at(x)) \in Nat /\ (Cardinality(at(x)) > 0 <=> at(x) # {})
      <3> SUFFICES ASSUME NEW x \in Severity
                   PROVE  Cardinality(at(x)) \in Nat /\ (Cardinality(at(x)) > 0 <=> at(x) # {})
        OBVIOUS
      <3>1. at(x) \in SUBSET DOMAIN s
        OBVIOUS
      <3> HIDE DEF at
      <3>2. IsFiniteSet(at(x))
        BY <2>1, <3>1, FS_Subset
      <3>3. Cardinality(at(x)) \in Nat /\ (Cardinality(at(x)) = 0 <=> at(x) = {})
        BY <3>2, FS_CardinalityType, FS_EmptySet
      <3>4. QED
        BY <3>3
    <2>3. Cardinality(out) \in Nat
      <3>1. out \in SUBSET DOMAIN s
        OBVIOUS
      <3> HIDE DEF out
      <3>2. QED
        BY <2>1, <3>1, FS_Subset, FS_CardinalityType
    <2>4. counts = [live |-> [x \in Severity |-> Cardinality(at(x))], exempted |-> Cardinality(out)]
      BY <1>4 DEF browseScanCounts, Tally, s
    <2> HIDE DEF at, out
    <2>5. counts \in Tallies
      BY <2>2, <2>3, <2>4 DEF Tallies
    <2>6. counts # None
      BY <2>5, BrowseConstants
    <2>7. \A x \in Severity : counts.live[x] > 0 <=> at(x) # {}
      BY <2>2, <2>4
    <2>8. \A x \in Severity : at(x) # {} <=> x \in Severities(s)
      BY DEF Severities, at
    <2>9. QED
      BY <1>2, <2>6, <2>7, <2>8 DEF s
  <1>5. QED
    BY <1>2, <1>3, <1>4 DEF s

\* The severity filter lets a card pass if a severity it counts is as high.
LEMMA FilterBySeverity ==
  ASSUME NEW counts, NEW S \in SUBSET Severity,
         S = IF counts = None THEN {} ELSE {s \in Severity : counts.live[s] > 0},
         NEW wanted \in Severity
  PROVE  (\E t \in S : t <= wanted)
           <=> LET h == highestSeverity(counts)
               IN  h # NoSeverity /\ severityRank(h) <= severityRank(wanted)
  <1> DEFINE h == highestSeverity(counts)
             T == S \cup {NoSeverity}
  <1>1. \A s \in Severity : s \in Nat /\ s < 5 /\ severityRank(s) = s
    BY DEF Severity, severityRank, NoSeverity
  <1>2. CASE counts = None
    BY <1>2 DEF highestSeverity
  <1>3. CASE counts # None
    <2>1. h = Min(T)
      BY <1>3 DEF highestSeverity
    <2>2. T \in SUBSET Nat /\ T # {}
      BY <1>1 DEF NoSeverity
    <2> HIDE DEF T, h
    <2>3. h \in T /\ \A x \in T : h <= x
      BY <2>1, <2>2, MinExists
    <2>4. CASE S = {}
      BY <2>3, <2>4 DEF T, h
    <2>5. CASE S # {}
      <3>1. h \in S /\ h # NoSeverity
        BY <1>1, <2>3, <2>5 DEF T, NoSeverity
      <3>2. \A x \in S : h <= x /\ x \in Nat
        BY <1>1, <2>3 DEF T
      <3>3. severityRank(h) = h /\ severityRank(wanted) = wanted /\ h \in Nat /\ wanted \in Nat
        BY <1>1, <3>1
      <3>4. (\E t \in S : t <= wanted) <=> h <= wanted
        BY ONLY <3>1, <3>2, <3>3
      <3>5. QED
        BY <3>1, <3>3, <3>4 DEF h
    <2>6. QED
      BY <2>4, <2>5
  <1>4. QED
    BY <1>2, <1>3

\* What Collected builds from one resource.
Carded(caller, r) ==
    [Card(cluster, r, Everything.platforms) EXCEPT !.downloads = Downloads(cluster, r)]

\* The list has a card of every module that is shown, and cards of resources only.
LEMMA CollectedIs ==
  ASSUME BrowseInv, NEW caller
  PROVE  /\ \A i \in DOMAIN Collected(cluster, caller, Everything) :
               \E r \in ToSet(cluster.resources) :
                   Collected(cluster, caller, Everything)[i] = Carded(caller, r)
         /\ \A r \in ToSet(cluster.resources) :
               r.kind = "module" /\ Shown(cluster, caller, r)
                 => \E i \in DOMAIN Collected(cluster, caller, Everything) :
                       Collected(cluster, caller, Everything)[i] = Carded(caller, r)
  <1> DEFINE s == cluster.resources
             wanted(r) == Visible(IsPublic(cluster, r), FALSE, caller, r.kind, r.name)
             at(kind) == {i \in DOMAIN s : s[i].kind = kind /\ wanted(s[i])}
             ms == Entries(s, at("module"))
             ps == Entries(s, at("provider"))
             all == ms \o ps
             cards == Collected(cluster, caller, Everything)
  <1>1. s \in Seq(BrowseResource)
    BY DEF BrowseInv, BrowseTypeOK
  <1>2. at("module") \in SUBSET DOMAIN s /\ at("provider") \in SUBSET DOMAIN s
    OBVIOUS
  <1>3. /\ Everything.namespaces = {} /\ Everything.kinds = {"module", "provider"}
        /\ Everything.publicOnly = FALSE
    BY DEF Everything
  <1>4. cards = [i \in DOMAIN all |-> Carded(caller, all[i])]
    <2> DEFINE q == Everything
               want(r) == /\ r.kind \in q.kinds
                          /\ q.namespaces = {} \/ r.ns \in q.namespaces
                          /\ Visible(IsPublic(cluster, r), q.publicOnly, caller, r.kind, r.name)
               in(kind) == {i \in DOMAIN s : s[i].kind = kind /\ want(s[i])}
    <2>1. in("module") = at("module") /\ in("provider") = at("provider")
      BY <1>3
    <2>2. cards = LET both == Entries(s, in("module")) \o Entries(s, in("provider"))
                  IN  [i \in DOMAIN both |-> [Card(cluster, both[i], q.platforms)
                                                EXCEPT !.downloads = Downloads(cluster, both[i])]]
      BY DEF Collected
    <2> HIDE DEF in, at, q, s
    <2>3. QED
      BY <2>1, <2>2 DEF Carded, q
  <1>5. /\ ms \in Seq(BrowseResource) /\ ps \in Seq(BrowseResource)
        /\ \A k \in DOMAIN ms : ms[k] \in ToSet(s)
        /\ \A k \in DOMAIN ps : ps[k] \in ToSet(s)
        /\ \A i \in at("module") : \E k \in DOMAIN ms : ms[k] = s[i]
    <2> HIDE DEF at, s
    <2>1. \A P \in SUBSET DOMAIN s : /\ Entries(s, P) \in Seq(BrowseResource)
                                     /\ \A k \in DOMAIN Entries(s, P) : Entries(s, P)[k] \in ToSet(s)
                                     /\ \A i \in P : \E k \in DOMAIN Entries(s, P) : Entries(s, P)[k] = s[i]
      BY <1>1, EntriesAre DEF ToSet
    <2>2. QED
      BY <1>2, <2>1
  <1> HIDE DEF ms, ps, cards
  <1>6. /\ \A i \in DOMAIN all : all[i] \in ToSet(s)
        /\ \A k \in DOMAIN ms : k \in DOMAIN all /\ all[k] = ms[k]
    <2>1. /\ DOMAIN ms = 1..Len(ms) /\ DOMAIN ps = 1..Len(ps)
          /\ DOMAIN all = 1..(Len(ms) + Len(ps)) /\ Len(ms) \in Nat /\ Len(ps) \in Nat
          /\ \A k \in 1..Len(ms) : all[k] = ms[k]
          /\ \A k \in 1..(Len(ms) + Len(ps)) : k \notin 1..Len(ms) => all[k] = ps[k - Len(ms)]
      BY <1>5
    <2> DEFINE m == Len(ms)
               n == Len(ps)
    <2> HIDE DEF m, n, all
    <2>2. /\ DOMAIN ms = 1..m /\ DOMAIN ps = 1..n /\ DOMAIN all = 1..(m + n) /\ m \in Nat /\ n \in Nat
          /\ \A k \in 1..m : all[k] = ms[k]
          /\ \A k \in 1..(m + n) : k \notin 1..m => all[k] = ps[k - m]
      BY <2>1 DEF m, n
    <2>3. \A k \in 1..(m + n) : k \notin 1..m => k - m \in 1..n
      BY ONLY <2>2
    <2>4. \A k \in 1..m : k \in 1..(m + n)
      BY ONLY <2>2
    <2>5. QED
      BY <1>5, <2>2, <2>3, <2>4
  <1> HIDE DEF all
  <1>7. \A i \in DOMAIN cards : \E r \in ToSet(s) : cards[i] = Carded(caller, r)
    BY <1>4, <1>6
  <1>8. ASSUME NEW r \in ToSet(s), r.kind = "module", Shown(cluster, caller, r)
        PROVE  \E i \in DOMAIN cards : cards[i] = Carded(caller, r)
    <2>1. PICK i \in DOMAIN s : r = s[i]
      BY DEF ToSet
    <2>2. i \in at("module")
      BY <1>8, <2>1 DEF Shown
    <2>3. PICK k \in DOMAIN ms : ms[k] = r
      BY <1>5, <2>1, <2>2
    <2>4. k \in DOMAIN all /\ all[k] = r
      BY <1>6, <2>3
    <2>5. k \in DOMAIN cards /\ cards[k] = Carded(caller, r)
      BY <1>4, <2>4
    <2>6. QED
      BY <2>5
  <1>9. QED
    BY <1>7, <1>8 DEF cards

\* A card carries the id of its resource and the card of a module its counts.
LEMMA CardedIs ==
  ASSUME BrowseInv, NEW caller, NEW r \in ToSet(cluster.resources)
  PROVE  /\ Id(Carded(caller, r)) = Id(r)
         /\ Carded(caller, r).name = r.name /\ Carded(caller, r).synced = r.synced
         /\ r.kind = "module" => Carded(caller, r).counts = ModuleCard(cluster, r).counts
  <1>1. r \in BrowseResource
    BY DEF BrowseInv, BrowseTypeOK, ToSet
  <1>2. r.kind \in {"module", "provider"}
    BY <1>1 DEF BrowseResource
  <1>3. CASE r.kind = "module"
    <2>1. Card(cluster, r, Everything.platforms) = ModuleCard(cluster, r)
      BY <1>3 DEF Card
    <2> DEFINE card == ModuleCard(cluster, r)
               d == Downloads(cluster, r)
    <2>2. /\ card.kind = r.kind /\ card.ns = r.ns /\ card.name = r.name /\ card.synced = r.synced
          /\ "downloads" \in DOMAIN card /\ DOMAIN card = DOMAIN [card EXCEPT !.downloads = d]
      BY <1>3 DEF ModuleCard
    <2>3. Carded(caller, r) = [card EXCEPT !.downloads = d]
      BY <2>1 DEF Carded
    <2>5. {"kind", "ns", "name", "synced", "counts"} \subseteq DOMAIN card
      BY DEF ModuleCard
    <2> HIDE DEF card, d
    <2>4. /\ Carded(caller, r).kind = card.kind /\ Carded(caller, r).ns = card.ns
          /\ Carded(caller, r).name = card.name /\ Carded(caller, r).synced = card.synced
          /\ Carded(caller, r).counts = card.counts
      BY <2>3, <2>5
    <2>6. QED
      BY <2>2, <2>4 DEF Id, card
  <1>4. CASE r.kind = "provider"
    <2>1. Card(cluster, r, Everything.platforms) = ProviderCard(cluster, r, Everything.platforms)
      BY <1>4 DEF Card
    <2>2. QED
      BY <1>4, <2>1 DEF Carded, ProviderCard, Id
  <1>5. QED
    BY <1>2, <1>3, <1>4

\* A resource of the list is found by its name.
LEMMA FindsResource ==
  ASSUME BrowseInv, NEW r \in ToSet(cluster.resources)
  PROVE  /\ Find(cluster, r.kind, r.ns, r.name) = r /\ r # None
         /\ \A x \in ToSet(cluster.resources) : Id(x) = Id(r) => x = r
  <1> DEFINE s == cluster.resources
             P == {i \in DOMAIN s : /\ s[i].kind = r.kind /\ s[i].ns = r.ns
                                    /\ s[i].name = r.name}
  <1>1. s \in Seq(BrowseResource) /\ ResourcesApart(s) /\ DOMAIN s \subseteq Nat
    BY DEF BrowseInv, BrowseTypeOK
  <1>2. PICK i \in DOMAIN s : r = s[i]
    BY DEF ToSet
  <1>3. r # None
    BY <1>1, <1>2, BrowseConstants
  <1>4. \A j \in DOMAIN s : Id(s[j]) = Id(r) => j = i
    BY <1>1, <1>2 DEF ResourcesApart
  <1>5. P = {i}
    BY <1>2, <1>4 DEF Id
  <1>6. P \in SUBSET Nat /\ P # {}
    BY <1>1, <1>5
  <1>7. Min(P) = i
    BY <1>5, <1>6, MinExists
  <1>8. Find(cluster, r.kind, r.ns, r.name) = FirstAt(s, P)
    BY DEF Find
  <1>9. FirstAt(s, P) = s[i]
    BY <1>6, <1>7 DEF FirstAt
  <1>10. QED
    BY <1>2, <1>3, <1>4, <1>8, <1>9 DEF ToSet

\* The severities the findings page of a module lists.
Live(caller, r) ==
    LET page == ScanFindings(cluster, caller, "module", r.ns, r.name, <<>>, <<>>)
    IN  {f.severity : f \in {g \in ToSet(page.source) : ~g.exempted}}

\* The status of a module names the newest version, and that is scanned.
Told(r) ==
    LET versions == VersionsOf(cluster, "module", r.ns, r.name)
    IN  /\ r.kind = "module" /\ versions # <<>> /\ Newest(versions).source # None
        /\ r.latest.parts \in {<<>>, Newest(versions).version.parts}

\* Then its card counts these severities.
LEMMA BadgeCounts ==
  ASSUME BrowseInv, OneSeverity, NEW caller, NEW r \in ToSet(cluster.resources),
         Shown(cluster, caller, r), Told(r)
  PROVE  /\ Live(caller, r) \subseteq Severity
         /\ Live(caller, r) = IF ModuleCard(cluster, r).counts = None THEN {}
                              ELSE {s \in Severity : ModuleCard(cluster, r).counts.live[s] > 0}
  <1> DEFINE versions == VersionsOf(cluster, "module", r.ns, r.name)
             page == ScanFindings(cluster, caller, "module", r.ns, r.name, <<>>, <<>>)
             counts == ModuleCard(cluster, r).counts
             live == Live(caller, r)
  <1>0. /\ r.kind = "module" /\ versions # <<>> /\ Newest(versions).source # None
        /\ r.latest.parts \in {<<>>, Newest(versions).version.parts}
    BY DEF Told
  <1> HIDE DEF live
  <1> DEFINE newest == Newest(versions)
             report == newest.source
             latest == LatestParts(r.latest, versions)
             scan == FirstAt(versions, {i \in DOMAIN versions :
                        versions[i].version.parts = latest /\ versions[i].source # None})
  <1>1. versions \in Seq(BrowseVersion) /\ VersionsApart(versions)
    BY ModuleVersions
  <1> HIDE DEF versions
  <1>2. /\ newest \in BrowseVersion
        /\ SourceScan(versions, <<>>) = report
        /\ FirstAt(versions, {i \in DOMAIN versions : versions[i].version.parts = newest.version.parts
                                                      /\ versions[i].source # None}) = newest
    BY <1>0, <1>1, ScansAgree
  <1>3. report \in Reports \ {None} /\ newest # None
    BY <1>0, <1>2, BrowseConstants DEF BrowseVersion
  <1>4. latest = newest.version.parts
    BY <1>0, <1>3 DEF LatestParts
  <1>5. scan = newest
    BY <1>2, <1>4
  <1>6. counts = browseScanCounts(report.findings)
    <2>1. counts = IF scan = None THEN None ELSE browseScanCounts(scan.source.findings)
      BY DEF ModuleCard, versions
    <2> HIDE DEF scan, newest, counts
    <2>2. QED
      BY <1>3, <1>5, <2>1
  <1>7. page.source = deduplicateFindings(report.findings)
    <2>1. Reachable(cluster, caller, "module", r.ns, r.name)
      BY <1>0, FindsResource DEF Reachable
    <2>2. page.source = deduplicateFindings(Findings(SourceScan(versions, <<>>)))
      BY <2>1 DEF ScanFindings, versions
    <2> HIDE DEF page
    <2>3. QED
      BY <1>2, <1>3, <2>2 DEF Findings
  <1>8. live = Severities(report.findings)
    <2>1. live = {f.severity : f \in {g \in ToSet(page.source) : ~g.exempted}}
      BY DEF live, Live
    <2> HIDE DEF page, report
    <2>2. QED
      BY <1>3, <1>7, <2>1, SeveritiesKept
  <1> HIDE DEF report, counts
  <1>9. /\ live \subseteq Severity
        /\ live = IF counts = None THEN {} ELSE {s \in Severity : counts.live[s] > 0}
    BY <1>3, <1>6, <1>8, SeveritiesCounted
  <1>10. QED
    BY <1>9 DEF live, counts

LEMMA BadgeShows ==
  ASSUME BrowseInv, OneSeverity, NEW caller, NEW r \in ToSet(cluster.resources)
  PROVE  BadgeTells(caller, r)
  <1> DEFINE versions == VersionsOf(cluster, "module", r.ns, r.name)
             page == ScanFindings(cluster, caller, "module", r.ns, r.name, <<>>, <<>>)
             counts == ModuleCard(cluster, r).counts
             live == {f.severity : f \in {g \in ToSet(page.source) : ~g.exempted}}
             cards == Collected(cluster, caller, Everything)
  <1> SUFFICES ASSUME r.kind = "module", Shown(cluster, caller, r),
                      versions # <<>>, Newest(versions).source # None,
                      r.latest.parts \in {<<>>, Newest(versions).version.parts}
               PROVE  /\ live = IF counts = None THEN {} ELSE {s \in Severity : counts.live[s] > 0}
                      /\ \A s \in Severity :
                            (\E t \in live : t <= s)
                            <=> (\E i \in DOMAIN cards :
                                    Id(cards[i]) = Id(r) /\ Passes(cards[i], [Everything EXCEPT !.severity = s]))
    BY DEF BadgeTells
  <1> HIDE DEF versions, page, counts, live, cards
  <1>1. /\ live \subseteq Severity
        /\ live = IF counts = None THEN {} ELSE {s \in Severity : counts.live[s] > 0}
    <2>1. live = Live(caller, r)
      BY DEF live, page, Live
    <2>2. Told(r)
      BY DEF Told, versions
    <2>3. QED
      BY <2>1, <2>2, BadgeCounts DEF counts
  <1>2. /\ \A i \in DOMAIN cards : \E x \in ToSet(cluster.resources) : cards[i] = Carded(caller, x)
        /\ \E i \in DOMAIN cards : cards[i] = Carded(caller, r)
    BY CollectedIs DEF cards
  <1>3. /\ Id(Carded(caller, r)) = Id(r) /\ Carded(caller, r).name = r.name
        /\ Carded(caller, r).counts = counts
    BY CardedIs DEF counts
  <1>4. ASSUME NEW s \in Severity
        PROVE  Passes(Carded(caller, r), [Everything EXCEPT !.severity = s]) <=> \E t \in live : t <= s
    <2> DEFINE q == [Everything EXCEPT !.severity = s]
               h == highestSeverity(counts)
    <2>1. q.search = Everything.search /\ q.synced = "any" /\ q.severity = s /\ s # None
      BY BrowseConstants DEF Everything
    <2>2. Carded(caller, r).name \in q.search
      BY <1>3, <2>1 DEF Everything
    <2>3. Passes(Carded(caller, r), q) <=> h # NoSeverity /\ severityRank(h) <= severityRank(s)
      <3> HIDE DEF q
      <3> QED
        BY <1>3, <2>1, <2>2 DEF Passes
    <2>4. (\E t \in live : t <= s) <=> h # NoSeverity /\ severityRank(h) <= severityRank(s)
      BY <1>1, FilterBySeverity
    <2>5. QED
      BY <2>3, <2>4
  <1>5. \A i \in DOMAIN cards : Id(cards[i]) = Id(r) => cards[i] = Carded(caller, r)
    <2> SUFFICES ASSUME NEW i \in DOMAIN cards, Id(cards[i]) = Id(r)
                 PROVE  cards[i] = Carded(caller, r)
      OBVIOUS
    <2>1. PICK x \in ToSet(cluster.resources) : cards[i] = Carded(caller, x)
      BY <1>2
    <2>2. Id(x) = Id(r)
      BY <2>1, CardedIs
    <2>3. x = r
      BY <2>2, FindsResource
    <2>4. QED
      BY <2>1, <2>3
  <1>6. \A s \in Severity :
           (\E t \in live : t <= s)
           <=> (\E i \in DOMAIN cards :
                   Id(cards[i]) = Id(r) /\ Passes(cards[i], [Everything EXCEPT !.severity = s]))
    BY <1>2, <1>3, <1>4, <1>5
  <1>7. QED
    BY <1>1, <1>6

-----------------------------------------------------------------------------
\* The theorems

\* The inductive invariant of the pages holds in every reachable state.
THEOREM BrowseInvariance == BrowseSpec => []BrowseInv
  <1>1. BrowseInit => BrowseInv
    BY BrowseConstants DEF BrowseInit, BrowseInv, BrowseTypeOK, LabelsSeen, LabelsRespected, NoRequest
  <1>2. ASSUME BrowseInv, [BrowseNext]_browseVars PROVE BrowseInv'
    <2>1. CASE UNCHANGED browseVars
      BY <1>2, <2>1 DEF browseVars, BrowseInv, BrowseTypeOK, LabelsSeen, LabelsRespected, Labelled
    <2>2. CASE BrowseNext
      BY <1>2, <2>2, Requesting, Labelling, Scanning, Adding DEF BrowseNext
    <2>3. QED
      BY <1>2, <2>1, <2>2
  <1>3. QED
    BY <1>1, <1>2, PTL DEF BrowseSpec

\* For every cluster and every edit while a request reads it: a caller whom no
\* binding helps is shown only what carried the label during the request, in a
\* namespace that did.
THEOREM LabelsAreRespected == BrowseSpec => []LabelsRespected
  <1>1. BrowseInv => LabelsRespected
    BY DEF BrowseInv
  <1>2. QED
    BY BrowseInvariance, <1>1, PTL

\* An assembly is built from the documents of the pages: for every cluster, caller
\* and pair of nodes, although the export skips Versions that are not synced and
\* the contract page does not.
THEOREM AssembliesAgree == BrowseSpec => []AssemblyAgrees
  <1>1. BrowseInv => AssemblyAgrees
    BY AssemblyShows
  <1>2. QED
    BY BrowseInvariance, <1>1, PTL

\* For every cluster and whatever is scanned or added meanwhile, to every caller
\* the badge of a module, its findings page and the severity filter of the list
\* tell the same, although each finds its scan in a way of its own and only the
\* page drops repeated findings.  It takes that a rule has one severity: the key
\* of deduplicateFindings leaves the severity out.
THEOREM BadgesAgree ==
  ASSUME OneSeverity
  PROVE  BrowseSpec => []BadgeAgrees
  <1>1. BrowseInv => BadgeAgrees
    BY BadgeShows DEF BadgeAgrees
  <1>2. QED
    BY BrowseInvariance, <1>1, PTL
=============================================================================
