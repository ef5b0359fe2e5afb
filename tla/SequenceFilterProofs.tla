------------------------ MODULE SequenceFilterProofs ------------------------
(* Facts about Filter: what it holds, its type, and how it goes with       *)
(* Append and \o.                                                          *)
EXTENDS SequenceFilter, Integers, SequenceTheorems, FiniteSetTheorems,
        FunctionTheorems, WellFoundedInduction, TLAPS

-----------------------------------------------------------------------------
(* Places and their ranks.                                                 *)

Rank(P, i) == Cardinality({j \in P : j <= i})

LEMMA RankType ==
  ASSUME NEW P \in SUBSET Nat, IsFiniteSet(P), NEW i \in P
  PROVE  /\ Rank(P, i) \in 1 .. Cardinality(P)
         /\ IsFiniteSet({j \in P : j <= i})
<1> DEFINE L == {j \in P : j <= i}
<1>1. IsFiniteSet(L) /\ Cardinality(L) <= Cardinality(P)
  BY FS_Subset
<1>2. i \in L
  OBVIOUS
<1> HIDE DEF L
<1>3. Cardinality(L) \in Nat /\ Cardinality(P) \in Nat /\ Cardinality(L) # 0
  BY <1>1, <1>2, FS_CardinalityType, FS_EmptySet
<1>4. Rank(P, i) = Cardinality(L)
  BY DEF Rank, L
<1>5. QED BY <1>1, <1>3, <1>4 DEF L

LEMMA RankGrows ==
  ASSUME NEW P \in SUBSET Nat, IsFiniteSet(P), NEW i \in P, NEW j \in P, i < j
  PROVE  Rank(P, i) < Rank(P, j)
<1> DEFINE L == {k \in P : k <= i}
           M == {k \in P : k <= j}
<1>1. L \subseteq P /\ M \subseteq P /\ j \in M /\ j \notin L
  OBVIOUS
<1>2. L \subseteq M
  <2>1. \A a, b, c \in Nat : a <= b /\ b < c => a <= c
    OBVIOUS
  <2>2. QED BY <2>1
<1> HIDE DEF L, M
<1>3. IsFiniteSet(L) /\ IsFiniteSet(M)
  BY <1>1, FS_Subset
<1>4. Cardinality(L) <= Cardinality(M) /\ Cardinality(L) # Cardinality(M)
  BY <1>1, <1>3, <1>2, FS_Subset
<1>5. Cardinality(L) \in Nat /\ Cardinality(M) \in Nat
  BY <1>3, FS_CardinalityType
<1>6. QED BY <1>4, <1>5 DEF Rank, L, M

\* Every rank is taken, by one place.
LEMMA NthIs ==
  ASSUME NEW P \in SUBSET Nat, IsFiniteSet(P), NEW k \in 1 .. Cardinality(P)
  PROVE  Nth(P, k) \in P /\ Rank(P, Nth(P, k)) = k
<1> DEFINE n == Cardinality(P)
           f == [i \in P |-> Rank(P, i)]
<1>1. n \in Nat /\ IsFiniteSet(1 .. n) /\ Cardinality(1 .. n) = n
  BY FS_CardinalityType, FS_Interval
<1>2. f \in [P -> 1 .. n]
  BY RankType
<1>3. \A i, j \in P : f[i] = f[j] => i = j
  <2>1. SUFFICES ASSUME NEW i \in P, NEW j \in P, Rank(P, i) = Rank(P, j), i < j
                 PROVE  FALSE
    OBVIOUS
  <2>2. Rank(P, i) < Rank(P, j) /\ Rank(P, i) \in 1 .. n /\ Rank(P, j) \in 1 .. n
    BY <2>1, RankGrows, RankType
  <2>3. QED BY <1>1, <2>1, <2>2
<1>4. f \in Injection(P, 1 .. n)
  BY <1>2, <1>3 DEF Injection, IsInjective
<1>5. f \in Surjection(P, 1 .. n)
  BY <1>1, <1>4, FS_Injection
<1>6. \E i \in P : f[i] = k
  BY <1>5 DEF Surjection
<1>7. \E i \in P : Cardinality({j \in P : j <= i}) = k
  BY <1>6 DEF Rank
<1>8. QED BY <1>7 DEF Nth, Rank

LEMMA NthUnique ==
  ASSUME NEW P \in SUBSET Nat, IsFiniteSet(P), NEW i \in P
  PROVE  Nth(P, Rank(P, i)) = i
<1> DEFINE j == Nth(P, Rank(P, i))
<1>1. Rank(P, i) \in 1 .. Cardinality(P)
  BY RankType
<1>2. j \in P /\ Rank(P, j) = Rank(P, i)
  BY <1>1, NthIs
<1> HIDE DEF j
<1>3. Rank(P, i) \in Nat
  BY <1>1
<1>4. ASSUME i < j PROVE FALSE
  BY <1>2, <1>3, <1>4, RankGrows
<1>6. ASSUME j < i PROVE FALSE
  BY <1>2, <1>3, <1>6, RankGrows
<1>7. i \in Nat /\ j \in Nat
  BY <1>2
<1>8. i = j
  BY <1>4, <1>6, <1>7
<1>9. QED BY <1>8 DEF j

LEMMA PlacesFinite ==
  ASSUME NEW T, NEW q \in Seq(T), NEW S
  PROVE  /\ Places(q, S) \in SUBSET Nat /\ IsFiniteSet(Places(q, S))
         /\ Places(q, S) \subseteq 1 .. Len(q)
         /\ Cardinality(Places(q, S)) \in Nat
<1>1. DOMAIN q = 1 .. Len(q) /\ Len(q) \in Nat
  BY LenProperties
<1>2. IsFiniteSet(1 .. Len(q)) /\ Places(q, S) \subseteq 1 .. Len(q)
  BY <1>1, FS_Interval DEF Places
<1>3. QED BY <1>1, <1>2, FS_Subset, FS_CardinalityType

-----------------------------------------------------------------------------
(* What a filtered sequence holds.                                         *)

LEMMA FilterType ==
  ASSUME NEW T, NEW q \in Seq(T), NEW S
  PROVE  /\ Filter(q, S) \in Seq(T \cap S)
         /\ Len(Filter(q, S)) = Cardinality(Places(q, S))
<1> DEFINE P == Places(q, S)
           n == Cardinality(P)
<1>1. P \in SUBSET Nat /\ IsFiniteSet(P) /\ P \subseteq 1 .. Len(q) /\ n \in Nat
  BY PlacesFinite
<1>2. \A i \in P : q[i] \in T \cap S
  BY <1>1, ElementOfSeq DEF Places
<1> HIDE DEF P
<1>3. \A k \in 1 .. n : Nth(P, k) \in P
  BY <1>1, NthIs
<1>4. Filter(q, S) = [k \in 1 .. n |-> q[Nth(P, k)]]
  BY DEF Filter, P
<1>5. Filter(q, S) \in [1 .. n -> T \cap S]
  BY <1>2, <1>3, <1>4
<1>6. Filter(q, S) \in Seq(T \cap S) /\ Len(Filter(q, S)) = n
  BY <1>1, <1>4, <1>5
<1>7. QED BY <1>6 DEF P

LEMMA FilterNth ==
  ASSUME NEW T, NEW q \in Seq(T), NEW S, NEW k \in 1 .. Len(Filter(q, S))
  PROVE  /\ Nth(Places(q, S), k) \in Places(q, S)
         /\ Filter(q, S)[k] = q[Nth(Places(q, S), k)]
<1> DEFINE P == Places(q, S)
<1>1. P \in SUBSET Nat /\ IsFiniteSet(P)
  BY PlacesFinite
<1>2. Len(Filter(q, S)) = Cardinality(P)
  BY FilterType
<1> HIDE DEF P
<1>3. k \in 1 .. Cardinality(P)
  BY <1>2
<1>4. Filter(q, S)[k] = q[Nth(P, k)]
  BY <1>3 DEF Filter, P
<1>5. QED BY <1>1, <1>3, <1>4, NthIs DEF P

LEMMA FilterHolds ==
  ASSUME NEW T, NEW q \in Seq(T), NEW S, NEW x
  PROVE  (\E k \in 1 .. Len(Filter(q, S)) : Filter(q, S)[k] = x)
           <=> x \in S /\ \E i \in 1 .. Len(q) : q[i] = x
<1> DEFINE P == Places(q, S)
<1>1. P \in SUBSET Nat /\ IsFiniteSet(P) /\ P \subseteq 1 .. Len(q)
  BY PlacesFinite
<1>2. ASSUME NEW k \in 1 .. Len(Filter(q, S))
      PROVE  Nth(P, k) \in 1 .. Len(q) /\ Filter(q, S)[k] = q[Nth(P, k)] /\ q[Nth(P, k)] \in S
  <2>1. Nth(P, k) \in P /\ Filter(q, S)[k] = q[Nth(P, k)]
    BY FilterNth
  <2>3. QED BY <1>1, <2>1 DEF Places
<1>3. ASSUME NEW i \in 1 .. Len(q), q[i] \in S
      PROVE  \E k \in 1 .. Len(Filter(q, S)) : Filter(q, S)[k] = q[i]
  <2>1. i \in P
    BY <1>3, LenProperties DEF Places
  <2>2. /\ Len(Filter(q, S)) = Cardinality(P)
        /\ \A k \in 1 .. Len(Filter(q, S)) : Filter(q, S)[k] = q[Nth(P, k)]
    BY FilterType, FilterNth
  <2> HIDE DEF P
  <2>3. Rank(P, i) \in 1 .. Cardinality(P) /\ Nth(P, Rank(P, i)) = i
    BY <1>1, <2>1, RankType, NthUnique
  <2>4. QED BY <2>3, <2>2
<1>4. QED BY <1>2, <1>3

LEMMA FilterEmpty ==
  ASSUME NEW S
  PROVE  Filter(<<>>, S) = <<>>
<1>1. <<>> \in Seq({}) /\ Places(<<>>, S) = {}
  BY DEF Places
<1>2. Len(Filter(<<>>, S)) = 0 /\ Filter(<<>>, S) \in Seq({} \cap S)
  BY <1>1, FilterType, FS_EmptySet
<1>3. QED BY <1>2, EmptySeq

\* Filtering goes element by element.
LEMMA FilterAppend ==
  ASSUME NEW T, NEW q \in Seq(T), NEW e \in T, NEW S
  PROVE  Filter(Append(q, e), S) =
           IF e \in S THEN Append(Filter(q, S), e) ELSE Filter(q, S)
<1> DEFINE r == Append(q, e)
           m == Len(q) + 1
           P == Places(q, S)
           R == Places(r, S)
<1>1. /\ r \in Seq(T) /\ Len(r) = m /\ Len(q) \in Nat /\ r[m] = e
      /\ \A i \in 1 .. Len(q) : r[i] = q[i]
      /\ DOMAIN q = 1 .. Len(q) /\ DOMAIN r = 1 .. m
  OBVIOUS
<1>2. R = IF e \in S THEN P \cup {m} ELSE P
  BY <1>1 DEF Places
<1>3. /\ P \in SUBSET Nat /\ IsFiniteSet(P) /\ P \subseteq 1 .. Len(q)
      /\ Cardinality(P) \in Nat
      /\ R \in SUBSET Nat /\ IsFiniteSet(R)
  BY <1>1, PlacesFinite
<1>4. /\ Filter(q, S) \in Seq(T) /\ Len(Filter(q, S)) = Cardinality(P)
      /\ \A k \in 1 .. Cardinality(P) :
           Nth(P, k) \in P /\ Filter(q, S)[k] = q[Nth(P, k)]
  <2>1. Filter(q, S) \in Seq(T \cap S)
    BY FilterType
  <2>2. Filter(q, S) \in Seq(T)
    BY <2>1, SeqMonotonic
  <2>3. /\ Len(Filter(q, S)) = Cardinality(P)
        /\ \A k \in 1 .. Len(Filter(q, S)) :
             Nth(P, k) \in P /\ Filter(q, S)[k] = q[Nth(P, k)]
    BY FilterType, FilterNth
  <2>4. QED BY <2>2, <2>3
<1>5. /\ Filter(r, S) \in Seq(T) /\ Len(Filter(r, S)) = Cardinality(R)
      /\ \A k \in 1 .. Cardinality(R) :
           Nth(R, k) \in R /\ Filter(r, S)[k] = r[Nth(R, k)]
  <2>1. Filter(r, S) \in Seq(T \cap S)
    BY <1>1, FilterType
  <2>2. Filter(r, S) \in Seq(T)
    BY <2>1, SeqMonotonic
  <2>3. /\ Len(Filter(r, S)) = Cardinality(R)
        /\ \A k \in 1 .. Len(Filter(r, S)) :
             Nth(R, k) \in R /\ Filter(r, S)[k] = r[Nth(R, k)]
    BY <1>1, FilterType, FilterNth
  <2>4. QED BY <2>2, <2>3
<1> HIDE DEF r, m, P, R
<1>6. \A i \in P : Rank(R, i) = Rank(P, i)
  <2>1. TAKE i \in P
  <2>2. {j \in R : j <= i} = {j \in P : j <= i}
    BY <1>1, <1>2, <1>3 DEF m
  <2>3. QED BY <2>2 DEF Rank
<1>7. \A k \in 1 .. Cardinality(P) : Nth(P, k) \in R /\ Nth(R, k) = Nth(P, k)
  <2>1. TAKE k \in 1 .. Cardinality(P)
  <2>2. Nth(P, k) \in P /\ Rank(P, Nth(P, k)) = k
    BY <1>3, NthIs
  <2>3. Nth(P, k) \in R /\ Rank(R, Nth(P, k)) = k
    BY <1>2, <1>6, <2>2
  <2>4. Nth(R, Rank(R, Nth(P, k))) = Nth(P, k)
    BY <1>3, <2>3, NthUnique
  <2>5. QED BY <2>3, <2>4
<1>8. CASE e \notin S
  <2>1. R = P
    BY <1>2, <1>8
  <2>2. ASSUME NEW k \in 1 .. Cardinality(P)
        PROVE  Filter(r, S)[k] = Filter(q, S)[k]
    <3>1. Nth(P, k) \in 1 .. Len(q)
      BY <1>3, <1>4
    <3>2. QED BY <1>1, <1>4, <1>5, <2>1, <3>1
  <2>3. Filter(r, S) = Filter(q, S)
    BY <1>4, <1>5, <2>1, <2>2, SeqEqual
  <2>4. QED BY <1>8, <2>3 DEF r
<1>9. CASE e \in S
  <2> DEFINE a == Append(Filter(q, S), e)
  <2>1. m \notin P /\ R = P \cup {m}
    BY <1>2, <1>3, <1>9 DEF m
  <2>2. Cardinality(R) = Cardinality(P) + 1
    BY <1>3, <2>1, FS_AddElement
  <2>3. a \in Seq(T) /\ Len(a) = Cardinality(R)
    BY <1>3, <1>4, <2>2
  <2>4. ASSUME NEW k \in 1 .. Cardinality(R)
        PROVE  Filter(r, S)[k] = a[k]
    <3>1. CASE k \in 1 .. Cardinality(P)
      <4>1. Nth(P, k) \in 1 .. Len(q)
        BY <1>3, <1>4, <3>1
      <4>2. Filter(r, S)[k] = r[Nth(P, k)]
        BY <1>5, <1>7, <3>1
      <4>3. Filter(r, S)[k] = Filter(q, S)[k]
        BY <1>1, <1>4, <3>1, <4>1, <4>2
      <4>4. a[k] = Filter(q, S)[k]
        BY <1>3, <1>4, <3>1
      <4>5. QED BY <4>3, <4>4
    <3>2. CASE k = Cardinality(P) + 1
      <4>1. \A i \in R : i <= m
        BY <1>3, <2>1 DEF m
      <4>2. {j \in R : j <= m} = R
        BY <4>1
      <4>3. Rank(R, m) = Cardinality(R) /\ m \in R
        BY <2>1, <4>2 DEF Rank
      <4>4. Nth(R, k) = m
        BY <1>3, <2>2, <3>2, <4>3, NthUnique
      <4>5. Filter(r, S)[k] = e
        BY <1>1, <1>5, <4>4
      <4>6. a[k] = e
        BY <1>3, <1>4, <3>2
      <4>7. QED BY <4>5, <4>6
    <3>3. \A c, d \in Nat : d = c + 1 => \A l \in 1 .. d : l \in 1 .. c \/ l = c + 1
      OBVIOUS
    <3>4. Cardinality(P) \in Nat /\ Cardinality(R) \in Nat
      BY <1>3, FS_CardinalityType
    <3>5. QED BY <2>2, <3>1, <3>2, <3>3, <3>4
  <2> HIDE DEF a
  <2>5. Filter(r, S) = a
    BY <1>5, <2>3, <2>4, SeqEqual
  <2>6. QED BY <1>9, <2>5 DEF r, a
<1>10. QED BY <1>8, <1>9

-----------------------------------------------------------------------------
(* Induction over sequences: a set of them that holds the empty one, and   *)
(* with each the longer ones, holds them all.                              *)

LEMMA NatSetInduction ==
  ASSUME NEW S \in SUBSET Nat, 0 \in S, \A n \in S : n + 1 \in S
  PROVE  S = Nat
<1> DEFINE R == OpToRel(<, Nat)
<1>1. SUFFICES ASSUME Nat \ S # {} PROVE FALSE
  OBVIOUS
<1>2. \E m \in Nat \ S : \A n \in Nat \ S : ~(<<n, m>> \in R)
  <2>1. IsWellFoundedOn(R, Nat)
    BY NatLessThanWellFounded
  <2>2. Nat \ S \subseteq Nat
    OBVIOUS
  <2> HIDE DEF R
  <2>3. QED BY <1>1, <2>1, <2>2, WFMin
<1>3. \A n, m \in Nat : n < m => <<n, m>> \in R
  BY DEF OpToRel
<1> HIDE DEF R
<1>4. PICK m \in Nat \ S : \A n \in Nat \ S : ~(n < m)
  BY <1>2, <1>3
<1>5. m # 0 /\ m - 1 \in Nat /\ m - 1 < m
  BY <1>4
<1>6. m - 1 \in S
  BY <1>4, <1>5
<1>7. QED BY <1>4, <1>5, <1>6

LEMMA SeqSetInduction ==
  ASSUME NEW T, NEW G \in SUBSET Seq(T), <<>> \in G,
         \A q \in G : \A e \in T : Append(q, e) \in G
  PROVE  G = Seq(T)
<1> DEFINE N == {n \in Nat : \A q \in Seq(T) : Len(q) = n => q \in G}
<1>1. 0 \in N
  BY EmptySeq
<1>2. ASSUME NEW n \in N
      PROVE  n + 1 \in N
  <2>1. SUFFICES ASSUME NEW q \in Seq(T), Len(q) = n + 1
                 PROVE  q \in G
    OBVIOUS
  <2>2. q # <<>>
    BY <2>1
  <2>3. PICK f \in Seq(T), e \in T : q = Append(f, e)
    BY <2>2, SequenceEmptyOrAppend
  <2>4. Len(f) = n
    BY <2>1, <2>3
  <2>5. QED BY <2>3, <2>4
<1>3. N = Nat
  <2> HIDE DEF N
  <2>1. \A n \in N : n + 1 \in N
    BY <1>2
  <2>2. N \in SUBSET Nat
    BY DEF N
  <2>3. QED BY <1>1, <2>1, <2>2, NatSetInduction
<1>4. QED BY <1>3, LenProperties

-----------------------------------------------------------------------------
(* Filtering what was put together, and what was filtered.                 *)

LEMMA FilterSame ==
  ASSUME NEW T, NEW q \in Seq(T), NEW R, NEW S,
         \A i \in 1 .. Len(q) : q[i] \in R <=> q[i] \in S
  PROVE  Filter(q, R) = Filter(q, S)
<1>1. Places(q, R) = Places(q, S)
  BY LenProperties DEF Places
<1>2. QED BY <1>1 DEF Filter

LEMMA FilterNone ==
  ASSUME NEW T, NEW q \in Seq(T), NEW S, \A i \in 1 .. Len(q) : q[i] \notin S
  PROVE  Filter(q, S) = <<>>
<1>1. Places(q, S) = {}
  BY LenProperties DEF Places
<1>2. Len(Filter(q, S)) = 0 /\ Filter(q, S) \in Seq(T \cap S)
  BY <1>1, FilterType, FS_EmptySet
<1>3. QED BY <1>2, EmptySeq

LEMMA FilterAll ==
  ASSUME NEW S, NEW q \in Seq(S)
  PROVE  Filter(q, S) = q
<1> DEFINE P == Places(q, S)
<1>1. P = 1 .. Len(q) /\ Len(q) \in Nat
  BY LenProperties, ElementOfSeq DEF Places
<1>2. P \in SUBSET Nat /\ IsFiniteSet(P) /\ Cardinality(P) = Len(q)
  BY <1>1, FS_Interval
<1>3. Len(Filter(q, S)) = Len(q) /\ Filter(q, S) \in Seq(S \cap S)
  BY <1>2, FilterType
<1>4. ASSUME NEW k \in 1 .. Len(q)
      PROVE  Filter(q, S)[k] = q[k]
  <2>1. {j \in P : j <= k} = 1 .. k
    BY <1>1
  <2>2. Rank(P, k) = k
    <3>1. Cardinality(1 .. k) = k
      BY FS_Interval
    <3>2. QED BY <2>1, <3>1 DEF Rank
  <2>3. Nth(P, k) = k
    <3> HIDE DEF P
    <3>1. k \in P
      BY <1>1
    <3>2. Nth(P, Rank(P, k)) = k
      BY <1>2, <3>1, NthUnique
    <3>3. QED BY <2>2, <3>2
  <2>4. QED BY <1>3, <2>3, FilterNth
<1>5. QED BY <1>3, <1>4, SeqEqual

LEMMA FilterConcat ==
  ASSUME NEW T, NEW q \in Seq(T), NEW r \in Seq(T), NEW S
  PROVE  Filter(q \o r, S) = Filter(q, S) \o Filter(r, S)
<1> DEFINE G == {s \in Seq(T) : Filter(q \o s, S) = Filter(q, S) \o Filter(s, S)}
<1>1. Filter(q, S) \in Seq(T \cap S)
  BY FilterType
<1>2. <<>> \in G
  <2>1. q \o <<>> = q /\ Filter(q, S) \o <<>> = Filter(q, S)
    BY <1>1, ConcatEmptySeq
  <2>2. QED BY <2>1, FilterEmpty, EmptySeq
<1>3. ASSUME NEW s \in G, NEW e \in T
      PROVE  Append(s, e) \in G
  <2>1. /\ Append(s, e) \in Seq(T) /\ q \o s \in Seq(T)
        /\ q \o Append(s, e) = Append(q \o s, e)
    OBVIOUS
  <2>2. Filter(Append(s, e), S) = IF e \in S THEN Append(Filter(s, S), e) ELSE Filter(s, S)
    BY FilterAppend
  <2>3. Filter(q \o Append(s, e), S) =
          IF e \in S THEN Append(Filter(q \o s, S), e) ELSE Filter(q \o s, S)
    <3> DEFINE u == q \o s
    <3>1. u \in Seq(T)
      BY <2>1
    <3> HIDE DEF u
    <3>2. Filter(Append(u, e), S) = IF e \in S THEN Append(Filter(u, S), e) ELSE Filter(u, S)
      BY <3>1, FilterAppend
    <3>3. QED BY <2>1, <3>2 DEF u
  <2>4. Filter(s, S) \in Seq(T \cap S)
    BY FilterType
  <2>5. CASE e \in S
    <3> DEFINE a == Filter(q, S)
               b == Filter(s, S)
    <3>1. e \in T \cap S
      BY <2>5
    <3> HIDE DEF a, b
    <3>2. a \o Append(b, e) = Append(a \o b, e)
      BY <1>1, <2>4, <3>1 DEF a, b
    <3>3. QED BY <2>1, <2>2, <2>3, <2>5, <3>2 DEF a, b
  <2>6. CASE e \notin S
    BY <2>1, <2>2, <2>3, <2>6
  <2>7. QED BY <2>5, <2>6
<1>4. G = Seq(T)
  <2> HIDE DEF G
  <2>1. G \in SUBSET Seq(T)
    BY DEF G
  <2>2. \A s \in G : \A e \in T : Append(s, e) \in G
    BY <1>3
  <2>3. QED BY <1>2, <2>1, <2>2, SeqSetInduction
<1>5. QED BY <1>4

LEMMA FilterFilter ==
  ASSUME NEW T, NEW q \in Seq(T), NEW R, NEW S
  PROVE  Filter(Filter(q, R), S) = Filter(q, R \cap S)
<1> DEFINE G == {s \in Seq(T) : Filter(Filter(s, R), S) = Filter(s, R \cap S)}
<1>1. <<>> \in G
  BY FilterEmpty, EmptySeq
<1>2. ASSUME NEW s \in G, NEW e \in T
      PROVE  Append(s, e) \in G
  <2>1. Append(s, e) \in Seq(T)
    OBVIOUS
  <2>2. Filter(Append(s, e), R) = IF e \in R THEN Append(Filter(s, R), e) ELSE Filter(s, R)
    BY FilterAppend
  <2>3. Filter(Append(s, e), R \cap S) =
          IF e \in R \cap S THEN Append(Filter(s, R \cap S), e) ELSE Filter(s, R \cap S)
    BY FilterAppend
  <2>4. Filter(s, R) \in Seq(T)
    <3>1. Filter(s, R) \in Seq(T \cap R)
      BY FilterType
    <3>2. QED BY <3>1, SeqMonotonic
  <2>5. Filter(Append(Filter(s, R), e), S) =
          IF e \in S THEN Append(Filter(Filter(s, R), S), e) ELSE Filter(Filter(s, R), S)
    BY <2>4, FilterAppend
  <2>6. Filter(Filter(Append(s, e), R), S) = Filter(Append(s, e), R \cap S)
    <3>1. Filter(Filter(s, R), S) = Filter(s, R \cap S)
      OBVIOUS
    <3>2. CASE e \in R /\ e \in S
      <4>1. e \in R \cap S
        BY <3>2
      <4>2. /\ Filter(Append(s, e), R) = Append(Filter(s, R), e)
            /\ Filter(Append(s, e), R \cap S) = Append(Filter(s, R \cap S), e)
            /\ Filter(Append(Filter(s, R), e), S) = Append(Filter(Filter(s, R), S), e)
        BY <2>2, <2>3, <2>5, <3>2, <4>1
      <4>3. QED BY <3>1, <4>2
    <3>3. CASE e \in R /\ e \notin S
      <4>1. e \notin R \cap S
        BY <3>3
      <4>2. /\ Filter(Append(s, e), R) = Append(Filter(s, R), e)
            /\ Filter(Append(s, e), R \cap S) = Filter(s, R \cap S)
            /\ Filter(Append(Filter(s, R), e), S) = Filter(Filter(s, R), S)
        BY <2>2, <2>3, <2>5, <3>3, <4>1
      <4>3. QED BY <3>1, <4>2
    <3>4. CASE e \notin R
      <4>1. e \notin R \cap S
        BY <3>4
      <4>2. /\ Filter(Append(s, e), R) = Filter(s, R)
            /\ Filter(Append(s, e), R \cap S) = Filter(s, R \cap S)
        BY <2>2, <2>3, <3>4, <4>1
      <4>3. QED BY <3>1, <4>2
    <3>5. QED BY <3>2, <3>3, <3>4
  <2>7. QED BY <2>1, <2>6
<1>3. G = Seq(T)
  <2> HIDE DEF G
  <2>1. G \in SUBSET Seq(T)
    BY DEF G
  <2>2. \A s \in G : \A e \in T : Append(s, e) \in G
    BY <1>2
  <2>3. QED BY <1>1, <2>1, <2>2, SeqSetInduction
<1>4. QED BY <1>3

LEMMA FilterSingle ==
  ASSUME NEW e, NEW S
  PROVE  Filter(<<e>>, S) = IF e \in S THEN <<e>> ELSE <<>>
<1> DEFINE T == {e}
           z == <<>>
<1>1. z \in Seq(T) /\ e \in T /\ Append(z, e) = <<e>>
  OBVIOUS
<1> HIDE DEF T, z
<1>2. Filter(Append(z, e), S) = IF e \in S THEN Append(Filter(z, S), e) ELSE Filter(z, S)
  BY <1>1, FilterAppend
<1>3. QED BY <1>1, <1>2, FilterEmpty DEF z

\* A filtered queue whose head is taken off.
LEMMA FilterTail ==
  ASSUME NEW T, NEW q \in Seq(T), q # <<>>, NEW S
  PROVE  Filter(q, S) = IF Head(q) \in S THEN <<Head(q)>> \o Filter(Tail(q), S)
                                          ELSE Filter(Tail(q), S)
<1>1. /\ Head(q) \in T /\ Tail(q) \in Seq(T) /\ <<Head(q)>> \in Seq(T)
      /\ q = <<Head(q)>> \o Tail(q)
  <2>1. Head(q) \in T /\ Tail(q) \in Seq(T)
    BY HeadTailProperties
  <2>2. q = <<Head(q)>> \o Tail(q)
    OBVIOUS
  <2>3. QED BY <2>1, <2>2
<1> DEFINE h == <<Head(q)>>
           t == Tail(q)
<1>2. Filter(h, S) = IF Head(q) \in S THEN h ELSE <<>>
  BY FilterSingle
<1>3. Filter(t, S) \in Seq(T \cap S)
  BY <1>1, FilterType
<1>4. <<>> \o Filter(t, S) = Filter(t, S)
  BY <1>3, ConcatEmptySeq
<1>5. Filter(q, S) = Filter(h, S) \o Filter(t, S)
  <2>1. Filter(h \o t, S) = Filter(h, S) \o Filter(t, S)
    <3> HIDE DEF h, t
    <3>1. h \in Seq(T) /\ t \in Seq(T)
      BY <1>1 DEF h, t
    <3>2. QED BY <3>1, FilterConcat
  <2>2. QED BY <1>1, <2>1
<1>6. QED BY <1>2, <1>4, <1>5

LEMMA FilterShorter ==
  ASSUME NEW T, NEW q \in Seq(T), NEW S
  PROVE  Len(Filter(q, S)) <= Len(q)
<1> DEFINE D == 1 .. Len(q)
<1>1. Len(q) \in Nat
  BY LenProperties
<1>2. IsFiniteSet(D) /\ Cardinality(D) = Len(q)
  BY <1>1, FS_Interval
<1>3. Places(q, S) \subseteq D
  BY PlacesFinite
<1> HIDE DEF D
<1>4. Cardinality(Places(q, S)) <= Cardinality(D)
  BY <1>2, <1>3, FS_Subset
<1>5. QED BY <1>2, <1>4, FilterType

=============================================================================
