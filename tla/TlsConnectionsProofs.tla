------------------------ MODULE TlsConnectionsProofs ------------------------
(***************************************************************************)
(* Proofs about TlsFingerprints and TlsConnections.                        *)
(*                                                                         *)
(* 1. Without keeps the elements that stay in their order: its recursion   *)
(*    is replaced by the ranks of the places, and everything else about it *)
(*    follows from that form.                                              *)
(* 2. Sorted is a rearrangement in ascending order, the same for lists     *)
(*    with the same elements.                                              *)
(* 3. Lists that can be paired up to the values of GREASE are printed      *)
(*    alike, and lists that are printed alike can be paired: two hellos    *)
(*    have the same three fingerprints if and only if they are the same    *)
(*    but for what is drawn (FingerprintsTell).                            *)
(* 4. The hello of a connection is paired with its stack, so that only the *)
(*    fingerprints of the stack itself are ever seen (FingerprintsInv).    *)
(***************************************************************************)
EXTENDS TlsConnections, FiniteSetTheorems, FunctionTheorems, SequenceTheorems, TLAPS

(* Ranks: where every element comes with the set of those that are not     *)
(* after it, and these sets grow from element to element, the sizes of the *)
(* sets number the elements.                                               *)
LEMMA Ranks ==
    ASSUME NEW I, IsFiniteSet(I), NEW upTo \in [I -> SUBSET I],
           \A i \in I : i \in upTo[i],
           \A i, j \in I : \/ i = j
                           \/ upTo[i] \subseteq upTo[j] /\ j \notin upTo[i]
                           \/ upTo[j] \subseteq upTo[i] /\ i \notin upTo[j]
    PROVE  /\ Cardinality(I) \in Nat
           /\ \A i \in I : Cardinality(upTo[i]) \in 1 .. Cardinality(I)
           /\ \A i, j \in I : Cardinality(upTo[i]) = Cardinality(upTo[j]) => i = j
           /\ \A k \in 1 .. Cardinality(I) : \E i \in I : Cardinality(upTo[i]) = k
<1> DEFINE n == Cardinality(I)
           rank == [i \in I |-> Cardinality(upTo[i])]
<1>1. n \in Nat
  BY FS_CardinalityType
<1>2. ASSUME NEW i \in I
      PROVE  IsFiniteSet(upTo[i]) /\ Cardinality(upTo[i]) \in 1 .. n
  <2>1. IsFiniteSet(upTo[i]) /\ Cardinality(upTo[i]) <= n
    BY FS_Subset
  <2>2. Cardinality(upTo[i]) \in Nat /\ Cardinality(upTo[i]) # 0
    BY <2>1, FS_CardinalityType, FS_EmptySet
  <2> QED BY <1>1, <2>1, <2>2
<1>3. ASSUME NEW i \in I, NEW j \in I, rank[i] = rank[j] PROVE i = j
  <2>1. ASSUME NEW a \in I, NEW b \in I, upTo[a] \subseteq upTo[b], b \notin upTo[a]
        PROVE  Cardinality(upTo[a]) # Cardinality(upTo[b])
    <3>1. upTo[a] \in SUBSET upTo[b] /\ upTo[a] # upTo[b]
      BY <2>1
    <3> QED BY <1>2, <3>1, FS_Subset
  <2> QED BY <1>3, <2>1
<1>4. rank \in [I -> 1 .. n]
  BY <1>2
<1>5. rank \in Injection(I, 1 .. n)
  BY <1>3, <1>4, Fun_IsInj
<1>6. IsFiniteSet(1 .. n) /\ Cardinality(1 .. n) = n
  BY <1>1, FS_Interval
<1>7. rank \in Surjection(I, 1 .. n)
  BY <1>5, <1>6, FS_Injection
<1>8. \A k \in 1 .. n : \E i \in I : rank[i] = k
  BY <1>7 DEF Surjection
<1> QED BY <1>1, <1>2, <1>3, <1>8

(* What is paired one to one is as many.                                   *)
LEMMA SameCount ==
    ASSUME NEW S, NEW T, IsFiniteSet(S), NEW p \in Bijection(S, T),
           NEW A \in SUBSET S, NEW B \in SUBSET T, \A x \in S : x \in A <=> p[x] \in B
    PROVE  Cardinality(A) = Cardinality(B)
<1> DEFINE q == [x \in A |-> p[x]]
<1>1. /\ p \in [S -> T] /\ \A a, b \in S : p[a] = p[b] => a = b
      /\ \A y \in T : \E x \in S : p[x] = y
  BY Fun_BijectionProperties
<1>2. q \in [A -> B]
  BY <1>1
<1>3. \A a, b \in A : q[a] = q[b] => a = b
  BY <1>1
<1>4. \A y \in B : \E x \in A : q[x] = y
  BY <1>1
<1>5. q \in Bijection(A, B)
  BY <1>2, <1>3, <1>4, Fun_IsBij
<1>6. IsFiniteSet(A)
  BY FS_Subset
<1> HIDE DEF q
<1> QED BY <1>5, <1>6, FS_Bijection DEF ExistsBijection

LEMMA LeastElement ==
    ASSUME NEW D \in SUBSET Nat, D # {}
    PROVE  \E d \in D : \A e \in D : d <= e
<1>1. PICK d \in D : \A e \in D : ~(<<e, d>> \in OpToRel(<, Nat))
  BY NatLessThanWellFounded, WFMin
<1>2. \A e \in D : ~(e < d)
  BY <1>1 DEF OpToRel
<1> QED BY <1>2

-----------------------------------------------------------------------------
(* The k-th smallest of a set of places.                                   *)
KthSmallest(I, k) == CHOOSE i \in I : Cardinality({j \in I : j <= i}) = k

LEMMA KthOfRank ==
    ASSUME NEW I, IsFiniteSet(I), \A i \in I : i \in Nat
    PROVE  /\ Cardinality(I) \in Nat
           /\ \A k \in 1 .. Cardinality(I) :
                  /\ KthSmallest(I, k) \in I
                  /\ Cardinality({j \in I : j <= KthSmallest(I, k)}) = k
           /\ \A i \in I : /\ Cardinality({j \in I : j <= i}) \in 1 .. Cardinality(I)
                           /\ KthSmallest(I, Cardinality({j \in I : j <= i})) = i
<1> DEFINE upTo == [i \in I |-> {j \in I : j <= i}]
<1>1. \A i \in I : i \in Nat
  OBVIOUS
<1>2. \A i \in I : upTo[i] = {j \in I : j <= i}
  OBVIOUS
<1>3. upTo \in [I -> SUBSET I] /\ \A i \in I : i \in upTo[i]
  BY <1>1
<1>4. \A i, j \in I : i = j \/ i < j \/ j < i
  BY <1>1
<1>5. \A i, j \in I : i < j => \A k \in I : k <= i => k <= j
  BY <1>1
<1>6. \A i, j \in I : i < j => ~(j <= i)
  BY <1>1
<1> HIDE DEF upTo
<1>7. ASSUME NEW i \in I, NEW j \in I, i < j
      PROVE  upTo[i] \subseteq upTo[j] /\ j \notin upTo[i]
  <2>1. upTo[i] \subseteq upTo[j]
    BY <1>2, <1>5, <1>7, Zenon
  <2>2. j \notin upTo[i]
    BY <1>2, <1>6, <1>7, Zenon
  <2> QED BY <2>1, <2>2
<1>8. \A i, j \in I : \/ i = j
                      \/ upTo[i] \subseteq upTo[j] /\ j \notin upTo[i]
                      \/ upTo[j] \subseteq upTo[i] /\ i \notin upTo[j]
  BY <1>4, <1>7, Zenon
<1>9. /\ Cardinality(I) \in Nat
      /\ \A i \in I : Cardinality(upTo[i]) \in 1 .. Cardinality(I)
      /\ \A i, j \in I : Cardinality(upTo[i]) = Cardinality(upTo[j]) => i = j
      /\ \A k \in 1 .. Cardinality(I) : \E i \in I : Cardinality(upTo[i]) = k
  BY <1>3, <1>8, Ranks
<1>10. ASSUME NEW k \in 1 .. Cardinality(I)
       PROVE  KthSmallest(I, k) \in I /\ Cardinality({j \in I : j <= KthSmallest(I, k)}) = k
  <2>1. \E i \in I : Cardinality({j \in I : j <= i}) = k
    BY <1>2, <1>9
  <2> QED BY <2>1 DEF KthSmallest
<1>11. ASSUME NEW i \in I
       PROVE  /\ Cardinality({j \in I : j <= i}) \in 1 .. Cardinality(I)
              /\ KthSmallest(I, Cardinality({j \in I : j <= i})) = i
  <2>1. PICK k \in 1 .. Cardinality(I) : k = Cardinality({j \in I : j <= i})
    BY <1>2, <1>9
  <2>2. KthSmallest(I, k) \in I /\ Cardinality(upTo[KthSmallest(I, k)]) = k
    BY <1>2, <1>10
  <2>3. Cardinality(upTo[i]) = k
    BY <1>2, <2>1
  <2> QED BY <1>9, <2>1, <2>2, <2>3
<1> QED BY <1>9, <1>10, <1>11

LEMMA PlacesFinite ==
    ASSUME NEW T, NEW s \in Seq(T)
    PROVE  /\ Len(s) \in Nat /\ DOMAIN s = 1 .. Len(s)
           /\ IsFiniteSet(DOMAIN s) /\ Cardinality(DOMAIN s) = Len(s)
<1> DEFINE n == Len(s)
<1>1. n \in Nat /\ DOMAIN s = 1 .. n
  OBVIOUS
<1> HIDE DEF n
<1>2. IsFiniteSet(1 .. n) /\ Cardinality(1 .. n) = n
  BY <1>1, FS_Interval
<1>3. IsFiniteSet(DOMAIN s) /\ Cardinality(DOMAIN s) = n
  BY <1>1, <1>2
<1> QED BY <1>1, <1>3 DEF n

(* The places of the elements that stay.                                   *)
Stays(s, S) == {i \in DOMAIN s : s[i] \notin S}

LEMMA StaysFinite ==
    ASSUME NEW T, NEW s \in Seq(T), NEW S
    PROVE  /\ Stays(s, S) \in SUBSET (1 .. Len(s)) /\ Stays(s, S) \in SUBSET Nat
           /\ IsFiniteSet(Stays(s, S)) /\ Cardinality(Stays(s, S)) \in Nat
<1>1. DOMAIN s = 1 .. Len(s) /\ IsFiniteSet(DOMAIN s)
  BY PlacesFinite
<1>2. Stays(s, S) \in SUBSET DOMAIN s
  BY DEF Stays
<1>3. IsFiniteSet(Stays(s, S)) /\ Cardinality(Stays(s, S)) \in Nat
  BY <1>1, <1>2, FS_Subset, FS_CardinalityType
<1> QED BY <1>1, <1>2, <1>3

(* The definition of Without is by recursion: what it chooses is the       *)
(* function that this recursion has.                                       *)
Prefix(s, S, f, i) ==
    IF i = 0 THEN << >>
    ELSE IF s[i] \in S THEN f[i - 1] ELSE Append(f[i - 1], s[i])

LEMMA WithoutRecurs ==
    ASSUME NEW T, NEW s \in Seq(T), NEW S,
           NEW h, h = [i \in 0 .. Len(s) |-> Prefix(s, S, h, i)]
    PROVE  Without(s, S) = h[Len(s)]
<1>1. PICK g : /\ g = [i \in 0 .. Len(s) |-> Prefix(s, S, g, i)]
               /\ Without(s, S) = g[Len(s)]
  BY DEF Without, Prefix
<1> DEFINE D == {i \in 0 .. Len(s) : g[i] # h[i]}
<1>2. CASE D # {}
  <2>1. PICK i \in D : \A j \in D : i <= j
    <3>1. D \in SUBSET Nat
      BY LenProperties
    <3> HIDE DEF D
    <3> QED BY <1>2, <3>1, LeastElement
  <2>2. i = 0 \/ (i - 1 \in 0 .. Len(s) /\ g[i - 1] = h[i - 1])
    BY <2>1
  <2>3. g[i] = Prefix(s, S, g, i) /\ h[i] = Prefix(s, S, h, i)
    BY <1>1
  <2>4. Prefix(s, S, g, i) = Prefix(s, S, h, i)
    BY <2>2 DEF Prefix
  <2> QED BY <2>1, <2>3, <2>4
<1>3. CASE D = {}
  BY <1>1, <1>3
<1> QED BY <1>2, <1>3

(* What Without returns: the elements that stay, in their order.           *)
LEMMA WithoutKeepsOrder ==
    ASSUME NEW T, NEW s \in Seq(T), NEW S
    PROVE  Without(s, S) = [k \in 1 .. Cardinality(Stays(s, S)) |->
                                s[KthSmallest(Stays(s, S), k)]]
<1> DEFINE P == Stays(s, S)
           n == Len(s)
           upTo(i) == Cardinality({j \in P : j <= i})
           h == [i \in 0 .. n |-> [k \in 1 .. upTo(i) |-> s[KthSmallest(P, k)]]]
<1>1. n \in Nat /\ P \in SUBSET (1 .. n) /\ P \in SUBSET Nat /\ IsFiniteSet(P)
  BY StaysFinite
<1>2. \A i \in 1 .. n : i \in P <=> s[i] \notin S
  BY DEF Stays
<1> HIDE DEF P
<1>0. \A j \in P : j \in Nat /\ 1 <= j /\ j <= n
  BY <1>1
<1>3. ASSUME NEW i \in 0 .. n PROVE IsFiniteSet({j \in P : j <= i}) /\ upTo(i) \in Nat
  <2>1. {j \in P : j <= i} \in SUBSET P
    OBVIOUS
  <2> QED BY <1>1, <2>1, FS_Subset, FS_CardinalityType
<1>4. upTo(0) = 0
  <2>1. {j \in P : j <= 0} = {}
    BY <1>0
  <2> QED BY <2>1, FS_EmptySet
<1>5. ASSUME NEW i \in 1 .. n, i \notin P PROVE upTo(i) = upTo(i - 1)
  <2>1. {j \in P : j <= i} = {j \in P : j <= i - 1}
    <3>1. \A j \in P : j <= i <=> j <= i - 1
      BY <1>0, <1>1, <1>5
    <3> QED BY <3>1
  <2> QED BY <2>1
<1>6. ASSUME NEW i \in 1 .. n, i \in P
      PROVE  upTo(i) = upTo(i - 1) + 1 /\ KthSmallest(P, upTo(i)) = i
  <2>1. {j \in P : j <= i} = {j \in P : j <= i - 1} \cup {i}
    <3>1. \A j \in P : j <= i <=> j <= i - 1 \/ j = i
      BY <1>0, <1>1
    <3> QED BY <1>6, <3>1
  <2>2. i - 1 \in 0 .. n /\ i \notin {j \in P : j <= i - 1}
    OBVIOUS
  <2>3. upTo(i) = upTo(i - 1) + 1
    BY <1>3, <2>1, <2>2, FS_AddElement
  <2> QED BY <1>1, <1>6, <2>3, KthOfRank
<1>7. ASSUME NEW i \in 0 .. n PROVE h[i] = Prefix(s, S, h, i)
  <2>1. CASE i = 0
    <3>1. h[0] = [k \in 1 .. upTo(0) |-> s[KthSmallest(P, k)]]
      BY <1>1
    <3>2. h[0] = << >>
      BY <1>4, <3>1
    <3> QED BY <2>1, <3>2 DEF Prefix
  <2>2. CASE i # 0 /\ i \notin P
    <3>1. i \in 1 .. n /\ i - 1 \in 0 .. n /\ s[i] \in S
      BY <1>2, <2>2
    <3>2. h[i] = h[i - 1]
      BY <1>5, <2>2, <3>1
    <3> QED BY <2>2, <3>1, <3>2 DEF Prefix
  <2>3. CASE i # 0 /\ i \in P
    <3>1. i \in 1 .. n /\ i - 1 \in 0 .. n /\ s[i] \notin S
      BY <1>2, <2>3
    <3>2. upTo(i) = upTo(i - 1) + 1 /\ KthSmallest(P, upTo(i)) = i /\ upTo(i - 1) \in Nat
      BY <1>3, <1>6, <2>3, <3>1
    <3>3. h[i] = [k \in 1 .. upTo(i - 1) + 1 |-> s[KthSmallest(P, k)]]
      BY <3>1, <3>2
    <3>4. h[i - 1] = [k \in 1 .. upTo(i - 1) |-> s[KthSmallest(P, k)]]
      BY <3>1
    <3> HIDE DEF h, upTo
    <3>5. h[i] = Append(h[i - 1], s[i])
      BY <3>2, <3>3, <3>4
    <3> QED BY <2>3, <3>1, <3>5 DEF Prefix
  <2> QED BY <2>1, <2>2, <2>3
<1>8. h = [i \in 0 .. n |-> Prefix(s, S, h, i)]
  BY <1>7
<1>9. h[n] = [k \in 1 .. upTo(n) |-> s[KthSmallest(P, k)]] /\ upTo(n) = Cardinality(P)
  <2>1. {j \in P : j <= n} = P
    BY <1>0
  <2>2. n \in 0 .. n
    BY <1>1
  <2> QED BY <2>1, <2>2
<1> HIDE DEF h
<1>10. Without(s, S) = h[n]
  BY <1>8, WithoutRecurs
<1> QED BY <1>9, <1>10 DEF P

LEMMA WithoutType ==
    ASSUME NEW T, NEW s \in Seq(T), NEW S
    PROVE  /\ Without(s, S) \in Seq(T)
           /\ DOMAIN Without(s, S) = 1 .. Cardinality(Stays(s, S))
           /\ Len(Without(s, S)) = Cardinality(Stays(s, S))
           /\ \A k \in DOMAIN Without(s, S) :
                  \E i \in DOMAIN s : Without(s, S)[k] = s[i] /\ s[i] \notin S
<1> DEFINE P == Stays(s, S)
           n == Cardinality(P)
<1>1. n \in Nat /\ IsFiniteSet(P) /\ \A i \in P : i \in Nat
  BY StaysFinite
<1>2. \A k \in 1 .. n : KthSmallest(P, k) \in P
  BY <1>1, KthOfRank
<1>3. \A i \in P : i \in DOMAIN s /\ s[i] \notin S /\ s[i] \in T
  BY DEF Stays
<1>4. Without(s, S) = [k \in 1 .. n |-> s[KthSmallest(P, k)]]
  BY WithoutKeepsOrder
<1> HIDE DEF P, n
<1>5. Without(s, S) \in [1 .. n -> T]
  BY <1>2, <1>3, <1>4
<1>6. Without(s, S) \in Seq(T) /\ Len(Without(s, S)) = n
  BY <1>1, <1>5
<1>7. DOMAIN Without(s, S) = 1 .. n
  BY <1>4
<1>8. ASSUME NEW k \in 1 .. n
      PROVE  \E i \in DOMAIN s : Without(s, S)[k] = s[i] /\ s[i] \notin S
  BY <1>2, <1>3, <1>4
<1> QED BY <1>6, <1>7, <1>8 DEF P, n

LEMMA WithoutSame ==
    ASSUME NEW T, NEW s \in Seq(T), NEW t \in Seq(T), NEW S, DOMAIN s = DOMAIN t,
           \A i \in DOMAIN s : s[i] \in S <=> t[i] \in S,
           \A i \in DOMAIN s : s[i] \notin S => s[i] = t[i]
    PROVE  Without(s, S) = Without(t, S)
<1>1. Stays(s, S) = Stays(t, S)
  BY DEF Stays
<1> DEFINE P == Stays(s, S)
           n == Cardinality(P)
<1>2. n \in Nat /\ IsFiniteSet(P) /\ \A i \in P : i \in Nat
  BY StaysFinite
<1>3. \A k \in 1 .. n : KthSmallest(P, k) \in P
  BY <1>2, KthOfRank
<1>4. /\ Without(s, S) = [k \in 1 .. n |-> s[KthSmallest(P, k)]]
      /\ Without(t, S) = [k \in 1 .. n |-> t[KthSmallest(P, k)]]
  BY <1>1, WithoutKeepsOrder
<1>5. \A i \in P : s[i] = t[i]
  BY DEF Stays
<1> HIDE DEF P, n
<1> QED BY <1>3, <1>4, <1>5

(* Where p pairs the elements of two lists, and those that stay with those *)
(* that stay, what is left of the lists can be paired alike.               *)
LEMMA WithoutPaired ==
    ASSUME NEW T, NEW s \in Seq(T), NEW t \in Seq(T), NEW S,
           NEW p \in Bijection(DOMAIN s, DOMAIN t),
           \A i \in DOMAIN s : s[i] \in S <=> t[p[i]] \in S
    PROVE  \E q \in Bijection(DOMAIN Without(s, S), DOMAIN Without(t, S)) :
              \A k \in DOMAIN Without(s, S) : \E i \in DOMAIN s :
                  /\ s[i] \notin S
                  /\ Without(s, S)[k] = s[i]
                  /\ Without(t, S)[q[k]] = t[p[i]]
<1> DEFINE P == Stays(s, S)
           Q == Stays(t, S)
           n == Cardinality(P)
           rankP(i) == Cardinality({j \in P : j <= i})
           rankQ(i) == Cardinality({j \in Q : j <= i})
           kthP(k) == KthSmallest(P, k)
           kthQ(k) == KthSmallest(Q, k)
           q == [k \in 1 .. n |-> rankQ(p[kthP(k)])]
<1>1. /\ \A i \in DOMAIN s : p[i] \in DOMAIN t
      /\ \A i, j \in DOMAIN s : p[i] = p[j] => i = j
      /\ \A j \in DOMAIN t : \E i \in DOMAIN s : p[i] = j
  BY Fun_BijectionProperties
<1>2. /\ n \in Nat /\ IsFiniteSet(P) /\ \A i \in P : i \in Nat
      /\ Cardinality(Q) \in Nat /\ IsFiniteSet(Q) /\ \A i \in Q : i \in Nat
  BY StaysFinite
<1>3. /\ \A i \in P : i \in DOMAIN s /\ s[i] \notin S /\ p[i] \in Q
      /\ \A j \in Q : \E i \in P : p[i] = j
  BY <1>1 DEF Stays
<1>4. Cardinality(Q) = n
  <2>1. IsFiniteSet(DOMAIN s)
    BY PlacesFinite
  <2>2. P \in SUBSET DOMAIN s /\ Q \in SUBSET DOMAIN t
    BY DEF Stays
  <2>3. \A i \in DOMAIN s : i \in P <=> p[i] \in Q
    BY <1>1 DEF Stays
  <2> HIDE DEF P, Q
  <2> QED BY <2>1, <2>2, <2>3, SameCount
<1>5. /\ \A k \in 1 .. n : kthP(k) \in P /\ rankP(kthP(k)) = k
      /\ \A i \in P : rankP(i) \in 1 .. n /\ kthP(rankP(i)) = i
  BY <1>2, KthOfRank
<1>6. /\ \A k \in 1 .. n : kthQ(k) \in Q /\ rankQ(kthQ(k)) = k
      /\ \A i \in Q : rankQ(i) \in 1 .. n /\ kthQ(rankQ(i)) = i
  BY <1>2, <1>4, KthOfRank
<1>7. /\ Without(s, S) = [k \in 1 .. n |-> s[kthP(k)]]
      /\ Without(t, S) = [k \in 1 .. n |-> t[kthQ(k)]]
  BY <1>4, WithoutKeepsOrder
<1> HIDE DEF P, Q, n, rankP, rankQ, kthP, kthQ
<1>8. \A k \in 1 .. n : /\ q[k] \in 1 .. n /\ kthQ(q[k]) = p[kthP(k)]
                        /\ kthP(k) \in P
  BY <1>3, <1>5, <1>6
<1>9. \A k \in 1 .. n : \E m \in 1 .. n : q[m] = k
  <2> SUFFICES ASSUME NEW k \in 1 .. n PROVE \E m \in 1 .. n : q[m] = k
    OBVIOUS
  <2>1. PICK i \in P : p[i] = kthQ(k)
    BY <1>3, <1>6
  <2>2. rankP(i) \in 1 .. n /\ kthP(rankP(i)) = i
    BY <1>5
  <2>3. q[rankP(i)] = rankQ(kthQ(k))
    BY <2>1, <2>2
  <2> QED BY <1>6, <2>2, <2>3
<1>10. \A k, m \in 1 .. n : q[k] = q[m] => k = m
  <2> SUFFICES ASSUME NEW k \in 1 .. n, NEW m \in 1 .. n, q[k] = q[m] PROVE k = m
    OBVIOUS
  <2>1. p[kthP(k)] = p[kthP(m)]
    BY <1>8
  <2>2. kthP(k) = kthP(m)
    BY <1>1, <1>3, <1>8, <2>1
  <2> QED BY <1>5, <2>2
<1>11. q \in [1 .. n -> 1 .. n]
  BY <1>8
<1> HIDE DEF q
<1>12. q \in Bijection(1 .. n, 1 .. n)
  BY <1>9, <1>10, <1>11, Fun_IsBij
<1>13. DOMAIN Without(s, S) = 1 .. n /\ DOMAIN Without(t, S) = 1 .. n
  BY <1>7
<1>14. ASSUME NEW k \in 1 .. n
       PROVE  \E i \in DOMAIN s : /\ s[i] \notin S
                                  /\ Without(s, S)[k] = s[i]
                                  /\ Without(t, S)[q[k]] = t[p[i]]
  <2>1. kthP(k) \in DOMAIN s /\ s[kthP(k)] \notin S
    BY <1>3, <1>8
  <2>2. Without(s, S)[k] = s[kthP(k)] /\ Without(t, S)[q[k]] = t[p[kthP(k)]]
    BY <1>7, <1>8
  <2> QED BY <2>1, <2>2
<1> QED BY <1>12, <1>13, <1>14

-----------------------------------------------------------------------------
(* The value at place k of the sorted list.                                *)
AtPlace(s, k, v) ==
    /\ Cardinality({i \in DOMAIN s : s[i] < v}) < k
    /\ k <= Cardinality({i \in DOMAIN s : s[i] <= v})

LEMMA CountsFinite ==
    ASSUME NEW s \in Seq(Int), NEW v \in Int
    PROVE  /\ IsFiniteSet({i \in DOMAIN s : s[i] < v})
           /\ IsFiniteSet({i \in DOMAIN s : s[i] <= v})
           /\ Cardinality({i \in DOMAIN s : s[i] < v}) \in Nat
           /\ Cardinality({i \in DOMAIN s : s[i] <= v}) \in Nat
<1> DEFINE A == {i \in DOMAIN s : s[i] < v}
           B == {i \in DOMAIN s : s[i] <= v}
<1>1. A \in SUBSET DOMAIN s /\ B \in SUBSET DOMAIN s
  OBVIOUS
<1>2. IsFiniteSet(DOMAIN s)
  BY PlacesFinite
<1> HIDE DEF A, B
<1>3. IsFiniteSet(A) /\ IsFiniteSet(B)
  BY <1>1, <1>2, FS_Subset
<1>4. Cardinality(A) \in Nat /\ Cardinality(B) \in Nat
  BY <1>3, FS_CardinalityType
<1> QED BY <1>3, <1>4 DEF A, B

(* What is at a later place is no less, so that a place has one value.     *)
LEMMA PlacesOrdered ==
    ASSUME NEW s \in Seq(Int), NEW v \in Int, NEW w \in Int, NEW k \in Nat, NEW m \in Nat,
           AtPlace(s, k, v), AtPlace(s, m, w), k <= m
    PROVE  v <= w
<1> SUFFICES ASSUME w < v PROVE FALSE
  OBVIOUS
<1> DEFINE A == {i \in DOMAIN s : s[i] <= w}
           B == {i \in DOMAIN s : s[i] < v}
<1>1. \A i \in DOMAIN s : s[i] \in Int
  OBVIOUS
<1>2. A \in SUBSET B
  BY <1>1
<1>3. IsFiniteSet(B) /\ Cardinality(A) \in Nat /\ Cardinality(B) \in Nat
  BY CountsFinite
<1>4. m <= Cardinality(A) /\ Cardinality(B) < k
  BY DEF AtPlace
<1> HIDE DEF A, B
<1>5. Cardinality(A) <= Cardinality(B)
  BY <1>2, <1>3, FS_Subset
<1> QED BY <1>3, <1>4, <1>5

(* The elements of a list can be numbered such that each has a place.      *)
Before(s, i) == {j \in DOMAIN s : s[j] < s[i] \/ (s[j] = s[i] /\ j <= i)}

LEMMA ElementHasPlace ==
    ASSUME NEW s \in Seq(Int), NEW i \in DOMAIN s
    PROVE  AtPlace(s, Cardinality(Before(s, i)), s[i])
<1> DEFINE A == {j \in DOMAIN s : s[j] < s[i]}
           B == Before(s, i)
           C == {j \in DOMAIN s : s[j] <= s[i]}
<1>1. /\ \A j \in DOMAIN s : s[j] \in Int /\ j \in Nat
      /\ s[i] \in Int
  BY PlacesFinite
<1>2. /\ IsFiniteSet(A) /\ IsFiniteSet(C)
      /\ Cardinality(A) \in Nat /\ Cardinality(C) \in Nat
  BY <1>1, CountsFinite
<1>3. B \in SUBSET C
  BY <1>1 DEF Before
<1>4. A \in SUBSET B /\ i \in B /\ i \notin A
  BY <1>1 DEF Before
<1>5. AtPlace(s, Cardinality(B), s[i]) <=> Cardinality(A) < Cardinality(B) /\ Cardinality(B) <= Cardinality(C)
  BY DEF AtPlace
<1> HIDE DEF A, B, C
<1>6. IsFiniteSet(B) /\ Cardinality(B) <= Cardinality(C)
  BY <1>2, <1>3, FS_Subset
<1>7. Cardinality(B) \in Nat
  BY <1>6, FS_CardinalityType
<1>8. Cardinality(A) <= Cardinality(B) /\ Cardinality(A) # Cardinality(B)
  BY <1>4, <1>6, FS_Subset
<1>9. AtPlace(s, Cardinality(B), s[i])
  BY <1>2, <1>5, <1>6, <1>7, <1>8
<1> QED BY <1>9 DEF B

LEMMA PlacesNumbered ==
    ASSUME NEW s \in Seq(Int)
    PROVE  [i \in DOMAIN s |-> Cardinality(Before(s, i))] \in Bijection(DOMAIN s, DOMAIN s)
<1> DEFINE I == DOMAIN s
           upTo == [i \in I |-> Before(s, i)]
           rank == [i \in I |-> Cardinality(Before(s, i))]
<1>1. IsFiniteSet(I) /\ I = 1 .. Cardinality(I)
  BY PlacesFinite
<1>2. \A i \in I : s[i] \in Int /\ i \in Nat
  BY PlacesFinite
<1>3. upTo \in [I -> SUBSET I] /\ \A i \in I : i \in upTo[i]
  BY <1>2 DEF Before
<1>4. \A i \in I : upTo[i] = Before(s, i)
  OBVIOUS
<1>5. ASSUME NEW i \in I, NEW j \in I, s[i] < s[j] \/ (s[i] = s[j] /\ i < j)
      PROVE  Before(s, i) \subseteq Before(s, j) /\ j \notin Before(s, i)
  BY <1>2, <1>5 DEF Before
<1>6. \A i, j \in I : \/ i = j
                      \/ s[i] < s[j] \/ (s[i] = s[j] /\ i < j)
                      \/ s[j] < s[i] \/ (s[j] = s[i] /\ j < i)
  BY <1>2
<1> HIDE DEF I, upTo
<1>7. \A i, j \in I : \/ i = j
                      \/ upTo[i] \subseteq upTo[j] /\ j \notin upTo[i]
                      \/ upTo[j] \subseteq upTo[i] /\ i \notin upTo[j]
  BY <1>4, <1>5, <1>6
<1>8. /\ \A i \in I : Cardinality(upTo[i]) \in 1 .. Cardinality(I)
      /\ \A i, j \in I : Cardinality(upTo[i]) = Cardinality(upTo[j]) => i = j
      /\ \A k \in 1 .. Cardinality(I) : \E i \in I : Cardinality(upTo[i]) = k
  BY <1>1, <1>3, <1>7, Ranks
<1>9. /\ rank \in [I -> I]
      /\ \A i, j \in I : rank[i] = rank[j] => i = j
      /\ \A k \in I : \E i \in I : rank[i] = k
  BY <1>1, <1>4, <1>8
<1> HIDE DEF rank
<1>10. rank \in Bijection(I, I)
  BY <1>9, Fun_IsBij
<1> QED BY <1>10 DEF I, rank

(* What Sorted returns.                                                    *)
LEMMA SortedAtPlace ==
    ASSUME NEW s \in Seq(Int)
    PROVE  /\ Sorted(s) \in Seq(Int) /\ DOMAIN Sorted(s) = DOMAIN s /\ Len(Sorted(s)) = Len(s)
           /\ \A k \in DOMAIN s : /\ Sorted(s)[k] \in {s[i] : i \in DOMAIN s}
                                  /\ AtPlace(s, k, Sorted(s)[k])
<1>1. Len(s) \in Nat /\ DOMAIN s = 1 .. Len(s) /\ \A i \in DOMAIN s : s[i] \in Int
  BY PlacesFinite
<1>2. Sorted(s) = [k \in DOMAIN s |-> CHOOSE v \in {s[i] : i \in DOMAIN s} : AtPlace(s, k, v)]
  BY DEF Sorted, AtPlace
<1>3. ASSUME NEW k \in DOMAIN s
      PROVE  \E v \in {s[i] : i \in DOMAIN s} : AtPlace(s, k, v)
  <2>1. PICK i \in DOMAIN s : Cardinality(Before(s, i)) = k
    <3> DEFINE rank == [i \in DOMAIN s |-> Cardinality(Before(s, i))]
    <3>1. rank \in Bijection(DOMAIN s, DOMAIN s)
      BY PlacesNumbered
    <3>2. \A i \in DOMAIN s : rank[i] = Cardinality(Before(s, i))
      OBVIOUS
    <3> HIDE DEF rank
    <3>3. \E i \in DOMAIN s : rank[i] = k
      BY <3>1, Fun_BijectionProperties
    <3> QED BY <3>2, <3>3
  <2> QED BY <2>1, ElementHasPlace
<1>4. \A k \in DOMAIN s : /\ Sorted(s)[k] \in {s[i] : i \in DOMAIN s}
                          /\ AtPlace(s, k, Sorted(s)[k])
  BY <1>2, <1>3
<1>5. Sorted(s) \in [1 .. Len(s) -> Int]
  BY <1>1, <1>2, <1>4
<1> QED BY <1>1, <1>4, <1>5

(* Sorted lists the elements in ascending order, each as often as it is    *)
(* there: the result is a rearrangement of the list without a descent.     *)
THEOREM SortedSorts ==
    ASSUME NEW s \in Seq(Int)
    PROVE  /\ \A k, m \in DOMAIN s : k <= m => Sorted(s)[k] <= Sorted(s)[m]
           /\ \E p \in Bijection(DOMAIN s, DOMAIN s) :
                 \A i \in DOMAIN s : Sorted(s)[p[i]] = s[i]
<1>1. \A i \in DOMAIN s : i \in Nat /\ s[i] \in Int
  BY PlacesFinite
<1>2. \A k \in DOMAIN s : Sorted(s)[k] \in Int /\ AtPlace(s, k, Sorted(s)[k])
  BY <1>1, SortedAtPlace
<1>3. ASSUME NEW k \in DOMAIN s, NEW m \in DOMAIN s, k <= m PROVE Sorted(s)[k] <= Sorted(s)[m]
  BY <1>1, <1>2, <1>3, PlacesOrdered
<1> DEFINE p == [i \in DOMAIN s |-> Cardinality(Before(s, i))]
<1>4. p \in Bijection(DOMAIN s, DOMAIN s)
  BY PlacesNumbered
<1>5. ASSUME NEW i \in DOMAIN s PROVE Sorted(s)[p[i]] = s[i]
  <2>1. p[i] = Cardinality(Before(s, i))
    OBVIOUS
  <2> HIDE DEF p
  <2>2. p[i] \in DOMAIN s
    BY <1>4, Fun_BijectionProperties
  <2>3. AtPlace(s, p[i], s[i]) /\ AtPlace(s, p[i], Sorted(s)[p[i]])
    BY <1>2, <2>1, <2>2, ElementHasPlace
  <2>4. p[i] \in Nat /\ p[i] <= p[i] /\ s[i] \in Int /\ Sorted(s)[p[i]] \in Int
    BY <1>1, <1>2, <2>2
  <2>5. s[i] <= Sorted(s)[p[i]] /\ Sorted(s)[p[i]] <= s[i]
    BY <2>3, <2>4, PlacesOrdered
  <2> QED BY <2>4, <2>5
<1> HIDE DEF p
<1> QED BY <1>3, <1>4, <1>5

(* Lists with the same elements are sorted into the same list.             *)
LEMMA SortedPaired ==
    ASSUME NEW s \in Seq(Int), NEW t \in Seq(Int),
           NEW p \in Bijection(DOMAIN s, DOMAIN t),
           \A i \in DOMAIN s : s[i] = t[p[i]]
    PROVE  Sorted(s) = Sorted(t)
<1>1. /\ Len(s) \in Nat /\ DOMAIN s = 1 .. Len(s) /\ IsFiniteSet(DOMAIN s)
      /\ Cardinality(DOMAIN s) = Len(s)
      /\ Len(t) \in Nat /\ DOMAIN t = 1 .. Len(t) /\ Cardinality(DOMAIN t) = Len(t)
  BY PlacesFinite
<1>2. \A i \in DOMAIN s : p[i] \in DOMAIN t
  BY Fun_BijectionProperties
<1>3. Len(s) = Len(t)
  <2>1. \A i \in DOMAIN s : i \in DOMAIN s <=> p[i] \in DOMAIN t
    BY <1>2
  <2>2. DOMAIN s \in SUBSET DOMAIN s /\ DOMAIN t \in SUBSET DOMAIN t
    OBVIOUS
  <2>3. Cardinality(DOMAIN s) = Cardinality(DOMAIN t)
    BY <1>1, <2>1, <2>2, SameCount
  <2> QED BY <1>1, <2>3
<1>4. ASSUME NEW k, NEW v PROVE AtPlace(s, k, v) <=> AtPlace(t, k, v)
  <2> DEFINE A == {i \in DOMAIN s : s[i] < v}
             B == {i \in DOMAIN t : t[i] < v}
             C == {i \in DOMAIN s : s[i] <= v}
             D == {i \in DOMAIN t : t[i] <= v}
  <2>1. /\ A \in SUBSET DOMAIN s /\ B \in SUBSET DOMAIN t
        /\ C \in SUBSET DOMAIN s /\ D \in SUBSET DOMAIN t
    OBVIOUS
  <2>2. /\ \A i \in DOMAIN s : i \in A <=> p[i] \in B
        /\ \A i \in DOMAIN s : i \in C <=> p[i] \in D
    BY <1>2
  <2>3. /\ AtPlace(s, k, v) <=> Cardinality(A) < k /\ k <= Cardinality(C)
        /\ AtPlace(t, k, v) <=> Cardinality(B) < k /\ k <= Cardinality(D)
    BY DEF AtPlace
  <2> HIDE DEF A, B, C, D
  <2>4. Cardinality(A) = Cardinality(B)
    BY <1>1, <2>1, <2>2, SameCount
  <2>5. Cardinality(C) = Cardinality(D)
    BY <1>1, <2>1, <2>2, SameCount
  <2> QED BY <2>3, <2>4, <2>5
<1>5. /\ Sorted(s) \in Seq(Int) /\ DOMAIN Sorted(s) = DOMAIN s
      /\ Sorted(t) \in Seq(Int) /\ DOMAIN Sorted(t) = DOMAIN t
  BY SortedAtPlace
<1>6. ASSUME NEW k \in DOMAIN s PROVE Sorted(s)[k] = Sorted(t)[k]
  <2>1. k \in DOMAIN t /\ k \in Nat /\ k <= k
    BY <1>1, <1>3
  <2>2. Sorted(s)[k] \in Int /\ Sorted(t)[k] \in Int
    BY <1>5, <2>1
  <2>3. AtPlace(s, k, Sorted(s)[k]) /\ AtPlace(s, k, Sorted(t)[k])
    BY <1>4, <2>1, SortedAtPlace
  <2>4. Sorted(s)[k] <= Sorted(t)[k] /\ Sorted(t)[k] <= Sorted(s)[k]
    BY <2>1, <2>2, <2>3, PlacesOrdered
  <2> QED BY <2>2, <2>4
<1>7. DOMAIN s = DOMAIN t
  BY <1>1, <1>3
<1> QED BY <1>5, <1>6, <1>7

-----------------------------------------------------------------------------
(* A number of two equal bytes: its bytes, and its lowest nibble.          *)
LEMMA EqualBytes ==
    ASSUME NEW b \in 0 .. 255, NEW v \in Int, v = 257 * b
    PROVE  v \div 256 = b /\ v % 256 = b /\ v % 16 = b % 16
<1>1. v \div 256 = b
  OBVIOUS
<1>2. v % 256 = b
  OBVIOUS
<1>3. v % 16 = b % 16
  OBVIOUS
<1>4. QED
  BY <1>1, <1>2, <1>3

(* The entries of the table are the numbers of two bytes 0xna.             *)
LEMMA TableEntry ==
    ASSUME NEW n \in 0 .. 15, NEW v \in Int
    PROVE  /\ 16 * n + 10 \in 0 .. 255 /\ (16 * n + 10) % 16 = 10
           /\ v = 2570 + 4112 * n <=> v = 257 * (16 * n + 10)
OBVIOUS

(* The two ways in which the code recognises GREASE, the table of ja3.go   *)
(* and peetprint.go and the bit test of ja4/helper.go, agree on all 65536  *)
(* code points: what JA4 leaves out, JA3 leaves out and PeetPrint marks.   *)
THEOREM GreaseTablesAgree ==
    \A v \in Uint16 : isGREASEUint16(v) <=> v \in greaseValues
<1>1. ASSUME NEW v \in Uint16, isGREASEUint16(v) PROVE v \in greaseValues
  <2> v \in Int
    BY DEF Uint16
  <2>1. PICK b \in Int : b = v % 256
    OBVIOUS
  <2>2. b \in 0 .. 255 /\ v = 256 * (v \div 256) + b
    BY <2>1
  <2>3. v = 257 * b /\ v % 16 = 10
    BY <1>1, <2>1, <2>2 DEF isGREASEUint16
  <2>4. b % 16 = 10
    BY <2>2, <2>3, EqualBytes
  <2>5. PICK n \in 0 .. 15 : b = 16 * n + 10
    <3>1. b \div 16 \in 0 .. 15 /\ b = 16 * (b \div 16) + 10
      BY <2>2, <2>4
    <3>2. QED
      BY <3>1
  <2>6. v = 2570 + 4112 * n
    BY <2>3, <2>5, TableEntry
  <2>7. QED
    BY <2>6 DEF greaseValues
<1>2. ASSUME NEW v \in Uint16, v \in greaseValues PROVE isGREASEUint16(v)
  <2> v \in Int
    BY DEF Uint16
  <2>1. PICK n \in 0 .. 15 : v = 2570 + 4112 * n
    BY <1>2 DEF greaseValues
  <2>2. PICK b \in 0 .. 255 : b = 16 * n + 10 /\ b % 16 = 10 /\ v = 257 * b
    BY <2>1, TableEntry
  <2>3. QED
    BY <2>2, EqualBytes DEF isGREASEUint16
<1>3. QED
  BY <1>1, <1>2

LEMMA GreaseSet == Greased = greaseValues /\ greaseValues \subseteq Uint16
<1>1. greaseValues \subseteq Uint16
  BY DEF greaseValues, Uint16
<1> QED BY <1>1, GreaseTablesAgree DEF Greased

-----------------------------------------------------------------------------
LEMMA MarkedType ==
    ASSUME NEW s \in Seq(Uint16)
    PROVE  /\ s \in Seq(Int)
           /\ Marked(s) \in Seq(Int) /\ DOMAIN Marked(s) = DOMAIN s
           /\ \A i \in DOMAIN s : Marked(s)[i] = IF s[i] \in greaseValues THEN G ELSE s[i]
<1>1. Uint16 \subseteq Int
  BY DEF Uint16
<1>2. Len(s) \in Nat /\ DOMAIN s = 1 .. Len(s)
  BY PlacesFinite
<1>3. s \in Seq(Int)
  BY <1>1, SeqMonotonic
<1>4. Marked(s) = [i \in DOMAIN s |-> IF s[i] \in greaseValues THEN G ELSE s[i]]
  BY DEF Marked
<1>5. G \in Int
  BY DEF G
<1>6. Marked(s) \in [1 .. Len(s) -> Int]
  <2>1. \A i \in DOMAIN s : s[i] \in Int
    BY <1>3, <1>2, ElementOfSeq
  <2> QED BY <1>2, <1>4, <1>5, <2>1
<1>7. Marked(s) \in Seq(Int)
  BY <1>2, <1>6
<1> QED BY <1>3, <1>4, <1>7

LEMMA SameOrderPrintsAlike ==
    ASSUME NEW s \in Seq(Uint16), NEW t \in Seq(Uint16), SameOrder(s, t)
    PROVE  /\ NoGrease(s) = NoGrease(t)
           /\ Ungreased(s) = Ungreased(t)
           /\ Marked(s) = Marked(t)
<1>1. /\ DOMAIN s = DOMAIN t
      /\ \A i \in DOMAIN s : s[i] \in greaseValues <=> t[i] \in greaseValues
      /\ \A i \in DOMAIN s : s[i] \notin greaseValues => s[i] = t[i]
  BY DEF SameOrder, Alike
<1>2. Without(s, greaseValues) = Without(t, greaseValues)
  BY <1>1, WithoutSame
<1>3. Marked(s) = Marked(t)
  BY <1>1 DEF Marked
<1> QED BY <1>2, <1>3, GreaseSet DEF NoGrease, Ungreased

(* What is left when GREASE goes, or when it stays.                        *)
LEMMA PairedWithoutGrease ==
    ASSUME NEW s \in Seq(Uint16), NEW t \in Seq(Uint16), Paired(s, t),
           NEW S, greaseValues \subseteq S \/ \A v \in S : v \notin greaseValues
    PROVE  /\ Without(s, S) \in Seq(Uint16) /\ Without(t, S) \in Seq(Uint16)
           /\ Paired(Without(s, S), Without(t, S))
<1>1. PICK p \in Bijection(DOMAIN s, DOMAIN t) : \A i \in DOMAIN s : Alike(s[i], t[p[i]])
  BY DEF Paired
<1>2. \A i \in DOMAIN s : s[i] \in S <=> t[p[i]] \in S
  BY <1>1 DEF Alike
<1>3. PICK q \in Bijection(DOMAIN Without(s, S), DOMAIN Without(t, S)) :
          \A k \in DOMAIN Without(s, S) : \E i \in DOMAIN s :
              /\ s[i] \notin S
              /\ Without(s, S)[k] = s[i]
              /\ Without(t, S)[q[k]] = t[p[i]]
  BY <1>2, WithoutPaired
<1>4. \A k \in DOMAIN Without(s, S) : Alike(Without(s, S)[k], Without(t, S)[q[k]])
  BY <1>1, <1>3
<1> QED BY <1>4, WithoutType DEF Paired

(* Sorted, both lists are the same: without GREASE, or with all of it      *)
(* under one mark.                                                         *)
LEMMA PairedSorted ==
    ASSUME NEW s \in Seq(Uint16), NEW t \in Seq(Uint16), Paired(s, t)
    PROVE  /\ Len(s) = Len(t)
           /\ Sorted(Marked(s)) = Sorted(Marked(t))
           /\ (\A i \in DOMAIN s : s[i] \notin greaseValues) => Sorted(s) = Sorted(t)
           /\ \A v \in Uint16 \ greaseValues :
                  (\E i \in DOMAIN s : s[i] = v) <=> (\E i \in DOMAIN t : t[i] = v)
<1>1. PICK p \in Bijection(DOMAIN s, DOMAIN t) : \A i \in DOMAIN s : Alike(s[i], t[p[i]])
  BY DEF Paired
<1>2. /\ \A i \in DOMAIN s : p[i] \in DOMAIN t
      /\ \A j \in DOMAIN t : \E i \in DOMAIN s : p[i] = j
  BY <1>1, Fun_BijectionProperties
<1>3. /\ Len(s) \in Nat /\ Len(t) \in Nat /\ DOMAIN s = 1 .. Len(s) /\ DOMAIN t = 1 .. Len(t)
      /\ IsFiniteSet(DOMAIN s)
      /\ Cardinality(DOMAIN s) = Len(s) /\ Cardinality(DOMAIN t) = Len(t)
  BY PlacesFinite
<1>4. Len(s) = Len(t)
  <2>1. DOMAIN s \in SUBSET DOMAIN s /\ DOMAIN t \in SUBSET DOMAIN t
    OBVIOUS
  <2>2. Cardinality(DOMAIN s) = Cardinality(DOMAIN t)
    BY <1>2, <1>3, <2>1, SameCount
  <2> QED BY <1>3, <2>2
<1>5. Sorted(Marked(s)) = Sorted(Marked(t))
  <2>1. /\ Marked(s) \in Seq(Int) /\ DOMAIN Marked(s) = DOMAIN s
        /\ Marked(t) \in Seq(Int) /\ DOMAIN Marked(t) = DOMAIN t
    BY MarkedType
  <2>2. \A i \in DOMAIN s : Marked(s)[i] = Marked(t)[p[i]]
    <3> SUFFICES ASSUME NEW i \in DOMAIN s PROVE Marked(s)[i] = Marked(t)[p[i]]
      OBVIOUS
    <3>1. p[i] \in DOMAIN t /\ Alike(s[i], t[p[i]])
      BY <1>1, <1>2
    <3>2. /\ Marked(s)[i] = IF s[i] \in greaseValues THEN G ELSE s[i]
          /\ Marked(t)[p[i]] = IF t[p[i]] \in greaseValues THEN G ELSE t[p[i]]
      BY <3>1, MarkedType
    <3> QED BY <3>1, <3>2 DEF Alike
  <2> QED BY <2>1, <2>2, SortedPaired
<1>6. ASSUME \A i \in DOMAIN s : s[i] \notin greaseValues PROVE Sorted(s) = Sorted(t)
  <2>1. \A i \in DOMAIN s : s[i] = t[p[i]]
    BY <1>1, <1>6 DEF Alike
  <2>2. s \in Seq(Int) /\ t \in Seq(Int)
    BY MarkedType
  <2> QED BY <2>1, <2>2, SortedPaired
<1>7. ASSUME NEW v \in Uint16 \ greaseValues
      PROVE  (\E i \in DOMAIN s : s[i] = v) <=> (\E i \in DOMAIN t : t[i] = v)
  <2>1. \A i \in DOMAIN s : s[i] = v <=> t[p[i]] = v
    BY <1>1 DEF Alike
  <2> QED BY <1>2, <2>1
<1> QED BY <1>4, <1>5, <1>6, <1>7

-----------------------------------------------------------------------------
(* The other direction: what the fingerprints print tells what they are    *)
(* printed from.  Lists that are sorted into the same list have the same   *)
(* elements.                                                               *)
LEMMA SortedTells ==
    ASSUME NEW s \in Seq(Int), NEW t \in Seq(Int), Sorted(s) = Sorted(t)
    PROVE  /\ DOMAIN s = DOMAIN t
           /\ \E p \in Bijection(DOMAIN s, DOMAIN t) : \A i \in DOMAIN s : s[i] = t[p[i]]
<1>1. DOMAIN s = DOMAIN t
  BY SortedAtPlace
<1>2. PICK f \in Bijection(DOMAIN s, DOMAIN s) : \A i \in DOMAIN s : Sorted(s)[f[i]] = s[i]
  BY SortedSorts
<1>3. PICK g \in Bijection(DOMAIN t, DOMAIN t) : \A i \in DOMAIN t : Sorted(t)[g[i]] = t[i]
  BY SortedSorts
<1> DEFINE h == Inverse(g, DOMAIN t, DOMAIN t)
           p == [i \in DOMAIN s |-> h[f[i]]]
<1>4. h \in Bijection(DOMAIN t, DOMAIN t) /\ \A i \in DOMAIN t : g[h[i]] = i
  BY Fun_BijInverse, Fun_BijectionProperties
<1>5. p \in Bijection(DOMAIN s, DOMAIN t)
  BY <1>1, <1>2, <1>4, Fun_BijTransitive
<1>6. ASSUME NEW i \in DOMAIN s PROVE s[i] = t[p[i]]
  <2>1. f[i] \in DOMAIN t /\ p[i] = h[f[i]] /\ p[i] \in DOMAIN t
    BY <1>1, <1>2, <1>4, Fun_BijectionProperties
  <2>2. g[p[i]] = f[i]
    BY <1>4, <2>1
  <2> QED BY <1>2, <1>3, <2>1, <2>2
<1> HIDE DEF p
<1> QED BY <1>1, <1>5, <1>6

LEMMA MarkIsNoCodePoint == G \notin Uint16
BY DEF G, Uint16

LEMMA MarkTells ==
    ASSUME NEW a \in Uint16, NEW b \in Uint16,
           (IF a \in greaseValues THEN G ELSE a) = (IF b \in greaseValues THEN G ELSE b)
    PROVE  Alike(a, b)
BY MarkIsNoCodePoint DEF Alike

LEMMA MarkedTells ==
    ASSUME NEW s \in Seq(Uint16), NEW t \in Seq(Uint16), Marked(s) = Marked(t)
    PROVE  SameOrder(s, t)
<1>1. /\ \A i \in DOMAIN s : s[i] \in Uint16
      /\ \A i \in DOMAIN t : t[i] \in Uint16
  BY PlacesFinite, ElementOfSeq
<1>2. DOMAIN s = DOMAIN t
  BY MarkedType
<1>3. ASSUME NEW i \in DOMAIN s PROVE Alike(s[i], t[i])
  <2>1. (IF s[i] \in greaseValues THEN G ELSE s[i])
          = (IF t[i] \in greaseValues THEN G ELSE t[i])
    BY <1>2, MarkedType
  <2> QED BY <1>1, <1>2, <2>1, MarkTells
<1> QED BY <1>2, <1>3 DEF SameOrder

(* Where r pairs what is left of two lists, it pairs the places of the     *)
(* elements that stay.                                                     *)
LEMMA PlacesPaired ==
    ASSUME NEW T, NEW s \in Seq(T), NEW t \in Seq(T), NEW S,
           NEW r \in Bijection(DOMAIN Without(s, S), DOMAIN Without(t, S))
    PROVE  \E f \in Bijection(Stays(s, S), Stays(t, S)) :
              \A i \in Stays(s, S) : \E k \in DOMAIN Without(s, S) :
                  s[i] = Without(s, S)[k] /\ t[f[i]] = Without(t, S)[r[k]]
<1> DEFINE P == Stays(s, S)
           Q == Stays(t, S)
           m == Cardinality(P)
           n == Cardinality(Q)
           kthP(k) == KthSmallest(P, k)
           kthQ(k) == KthSmallest(Q, k)
           rankP(i) == Cardinality({j \in P : j <= i})
           rankQ(i) == Cardinality({j \in Q : j <= i})
           f == [i \in P |-> kthQ(r[rankP(i)])]
<1>1. /\ IsFiniteSet(P) /\ \A i \in P : i \in Nat
      /\ IsFiniteSet(Q) /\ \A i \in Q : i \in Nat
  BY StaysFinite
<1>2. /\ \A k \in 1 .. m : kthP(k) \in P /\ rankP(kthP(k)) = k
      /\ \A i \in P : rankP(i) \in 1 .. m /\ kthP(rankP(i)) = i
  BY <1>1, KthOfRank
<1>3. /\ \A k \in 1 .. n : kthQ(k) \in Q /\ rankQ(kthQ(k)) = k
      /\ \A i \in Q : rankQ(i) \in 1 .. n /\ kthQ(rankQ(i)) = i
  BY <1>1, KthOfRank
<1>4. /\ Without(s, S) = [k \in 1 .. m |-> s[kthP(k)]]
      /\ Without(t, S) = [k \in 1 .. n |-> t[kthQ(k)]]
  BY WithoutKeepsOrder
<1> HIDE DEF P, Q, m, n, kthP, kthQ, rankP, rankQ
<1>5. /\ DOMAIN Without(s, S) = 1 .. m /\ DOMAIN Without(t, S) = 1 .. n
  BY <1>4
<1>6. /\ \A k \in 1 .. m : r[k] \in 1 .. n
      /\ \A j, k \in 1 .. m : r[j] = r[k] => j = k
      /\ \A k \in 1 .. n : \E j \in 1 .. m : r[j] = k
  <2> DEFINE M == 1 .. m
             N == 1 .. n
  <2>1. r \in Bijection(M, N)
    BY <1>5
  <2> HIDE DEF M, N, f
  <2>2. /\ \A k \in M : r[k] \in N
        /\ \A j, k \in M : r[j] = r[k] => j = k
        /\ \A k \in N : \E j \in M : r[j] = k
    BY <2>1, Fun_BijectionProperties
  <2> QED BY <2>2 DEF M, N
<1>7. \A i \in P : f[i] = kthQ(r[rankP(i)]) /\ f[i] \in Q /\ rankQ(f[i]) = r[rankP(i)]
  BY <1>2, <1>3, <1>6
<1>8. f \in [P -> Q]
  BY <1>7
<1>9. \A i, j \in P : f[i] = f[j] => i = j
  <2> SUFFICES ASSUME NEW i \in P, NEW j \in P, f[i] = f[j] PROVE i = j
    OBVIOUS
  <2>1. rankP(i) = rankP(j)
    BY <1>2, <1>6, <1>7
  <2> QED BY <1>2, <2>1
<1>10. \A j \in Q : \E i \in P : f[i] = j
  <2> SUFFICES ASSUME NEW j \in Q PROVE \E i \in P : f[i] = j
    OBVIOUS
  <2>1. PICK k \in 1 .. m : r[k] = rankQ(j)
    BY <1>3, <1>6
  <2>2. kthP(k) \in P /\ rankP(kthP(k)) = k
    BY <1>2
  <2>3. f[kthP(k)] = j
    BY <1>3, <1>7, <2>1, <2>2
  <2> QED BY <2>2, <2>3
<1> HIDE DEF f
<1>11. f \in Bijection(P, Q)
  BY <1>8, <1>9, <1>10, Fun_IsBij
<1>12. ASSUME NEW i \in P
       PROVE  \E k \in 1 .. m : s[i] = Without(s, S)[k] /\ t[f[i]] = Without(t, S)[r[k]]
  <2>1. rankP(i) \in 1 .. m /\ r[rankP(i)] \in 1 .. n
    BY <1>2, <1>6
  <2>2. s[i] = Without(s, S)[rankP(i)]
    BY <1>2, <1>4, <2>1
  <2>3. t[f[i]] = Without(t, S)[r[rankP(i)]]
    BY <1>4, <1>7, <2>1
  <2> QED BY <2>1, <2>2, <2>3
<1> QED BY <1>5, <1>11, <1>12 DEF P, Q

(* Of the extensions JA3 keeps all but GREASE, and PeetPrint all but the   *)
(* server name and padding: the first pairs the places of these two, the   *)
(* other one the rest.                                                     *)
LEMMA ExtensionsTell ==
    ASSUME NEW s \in Seq(Uint16), NEW t \in Seq(Uint16),
           Sorted(NoGrease(s)) = Sorted(NoGrease(t)),
           Sorted(Marked(Without(s, Unsized))) = Sorted(Marked(Without(t, Unsized)))
    PROVE  Paired(s, t)
<1> DEFINE pad == Unsized
           A == Stays(s, pad)
           B == Stays(t, pad)
           C == Stays(s, greaseValues)
           D == Stays(t, greaseValues)
<1>0. /\ \A v \in pad : v \notin greaseValues
      /\ Sorted(Marked(Without(s, pad))) = Sorted(Marked(Without(t, pad)))
  BY DEF Unsized, Padding, SNI, greaseValues
<1> HIDE DEF pad
<1>1. PICK f \in Bijection(A, B) : \A i \in A : Alike(s[i], t[f[i]])
  <2> DEFINE u == Without(s, pad)
             w == Without(t, pad)
  <2>1. u \in Seq(Uint16) /\ w \in Seq(Uint16)
    BY WithoutType
  <2>2. Sorted(Marked(u)) = Sorted(Marked(w))
    BY <1>0
  <2> HIDE DEF u, w
  <2>3. /\ Marked(u) \in Seq(Int) /\ DOMAIN Marked(u) = DOMAIN u
        /\ Marked(w) \in Seq(Int) /\ DOMAIN Marked(w) = DOMAIN w
        /\ \A k \in DOMAIN u : Marked(u)[k] = IF u[k] \in greaseValues THEN G ELSE u[k]
        /\ \A k \in DOMAIN w : Marked(w)[k] = IF w[k] \in greaseValues THEN G ELSE w[k]
    BY <2>1, MarkedType
  <2>4. \E r \in Bijection(DOMAIN Marked(u), DOMAIN Marked(w)) :
            \A k \in DOMAIN Marked(u) : Marked(u)[k] = Marked(w)[r[k]]
    BY <2>2, <2>3, SortedTells
  <2>5. PICK r \in Bijection(DOMAIN u, DOMAIN w) :
            \A k \in DOMAIN u : Marked(u)[k] = Marked(w)[r[k]]
    BY <2>3, <2>4
  <2>6. ASSUME NEW k \in DOMAIN u PROVE Alike(u[k], w[r[k]])
    <3>1. r[k] \in DOMAIN w
      BY <2>5, Fun_BijectionProperties
    <3>2. u[k] \in Uint16 /\ w[r[k]] \in Uint16
      BY <2>1, <3>1, PlacesFinite, ElementOfSeq
    <3>3. (IF u[k] \in greaseValues THEN G ELSE u[k])
            = (IF w[r[k]] \in greaseValues THEN G ELSE w[r[k]])
      BY <2>3, <2>5, <3>1
    <3> QED BY <3>2, <3>3, MarkTells
  <2>7. r \in Bijection(DOMAIN Without(s, pad), DOMAIN Without(t, pad))
    BY <2>5 DEF u, w
  <2>8. \E f \in Bijection(A, B) : \A i \in A : \E k \in DOMAIN Without(s, pad) :
            s[i] = Without(s, pad)[k] /\ t[f[i]] = Without(t, pad)[r[k]]
    BY <2>7, PlacesPaired
  <2>9. \A k \in DOMAIN Without(s, pad) :
            Alike(Without(s, pad)[k], Without(t, pad)[r[k]])
    BY <2>6 DEF u, w
  <2> HIDE DEF A, B
  <2> QED BY <2>8, <2>9
<1>2. PICK g \in Bijection(C, D) : \A i \in C : s[i] = t[g[i]]
  <2> DEFINE u == Without(s, greaseValues)
             w == Without(t, greaseValues)
  <2>1. u \in Seq(Uint16) /\ w \in Seq(Uint16)
    BY WithoutType
  <2>2. Sorted(u) = Sorted(w)
    BY DEF NoGrease
  <2> HIDE DEF u, w
  <2>3. PICK r \in Bijection(DOMAIN u, DOMAIN w) : \A k \in DOMAIN u : u[k] = w[r[k]]
    BY <2>1, <2>2, MarkedType, SortedTells
  <2>4. r \in Bijection(DOMAIN Without(s, greaseValues), DOMAIN Without(t, greaseValues))
    BY <2>3 DEF u, w
  <2>5. \E g \in Bijection(C, D) : \A i \in C : \E k \in DOMAIN Without(s, greaseValues) :
            s[i] = Without(s, greaseValues)[k] /\ t[g[i]] = Without(t, greaseValues)[r[k]]
    BY <2>4, PlacesPaired
  <2>6. \A k \in DOMAIN Without(s, greaseValues) :
            Without(s, greaseValues)[k] = Without(t, greaseValues)[r[k]]
    BY <2>3 DEF u, w
  <2> HIDE DEF C, D
  <2> QED BY <2>5, <2>6
<1>3. /\ \A i \in DOMAIN s : i \in A <=> s[i] \notin pad
      /\ \A i \in DOMAIN t : i \in B <=> t[i] \notin pad
      /\ \A i \in DOMAIN s : s[i] \in pad => i \in C
      /\ \A i \in DOMAIN t : t[i] \in pad => i \in D
      /\ A \subseteq DOMAIN s /\ B \subseteq DOMAIN t
      /\ C \subseteq DOMAIN s /\ D \subseteq DOMAIN t
  BY <1>0 DEF Stays
<1> HIDE DEF A, B, C, D
<1>4. /\ \A i \in A : f[i] \in B
      /\ \A i, j \in A : f[i] = f[j] => i = j
      /\ \A j \in B : \E i \in A : f[i] = j
      /\ \A i \in C : g[i] \in D
      /\ \A i, j \in C : g[i] = g[j] => i = j
      /\ \A j \in D : \E i \in C : g[i] = j
  BY <1>1, <1>2, Fun_BijectionProperties
<1> DEFINE p == [i \in DOMAIN s |-> IF i \in A THEN f[i] ELSE g[i]]
<1>5. \A i \in DOMAIN s : IF i \in A THEN p[i] = f[i] /\ p[i] \in B
                          ELSE p[i] = g[i] /\ i \in C /\ t[p[i]] \in pad /\ s[i] \in pad
                               /\ p[i] \in DOMAIN t /\ p[i] \notin B
  BY <1>2, <1>3, <1>4
<1> HIDE DEF p
<1>6. \A i \in DOMAIN s : p[i] \in DOMAIN t /\ Alike(s[i], t[p[i]])
  <2> SUFFICES ASSUME NEW i \in DOMAIN s PROVE p[i] \in DOMAIN t /\ Alike(s[i], t[p[i]])
    OBVIOUS
  <2>1. CASE i \in A
    <3>1. p[i] = f[i] /\ p[i] \in B
      BY <1>5, <2>1
    <3> QED BY <1>1, <1>3, <2>1, <3>1
  <2>2. CASE i \notin A
    <3>1. p[i] = g[i] /\ i \in C /\ p[i] \in DOMAIN t
      BY <1>5, <2>2
    <3>2. s[i] = t[p[i]]
      BY <1>2, <3>1
    <3> QED BY <3>1, <3>2 DEF Alike
  <2> QED BY <2>1, <2>2
<1>7. \A i, j \in DOMAIN s : p[i] = p[j] => i = j
  BY <1>4, <1>5
<1>8. \A j \in DOMAIN t : \E i \in DOMAIN s : p[i] = j
  <2> SUFFICES ASSUME NEW j \in DOMAIN t PROVE \E i \in DOMAIN s : p[i] = j
    OBVIOUS
  <2>1. CASE j \in B
    BY <1>3, <1>4, <1>5, <2>1
  <2>2. CASE j \notin B
    <3>1. PICK i \in C : g[i] = j
      BY <1>3, <1>4, <2>2
    <3>2. s[i] \in pad
      BY <1>2, <1>3, <2>2, <3>1
    <3> QED BY <1>3, <1>5, <3>1, <3>2
  <2> QED BY <2>1, <2>2
<1>9. p \in [DOMAIN s -> DOMAIN t]
  BY <1>6 DEF p
<1>10. p \in Bijection(DOMAIN s, DOMAIN t)
  BY <1>7, <1>8, <1>9, Fun_IsBij
<1> QED BY <1>6, <1>10 DEF Paired

-----------------------------------------------------------------------------
(* Hellos that are the same but for what is drawn are printed alike.       *)
LEMMA HelloFields ==
    ASSUME NEW h \in Hellos
    PROVE  /\ h.ciphers \in Seq(Uint16) /\ h.extensions \in Seq(Uint16)
           /\ h.groups \in Seq(Uint16) /\ h.versions \in Seq(Uint16)
           /\ h.compAlgs \in Seq(Uint16) /\ h.keyShares \in Seq(Uint16)
           /\ h.points \in Seq(Uint16) /\ h.points \in Seq(Int)
           /\ \A i \in DOMAIN h.points : h.points[i] \notin greaseValues
<1>1. h.points \in Seq(Byte)
  BY DEF Hellos
<1>2. /\ Byte \subseteq Uint16 /\ Byte \subseteq Int
      /\ \A v \in Byte : v \notin greaseValues
  <2>1. \A v \in Byte : v \in Uint16 /\ v \in Int
    BY DEF Byte, Uint16
  <2>2. \A n \in 0 .. 15 : 2570 + 4112 * n > 255
    OBVIOUS
  <2>3. \A v \in greaseValues : v > 255
    BY <2>2 DEF greaseValues
  <2>4. \A v \in Byte : ~(v > 255)
    BY DEF Byte
  <2> QED BY <2>1, <2>3, <2>4
<1>3. h.points \in Seq(Uint16) /\ h.points \in Seq(Int)
  BY <1>1, <1>2, SeqMonotonic
<1>4. \A i \in DOMAIN h.points : h.points[i] \in Byte
  BY <1>1, PlacesFinite, ElementOfSeq
<1> QED BY <1>2, <1>3, <1>4 DEF Hellos

LEMMA SameFields ==
    ASSUME NEW h \in Hellos, NEW k \in Hellos, SameButDrawn(h, k)
    PROVE  /\ h.version = k.version /\ h.sigAlgs = k.sigAlgs /\ h.pskModes = k.pskModes
           /\ formatALPN(h.alpn) = formatALPN(k.alpn) /\ FirstALPN(h) = FirstALPN(k)
           /\ Sorted(h.points) = Sorted(k.points)
           /\ NoGrease(h.ciphers) = NoGrease(k.ciphers)
           /\ NoGrease(h.groups) = NoGrease(k.groups)
           /\ Ungreased(h.ciphers) = Ungreased(k.ciphers)
           /\ Ungreased(h.versions) = Ungreased(k.versions)
           /\ Marked(h.ciphers) = Marked(k.ciphers) /\ Marked(h.groups) = Marked(k.groups)
           /\ Marked(h.versions) = Marked(k.versions)
           /\ Marked(h.compAlgs) = Marked(k.compAlgs)
           /\ Marked(h.keyShares) = Marked(k.keyShares)
<1>1. /\ SameOrder(h.ciphers, k.ciphers) /\ SameOrder(h.groups, k.groups)
      /\ SameOrder(h.versions, k.versions) /\ SameOrder(h.compAlgs, k.compAlgs)
      /\ SameOrder(h.keyShares, k.keyShares) /\ Paired(h.points, k.points)
  BY DEF SameButDrawn
<1>2. NoGrease(h.ciphers) = NoGrease(k.ciphers) /\ NoGrease(h.groups) = NoGrease(k.groups)
  BY <1>1, HelloFields, SameOrderPrintsAlike
<1>3. /\ Ungreased(h.ciphers) = Ungreased(k.ciphers)
      /\ Ungreased(h.versions) = Ungreased(k.versions)
  BY <1>1, HelloFields, SameOrderPrintsAlike
<1>4. /\ Marked(h.ciphers) = Marked(k.ciphers) /\ Marked(h.groups) = Marked(k.groups)
      /\ Marked(h.versions) = Marked(k.versions)
  BY <1>1, HelloFields, SameOrderPrintsAlike
<1>5. Marked(h.compAlgs) = Marked(k.compAlgs) /\ Marked(h.keyShares) = Marked(k.keyShares)
  BY <1>1, HelloFields, SameOrderPrintsAlike
<1>6. Sorted(h.points) = Sorted(k.points)
  BY <1>1, HelloFields, PairedSorted
<1> QED BY <1>2, <1>3, <1>4, <1>5, <1>6 DEF SameButDrawn

(* What the three packages take from the list of extensions.               *)
LEMMA SameExtensions ==
    ASSUME NEW h \in Hellos, NEW k \in Hellos, SameButDrawn(h, k)
    PROVE  /\ Sorted(NoGrease(h.extensions)) = Sorted(NoGrease(k.extensions))
           /\ Len(Ungreased(h.extensions)) = Len(Ungreased(k.extensions))
           /\ unmarshalExtensions(h) = unmarshalExtensions(k)
           /\ formatExtsSorted(extensionIDs(h)) = formatExtsSorted(extensionIDs(k))
           /\ ContainsExtension(h, SNI) = ContainsExtension(k, SNI)
           /\ ContainsExtension(h, SupportedVersions) = ContainsExtension(k, SupportedVersions)
<1> DEFINE e == h.extensions
           f == k.extensions
           named == {SNI, ALPN}
<1>1. e \in Seq(Uint16) /\ f \in Seq(Uint16) /\ Paired(e, f)
  BY HelloFields DEF SameButDrawn
<1>2. /\ \A v \in named : v \notin greaseValues
      /\ \A v \in Unsized : v \notin greaseValues
      /\ SNI \in Uint16 \ greaseValues /\ SupportedVersions \in Uint16 \ greaseValues
  BY DEF greaseValues, SNI, ALPN, Padding, Unsized, SupportedVersions, Uint16
<1> HIDE DEF e, f, named
<1>3. /\ Without(e, greaseValues) \in Seq(Uint16) /\ Without(f, greaseValues) \in Seq(Uint16)
      /\ Paired(Without(e, greaseValues), Without(f, greaseValues))
  BY <1>1, PairedWithoutGrease
<1>4. \A i \in DOMAIN Without(e, greaseValues) : Without(e, greaseValues)[i] \notin greaseValues
  BY <1>1, WithoutType
<1>5. Sorted(Without(e, greaseValues)) = Sorted(Without(f, greaseValues))
  BY <1>3, <1>4, PairedSorted
<1>6. Len(Without(e, greaseValues)) = Len(Without(f, greaseValues))
  BY <1>3, PairedSorted
<1>7. Sorted(Without(Without(e, greaseValues), named))
        = Sorted(Without(Without(f, greaseValues), named))
  <2> DEFINE u == Without(e, greaseValues)
             w == Without(f, greaseValues)
  <2>1. u \in Seq(Uint16) /\ w \in Seq(Uint16) /\ Paired(u, w)
    BY <1>3
  <2>2. \A i \in DOMAIN u : u[i] \notin greaseValues
    BY <1>4
  <2> HIDE DEF u, w
  <2>3. /\ Without(u, named) \in Seq(Uint16) /\ Without(w, named) \in Seq(Uint16)
        /\ Paired(Without(u, named), Without(w, named))
    BY <1>2, <2>1, PairedWithoutGrease
  <2>4. \A i \in DOMAIN Without(u, named) : Without(u, named)[i] \notin greaseValues
    BY <2>1, <2>2, WithoutType
  <2>5. Sorted(Without(u, named)) = Sorted(Without(w, named))
    BY <2>3, <2>4, PairedSorted
  <2> QED BY <2>5 DEF u, w
<1>8. /\ Without(e, Unsized) \in Seq(Uint16) /\ Without(f, Unsized) \in Seq(Uint16)
      /\ Paired(Without(e, Unsized), Without(f, Unsized))
  BY <1>1, <1>2, PairedWithoutGrease
<1>9. Sorted(Marked(Without(e, Unsized))) = Sorted(Marked(Without(f, Unsized)))
  BY <1>8, PairedSorted
<1>10. \A v \in {SNI, SupportedVersions} :
           (\E i \in DOMAIN e : e[i] = v) <=> (\E i \in DOMAIN f : f[i] = v)
  BY <1>1, <1>2, PairedSorted
<1>11. /\ ContainsExtension(h, SNI) <=> ContainsExtension(k, SNI)
       /\ ContainsExtension(h, SupportedVersions) <=> ContainsExtension(k, SupportedVersions)
  BY <1>10 DEF ContainsExtension, e, f
<1>12. ContainsExtension(h, SNI) \in BOOLEAN /\ ContainsExtension(k, SNI) \in BOOLEAN
       /\ ContainsExtension(h, SupportedVersions) \in BOOLEAN
       /\ ContainsExtension(k, SupportedVersions) \in BOOLEAN
  BY DEF ContainsExtension
<1>13. /\ NoGrease(e) = Without(e, greaseValues) /\ NoGrease(f) = Without(f, greaseValues)
       /\ Ungreased(e) = Without(e, greaseValues) /\ Ungreased(f) = Without(f, greaseValues)
  BY GreaseSet DEF NoGrease, Ungreased
<1>14. /\ Sorted(NoGrease(e)) = Sorted(NoGrease(f))
       /\ Len(Ungreased(e)) = Len(Ungreased(f))
       /\ Sorted(Without(Ungreased(e), named)) = Sorted(Without(Ungreased(f), named))
  BY <1>5, <1>6, <1>7, <1>13
<1>15. /\ unmarshalExtensions(h) = unmarshalExtensions(k)
       /\ formatExtsSorted(extensionIDs(h)) = formatExtsSorted(extensionIDs(k))
  BY <1>9, <1>14 DEF unmarshalExtensions, formatExtsSorted, extensionIDs, e, f, named
<1> QED BY <1>11, <1>12, <1>14, <1>15 DEF e, f

LEMMA SameFingerprints ==
    ASSUME NEW h \in Hellos, NEW k \in Hellos, SameButDrawn(h, k)
    PROVE  Fingerprints(h) = Fingerprints(k)
<1> USE SameFields
<1>1. SortedBare(h) = SortedBare(k)
  <2>1. /\ Sorted(NoGrease(h.extensions)) = Sorted(NoGrease(k.extensions))
    BY SameExtensions
  <2>2. ASSUME NEW g
        PROVE  SortedBare(g) = [i \in 1 .. 5 |->
                   IF i = 1 THEN <<g.version>> ELSE IF i = 2 THEN Sorted(NoGrease(g.ciphers))
                   ELSE IF i = 3 THEN Sorted(NoGrease(g.extensions))
                   ELSE IF i = 4 THEN Sorted(NoGrease(g.groups)) ELSE Sorted(g.points)]
    BY DEF SortedBare, Bare
  <2> QED BY <2>1, <2>2
<1>2. unmarshalTLSVersion(h) = unmarshalTLSVersion(k)
  BY SameExtensions DEF unmarshalTLSVersion
<1>3. FirstALPN(h) = FirstALPN(k)
  OBVIOUS
<1>4. JA4(h) = JA4(k)
  <2>1. TLSVersion(h) = TLSVersion(k)
    BY <1>2 DEF TLSVersion
  <2>2. /\ Count(Ungreased(h.ciphers)) = Count(Ungreased(k.ciphers))
        /\ Count(Ungreased(h.extensions)) = Count(Ungreased(k.extensions))
    BY SameExtensions DEF Count
  <2>3. /\ ContainsExtension(h, SNI) = ContainsExtension(k, SNI)
        /\ unmarshalExtensions(h) = unmarshalExtensions(k)
        /\ Sorted(Ungreased(h.ciphers)) = Sorted(Ungreased(k.ciphers))
        /\ h.sigAlgs = k.sigAlgs
    BY SameExtensions
  <2> QED BY <1>3, <2>1, <2>2, <2>3 DEF JA4
<1>5. PeetPrint(h) = PeetPrint(k)
  BY SameExtensions DEF PeetPrint
<1> QED BY <1>1, <1>4, <1>5 DEF Fingerprints

(* What the fingerprints tell of the hello they are printed from.          *)
LEMMA PrintedFields ==
    ASSUME NEW h
    PROVE  /\ Fingerprints(h).ja3[1] = <<h.version>>
           /\ Fingerprints(h).ja3[3] = Sorted(NoGrease(h.extensions))
           /\ Fingerprints(h).ja3[5] = Sorted(h.points)
           /\ Fingerprints(h).ja4.a[5] = FirstALPN(h)
           /\ Fingerprints(h).ja4.c[2] = h.sigAlgs
           /\ Fingerprints(h).peetPrint[1] = Marked(h.versions)
           /\ Fingerprints(h).peetPrint[2] = formatALPN(h.alpn)
           /\ Fingerprints(h).peetPrint[3] = Marked(h.groups)
           /\ Fingerprints(h).peetPrint[5] = h.pskModes
           /\ Fingerprints(h).peetPrint[6] = Marked(h.compAlgs)
           /\ Fingerprints(h).peetPrint[7] = Marked(h.ciphers)
           /\ Fingerprints(h).peetPrint[8]
                = Sorted(Marked(Without(h.extensions, Unsized)))
           /\ Fingerprints(h).peetPrint[9] = Marked(h.keyShares)
<1>1. /\ SortedBare(h)[1] = <<h.version>>
      /\ SortedBare(h)[3] = Sorted(NoGrease(h.extensions))
      /\ SortedBare(h)[5] = Sorted(h.points)
  BY DEF SortedBare, Bare
<1>2. JA4(h).a[5] = FirstALPN(h) /\ JA4(h).c[2] = h.sigAlgs
  BY DEF JA4
<1>3. PeetPrint(h)[8] = Sorted(Marked(Without(h.extensions, Unsized)))
  BY DEF PeetPrint, formatExtsSorted, extensionIDs
<1>4. /\ PeetPrint(h)[1] = Marked(h.versions) /\ PeetPrint(h)[2] = formatALPN(h.alpn)
      /\ PeetPrint(h)[3] = Marked(h.groups) /\ PeetPrint(h)[5] = h.pskModes
      /\ PeetPrint(h)[6] = Marked(h.compAlgs) /\ PeetPrint(h)[7] = Marked(h.ciphers)
      /\ PeetPrint(h)[9] = Marked(h.keyShares)
  BY DEF PeetPrint
<1>5. /\ Fingerprints(h).ja3 = SortedBare(h) /\ Fingerprints(h).ja4 = JA4(h)
      /\ Fingerprints(h).peetPrint = PeetPrint(h)
  BY DEF Fingerprints
<1> QED BY <1>1, <1>2, <1>3, <1>4, <1>5

(* The three fingerprints together, as the lists of values they consist    *)
(* of, tell hellos apart exactly as far as they differ in more than what a *)
(* stack draws anew for each connection, the order of its point formats    *)
(* and the spelling of HTTP versions after the first protocol: neither the *)
(* GREASE that ja3.go and ja4.go drop, nor the padding and the server name *)
(* that peetprint.go does not see, nor any of the sorts hides more than    *)
(* that.  Not covered is the text of the protocols: peetprint.go line 182  *)
(* joins their names with "-", which a name may contain.                   *)
THEOREM FingerprintsTell ==
    ASSUME NEW h \in Hellos, NEW k \in Hellos
    PROVE  Fingerprints(h) = Fingerprints(k) <=> SameButDrawn(h, k)
<1>1. ASSUME SameButDrawn(h, k) PROVE Fingerprints(h) = Fingerprints(k)
  BY <1>1, SameFingerprints
<1>2. ASSUME Fingerprints(h) = Fingerprints(k) PROVE SameButDrawn(h, k)
  <2>1. /\ <<h.version>> = <<k.version>>
        /\ Sorted(NoGrease(h.extensions)) = Sorted(NoGrease(k.extensions))
        /\ Sorted(h.points) = Sorted(k.points)
        /\ FirstALPN(h) = FirstALPN(k) /\ h.sigAlgs = k.sigAlgs
        /\ formatALPN(h.alpn) = formatALPN(k.alpn) /\ h.pskModes = k.pskModes
        /\ Marked(h.versions) = Marked(k.versions) /\ Marked(h.groups) = Marked(k.groups)
        /\ Marked(h.compAlgs) = Marked(k.compAlgs) /\ Marked(h.ciphers) = Marked(k.ciphers)
        /\ Marked(h.keyShares) = Marked(k.keyShares)
        /\ Sorted(Marked(Without(h.extensions, Unsized)))
             = Sorted(Marked(Without(k.extensions, Unsized)))
    <3> DEFINE Printed(x, m) ==
              /\ x.ja3[1] = <<m.version>> /\ x.ja3[3] = Sorted(NoGrease(m.extensions))
              /\ x.ja3[5] = Sorted(m.points)
              /\ x.ja4.a[5] = FirstALPN(m) /\ x.ja4.c[2] = m.sigAlgs
              /\ x.peetPrint[1] = Marked(m.versions) /\ x.peetPrint[2] = formatALPN(m.alpn)
              /\ x.peetPrint[3] = Marked(m.groups) /\ x.peetPrint[5] = m.pskModes
              /\ x.peetPrint[6] = Marked(m.compAlgs) /\ x.peetPrint[7] = Marked(m.ciphers)
              /\ x.peetPrint[8] = Sorted(Marked(Without(m.extensions, Unsized)))
              /\ x.peetPrint[9] = Marked(m.keyShares)
    <3>1. Printed(Fingerprints(h), h)
      BY PrintedFields
    <3>2. Printed(Fingerprints(k), k)
      BY PrintedFields
    <3>3. Printed(Fingerprints(h), k)
      <4> HIDE DEF Printed
      <4> QED BY <1>2, <3>2
    <3> QED BY <3>1, <3>3
  <2>2. h.version = k.version
    BY <2>1
  <2>3. /\ SameOrder(h.ciphers, k.ciphers) /\ SameOrder(h.groups, k.groups)
        /\ SameOrder(h.versions, k.versions)
    BY <2>1, HelloFields, MarkedTells
  <2>4. SameOrder(h.compAlgs, k.compAlgs) /\ SameOrder(h.keyShares, k.keyShares)
    BY <2>1, HelloFields, MarkedTells
  <2>5. Paired(h.extensions, k.extensions)
    BY <2>1, HelloFields, ExtensionsTell
  <2>6. Paired(h.points, k.points)
    <3>1. \E p \in Bijection(DOMAIN h.points, DOMAIN k.points) :
              \A i \in DOMAIN h.points : h.points[i] = k.points[p[i]]
      BY <2>1, HelloFields, SortedTells
    <3> QED BY <3>1 DEF Paired, Alike
  <2> QED BY <2>1, <2>2, <2>3, <2>4, <2>5, <2>6 DEF SameButDrawn
<1> QED BY <1>1, <1>2

-----------------------------------------------------------------------------
(* Hellos that one stack sends: they differ in GREASE, and in the order of *)
(* their extensions.                                                       *)
OfOneStack(h, k) ==
    /\ h \in Hellos /\ k \in Hellos
    /\ <<h.version, h.points, h.sigAlgs, h.alpn, h.pskModes, h.compAlgs>>
         = <<k.version, k.points, k.sigAlgs, k.alpn, k.pskModes, k.compAlgs>>
    /\ SameOrder(h.ciphers, k.ciphers) /\ SameOrder(h.groups, k.groups)
    /\ SameOrder(h.versions, k.versions) /\ SameOrder(h.keyShares, k.keyShares)
    /\ Paired(h.extensions, k.extensions)

LEMMA OneStackOneFingerprint ==
    ASSUME NEW h, NEW k, OfOneStack(h, k)
    PROVE  Fingerprints(h) = Fingerprints(k)
<1>1. /\ h \in Hellos /\ k \in Hellos
      /\ h.version = k.version /\ h.points = k.points /\ h.sigAlgs = k.sigAlgs
      /\ h.alpn = k.alpn /\ h.pskModes = k.pskModes /\ h.compAlgs = k.compAlgs
  BY DEF OfOneStack
<1>2. SameOrder(h.compAlgs, k.compAlgs)
  BY <1>1 DEF SameOrder, Alike
<1>3. Paired(h.points, k.points)
  <2> DEFINE id == [i \in DOMAIN h.points |-> i]
  <2>1. id \in Bijection(DOMAIN h.points, DOMAIN h.points)
    <3>1. id \in [DOMAIN h.points -> DOMAIN h.points]
      OBVIOUS
    <3> QED BY <3>1, Fun_IsBij
  <2>2. \A i \in DOMAIN h.points : Alike(h.points[i], h.points[id[i]])
    BY DEF Alike
  <2> HIDE DEF id
  <2> QED BY <1>1, <2>1, <2>2 DEF Paired
<1>4. FirstALPN(h) = FirstALPN(k) /\ formatALPN(h.alpn) = formatALPN(k.alpn)
  BY <1>1 DEF FirstALPN
<1>5. SameButDrawn(h, k)
  BY <1>1, <1>2, <1>3, <1>4 DEF OfOneStack, SameButDrawn
<1> QED BY <1>1, <1>5, FingerprintsTell

-----------------------------------------------------------------------------
(* What a connection draws.                                                *)
Orders == Bijection(DOMAIN stack.extensions, DOMAIN stack.extensions)
Draws == Bijection(DrawnGrease, DrawnGrease)

LEMMA DrawnInOrder ==
    ASSUME NEW s \in Seq(Uint16), NEW draw \in Draws
    PROVE  Drawn(s, draw) \in Seq(Uint16) /\ SameOrder(Drawn(s, draw), s)
<1>1. /\ Len(s) \in Nat /\ DOMAIN s = 1 .. Len(s) /\ \A i \in DOMAIN s : s[i] \in Uint16
  BY PlacesFinite, ElementOfSeq
<1>2. \A v \in DrawnGrease : draw[v] \in greaseValues /\ v \in greaseValues
  BY Fun_BijectionProperties, DrawnGreaseAssumption DEF Draws
<1>3. \A i \in DOMAIN s : Drawn(s, draw)[i] \in Uint16 /\ Alike(Drawn(s, draw)[i], s[i])
  BY <1>1, <1>2, GreaseSet DEF Drawn, Alike
<1>4. Drawn(s, draw) \in [1 .. Len(s) -> Uint16]
  BY <1>1, <1>3 DEF Drawn
<1>5. Drawn(s, draw) \in Seq(Uint16) /\ DOMAIN Drawn(s, draw) = DOMAIN s
  BY <1>1, <1>4
<1> QED BY <1>3, <1>5 DEF SameOrder

LEMMA ShuffledAndDrawn ==
    ASSUME NEW s \in Seq(Uint16), NEW order \in Bijection(DOMAIN s, DOMAIN s), NEW draw \in Draws
    PROVE  /\ Drawn(Shuffled(s, order), draw) \in Seq(Uint16)
           /\ Paired(Drawn(Shuffled(s, order), draw), s)
<1>1. /\ Len(s) \in Nat /\ DOMAIN s = 1 .. Len(s) /\ \A i \in DOMAIN s : s[i] \in Uint16
  BY PlacesFinite, ElementOfSeq
<1>2. \A i \in DOMAIN s : order[i] \in DOMAIN s
  BY Fun_BijectionProperties
<1> DEFINE t == Shuffled(s, order)
<1>3. DOMAIN t = DOMAIN s /\ \A i \in DOMAIN s : t[i] = s[order[i]]
  BY DEF Shuffled
<1>4. t \in [1 .. Len(s) -> Uint16]
  BY <1>1, <1>2, <1>3 DEF Shuffled
<1>5. t \in Seq(Uint16)
  BY <1>1, <1>4
<1> HIDE DEF t
<1>6. Drawn(t, draw) \in Seq(Uint16) /\ SameOrder(Drawn(t, draw), t)
  BY <1>5, DrawnInOrder
<1>7. /\ DOMAIN Drawn(t, draw) = DOMAIN s
      /\ \A i \in DOMAIN s : Alike(Drawn(t, draw)[i], s[order[i]])
  BY <1>3, <1>6 DEF SameOrder
<1>8. Paired(Drawn(t, draw), s)
  BY <1>7 DEF Paired
<1> QED BY <1>6, <1>8 DEF t

LEMMA AppendedPaired ==
    ASSUME NEW s \in Seq(Uint16), NEW t \in Seq(Uint16), Paired(s, t), NEW v \in Uint16
    PROVE  /\ Append(s, v) \in Seq(Uint16) /\ Append(t, v) \in Seq(Uint16)
           /\ Paired(Append(s, v), Append(t, v))
<1>1. PICK p \in Bijection(DOMAIN s, DOMAIN t) : \A i \in DOMAIN s : Alike(s[i], t[p[i]])
  BY DEF Paired
<1>2. /\ \A i \in DOMAIN s : p[i] \in DOMAIN t
      /\ \A i, j \in DOMAIN s : p[i] = p[j] => i = j
      /\ \A j \in DOMAIN t : \E i \in DOMAIN s : p[i] = j
  BY <1>1, Fun_BijectionProperties
<1> DEFINE n == Len(s)
           u == Append(s, v)
           w == Append(t, v)
           q == [i \in 1 .. n + 1 |-> IF i = n + 1 THEN n + 1 ELSE p[i]]
<1>3. /\ n \in Nat /\ DOMAIN s = 1 .. n
      /\ Len(t) = n /\ DOMAIN t = 1 .. n
  BY PairedSorted, PlacesFinite
<1>4. /\ u \in Seq(Uint16) /\ DOMAIN u = 1 .. n + 1 /\ u[n + 1] = v
      /\ \A i \in 1 .. n : u[i] = s[i]
      /\ w \in Seq(Uint16) /\ DOMAIN w = 1 .. n + 1 /\ w[n + 1] = v
      /\ \A i \in 1 .. n : w[i] = t[i]
  BY <1>3
<1> HIDE DEF n, u, w
<1>5. \A i \in 1 .. n + 1 : i = n + 1 \/ i \in 1 .. n
  BY <1>3
<1>6. \A i \in 1 .. n : i \in 1 .. n + 1 /\ i # n + 1
  BY <1>3
<1>7. n + 1 \in 1 .. n + 1
  BY <1>3
<1>8. q[n + 1] = n + 1 /\ \A i \in 1 .. n : q[i] = p[i] /\ q[i] \in 1 .. n
  BY <1>2, <1>3, <1>6, <1>7
<1>9. q \in [1 .. n + 1 -> 1 .. n + 1]
  BY <1>5, <1>6, <1>7, <1>8
<1> HIDE DEF q
<1>10. \A i, j \in 1 .. n + 1 : q[i] = q[j] => i = j
  <2>1. \A i, j \in 1 .. n : q[i] = q[j] => i = j
    BY <1>2, <1>3, <1>8
  <2>2. \A i \in 1 .. n : q[i] # n + 1
    BY <1>6, <1>8
  <2> QED BY <1>5, <1>8, <2>1, <2>2
<1>11. \A j \in 1 .. n + 1 : \E i \in 1 .. n + 1 : q[i] = j
  BY <1>2, <1>3, <1>5, <1>6, <1>7, <1>8
<1>12. q \in Bijection(1 .. n + 1, 1 .. n + 1)
  BY <1>9, <1>10, <1>11, Fun_IsBij
<1>13. \A i \in 1 .. n + 1 : Alike(u[i], w[q[i]])
  <2>1. Alike(u[n + 1], w[q[n + 1]])
    BY <1>4, <1>8 DEF Alike
  <2>2. \A i \in 1 .. n : Alike(u[i], w[q[i]])
    BY <1>1, <1>3, <1>4, <1>8
  <2> QED BY <1>5, <2>1, <2>2
<1>14. Paired(u, w)
  BY <1>4, <1>12, <1>13 DEF Paired
<1> QED BY <1>4, <1>14 DEF u, w

LEMMA ConnectionOfStack ==
    ASSUME stack \in Hellos, NEW order \in Orders, NEW draw \in Draws
    PROVE  OfOneStack(ClientHello(order, draw), stack)
<1> DEFINE h == ClientHello(order, draw)
<1>1. /\ stack.ciphers \in Seq(Uint16) /\ stack.extensions \in Seq(Uint16)
      /\ stack.groups \in Seq(Uint16) /\ stack.versions \in Seq(Uint16)
      /\ stack.keyShares \in Seq(Uint16)
  BY DEF Hellos
<1>2. /\ h = [stack EXCEPT !.ciphers = h.ciphers, !.extensions = h.extensions,
                           !.groups = h.groups, !.versions = h.versions,
                           !.keyShares = h.keyShares]
      /\ h.ciphers = Drawn(stack.ciphers, draw)
      /\ h.extensions = Drawn(Shuffled(stack.extensions, order), draw)
      /\ h.groups = Drawn(stack.groups, draw)
      /\ h.versions = Drawn(stack.versions, draw)
      /\ h.keyShares = Drawn(stack.keyShares, draw)
  BY DEF ClientHello, Hellos
<1> HIDE DEF h
<1>3. /\ h.ciphers \in Seq(Uint16) /\ SameOrder(h.ciphers, stack.ciphers)
      /\ h.groups \in Seq(Uint16) /\ SameOrder(h.groups, stack.groups)
      /\ h.versions \in Seq(Uint16) /\ SameOrder(h.versions, stack.versions)
      /\ h.keyShares \in Seq(Uint16) /\ SameOrder(h.keyShares, stack.keyShares)
  BY <1>1, <1>2, DrawnInOrder
<1>4. h.extensions \in Seq(Uint16) /\ Paired(h.extensions, stack.extensions)
  BY <1>1, <1>2, ShuffledAndDrawn DEF Orders
<1>5. /\ h \in Hellos
      /\ <<h.version, h.points, h.sigAlgs, h.alpn, h.pskModes, h.compAlgs>>
           = <<stack.version, stack.points, stack.sigAlgs, stack.alpn, stack.pskModes,
               stack.compAlgs>>
  BY <1>2, <1>3, <1>4 DEF Hellos
<1>6. OfOneStack(h, stack)
  BY <1>3, <1>4, <1>5 DEF OfOneStack
<1> QED BY <1>6 DEF h

LEMMA ResumptionOfStack ==
    ASSUME NEW h, NEW k, OfOneStack(h, k)
    PROVE  OfOneStack(Resumed(h), Resumed(k))
<1>1. /\ h \in Hellos /\ k \in Hellos
      /\ h.extensions \in Seq(Uint16) /\ k.extensions \in Seq(Uint16)
      /\ Paired(h.extensions, k.extensions)
  BY DEF OfOneStack, Hellos
<1>2. PreSharedKey \in Uint16
  BY DEF PreSharedKey, Uint16
<1>3. /\ Append(h.extensions, PreSharedKey) \in Seq(Uint16)
      /\ Append(k.extensions, PreSharedKey) \in Seq(Uint16)
      /\ Paired(Append(h.extensions, PreSharedKey), Append(k.extensions, PreSharedKey))
  BY <1>1, <1>2, AppendedPaired
<1>4. /\ Resumed(h) \in Hellos /\ Resumed(k) \in Hellos
      /\ Resumed(h).extensions = Append(h.extensions, PreSharedKey)
      /\ Resumed(k).extensions = Append(k.extensions, PreSharedKey)
  BY <1>1, <1>3 DEF Resumed, Hellos
<1>5. \A f \in {"version", "ciphers", "groups", "points", "versions", "sigAlgs", "alpn",
                "pskModes", "compAlgs", "keyShares"} :
          Resumed(h)[f] = h[f] /\ Resumed(k)[f] = k[f]
  BY <1>1 DEF Resumed, Hellos
<1> QED BY <1>3, <1>4, <1>5 DEF OfOneStack

-----------------------------------------------------------------------------
(* All that is ever seen of a browser are the two fingerprints of its      *)
(* stack.                                                                  *)
FingerprintsInv ==
    /\ stack \in Stacks
    /\ hello \in Hellos
    /\ seen \in [full : {{Fingerprints(stack)}},
                 resumed : {{}, {Fingerprints(Resumed(stack))}}]

LEMMA InitFingerprints == Init => FingerprintsInv
BY StacksAssumption DEF Init, FingerprintsInv

LEMMA NextFingerprints == FingerprintsInv /\ [Next]_vars => FingerprintsInv'
<1> SUFFICES ASSUME FingerprintsInv, [Next]_vars PROVE FingerprintsInv'
  OBVIOUS
<1>0. stack \in Hellos
  BY StacksAssumption DEF FingerprintsInv
<1>1. ASSUME NEW order \in Orders, NEW draw \in Draws, Connect(order, draw)
      PROVE  FingerprintsInv'
  <2>1. OfOneStack(hello', stack)
    BY <1>0, <1>1, ConnectionOfStack DEF Connect
  <2>2. hello' \in Hellos /\ Fingerprints(hello') = Fingerprints(stack)
    BY <2>1, OneStackOneFingerprint DEF OfOneStack
  <2> QED BY <1>1, <2>2 DEF Connect, FingerprintsInv
<1>2. ASSUME NEW order \in Orders, NEW draw \in Draws, Resume(order, draw)
      PROVE  FingerprintsInv'
  <2>1. OfOneStack(ClientHello(order, draw), stack)
    BY <1>0, ConnectionOfStack
  <2>2. hello' = Resumed(ClientHello(order, draw))
    BY <1>2 DEF Resume, Resumed
  <2>3. OfOneStack(hello', Resumed(stack))
    BY <2>1, <2>2, ResumptionOfStack
  <2>4. hello' \in Hellos /\ Fingerprints(hello') = Fingerprints(Resumed(stack))
    BY <2>3, OneStackOneFingerprint DEF OfOneStack
  <2>5. Resumed(stack)' = Resumed(stack)
    BY <1>2 DEF Resume, Resumed
  <2> QED BY <1>2, <2>4, <2>5 DEF Resume, FingerprintsInv
<1>3. CASE UNCHANGED vars
  BY <1>3 DEF vars, FingerprintsInv, Resumed
<1> QED BY <1>1, <1>2, <1>3 DEF Next, Orders, Draws

LEMMA FingerprintsInvariant == Spec => []FingerprintsInv
BY InitFingerprints, NextFingerprints, PTL DEF Spec

(* An element at the end of a list.                                        *)
Longer(t, s, v) == t = Append(s, v)

LEMMA WithoutAppended ==
    ASSUME NEW T, NEW s \in Seq(T), NEW v \in T, NEW t \in Seq(T), Longer(t, s, v),
           NEW S, v \notin S
    PROVE  Without(t, S) = Append(Without(s, S), v)
<1> DEFINE n == Len(s)
           P == Stays(s, S)
           Q == Stays(t, S)
           m == Cardinality(P)
<1>1. n \in Nat /\ DOMAIN s = 1 .. n
  BY PlacesFinite
<1>2. t \in Seq(T) /\ DOMAIN t = 1 .. n + 1 /\ t[n + 1] = v /\ \A i \in 1 .. n : t[i] = s[i]
  BY <1>1 DEF Longer
<1> HIDE DEF n
<1>3. /\ m \in Nat /\ IsFiniteSet(P) /\ \A i \in P : i \in Nat
      /\ IsFiniteSet(Q) /\ Cardinality(Q) \in Nat /\ \A i \in Q : i \in Nat
  BY <1>2, StaysFinite
<1>4. /\ Q = P \cup {n + 1} /\ n + 1 \notin P
      /\ \A i \in P : i \in 1 .. n /\ t[i] = s[i] /\ i <= n /\ ~(n + 1 <= i)
  <2>1. \A i : i \in P <=> i \in 1 .. n /\ s[i] \notin S
    BY <1>1 DEF Stays
  <2>2. \A i : i \in Q <=> i \in 1 .. n + 1 /\ t[i] \notin S
    BY <1>2 DEF Stays
  <2> HIDE DEF P, Q
  <2>3. \A i : i \in 1 .. n + 1 <=> i \in 1 .. n \/ i = n + 1
    BY <1>1
  <2>4. n + 1 \notin 1 .. n /\ \A i \in 1 .. n : i <= n /\ ~(n + 1 <= i)
    BY <1>1
  <2>5. \A i : i \in Q <=> i \in P \/ i = n + 1
    BY <1>2, <2>1, <2>2, <2>3
  <2>6. Q = P \cup {n + 1}
    BY <2>5
  <2>7. n + 1 \notin P
    BY <2>1, <2>4
  <2>8. \A i \in P : i \in 1 .. n /\ t[i] = s[i] /\ i <= n /\ ~(n + 1 <= i)
    BY <1>2, <2>1, <2>4
  <2> QED BY <2>6, <2>7, <2>8
<1>5. /\ Without(s, S) = [k \in 1 .. m |-> s[KthSmallest(P, k)]]
      /\ Without(t, S) = [k \in 1 .. Cardinality(Q) |-> t[KthSmallest(Q, k)]]
  <2>1. Without(s, S) = [k \in 1 .. m |-> s[KthSmallest(P, k)]]
    BY WithoutKeepsOrder
  <2>2. Without(t, S) = [k \in 1 .. Cardinality(Q) |-> t[KthSmallest(Q, k)]]
    BY WithoutKeepsOrder
  <2> QED BY <2>1, <2>2
<1> HIDE DEF P, Q, m
<1>6. Cardinality(Q) = m + 1
  BY <1>3, <1>4, FS_AddElement DEF m
<1>7. ASSUME NEW k \in 1 .. m PROVE KthSmallest(Q, k) = KthSmallest(P, k) /\ KthSmallest(P, k) \in P
  <2>1. PICK i \in P : i = KthSmallest(P, k) /\ Cardinality({j \in P : j <= i}) = k
    BY <1>3, KthOfRank DEF m
  <2>2. {j \in Q : j <= i} = {j \in P : j <= i}
    BY <1>4
  <2>3. i \in Q
    BY <1>4
  <2>4. KthSmallest(Q, Cardinality({j \in Q : j <= i})) = i
    BY <1>3, <2>3, KthOfRank
  <2> QED BY <2>1, <2>2, <2>4
<1>8. KthSmallest(Q, m + 1) = n + 1
  <2>1. n \in Nat /\ n + 1 <= n + 1 /\ \A j \in P : j <= n + 1
    BY <1>1, <1>4
  <2>2. {j \in Q : j <= n + 1} = Q /\ n + 1 \in Q
    BY <1>4, <2>1
  <2>3. KthSmallest(Q, Cardinality({j \in Q : j <= n + 1})) = n + 1
    BY <1>3, <2>2, KthOfRank
  <2> QED BY <1>6, <2>2, <2>3
<1>9. \A k \in 1 .. m : Without(t, S)[k] = Without(s, S)[k]
  <2> SUFFICES ASSUME NEW k \in 1 .. m PROVE Without(t, S)[k] = Without(s, S)[k]
    OBVIOUS
  <2>1. k \in 1 .. m + 1
    BY <1>3
  <2>2. t[KthSmallest(Q, k)] = s[KthSmallest(P, k)]
    BY <1>4, <1>7
  <2> QED BY <1>5, <1>6, <2>1, <2>2
<1>10. Without(t, S)[m + 1] = v
  <2>1. m + 1 \in 1 .. m + 1
    BY <1>3
  <2> QED BY <1>2, <1>5, <1>6, <1>8, <2>1
<1>11. /\ Without(s, S) \in Seq(T) /\ Len(Without(s, S)) = m
       /\ Without(t, S) \in Seq(T) /\ Len(Without(t, S)) = m + 1
  BY <1>2, <1>6, WithoutType DEF P, Q, m
<1>12. Without(t, S) = Append(Without(s, S), v)
  <2> DEFINE u == Without(s, S)
             w == Without(t, S)
  <2>1. u \in Seq(T) /\ Len(u) = m /\ w \in Seq(T) /\ Len(w) = m + 1 /\ w[m + 1] = v
        /\ \A k \in 1 .. m : w[k] = u[k]
    BY <1>9, <1>10, <1>11
  <2> HIDE DEF u, w
  <2>2. w = Append(u, v)
    BY <1>3, <2>1
  <2> QED BY <2>2 DEF u, w
<1> QED BY <1>12

(* A key at the end of the extensions: what it changes.                    *)
LEMMA ResumptionExtensions ==
    ASSUME NEW h \in Hellos
    PROVE  /\ Len(Sorted(NoGrease(Resumed(h).extensions)))
                = Len(Sorted(NoGrease(h.extensions))) + 1
           /\ Len(unmarshalExtensions(Resumed(h))) = Len(unmarshalExtensions(h)) + 1
           /\ Len(formatExtsSorted(extensionIDs(Resumed(h))))
                = Len(formatExtsSorted(extensionIDs(h))) + 1
           /\ \A id \in {SNI, SupportedVersions} :
                  ContainsExtension(Resumed(h), id) = ContainsExtension(h, id)
<1> DEFINE e == h.extensions
           f == Append(e, PreSharedKey)
           named == {SNI, ALPN}
<1>1. e \in Seq(Uint16) /\ Resumed(h).extensions = f
  BY DEF Hellos, Resumed
<1>2. /\ PreSharedKey \in Uint16 /\ PreSharedKey \notin greaseValues /\ PreSharedKey \notin named
      /\ PreSharedKey \notin Unsized /\ PreSharedKey \notin {SNI, SupportedVersions}
  BY DEF PreSharedKey, Uint16, greaseValues, SNI, ALPN, Padding, Unsized, SupportedVersions
<1>3. f \in Seq(Uint16) /\ DOMAIN f = 1 .. Len(e) + 1 /\ DOMAIN e = 1 .. Len(e) /\ Len(e) \in Nat
      /\ f[Len(e) + 1] = PreSharedKey /\ \A i \in DOMAIN e : f[i] = e[i]
  BY <1>1, <1>2
<1> HIDE DEF e, f, named
<1>4. ASSUME NEW s \in Seq(Uint16)
      PROVE  /\ Len(Append(s, PreSharedKey)) = Len(s) + 1
             /\ Len(Sorted(s)) = Len(s) /\ Len(Sorted(Marked(s))) = Len(s)
  <2>1. s \in Seq(Int) /\ Marked(s) \in Seq(Int) /\ DOMAIN Marked(s) = DOMAIN s
    BY MarkedType
  <2>2. Len(Marked(s)) = Len(s)
    <3>1. /\ DOMAIN s = 1 .. Len(s) /\ DOMAIN Marked(s) = 1 .. Len(Marked(s))
          /\ Len(s) \in Nat /\ Len(Marked(s)) \in Nat
      BY <2>1, PlacesFinite
    <3> QED BY <2>1, <3>1
  <2>3. Len(Sorted(s)) = Len(s) /\ Len(Sorted(Marked(s))) = Len(Marked(s))
    BY <2>1, SortedAtPlace
  <2>4. Len(Append(s, PreSharedKey)) = Len(s) + 1
    OBVIOUS
  <2> QED BY <2>2, <2>3, <2>4
<1>a. ASSUME NEW s \in Seq(Uint16), NEW t \in Seq(Uint16), Longer(t, s, PreSharedKey),
             NEW S, PreSharedKey \notin S
      PROVE  /\ Without(s, S) \in Seq(Uint16) /\ Without(t, S) \in Seq(Uint16)
             /\ Without(t, S) = Append(Without(s, S), PreSharedKey)
  <2>1. Without(s, S) \in Seq(Uint16)
    BY WithoutType
  <2>2. Without(t, S) \in Seq(Uint16)
    BY WithoutType
  <2>3. Without(t, S) = Append(Without(s, S), PreSharedKey)
    BY <1>2, <1>a, WithoutAppended
  <2> QED BY <1>a, <2>1, <2>2, <2>3
<1>b. e \in Seq(Uint16) /\ Longer(f, e, PreSharedKey)
  BY <1>1 DEF e, f, Longer
<1>5. /\ Without(e, greaseValues) \in Seq(Uint16)
      /\ Without(f, greaseValues) = Append(Without(e, greaseValues), PreSharedKey)
      /\ Without(f, greaseValues) \in Seq(Uint16)
  BY <1>2, <1>3, <1>a, <1>b
<1>6. Len(Sorted(Without(f, greaseValues))) = Len(Sorted(Without(e, greaseValues))) + 1
  BY <1>4, <1>5
<1>7. Len(Sorted(Without(Without(f, greaseValues), named)))
        = Len(Sorted(Without(Without(e, greaseValues), named))) + 1
  <2> DEFINE u == Without(e, greaseValues)
             w == Without(f, greaseValues)
  <2>1. u \in Seq(Uint16) /\ Longer(w, u, PreSharedKey) /\ w \in Seq(Uint16)
    BY <1>5 DEF Longer
  <2> HIDE DEF u, w
  <2>2. /\ Without(u, named) \in Seq(Uint16) /\ Without(w, named) \in Seq(Uint16)
        /\ Without(w, named) = Append(Without(u, named), PreSharedKey)
    BY <1>2, <1>a, <2>1
  <2>3. Len(Sorted(Without(w, named))) = Len(Sorted(Without(u, named))) + 1
    BY <1>4, <2>2
  <2> QED BY <2>3 DEF u, w
<1>8. Len(Sorted(Marked(Without(f, Unsized)))) = Len(Sorted(Marked(Without(e, Unsized)))) + 1
  <2>1. /\ Without(e, Unsized) \in Seq(Uint16) /\ Without(f, Unsized) \in Seq(Uint16)
        /\ Without(f, Unsized) = Append(Without(e, Unsized), PreSharedKey)
    BY <1>2, <1>3, <1>a, <1>b
  <2> QED BY <1>4, <2>1
<1>9. ASSUME NEW id \in {SNI, SupportedVersions}
      PROVE  ContainsExtension(Resumed(h), id) = ContainsExtension(h, id)
  <2>1. (\E i \in DOMAIN f : f[i] = id) <=> (\E i \in DOMAIN e : e[i] = id)
    BY <1>2, <1>3
  <2> QED BY <1>1, <2>1 DEF ContainsExtension, e
<1>10. /\ NoGrease(e) = Without(e, greaseValues) /\ NoGrease(f) = Without(f, greaseValues)
       /\ Ungreased(e) = Without(e, greaseValues) /\ Ungreased(f) = Without(f, greaseValues)
  BY GreaseSet DEF NoGrease, Ungreased
<1>11. /\ Len(Sorted(NoGrease(f))) = Len(Sorted(NoGrease(e))) + 1
       /\ Len(Sorted(Without(Ungreased(f), named))) = Len(Sorted(Without(Ungreased(e), named))) + 1
  BY <1>6, <1>7, <1>10
<1>12. /\ Len(unmarshalExtensions(Resumed(h))) = Len(unmarshalExtensions(h)) + 1
       /\ Len(formatExtsSorted(extensionIDs(Resumed(h))))
                = Len(formatExtsSorted(extensionIDs(h))) + 1
  BY <1>1, <1>8, <1>11 DEF unmarshalExtensions, formatExtsSorted, extensionIDs, e, named
<1> QED BY <1>1, <1>9, <1>11, <1>12 DEF e

LEMMA ResumptionChanges ==
    ASSUME NEW h \in Hellos
    PROVE  /\ SortedBare(Resumed(h)) # SortedBare(h)
           /\ PeetPrint(Resumed(h)) # PeetPrint(h)
           /\ JA4(Resumed(h)) # JA4(h)
           /\ JA4(Resumed(h)).b = JA4(h).b
           /\ \A i \in {1, 2, 3, 5} : JA4(Resumed(h)).a[i] = JA4(h).a[i]
<1> DEFINE r == Resumed(h)
<1>1. /\ Len(Sorted(NoGrease(r.extensions))) # Len(Sorted(NoGrease(h.extensions)))
      /\ Len(unmarshalExtensions(r)) # Len(unmarshalExtensions(h))
      /\ Len(formatExtsSorted(extensionIDs(r))) # Len(formatExtsSorted(extensionIDs(h)))
  <2>1. ASSUME NEW s \in Seq(Int) PROVE Len(Sorted(s)) \in Nat
    BY <2>1, SortedAtPlace
  <2>2. h.extensions \in Seq(Uint16)
    BY DEF Hellos
  <2>3. NoGrease(h.extensions) \in Seq(Uint16) /\ Ungreased(h.extensions) \in Seq(Uint16)
    BY <2>2, WithoutType DEF NoGrease, Ungreased
  <2>4. /\ Without(Ungreased(h.extensions), {SNI, ALPN}) \in Seq(Uint16)
        /\ extensionIDs(h) \in Seq(Uint16)
    BY <2>2, <2>3, WithoutType DEF extensionIDs
  <2>5. /\ NoGrease(h.extensions) \in Seq(Int)
        /\ Without(Ungreased(h.extensions), {SNI, ALPN}) \in Seq(Int)
        /\ Marked(extensionIDs(h)) \in Seq(Int)
    BY <2>3, <2>4, MarkedType
  <2>6. /\ Len(Sorted(NoGrease(h.extensions))) \in Nat
        /\ Len(unmarshalExtensions(h)) \in Nat
        /\ Len(formatExtsSorted(extensionIDs(h))) \in Nat
    BY <2>1, <2>5 DEF unmarshalExtensions, formatExtsSorted
  <2> QED BY <2>6, ResumptionExtensions
<1>2. /\ r.version = h.version /\ r.ciphers = h.ciphers /\ r.versions = h.versions
      /\ r.alpn = h.alpn
  BY DEF Resumed, Hellos
<1>3. /\ ContainsExtension(r, SNI) = ContainsExtension(h, SNI)
      /\ ContainsExtension(r, SupportedVersions) = ContainsExtension(h, SupportedVersions)
  BY ResumptionExtensions
<1> HIDE DEF r
<1>4. SortedBare(r) # SortedBare(h)
  <2>1. ASSUME NEW g PROVE SortedBare(g)[3] = Sorted(NoGrease(g.extensions))
    BY DEF SortedBare, Bare
  <2>2. Sorted(NoGrease(r.extensions)) # Sorted(NoGrease(h.extensions))
    BY <1>1
  <2> QED BY <2>1, <2>2
<1>5. PeetPrint(r) # PeetPrint(h)
  <2>1. ASSUME NEW g PROVE PeetPrint(g)[8] = formatExtsSorted(extensionIDs(g))
    BY DEF PeetPrint
  <2>2. formatExtsSorted(extensionIDs(r)) # formatExtsSorted(extensionIDs(h))
    BY <1>1
  <2> QED BY <2>1, <2>2
<1>6. JA4(r) # JA4(h)
  <2>1. ASSUME NEW g PROVE JA4(g).c[1] = unmarshalExtensions(g)
    BY DEF JA4
  <2>2. unmarshalExtensions(r) # unmarshalExtensions(h)
    BY <1>1
  <2> QED BY <2>1, <2>2
<1>7. JA4(r).b = JA4(h).b
  BY <1>2 DEF JA4
<1>8. \A i \in {1, 2, 3, 5} : JA4(r).a[i] = JA4(h).a[i]
  <2>1. TLSVersion(r) = TLSVersion(h)
    BY <1>2, <1>3 DEF TLSVersion, unmarshalTLSVersion
  <2>2. FirstALPN(r) = FirstALPN(h)
    BY <1>2 DEF FirstALPN
  <2>3. ASSUME NEW g
        PROVE  /\ JA4(g).a[1] = TLSVersion(g) /\ JA4(g).a[2] = ContainsExtension(g, SNI)
               /\ JA4(g).a[3] = Count(Ungreased(g.ciphers)) /\ JA4(g).a[5] = FirstALPN(g)
    BY DEF JA4
  <2> QED BY <1>2, <1>3, <2>1, <2>2, <2>3
<1> QED BY <1>4, <1>5, <1>6, <1>7, <1>8 DEF r

-----------------------------------------------------------------------------
(* A browser that connects again and again has one fingerprint of each     *)
(* kind for its full handshakes, and one for its resumed ones, whatever    *)
(* its stack, the GREASE it draws and the order of its extensions          *)
(* (sortUint16 of ja4, SortedBare of ja3 and formatExtsSorted of           *)
(* peetprint).                                                             *)
THEOREM ReturningStackIsKnown == Spec => []OneFingerprintPerBrowser
<1>1. FingerprintsInv => OneFingerprintPerBrowser
  <2> SUFFICES ASSUME FingerprintsInv PROVE OneFingerprintPerBrowser
    OBVIOUS
  <2>1. /\ seen.full = {Fingerprints(stack)}
        /\ seen.resumed \in {{}, {Fingerprints(Resumed(stack))}}
    BY DEF FingerprintsInv
  <2>2. \A x : Cardinality({x}) = 1
    BY FS_Singleton
  <2>3. Cardinality({}) = 0
    BY FS_EmptySet
  <2>4. Cardinality(seen.full) = 1 /\ Cardinality(seen.resumed) \in {0, 1}
    BY <2>1, <2>2, <2>3
  <2> QED BY <2>4 DEF OneFingerprintPerBrowser
<1> QED BY <1>1, FingerprintsInvariant, PTL

(* A resumed handshake differs from a full one in all three fingerprints,  *)
(* and in JA4 by nothing but the extensions (ja4.go lines 46-52).          *)
THEOREM KeyIsSeen == Spec => []ResumptionShows
<1>1. FingerprintsInv => ResumptionShows
  <2> SUFFICES ASSUME FingerprintsInv, NEW full \in seen.full, NEW resumed \in seen.resumed
               PROVE  /\ full.ja3 # resumed.ja3 /\ full.peetPrint # resumed.peetPrint
                      /\ full.ja4 # resumed.ja4 /\ full.ja4.b = resumed.ja4.b
                      /\ \A i \in {1, 2, 3, 5} : full.ja4.a[i] = resumed.ja4.a[i]
    BY DEF ResumptionShows
  <2>1. full = Fingerprints(stack) /\ resumed = Fingerprints(Resumed(stack))
    BY DEF FingerprintsInv
  <2>2. stack \in Hellos
    BY StacksAssumption DEF FingerprintsInv
  <2>3. /\ full.ja3 = SortedBare(stack) /\ resumed.ja3 = SortedBare(Resumed(stack))
        /\ full.ja4 = JA4(stack) /\ resumed.ja4 = JA4(Resumed(stack))
        /\ full.peetPrint = PeetPrint(stack) /\ resumed.peetPrint = PeetPrint(Resumed(stack))
    BY <2>1 DEF Fingerprints
  <2> QED BY <2>2, <2>3, ResumptionChanges
<1> QED BY <1>1, FingerprintsInvariant, PTL

LEMMA ResumedIsHello ==
    ASSUME NEW h \in Hellos
    PROVE  Resumed(h) \in Hellos
<1>1. PreSharedKey \in Uint16
  BY DEF PreSharedKey, Uint16
<1>2. h.extensions \in Seq(Uint16)
  BY HelloFields
<1>3. Append(h.extensions, PreSharedKey) \in Seq(Uint16)
  BY <1>1, <1>2
<1> QED BY <1>3 DEF Resumed, Hellos

(* Whatever stacks there are, the lists of values that another one shows   *)
(* are those of this browser only where the two send the same hello but    *)
(* for what is drawn (ja3.go, ja4.go and peetprint.go; that a protocol     *)
(* name may contain the "-" which joins them is left out).                 *)
THEOREM StacksAreDistinguished == Spec => []StacksAreTold
<1>1. FingerprintsInv => StacksAreTold
  <2> SUFFICES ASSUME FingerprintsInv, NEW other \in Shown
               PROVE  /\ other.prints \in seen.full => SameButDrawn(other.sent, stack)
                      /\ other.prints \in seen.resumed
                            => SameButDrawn(other.sent, Resumed(stack))
    BY DEF StacksAreTold
  <2>1. /\ stack \in Hellos /\ Resumed(stack) \in Hellos
        /\ \A fp \in seen.full : fp = Fingerprints(stack)
        /\ \A fp \in seen.resumed : fp = Fingerprints(Resumed(stack))
    BY StacksAssumption, ResumedIsHello DEF FingerprintsInv
  <2>2. PICK h \in Sent : other.sent = h /\ other.prints = Fingerprints(h)
    BY DEF Shown
  <2>3. h \in Hellos
    BY StacksAssumption, ResumedIsHello DEF Sent
  <2> QED BY <2>1, <2>2, <2>3, FingerprintsTell
<1> QED BY <1>1, FingerprintsInvariant, PTL

LEMMA JA4Type ==
    ASSUME NEW h \in Hellos
    PROVE  /\ JA4(h).a[3] \in 0 .. 99 /\ JA4(h).a[4] \in 0 .. 99
           /\ \A i \in DOMAIN JA4(h).b : JA4(h).b[i] \in Uint16 \ greaseValues
<1>1. h.ciphers \in Seq(Uint16) /\ h.extensions \in Seq(Uint16)
  BY DEF Hellos
<1>2. ASSUME NEW s \in Seq(Uint16) PROVE Count(Ungreased(s)) \in 0 .. 99
  <2>1. Ungreased(s) \in Seq(Uint16)
    BY WithoutType DEF Ungreased
  <2> DEFINE n == Len(Ungreased(s))
  <2>2. n \in Nat
    BY <2>1, PlacesFinite
  <2>3. Count(Ungreased(s)) = IF n < 99 THEN n ELSE 99
    BY DEF Count
  <2> HIDE DEF n
  <2> QED BY <2>2, <2>3
<1> DEFINE u == Ungreased(h.ciphers)
<1>3. u \in Seq(Uint16) /\ \A i \in DOMAIN u : u[i] \notin greaseValues
  BY <1>1, WithoutType, GreaseSet DEF Ungreased
<1>4. JA4(h).a[3] = Count(u) /\ JA4(h).a[4] = Count(Ungreased(h.extensions)) /\ JA4(h).b = Sorted(u)
  BY DEF JA4
<1> HIDE DEF u
<1>5. \A i \in DOMAIN u : u[i] \in Uint16
  BY <1>3, PlacesFinite, ElementOfSeq
<1>6. u \in Seq(Int)
  BY <1>3, MarkedType
<1>7. \A k \in DOMAIN Sorted(u) : Sorted(u)[k] \in {u[i] : i \in DOMAIN u}
  BY <1>6, SortedAtPlace
<1>8. \A k \in DOMAIN Sorted(u) : Sorted(u)[k] \in Uint16 \ greaseValues
  BY <1>3, <1>5, <1>7
<1> QED BY <1>1, <1>2, <1>4, <1>8 DEF u

(* The parts of the fingerprints: two digits for each count of JA4, and no *)
(* GREASE among its cipher suites (ja4.go lines 139-158).                  *)
THEOREM ConnectionTypes == Spec => []TypeOK
<1>1. FingerprintsInv => TypeOK
  <2> SUFFICES ASSUME FingerprintsInv PROVE TypeOK
    OBVIOUS
  <2>1. stack \in Stacks /\ stack \in Hellos /\ hello \in Hellos
    BY StacksAssumption DEF FingerprintsInv
  <2>2. hello.extensions \in Seq(Uint16)
    BY <2>1 DEF Hellos
  <2>3. Resumed(stack) \in Hellos
    BY <2>1, ResumedIsHello
  <2>4. ASSUME NEW fp \in seen.full \cup seen.resumed
        PROVE  \E h \in Hellos : fp.ja4 = JA4(h)
    <3>1. fp = Fingerprints(stack) \/ fp = Fingerprints(Resumed(stack))
      BY DEF FingerprintsInv
    <3> QED BY <2>1, <2>3, <3>1 DEF Fingerprints
  <2> QED BY <2>1, <2>2, <2>4, JA4Type DEF TypeOK
<1> QED BY <1>1, FingerprintsInvariant, PTL
=============================================================================
