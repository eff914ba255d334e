--------------------------- MODULE FifoCacheProofs ---------------------------
(* The list and the map of the cache agree and stay within the capacity,   *)
(* for every capacity, the default one included.                           *)
EXTENDS MCFifoCache, TLAPS

CacheInv == TypeOK /\ Coherent /\ Bounded

LEMMA CapacityPositive == Capacity \in Nat \ {0}
BY ConfiguredSizeAssumption DEF Capacity, DefaultCapacity

LEMMA InitCacheInv == Init => CacheInv
BY CapacityPositive
   DEF Init, NoItems, CacheInv, TypeOK, Coherent, KeysInOrder, Bounded

(* What the eviction leaves: the entries of the map whose keys are left,   *)
(* in the order they had.                                                  *)
LEMMA EvictionKeepsCoherence ==
    ASSUME CacheInv
    PROVE  /\ Kept \in Seq(Entries)
           /\ Len(Kept) < Capacity
           /\ KeptKeys = {Kept[i].key : i \in DOMAIN Kept}
           /\ \A i \in DOMAIN Kept : items[Kept[i].key] = Kept[i]
           /\ \A i, j \in DOMAIN Kept : Kept[i].key = Kept[j].key => i = j
           /\ KeptKeys \subseteq DOMAIN items
<1>1. /\ order \in Seq(Entries) /\ Len(order) \in Nat /\ Len(order) <= Capacity
      /\ Capacity \in Nat /\ Capacity > 0
  BY CapacityPositive DEF CacheInv, TypeOK, Bounded
<1>2. /\ DOMAIN items = {order[i].key : i \in DOMAIN order}
      /\ \A i \in DOMAIN order : items[order[i].key] = order[i]
      /\ \A i, j \in DOMAIN order : order[i].key = order[j].key => i = j
  BY DEF CacheInv, Coherent, KeysInOrder
<1>3. CASE ~Full
  <2>1. Kept = order /\ KeptKeys = DOMAIN items
    BY <1>3 DEF Kept, KeptKeys
  <2> QED BY <2>1, <1>1, <1>2, <1>3 DEF Full
<1>4. CASE Full
  <2>1. /\ Kept = Tail(order) /\ KeptKeys = DOMAIN items \ {order[1].key}
        /\ Len(order) > 0
    BY <1>1, <1>4 DEF Kept, KeptKeys, Full
  <2>2. /\ Kept \in Seq(Entries) /\ Len(Kept) = Len(order) - 1
        /\ DOMAIN Kept = 1 .. Len(order) - 1
        /\ \A i \in DOMAIN Kept : Kept[i] = order[i + 1]
    BY <1>1, <2>1
  <2>3. DOMAIN order = 1 .. Len(order)
    BY <1>1
  <2>4. \A i \in DOMAIN Kept : i + 1 \in DOMAIN order /\ i + 1 # 1
    BY <2>2, <2>3, <1>1
  <2>5. KeptKeys = {Kept[i].key : i \in DOMAIN Kept}
    <3>1. ASSUME NEW k \in KeptKeys PROVE \E i \in DOMAIN Kept : Kept[i].key = k
      <4>1. PICK j \in DOMAIN order : order[j].key = k
        BY <3>1, <2>1, <1>2
      <4>2. j # 1
        BY <4>1, <3>1, <2>1
      <4>3. j - 1 \in DOMAIN Kept /\ Kept[j - 1] = order[j]
        BY <4>1, <4>2, <2>2, <2>3, <1>1
      <4> QED BY <4>1, <4>3
    <3>2. ASSUME NEW i \in DOMAIN Kept PROVE Kept[i].key \in KeptKeys
      <4>1. Kept[i].key = order[i + 1].key
        BY <2>2
      <4>2. 1 \in DOMAIN order
        BY <2>1, <2>3, <1>1
      <4>3. order[i + 1].key # order[1].key
        BY <2>4, <4>2, <1>2
      <4> QED BY <4>1, <4>3, <2>1, <2>4, <1>2
    <3> QED BY <3>1, <3>2
  <2>6. \A i \in DOMAIN Kept : items[Kept[i].key] = Kept[i]
    BY <2>2, <2>4, <1>2
  <2>7. ASSUME NEW i \in DOMAIN Kept, NEW j \in DOMAIN Kept, Kept[i].key = Kept[j].key
        PROVE  i = j
    <3>1. i + 1 = j + 1
      BY <2>2, <2>4, <2>7, <1>2
    <3>2. i \in Nat /\ j \in Nat
      BY <2>2, <1>1
    <3> QED BY <3>1, <3>2
  <2>8. Len(Kept) < Capacity
    BY <2>2, <1>1
  <2> QED BY <2>1, <2>2, <2>5, <2>6, <2>7, <2>8
<1> QED BY <1>3, <1>4

(* Put keeps the list and the map in agreement.                            *)
LEMMA PutCacheInv ==
    ASSUME CacheInv, NEW k \in Keys, NEW v \in Values, Put(k, v)
    PROVE  CacheInv'
<1> DEFINE e == NewEntry(k, v)
<1>1. CASE Has(k)
  BY <1>1 DEF Put, cacheVars, CacheInv, TypeOK, Coherent, KeysInOrder, Bounded
<1>2. CASE ~Has(k)
  <2>1. /\ order' = Append(Kept, e)
        /\ items' = [x \in KeptKeys \cup {k} |-> IF x = k THEN e ELSE items[x]]
    BY <1>2 DEF Put, Insert
  <2>2. e \in Entries /\ e.key = k
    BY DEF Entries, NewEntry
  <2> HIDE DEF e
  <2>3. /\ Kept \in Seq(Entries) /\ Len(Kept) < Capacity
        /\ KeptKeys = {Kept[i].key : i \in DOMAIN Kept}
        /\ \A i \in DOMAIN Kept : items[Kept[i].key] = Kept[i]
        /\ \A i, j \in DOMAIN Kept : Kept[i].key = Kept[j].key => i = j
        /\ KeptKeys \subseteq DOMAIN items
    BY EvictionKeepsCoherence
  <2>4. k \notin KeptKeys
    BY <1>2, <2>3 DEF Has
  <2>5. /\ order' \in Seq(Entries) /\ Len(order') = Len(Kept) + 1
        /\ DOMAIN order' = DOMAIN Kept \cup {Len(Kept) + 1}
        /\ \A i \in DOMAIN Kept : order'[i] = Kept[i]
        /\ order'[Len(Kept) + 1] = e
        /\ Len(Kept) + 1 \notin DOMAIN Kept
    BY <2>1, <2>2, <2>3
  <2>6. TypeOK'
    <3>1. \A x \in KeptKeys : items[x] \in Entries
      BY <2>3 DEF CacheInv, TypeOK
    <3>2. DOMAIN items' \subseteq Keys
      BY <2>1, <2>3 DEF CacheInv, TypeOK
    <3> QED BY <3>1, <3>2, <2>1, <2>2, <2>5 DEF TypeOK
  <2>7. DOMAIN items' = KeysInOrder'
    <3>1. DOMAIN items' = KeptKeys \cup {k}
      BY <2>1
    <3>2. {order'[i].key : i \in DOMAIN order'} = {Kept[i].key : i \in DOMAIN Kept} \cup {k}
      BY <2>2, <2>5
    <3> QED BY <3>1, <3>2, <2>3 DEF KeysInOrder
  <2>8. ASSUME NEW i \in DOMAIN order' PROVE items'[order'[i].key] = order'[i]
    <3>1. CASE i \in DOMAIN Kept
      <4>1. order'[i].key \in KeptKeys /\ order'[i].key # k
        BY <3>1, <2>3, <2>4, <2>5
      <4> QED BY <3>1, <4>1, <2>1, <2>3, <2>5
    <3>2. CASE i = Len(Kept) + 1
      BY <3>2, <2>1, <2>2, <2>5
    <3> QED BY <3>1, <3>2, <2>5
  <2>9. ASSUME NEW i \in DOMAIN order', NEW j \in DOMAIN order',
               order'[i].key = order'[j].key
        PROVE  i = j
    <3>1. \A n \in DOMAIN Kept : order'[n].key \in KeptKeys
      BY <2>3, <2>5
    <3> QED BY <3>1, <2>2, <2>3, <2>4, <2>5, <2>9
  <2>10. Bounded'
    <3>1. Len(Kept) \in Nat /\ Capacity \in Nat
      BY <2>3, CapacityPositive
    <3>2. Len(Kept) + 1 <= Capacity
      BY <3>1, <2>3
    <3> QED BY <3>2, <2>5 DEF Bounded, Capacity
  <2> QED BY <2>6, <2>7, <2>8, <2>9, <2>10 DEF CacheInv, Coherent
<1> QED BY <1>1, <1>2

(* The map and the list describe the same entries, each key once, and the  *)
(* cache never outgrows its capacity (cache.go lines 20-61).               *)
THEOREM CacheCorrect == Spec => [](Coherent /\ Bounded)
<1>1. CacheInv /\ [Next]_cacheVars => CacheInv'
  <2>1. ASSUME CacheInv, UNCHANGED cacheVars PROVE CacheInv'
    BY <2>1 DEF cacheVars, CacheInv, TypeOK, Coherent, KeysInOrder, Bounded
  <2> QED BY <2>1, PutCacheInv DEF Next
<1>2. CacheInv => Coherent /\ Bounded
  BY DEF CacheInv
<1> QED BY <1>1, <1>2, InitCacheInv, PTL DEF Spec

-----------------------------------------------------------------------------
(* The cache against the log of all that was ever inserted.                *)
First(n) == IF n > Capacity THEN n - Capacity + 1 ELSE 1

WindowInv == CacheInv /\ log \in Seq(Entries) /\ WindowOfInsertions

(* The window of the last insertions, element by element.                  *)
InWindow ==
    /\ Len(order) = Len(log) - First(Len(log)) + 1
    /\ \A i \in 1 .. Len(order) : order[i] = log[First(Len(log)) + i - 1]

LEMMA WindowElements ==
    log \in Seq(Entries) /\ order \in Seq(Entries)
        => (WindowOfInsertions <=> InWindow)
<1> SUFFICES ASSUME log \in Seq(Entries), order \in Seq(Entries)
             PROVE  WindowOfInsertions <=> InWindow
  OBVIOUS
<1>1. Len(log) \in Nat /\ Capacity \in Nat \ {0}
  BY CapacityPositive
<1> DEFINE n == Len(log)
           w == SubSeq(log, First(n), n)
<1>2. First(n) \in 1 .. n + 1
  BY <1>1 DEF First
<1>3. /\ w \in Seq(Entries) /\ Len(w) = n - First(n) + 1
      /\ \A i \in 1 .. Len(w) : w[i] = log[First(n) + i - 1]
  BY <1>1, <1>2
<1>4. WindowOfInsertions <=> order = w
  BY DEF WindowOfInsertions, First
<1> HIDE DEF w
<1>5. order = w <=> Len(order) = Len(w) /\ \A i \in 1 .. Len(order) : order[i] = w[i]
  BY <1>3
<1> QED BY <1>3, <1>4, <1>5 DEF InWindow

LEMMA PutWindow ==
    ASSUME WindowInv, NEW k \in Keys, NEW v \in Values, MCPut(k, v)
    PROVE  WindowInv'
<1> DEFINE e == NewEntry(k, v)
<1>0. CacheInv'
  BY PutCacheInv DEF WindowInv, MCPut
<1>1. CASE Has(k)
  BY <1>0, <1>1 DEF MCPut, Put, cacheVars, WindowInv, WindowOfInsertions, Capacity
<1>2. CASE ~Has(k)
  <2>1. order' = Append(Kept, e) /\ log' = Append(log, e) /\ e \in Entries
    BY <1>2 DEF MCPut, Put, Insert, NewEntry, Entries
  <2>2. /\ log \in Seq(Entries) /\ order \in Seq(Entries) /\ Len(log) \in Nat
        /\ Len(order) \in Nat /\ Capacity \in Nat \ {0}
    BY CapacityPositive DEF WindowInv, CacheInv, TypeOK
  <2>3. InWindow
    BY <2>2, WindowElements DEF WindowInv
  <2> HIDE DEF e
  <2>4. log' \in Seq(Entries) /\ Len(log') = Len(log) + 1 /\ log'[Len(log) + 1] = e
        /\ \A i \in 1 .. Len(log) : log'[i] = log[i]
    BY <2>1, <2>2
  <2> DEFINE f == First(Len(log) + 1)
  <2>5. f \in 1 .. Len(log) + 1
    BY <2>2 DEF First
  <2>6. /\ Kept \in Seq(Entries) /\ Len(Kept) = Len(log) - f + 1
        /\ \A i \in 1 .. Len(Kept) : Kept[i] = log[f + i - 1]
    <3>1. CASE Full
      <4>1. Len(log) >= Capacity /\ f = First(Len(log)) + 1
        BY <2>2, <2>3, <3>1 DEF Full, First, InWindow
      <4>2. Kept = Tail(order) /\ Len(order) > 0
        BY <2>2, <3>1 DEF Kept, Full
      <4>3. /\ Kept \in Seq(Entries) /\ Len(Kept) = Len(order) - 1
            /\ \A i \in 1 .. Len(Kept) : Kept[i] = order[i + 1]
        BY <2>2, <4>2
      <4>4. First(Len(log)) \in Nat
        BY <2>2 DEF First
      <4>5. ASSUME NEW i \in 1 .. Len(Kept) PROVE Kept[i] = log[f + i - 1]
        <5>1. i + 1 \in 1 .. Len(order)
          BY <2>2, <4>3
        <5>2. First(Len(log)) + (i + 1) - 1 = f + i - 1
          BY <2>2, <4>1, <4>3, <4>4
        <5> QED BY <2>3, <4>3, <5>1, <5>2 DEF InWindow
      <4>6. Len(Kept) = Len(log) - f + 1
        BY <2>2, <2>3, <4>1, <4>3, <4>4 DEF InWindow
      <4> QED BY <4>3, <4>5, <4>6
    <3>2. CASE ~Full
      <4>1. f = 1 /\ First(Len(log)) = 1
        BY <2>2, <2>3, <3>2 DEF Full, First, InWindow
      <4> QED BY <2>2, <2>3, <3>2, <4>1 DEF Kept, InWindow
    <3> QED BY <3>1, <3>2
  <2>7. /\ order' \in Seq(Entries) /\ Len(order') = Len(Kept) + 1
        /\ order'[Len(Kept) + 1] = e
        /\ \A i \in 1 .. Len(Kept) : order'[i] = Kept[i]
    BY <2>1, <2>6
  <2>8. InWindow'
    <3> HIDE DEF f
    <3>1. First(Len(log))' = f
      BY <2>4 DEF First, f, Capacity, DefaultCapacity
    <3>2. Len(order)' = Len(log)' - f + 1
      BY <2>2, <2>4, <2>5, <2>6, <2>7
    <3>3. ASSUME NEW i \in 1 .. Len(order') PROVE order'[i] = log'[f + i - 1]
      <4>1. CASE i \in 1 .. Len(Kept)
        <5>1. f + i - 1 \in 1 .. Len(log)
          BY <2>2, <2>5, <2>6, <4>1
        <5> QED BY <2>4, <2>6, <2>7, <4>1, <5>1
      <4>2. CASE i = Len(Kept) + 1
        <5>1. f + i - 1 = Len(log) + 1
          BY <2>2, <2>5, <2>6, <4>2
        <5> QED BY <2>4, <2>7, <4>2, <5>1
      <4> QED BY <2>6, <2>7, <4>1, <4>2
    <3> QED BY <3>1, <3>2, <3>3 DEF InWindow
  <2>9. WindowOfInsertions'
    <3>1. (log \in Seq(Entries) /\ order \in Seq(Entries))'
      BY <2>4, <2>7 DEF Entries
    <3> QED BY <3>1, <2>8, WindowElements, PTL
  <2> QED BY <1>0, <2>4, <2>9 DEF WindowInv, Entries
<1> QED BY <1>1, <1>2

(* However long it runs, the cache is the window of the last insertions:   *)
(* an entry keeps its value while it is cached, and what leaves is the     *)
(* oldest of a full cache (cache.go lines 44-61).                          *)
THEOREM CacheIsWindow == MCSpec => []WindowOfInsertions
<1>1. MCInit => WindowInv
  BY InitCacheInv, CapacityPositive DEF MCInit, Init, WindowInv, WindowOfInsertions
<1>2. WindowInv /\ [MCNext]_mcVars => WindowInv'
  <2>1. ASSUME WindowInv, UNCHANGED mcVars PROVE WindowInv'
    <3>1. UNCHANGED <<order, items, log>>
      BY <2>1 DEF mcVars
    <3>2. CacheInv'
      BY <2>1, <3>1 DEF WindowInv, CacheInv, TypeOK, Coherent, KeysInOrder, Bounded, Capacity
    <3>3. log' \in Seq(Entries)
      BY <2>1, <3>1 DEF WindowInv
    <3>4. WindowOfInsertions'
      BY <2>1, <3>1 DEF WindowInv, WindowOfInsertions, Capacity
    <3> QED BY <3>2, <3>3, <3>4 DEF WindowInv, Entries
  <2> QED BY <2>1, PutWindow DEF MCNext
<1>3. WindowInv => WindowOfInsertions
  BY DEF WindowInv
<1> QED BY <1>1, <1>2, <1>3, PTL DEF MCSpec
=============================================================================
