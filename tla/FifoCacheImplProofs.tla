------------------------- MODULE FifoCacheImplProofs -------------------------
(* The critical sections implement the atomic cache, for any number of     *)
(* goroutines, any keys and values, and every capacity.                    *)
EXTENDS FifoCacheImpl, TLAPS

\* The lemmas used are those about Put: the log of FifoCacheProofs and the
\* bound on it take no part in them.
LOCAL CacheProofs == INSTANCE FifoCacheProofs
                        WITH order <- SeenOrder, items <- SeenItems,
                             log <- SeenOrder, MaxPuts <- 0

-----------------------------------------------------------------------------
(* The lock.  One goroutine holds the mutex, alone once the readers have   *)
(* left; a goroutine that reads holds the read lock or waits for it.       *)
Labels == {"idle", "rlock", "read", "runlock", "lock", "drain", "check", "remove",
           "delete", "pushBack", "store", "unlock"}

Alone == {"check", "remove", "delete", "pushBack", "store", "unlock"}

Held == {"drain"} \cup Alone

Puts == [op : {"Put"}, key : Keys, value : Values]

Reads == [op : {"Get"}, key : Keys] \cup [op : {"Len"}]

LockTypes ==
    /\ pc \in [Threads -> Labels]
    /\ call \in [Threads -> Calls \cup {Nil}]
    /\ holder \in Threads \cup {Nil}
    /\ readers \subseteq Threads /\ waiting \subseteq Threads

Locking(t) ==
    /\ pc[t] \in Held <=> holder = t
    /\ pc[t] \in {"lock"} \cup Held => call[t] \in Puts
    /\ pc[t] \in {"rlock", "read", "runlock"} => call[t] \in Reads
    /\ t \in readers => pc[t] \in {"read", "runlock"}
    /\ t \in waiting => pc[t] = "read" /\ t \notin readers
    /\ pc[t] = "read" => t \in readers \cup waiting
    /\ pc[t] = "runlock" => t \in readers
    /\ pc[t] \in Alone => readers = {}

LockInv ==
    /\ LockTypes
    /\ holder = Nil => waiting = {}
    /\ \A t \in Threads : Locking(t)

LEMMA CallKinds ==
    ASSUME NEW c \in Calls
    PROVE  IF c.op = "Put" THEN c \in Puts ELSE c \in Reads
BY DEF Calls, Puts, Reads

LEMMA NextLockInv == LockInv /\ [Next]_vars => LockInv'
<1> SUFFICES ASSUME LockInv, [Next]_vars PROVE LockInv'
  OBVIOUS
<1> USE DEF LockInv, LockTypes, Locking, Labels, Alone, Held, GoTo
<1>1. ASSUME NEW s \in Threads, RLock(s) PROVE LockInv'
  BY <1>1, NilAssumption DEF RLock
<1>2. ASSUME NEW s \in Threads, Read(s) PROVE LockInv'
  BY <1>2 DEF Read, lockVars, dataVars
<1>3. ASSUME NEW s \in Threads, RUnlock(s) PROVE LockInv'
  BY <1>3 DEF RUnlock
<1>4. ASSUME NEW s \in Threads, LockMutex(s) PROVE LockInv'
  BY <1>4, NilAssumption DEF LockMutex
<1>5. ASSUME NEW s \in Threads, Drained(s) PROVE LockInv'
  BY <1>5 DEF Drained, lockVars
<1>6. ASSUME NEW s \in Threads, CheckPresent(s) PROVE LockInv'
  BY <1>6 DEF CheckPresent, AfterReturn, lockVars
<1>7. ASSUME NEW s \in Threads, RemoveFront(s) \/ DeleteKey(s) PROVE LockInv'
  BY <1>7 DEF RemoveFront, DeleteKey, lockVars
<1>8. ASSUME NEW s \in Threads, PushBack(s) \/ StoreElement(s) PROVE LockInv'
  BY <1>8 DEF PushBack, StoreElement, lockVars
<1>9. ASSUME NEW s \in Threads, Unlock(s) PROVE LockInv'
  BY <1>9, NilAssumption DEF Unlock
<1>10. ASSUME NEW s \in Threads, NEW c \in Calls, Call(s, c) PROVE LockInv'
  BY <1>10, CallKinds DEF Call, lockVars
<1>11. CASE UNCHANGED vars
  BY <1>11 DEF vars
<1> QED BY <1>1, <1>2, <1>3, <1>4, <1>5, <1>6, <1>7, <1>8, <1>9, <1>10, <1>11
        DEF Next, Step

LEMMA InitLockInv == Init => LockInv
BY NilAssumption DEF Init, LockInv, LockTypes, Locking, Labels, Alone, Held

-----------------------------------------------------------------------------
(* The atomic cache seen through a Put that is under way.                  *)
Entries == [key : Keys, value : Values]

SeenOK == Abstract!TypeOK /\ Abstract!Coherent /\ Abstract!Bounded

LEMMA CapacitySame == Abstract!Capacity = Cap /\ Cap \in Nat \ {0}
BY SizeAssumption DEF Abstract!Capacity, Abstract!DefaultCapacity, Cap

LEMMA SeenSame == CacheProofs!CacheInv <=> SeenOK
BY DEF SeenOK, CacheProofs!CacheInv, CacheProofs!TypeOK, CacheProofs!Coherent,
       CacheProofs!Bounded, CacheProofs!KeysInOrder, CacheProofs!Capacity,
       CacheProofs!DefaultCapacity, CacheProofs!Entries,
       Abstract!TypeOK, Abstract!Coherent, Abstract!Bounded, Abstract!KeysInOrder,
       Abstract!Capacity, Abstract!DefaultCapacity, Abstract!Entries

LEMMA PutSame ==
    ASSUME NEW k, NEW v
    PROVE  CacheProofs!Put(k, v) <=> Abstract!Put(k, v)
BY DEF CacheProofs!Put, CacheProofs!Has, CacheProofs!cacheVars, CacheProofs!Insert,
       CacheProofs!Kept, CacheProofs!KeptKeys, CacheProofs!Full, CacheProofs!NewEntry,
       CacheProofs!Capacity, CacheProofs!DefaultCapacity,
       Abstract!Put, Abstract!Has, Abstract!cacheVars, Abstract!Insert,
       Abstract!Kept, Abstract!KeptKeys, Abstract!Full, Abstract!NewEntry,
       Abstract!Capacity, Abstract!DefaultCapacity

LEMMA PutSeenOK ==
    ASSUME SeenOK, NEW k \in Keys, NEW v \in Values, Abstract!Put(k, v)
    PROVE  SeenOK'
<1>1. CacheProofs!CacheInv'
  BY SeenSame, PutSame, CacheProofs!PutCacheInv, SizeAssumption
<1>2. CacheProofs!CacheInv' <=> SeenOK'
  BY SeenSame, PTL
<1> QED BY <1>1, <1>2

LEMMA UnchangedSeenOK ==
    ASSUME SeenOK, SeenOrder' = SeenOrder, SeenItems' = SeenItems
    PROVE  SeenOK'
BY DEF SeenOK, Abstract!TypeOK, Abstract!Coherent, Abstract!Bounded,
       Abstract!KeysInOrder, Abstract!Capacity, Abstract!DefaultCapacity,
       Abstract!Entries

(* What a Put has done so far, by the statement it stands at.              *)
DataTypes ==
    /\ order \in Seq(Entries)
    /\ items \in [DOMAIN items -> Entries] /\ DOMAIN items \subseteq Keys
    /\ oldest \in Entries \cup {Nil}

Inside == {"delete", "pushBack", "store"}

Putting(t) ==
    /\ pc[t] \in {"remove"} \cup Inside => call[t].key \notin DOMAIN SeenItems
    /\ pc[t] = "remove" => Len(order) >= Cap
    /\ pc[t] = "delete" =>
          oldest # Nil /\ oldest.key \in DOMAIN items /\ items[oldest.key] = oldest
    /\ pc[t] \in Inside /\ oldest # Nil => Len(SeenOrder) >= Cap
    /\ pc[t] \in {"pushBack", "store"} =>
          IF oldest = Nil THEN Len(SeenOrder) < Cap ELSE oldest.key \notin DOMAIN items
    /\ pc[t] = "store" => order # << >> /\ Last(order) = Entry(t)

DataInv ==
    /\ DataTypes
    /\ SeenOK
    /\ \A t \in Threads : Putting(t)
    /\ (\A t \in Threads : pc[t] \notin Inside) => oldest = Nil

(* The two structures seen, case by case.                                  *)
SeenCases ==
    DataTypes =>
        /\ oldest = Nil => SeenItems = items
        /\ oldest = Nil /\ ~Storing => SeenOrder = order
        /\ oldest = Nil /\ Storing => SeenOrder = Front(order)
        /\ oldest # Nil =>
              /\ SeenOrder = <<oldest>> \o (IF Storing THEN Front(order) ELSE order)
              /\ SeenItems = [k \in DOMAIN items \cup {oldest.key} |->
                                 IF k = oldest.key THEN oldest ELSE items[k]]

LEMMA Seen == SeenCases
<1> SUFFICES ASSUME DataTypes PROVE SeenCases
  BY DEF SeenCases
<1>1. CASE oldest = Nil
  <2>1. Removed = << >> /\ {Removed[i].key : i \in DOMAIN Removed} = {}
    BY <1>1 DEF Removed
  <2>2. order \in Seq(Entries) /\ Front(order) \in Seq(Entries)
    BY DEF DataTypes, Front
  <2>3. SeenOrder = IF Storing THEN Front(order) ELSE order
    BY <2>1, <2>2 DEF SeenOrder
  <2>4. SeenItems = [k \in DOMAIN items |-> items[k]]
    BY <1>1, <2>1 DEF SeenItems
  <2> QED BY <1>1, <2>3, <2>4 DEF DataTypes, SeenCases
<1>2. CASE oldest # Nil
  <2>1. Removed = <<oldest>> /\ {Removed[i].key : i \in DOMAIN Removed} = {oldest.key}
    BY <1>2 DEF Removed
  <2> QED BY <1>2, <2>1 DEF SeenOrder, SeenItems, SeenCases
<1> QED BY <1>1, <1>2

LEMMA SeenNext == SeenCases'
BY Seen, PTL

LEMMA FrontAppend ==
    ASSUME NEW S, NEW q \in Seq(S), NEW e \in S
    PROVE  Front(Append(q, e)) = q /\ Last(Append(q, e)) = e /\ Append(q, e) # << >>
BY DEF Front, Last

LEMMA FrontLast ==
    ASSUME NEW S, NEW q \in Seq(S), q # << >>
    PROVE  /\ Front(q) \in Seq(S) /\ Last(q) \in S
           /\ q = Append(Front(q), Last(q))
BY DEF Front, Last

-----------------------------------------------------------------------------
(* The statements of Put, one after the other.  All but the last leave     *)
(* what is seen unchanged.                                                 *)
SeenKept == SeenOrder' = SeenOrder /\ SeenItems' = SeenItems

LEMMA HolderAlone ==
    ASSUME LockInv, NEW s \in Threads, pc[s] \in Held
    PROVE  \A t \in Threads \ {s} : pc[t] \notin Held
BY DEF LockInv, Locking

(* When no Put is inside its critical section, what is there is seen.      *)
LEMMA NobodyInside ==
    ASSUME LockInv, DataInv, \A t \in Threads : pc[t] \notin Inside
    PROVE  oldest = Nil /\ ~Storing /\ SeenOrder = order /\ SeenItems = items
BY Seen DEF DataInv, Storing, Inside, SeenCases

(* A step that changes no data, and moves nobody within Put.               *)
LEMMA OutsideKeepsData ==
    ASSUME LockInv, DataInv, UNCHANGED dataVars, DOMAIN pc' = Threads,
           \A t \in Threads :
               \/ pc'[t] = pc[t] /\ call'[t] = call[t]
               \/ pc[t] \notin {"remove"} \cup Inside /\ pc'[t] \notin {"remove"} \cup Inside
    PROVE  SeenKept /\ DataInv'
<1>1. Storing' <=> Storing
  BY DEF Storing, Inside
<1>2. UNCHANGED <<order, items, oldest>>
  BY DEF dataVars
<1>3. SeenKept
  BY <1>1, <1>2 DEF SeenKept, SeenOrder, SeenItems, Removed
<1>4. SeenOK'
  BY <1>3, UnchangedSeenOK DEF DataInv, SeenKept
<1>5. DataTypes'
  BY <1>2 DEF DataInv, DataTypes, Entries
<1>6. \A t \in Threads : Putting(t)'
  BY <1>2, <1>3 DEF DataInv, Putting, SeenKept, Inside, Entry, Cap
<1>7. (\A t \in Threads : pc[t] \notin Inside)' => oldest' = Nil
  BY <1>2 DEF DataInv, Inside
<1> QED BY <1>3, <1>4, <1>5, <1>6, <1>7 DEF DataInv

LEMMA CheckPresentData ==
    ASSUME LockInv, DataInv, NEW s \in Threads, CheckPresent(s)
    PROVE  SeenKept /\ DataInv'
<1>1. /\ pc \in [Threads -> Labels] /\ pc[s] = "check"
      /\ pc' = [pc EXCEPT ![s] = IF call[s].key \in DOMAIN items THEN "unlock"
                                 ELSE IF Len(order) >= Cap THEN "remove" ELSE "pushBack"]
      /\ UNCHANGED <<order, items, oldest, call>>
  BY DEF CheckPresent, AfterReturn, GoTo, LockInv, LockTypes, dataVars
<1>2. \A t \in Threads : t # s => pc'[t] = pc[t] /\ pc[t] \notin Held
  BY <1>1, HolderAlone DEF Held, Alone
<1>3. oldest = Nil /\ ~Storing /\ SeenOrder = order /\ SeenItems = items
  BY <1>1, <1>2, NobodyInside DEF Inside, Held, Alone
<1>4. ~Storing'
  BY <1>1, <1>2 DEF Storing, Held, Alone
<1>5. DataTypes'
  BY <1>1 DEF DataInv, DataTypes, Entries
<1>6. SeenOrder' = order' /\ SeenItems' = items'
  BY <1>1, <1>3, <1>4, <1>5, SeenNext DEF SeenCases
<1>7. SeenKept
  BY <1>1, <1>3, <1>6 DEF SeenKept
<1>8. SeenOK'
  BY <1>7, UnchangedSeenOK DEF DataInv, SeenKept
<1>9. ASSUME NEW t \in Threads PROVE Putting(t)'
  <2>1. CASE t = s
    <3>1. Len(order) \in Nat
      BY DEF DataInv, DataTypes
    <3> QED BY <1>1, <1>3, <1>7, <2>1, <3>1, CapacitySame DEF Putting, Inside, SeenKept, Cap
  <2>2. CASE t # s
    BY <1>2, <2>2 DEF Putting, Inside, Held, Alone
  <2> QED BY <2>1, <2>2
<1> QED BY <1>1, <1>3, <1>5, <1>7, <1>8, <1>9 DEF DataInv

LEMMA RemoveFrontData ==
    ASSUME LockInv, DataInv, NEW s \in Threads, RemoveFront(s)
    PROVE  SeenKept /\ DataInv'
<1>1. /\ pc \in [Threads -> Labels] /\ pc[s] = "remove" /\ pc' = [pc EXCEPT ![s] = "delete"]
      /\ oldest' = Head(order) /\ order' = Tail(order) /\ UNCHANGED <<items, call>>
  BY DEF RemoveFront, GoTo, LockInv, LockTypes
<1>2. \A t \in Threads : t # s => pc'[t] = pc[t] /\ pc[t] \notin Held
  BY <1>1, HolderAlone DEF Held, Alone
<1>3. oldest = Nil /\ ~Storing /\ SeenOrder = order /\ SeenItems = items
  BY <1>1, <1>2, NobodyInside DEF Inside, Held, Alone
<1>4. order \in Seq(Entries) /\ order # << >> /\ Len(order) >= Cap
  BY <1>1, CapacitySame DEF DataInv, DataTypes, Putting
<1>5. /\ oldest' \in Entries /\ order' \in Seq(Entries) /\ oldest' = order[1]
      /\ <<oldest'>> \o order' = order
  BY <1>1, <1>4
<1>6. oldest'.key \in DOMAIN items /\ items[oldest'.key] = oldest'
  BY <1>3, <1>4, <1>5 DEF DataInv, SeenOK, Abstract!Coherent, Abstract!KeysInOrder
<1>7. ~Storing'
  BY <1>1, <1>2 DEF Storing, Held, Alone
<1>8. DataTypes' /\ oldest' # Nil
  BY <1>1, <1>5, NilAssumption DEF DataInv, DataTypes, Entries
<1>9. /\ SeenOrder' = <<oldest'>> \o order'
      /\ SeenItems' = [k \in DOMAIN items' \cup {oldest'.key} |->
                           IF k = oldest'.key THEN oldest' ELSE items'[k]]
  BY <1>7, <1>8, SeenNext DEF SeenCases
<1>10. SeenItems' = items
  BY <1>1, <1>6, <1>9 DEF DataInv, DataTypes
<1>11. SeenKept
  BY <1>3, <1>5, <1>9, <1>10 DEF SeenKept
<1>12. SeenOK'
  BY <1>11, UnchangedSeenOK DEF DataInv, SeenKept
<1>13. ASSUME NEW t \in Threads PROVE Putting(t)'
  <2>1. CASE t = s
    BY <1>1, <1>3, <1>4, <1>6, <1>8, <1>11, <2>1 DEF DataInv, Putting, Inside, SeenKept, Cap
  <2>2. CASE t # s
    BY <1>2, <2>2 DEF Putting, Inside, Held, Alone
  <2> QED BY <2>1, <2>2
<1> QED BY <1>1, <1>8, <1>11, <1>12, <1>13 DEF DataInv, Inside

LEMMA DeleteKeyData ==
    ASSUME LockInv, DataInv, NEW s \in Threads, DeleteKey(s)
    PROVE  SeenKept /\ DataInv'
<1>1. /\ pc \in [Threads -> Labels] /\ pc[s] = "delete" /\ pc' = [pc EXCEPT ![s] = "pushBack"]
      /\ items' = [k \in DOMAIN items \ {oldest.key} |-> items[k]]
      /\ UNCHANGED <<order, oldest, call>>
  BY DEF DeleteKey, Without, GoTo, LockInv, LockTypes
<1>2. \A t \in Threads : t # s => pc'[t] = pc[t] /\ pc[t] \notin Held
  BY <1>1, HolderAlone DEF Held, Alone
<1>3. ~Storing /\ ~Storing'
  BY <1>1, <1>2 DEF Storing, Held, Alone
<1>4. DataTypes /\ oldest # Nil /\ oldest.key \in DOMAIN items /\ items[oldest.key] = oldest
  BY <1>1 DEF DataInv, Putting
<1>5. DataTypes' /\ oldest.key \notin DOMAIN items'
  BY <1>1, <1>4 DEF DataTypes, Entries
<1>6. /\ SeenOrder = <<oldest>> \o order
      /\ SeenItems = [k \in DOMAIN items \cup {oldest.key} |->
                         IF k = oldest.key THEN oldest ELSE items[k]]
  BY <1>3, <1>4, Seen DEF SeenCases
<1>7. /\ SeenOrder' = <<oldest>> \o order
      /\ SeenItems' = [k \in DOMAIN items' \cup {oldest.key} |->
                         IF k = oldest.key THEN oldest ELSE items'[k]]
  BY <1>1, <1>3, <1>4, <1>5, SeenNext DEF SeenCases
<1>8. SeenItems' = SeenItems
  BY <1>1, <1>4, <1>6, <1>7
<1>9. SeenKept
  BY <1>6, <1>7, <1>8 DEF SeenKept
<1>10. SeenOK'
  BY <1>9, UnchangedSeenOK DEF DataInv, SeenKept
<1>11. ASSUME NEW t \in Threads PROVE Putting(t)'
  <2>1. CASE t = s
    BY <1>1, <1>4, <1>5, <1>9, <2>1 DEF DataInv, Putting, Inside, SeenKept, Cap
  <2>2. CASE t # s
    BY <1>2, <2>2 DEF Putting, Inside, Held, Alone
  <2> QED BY <2>1, <2>2
<1> QED BY <1>1, <1>5, <1>9, <1>10, <1>11 DEF DataInv, Inside

LEMMA PushBackData ==
    ASSUME LockInv, DataInv, NEW s \in Threads, PushBack(s)
    PROVE  SeenKept /\ DataInv'
<1> DEFINE e == Entry(s)
<1>1. /\ pc \in [Threads -> Labels] /\ pc[s] = "pushBack" /\ pc' = [pc EXCEPT ![s] = "store"]
      /\ order' = Append(order, e) /\ UNCHANGED <<items, oldest, call>>
  BY DEF PushBack, GoTo, LockInv, LockTypes
<1>2. \A t \in Threads : t # s => pc'[t] = pc[t] /\ pc[t] \notin Held
  BY <1>1, HolderAlone DEF Held, Alone
<1>3. ~Storing /\ Storing'
  BY <1>1, <1>2 DEF Storing, Held, Alone
<1>4. e \in Entries
  BY <1>1 DEF LockInv, Locking, Held, Alone, Puts, Entry, Entries
<1> HIDE DEF e
<1>5. order \in Seq(Entries) /\ DataTypes
  BY DEF DataInv, DataTypes
<1>6. order' \in Seq(Entries) /\ Front(order') = order /\ Last(order') = e /\ order' # << >>
  BY <1>1, <1>4, <1>5, FrontAppend
<1>7. DataTypes'
  BY <1>1, <1>5, <1>6 DEF DataTypes, Entries
<1>8. SeenKept
  BY <1>1, <1>3, <1>5, <1>6, <1>7, Seen, SeenNext DEF SeenCases, SeenKept
<1>9. SeenOK'
  BY <1>8, UnchangedSeenOK DEF DataInv, SeenKept
<1>10. ASSUME NEW t \in Threads PROVE Putting(t)'
  <2>1. CASE t = s
    <3>1. Entry(s)' = e
      BY <1>1 DEF Entry, e
    <3> QED BY <1>1, <1>6, <1>8, <2>1, <3>1 DEF DataInv, Putting, Inside, SeenKept, Cap
  <2>2. CASE t # s
    BY <1>2, <2>2 DEF Putting, Inside, Held, Alone
  <2> QED BY <2>1, <2>2
<1> QED BY <1>1, <1>7, <1>8, <1>9, <1>10 DEF DataInv, Inside

(* The last statement is the Put of the atomic cache.                      *)
LEMMA StoreElementPuts ==
    ASSUME LockInv, DataInv, NEW s \in Threads, StoreElement(s)
    PROVE  Abstract!Put(call[s].key, call[s].value) /\ DataInv'
<1> DEFINE k == call[s].key
           v == call[s].value
           e == Entry(s)
<1>1. /\ pc \in [Threads -> Labels] /\ pc[s] = "store" /\ pc' = [pc EXCEPT ![s] = "unlock"]
      /\ items' = [x \in DOMAIN items \cup {k} |-> IF x = k THEN Last(order) ELSE items[x]]
      /\ oldest' = Nil /\ UNCHANGED <<order, call>>
  BY DEF StoreElement, GoTo, LockInv, LockTypes
<1>2. \A t \in Threads : t # s => pc'[t] = pc[t] /\ pc[t] \notin Held
  BY <1>1, HolderAlone DEF Held, Alone
<1>3. Storing /\ ~Storing'
  BY <1>1, <1>2 DEF Storing, Held, Alone
<1>4. k \in Keys /\ v \in Values /\ e = Abstract!NewEntry(k, v) /\ e \in Entries
  BY <1>1 DEF LockInv, Locking, Held, Alone, Puts, Entry, Entries, Abstract!NewEntry
<1>5. /\ DataTypes /\ order \in Seq(Entries) /\ order # << >> /\ Last(order) = e
      /\ k \notin DOMAIN SeenItems
      /\ oldest = Nil => Len(SeenOrder) < Cap
      /\ oldest # Nil => Len(SeenOrder) >= Cap /\ oldest.key \notin DOMAIN items
  BY <1>1 DEF DataInv, DataTypes, Putting, Inside
<1> DEFINE left == Front(order)
<1>6. left \in Seq(Entries) /\ order = Append(left, e)
  BY <1>5, FrontLast
<1> HIDE DEF k, v, e, left
<1>7. DataTypes'
  BY <1>1, <1>4, <1>5, NilAssumption DEF DataTypes, Entries
<1>8. SeenOrder' = order /\ SeenItems' = items'
  BY <1>1, <1>3, <1>7, SeenNext DEF SeenCases
<1>9. Abstract!Kept = left /\ Abstract!KeptKeys = DOMAIN items
      /\ \A x \in DOMAIN items : SeenItems[x] = items[x]
  <2>1. CASE oldest = Nil
    <3>1. SeenOrder = left /\ SeenItems = items
      BY <1>3, <1>5, <2>1, Seen DEF SeenCases, left
    <3>2. ~Abstract!Full
      BY <1>5, <1>6, <2>1, <3>1, CapacitySame DEF Abstract!Full
    <3> QED BY <3>1, <3>2 DEF Abstract!Kept, Abstract!KeptKeys
  <2>2. CASE oldest # Nil
    <3>1. /\ SeenOrder = <<oldest>> \o left
          /\ SeenItems = [x \in DOMAIN items \cup {oldest.key} |->
                             IF x = oldest.key THEN oldest ELSE items[x]]
      BY <1>3, <1>5, <2>2, Seen DEF SeenCases, left
    <3>2. oldest \in Entries /\ oldest.key \notin DOMAIN items
      BY <1>5, <2>2 DEF DataTypes
    <3>3. Abstract!Full
      BY <1>5, <2>2, CapacitySame DEF Abstract!Full
    <3>4. Tail(SeenOrder) = left /\ Head(SeenOrder) = oldest
      BY <1>6, <3>1, <3>2
    <3> QED BY <3>1, <3>2, <3>3, <3>4 DEF Abstract!Kept, Abstract!KeptKeys
  <2> QED BY <2>1, <2>2
<1>10. Abstract!Insert(k, v)
  BY <1>1, <1>4, <1>5, <1>6, <1>8, <1>9 DEF Abstract!Insert
<1>11. Abstract!Put(k, v)
  BY <1>5, <1>10 DEF Abstract!Put, Abstract!Has
<1>12. SeenOK'
  BY <1>4, <1>11, PutSeenOK DEF DataInv
<1>13. ASSUME NEW t \in Threads PROVE Putting(t)'
  <2>1. CASE t = s
    BY <1>1, <2>1 DEF Putting, Inside
  <2>2. CASE t # s
    BY <1>2, <2>2 DEF Putting, Inside, Held, Alone
  <2> QED BY <2>1, <2>2
<1> QED BY <1>1, <1>7, <1>11, <1>12, <1>13 DEF DataInv, k, v

-----------------------------------------------------------------------------
(* Every step of the critical sections.                                    *)
LEMMA OtherStepsKeepData ==
    ASSUME LockInv, DataInv, [Next]_vars,
           \A s \in Threads : ~(CheckPresent(s) \/ RemoveFront(s) \/ DeleteKey(s)
                                   \/ PushBack(s) \/ StoreElement(s))
    PROVE  SeenKept /\ DataInv'
<1> USE DEF GoTo, Inside
<1>0. pc \in [Threads -> Labels] /\ call \in [Threads -> Calls \cup {Nil}]
  BY DEF LockInv, LockTypes
<1>1. ASSUME NEW s \in Threads, RLock(s) \/ Read(s) PROVE SeenKept /\ DataInv'
  BY <1>0, <1>1, OutsideKeepsData DEF RLock, Read
<1>2. ASSUME NEW s \in Threads, RUnlock(s) \/ Unlock(s) PROVE SeenKept /\ DataInv'
  BY <1>0, <1>2, OutsideKeepsData DEF RUnlock, Unlock
<1>3. ASSUME NEW s \in Threads, LockMutex(s) \/ Drained(s) PROVE SeenKept /\ DataInv'
  BY <1>0, <1>3, OutsideKeepsData DEF LockMutex, Drained
<1>4. ASSUME NEW s \in Threads, NEW c \in Calls, Call(s, c) PROVE SeenKept /\ DataInv'
  BY <1>0, <1>4, OutsideKeepsData DEF Call
<1>5. CASE UNCHANGED vars
  BY <1>0, <1>5, OutsideKeepsData DEF vars, dataVars
<1> QED BY <1>1, <1>2, <1>3, <1>4, <1>5 DEF Next, Step

LEMMA NextData ==
    ASSUME LockInv, DataInv, [Next]_vars
    PROVE  /\ DataInv'
           /\ SeenKept \/ \E s \in Threads :
                             /\ StoreElement(s)
                             /\ Abstract!Put(call[s].key, call[s].value)
<1>1. ASSUME NEW s \in Threads,
             CheckPresent(s) \/ RemoveFront(s) \/ DeleteKey(s) \/ PushBack(s)
      PROVE  SeenKept /\ DataInv'
  BY <1>1, CheckPresentData, RemoveFrontData, DeleteKeyData, PushBackData
<1>2. ASSUME NEW s \in Threads, StoreElement(s)
      PROVE  DataInv' /\ Abstract!Put(call[s].key, call[s].value)
  BY <1>2, StoreElementPuts
<1> QED BY <1>1, <1>2, OtherStepsKeepData

LEMMA InitData == Init => DataInv /\ Abstract!Init
<1> SUFFICES ASSUME Init PROVE DataInv /\ Abstract!Init
  OBVIOUS
<1>1. DataTypes /\ oldest = Nil /\ ~Storing
  BY DEF Init, DataTypes, Storing
<1>2. SeenOrder = << >> /\ SeenItems = [k \in {} |-> Nil]
  BY <1>1, Seen DEF SeenCases, Init
<1>3. SeenItems = Abstract!NoItems
  BY <1>2 DEF Abstract!NoItems
<1>4. SeenOK
  BY <1>2, CapacitySame
     DEF SeenOK, Abstract!TypeOK, Abstract!Coherent, Abstract!KeysInOrder, Abstract!Bounded
<1>5. \A t \in Threads : Putting(t)
  BY DEF Init, Putting, Inside
<1> QED BY <1>1, <1>2, <1>3, <1>4, <1>5 DEF DataInv, Abstract!Init

LEMMA Invariant == Spec => [](LockInv /\ DataInv)
BY InitLockInv, NextLockInv, InitData, NextData, PTL DEF Spec

(* Whatever the interleaving of its callers, every run of the critical     *)
(* sections is a run of the cache whose Put is one step: the deferred      *)
(* unlocks and the order of the statements hide every intermediate state   *)
(* (cache.go lines 32-67).                                                 *)
THEOREM CriticalSectionsImplement == Spec => ImplementsFifoCache
<1>1. LockInv /\ DataInv /\ [Next]_vars => [Abstract!Next]_(Abstract!cacheVars)
  <2> SUFFICES ASSUME LockInv, DataInv, [Next]_vars
               PROVE  [Abstract!Next]_(Abstract!cacheVars)
    OBVIOUS
  <2>1. CASE SeenKept
    BY <2>1 DEF SeenKept, Abstract!cacheVars
  <2>2. ASSUME NEW s \in Threads, StoreElement(s), Abstract!Put(call[s].key, call[s].value)
        PROVE  Abstract!Next
    <3>1. call[s].key \in Keys /\ call[s].value \in Values
      BY <2>2 DEF StoreElement, LockInv, Locking, Held, Alone, Puts
    <3> QED BY <2>2, <3>1 DEF Abstract!Next
  <2> QED BY <2>1, <2>2, NextData
<1> QED BY <1>1, InitData, Invariant, PTL DEF Spec, ImplementsFifoCache, Abstract!Spec

-----------------------------------------------------------------------------
(* What a reader has read is still what the atomic cache holds: no Put     *)
(* takes effect while a goroutine holds the read lock.                     *)
ReadInv == DOMAIN result = Threads /\ ReadsAreWhole

LEMMA ReadIsWhole ==
    ASSUME LockInv, DataInv, ReadInv, NEW s \in Threads, Read(s)
    PROVE  ReadInv'
<1>1. /\ pc[s] = "read" /\ s \in readers /\ pc \in [Threads -> Labels]
      /\ pc' = [pc EXCEPT ![s] = "runlock"] /\ call' = call
  BY DEF Read, LockInv, LockTypes, Locking, GoTo
<1>2. \A t \in Threads : pc[t] \notin Inside
  BY <1>1 DEF LockInv, Locking, Inside, Alone
<1>3. SeenOrder = order /\ SeenItems = items
  BY <1>2, NobodyInside
<1>4. SeenOrder' = SeenOrder /\ SeenItems' = SeenItems
  <2>1. \A t \in Threads : ~(CheckPresent(t) \/ RemoveFront(t) \/ DeleteKey(t)
                                \/ PushBack(t) \/ StoreElement(t))
    BY <1>1 DEF LockInv, LockTypes, Locking, Read, GoTo, CheckPresent, RemoveFront, DeleteKey,
           PushBack, StoreElement, Alone
  <2> QED BY <2>1, OtherStepsKeepData DEF Next, Step, SeenKept
<1>5. /\ DOMAIN result' = Threads
      /\ result'[s] = IF call[s].op = "Len" THEN Len(order) ELSE Lookup(call[s].key)
      /\ \A t \in Threads \ {s} : result'[t] = result[t] /\ pc'[t] = pc[t]
  BY <1>1 DEF Read, ReadInv
<1> QED BY <1>1, <1>3, <1>4, <1>5
        DEF ReadInv, ReadsAreWhole, Lookup, Abstract!Has, Abstract!Cached

LEMMA NextReadInv == LockInv /\ DataInv /\ ReadInv /\ [Next]_vars => ReadInv'
<1> SUFFICES ASSUME LockInv, DataInv, ReadInv, [Next]_vars PROVE ReadInv'
  OBVIOUS
<1>0. pc \in [Threads -> Labels] /\ call \in [Threads -> Calls \cup {Nil}]
  BY DEF LockInv, LockTypes
<1>1. ASSUME NEW s \in Threads, StoreElement(s) PROVE ReadInv'
  <2>1. \A t \in Threads : pc[t] # "runlock"
    BY <1>1 DEF StoreElement, LockInv, Locking, Alone
  <2> QED BY <1>0, <1>1, <2>1 DEF StoreElement, GoTo, ReadInv, ReadsAreWhole
<1>2. CASE \A s \in Threads : ~StoreElement(s) /\ ~Read(s)
  <2>1. SeenOrder' = SeenOrder /\ SeenItems' = SeenItems
    BY <1>2, NextData DEF SeenKept
  <2>2. /\ DOMAIN result' = Threads
        /\ \A t \in Threads : pc'[t] = "runlock" =>
              pc[t] = "runlock" /\ call'[t] = call[t] /\ result'[t] = result[t]
    BY <1>0, <1>2 DEF ReadInv, Next, Step, RLock, RUnlock, LockMutex, Drained, CheckPresent,
       AfterReturn, RemoveFront, DeleteKey, PushBack, Unlock, Call, GoTo, vars
  <2> QED BY <2>1, <2>2 DEF ReadInv, ReadsAreWhole, Abstract!Has, Abstract!Cached
<1> QED BY <1>1, <1>2, ReadIsWhole

(* What Get and Len return was the state of the atomic cache all the time  *)
(* the caller held the read lock (cache.go lines 32-42 and 63-67).         *)
THEOREM ReadsSeeWholePuts == Spec => []ReadsAreWhole
<1>1. Init => ReadInv
  BY DEF Init, ReadInv, ReadsAreWhole
<1>2. ReadInv => ReadsAreWhole
  BY DEF ReadInv
<1> QED BY <1>1, <1>2, NextReadInv, Invariant, PTL DEF Spec

-----------------------------------------------------------------------------
(* No number of goroutines can wait for each other in a circle, nor for    *)
(* one that has left the cache (the deferred unlocks, lines 34, 46, 65).   *)
THEOREM NobodyDeadlocks == Spec => []WaitsEnd
<1>1. LockInv => WaitsEnd
  <2> SUFFICES ASSUME LockInv PROVE WaitsEnd
    OBVIOUS
  <2>1. ASSUME NEW u \in readers
        PROVE  u \in Threads /\ pc[u] # "idle" /\ WaitsFor(u) = {}
    BY DEF LockInv, LockTypes, Locking, WaitsFor
  <2>2. ASSUME NEW t \in Threads, NEW u \in WaitsFor(t), u \notin readers
        PROVE  pc[u] \in Held /\ u \notin waiting /\ WaitsFor(u) \subseteq readers
    BY <2>2 DEF LockInv, LockTypes, Locking, WaitsFor, Held, Alone
  <2>3. ASSUME NEW t \in Threads, t \in waiting PROVE WaitsFor(t) # {}
    BY <2>3 DEF LockInv, LockTypes, WaitsFor
  <2>4. ASSUME NEW t \in Threads, NEW u \in WaitsFor(t)
        PROVE  /\ pc[u] # "idle"
               /\ \A v \in WaitsFor(u) : pc[v] # "idle" /\ WaitsFor(v) = {}
    <3>1. CASE u \in readers
      BY <2>1, <3>1
    <3>2. CASE u \notin readers
      <4>1. pc[u] # "idle"
        BY <2>2, <3>2 DEF Held, Alone
      <4> QED BY <2>1, <2>2, <3>2, <4>1
    <3> QED BY <3>1, <3>2
  <2> QED BY <2>3, <2>4 DEF WaitsEnd
<1> QED BY <1>1, Invariant, PTL
=============================================================================
