------------------------------ MODULE FifoCache ------------------------------
(***************************************************************************)
(* The bounded first-in first-out cache of pkg/fifocache/cache.go.         *)
(*                                                                         *)
(* The cache keeps two structures that must agree: a list of entries in    *)
(* insertion order and a map from keys to the elements of that list.  Both *)
(* are changed by Put under the write lock, so Put is one action here;     *)
(* FifoCacheImpl takes the critical sections apart.                        *)
(***************************************************************************)
EXTENDS Naturals, Sequences

CONSTANTS
    Keys,            \* the keys (IP addresses for the ipdata client)
    Values,          \* the values stored
    ConfiguredSize   \* the capacity passed to New, 0 standing for the default

ASSUME ConfiguredSizeAssumption == ConfiguredSize \in Nat

VARIABLES
    order,           \* c.order: the entries, oldest first
    items            \* c.items: the keys present, each with its entry

cacheVars == <<order, items>>

DefaultCapacity == 128

Capacity == IF ConfiguredSize = 0 THEN DefaultCapacity ELSE ConfiguredSize

Entries == [key : Keys, value : Values]

NoItems == [k \in {} |-> Capacity]

Init == order = << >> /\ items = NoItems

Has(k) == k \in DOMAIN items

\* What Get returns for a key that is present.
Cached(k) == items[k].value

\* MUTANT of Full: off by one.
FullLate == Len(order) > Capacity

Full == Len(order) >= Capacity

\* The list and the map after the eviction that makes room for one entry.
Kept == IF Full THEN Tail(order) ELSE order

\* MUTANT of KeptKeys: the evicted key is not deleted from the map.
KeptKeysLeak == DOMAIN items

KeptKeys == IF Full THEN DOMAIN items \ {Head(order).key} ELSE DOMAIN items

NewEntry(k, v) == [key |-> k, value |-> v]

Insert(k, v) ==
    /\ order' = Append(Kept, NewEntry(k, v))
    /\ items' = [x \in KeptKeys \cup {k} |-> IF x = k THEN NewEntry(k, v) ELSE items[x]]

\* MUTANT of Put: a key that is present moves to the back, as in an LRU cache.
PutRefreshing(k, v) ==
    IF Has(k)
    THEN /\ order' = Append(SelectSeq(order, LAMBDA e : e.key # k), items[k])
         /\ UNCHANGED items
    ELSE Insert(k, v)

\* MUTANT of Put: the value of a key that is present is replaced.
PutOverwriting(k, v) ==
    IF Has(k)
    THEN /\ order' = [i \in DOMAIN order |->
                         IF order[i].key = k THEN NewEntry(k, v) ELSE order[i]]
         /\ items' = [items EXCEPT ![k] = NewEntry(k, v)]
    ELSE Insert(k, v)

\* A key that is present keeps its value and its place: there is no refresh.
Put(k, v) == IF Has(k) THEN UNCHANGED cacheVars ELSE Insert(k, v)

Next == \E k \in Keys, v \in Values : Put(k, v)

Spec == Init /\ [][Next]_cacheVars

-----------------------------------------------------------------------------
TypeOK ==
    /\ order \in Seq(Entries)
    /\ DOMAIN items \subseteq Keys
    /\ \A k \in DOMAIN items : items[k] \in Entries

KeysInOrder == {order[i].key : i \in DOMAIN order}

(* The list and the map describe the same entries (Put changes them in two *)
(* statements each, lines 52-60): a key that left one but not the other    *)
(* would be served for ever or evicted twice.                              *)
Coherent ==
    /\ DOMAIN items = KeysInOrder
    /\ \A i \in DOMAIN order : items[order[i].key] = order[i]
    /\ \A i, j \in DOMAIN order : order[i].key = order[j].key => i = j

(* The cache never holds more entries than the capacity New settled on,    *)
(* the default included (lines 21-23, 52).                                 *)
Bounded == Len(order) <= Capacity
=============================================================================
