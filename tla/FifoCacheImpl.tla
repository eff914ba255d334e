---------------------------- MODULE FifoCacheImpl ----------------------------
(***************************************************************************)
(* The critical sections of pkg/fifocache/cache.go statement by statement, *)
(* under the sync.RWMutex of the cache: goroutines call Get, Put and Len.  *)
(* FifoCacheImpl implements FifoCache.                                     *)
(*                                                                         *)
(* The mutex is Go's: a writer first takes an inner mutex, from then on    *)
(* new readers wait, and it holds the lock when the present readers have   *)
(* left; on its release all the readers that waited enter before the next  *)
(* writer.                                                                 *)
(***************************************************************************)
EXTENDS Naturals, Sequences, SequencesExt

CONSTANTS Threads, Keys, Values, ConfiguredSize, Nil

ASSUME SizeAssumption == ConfiguredSize \in Nat

ASSUME NilAssumption == Nil \notin Threads /\ Nil \notin [key : Keys, value : Values]

VARIABLES
    order, items,     \* the list and the map
    pc, call,         \* per goroutine: the next statement, the call made
    result,           \* per goroutine: what Get or Len has read
    oldest,           \* the local variable of Put: the entry removed, or Nil
    holder,           \* the writer that has the inner mutex, or Nil
    readers,          \* goroutines holding the read lock
    waiting           \* readers that wait for the writer to release

lockVars == <<holder, readers, waiting>>
dataVars == <<order, items, oldest>>
vars == <<order, items, pc, call, result, oldest, holder, readers, waiting>>

Cap == IF ConfiguredSize = 0 THEN 128 ELSE ConfiguredSize

Calls == [op : {"Get"}, key : Keys] \cup [op : {"Len"}]
            \cup [op : {"Put"}, key : Keys, value : Values]

Init ==
    /\ order = << >> /\ items = [k \in {} |-> Nil]
    /\ pc = [t \in Threads |-> "idle"]
    /\ call = [t \in Threads |-> Nil]
    /\ result = [t \in Threads |-> Nil]
    /\ oldest = Nil /\ holder = Nil /\ readers = {} /\ waiting = {}

GoTo(t, label) == pc' = [pc EXCEPT ![t] = label]

Call(t, c) ==
    /\ pc[t] = "idle"
    /\ call' = [call EXCEPT ![t] = c]
    /\ GoTo(t, IF c.op = "Put" THEN "lock" ELSE "rlock")
    /\ UNCHANGED <<result, dataVars, lockVars>>

-----------------------------------------------------------------------------
(* Get and Len.                                                            *)

\* MUTANT of RLock: the read lock is not taken.
RLockSkipped(t) ==
    /\ pc[t] = "rlock" /\ GoTo(t, "read")
    /\ UNCHANGED <<call, result, dataVars, lockVars>>

RLock(t) ==
    /\ pc[t] = "rlock" /\ GoTo(t, "read")
    /\ IF holder = Nil
       THEN readers' = readers \cup {t} /\ UNCHANGED waiting
       ELSE waiting' = waiting \cup {t} /\ UNCHANGED readers
    /\ UNCHANGED <<call, result, dataVars, holder>>

Lookup(key) == IF key \in DOMAIN items THEN items[key].value ELSE Nil

Read(t) ==
    /\ pc[t] = "read" /\ t \notin waiting
    /\ result' = [result EXCEPT ![t] = IF call[t].op = "Len" THEN Len(order)
                                       ELSE Lookup(call[t].key)]
    /\ GoTo(t, "runlock")
    /\ UNCHANGED <<call, dataVars, lockVars>>

RUnlock(t) ==
    /\ pc[t] = "runlock" /\ GoTo(t, "idle")
    /\ readers' = readers \ {t}
    /\ call' = [call EXCEPT ![t] = Nil]
    /\ result' = [result EXCEPT ![t] = Nil]
    /\ UNCHANGED <<dataVars, holder, waiting>>

-----------------------------------------------------------------------------
(* Put.                                                                    *)

LockMutex(t) ==
    /\ pc[t] = "lock" /\ holder = Nil
    /\ holder' = t
    /\ GoTo(t, "drain")
    /\ UNCHANGED <<call, result, dataVars, readers, waiting>>

Drained(t) ==
    /\ pc[t] = "drain" /\ readers = {}
    /\ GoTo(t, "check")
    /\ UNCHANGED <<call, result, dataVars, lockVars>>

\* MUTANT of AfterReturn: the lock is not released on the early return.
AfterReturnLeaks(t) == IF call[t].key \in DOMAIN items THEN "idle" ELSE "unlock"

\* Where an early return goes: the deferred Unlock.
AfterReturn(t) == "unlock"

CheckPresent(t) ==
    /\ pc[t] = "check"
    /\ GoTo(t, IF call[t].key \in DOMAIN items THEN AfterReturn(t)
               ELSE IF Len(order) >= Cap THEN "remove" ELSE "pushBack")
    /\ UNCHANGED <<call, result, dataVars, lockVars>>

RemoveFront(t) ==
    /\ pc[t] = "remove"
    /\ oldest' = Head(order)
    /\ order' = Tail(order)
    /\ GoTo(t, "delete")
    /\ UNCHANGED <<items, call, result, lockVars>>

\* MUTANT of Without: the key inserted is deleted instead of the oldest.
WithoutNew(t) == [k \in DOMAIN items \ {call[t].key} |-> items[k]]

Without(t) == [k \in DOMAIN items \ {oldest.key} |-> items[k]]

DeleteKey(t) ==
    /\ pc[t] = "delete"
    /\ items' = Without(t)
    /\ GoTo(t, "pushBack")
    /\ UNCHANGED <<order, oldest, call, result, lockVars>>

Entry(t) == [key |-> call[t].key, value |-> call[t].value]

PushBack(t) ==
    /\ pc[t] = "pushBack"
    /\ order' = Append(order, Entry(t))
    /\ GoTo(t, "store")
    /\ UNCHANGED <<items, oldest, call, result, lockVars>>

StoreElement(t) ==
    /\ pc[t] = "store"
    /\ items' = [k \in DOMAIN items \cup {call[t].key} |->
                    IF k = call[t].key THEN Last(order) ELSE items[k]]
    /\ oldest' = Nil
    /\ GoTo(t, "unlock")
    /\ UNCHANGED <<order, call, result, lockVars>>

Unlock(t) ==
    /\ pc[t] = "unlock" /\ GoTo(t, "idle")
    /\ readers' = readers \cup waiting
    /\ waiting' = {}
    /\ holder' = Nil
    /\ call' = [call EXCEPT ![t] = Nil]
    /\ UNCHANGED <<result, dataVars>>

-----------------------------------------------------------------------------
Step(t) ==
    \/ RLock(t) \/ Read(t) \/ RUnlock(t)
    \/ Drained(t) \/ CheckPresent(t) \/ RemoveFront(t) \/ DeleteKey(t)
    \/ PushBack(t) \/ StoreElement(t) \/ Unlock(t)

Next == \E t \in Threads : Step(t) \/ LockMutex(t) \/ \E c \in Calls : Call(t, c)

(* Goroutines are scheduled, and Go's mutex hands over to a waiter that    *)
(* has starved for a millisecond.                                          *)
Fairness == \A t \in Threads : WF_vars(Step(t)) /\ SF_vars(LockMutex(t))

Spec == Init /\ [][Next]_vars /\ Fairness

-----------------------------------------------------------------------------
(* The cache as its callers see it: a Put takes effect with its last       *)
(* statement, so until then the entry it removed is still there and the    *)
(* entry it pushed is not.                                                 *)
Storing == \E t \in Threads : pc[t] = "store"

Removed == IF oldest = Nil THEN << >> ELSE <<oldest>>

SeenOrder == Removed \o IF Storing THEN Front(order) ELSE order

SeenItems ==
    [k \in DOMAIN items \cup {Removed[i].key : i \in DOMAIN Removed} |->
        IF oldest # Nil /\ k = oldest.key THEN oldest ELSE items[k]]

Abstract == INSTANCE FifoCache WITH order <- SeenOrder, items <- SeenItems

(* Whatever the interleaving of its callers, the cache behaves like one    *)
(* whose operations are single steps (lines 32-67).                        *)
ImplementsFifoCache == Abstract!Spec

(* What Get and Len return is the state of the atomic cache while they     *)
(* hold the read lock: no half-done Put shows, neither the list without    *)
(* the map nor the eviction without the insertion (lines 32-42, 52-66).    *)
ReadsAreWhole ==
    \A t \in Threads : pc[t] = "runlock" =>
        result[t] = IF call[t].op = "Len" THEN Len(SeenOrder)
                    ELSE IF Abstract!Has(call[t].key) THEN Abstract!Cached(call[t].key)
                    ELSE Nil

\* The goroutines that one waits for: at the mutex, woken by the release of a
\* writer, or as a writer for the readers to leave.
WaitsFor(t) ==
    {u \in Threads : \/ (pc[t] = "lock" \/ t \in waiting) /\ u = holder
                     \/ pc[t] = "drain" /\ u \in readers}

(* Nobody deadlocks: whom a goroutine waits for is inside a call, and can  *)
(* go on or waits itself only for some that can; a reader that waits is    *)
(* woken by somebody.  In particular no early return leaves the lock taken *)
(* (the deferred unlocks, lines 34, 46 and 65).                            *)
WaitsEnd ==
    \A t \in Threads :
        /\ t \in waiting => WaitsFor(t) # {}
        /\ \A u \in WaitsFor(t) :
              /\ pc[u] # "idle"
              /\ \A v \in WaitsFor(u) : pc[v] # "idle" /\ WaitsFor(v) = {}

(* Every call returns: no path leaves the lock taken, and neither readers  *)
(* nor writers starve (the deferred unlocks, lines 34, 46 and 65).         *)
EveryCallReturns == \A t \in Threads : pc[t] # "idle" ~> pc[t] = "idle"
=============================================================================
