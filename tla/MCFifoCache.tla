----------------------------- MODULE MCFifoCache -----------------------------
(* FifoCache with the log of the entries it admitted, bounded to MaxPuts.  *)
EXTENDS FifoCache, SequencesExt

CONSTANT MaxPuts    \* bound on the insertions of one behaviour

VARIABLE log        \* every entry inserted so far, oldest first

mcVars == <<order, items, log>>

MCInit == Init /\ log = << >>

MCPut(k, v) ==
    /\ Len(log) < MaxPuts
    /\ Put(k, v)
    /\ log' = IF Has(k) THEN log ELSE Append(log, [key |-> k, value |-> v])

MCNext == \E k \in Keys, v \in Values : MCPut(k, v)

MCSpec == MCInit /\ [][MCNext]_mcVars

(* The cache is the window of the last Capacity insertions, whatever was   *)
(* looked up or put again in between (Put, lines 48-60): an entry keeps    *)
(* its value, and leaves when it is the oldest of a full cache.            *)
WindowOfInsertions ==
    order = SubSeq(log, IF Len(log) > Capacity THEN Len(log) - Capacity + 1 ELSE 1,
                   Len(log))
=============================================================================
