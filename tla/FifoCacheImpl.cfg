SPECIFICATION Spec
CONSTANTS
    Threads = {t1, t2, t3}
    Keys = {k1, k2}
    Values = {v1, v2}
    ConfiguredSize = 1
    Nil = Nil
INVARIANTS
    ReadsAreWhole
    WaitsEnd
PROPERTIES
    ImplementsFifoCache
    EveryCallReturns
