SPECIFICATION MCSpec
CONSTANTS
    Keys = {k1, k2, k3, k4}
    Values = {v1, v2}
    ConfiguredSize = 2
    MaxPuts = 4
INVARIANTS
    Coherent
    WindowOfInsertions
CHECK_DEADLOCK FALSE
