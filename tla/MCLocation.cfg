SPECIFICATION Spec
CONSTANTS
    Nil = Nil
    Fingerprints <- MCFingerprints
    Enrollable <- MCEnrollable
    Infos <- MCInfos
    MaxHistory = 2
INVARIANT LocationChangeCosts
CHECK_DEADLOCK FALSE
