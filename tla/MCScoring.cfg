SPECIFICATION Spec
CONSTANTS
    Nil = Nil
    Fingerprints <- MCFingerprints
    Enrollable <- MCEnrollable
    Infos <- MCInfos
    MaxHistory = 2
INVARIANTS
    BanNeedsTwoLayers
    TakeoverIsBanned
    SilenceNeverHurts
    LossesAreExplained
CHECK_DEADLOCK FALSE
