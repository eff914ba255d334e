SPECIFICATION Spec
CONSTANTS
    Nil = Nil
    Slots = {s1, s2}
    Messages <- RaceMessages
    Users <- MCUsers
    IPs <- MCIPs
    Answers <- MCAnswers
    Blacklist <- MCBlacklist
    LongPasswords <- MCLongPasswords
    IpDataFIFOLen = 1
SYMMETRY Symmetry
INVARIANT NetworkLayerEvaluated
