SPECIFICATION FairSpec
CONSTANTS
    Nil = Nil
    Slots = {s1, s2}
    Messages <- GuardMessages
    Users <- MCUsers
    IPs <- MCIPs
    Answers <- MCAnswers
    Blacklist <- MCBlacklist
    LongPasswords <- MCLongPasswords
    IpDataFIFOLen = 1
INVARIANTS
    NoThreatHandled
    AccountsPassedGuard
    CacheHoldsAnswers
PROPERTY EveryRequestAnswered
