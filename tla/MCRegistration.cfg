SPECIFICATION Spec
CONSTANTS
    Nil = Nil
    Slots = {s1, s2, s3}
    Messages <- RaceMessages
    Users <- MCUsers
    IPs <- MCIPs
    Answers <- MCAnswers
    Blacklist <- MCBlacklist
    LongPasswords <- MCLongPasswords
    IpDataFIFOLen = 1
SYMMETRY Symmetry
INVARIANTS
    TypeOK
    BaselineIsCreators
    CredentialsChecked
    BaselineIsSeen
    ReturningBrowserAllowed
PROPERTY AccountsEnrolled
