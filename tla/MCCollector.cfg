\* Ten devices, six zones, ten minutes of the day; two changes of the environment.
CONSTANTS
    Nil = Nil
    Devices <- MCDevices
    OffsetOf <- MCOffsetOf
    Minutes <- MCMinutes
    MaxChanges = 2
SPECIFICATION Spec
INVARIANTS
    TypeOK
    HonestZoneMatches
    SpoofedZoneIsFlagged
    SnapshotsAgree
    OnlyThreeAreDemanded
    QuietDeviceKeepsHash
    GenuineReturnerAllowed
PROPERTY CollectionEnds
