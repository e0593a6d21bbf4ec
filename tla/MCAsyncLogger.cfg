SPECIFICATION FairSpec
CONSTANTS
    Producers = {p1, p2}
    MaxQueueSize = 2
    MaxPushes = 3
INVARIANTS
    PendingAccounting
    NoSleepOnUrgent
PROPERTIES
    FlushDrains
    ImplementsChannel
    CallsReturn
