CONSTANTS
    a = a
    b = b
    r1 = r1
    r2 = r2
    w1 = w1
    w2 = w2
    k1 = k1
    Rooms <- MC_Rooms
    Users <- MC_Users
    LocalUsers <- MC_LocalUsers
    SyncUsers <- MC_SyncUsers
    RKeys <- MC_RKeys
    Writers = {w1}
    MaxCommits = 4
    Limit = 2
    NoStamp = NoStamp
    NoVersion = NoVersion
    NoReceipt = NoReceipt
    UnknownEvent = UnknownEvent
    NoEvent = NoEvent
SPECIFICATION Spec
INVARIANTS
    DeliveredWhileJoined
