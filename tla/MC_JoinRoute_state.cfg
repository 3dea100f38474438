\* One join exchange for b while a, the other member, writes.
CONSTANTS
    a = a
    b = b
    r1 = r1
    w1 = w1
    w2 = w2
    k1 = k1
    q1 = q1
    q2 = q2
    Rooms <- MC_Rooms
    Users <- MC_Users
    LocalUsers <- MC_LocalUsers
    RKeys <- MC_RKeys
    Requests = {q1}
    Writers = {w1}
    MaxCommits = 3
    NoStamp = NoStamp
    NoVersion = NoVersion
    NoReceipt = NoReceipt
    UnknownEvent = UnknownEvent
    NoRoom = NoRoom
SPECIFICATION JoinSpec
INVARIANT SendJoinStateIsStateBeforeJoin
