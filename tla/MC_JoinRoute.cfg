\* Two overlapping join exchanges for b and one store writer, four commits:
\* both exchanges commit, a leave and a re-join fit in between.
CONSTANTS
    a = a
    b = b
    r1 = r1
    w1 = w1
    w2 = w2
    k1 = k1
    q1 = q1
    q2 = q2
    Rooms <- MC_Rooms
    Users <- MC_Users
    LocalUsers <- MC_LocalUsers
    RKeys <- MC_RKeys
    Requests = {q1, q2}
    Writers = {w1}
    MaxCommits = 4
    NoStamp = NoStamp
    NoVersion = NoVersion
    NoReceipt = NoReceipt
    UnknownEvent = UnknownEvent
    NoRoom = NoRoom
SPECIFICATION JoinSpec
INVARIANTS
    JoinTypeOK
    SendJoinStateExcludesOwnJoin
