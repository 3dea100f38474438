CONSTANTS
    a = a
    b = b
    r1 = r1
    r2 = r2
    w1 = w1
    w2 = w2
    k1 = k1
    hs1 = hs1
    s2 = s2
    p1 = p1
    p2 = p2
    Rooms = {r1, r2}
    Users <- MC_Users
    LocalUsers = {a}
    SyncUsers = {}
    RKeys = {k1}
    Servers = {hs1, s2}
    LocalServer = hs1
    UserServer <- MC_UserServer
    Procs = {p1}
    Writers = {w1}
    MaxCommits = 5
    Limit = 1
    ServerLimit = 2
    EmptyPollLimit = 2
    NoStamp = NoStamp
    NoVersion = NoVersion
    NoReceipt = NoReceipt
    UnknownEvent = UnknownEvent
    NoEvent = NoEvent
    NoOwner = NoOwner
    SendOutcomes = {"ok", "lost"}
    LeaseExpiry = FALSE
    ReadFailures = TRUE
SPECIFICATION FedSpec
INVARIANTS
    FedTypeOK
    NoLossBelowPosition
