\* A second login on the same device, then the first token.
CONSTANTS
    u1 = u1  u2 = u2  d1 = d1  d2 = d2
    t1 = t1  t2 = t2  t3 = t3  t4 = t4
    Usernames <- MC_Usernames
    DeviceIds <- MC_DeviceIds
    TokenIds <- MC_TokenIds
    TokenPrefix <- MC_TokenPrefix
    TokenTTL = 1
    MaxTime = 3
    NoEntry = NoEntry
SPECIFICATION AccountsSpec
INVARIANT ReloginRevokesOldToken
