\* One user per device pair, four tokens: two logins with refresh tokens
\* or four without; the clock runs past one expiry period.
CONSTANTS
    u1 = u1  u2 = u2  d1 = d1  d2 = d2
    t1 = t1  t2 = t2  t3 = t3  t4 = t4
    Usernames <- MC_Usernames
    DeviceIds <- MC_DeviceIds
    TokenIds <- MC_TokenIds
    TokenPrefix <- MC_TokenPrefix
    TokenTTL = 1
    MaxTime = 3
    NoEntry = NoEntry
SPECIFICATION AccountsSpec
INVARIANTS AccountsTypeOK TokenNamesExistingDevice ExpiringTokenStops
    DebugListsCurrentTokens
