------------------------------ MODULE Accounts ------------------------------
(***************************************************************************)
(* The accounts database (src/internal/databases/accounts): users,        *)
(* devices and access/refresh tokens, with the /login and /register       *)
(* routes and the auth middleware's token lookup.                          *)
(*                                                                         *)
(* Each route runs one DoWriteTransaction, serialisable in FDB, so each   *)
(* is one atomic step; a transaction whose body returns an error does not  *)
(* commit and is a step that changes nothing.  Tokens are drawn            *)
(* fresh from a pool standing for util.GenerateRandomString(48).  Time is  *)
(* a counter; an expiry of 0 is the code's "never expires".                *)
(***************************************************************************)
EXTENDS Naturals, FiniteSets, Bags

CONSTANTS
    Usernames,  \* localparts a client may register or log in as
    DeviceIds,  \* device ids a client may send or the server may generate
    TokenIds,   \* the pool of random token strings
    TokenTTL,   \* config.Accounts.RefreshAccessTokenExpire, in ticks (0: off)
    MaxTime,    \* bound on the clock
    NoEntry,    \* model value: no value under the key
    TokenPrefix(_) \* tup[2].(string)[:7] + "...": what a debug listing shows

ASSUME TokenTTL \in Nat /\ MaxTime \in Nat

\* The value stored under an index key userID/deviceID/token -> '': the
\* index entries carry the token in their key and an empty value.
IndexValue == ""

VARIABLES
    users,        \* byUsername: registered localparts (with a password hash)
    devices,      \* byUserDeviceID: <<user, device>> pairs
    authTokens,   \* "at": token -> [user, device, expires]
    authByDevice, \* "atd": <<user, device, token>> index entries
    refreshTokens,\* "ref": token -> <<user, device>>
    refreshByDevice, \* "rfd": <<user, device, token>> index entries
    now,          \* time.Now(), in ticks
    issued,       \* history: every token handed out
    current,      \* history: the access token last issued for each device
    issuedAt,     \* history: when each access token was issued
    expiring      \* history: access tokens issued with a refresh token

acctVars == <<users, devices, authTokens, authByDevice, refreshTokens,
              refreshByDevice, now, issued, current, issuedAt,
              expiring>>

AuthTup == [user : Usernames, device : DeviceIds, expires : Nat]

AccountsTypeOK ==
    /\ users \subseteq Usernames
    /\ devices \subseteq Usernames \X DeviceIds
    /\ authTokens \in [TokenIds -> AuthTup \cup {NoEntry}]
    /\ authByDevice \subseteq Usernames \X DeviceIds \X TokenIds
    /\ refreshTokens \in [TokenIds -> (Usernames \X DeviceIds) \cup {NoEntry}]
    /\ refreshByDevice \subseteq Usernames \X DeviceIds \X TokenIds
    /\ now \in 0 .. MaxTime
    /\ issued \subseteq TokenIds
    /\ current \in [Usernames \X DeviceIds -> TokenIds \cup {NoEntry}]
    /\ issuedAt \in [TokenIds -> 0 .. MaxTime]
    /\ expiring \subseteq issued

AccountsInit ==
    /\ users = {}
    /\ devices = {}
    /\ authTokens = [t \in TokenIds |-> NoEntry]
    /\ authByDevice = {}
    /\ refreshTokens = [t \in TokenIds |-> NoEntry]
    /\ refreshByDevice = {}
    /\ now = 0
    /\ issued = {}
    /\ current = [ud \in Usernames \X DeviceIds |-> NoEntry]
    /\ issuedAt = [t \in TokenIds |-> 0]
    /\ expiring = {}

----------------------------------------------------------------------------
(* Reads *)

\* TokensDirectory.TxnGetAuthTokenTup: the at/<token> entry, NoEntry when
\* the key is absent.
TxnGetAuthTokenTup(t) == authTokens[t]

\* GetUserDeviceForAuthToken: the token's tuple, rejected when absent or
\* when it has an expiry (non-zero) that is before now.
TokenAuthenticates(t) ==
    /\ TxnGetAuthTokenTup(t) # NoEntry
    /\ ~(TxnGetAuthTokenTup(t).expires # 0 /\ TxnGetAuthTokenTup(t).expires < now)

\* NewUserAuthMiddleware then RequireUserAuth for a request bearing token
\* t: the user and device the lookup returns, or NoEntry when the lookup
\* fails and the request is answered M_MISSING_TOKEN.
RequestUserDevice(t) ==
    IF TokenAuthenticates(t)
    THEN <<authTokens[t].user, authTokens[t].device>>
    ELSE NoEntry

\* UsersDirectory.TxnGetLocalUser behind GetLocalUserForUsername: the
\* user record, or ErrUserNotFound (NoEntry) when the key is absent.
TxnGetLocalUser(u) == IF u \in users THEN u ELSE NoEntry

\* GetLocalUserForUsername: TxnGetLocalUser in its own read transaction.
GetLocalUserForUsername(u) == TxnGetLocalUser(u)

\* The index entries of one user, and the bag of prefixes of the tokens in
\* the entries of one device: the listing appends one prefix per entry, so
\* two tokens with the same prefix both appear.
DeviceTokenPrefixes(index, u, d) ==
    LET ts == { e[3] : e \in { e \in index : e[1] = u /\ e[2] = d } }
    IN [p \in { TokenPrefix(t) : t \in ts } |->
          Cardinality({ t \in ts : TokenPrefix(t) = p })]

\* TxnListUserDeviceAuthTokenPrefixes: every atd/<user>/... index entry,
\* grouped by device.
TxnListUserDeviceAuthTokenPrefixes(u) ==
    [d \in { e[2] : e \in { e \in authByDevice : e[1] = u } } |->
        DeviceTokenPrefixes(authByDevice, u, d)]

\* TxnListUserDeviceRefreshTokenPrefixes: the same over the rfd index.
TxnListUserDeviceRefreshTokenPrefixes(u) ==
    [d \in { e[2] : e \in { e \in refreshByDevice : e[1] = u } } |->
        DeviceTokenPrefixes(refreshByDevice, u, d)]

\* GetUserDeviceTokenPrefixes: both listings in one read transaction.
GetUserDeviceTokenPrefixes(u) ==
    [authTokens    |-> TxnListUserDeviceAuthTokenPrefixes(u),
     refreshTokens |-> TxnListUserDeviceRefreshTokenPrefixes(u)]

\* GET /_debug/users/{userID} -> DebugGetUser: GetLocalUserForUsername,
\* answered with an error for an unknown user, then the token listings in
\* a second read transaction.  The profile and memberships it adds come
\* from the rooms database and are left out.  Users and index entries of
\* earlier tokens are never added back between the two reads, so the
\* response is taken at one state.
DebugGetUser(u) ==
    IF GetLocalUserForUsername(u) = NoEntry THEN NoEntry
    ELSE [user |-> u] @@ GetUserDeviceTokenPrefixes(u)

----------------------------------------------------------------------------
(* Token directory writes *)

\* The clear with the token taken from the index key, as the index layout
\* intends: with it, ReloginRevokesOldToken holds.
TxnClearUserDeviceTokensByKey(u, d) ==
    LET rfd == { e \in refreshByDevice : e[1] = u /\ e[2] = d }
        atd == { e \in authByDevice : e[1] = u /\ e[2] = d }
    IN [rt |-> [t \in TokenIds |-> IF \E e \in rfd : e[3] = t THEN NoEntry
                                  ELSE refreshTokens[t]],
        rd |-> refreshByDevice \ rfd,
        at |-> [t \in TokenIds |-> IF \E e \in atd : e[3] = t THEN NoEntry
                                  ELSE authTokens[t]],
        ad |-> authByDevice \ atd]

\* Mutant: the device's index entries are left in place.
TxnClearUserDeviceTokensKeepIndex(u, d) ==
    [rt |-> refreshTokens, rd |-> refreshByDevice,
     at |-> authTokens, ad |-> authByDevice]

\* TxnClearUserDeviceTokens: for every index entry of (u, d), clear the
\* token entry named by the entry's VALUE, then the index entry.  The
\* value is empty, so the cleared token key names no token.
TxnClearUserDeviceTokens(u, d) ==
    LET rfd == { e \in refreshByDevice : e[1] = u /\ e[2] = d }
        atd == { e \in authByDevice : e[1] = u /\ e[2] = d }
    IN [rt |-> [t \in TokenIds |-> IF t = IndexValue THEN NoEntry ELSE refreshTokens[t]],
        rd |-> refreshByDevice \ rfd,
        at |-> [t \in TokenIds |-> IF t = IndexValue THEN NoEntry ELSE authTokens[t]],
        ad |-> authByDevice \ atd]

\* Mutant: the access token never expires.
AccessTokenExpireNever(withRefresh) == 0

\* The expiry TxnCreateNewTokensForUserDevice passes on: the configured
\* one when a refresh token is issued, none otherwise.
AccessTokenExpire(withRefresh) == IF withRefresh THEN TokenTTL ELSE 0

\* TxnCreateNewTokensForUserDevice: clear the device's tokens, then write
\* a refresh token (if asked) and an access token with their index
\* entries.  at and rt are fresh tokens.
TxnCreateNewTokensForUserDevice(u, d, withRefresh, at, rt) ==
    LET c   == TxnClearUserDeviceTokens(u, d)
        exp == AccessTokenExpire(withRefresh)
        expireTs == IF exp > 0 THEN now + exp ELSE 0
    IN /\ refreshTokens' = IF withRefresh THEN [c.rt EXCEPT ![rt] = <<u, d>>] ELSE c.rt
       /\ refreshByDevice' = IF withRefresh THEN c.rd \cup {<<u, d, rt>>} ELSE c.rd
       /\ authTokens' = [c.at EXCEPT ![at] = [user |-> u, device |-> d, expires |-> expireTs]]
       /\ authByDevice' = c.ad \cup {<<u, d, at>>}
       /\ issued' = issued \cup {at} \cup (IF withRefresh THEN {rt} ELSE {})
       /\ current' = [current EXCEPT ![<<u, d>>] = at]
       /\ issuedAt' = [issuedAt EXCEPT ![at] = now]
       /\ expiring' = IF withRefresh THEN expiring \cup {at} ELSE expiring

\* Mutant: the device is not created on login.
TxnGetOrCreateDeviceSkipped(u, d) == devices

\* DevicesDirectory.TxnGetOrCreateDevice: create the device if missing.
TxnGetOrCreateDevice(u, d) == devices \cup {<<u, d>>}

----------------------------------------------------------------------------
(* Actions *)

\* The device_id of a request; "" when the client sends none.
RequestDeviceIds == DeviceIds \cup {""}

\* Mutant: the request's device id is used even when empty.
DeviceIdForUnset(req) == {req}

\* The device id LoginWithPassword and RegisterWithPassword use: the
\* request's, or a random one (GenerateRandomStringBase32Hex) when empty.
DeviceIdFor(req) == IF req = "" THEN DeviceIds ELSE {req}

\* UsersDirectory.TxnGetLocalUserPasswordHash: registration stores a hash
\* for every user, so a user has one exactly when registered.
HasPasswordHash(u) == u \in users

\* UsersDirectory.TxnCreateUser: ErrUserAlreadyExists for a taken name;
\* otherwise the user, its version key and its password hash are set.
TxnCreateUser(u) ==
    /\ u \notin users
    /\ users' = users \cup {u}

\* Fresh random tokens: the access token and a distinct refresh token.
FreshTokens == { tt \in (TokenIds \ issued) \X (TokenIds \ issued) : tt[1] # tt[2] }

\* POST /register -> RegisterWithPassword: TxnCreateUser fails when the
\* username is taken; otherwise user, tokens and device in one commit.
RegisterWithPassword(u, req, withRefresh) ==
    /\ TxnCreateUser(u)
    /\ \E d \in DeviceIdFor(req), tt \in FreshTokens :
         /\ TxnCreateNewTokensForUserDevice(u, d, withRefresh, tt[1], tt[2])
         /\ devices' = TxnGetOrCreateDevice(u, d)
    /\ UNCHANGED now

\* POST /login -> LoginWithPassword: the user must exist and the password
\* match (a wrong password returns ErrInvalidPassword and commits
\* nothing); then new tokens for the device, and the device if new.
LoginWithPassword(u, req, withRefresh) ==
    /\ HasPasswordHash(u)
    /\ \E d \in DeviceIdFor(req), tt \in FreshTokens :
         /\ TxnCreateNewTokensForUserDevice(u, d, withRefresh, tt[1], tt[2])
         /\ devices' = TxnGetOrCreateDevice(u, d)
    /\ UNCHANGED <<users, now>>

\* A request whose transaction body returns an error and commits nothing:
\* /login for an unknown user (ErrUserNotFound) or with a wrong password
\* (ErrInvalidPassword), /register for a taken name (ErrUserAlreadyExists).
RequestRejected(u) ==
    /\ \/ ~HasPasswordHash(u) \* login, no password hash
       \/ HasPasswordHash(u)  \* login with a wrong password, or register
    /\ UNCHANGED acctVars

\* Time passes.
Tick ==
    /\ now < MaxTime
    /\ now' = now + 1
    /\ UNCHANGED <<users, devices, authTokens, authByDevice, refreshTokens,
                   refreshByDevice, issued, current, issuedAt, expiring>>

AccountsNext ==
    \/ \E u \in Usernames, d \in RequestDeviceIds, wr \in BOOLEAN :
          \/ RegisterWithPassword(u, d, wr)
          \/ LoginWithPassword(u, d, wr)
    \/ \E u \in Usernames : RequestRejected(u)
    \/ Tick

AccountsSpec == AccountsInit /\ [][AccountsNext]_acctVars

----------------------------------------------------------------------------
(* Properties *)

\* A request passes the auth middleware only as a registered user on a
\* device that exists for that user: register and login write the token
\* and TxnGetOrCreateDevice in one transaction.
TokenNamesExistingDevice ==
    \A t \in TokenIds :
        RequestUserDevice(t) # NoEntry =>
            /\ RequestUserDevice(t)[1] \in users
            /\ RequestUserDevice(t) \in devices

\* An access token issued together with a refresh token stops
\* authenticating once RefreshAccessTokenExpire has passed since it was
\* issued: the expiry TxnCreateAuthToken stores and the check in
\* GetUserDeviceForAuthToken agree.
ExpiringTokenStops ==
    \A t \in expiring :
        now > issuedAt[t] + TokenTTL => RequestUserDevice(t) = NoEntry

\* The debug user route shows, for each device of a user, exactly the
\* prefix of the device's latest access token: TxnClearUserDeviceTokens
\* removes the device's index entries before TxnCreateAuthToken adds the
\* new one, over any sequence of registrations and logins.  (The primary
\* token keys are not cleared, so the route does not show an old token
\* that still authenticates; see ReloginRevokesOldToken.)
DebugListsCurrentTokens ==
    \A u \in users :
        LET listed == DebugGetUser(u).authTokens IN
        /\ DOMAIN listed = { d \in DeviceIds : current[<<u, d>>] # NoEntry }
        /\ \A d \in DOMAIN listed :
              listed[d] = SetToBag({ TokenPrefix(current[<<u, d>>]) })

\* A new login on a device replaces its tokens: TxnCreateNewTokensForUserDevice
\* first clears the device's tokens, so only the device's latest access
\* token authenticates.
ReloginRevokesOldToken ==
    \A t \in TokenIds :
        RequestUserDevice(t) # NoEntry => current[RequestUserDevice(t)] = t

=============================================================================
