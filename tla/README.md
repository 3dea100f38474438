# TLA+ models of babbleserv

This directory holds TLA+ models of babbleserv, a Matrix homeserver built on
FoundationDB (FDB). TLC checks them. Each module is translated from the Go
source under `src/internal/`. `PROJECT.json` maps every definition to the
lines it models, and lists the runs, the mutants, the findings and the hazards.

## The system

babbleserv keeps all room data in one FDB database (`databases/rooms`). Writes
run through `util.DoWriteTransaction`. Commits are serialisable, and each
commit gets a *versionstamp*: the commit version plus a 16-bit user version
chosen by the writer. Every write transaction also appends
`ttv[time.Now().UnixNano()] -> (commit, 65534)` to a time-to-version index.

The parts that share state:

- **Super streams** (`superstream.go`). For each room there is an append-only
  log keyed by versionstamp, holding events and read receipts. Local senders'
  entries are mirrored into a *local* super stream, which the federation
  sender reads. A new receipt for a (room, user, type, thread) clears the
  previous entry from both streams. The `superStreamReceiptVersions` pointer
  records where that previous entry is.
- **Receipts** (`receipts_send.go`, `routes/client/receipts.go`). A receipt is
  accepted only when:
  - the user is in the room; and
  - for a local user, the event is known.

  A rejected receipt still commits its transaction, so it still adds a ttv
  entry.
- **Membership projection**. Member events keep two records per user:
  - the current memberships;
  - a log of membership changes keyed by version.

  The code that writes them (the users directory and the event send path) is
  not under `src/`. It is modelled from spec §4.5–4.6.
- **Incremental sync** (`rooms_sync.go`). `syncRoomEvents` runs in three steps:
  1. A snapshot read transaction gets the latest version V\* (the ttv entry
     with the greatest key) and the current memberships. A second read gets
     the membership changes in [from, V\*).
  2. A per-room window is computed for each membership tuple. One goroutine
     per window then paginates the room's super stream in its own read
     transaction.
  3. The results are merged, sorted, and cut at the limit. The next cursor is
     the last kept item's version if the batch is full, and V\* otherwise.
- **Initial sync and the client /sync route** (`databases/sync_init.go`,
  `rooms_sync_init.go`, `routes/client/sync.go`, `types/sync.go`). A request
  without `since` returns the current state events and receipts of the
  user's rooms, with `next_batch` = V\*. A request with `since` runs the
  incremental sync. An empty response is meant to wait on the notifier.
- **Federation sender** (`workers/federation_sender.go`, `servers.go`). There
  is one sender per remote server, guarded by a distributed lock. It loops:
  1. read the server's position;
  2. sync the local super stream for the server (limit 50);
  3. send the events as one transaction whose id is the position;
  4. store the new position, checking the lock inside the same write.
- **Federation joins** (`routes/federation/room_member.go`). `make_join`
  prepares a join template. `send_join` then does two transactions:
  1. a read transaction returns the room state;
  2. a write transaction sends the join.
- **Accounts** (`databases/accounts`, `routes/client/account.go`,
  `middleware/auth.go`). `/register` and `/login` each run one write
  transaction. It creates the user (register only) and replaces the device's
  tokens: the old tokens are cleared and new ones issued. It also creates the
  device. The auth middleware resolves a bearer token to a user and device,
  and rejects it when it is unknown or expired.

## Modules

| Module | Models | State | Actions |
|---|---|---|---|
| `Versionstamp` | `types/version.go`, the ttv user version of `util/database.go` | none | operators: order, zero, range membership (`GetVersionRange`), the from bump |
| `RoomsStore` | `util/database.go`, `superstream.go` (writes), `receipts_send.go`, the membership projection (spec) | commit version, wall clock, per-writer clock read, ttv, both super streams, receipt pointers, receipts, memberships, membership changes | `BeginWrite` (the body runs and reads `time.Now()`), `SendEvent`, `SendReceipts` (the commit, with all of the body's writes and the ttv entry) |
| `RoomsSync` | `rooms_sync.go` `SyncRoomsForUser`/`syncRoomEvents`, `superstream.go` pagination, `databases/sync.go` | per syncing user: phase, cursor, from, V\*, windows, pending goroutines, fetched items, delivered entries | `SyncSnapshot`, `SyncPaginate` (one per window, in any order, interleaved with writers), `SyncFinish` |
| `SyncContract` | the abstract sync contract of spec 4.7 (no code of its own) | per client: cursor and delivered entries; the latest write version; the entries each client may see | `Commit`, `Sync` |
| `SyncRoute` | `routes/client/sync.go`, `databases/sync_init.go`, `rooms_sync_init.go`, `types/sync.go` | `RoomsSync` plus: whether each client has a cursor, the initial sync's cursor, failed responses | `RequestOnEmptyStore` (the empty-ttv panic), `RequestInitialSync`, `RequestSync`, `Respond` (empty responses take the `IsEmpty` panic path) |
| `FederationSender` | `workers/federation_sender.go`, `servers.go`, `servers/servers.go`, `rooms_sync.go` `SyncRoomsForServer` | `RoomsSync` plus: lock owner per server, per-process sender phase, read position, batch, next version, empty-poll count, stored positions, the remote's received transactions | `AcquireAndStart`, `SyncForServer`, `ServerReadFails` (a failed read ends the `trySend`, when `ReadFailures`), `SendAndStore`, `Wake`, `LeaseExpires` |
| `JoinRoute` | `routes/federation/room_member.go` `MakeJoin`/`SendJoin`, `events_get.go` state read | `RoomsStore` plus: per request phase, room, user, the state read, the responses sent | `MakeJoin`, `MakeJoinRejected`, `SendJoinReadState`, `SendJoinCommit`, `SendJoinFails` |
| `Accounts` | `databases/accounts` (users, tokens, devices), `routes/client/account.go`, `middleware/auth.go`, `routes/debug/debug_entity.go` `DebugGetUser` | users, devices, the four token subspaces `at`, `atd`, `ref`, `rfd`, the clock, history of issued tokens | `RegisterWithPassword`, `LoginWithPassword`, `RequestRejected`, `Tick`; the debug user route is the read operator `DebugGetUser` |
| `MC_*` | model values and bounds for TLC | | |

How the code maps to the model:

- **Write transactions.** A write transaction is two steps:
  - `BeginWrite` is where the body reads the clock.
  - The commit applies every write of the handler at once. This includes the
    trailing ttv write in `DoWriteTransaction`.

  Another writer may commit between the two steps. That is the only way the
  ttv order and the commit order can differ, and it is why the split is
  there.
- **Read transactions.** Each read transaction is one atomic step. The code
  reads through `txn.Snapshot()`, and nothing it reads changes during the
  transaction.
- **Handlers with several transactions.** A handler that runs several
  transactions is several steps. Examples are the sender loop, `send_join`,
  and the per-room reads of the sync. Other writers commit between them, and
  the handler keeps the state it read in variables of its own.
- **Error paths.** A transaction whose body returns an error commits
  nothing. Such a request is a step that changes nothing: a rejected login or
  registration, a refused make_join, a failed send_join. A body that reports
  a rejection in its result still commits. Rejected receipts and rejected
  federated joins are such bodies, so they still add a ttv entry.
- **Abstracted data:**
  - Event ids are identified with their versionstamps.
  - Users, rooms, receipt (type, thread) keys, servers, devices and tokens
    are model values. A random token or device id is a fresh value from a
    small pool.
  - An event's content is reduced to its kind: message, join or leave.
  - The clock of the accounts model counts ticks. A token lifetime is a
    number of ticks.

## Runs

| Run | Module, cfg | Expect | Checks |
|---|---|---|---|
| `sync_safety` | `MC_RoomsSync.cfg` | pass | `TypeOK`. `CompleteBelowCursor`: the cursor never passes an entry the user may see that has not been returned. `ReceiptStreamUnique`: at most one live receipt per key in each stream, and the pointer names it. `LocalStreamMirrorsMain`: the local stream is exactly the local-sender part of the main stream. `SyncEventuallyCatchesUp`: once writes stop, every entry the user may see is returned. `ImplementsSyncContract`: `RoomsSync` refines `SyncContract` (see Refinement). `NoRedeliveryAcrossSyncs`: every entry a sync returns lies strictly above the cursor the client passed in. |
| `sync_history_leak` | `MC_RoomsSync_leak.cfg` | violation | `DeliveredWhileJoined`: sync returns only entries written while the user was joined |
| `sync_ttv_stale` | `MC_RoomsSync_ttv.cfg` | violation | `SyncEventuallyCatchesUp`, with two writers |
| `route_no_loss` | `MC_SyncRoute.cfg` | pass | `RouteTypeOK`. `RouteEventuallyCatchesUp` (under `RouteFairSpec`): once writes stop, a client that keeps polling is eventually sent every entry above its initial cursor. |
| `fed_no_loss` | `MC_FederationSender.cfg` | pass | `FedTypeOK`. `NoLossBelowPosition`: every local event of a room the server was in, at or below its stored position, reached the server. |
| `fed_lease` | `MC_FederationSender_lease.cfg` | pass | `PositionNeverRegresses`: a stored position never moves back, with two processes and lease expiry. |
| `fed_txn_id_reuse` | `MC_FederationSender_txnid.cfg` | violation | `NoLossBelowPosition`, with sends that time out but are delivered late |
| `fed_sender_livelock` | `MC_FederationSender_loop.cfg` | violation | `SenderStopsWhenIdle`: once a sync finds nothing new, some round of the loop can end the sender |
| `join_handshake` | `MC_JoinRoute.cfg` | pass | `JoinTypeOK`. `SendJoinStateExcludesOwnJoin`: a response never lists its own join. |
| `join_state_stale` | `MC_JoinRoute_state.cfg` | violation | `SendJoinStateIsStateBeforeJoin`: the returned state is the state just before the join |
| `accounts_tokens` | `MC_Accounts.cfg` | pass | `AccountsTypeOK`. `TokenNamesExistingDevice`: the middleware admits a request only as a registered user on an existing device. `ExpiringTokenStops`: a token issued with a refresh token is refused once its lifetime has passed. `DebugListsCurrentTokens`: the debug user route lists, per device, exactly the prefix of the device's latest access token. |
| `accounts_relogin` | `MC_Accounts_relogin.cfg` | violation | `ReloginRevokesOldToken`: only a device's latest access token authenticates |

What the runs show:

- **`sync_safety`: everything holds with a single writer**, for every
  interleaving of writers and sync steps within the bounds. Receipts are
  replaced between the snapshot and the pagination goroutines, and batches
  are cut at the limit. `NoRedeliveryAcrossSyncs` is an action property: the
  delivered history is a set, so neither `CompleteBelowCursor` nor the
  refinement can see an entry returned twice. It is the
  `UserVersion += 1` of `rooms_sync.go:75` that makes the range start
  exclusive; without it the entry at the cursor comes back. The bump is a
  uint16 increment, but every cursor the code hands out is V\*, a ttv key
  with user version 65534, so it never wraps.
- **`sync_history_leak`: the first sync after a join returns history from
  before the join.** In the trace, b joins r1, then a joins r1, and a's next
  sync returns b's join.

  The cause is in `rooms_sync.go:101`. The membership change is looked up by
  a tuple without the event id, but the current membership's tuple carries
  the join event id. So the join does not narrow the current window; it adds
  a window of its own. For the same reason, a room joined within the window
  is paginated twice, and a batch can hold the same entry twice.
- **`sync_ttv_stale`: a commit can stay out of sync indefinitely.** The trace:
  1. Writer w1 reads the clock, then w2 reads it.
  2. w2 commits, then w1 commits.
  3. The greatest ttv key is w2's, so V\* stays below w1's commit.

  No sync returns w1's event until another write commits. Spec §4.7 says V\*
  is the latest committed version.
- **`route_no_loss`: a polling client catches up.** An incremental sync with
  nothing new is answered with an error (the `IsEmpty` panic) and the client
  retries with the same `since`. The liveness property shows that this path
  never traps a client below entries it should get: only a truly empty sync
  takes it. A first request on an empty store also fails
  (`RequestOnEmptyStore`) and is retried.
- **`fed_no_loss` and `fed_lease`: the federation sender is safe when sends
  either succeed or fail visibly.** Within the bounds:
  - nothing at or below a stored position is missing at the remote;
  - positions never move back, even when two processes race for a server's
    lock and a lease expires mid-round.

  The lock check inside the position write (`checkUpdateLock`) is what keeps
  positions monotone. Its mutant shows this.
- **`fed_txn_id_reuse`: events can be lost for good.** The transaction id is
  the base64 of the *from* position (`federation_sender.go:288`). The trace:
  1. A send times out, but the remote accepted it late.
  2. A retry starts from the same position. Its batch is larger, but it uses
     the same id.
  3. The remote drops the retry as a duplicate.
  4. The position advances past events the remote never got.

  A lease loss or a failed position write after a successful send leads to
  the same retry.
- **`fed_sender_livelock`: the sender never goes idle.** Every position write
  is a write transaction, so it adds a ttv entry, which moves V\*. The next
  sync therefore never returns `nextVersion == from`. The loop never reaches
  an empty poll, and the ten-empty-polls stop in
  `federation_sender.go:254` is dead.
- **`join_handshake`: a send_join never returns its own join.** The state
  is read before the join is sent, with two overlapping exchanges and a
  writer. Two exchanges for the same user can both pass make_join; whether
  the second join commits is decided by the authorisation inside
  `SendFederatedEvents`, which is not under `src/`, so no property is
  stated about it.
- **`join_state_stale`: the state a send_join returns can be stale.** The
  handler reads the state, and only then sends the join in its own
  transaction (`room_member.go:180`). A member event committed in between is
  neither in the response nor after the join. The joining server never
  learns it.
- **`accounts_tokens`: device and expiry handling hold.** Register and
  login, with or without a device id and with or without a refresh token,
  always leave the token's device in place. An expiring token is refused
  from the first tick past its lifetime. The by-device index is cleared
  correctly, so the debug user route shows one token per device, the latest.
  Together with `accounts_relogin` this means the debug view hides the old
  tokens that still authenticate. `TokenPrefix` maps t1 and t2 to the same
  seven characters, so a listing that kept an old entry is caught even when
  prefixes collide.
- **`accounts_relogin`: old access tokens are never revoked.** The trace is
  three states: register on d1, log in again on d1, and the first token
  still authenticates.

  `TxnClearUserDeviceTokens` clears `at.Pack({kv.Value})`
  (`tokens.go:146`, and the same for refresh tokens at line 138). But the
  by-device index keeps the token in its key and has an empty value. The
  index entry goes; the token does not. With the clear taking the token from
  the key (`TxnClearUserDeviceTokensByKey` in `Accounts.tla`), the property
  holds.

Two more disagreements were seen while modelling. A unit test reaches each
one, so no run is spent on them. The model still encodes both:
- `IsEmpty` dereferences the nil `DeviceLists` of every incremental response
  with nothing new (`types/sync.go:61`). The request fails instead of
  waiting, so the wait on the notifier (`routes/client/sync.go:64`) is never
  reached. In the model this is the error path of `Respond`.
- The initial sync returns only state and receipts, with no timeline. Its
  `next_batch` is V\*, so messages sent before it are never delivered. Spec
  §8 scenario 1 expects the timeline. No run checks this: `RoomsSync` has
  no initial sync, and the route's properties count only entries above the
  initial cursor.

Other hazards met while modelling that no run checks (they are listed in
`PROJECT.json` with the reason):
- **The server-side windows leak history.** `SyncRoomsForServer` keys its
  windows by membership tuple (`rooms_sync.go:101`; the TODO at line 104
  says as much). A server that joins and leaves a room within one interval
  gets two windows, [join, V\*) and [position, leave). Their union covers
  events from before the join and after the leave. With a property "only
  events from while a member of the server was joined reach it" added to
  `FederationSender`, TLC found a 10-step trace on `MC_FederationSender.cfg`:
  1. a creates r1 at version 1;
  2. b on s2 joins at version 2 and leaves at version 3;
  3. the sender starts from position zero and sends s2 the event of
     version 1.

  This is the server-side twin of `sync_history_leak`. No run slot is left
  for it.
- **A hint can be lost when a sender exits** (`federation_sender.go:176`). A
  hint that arrives between the exit decision and `delete(serverSenders, ...)`
  starts no sender. In the model the exit is reached through
  `ServerReadFails` (a read of `trySend` failing ten times), since the
  livelock above keeps every poll non-empty. Hints are not modelled:
  `AcquireAndStart` can always fire on an idle server.
- **A sender that lost its lease keeps sending, and events can arrive
  twice.** `sendEventsToServer` calls `lock.Refresh()` at the top of each
  iteration and ignores its result (`federation_sender.go:238`). Only the
  position write checks the lock. A property "no two accepted transactions
  share a PDU", checked on `MC_FederationSender_lease.cfg`, fails in 14
  states:
  1. b on s2 joins r1; p1 takes s2's lock, its lease runs out, p2 takes it;
  2. p2 syncs from zero and gets an empty batch (b's join is not local);
  3. a joins r1; p1, still running, syncs from zero and gets a's join;
  4. p1 sends it under id zero and the remote accepts; p1's position write
     fails the lock check;
  5. p2 stores the position its empty batch reached without sending;
  6. p2 syncs from that position, gets a's join, and sends it again under a
     new id, which the remote accepts.

  Receiving servers ignore a PDU they already have, so this costs traffic,
  not correctness, and the property is not kept. What must not happen
  instead, a stored position moving back, is `PositionNeverRegresses`.
- **Senders can outlive `Stop`.** `handleServersLoop` and each sender call
  `wg.Add(1)` inside their own goroutine (`federation_sender.go:94`, `:158`).
  `Stop`'s `wg.Wait()` can return before a sender that a hint was starting
  has added itself. Process start and stop are not modelled.
- **Receipts publish an empty change.** `SendReceipts` passes `res.change`
  to the notifier (`receipts_send.go:97`), but nothing assigns that field, so
  no subscriber is woken by a receipt. Spec §4.6 says a hint is published
  for every accepted receipt's (user, room). Today the only waiter it would
  wake, the `/sync` long-poll, is unreachable (see `IsEmpty` above).
- **A read error in a sync goroutine ends the process.**
  `syncRoomEvents` (`rooms_sync.go:152`) and `InitRoomsForUser`
  (`rooms_sync_init.go:60`) call `panic(err)` inside goroutines. The HTTP
  recovery middleware does not cover those, so one slow read crashes the
  server. Spec §9 says the siblings are cancelled and the error returned. The
  sync model's reads do not fail, so no property covers this.
- **Code reading only, not checked.**
  - The receipt clear in `superstream.go:162` packs a complete versionstamp
    with `PackWithVersionstamp`. The FDB Go binding rejects a tuple without an
    incomplete versionstamp, so replacing a receipt would fail. This could
    not be confirmed without the bindings' source. The model treats the clear
    as the spec says.
  - The receipt route lacks `RequireUserAuth`, so `GetRequestUserID` panics
    on an unauthenticated request.
  - For media:
    - `DownloadThumbnail` of unknown media dereferences nil;
    - an upload to an existing id overwrites content that was already
      uploaded;
    - the direct upload path never sets `UploadedAt`.

Every property of a passing run has a mutant in `PROJECT.json`: a plausible
bug in a mapped definition, which TLC catches under the run's own cfg.

### Bounds

- **Rooms sync.** One syncing local user `a`, one remote user `b`, two rooms,
  one receipt key, `Limit = 2` and `MaxCommits = 4` (`MaxCommits = 3` with two
  writers). Why this is enough:
  - Two rooms and `Limit = 2` are the smallest setting where the per-room cut
    and the global cut differ.
  - Four commits cover join, message, receipt and receipt replacement; join
    then leave; and two users joining one room.
  - Two writers are the smallest setting where the clock order and the
    commit order differ.
- **Federation sender.** A local and a remote user on servers `hs1` and
  `s2`, `ServerLimit = 2` (the sender's batch limit, 50 in the code) and two
  empty polls. No user syncs, so the user `Limit` plays no part:
  - `fed_no_loss`: one process, two rooms and five commits (3.0 million
    states, under two minutes). With `s2` in both rooms, three local entries
    above the position are cut to two across rooms, the case where the
    per-room cut and the global cut differ.
  - `fed_lease`: two processes with lease expiry, one room and four commits.
  - The two violation runs keep one room; their traces need no more.

  `ReadFailures` is on in every sender run except `fed_lease`. There, failed
  reads only add more ways to end a round, which lease expiry already
  covers, and they take the state space to over five million states.

  `ServerLimit = 2` lets a retry carry a larger batch than the send it
  repeats within the commit bound, which `fed_txn_id_reuse` needs.
- **Join handshake.** Two requests, one writer, one room and four commits.
  This allows two overlapping exchanges for `b` plus a leave and a re-join.
- **Accounts.** Two users, two device ids, four tokens (two logins with
  refresh tokens, or four without), a lifetime of one tick and a clock up to
  three.

`MaxCommits` caps the commit counter, which also bounds the wall clock. A
write past the cap takes the code's error path where the code has one: a
failed position update, a failed send_join.

### Fairness

`FairSpec` (rooms sync) puts weak fairness on each syncing user's sync
steps:
- A started `syncRoomEvents` runs to completion. Its goroutines are joined by
  `wg.Wait()`.
- A client keeps calling `/sync` with the cursor it was given.

`RouteFairSpec` (client sync route) puts weak fairness on each client's
steps: the client calls `/sync` again after every answer, an error included,
and a started request runs to its response.

Writers get no fairness: nothing obliges anyone to write. The other modules
check safety only and assume no fairness. The sender's liveness question is
answered by the `fed_sender_livelock` invariant, which no fairness could
rescue.

Eventual delivery to a remote server is not checked as a passing property
either. Even with weak fairness on the sender and reliable sends, it fails
for a known reason: a send is accepted, the position write then fails (the
commit bound, a lost lease or a transient error), and a new event arrives.
The resend carries the same transaction id, and the remote drops it. That is
the `fed_txn_id_reuse` finding, so it gets no second run.

**Crashes.** Nothing in the sender is persisted except the stored positions
and the lock. So a crashed process is one that stops taking steps, which the
model already allows because it has no fairness. `LeaseExpires` then frees
its lock, and a restarted process is a fresh `AcquireAndStart`. A crash
between the send and the position write is the late-accepted send of
`fed_txn_id_reuse`.

### Refinement

`SyncContract` states what incremental sync promises a client (spec 4.7:
"no loss, no duplication across successive syncs"). It has no windows,
transactions or pagination:
- one `Sync(c)` step moves c's cursor forward, never past the latest
  published version `top`;
- it returns only entries between the old and the new cursor;
- it returns every entry due to c that the cursor passes;
- a `Commit` makes entries due only above `top`, and may retire entries (a
  replaced receipt).

`RoomsSync` maps onto it as follows (the `Contract == INSTANCE SyncContract
WITH ...` at the end of `RoomsSync.tla`):
- `top` is V\* (`TxnGetLatestWriteVersion`), or zero before any write;
- `due[c]` is `DueTo(c)`, the live entries c may see;
- `cursor` and `delivered` are the same variables.

`SyncSnapshot` and `SyncPaginate` are stutter steps of the contract, and
`SyncFinish` is its `Sync`. The run `sync_safety` checks the property
`ImplementsSyncContract == Contract!ContractSpec`. The contract's actions
are relations between primed and unprimed state, so TLC checks them as
action properties of the detailed behaviour.

It holds with one writer. A mutant that takes the cursor from the
second-last entry of a full batch duplicates an entry, and TLC catches it.
With two writers, V\* can lag a commit (`sync_ttv_stale`), and the contract
fails in four steps. Writer w1 commits version 1 at clock 1, then w2
commits version 2 at clock 0. V\* stays at version 1, so the second commit
does not raise `top`, and the entries it makes due lie above it. That disagreement is already the `sync_ttv_stale` finding,
so no run is spent on it. `SyncRoute` is not mapped: its initial sync drops
the timeline, which the contract forbids.

## Not modelled, and why

- **The notifier** (`notifier/notifiers.go`). The file only fans
  `Subscribe` and `Unsubscribe` out to the per-kind notifiers. The notifier
  itself and its publishers for events are not under `src/`. Of its two
  waiters, the `/sync` wait is dead code because of the `IsEmpty` panic, and
  the sender's hints are over-approximated by an always-enabled
  `AcquireAndStart`.
- **Invites** (`SignInvite`). The handler verifies and signs the event, then
  calls `SendFederatedOutlierMembershipEvent`, which is not under `src/`.
- **Event reads and key codecs** (`events_get.go` beyond the current state,
  `events/events.go`). The lookups these call, state at an event and the
  auth-chain walk, are not under `src/`. What is under `src/` is stateless
  key and range building, which the model abstracts to sets keyed by room,
  user and version.
- **The other debug routes** (`routes/debug`) call `InitForUser`, `SyncForUser`
  and `SyncForServer`, which are modelled, with the request's `limit`.
- **Media and datastores.** Media has a lifecycle (create, upload,
  download). But its database code is not under `src/`, and spec.md puts
  media out of scope. The problems seen there are sequential (see above), so
  a unit test reaches them. Datastores are pure I/O.
- **HTTP wiring, configuration and data types** with their encodings.
- **Code outside `src/`.** The distributed lock, event authorisation and the
  users directory's membership projection are modelled from the spec and
  marked `spec_modelled` in `PROJECT.json`.

## Further work

Every component whose state-changing code is under `src/` has a module, and
the twelve runs the project keeps are all in use. Two more findings above
have a property and a trace but no run of their own:
- the server-side history leak;
- the duplicate delivery.

Each would need one of the six violation runs to be retired. The lost hint
is known from reading the code only. The next steps,
if the run budget grows, are:

1. A violation run for the server-side history leak (`rooms_sync.go:101`),
   the twin of `sync_history_leak`.
2. Notifier hints as an explicit channel in `FederationSender`, replacing the
   always-enabled `AcquireAndStart`. That would make the lost hint at exit
   (`federation_sender.go:176`) and a sender stranded after ten failed reads
   checkable.
3. Invites as outlier memberships, once the code that stores them
   (`SendFederatedOutlierMembershipEvent`) is available.
