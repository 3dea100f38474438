-------------------------- MODULE FederationSender --------------------------
(***************************************************************************)
(* The federation sender (src/internal/workers/federation_sender.go): in  *)
(* every process, one sender loop per remote server, run under the        *)
(* distributed lock of that server, reading the local super stream        *)
(* through SyncRoomsForServer from the server's stored position and       *)
(* storing the next position with UpdateServerPositions.                  *)
(*                                                                         *)
(* The store is RoomsStore's; the server-side sync reuses the window and   *)
(* pagination operators of RoomsSync and is taken as one atomic read (its *)
(* interleavings with writers are those RoomsSync checks for users).      *)
(* The lock (util/lock) is not under src/ and follows spec 4.8: a lease    *)
(* that may lapse while its holder still runs.                             *)
(***************************************************************************)
EXTENDS RoomsSync

CONSTANTS
    Servers,        \* server names, LocalServer among them
    LocalServer,    \* config.ServerName
    UserServer,     \* UserServer[u]: the homeserver of user u
    Procs,          \* babbleserv processes running a federation sender
    ServerLimit,    \* the "hardcoded spec limit" of 50 items per sync
    EmptyPollLimit, \* the sender exits after this many empty polls (10)
    SendOutcomes,   \* outcomes of a SendTransaction call the network allows
    LeaseExpiry,    \* whether a lease may run out under a live sender
    ReadFailures,   \* whether the sender's read transactions may fail
    NoOwner         \* model value: the lock key is absent

ASSUME UserServer \in [Users -> Servers]
ASSUME LocalUsers = { u \in Users : UserServer[u] = LocalServer }
ASSUME ServerLimit \in Nat \ {0} /\ EmptyPollLimit \in Nat \ {0}
ASSUME LeaseExpiry \in BOOLEAN /\ ReadFailures \in BOOLEAN
ASSUME SendOutcomes \subseteq {"ok", "lost", "late"} /\ "ok" \in SendOutcomes

RemoteServers == Servers \ {LocalServer}

VARIABLES
    lockOwner,  \* lockOwner[s]: the process whose lease on s's lock is live
    sphase,     \* sphase[p][s]: "idle" | "iter" | "synced" | "wait"
    local,      \* serverVersions["r"] held by the running sendEventsToServer
    batch,      \* the items SyncRoomsForServer returned (events and receipts)
    nextV,      \* the nextVersion it returned
    sent,       \* the "sent" flag of the running sendEventsToServer
    noSends,    \* consecutive trySend calls that sent nothing
    position,   \* position[s]: the stored serverPositions[s]["r"]
    remote,     \* remote[s]: transactions s accepted, as [id, pdus]
    posWrites   \* history: commit versions of UpdateServerPositions

fedVars == <<lockOwner, sphase, local, batch, nextV, sent, noSends, position, remote,
            posWrites>>
allVars == <<vars, fedVars>>

FedTypeOK ==
    /\ lockOwner \in [Servers -> Procs \cup {NoOwner}]
    /\ sphase \in [Procs -> [Servers -> {"idle", "iter", "synced", "wait"}]]
    /\ local \in [Procs -> [Servers -> Version]]
    /\ nextV \in [Procs -> [Servers -> Version]]
    /\ \A p \in Procs, s \in Servers : batch[p][s] \in Seq(Item)
    /\ sent \in [Procs -> [Servers -> BOOLEAN]]
    /\ noSends \in [Procs -> [Servers -> 0 .. (EmptyPollLimit - 1)]]
    /\ position \in [Servers -> Version]
    /\ remote \in [Servers -> SUBSET [id : Version, pdus : SUBSET Item]]
    /\ posWrites \subseteq 1 .. MaxCommits

FedInit ==
    /\ Init
    /\ lockOwner = [s \in Servers |-> NoOwner]
    /\ sphase = [p \in Procs |-> [s \in Servers |-> "idle"]]
    /\ local = [p \in Procs |-> [s \in Servers |-> ZeroVersionstamp]]
    /\ batch = [p \in Procs |-> [s \in Servers |-> <<>>]]
    /\ nextV = [p \in Procs |-> [s \in Servers |-> ZeroVersionstamp]]
    /\ sent = [p \in Procs |-> [s \in Servers |-> FALSE]]
    /\ noSends = [p \in Procs |-> [s \in Servers |-> 0]]
    /\ position = [s \in Servers |-> ZeroVersionstamp]
    /\ remote = [s \in Servers |-> {}]
    /\ posWrites = {}

----------------------------------------------------------------------------
(* The per-server membership projection (spec 4.4), derived from the      *)
(* user membership changes: a server is joined while one of its users is. *)

UsersOf(s) == { u \in Users : UserServer[u] = s }

\* Whether user u was joined to r just before version v.
JoinedBefore(u, r, v) ==
    LET before == { ch \in memberChanges[u] : ch.room = r /\ VersionLess(ch.v, v) }
        last   == CHOOSE ch \in before : \A o \in before : VersionLeq(o.v, ch.v)
    IN before # {} /\ last.membership = "join"

ServerJoinedAt(s, r, v) == \E u \in UsersOf(s) : JoinedAt(u, r, v)

\* serverMembershipChanges[s]: the versions where s's joined count leaves
\* or reaches zero, as (room, "join" | "leave").
ServerMembershipChanges(s) ==
    { [v |-> ch.v, room |-> ch.room,
       membership |-> IF ServerJoinedAt(s, ch.room, ch.v) THEN "join" ELSE "leave"] :
        ch \in { x \in UNION { memberChanges[u] : u \in UsersOf(s) } :
                   ServerJoinedAt(s, x.room, x.v)
                       # (\E u \in UsersOf(s) : JoinedBefore(u, x.room, x.v)) } }

\* servers.TxnLookupServerMemberships: (server, room) -> '' for joined
\* rooms only, so the tuple carries no event id.
TxnLookupServerMemberships(s) ==
    { [room |-> r, event |-> NoEvent, membership |-> "join"] :
        r \in { x \in Rooms : \E u \in UsersOf(s) : membership[u][x] = "join" } }

\* servers.TxnLookupServerMembershipChanges(from, ZeroVersionstamp): the
\* server variant passes a zero "to", so the range is open-ended.
TxnLookupServerMembershipChanges(s, from) ==
    { ch \in ServerMembershipChanges(s) : InVersionRange(ch.v, from, ZeroVersionstamp) }

----------------------------------------------------------------------------
(* SyncRoomsForServer as one read: syncRoomEvents with the server's        *)
(* memberships and changes, paginating the local super stream.            *)

ServerSyncWindows(s, from, lv) ==
    LET changes == TxnLookupServerMembershipChanges(s, from)
        tups    == TxnLookupServerMemberships(s) \cup { ChangeTup(ch) : ch \in changes }
    IN [t \in tups |-> MembershipWindow(t, changes, from, lv)]

\* The merged, sorted batch cut at the limit.
SyncRoomsForServerBatch(s, from) ==
    LET fromB == BumpUserVersion(from)
        ws    == ServerSyncWindows(s, fromB, TxnGetLatestWriteVersion)
        all   == FoldSet(LAMBDA t, acc :
                           acc \o TxnPaginateRoomLocalSuperStream(t.room, ws[t], ServerLimit),
                         <<>>, DOMAIN ws)
    IN FirstN(SortSeq(all, ItemLess), ServerLimit)

\* The PDUs of the transaction: the events of the batch; receipts land in
\* SyncRoom.Receipts, which the sender does not read.
PDUs(b) == { b[i] : i \in { j \in 1 .. Len(b) : b[j].kind = "ev" } }

\* What the remote server has accepted: it ignores a transaction whose id
\* it has already seen (Matrix transaction de-duplication).
RemoteHas(s) == UNION { t.pdus : t \in remote[s] }

Accept(s, id, pdus) ==
    remote' = IF \E t \in remote[s] : t.id = id THEN remote
              ELSE [remote EXCEPT ![s] = @ \cup {[id |-> id, pdus |-> pdus]}]

\* The commit budget of the model allows one more write transaction.
CommitBudgetLeft ==
    commitVer + Cardinality({x \in Writers : stamp[x] # NoStamp}) < MaxCommits

\* A write transaction whose body reads the clock at commit.
CommitNow ==
    /\ commitVer' = commitVer + 1
    /\ ttv' = ttv \cup {[nanos |-> clock, version |-> NextStamp(TtvUserVersion)]}
    /\ clock' = clock + 1


\* RoomsDatabase.GetServerPositions(s)["r"] with sendEventsToServer's
\* defaults: no stored map, or a map without "r", reads as the zero
\* versionstamp.
GetServerPositions(s) == position[s]

----------------------------------------------------------------------------
(* Sender actions of process p for remote server s *)

\* handleServersLoop hands s to maybeRunServerSender (initial positions or
\* a notifier hint) and lock.WithLockIfAvailable finds the lock free: the
\* loop starts, and its first trySend reads the stored positions.
AcquireAndStart(p, s) ==
    /\ sphase[p][s] = "idle"
    /\ lockOwner[s] = NoOwner
    /\ lockOwner' = [lockOwner EXCEPT ![s] = p]
    /\ sphase' = [sphase EXCEPT ![p][s] = "iter"]
    /\ local' = [local EXCEPT ![p][s] = GetServerPositions(s)]
    /\ sent' = [sent EXCEPT ![p][s] = FALSE]
    /\ noSends' = [noSends EXCEPT ![p][s] = 0]
    /\ UNCHANGED <<vars, batch, nextV, position, remote, posWrites>>

\* "if noSends >= 10" in sendEventsToServerLoop.
SenderExhausted(n) == n >= EmptyPollLimit

\* End of one trySend: count an empty poll, and after EmptyPollLimit of
\* them leave the loop, forget the sender and release the lock.
EndTrySend(p, s, didSend) ==
    LET n == IF didSend THEN 0 ELSE noSends[p][s] + 1 IN
    /\ noSends' = [noSends EXCEPT ![p][s] = IF SenderExhausted(n) THEN 0 ELSE n]
    /\ IF SenderExhausted(n)
       THEN /\ sphase' = [sphase EXCEPT ![p][s] = "idle"]
            /\ lockOwner' = IF lockOwner[s] = p
                            THEN [lockOwner EXCEPT ![s] = NoOwner] ELSE lockOwner
       ELSE /\ sphase' = [sphase EXCEPT ![p][s] = "wait"]
            /\ UNCHANGED lockOwner

\* Top of the loop of sendEventsToServer: lock.Refresh, then
\* SyncRoomsForServer from the held version.  An unchanged version ends
\* the trySend.
SyncForServer(p, s) ==
    LET b  == SyncRoomsForServerBatch(s, local[p][s])
        nv == NextSyncVersion(b, TxnGetLatestWriteVersion, ServerLimit)
    IN /\ sphase[p][s] = "iter"
       /\ ttv # {}
       /\ IF nv = local[p][s]
          THEN /\ EndTrySend(p, s, sent[p][s])
               /\ UNCHANGED <<batch, nextV, sent>>
          ELSE /\ sphase' = [sphase EXCEPT ![p][s] = "synced"]
               /\ batch' = [batch EXCEPT ![p][s] = b]
               /\ nextV' = [nextV EXCEPT ![p][s] = nv]
               /\ sent' = [sent EXCEPT ![p][s] = TRUE]
               /\ UNCHANGED <<lockOwner, noSends>>
       /\ UNCHANGED <<vars, local, position, remote, posWrites>>

\* A read of trySend fails (a transaction error or timeout):
\* GetServerPositions at its start (sendEventsToServer returns false), or
\* SyncRoomsForServer at the top of an iteration (it returns sent).  Both
\* end the trySend with the sent flag the iteration holds.
ServerReadFails(p, s) ==
    /\ ReadFailures
    /\ sphase[p][s] = "iter"
    /\ EndTrySend(p, s, sent[p][s])
    /\ UNCHANGED <<vars, local, batch, nextV, sent, position, remote, posWrites>>

\* Mutant: the transaction's error is not checked, the position moves on.
SendSucceededIgnoringError(outcome) == TRUE

\* sendTransactionToServer returned no error (or nothing was sent).
SendSucceeded(outcome) == outcome \in {"ok", "none"}

\* Mutant: UpdateServerPositions without the checkUpdateLock callback.
CheckUpdateLockDropped(p, s) == TRUE

\* lock.TxnRefresh inside the position write: the write aborts unless p
\* still holds s's lock.
CheckUpdateLock(p, s) == lockOwner[s] = p

\* sendTransactionToServer: transactionID is the base64 of the version it
\* is passed, which sendEventsToServer sets to roomsVersion, the from of
\* the sync.
TxnId(p, s) == local[p][s]

\* sendTransactionToServer with transaction id = the from version, then
\* UpdateServerPositions, whose checkUpdateLock aborts the write unless p
\* still owns the lock.  The send either succeeds, fails before the remote
\* saw it, or fails after the remote accepted it (a timeout racing the
\* answer); a failure ends the trySend.  A position write past the commit
\* budget takes the error path of UpdateServerPositions (return sent).
SendAndStore(p, s) ==
    LET pdus == PDUs(batch[p][s]) IN
    /\ sphase[p][s] = "synced"
    /\ \E outcome \in IF pdus = {} THEN {"none"} ELSE SendOutcomes :
         /\ IF outcome \in {"ok", "late"}
            THEN Accept(s, TxnId(p, s), pdus)
            ELSE UNCHANGED remote
         /\ IF SendSucceeded(outcome) /\ CheckUpdateLock(p, s) /\ CommitBudgetLeft
            THEN /\ CommitNow
                 /\ position' = [position EXCEPT ![s] = nextV[p][s]]
                 /\ local' = [local EXCEPT ![p][s] = nextV[p][s]]
                 /\ sphase' = [sphase EXCEPT ![p][s] = "iter"]
                 /\ posWrites' = posWrites \cup {commitVer + 1}
                 /\ UNCHANGED <<lockOwner, noSends>>
            ELSE /\ EndTrySend(p, s, TRUE)
                 /\ UNCHANGED <<commitVer, clock, ttv, position, local, posWrites>>
    /\ UNCHANGED <<stamp, stream, localStream, rcVersion, receipts, membership,
                   memberEvent, memberChanges, syncVars, batch, nextV, sent>>

\* The wake channel or the 30 s timer fires: the next trySend re-reads the
\* stored positions.
Wake(p, s) ==
    /\ sphase[p][s] = "wait"
    /\ sphase' = [sphase EXCEPT ![p][s] = "iter"]
    /\ local' = [local EXCEPT ![p][s] = GetServerPositions(s)]
    /\ sent' = [sent EXCEPT ![p][s] = FALSE]
    /\ UNCHANGED <<vars, lockOwner, batch, nextV, noSends, position, remote,
                   posWrites>>

\* The lease of s's lock runs out while its holder is still sending (a
\* send outlasting the 60 s lease): the key counts as absent.
LeaseExpires(s) ==
    /\ LeaseExpiry
    /\ lockOwner[s] # NoOwner
    /\ lockOwner' = [lockOwner EXCEPT ![s] = NoOwner]
    /\ UNCHANGED <<vars, sphase, local, batch, nextV, sent, noSends, position, remote,
                   posWrites>>

SenderStep(p, s) ==
    \/ AcquireAndStart(p, s)
    \/ SyncForServer(p, s)
    \/ ServerReadFails(p, s)
    \/ SendAndStore(p, s)
    \/ Wake(p, s)

FedNext ==
    \/ StoreNext /\ UNCHANGED <<syncVars, fedVars>>
    \/ \E p \in Procs, s \in RemoteServers : SenderStep(p, s)
    \/ \E s \in RemoteServers : LeaseExpires(s)

FedSpec == FedInit /\ [][FedNext]_allVars


----------------------------------------------------------------------------
(* Properties *)

\* The stored position of a server only moves forward (spec 4.8, scenario
\* 5: a process that lost the lock cannot move it): the lock check in
\* UpdateServerPositions and the version the sync returns together keep
\* it from going back, which would make the sender resend.
PositionNeverRegresses ==
    [][\A s \in RemoteServers : VersionLeq(position[s], position'[s])]_allVars

\* No loss: every local event below a server's stored position, in a room
\* the server was joined to when it was written, has been accepted by the
\* server.  Breaks if a transaction id is reused for a different payload
\* after a failed send, or the cursor skips an entry.
NoLossBelowPosition ==
    \A s \in RemoteServers, r \in Rooms :
        \A i \in { j \in localStream[r] : j.kind = "ev" } :
            (VersionLeq(i.v, position[s]) /\ ServerJoinedAt(s, r, i.v))
                => i \in RemoteHas(s)

\* The send loop of sendEventsToServer can end (spec 4.8 step 3: sleep,
\* and exit after ten empty polls): a sync that returns no item moves the
\* held version on only over some commit that is not one of the sender's
\* own UpdateServerPositions writes.  Otherwise "nextVersion ==
\* roomsVersion" is never reached and the loop writes the position forever.
SenderStopsWhenIdle ==
    \A p \in Procs, s \in RemoteServers :
        (sphase[p][s] = "synced" /\ batch[p][s] = <<>>)
            => \E c \in (local[p][s][1] + 1) .. nextV[p][s][1] : c \notin posWrites

=============================================================================
