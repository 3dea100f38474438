----------------------------- MODULE RoomsStore -----------------------------
(***************************************************************************)
(* The write side of the rooms database: the per-room super stream and     *)
(* local super stream, the receipt-version pointers, the receipts          *)
(* directory, the per-user membership projection and the time-to-version  *)
(* (ttv) index that every write transaction appends to.                    *)
(*                                                                         *)
(* A write transaction is two steps.  BeginWrite is the moment the         *)
(* transaction body runs and DoWriteTransaction reads time.Now() for its   *)
(* ttv key; the commit step applies all the body's writes atomically at    *)
(* the next commit version.  Between the two, other writers may commit:    *)
(* this is how the ttv order (wall-clock nanos) and the commit order come  *)
(* apart.  The body's reads are evaluated at commit, which is what FDB's   *)
(* conflict checking makes them equivalent to.                             *)
(***************************************************************************)
EXTENDS Integers, FiniteSets, Versionstamp

CONSTANTS
    Rooms,        \* room ids
    Users,        \* user ids, local and remote
    LocalUsers,   \* users whose homeserver is config.ServerName
    RKeys,        \* receipt (type, thread) pairs
    Writers,      \* concurrent write requests (HTTP handlers, federation)
    MaxCommits,   \* bound on the number of committed write transactions
    NoStamp,      \* model value: the writer has not begun a transaction
    NoVersion,    \* model value: no superStreamReceiptVersions entry
    NoReceipt,    \* model value: no byRoomTypeThread entry
    UnknownEvent  \* model value: an event id the server does not have

ASSUME LocalUsers \subseteq Users
ASSUME MaxCommits \in Nat \ {0}

Memberships == {"none", "join", "leave"}
EventKinds  == {"msg", "join", "leave"}
NoKey == "-"

\* A super stream entry: (room, version) -> (type, sender, receipt key).
Item == [room : Rooms, v : Version, kind : {"ev", "rc"},
         sender : Users, rkey : RKeys \cup {NoKey}]

VARIABLES
    commitVer,     \* commit version of the last committed transaction
    clock,         \* wall clock read by DoWriteTransaction (nanos)
    stamp,         \* stamp[w]: nanos writer w read when its body ran
    ttv,           \* ttv index: set of [nanos, version] entries
    stream,        \* superStream: stream[r] is a set of Items
    localStream,   \* localSuperStream: same shape
    rcVersion,     \* superStreamReceiptVersions[r][u][k]
    receipts,      \* receipts byRoomTypeThread[r][u][k] -> event id
    membership,    \* user membership projection: membership[u][r]
    memberEvent,   \* event id (version) of u's current membership in r
    memberChanges  \* userMembershipChanges[u]: set of [v, room, membership]

storeVars == <<commitVer, clock, stamp, ttv, stream, localStream, rcVersion,
               receipts, membership, memberEvent, memberChanges>>

StoreTypeOK ==
    /\ commitVer \in 0..MaxCommits
    /\ clock \in Nat
    /\ stamp \in [Writers -> Nat \cup {NoStamp}]
    /\ ttv \subseteq [nanos : Nat, version : Version]
    /\ stream \in [Rooms -> SUBSET Item]
    /\ localStream \in [Rooms -> SUBSET Item]
    /\ rcVersion \in [Rooms -> [Users -> [RKeys -> Version \cup {NoVersion}]]]
    /\ receipts \in [Rooms -> [Users -> [RKeys -> Version \cup {NoReceipt, UnknownEvent}]]]
    /\ membership \in [Users -> [Rooms -> Memberships]]
    /\ memberEvent \in [Users -> [Rooms -> Version \cup {NoVersion}]]
    /\ memberChanges \in [Users -> SUBSET [v : Version, room : Rooms,
                                           membership : Memberships]]

StoreInit ==
    /\ commitVer = 0
    /\ clock = 0
    /\ stamp = [w \in Writers |-> NoStamp]
    /\ ttv = {}
    /\ stream = [r \in Rooms |-> {}]
    /\ localStream = [r \in Rooms |-> {}]
    /\ rcVersion = [r \in Rooms |-> [u \in Users |-> [k \in RKeys |-> NoVersion]]]
    /\ receipts = [r \in Rooms |-> [u \in Users |-> [k \in RKeys |-> NoReceipt]]]
    /\ membership = [u \in Users |-> [r \in Rooms |-> "none"]]
    /\ memberEvent = [u \in Users |-> [r \in Rooms |-> NoVersion]]
    /\ memberChanges = [u \in Users |-> {}]

----------------------------------------------------------------------------
(* Helpers *)

\* Event ids known to the events directory (idToVersion): an event's id is
\* identified with its versionstamp, events are never removed.
KnownEvents ==
    { i.v : i \in { j \in UNION { stream[r] : r \in Rooms } : j.kind = "ev" } }

\* GetCurrentRoomStateEvents: the current member events of room r (the
\* member events are the only state the store model keeps).
CurrentRoomStateEvents(r) ==
    { [room |-> r, v |-> memberEvent[u][r]] :
        u \in { x \in Users : memberEvent[x][r] # NoVersion } }

\* Mutant: the ttv range read forwards instead of in reverse.
TxnGetFirstWriteVersion ==
    (CHOOSE e \in ttv : \A f \in ttv : e.nanos <= f.nanos).version

\* util.TxnGetLatestWriteVersion: the value of the ttv entry with the
\* greatest key, the key being the writer's wall-clock nanos.
TxnGetLatestWriteVersion ==
    (CHOOSE e \in ttv : \A f \in ttv : f.nanos <= e.nanos).version

\* The versionstamp the next commit assigns to user version uv.
NextStamp(uv) == <<commitVer + 1, uv>>

\* Commit of util.DoWriteTransaction for writer w: the transaction gets the
\* next commit version and its ttv entry nanos -> (commit, 65534).
DoWriteTransaction(w) ==
    /\ commitVer' = commitVer + 1
    /\ ttv' = ttv \cup {[nanos |-> stamp[w],
                         version |-> NextStamp(TtvUserVersion)]}
    /\ stamp' = [stamp EXCEPT ![w] = NoStamp]
    /\ UNCHANGED clock

CanCommit(w) ==
    /\ stamp[w] # NoStamp
    /\ commitVer < MaxCommits

----------------------------------------------------------------------------
(* Actions *)

\* The body of a write transaction starts: DoWriteTransaction reads
\* time.Now().UnixNano() for the ttv key of this transaction.
BeginWrite(w) ==
    /\ stamp[w] = NoStamp
    /\ commitVer + Cardinality({x \in Writers : stamp[x] # NoStamp}) < MaxCommits
    /\ stamp' = [stamp EXCEPT ![w] = clock]
    /\ clock' = clock + 1
    /\ UNCHANGED <<commitVer, ttv, stream, localStream, rcVersion, receipts,
                   membership, memberEvent, memberChanges>>

\* Mutant: the sender's server is not checked, every event is mirrored.
TxnAddEventToSuperStreamMirrorAll(r, u, ver) ==
    LET it == [room |-> r, v |-> ver, kind |-> "ev", sender |-> u, rkey |-> NoKey]
    IN /\ stream' = [stream EXCEPT ![r] = @ \cup {it}]
       /\ localStream' = [localStream EXCEPT ![r] = @ \cup {it}]

\* txnAddEventToSuperStream: the event goes to the room's super stream, and
\* to the local super stream when its sender is one of our users.
TxnAddEventToSuperStream(r, u, ver) ==
    LET it == [room |-> r, v |-> ver, kind |-> "ev", sender |-> u, rkey |-> NoKey]
    IN /\ stream' = [stream EXCEPT ![r] = @ \cup {it}]
       /\ localStream' = IF u \in LocalUsers
                         THEN [localStream EXCEPT ![r] = @ \cup {it}]
                         ELSE localStream

\* The membership projection a member event updates in the same
\* transaction: userMemberships[u, r] and userMembershipChanges[u, v].
TxnUpdateUserMembership(r, u, m, ver) ==
    /\ membership' = [membership EXCEPT ![u][r] = m]
    /\ memberEvent' = [memberEvent EXCEPT ![u][r] = ver]
    /\ memberChanges' = [memberChanges EXCEPT ![u] =
                            @ \cup {[v |-> ver, room |-> r, membership |-> m]}]

\* Authorisation of the event, abstracted to membership: only a member
\* sends messages or leaves, only a non-member joins.
EventAllowed(r, u, kind) ==
    IF kind = "join" THEN membership[u][r] # "join"
                     ELSE membership[u][r] = "join"

\* A write transaction persisting one event of user u in room r (local
\* send or accepted federated event), stamped with user version 0.
SendEvent(w, r, u, kind) ==
    LET ver == NextStamp(0) IN
    /\ CanCommit(w)
    /\ EventAllowed(r, u, kind)
    /\ TxnAddEventToSuperStream(r, u, ver)
    /\ IF kind = "msg"
       THEN UNCHANGED <<membership, memberEvent, memberChanges>>
       ELSE TxnUpdateUserMembership(r, u, kind, ver)
    /\ DoWriteTransaction(w)
    /\ UNCHANGED <<rcVersion, receipts>>

\* Mutant: the previous receipt entry is never cleared.
TxnAddReceiptToSuperStreamNoClear(r, u, k, ver) ==
    LET it == [room |-> r, v |-> ver, kind |-> "rc", sender |-> u, rkey |-> k]
    IN /\ stream' = [stream EXCEPT ![r] = @ \cup {it}]
       /\ localStream' = [localStream EXCEPT ![r] =
                             @ \cup (IF u \in LocalUsers THEN {it} ELSE {})]
       /\ rcVersion' = [rcVersion EXCEPT ![r][u][k] = ver]

\* txnAddReceiptToSuperStream: write the new entry (local stream too for a
\* local user), clear the entry the version pointer names from BOTH
\* streams, then point the pointer at the new entry.
TxnAddReceiptToSuperStream(r, u, k, ver) ==
    LET it   == [room |-> r, v |-> ver, kind |-> "rc", sender |-> u, rkey |-> k]
        prev == rcVersion[r][u][k]
        Clear(S) == IF prev = NoVersion THEN S ELSE {i \in S : i.v # prev}
    IN /\ stream' = [stream EXCEPT ![r] = Clear(@) \cup {it}]
       /\ localStream' = [localStream EXCEPT ![r] =
                             Clear(@) \cup (IF u \in LocalUsers THEN {it} ELSE {})]
       /\ rcVersion' = [rcVersion EXCEPT ![r][u][k] = ver]

\* Whether SendReceipts accepts the receipt: the user must be in the room,
\* and a local user's receipt must name an event we have.
ReceiptAllowed(r, u, target) ==
    /\ membership[u][r] = "join"
    /\ u \in LocalUsers => target \in KnownEvents

\* The receipts directory write of KeyValueForReceipt: one key per (room,
\* type, thread, user), so a new receipt overwrites the user's previous one.
TxnSetReceipt(r, u, k, target) == receipts' = [receipts EXCEPT ![r][u][k] = target]

\* RoomsDatabase.SendReceipts with the one receipt the client route sends.
\* A rejected receipt writes nothing, but the transaction still commits and
\* so still appends its ttv entry.
SendReceipts(w, r, u, k, target) ==
    LET ver == NextStamp(0) IN
    /\ CanCommit(w)
    /\ IF ReceiptAllowed(r, u, target)
       THEN /\ TxnSetReceipt(r, u, k, target)
            /\ TxnAddReceiptToSuperStream(r, u, k, ver)
       ELSE UNCHANGED <<receipts, stream, localStream, rcVersion>>
    /\ DoWriteTransaction(w)
    /\ UNCHANGED <<membership, memberEvent, memberChanges>>

StoreNext ==
    \E w \in Writers :
        \/ BeginWrite(w)
        \/ \E r \in Rooms, u \in Users :
              \/ \E kind \in EventKinds : SendEvent(w, r, u, kind)
              \/ \E k \in RKeys, t \in KnownEvents \cup {UnknownEvent} :
                    SendReceipts(w, r, u, k, t)

=============================================================================
