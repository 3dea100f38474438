----------------------------- MODULE RoomsSync ------------------------------
(***************************************************************************)
(* Incremental sync of a local user (RoomsDatabase.SyncRoomsForUser /      *)
(* syncRoomEvents in src/internal/databases/rooms/rooms_sync.go) running   *)
(* against the rooms store of RoomsStore.                                  *)
(*                                                                         *)
(* One sync is three kinds of step, each its own read transaction in the   *)
(* code, and writers commit between them:                                  *)
(*   SyncSnapshot  - latest write version and current memberships (one     *)
(*                   snapshot), then the membership changes in             *)
(*                   [from, latest) and the per-MembershipTup windows;     *)
(*   SyncPaginate  - one goroutine per window, each a read transaction     *)
(*                   over the room's super stream, in any order;           *)
(*   SyncFinish    - merge, sort by version, cut at the limit, pick the    *)
(*                   next cursor, fetch the (immutable) events.            *)
(* The client keeps the returned version as its next "since" cursor.       *)
(***************************************************************************)
EXTENDS RoomsStore, SequencesExt

CONSTANTS
    SyncUsers,  \* local users running a sync loop
    Limit,      \* the sync "limit" query parameter
    NoEvent     \* model value: the event id a membership change carries

ASSUME SyncUsers \subseteq LocalUsers
ASSUME Limit \in Nat \ {0}

VARIABLES
    phase,      \* phase[c] \in {"idle", "paginate"}
    cursor,     \* cursor[c]: the client's since version for rooms ("r")
    fromV,      \* options.From of the running sync, after the bump
    latest,     \* latestVersion read in the snapshot
    windows,    \* membershipsWithRanges: MembershipTup -> [from, to]
    pending,    \* windows whose pagination goroutine has not run yet
    fetched,    \* allResults: items the finished goroutines returned
    delivered   \* history: [room, v] of every item returned to c

syncVars == <<phase, cursor, fromV, latest, windows, pending, fetched, delivered>>
vars == <<storeVars, syncVars>>

\* types.MembershipTup: (room, event id, membership).
MembershipTup == [room : Rooms, event : Version \cup {NoEvent}, membership : Memberships]
Window == [from : Version, to : Version]

TypeOK ==
    /\ StoreTypeOK
    /\ phase \in [SyncUsers -> {"idle", "paginate"}]
    /\ cursor \in [SyncUsers -> Version]
    /\ fromV \in [SyncUsers -> Version]
    /\ latest \in [SyncUsers -> Version]
    /\ \A c \in SyncUsers : DOMAIN windows[c] \subseteq MembershipTup
    /\ pending \in [SyncUsers -> SUBSET MembershipTup]
    /\ fetched \in [SyncUsers -> Seq(Item)]
    /\ delivered \in [SyncUsers -> SUBSET [room : Rooms, v : Version]]

Init ==
    /\ StoreInit
    /\ phase = [c \in SyncUsers |-> "idle"]
    /\ cursor = [c \in SyncUsers |-> ZeroVersionstamp]
    /\ fromV = [c \in SyncUsers |-> ZeroVersionstamp]
    /\ latest = [c \in SyncUsers |-> ZeroVersionstamp]
    /\ windows = [c \in SyncUsers |-> <<>>]
    /\ pending = [c \in SyncUsers |-> {}]
    /\ fetched = [c \in SyncUsers |-> <<>>]
    /\ delivered = [c \in SyncUsers |-> {}]

----------------------------------------------------------------------------
(* Reads the sync performs *)

\* Mutant: the membership filter dropped, every room is listed.
TxnLookupUserMembershipsAnyRoom(c) ==
    { [room |-> r, event |-> memberEvent[c][r], membership |-> "join"] : r \in Rooms }

\* users.TxnLookupUserMemberships: the rooms c is currently joined to, keyed
\* by (room, event id of the join, "join").
TxnLookupUserMemberships(c) ==
    { [room |-> r, event |-> memberEvent[c][r], membership |-> "join"] :
        r \in { x \in Rooms : membership[c][x] = "join" } }

\* users.TxnLookupUserMembershipChanges(from, to): the change log entries of
\* c in [from, to), each carrying (room, membership) and no event id.
TxnLookupUserMembershipChanges(c, from, to) ==
    { ch \in memberChanges[c] : InVersionRange(ch.v, from, to) }

ChangeTup(ch) == [room |-> ch.room, event |-> NoEvent, membership |-> ch.membership]

\* The window of one MembershipTup after the loop over the changes: every
\* change with that tuple assigns "from" (a join) or "to" (anything else),
\* so the change with the greatest version wins.
MembershipWindow(t, changes, from, to) ==
    LET mine == { ch \in changes : ChangeTup(ch) = t }
        last == CHOOSE ch \in mine : \A o \in mine : VersionLeq(o.v, ch.v)
    IN IF mine = {} THEN [from |-> from, to |-> to]
       ELSE IF t.membership = "join" THEN [from |-> last.v, to |-> to]
       ELSE [from |-> from, to |-> last.v]

\* SortVersioners' comparison: by versionstamp.
ItemLess(a, b) == VersionLess(a.v, b.v)

\* The first n elements of a sequence (Go's s[:MinInt(n, len(s))]).
FirstN(s, n) == SubSeq(s, 1, IF Len(s) < n THEN Len(s) ELSE n)

\* txnPaginateRoomSuperStream: the first limit entries of the room's super
\* stream in the window, in version order (an FDB range read with Limit).
TxnPaginateRoomSuperStream(r, w, limit) ==
    FirstN(SetToSortSeq({ i \in stream[r] : InVersionRange(i.v, w.from, w.to) },
                        ItemLess), limit)

\* txnPaginateRoomLocalSuperStream: the same over the local super stream.
TxnPaginateRoomLocalSuperStream(r, w, limit) ==
    FirstN(SetToSortSeq({ i \in localStream[r] : InVersionRange(i.v, w.from, w.to) },
                        ItemLess), limit)

\* types.SortVersioners over all results, cut at options.Limit.
SyncBatch(c) == FirstN(SortSeq(fetched[c], ItemLess), Limit)

\* Mutant: the cursor always moves to the latest version, batch full or not.
NextSyncVersionAlwaysLatest(batch, lv, limit) == lv

\* Mutant: the cursor taken from the item before the last one.
NextSyncVersionSecondLast(batch, lv, limit) ==
    IF Len(batch) = limit /\ Len(batch) > 1 THEN batch[Len(batch) - 1].v ELSE lv

\* The version returned as the next cursor: the last item's version when
\* the batch is full, the latest write version otherwise.
NextSyncVersion(batch, lv, limit) ==
    IF Len(batch) = limit THEN batch[Len(batch)].v ELSE lv

----------------------------------------------------------------------------
(* Sync actions *)

\* First read transaction of syncRoomEvents, and the membership changes
\* read bounded by the latest version it returned.
SyncSnapshot(c) ==
    LET from    == BumpUserVersion(cursor[c])
        lv      == TxnGetLatestWriteVersion
        mems    == TxnLookupUserMemberships(c)
        changes == TxnLookupUserMembershipChanges(c, from, lv)
        tups    == mems \cup { ChangeTup(ch) : ch \in changes }
    IN /\ phase[c] = "idle"
       /\ ttv # {}
       /\ phase' = [phase EXCEPT ![c] = "paginate"]
       /\ fromV' = [fromV EXCEPT ![c] = from]
       /\ latest' = [latest EXCEPT ![c] = lv]
       /\ windows' = [windows EXCEPT ![c] =
                         [t \in tups |-> MembershipWindow(t, changes, from, lv)]]
       /\ pending' = [pending EXCEPT ![c] = tups]
       /\ fetched' = [fetched EXCEPT ![c] = <<>>]
       /\ UNCHANGED <<storeVars, cursor, delivered>>

\* One pagination goroutine: its own read transaction of the room's stream.
SyncPaginate(c, t) ==
    /\ phase[c] = "paginate"
    /\ t \in pending[c]
    /\ fetched' = [fetched EXCEPT ![c] =
                      @ \o TxnPaginateRoomSuperStream(t.room, windows[c][t], Limit)]
    /\ pending' = [pending EXCEPT ![c] = @ \ {t}]
    /\ UNCHANGED <<storeVars, phase, cursor, fromV, latest, windows, delivered>>

\* wg.Wait() returned: merge, cut, return the batch and the next version.
SyncFinish(c) ==
    LET batch == SyncBatch(c) IN
    /\ phase[c] = "paginate"
    /\ pending[c] = {}
    /\ cursor' = [cursor EXCEPT ![c] = NextSyncVersion(batch, latest[c], Limit)]
    /\ delivered' = [delivered EXCEPT ![c] =
                        @ \cup { [room |-> batch[i].room, v |-> batch[i].v] :
                                   i \in 1..Len(batch) }]
    /\ phase' = [phase EXCEPT ![c] = "idle"]
    /\ fetched' = [fetched EXCEPT ![c] = <<>>]
    /\ UNCHANGED <<storeVars, fromV, latest, windows, pending>>

SyncStep(c) ==
    \/ SyncSnapshot(c)
    \/ \E t \in pending[c] : SyncPaginate(c, t)
    \/ SyncFinish(c)

SyncNext == \E c \in SyncUsers : SyncStep(c)

Next ==
    \/ StoreNext /\ UNCHANGED syncVars
    \/ SyncNext

Spec == Init /\ [][Next]_vars

\* A client keeps calling /sync with the returned cursor (the long-poll
\* wakes on every committed change and clients re-poll on timeout), and a
\* started sync runs to its end: weak fairness on each sync step.
FairSpec == Spec /\ \A c \in SyncUsers : WF_vars(SyncStep(c))

----------------------------------------------------------------------------
(* Properties *)

\* Whether u was a member of r at version v: the last membership change of
\* u in r at or before v is a join.
JoinedAt(u, r, v) ==
    LET before == { ch \in memberChanges[u] : ch.room = r /\ VersionLeq(ch.v, v) }
        last   == CHOOSE ch \in before : \A o \in before : VersionLeq(o.v, ch.v)
    IN before # {} /\ last.membership = "join"

\* No loss (SyncRoomsForUser's contract, spec 4.7): once the client's
\* cursor has passed a live super stream entry of a room it was joined to
\* at that version, the entry has been returned by some sync.  Breaks if
\* the limit cut, the from bump or the ttv version let the cursor skip it.
CompleteBelowCursor ==
    \A c \in SyncUsers, r \in Rooms :
        \A i \in stream[r] :
            (VersionLeq(i.v, cursor[c]) /\ JoinedAt(c, r, i.v))
                => [room |-> r, v |-> i.v] \in delivered[c]

\* Every live entry of a room c was joined to when it was written.
DueTo(c) ==
    { [room |-> i.room, v |-> i.v] :
        i \in { j \in UNION { stream[r] : r \in Rooms } : JoinedAt(c, j.room, j.v) } }

\* Repeated syncs catch up (spec 4.7 step 1: a sync reads up to the latest
\* committed version): once writes stop, every entry c may see is
\* eventually returned.  Breaks if the ttv lookup returns an older version
\* than the latest commit, so that the cursor never reaches an entry.
SyncEventuallyCatchesUp ==
    \A c \in SyncUsers : <>[](DueTo(c) \subseteq delivered[c])

\* Sync returns only what the user may see: every returned entry was
\* written while the user was joined to its room (spec 4.7 step 2 and
\* end-to-end scenario 2: "the join-to-leave window").
DeliveredWhileJoined ==
    \A c \in SyncUsers :
        \A d \in delivered[c] : JoinedAt(c, d.room, d.v)

\* Receipt de-duplication (spec 3 invariant 5 and 8.4): for every (room,
\* user, type/thread) at most one receipt entry is live in each stream, and
\* the version pointer names it.
ReceiptStreamUnique ==
    \A r \in Rooms, u \in Users, k \in RKeys :
        LET main  == { i \in stream[r] : i.kind = "rc" /\ i.sender = u /\ i.rkey = k }
            local == { i \in localStream[r] : i.kind = "rc" /\ i.sender = u /\ i.rkey = k }
        IN /\ Cardinality(main) <= 1
           /\ Cardinality(local) <= 1
           /\ main = {} <=> rcVersion[r][u][k] = NoVersion
           /\ \A i \in main : i.v = rcVersion[r][u][k]

\* The local super stream, read by the federation sender, is exactly the
\* part of the super stream whose sender is local, after every receipt
\* replacement as well as every append.
LocalStreamMirrorsMain ==
    \A r \in Rooms :
        localStream[r] = { i \in stream[r] : i.sender \in LocalUsers }

\* No re-delivery across successive syncs (spec 4.7: no duplication when
\* the client passes back next_from): every entry a sync returns lies
\* strictly above the cursor the client passed in.  syncRoomEvents makes
\* the range start exclusive only by "options.From.UserVersion += 1"
\* (rooms_sync.go:75), so this breaks if the bump is lost, or if a cursor
\* the server hands out has user version 65535 and the uint16 bump wraps.
\* The delivered history is a set and cannot show a re-read entry, so
\* CompleteBelowCursor and the contract refinement do not see this.
NoRedeliveryAcrossSyncs ==
    [][\A c \in SyncUsers :
         (phase[c] = "paginate" /\ phase'[c] = "idle")
            => \A i \in 1 .. Len(SyncBatch(c)) : VersionLess(cursor[c], SyncBatch(c)[i].v)]_vars

----------------------------------------------------------------------------
(* Refinement of the sync contract *)

\* The contract's latest version is what TxnGetLatestWriteVersion reads
\* (the zero versionstamp before the first write), its due entries are
\* DueTo, and the client's cursor and history are the same variables.  A
\* sync refines the contract's Sync at SyncFinish; SyncSnapshot and
\* SyncPaginate, and store steps that commit nothing, are stutters.
Contract == INSTANCE SyncContract WITH
    Clients   <- SyncUsers,
    top       <- IF ttv = {} THEN ZeroVersionstamp ELSE TxnGetLatestWriteVersion,
    due       <- [c \in SyncUsers |-> DueTo(c)],
    cursor    <- cursor,
    delivered <- delivered

\* RoomsSync implements the sync contract: every SyncFinish moves the
\* cursor forward but not past the latest write version, returns only
\* entries between the old and the new cursor (so the next sync, from the
\* bumped cursor, never needs them again), and returns every entry c may
\* see that the cursor passes; every commit makes entries due only above
\* the version it publishes.  Breaks if NextSyncVersion, the limit cut or
\* the from bump disagree about where a batch ends.
ImplementsSyncContract == Contract!ContractSpec

=============================================================================
