------------------------------ MODULE SyncRoute ------------------------------
(***************************************************************************)
(* The client /sync route (routes/client/sync.go ClientRoutes.Sync) over   *)
(* the rooms sync of RoomsSync, with the initial sync                     *)
(* (databases/sync_init.go InitForUser, rooms/rooms_sync_init.go).         *)
(*                                                                         *)
(* A request without "since" is an initial sync: the user's current        *)
(* memberships and V* in one snapshot, then per room the current state     *)
(* events and current read receipts, and next_batch = V*.  A request with  *)
(* "since" runs SyncForUser.  An empty result is checked with              *)
(* Sync.IsEmpty, which reads s.DeviceLists.Changed; NewSyncFromRooms never *)
(* sets DeviceLists, so the check dereferences nil, the handler panics and *)
(* the recovery middleware answers with an error.  The wait on the change  *)
(* channel after it is never reached, so the notifier subscription has no  *)
(* effect on what the client sees and is left out.                        *)
(***************************************************************************)
EXTENDS RoomsSync

VARIABLES
    hasSince,   \* hasSince[c]: the client holds a next_batch token
    initV,      \* the next_batch the initial sync returned
    failed      \* history: a request of c was answered with an error

routeVars == <<hasSince, initV, failed>>
routeAll == <<vars, routeVars>>

RouteTypeOK ==
    /\ TypeOK
    /\ hasSince \in [SyncUsers -> BOOLEAN]
    /\ initV \in [SyncUsers -> Version]
    /\ failed \in [SyncUsers -> BOOLEAN]

RouteInit ==
    /\ Init
    /\ hasSince = [c \in SyncUsers |-> FALSE]
    /\ initV = [c \in SyncUsers |-> ZeroVersionstamp]
    /\ failed = [c \in SyncUsers |-> FALSE]

----------------------------------------------------------------------------
(* Initial sync *)

\* TxnGetCurrentReceiptsForRoom: the current receipt of every user and
\* key in r, named by the stream entry its pointer holds.
CurrentRoomReceipts(r) ==
    { [room |-> r, v |-> rcVersion[r][u][k]] :
        <<u, k>> \in { <<x, y>> \in Users \X RKeys : rcVersion[r][x][y] # NoVersion } }

\* InitRoomsForUser: per current membership, the state events and the
\* receipts; no timeline events.  The per-room reads are separate
\* transactions in the code; with immutable events and a cursor of V*
\* reading them in the snapshot changes nothing the properties see.
InitRoomsForUser(c) ==
    UNION { CurrentRoomStateEvents(t.room) \cup CurrentRoomReceipts(t.room) :
              t \in TxnLookupUserMemberships(c) }

\* A /sync request without "since": InitForUser, next_batch = V*.
RequestInitialSync(c) ==
    LET lv == TxnGetLatestWriteVersion IN
    /\ ~hasSince[c]
    /\ phase[c] = "idle"
    /\ ttv # {}
    /\ cursor' = [cursor EXCEPT ![c] = lv]
    /\ delivered' = [delivered EXCEPT ![c] = @ \cup InitRoomsForUser(c)]
    /\ hasSince' = [hasSince EXCEPT ![c] = TRUE]
    /\ initV' = [initV EXCEPT ![c] = lv]
    /\ UNCHANGED <<storeVars, phase, fromV, latest, windows, pending, fetched, failed>>

----------------------------------------------------------------------------
(* Incremental sync *)

\* A /sync request with "since": SyncForUser starts syncRoomEvents.
RequestSync(c) ==
    /\ hasSince[c]
    /\ SyncSnapshot(c)
    /\ UNCHANGED routeVars

\* Mutant: a sync with receipts but no timeline event counts as empty.
IsEmptyTimelineOnly(batch) == \A i \in 1 .. Len(batch) : batch[i].kind # "ev"

\* Sync.IsEmpty: no room of the result has an item (syncRoomEvents only
\* creates a SyncRoom for a returned item).  Evaluating it on a Sync built
\* by NewSyncFromRooms panics before it can return TRUE.
IsEmpty(batch) == Len(batch) = 0

\* SyncForUser returned: a non-empty sync is answered with next_batch; an
\* empty one panics in IsEmpty and the client keeps its old since.
Respond(c) ==
    \/ /\ ~IsEmpty(SyncBatch(c))
       /\ SyncFinish(c)
       /\ UNCHANGED routeVars
    \/ /\ IsEmpty(SyncBatch(c))
       /\ phase[c] = "paginate"
       /\ pending[c] = {}
       /\ failed' = [failed EXCEPT ![c] = TRUE]
       /\ phase' = [phase EXCEPT ![c] = "idle"]
       /\ fetched' = [fetched EXCEPT ![c] = <<>>]
       /\ UNCHANGED <<storeVars, cursor, fromV, latest, windows, pending, delivered,
                      hasSince, initV>>

\* A request on a rooms database nothing has been written to yet: the
\* initial and the incremental sync both start with
\* TxnGetLatestWriteVersion, which indexes kvs[0] of the empty ttv range
\* and panics; the recovery middleware answers with an error.
RequestOnEmptyStore(c) ==
    /\ phase[c] = "idle"
    /\ ttv = {}
    /\ failed' = [failed EXCEPT ![c] = TRUE]
    /\ UNCHANGED <<vars, hasSince, initV>>

RouteStep(c) ==
    \/ RequestOnEmptyStore(c)
    \/ RequestInitialSync(c)
    \/ RequestSync(c)
    \/ \E t \in pending[c] : SyncPaginate(c, t) /\ UNCHANGED routeVars
    \/ Respond(c)

RouteNext ==
    \/ StoreNext /\ UNCHANGED <<syncVars, routeVars>>
    \/ \E c \in SyncUsers : RouteStep(c)

RouteSpec == RouteInit /\ [][RouteNext]_routeAll

\* A client keeps calling /sync, again after an error answer, and a started
\* request runs to its response: weak fairness on each client's steps.
RouteFairSpec == RouteSpec /\ \A c \in SyncUsers : WF_routeAll(RouteStep(c))

----------------------------------------------------------------------------
(* Properties *)

\* A client that keeps polling catches up (spec 4.7, with the route's own
\* loop): once writes stop, every entry the client may see that was
\* written after its initial sync's next_batch is eventually returned.
\* The route answers an empty sync with an error and the client retries
\* with its old since; this breaks if that path is taken for a sync that
\* has something to return, or if an answer loses its next_batch.
RouteEventuallyCatchesUp ==
    \A c \in SyncUsers :
        <>[](hasSince[c] =>
               \A d \in DueTo(c) : VersionLess(initV[c], d.v) => d \in delivered[c])

=============================================================================
