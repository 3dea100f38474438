------------------------------ MODULE JoinRoute ------------------------------
(***************************************************************************)
(* The federation join handshake served by this server                     *)
(* (src/internal/routes/federation/room_member.go): a remote server asks   *)
(* make_join for a join template, then send_join with the signed event.    *)
(* send_join reads the room state in one read transaction and then sends   *)
(* the join through SendFederatedEvents in a write transaction of its own; *)
(* other writers of the rooms store commit in between.                     *)
(*                                                                         *)
(* Each request is a handler with a phase.  Authorisation (done by         *)
(* PrepareLocalEvents and SendFederatedEvents, not under src/) is the      *)
(* store's membership rule EventAllowed.  Every room in Rooms exists, and  *)
(* the remote server asks with a supported room version.                   *)
(***************************************************************************)
EXTENDS RoomsStore

CONSTANTS
    Requests,   \* concurrent make_join/send_join exchanges
    NoRoom      \* model value: the request names no room yet

RemoteUsers == Users \ LocalUsers

VARIABLES
    jphase,     \* jphase[q]: "idle", "made" (template served), "read" (state read)
    jroom,      \* the room of request q
    juser,      \* the joining user of request q
    jstate,     \* the state events send_join read for its response
    responses   \* history: every successful send_join response

joinVars == <<jphase, jroom, juser, jstate, responses>>
allVars == <<storeVars, joinVars>>

StateEntry == [room : Rooms, v : Version]

JoinTypeOK ==
    /\ StoreTypeOK
    /\ jphase \in [Requests -> {"idle", "made", "read"}]
    /\ jroom \in [Requests -> Rooms \cup {NoRoom}]
    /\ juser \in [Requests -> RemoteUsers \cup {NoRoom}]
    /\ jstate \in [Requests -> SUBSET StateEntry]
    /\ responses \subseteq [user : RemoteUsers, room : Rooms, v : Version,
                            state : SUBSET StateEntry, before : SUBSET StateEntry]

JoinInit ==
    /\ StoreInit
    /\ jphase = [q \in Requests |-> "idle"]
    /\ jroom = [q \in Requests |-> NoRoom]
    /\ juser = [q \in Requests |-> NoRoom]
    /\ jstate = [q \in Requests |-> {}]
    /\ responses = {}

----------------------------------------------------------------------------
(* Helpers *)

\* Whether the event-send path accepts u's join to r (PrepareLocalEvents
\* at make_join, the auth checks of SendFederatedEvents at send_join).
JoinAuthorised(r, u) == EventAllowed(r, u, "join")

\* GetCurrentRoomStateEventsWithAuthChain: the current state events of r
\* (the auth chain is a function of them and is left out).
GetCurrentRoomStateEventsWithAuthChain(r) == CurrentRoomStateEvents(r)

\* Mutant: the state is read after the join is sent.
ReturnedStateAfterSend(q) == (GetCurrentRoomStateEventsWithAuthChain(jroom[q]))'

\* The state the send_join response carries: what was read before the send.
ReturnedState(q) == jstate[q]

----------------------------------------------------------------------------
(* Actions *)

\* GET make_join: the room exists and the version is supported; the join
\* template is prepared, which fails (403) unless the join is allowed.
MakeJoin(q, r, u) ==
    /\ jphase[q] = "idle"
    /\ JoinAuthorised(r, u)
    /\ jphase' = [jphase EXCEPT ![q] = "made"]
    /\ jroom' = [jroom EXCEPT ![q] = r]
    /\ juser' = [juser EXCEPT ![q] = u]
    /\ UNCHANGED <<storeVars, jstate, responses>>

\* GET make_join for a join that is not allowed: PrepareLocalEvents
\* returns an auth error, answered with M_FORBIDDEN; nothing changes.
MakeJoinRejected(q, r, u) ==
    /\ jphase[q] = "idle"
    /\ ~JoinAuthorised(r, u)
    /\ UNCHANGED allVars

\* PUT send_join, first part: GetRoom, VerifyEvent, then the state of the
\* room "before the new join event", read in its own transactions.
SendJoinReadState(q) ==
    /\ jphase[q] = "made"
    /\ jstate' = [jstate EXCEPT ![q] = GetCurrentRoomStateEventsWithAuthChain(jroom[q])]
    /\ jphase' = [jphase EXCEPT ![q] = "read"]
    /\ UNCHANGED <<storeVars, jroom, juser, responses>>

\* PUT send_join, second part: SendFederatedEvents in writer w's
\* transaction.  A rejected join is reported in the results (403) and the
\* transaction still commits; an accepted one is stored and answered with
\* the state read earlier.
SendJoinCommit(w, q) ==
    LET r == jroom[q]
        u == juser[q]
        ver == NextStamp(0)
    IN /\ jphase[q] = "read"
       /\ CanCommit(w)
       /\ UNCHANGED <<rcVersion, receipts, jroom, juser, jstate>>
       /\ IF JoinAuthorised(r, u)
          THEN /\ TxnAddEventToSuperStream(r, u, ver)
               /\ TxnUpdateUserMembership(r, u, "join", ver)
               /\ responses' = responses \cup
                     {[user |-> u, room |-> r, v |-> ver, state |-> ReturnedState(q),
                       before |-> CurrentRoomStateEvents(r)]}
          ELSE UNCHANGED <<stream, localStream, membership, memberEvent,
                           memberChanges, responses>>
       /\ DoWriteTransaction(w)
       /\ jphase' = [jphase EXCEPT ![q] = "idle"]

\* A send_join whose read or write transaction fails (ResponseErrorUnknown):
\* nothing is stored and the exchange ends.
SendJoinFails(q) ==
    /\ jphase[q] \in {"made", "read"}
    /\ jphase' = [jphase EXCEPT ![q] = "idle"]
    /\ UNCHANGED <<storeVars, jroom, juser, jstate, responses>>

JoinNext ==
    \/ StoreNext /\ UNCHANGED joinVars
    \/ \E q \in Requests :
          \/ \E r \in Rooms, u \in RemoteUsers :
                \/ MakeJoin(q, r, u)
                \/ MakeJoinRejected(q, r, u)
          \/ SendJoinReadState(q)
          \/ \E w \in Writers : SendJoinCommit(w, q)
          \/ SendJoinFails(q)

JoinSpec == JoinInit /\ [][JoinNext]_allVars

----------------------------------------------------------------------------
(* Properties *)

\* The send_join response never lists the join it answers: the handler
\* reads the state "before the new join event" (room_member.go:178) and
\* only then sends the join.
SendJoinStateExcludesOwnJoin ==
    \A resp \in responses : [room |-> resp.room, v |-> resp.v] \notin resp.state

\* The state a send_join returns is the room state just before the join
\* (the server-server API's "state of the room before the join event"):
\* the joining server learns every member event that precedes its join.
SendJoinStateIsStateBeforeJoin ==
    \A resp \in responses : resp.state = resp.before

=============================================================================
