---------------------------- MODULE SyncContract ----------------------------
(***************************************************************************)
(* What incremental sync promises a client, without transactions, windows  *)
(* or pagination (spec 4.7: "no loss, no duplication across successive     *)
(* syncs when the client passes back next_from").                          *)
(*                                                                         *)
(* The store publishes versions in increasing order; `top` is the latest. *)
(* For every syncing client, `due` is the set of live stream entries the  *)
(* client may see.  A sync is one atomic step: the client's cursor moves  *)
(* forward, never past `top`; what it returns lies between the old and    *)
(* the new cursor; and every due entry the cursor passes is returned.     *)
(* Writes add due entries only above `top`, and may retire entries (a     *)
(* receipt that is replaced).                                              *)
(*                                                                         *)
(* RoomsSync implements this contract: see the refinement mapping there.  *)
(***************************************************************************)
EXTENDS Versionstamp

CONSTANTS
    Clients,    \* the users running a sync loop
    Rooms

VARIABLES
    top,        \* the latest committed write version
    due,        \* due[c]: the live [room, v] entries c may see
    cursor,     \* cursor[c]: the "since" version c passes back
    delivered   \* delivered[c]: every [room, v] returned to c so far

avars == <<top, due, cursor, delivered>>

\* Versions strictly after lo and at or before hi.
Between(v, lo, hi) == VersionLess(lo, v) /\ VersionLeq(v, hi)

ContractInit ==
    /\ top = ZeroVersionstamp
    /\ due = [c \in Clients |-> {}]
    /\ cursor = [c \in Clients |-> ZeroVersionstamp]
    /\ delivered = [c \in Clients |-> {}]

\* A write commits at a version above `top`; the entries it makes due lie
\* in (top, top'], and it may retire due entries.
Commit ==
    /\ VersionLess(top, top')
    /\ \A c \in Clients :
          \A d \in due'[c] \ due[c] : Between(d.v, top, top')
    /\ UNCHANGED <<cursor, delivered>>

\* One sync of client c, from the request to the response.
Sync(c) ==
    /\ VersionLeq(cursor[c], cursor'[c])
    /\ VersionLeq(cursor'[c], top)
    /\ delivered[c] \subseteq delivered'[c]
    /\ \A d \in delivered'[c] \ delivered[c] : Between(d.v, cursor[c], cursor'[c])
    /\ \A d \in due[c] : Between(d.v, cursor[c], cursor'[c]) => d \in delivered'[c]
    /\ \A o \in Clients \ {c} : cursor'[o] = cursor[o] /\ delivered'[o] = delivered[o]
    /\ UNCHANGED <<top, due>>

ContractNext == Commit \/ \E c \in Clients : Sync(c)

ContractSpec == ContractInit /\ [][ContractNext]_avars

=============================================================================
