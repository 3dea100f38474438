---------------------------- MODULE MC_RoomsSync ----------------------------
(***************************************************************************)
(* Model of RoomsSync for TLC: one syncing local user, one remote user,   *)
(* two rooms, one receipt key.                                             *)
(***************************************************************************)
EXTENDS RoomsSync

CONSTANTS a, b, r1, r2, w1, w2, k1

MC_Rooms == {r1, r2}
MC_Users == {a, b}
MC_LocalUsers == {a}
MC_SyncUsers == {a}
MC_RKeys == {k1}

=============================================================================
