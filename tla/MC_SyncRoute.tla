---------------------------- MODULE MC_SyncRoute ----------------------------
(***************************************************************************)
(* Model of SyncRoute for TLC: one syncing local user, one remote user,   *)
(* two rooms, one receipt key.                                             *)
(***************************************************************************)
EXTENDS SyncRoute

CONSTANTS a, b, r1, r2, w1, k1

MC_Rooms == {r1, r2}
MC_Users == {a, b}
MC_LocalUsers == {a}
MC_SyncUsers == {a}
MC_RKeys == {k1}
=============================================================================
