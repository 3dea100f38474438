---------------------------- MODULE MC_JoinRoute ----------------------------
(***************************************************************************)
(* Model of JoinRoute for TLC: a local user a, a remote user b who joins   *)
(* over federation, one room, one receipt key.                             *)
(***************************************************************************)
EXTENDS JoinRoute

CONSTANTS a, b, r1, w1, w2, k1, q1, q2

MC_Rooms == {r1}
MC_Users == {a, b}
MC_LocalUsers == {a}
MC_RKeys == {k1}

=============================================================================
